-------------------------------- MODULE V9p --------------------------------
(***************************************************************************)
(* The 9P client and its bridge to the file system (kernel/fs/9p_client.c) *)
(* over the virtio transport (drivers/virtio/virtio_9p.c).                 *)
(*                                                                         *)
(* A system call on the mounted tree runs with interrupts off and polls    *)
(* for each answer, so calls do not overlap; but the host goes on between  *)
(* two requests of one call, and may create and remove what it shares.  So *)
(* a step of the model is one request with its answer and the code up to   *)
(* the next request.  The server refuses any request it likes.             *)
(*                                                                         *)
(* A call names a directory inode and a component: the components in front *)
(* of it are lookups of their own.  Only what decides about fids and       *)
(* inodes is kept: file contents, sizes and directory offsets are left     *)
(* out, and so are Tread, Twrite and Twstat on files, which change neither *)
(* (their messages are in Ninep).  The server, QEMU's, is external: a fid  *)
(* of its stands for a path.                                               *)
(***************************************************************************)
EXTENDS Ninep

CONSTANTS
  MAX_INODES,  \* inodes are 1..MAX_INODES-1; 1 is the mount point
  NFILE,       \* entries of the open-file table
  Name,        \* names of files on the host
  Paths,       \* bound: the paths there may be below the shared directory
  MaxFid,      \* bound: fids are not handed out past this one
  MAXREADS     \* reads v9p_loaddir issues for one directory (4096)

ASSUME V9pConstants ==
  /\ MAX_INODES \in Nat \ {0, 1} /\ NFILE \in Nat /\ MaxFid \in Nat
  /\ MAXREADS \in Nat /\ Paths \subseteq Seq(Name) \ {<<>>}

VARIABLES
  host,      \* the shared tree: what is at each path below the root
  srv,       \* the server's fids
  next_fid,
  inodes,    \* the inodes of the mounted tree
  ftable,    \* the fid of each open file of it, 0 if the entry is free
  call,      \* the call in progress
  load       \* v9p_loaddir, inside it

vars == <<host, srv, next_fid, inodes, ftable, call, load>>

NOFID == MaxFid + 1
Fids == 0..MaxFid
Inums == 1..(MAX_INODES - 1)
Files == 1..NFILE
MOUNT == 1

(***************************************************************************)
(* The server and the host's file system                                   *)
(***************************************************************************)
NoSrvFid == [live |-> FALSE, path |-> <<>>, open |-> FALSE, seen |-> {}]
SrvFid(p) == [live |-> TRUE, path |-> p, open |-> FALSE, seen |-> {}]

Kind(p) == IF p = <<>> THEN "dir" ELSE IF p \in Paths THEN host[p] ELSE "none"

Children(p) == {n \in Name : Kind(Append(p, n)) # "none"}

(* Twalk by the names e (none or one) from an unopened fid to a new one. *)
CanWalk(fid, newfid, e) ==
  /\ srv[fid].live /\ ~srv[fid].open /\ ~srv[newfid].live
  /\ e # <<>> => Kind(srv[fid].path \o e) # "none"

(* Topen and Tcreate turn an unopened fid into an open one. *)
CanOpen(fid) == srv[fid].live /\ ~srv[fid].open /\ Kind(srv[fid].path) # "none"

CanCreate(fid, n) ==
  LET p == Append(srv[fid].path, n)
  IN  /\ CanOpen(fid) /\ Kind(srv[fid].path) = "dir"
      /\ p \in Paths /\ Kind(p) = "none"

CanRemove(fid) ==
  /\ srv[fid].live /\ srv[fid].path # <<>>
  /\ Kind(srv[fid].path) # "none" /\ Children(srv[fid].path) = {}

HostChanges(p, k) ==
  /\ Kind(Front(p)) = "dir"
  /\ k = "none" => host[p] # "none" /\ Children(p) = {}
  /\ k # "none" => host[p] = "none"
  /\ host' = [host EXCEPT ![p] = k]
  /\ UNCHANGED <<srv, next_fid, inodes, ftable, call, load>>

(***************************************************************************)
(* Requests                                                                *)
(***************************************************************************)
(* The requests whose replies convM2S takes apart as they are put together *)
(* (that it then gives back what was sent is WireExact), so that v9p_rpc   *)
(* passes them on.                                                         *)
Understood ==
  {T \in Types \ Replies : \A t \in Replies \ {"Rerror"} :
     TypeCode[t] = TypeCode[T] + 1 => GetFields[t] = PutFields[t]}

(* The client takes an answer for a success when it understands it. *)
Answer(T, ok) == ok /\ T \in Understood

(* alloc_fid and Twalk; done is what walk answers.  Behind the last fid of *)
(* the model every walk fails.                                             *)
Walk(fid, e, done) ==
  IF next_fid > MaxFid THEN done = FALSE /\ UNCHANGED <<srv, next_fid>>
  ELSE /\ next_fid' = next_fid + 1
       /\ \/ done = FALSE /\ UNCHANGED srv
          \/ /\ CanWalk(fid, next_fid, e)
             /\ done = Answer("Twalk", TRUE)
             /\ srv' = [srv EXCEPT ![next_fid] = SrvFid(srv[fid].path \o e)]

OpenFid(fid, done) ==
  \/ done = FALSE /\ UNCHANGED srv
  \/ CanOpen(fid) /\ done = Answer("Topen", TRUE) /\ srv' = [srv EXCEPT ![fid].open = TRUE]

Clunk(fid) == srv' = [srv EXCEPT ![fid] = NoSrvFid]

(***************************************************************************)
(* Inodes of the mounted tree                                              *)
(***************************************************************************)
FreeInode == [type |-> "free", fid |-> NOFID, dir_loaded |-> FALSE, ents |-> [n \in Name |-> 0]]
NewInode(t) == [FreeInode EXCEPT !.type = t]

Free == {i \in Inums : inodes[i].type = "free"}

(* ialloc hands out the lowest. *)
FirstInode == Min(Free)

Linked(I, d, n, i) == IF I[d].ents[n] # 0 THEN I ELSE [I EXCEPT ![d].ents[n] = i]

NoCall == [op |-> "none", pc |-> "idle", dir |-> 0, name |-> "none", ip |-> 0, nf |-> 0,
           rdwr |-> FALSE]
NoLoad == [pc |-> "idle", dir |-> 0, rfid |-> 0, batch |-> {}, reads |-> 0]

At9p(pc) == call.pc = pc /\ load = NoLoad

Goto(pc) == call' = [call EXCEPT !.pc = pc]
Return == call' = NoCall

(***************************************************************************)
(* v9p_mount                                                               *)
(***************************************************************************)
(* Tversion; the kernel goes on without the host's tree if it fails. *)
MountVersion ==
  /\ At9p("version")
  /\ (Answer("Tversion", TRUE) /\ Goto("attach")) \/ Return
  /\ UNCHANGED <<host, srv, next_fid, inodes, ftable, load>>

(* Without a directory to mount on, the error return leaves fid 0 attached. *)
MountAttach ==
  /\ At9p("attach")
  /\ \/ /\ Answer("Tattach", TRUE)
        /\ srv' = [srv EXCEPT ![0] = SrvFid(<<>>)]
        /\ \/ inodes' = [inodes EXCEPT ![MOUNT] = [NewInode("dir") EXCEPT !.fid = 0]]
           \/ UNCHANGED inodes
     \/ UNCHANGED <<srv, inodes>>
  /\ Return
  /\ UNCHANGED <<host, next_fid, ftable, load>>

(***************************************************************************)
(* v9p_loaddir                                                             *)
(***************************************************************************)
(* The directory counts as loaded from here on, whatever becomes of it. *)
StartLoad(d) ==
  /\ inodes' = [inodes EXCEPT ![d].dir_loaded = TRUE]
  /\ load' = IF inodes[d].fid = NOFID THEN NoLoad ELSE [NoLoad EXCEPT !.pc = "walk", !.dir = d]
  /\ UNCHANGED <<host, srv, next_fid, ftable>>

LoadWalk ==
  /\ load.pc = "walk"
  /\ \E done \in BOOLEAN :
       /\ Walk(inodes[load.dir].fid, <<>>, done)
       /\ load' = IF done THEN [load EXCEPT !.pc = "open", !.rfid = next_fid] ELSE NoLoad
  /\ UNCHANGED <<host, inodes, ftable, call>>

LoadOpen ==
  /\ load.pc = "open"
  /\ \E done \in BOOLEAN :
       /\ OpenFid(load.rfid, done)
       /\ load' = [load EXCEPT !.pc = IF done /\ MAXREADS > 0 THEN "read" ELSE "clunk"]
  /\ UNCHANGED <<host, next_fid, inodes, ftable, call>>

(* Tread of the next entries: from the start at first, then where the last *)
(* read ended.                                                             *)
LoadRead ==
  LET f == srv[load.rfid]
      seen == IF load.reads = 0 THEN {} ELSE f.seen
  IN  /\ load.pc = "read"
      /\ \/ UNCHANGED srv /\ load' = [load EXCEPT !.pc = "clunk"]
         \/ \E b \in (SUBSET (Children(f.path) \ seen)) \ {{}} :
              /\ Answer("Tread", f.open)
              /\ srv' = [srv EXCEPT ![load.rfid].seen = seen \cup b]
              /\ load' = [load EXCEPT !.pc = "entry", !.reads = @ + 1,
                                      !.batch = {<<n, Kind(Append(f.path, n))>> : n \in b}]
      /\ UNCHANGED <<host, next_fid, inodes, ftable, call>>

(* The loop over the entries of one read, and around the reads. *)
EntryDone(e) ==
  load' = [load EXCEPT !.batch = @ \ {e},
                       !.pc = IF load.batch # {e} THEN "entry"
                              ELSE IF load.reads < MAXREADS THEN "read" ELSE "clunk"]

(* An entry for which no inode is left is passed over. *)
LoadEntry ==
  \E e \in load.batch :
    /\ load.pc = "entry"
    /\ EntryDone(e)
    /\ IF Free = {} THEN UNCHANGED <<srv, next_fid, inodes>>
       ELSE \E done \in BOOLEAN :
              /\ Walk(inodes[load.dir].fid, <<e[1]>>, done)
              /\ inodes' = Linked([inodes EXCEPT ![FirstInode] =
                               [NewInode(e[2]) EXCEPT !.fid = IF done THEN next_fid ELSE NOFID]],
                             load.dir, e[1], FirstInode)
    /\ UNCHANGED <<host, ftable, call>>

LoadClunk ==
  /\ load.pc = "clunk"
  /\ Clunk(load.rfid)
  /\ load' = NoLoad
  /\ UNCHANGED <<host, next_fid, inodes, ftable, call>>

(***************************************************************************)
(* Calls                                                                   *)
(***************************************************************************)
(* open and creat of a file, stat, mkdir, and unlink or rmdir (remove) of  *)
(* name n in directory d; rdwr: the mode is not P9_OREAD.                  *)
Start(op, d, n, rdwr) ==
  /\ call = NoCall /\ load = NoLoad
  /\ inodes[d].type = "dir"
  /\ d = MOUNT \/ \E e \in Inums, m \in Name : inodes[e].ents[m] = d
  /\ op \in {"mkdir", "remove"} => inodes[d].fid # NOFID
  /\ rdwr => op \in {"open", "creat"}
  /\ call' = [NoCall EXCEPT !.op = op, !.dir = d, !.name = n, !.rdwr = rdwr,
                            !.pc = CASE op = "mkdir" -> "clone" [] op = "remove" -> "rm_walk"
                                     [] OTHER -> "lookup"]
  /\ UNCHANGED <<host, srv, next_fid, inodes, ftable, load>>

Dir == inodes[call.dir]

(* The end of vfs_open_at, for inode i: an entry of the file table and     *)
(* v9p_open_file.                                                          *)
OpenFile(i, I) ==
  IF (\A f \in Files : ftable[f] # 0) \/ I[i].fid = NOFID THEN Return
  ELSE call' = [call EXCEPT !.pc = "open_clone", !.ip = i]

(* dirlookup in vfs_open_at or a path, loading the directory first. *)
Lookup ==
  LET i == Dir.ents[call.name]
  IN  /\ At9p("lookup")
      /\ IF ~Dir.dir_loaded THEN StartLoad(call.dir) /\ UNCHANGED call
         ELSE IF i # 0 /\ call.op # "stat" /\ inodes[i].type = "dir" /\ ~inodes[i].dir_loaded
         THEN StartLoad(i) /\ Return
         ELSE /\ IF i # 0 /\ call.op # "stat" /\ inodes[i].type = "file" THEN OpenFile(i, inodes)
                 ELSE IF i = 0 /\ call.op = "creat" /\ Dir.fid # NOFID THEN Goto("clone")
                 ELSE Return
              /\ UNCHANGED <<host, srv, next_fid, inodes, ftable, load>>

(* v9p_create and v9p_mkdir. *)
Clone ==
  /\ At9p("clone")
  /\ \E done \in BOOLEAN :
       /\ Walk(Dir.fid, <<>>, done)
       /\ IF done THEN call' = [call EXCEPT !.pc = "create", !.nf = next_fid] ELSE Return
  /\ UNCHANGED <<host, inodes, ftable, load>>

NewKind == IF call.op = "mkdir" THEN "dir" ELSE "file"

Create ==
  LET p == Append(srv[call.nf].path, call.name)
  IN  /\ At9p("create")
      /\ \/ Goto("abort") /\ UNCHANGED <<host, srv>>
         \/ /\ CanCreate(call.nf, call.name) /\ Answer("Tcreate", TRUE)
            /\ host' = [host EXCEPT ![p] = NewKind]
            /\ srv' = [srv EXCEPT ![call.nf] = [SrvFid(p) EXCEPT !.open = TRUE]]
            /\ Goto("created")
      /\ UNCHANGED <<next_fid, inodes, ftable, load>>

CreatedMut_KeepFid ==
  /\ At9p("created")
  /\ IF Free = {} THEN Return /\ Clunk(call.nf) /\ UNCHANGED inodes
     ELSE /\ call' = [call EXCEPT !.pc = "link", !.ip = FirstInode]
          /\ inodes' = [inodes EXCEPT ![FirstInode] = [NewInode(NewKind) EXCEPT !.fid = call.nf]]
          /\ UNCHANGED srv
  /\ UNCHANGED <<host, next_fid, ftable, load>>

(* Tcreate opened the clone, so it is dropped. *)
Created ==
  /\ At9p("created")
  /\ Clunk(call.nf)
  /\ IF Free = {} THEN Return /\ UNCHANGED inodes
     ELSE /\ call' = [call EXCEPT !.pc = "walk", !.ip = FirstInode]
          /\ inodes' = [inodes EXCEPT ![FirstInode] = NewInode(NewKind)]
  /\ UNCHANGED <<host, next_fid, ftable, load>>

WalkNew ==
  /\ At9p("walk")
  /\ \E done \in BOOLEAN :
       /\ Walk(Dir.fid, <<call.name>>, done)
       /\ inodes' = [inodes EXCEPT ![call.ip].fid = IF done THEN next_fid ELSE NOFID]
  /\ Goto("link")
  /\ UNCHANGED <<host, ftable, load>>

(* dirlink, whose answer nobody looks at; mkdir may load the directory     *)
(* only here, and find the new name in it.                                 *)
Link ==
  /\ At9p("link")
  /\ IF ~Dir.dir_loaded THEN StartLoad(call.dir) /\ UNCHANGED call
     ELSE /\ inodes' = Linked(inodes, call.dir, call.name, call.ip)
          /\ IF call.op = "mkdir" THEN Return ELSE OpenFile(call.ip, inodes)
          /\ UNCHANGED <<host, srv, next_fid, ftable, load>>

(* v9p_open_file *)
OpenClone ==
  /\ At9p("open_clone")
  /\ \E done \in BOOLEAN :
       /\ Walk(inodes[call.ip].fid, <<>>, done)
       /\ IF done THEN call' = [call EXCEPT !.pc = "open", !.nf = next_fid] ELSE Return
  /\ UNCHANGED <<host, inodes, ftable, load>>

Opened ==
  /\ ftable' = [ftable EXCEPT ![Min({f \in Files : ftable[f] = 0})] = call.nf]
  /\ Return

OpenMut_NoClunk ==
  /\ At9p("open")
  /\ \E done \in BOOLEAN :
       /\ OpenFid(call.nf, done)
       /\ IF done THEN Opened
          ELSE UNCHANGED ftable /\ IF call.rdwr THEN Goto("reopen") ELSE Return
  /\ UNCHANGED <<host, next_fid, inodes, load>>

Open ==
  /\ At9p("open")
  /\ \E done \in BOOLEAN :
       /\ OpenFid(call.nf, done)
       /\ IF done THEN Opened
          ELSE UNCHANGED ftable /\ Goto(IF call.rdwr THEN "reopen" ELSE "abort")
  /\ UNCHANGED <<host, next_fid, inodes, load>>

ReopenMut_Again ==
  /\ At9p("reopen")
  /\ \E done \in BOOLEAN :
       /\ OpenFid(call.nf, done)
       /\ IF done THEN Opened ELSE UNCHANGED ftable /\ Goto("open")
  /\ UNCHANGED <<host, next_fid, inodes, load>>

(* A file that cannot be opened for writing is opened for reading. *)
Reopen ==
  /\ At9p("reopen")
  /\ \E done \in BOOLEAN :
       /\ OpenFid(call.nf, done)
       /\ IF done THEN Opened ELSE UNCHANGED ftable /\ Goto("abort")
  /\ UNCHANGED <<host, next_fid, inodes, load>>

Abort ==
  /\ At9p("abort")
  /\ Clunk(call.nf)
  /\ Return
  /\ UNCHANGED <<host, next_fid, inodes, ftable, load>>

(* v9p_remove *)
RmWalk ==
  /\ At9p("rm_walk")
  /\ \E done \in BOOLEAN :
       /\ Walk(Dir.fid, <<call.name>>, done)
       /\ IF done THEN call' = [call EXCEPT !.pc = "rm", !.nf = next_fid] ELSE Return
  /\ UNCHANGED <<host, inodes, ftable, load>>

(* Tremove clunks the fid whether or not it removes the file. *)
Rm ==
  /\ At9p("rm")
  /\ Clunk(call.nf)
  /\ \/ Return /\ UNCHANGED host
     \/ /\ CanRemove(call.nf) /\ Answer("Tremove", TRUE)
        /\ host' = [host EXCEPT ![srv[call.nf].path] = "none"]
        /\ Goto("unlink")
  /\ UNCHANGED <<next_fid, inodes, ftable, load>>

(* The inode goes without its fid being clunked. *)
Unlink ==
  LET i == Dir.ents[call.name]
  IN  /\ At9p("unlink")
      /\ IF ~Dir.dir_loaded THEN StartLoad(call.dir) /\ UNCHANGED call
         ELSE /\ inodes' = IF i = 0 THEN inodes
                           ELSE [inodes EXCEPT ![call.dir].ents[call.name] = 0, ![i] = FreeInode]
              /\ Return
              /\ UNCHANGED <<host, srv, next_fid, ftable, load>>

(* The last fileclose of an open file. *)
Close(f) ==
  /\ call = NoCall /\ load = NoLoad
  /\ ftable[f] # 0
  /\ Clunk(ftable[f])
  /\ ftable' = [ftable EXCEPT ![f] = 0]
  /\ UNCHANGED <<host, next_fid, inodes, call, load>>

(***************************************************************************)
(* The system                                                              *)
(***************************************************************************)
Init ==
  /\ host \in [Paths -> {"none", "file", "dir"}]
  /\ \A p \in Paths : host[p] # "none" => Kind(Front(p)) = "dir"
  /\ srv = [f \in Fids |-> NoSrvFid]
  /\ next_fid = 1
  /\ inodes = [i \in Inums |-> FreeInode]
  /\ ftable = [f \in Files |-> 0]
  /\ call = [NoCall EXCEPT !.op = "mount", !.pc = "version"]
  /\ load = NoLoad

(* A call under way goes on: the client polls until the server answers. *)
Continue ==
  \/ MountVersion \/ MountAttach
  \/ LoadWalk \/ LoadOpen \/ LoadRead \/ LoadEntry \/ LoadClunk
  \/ Lookup \/ Clone \/ Create \/ Created \/ WalkNew \/ Link
  \/ OpenClone \/ Open \/ Reopen \/ Abort
  \/ RmWalk \/ Rm \/ Unlink

Ops == {"open", "creat", "stat", "mkdir", "remove"}

Next ==
  \/ Continue
  \/ \E op \in Ops, d \in Inums, n \in Name, rdwr \in BOOLEAN : Start(op, d, n, rdwr)
  \/ \E f \in Files : Close(f)
  \/ \E p \in Paths, k \in {"none", "file"} : HostChanges(p, k)

Spec == Init /\ [][Next]_vars /\ WF_vars(Continue)

(***************************************************************************)
(* Properties                                                              *)
(***************************************************************************)
Live == {i \in Inums : inodes[i].type # "free"}

(* Every fid the client may use later is one the server knows, in the      *)
(* state the client needs: an inode's is unopened, so that it can be       *)
(* cloned, and names the file the listing says, below its directory's; an  *)
(* open file's is open; no two share one, and none is handed out again.    *)
FidDiscipline ==
  /\ \A i \in Live : inodes[i].fid # NOFID =>
       /\ srv[inodes[i].fid].live /\ ~srv[inodes[i].fid].open
       /\ \A j \in Live \ {i} : inodes[j].fid # inodes[i].fid
  /\ \A d \in Live, n \in Name :
       LET i == inodes[d].ents[n]
       IN  i # 0 =>
             /\ i \in Live
             /\ inodes[i].fid # NOFID =>
                  srv[inodes[i].fid].path = Append(srv[inodes[d].fid].path, n)
  /\ \A f \in Files : ftable[f] # 0 =>
       /\ srv[ftable[f]].live /\ srv[ftable[f]].open
       /\ \A g \in Files \ {f} : ftable[g] # ftable[f]
  /\ \A f \in Fids : srv[f].live => f < next_fid

(* Fids at the server that the client has forgotten.  Fid 0, the tree's    *)
(* own, is never given back, not even by a mount that fails.               *)
LostFids ==
  {f \in Fids \ {0} :
     /\ srv[f].live
     /\ f \notin {inodes[i].fid : i \in Live} \cup {ftable[g] : g \in Files}
     /\ f \notin {call.nf, load.rfid}}

(* Inodes in use that no path leads to. *)
LostInodes ==
  {i \in Live \ {MOUNT, call.ip} : \A d \in Live, n \in Name : inodes[d].ents[n] # i}

(* Whatever the server refuses and the host changes between two requests,  *)
(* no error path loses a fid or an inode.  Two paths that succeed do:      *)
(* v9p_remove, which frees an inode and not its fid, and v9p_mkdir in a    *)
(* directory whose listing has the new name already.                       *)
NothingLost ==
  [][\/ LostFids' \subseteq LostFids /\ LostInodes' \subseteq LostInodes
     \/ At9p("unlink")
     \/ At9p("link") /\ call.op = "mkdir"]_vars

(* Whatever a call sends and gets is taken apart as it was put together:   *)
(* sizeS2M, convS2M and convM2S agree on every message, convD2M and        *)
(* convM2D on directory entries, and v9p_rpc passes on what convM2S took   *)
(* for the reply, so that an answer means to the client what Answer says.  *)
(* The format depends on no state: it is looked at once, before the first  *)
(* request to a server whose directory is empty.                           *)
WireExact == call.pc = "version" /\ Children(<<>>) = {} => FormatExact

(* Every call comes back, if the server answers every request. *)
CallsEnd == (call # NoCall \/ load # NoLoad) ~> (call = NoCall /\ load = NoLoad)
============================================================================
