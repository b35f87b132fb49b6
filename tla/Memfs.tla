------------------------------- MODULE Memfs -------------------------------
(***************************************************************************)
(* The in-memory file system: inodes, their blocks and directories         *)
(* (kernel/fs/memfs.c), path walking, the global working directory and the *)
(* vfs_ calls (kernel/fs/fs.c), reached through the path and inode system  *)
(* calls of kernel/task/syscall.c.                                         *)
(*                                                                         *)
(* A system call runs with interrupts off and is one step; a call that     *)
(* fails before it changed anything is no step.  Descriptor tables and     *)
(* reference counts are in FileTable: here an entry of the open-file table *)
(* is there from vfs_open to its last fileclose.  A directory's content is *)
(* its sequence of dirents and its offsets count dirents; where a write(2) *)
(* or ftruncate(2) reaches a directory, which nothing stops, dirents turn  *)
(* into bytes and the model does not follow; nor does it follow a creating *)
(* open of a name whose inode has been freed, which dereferences the null  *)
(* that iget returns.  A file holds the bytes 0 and 1.  pmm_alloc panics   *)
(* rather than fail (Pmm), so bmap fails only past NDIRECT.  Permission    *)
(* bits are stored and never looked at, and are left out with chmod; 9P    *)
(* inodes are in V9p.                                                      *)
(***************************************************************************)
EXTENDS Integers, Sequences, FiniteSets, FiniteSetsExt, SequencesExt

CONSTANTS
  MAX_INODES,  \* inodes are 1..MAX_INODES-1; 0 is "no inode"
  NFILE,       \* entries of the open-file table
  BSIZE,       \* bytes of a block
  NDIRECT,     \* blocks of an inode
  MAXENTS,     \* dirents that fit in a directory of MAXFILE bytes
  Paths,       \* the paths user programs pass: [abs, elems]
  Flags,       \* the flags of open: [creat, excl, trunc, append, readable, writable]
  MaxCwd,      \* components fs_cwd has room for
  MaxUse,      \* bound: what is in use when a call adds to it, or after a dot went
  MaxLinks,    \* bound: the links of a file (a failed rename leaves one too many)
  MaxOff,      \* bound: the offsets lseek is given
  MaxDotted    \* bound: the calls from the first that links or unlinks a dot on

(* fs_init needs inodes for the root, /dev and a device, and directories   *)
(* with room for ".", ".." and a name; a path is a sequence of names.      *)
ASSUME MemfsAssumption ==
  /\ MAX_INODES \in Nat /\ MAX_INODES >= 4 /\ NFILE \in Nat
  /\ BSIZE \in Nat \ {0} /\ NDIRECT \in Nat
  /\ MAXENTS \in Nat /\ MAXENTS >= 3
  /\ \A p \in Paths : p.elems \in Seq(STRING)
  /\ Flags \subseteq [creat : BOOLEAN, excl : BOOLEAN, trunc : BOOLEAN, append : BOOLEAN,
                      readable : BOOLEAN, writable : BOOLEAN]
  /\ MaxCwd \in Nat /\ MaxOff \in Nat /\ MaxDotted \in Nat

VARIABLES
  inodes,   \* inode_table
  ftable,   \* the open-file table, with the inode branch of struct file
  cwd,      \* fs_cwd: the components of one absolute path for everybody
  dotted    \* history: 0 until a call links or unlinks a name "." or "..", then
            \* one more with every call

vars == <<inodes, ftable, cwd, dotted>>

ROOTINO == 1
Inums == 1..(MAX_INODES - 1)
Files == 0..(NFILE - 1)
Blocks == 0..(NDIRECT - 1)
MAXFILE == NDIRECT * BSIZE
NoBlock == <<>>

(***************************************************************************)
(* Inodes and their content                                                *)
(***************************************************************************)
(* ialloc zeroes the slot, whatever pages a stale handle put there.  *)
NewInode(t) ==
  [type |-> t, nlink |-> 1, size |-> 0, ents |-> <<>>,
   blk |-> [q \in Blocks |-> NoBlock]]

(* ifree *)
FreeInode == [NewInode("free") EXCEPT !.nlink = 0]

Free(I) == {i \in Inums : I[i].type = "free"}
Dirs(I) == {i \in Inums : I[i].type = "dir"}

SizeOf(x) == IF x.type = "dir" THEN Len(x.ents) ELSE x.size

(* Blocks after bytes lo..hi-1 are set to b; bmap adds zeroed pages. *)
Fill(blk, lo, hi, b) ==
  [q \in Blocks |->
    IF lo < hi /\ q \in (lo \div BSIZE)..((hi - 1) \div BSIZE)
    THEN [r \in 1..BSIZE |->
            LET k == q * BSIZE + r - 1
            IN  IF k \in lo..(hi - 1) THEN b
                ELSE IF blk[q] = NoBlock THEN 0 ELSE blk[q][r]]
    ELSE blk[q]]

(* Bytes readi copies: up to the end of the file or the first hole. *)
Readi(x, off, n) ==
  LET end == Min({off + n, SizeOf(x)})
      holes == {k \in off..(end - 1) : x.type # "dir" /\ x.blk[k \div BSIZE] = NoBlock}
  IN  IF off > SizeOf(x) THEN 0
      ELSE Min({end} \cup holes) - off

(* The bytes writei stores; it refuses a start behind the end of the file. *)
Writei(x, off, n) == IF off > x.size \/ off + n > MAXFILE THEN 0 ELSE n

Written(x, off, n, b) ==
  [x EXCEPT !.blk = Fill(@, off, off + n, b), !.size = Max({@, off + n})]

ItruncateMut_NoZero(x, s) ==
  [x EXCEPT !.size = s,
            !.blk = IF s < x.size
                    THEN [q \in Blocks |-> IF q * BSIZE >= s THEN NoBlock ELSE @[q]]
                    ELSE [q \in Blocks |-> IF q * BSIZE < s /\ @[q] = NoBlock
                                           THEN [r \in 1..BSIZE |-> 0] ELSE @[q]]]

ItruncateMut_FreeFromSize(x, s) ==
  [x EXCEPT !.size = s,
            !.blk = IF s < x.size
                    THEN [q \in Blocks |-> IF q >= s \div BSIZE THEN NoBlock ELSE @[q]]
                    ELSE Fill(@, x.size, s, 0)]

(* Whole blocks behind the new end go; bytes a growth uncovers are zeroed. *)
Itruncate(x, s) ==
  [x EXCEPT !.size = s,
            !.blk = IF s < x.size
                    THEN [q \in Blocks |-> IF q * BSIZE >= s THEN NoBlock ELSE @[q]]
                    ELSE Fill(@, x.size, s, 0)]

(***************************************************************************)
(* Directories                                                             *)
(***************************************************************************)
NoEnt == [name |-> "", inum |-> 0, type |-> "free"]

SlotsOf(x, n) == {k \in DOMAIN x.ents : x.ents[k].inum # 0 /\ x.ents[k].name = n}
Holes(x) == {k \in DOMAIN x.ents : x.ents[k].inum = 0}

Dirlookup(I, d, n) ==
  LET s == SlotsOf(I[d], n) IN IF s = {} THEN 0 ELSE I[d].ents[Min(s)].inum

CanLink(I, d, n) ==
  /\ SlotsOf(I[d], n) = {}
  /\ Holes(I[d]) # {} \/ Len(I[d].ents) < MAXENTS

DirlinkMut_Append(I, d, n, i) ==
  IF ~CanLink(I, d, n) THEN I
  ELSE [I EXCEPT ![d].ents = Append(@, [name |-> n, inum |-> i, type |-> I[i].type])]

(* The first empty slot is taken, or one is added at the end. *)
Dirlink(I, d, n, i) ==
  LET e == [name |-> n, inum |-> i, type |-> I[i].type]
  IN  IF ~CanLink(I, d, n) THEN I
      ELSE IF Holes(I[d]) = {} THEN [I EXCEPT ![d].ents = Append(@, e)]
      ELSE [I EXCEPT ![d].ents[Min(Holes(I[d]))] = e]

DirunlinkMut_Compact(I, d, n) ==
  [I EXCEPT ![d].ents = SelectSeq(@, LAMBDA e : e.inum = 0 \/ e.name # n)]

Dirunlink(I, d, n) ==
  IF SlotsOf(I[d], n) = {} THEN I
  ELSE [I EXCEPT ![d].ents[Min(SlotsOf(I[d], n))] = NoEnt]

(* The dirents other than "." and "..". *)
NamedSlots(x) ==
  {k \in DOMAIN x.ents : x.ents[k].inum # 0 /\ x.ents[k].name \notin {".", ".."}}

Isdirempty(x) == NamedSlots(x) = {}

(* --nlink, and ifree with the last link, of an inode iget finds: an open  *)
(* file is not asked about.                                                *)
Unlinked(I, i) ==
  IF I[i].type = "free" THEN I
  ELSE IF I[i].nlink <= 1 THEN [I EXCEPT ![i] = FreeInode] ELSE [I EXCEPT ![i].nlink = @ - 1]

(***************************************************************************)
(* Paths                                                                   *)
(***************************************************************************)
Descend(I, i, n) ==
  IF i = 0 \/ I[i].type # "dir" THEN 0
  ELSE LET j == Dirlookup(I, i, n)
       IN  IF j = 0 \/ I[j].type = "free" THEN 0 ELSE j

(* skipelem and dirlookup along the components e; 0 is ENOENT or ENOTDIR. *)
Walk(I, start, e) ==
  LET w[k \in 0..Len(e)] == IF k = 0 THEN start ELSE Descend(I, w[k - 1], e[k])
  IN  w[Len(e)]

IgetRoot == IF inodes[ROOTINO].type = "free" THEN 0 ELSE ROOTINO

IgetCwd == Walk(inodes, IgetRoot, cwd)

(* base is 0 for AT_FDCWD or the inode of a directory descriptor. *)
StartOf(base, p) == IF p.abs THEN IgetRoot ELSE IF base # 0 THEN base ELSE IgetCwd

Namei(base, p) == Walk(inodes, StartOf(base, p), p.elems)

(* The directory of the last component. *)
Nameiparent(base, p) ==
  LET d == Walk(inodes, StartOf(base, p), Front(p.elems))
  IN  IF p.elems = <<>> \/ d = 0 THEN 0
      ELSE IF inodes[d].type = "dir" THEN d ELSE 0

Name(p) == Last(p.elems)

Lookup(d, p) == IF d = 0 THEN 0 ELSE Dirlookup(inodes, d, Name(p))

(* path_base: an open directory, or AT_FDCWD. *)
PathBases ==
  {0} \cup {ftable[f].ip : f \in {g \in Files : /\ ftable[g].type # "FD_NONE"
                                               /\ inodes[ftable[g].ip].type = "dir"}}

(* path_normalize drops "." and takes ".." back one component, lexically. *)
Component(out, n) ==
  CASE n = "." -> out
    [] n = ".." -> (IF out = <<>> THEN out ELSE Front(out))
    [] OTHER -> Append(out, n)

Normalized(e) ==
  LET out[k \in 0..Len(e)] == IF k = 0 THEN <<>> ELSE Component(out[k - 1], e[k])
  IN  out[Len(e)]

(* path_absolute *)
Absolute(p) == Normalized(IF p.abs THEN p.elems ELSE cwd \o p.elems)

(***************************************************************************)
(* System calls                                                            *)
(***************************************************************************)
NoFile == [type |-> "FD_NONE", ip |-> 0, off |-> 0, readable |-> FALSE, writable |-> FALSE]

(* What is in use: names, bytes, open files and a working directory. *)
Use ==
  Cardinality(UNION {{<<i, "name", k>> : k \in NamedSlots(inodes[i])} \cup
                     {<<i, "byte", k>> : k \in 1..inodes[i].size} : i \in Inums})
  + Cardinality({f \in Files : ftable[f].type # "FD_NONE"}) + Len(cwd)

(* A new inode of type t under the name n in d; ifree again when the       *)
(* directory is full.                                                      *)
CreateIn(I, d, n, t) ==
  LET i == Min(Free(I))
      J == [I EXCEPT ![i] = NewInode(t)]
  IN  IF CanLink(J, d, n) THEN Dirlink(J, d, n, i) ELSE [J EXCEPT ![i] = FreeInode]

(* Nothing keeps the last component of a path from being "." or "..": the  *)
(* calls that link or unlink a name take them for ordinary names.          *)
Noted(names) ==
  dotted' = IF dotted > 0 \/ names \cap {".", ".."} # {} THEN dotted + 1 ELSE 0

FirstFree == Min({f \in Files : ftable[f].type = "FD_NONE"})

(* vfs_open_at after the lookup: truncate, then take an entry of the file  *)
(* table.  Without one, or without a descriptor (full), what was created   *)
(* or truncated stays so.                                                  *)
Opened(I, i, fl, full) ==
  LET J == IF fl.trunc /\ I[i].type = "file" THEN [I EXCEPT ![i] = Itruncate(@, 0)] ELSE I
  IN  /\ inodes' = J
      /\ IF full \/ \A f \in Files : ftable[f].type # "FD_NONE" THEN UNCHANGED ftable
         ELSE ftable' = [ftable EXCEPT ![FirstFree] =
                [type |-> IF J[i].type = "dev" THEN "FD_DEVICE" ELSE "FD_INODE",
                 ip |-> i, off |-> IF fl.append THEN SizeOf(J[i]) ELSE 0,
                 readable |-> fl.readable, writable |-> fl.writable]]
      /\ UNCHANGED cwd

(* open, creat and openat of something that is there *)
OpenExisting(base, p, fl, full) ==
  LET i == IF fl.creat THEN Lookup(Nameiparent(base, p), p) ELSE Namei(base, p)
  IN  /\ i # 0 /\ ~(fl.creat /\ fl.excl) /\ Use < MaxUse
      /\ inodes[i].type # "free"
      /\ Opened(inodes, i, fl, full)
      /\ Noted({})

OpenCreates(base, p, fl, full) ==
  LET d == Nameiparent(base, p)
      J == CreateIn(inodes, d, Name(p), "file")
  IN  /\ fl.creat /\ d # 0 /\ Use < MaxUse
      /\ Lookup(d, p) = 0 /\ Free(inodes) # {}
      /\ IF CanLink(inodes, d, Name(p)) THEN Opened(J, Min(Free(inodes)), fl, full)
         ELSE inodes' = J /\ UNCHANGED <<ftable, cwd>>
      /\ Noted({Name(p)})

Mkdir(base, p) ==
  LET d == Nameiparent(base, p)
      i == Min(Free(inodes))
      J == CreateIn(inodes, d, Name(p), "dir")
      K == Dirlink(Dirlink(J, i, ".", i), i, "..", d)
  IN  /\ d # 0 /\ Use < MaxUse
      /\ Lookup(d, p) = 0 /\ Free(inodes) # {}
      /\ inodes' = IF CanLink(inodes, d, Name(p))
                   THEN [K EXCEPT ![i].nlink = 2, ![d].nlink = @ + 1] ELSE J
      /\ UNCHANGED <<ftable, cwd>>
      /\ Noted({Name(p)})

UnlinkMut_NoCount(base, p) ==
  LET d == Nameiparent(base, p)
      i == Lookup(d, p)
  IN  /\ i # 0 /\ inodes[i].type # "dir"
      /\ inodes' = [Dirunlink(inodes, d, Name(p)) EXCEPT ![i] = FreeInode]
      /\ UNCHANGED <<ftable, cwd>>
      /\ Noted({Name(p)})

Unlink(base, p) ==
  LET d == Nameiparent(base, p)
      i == Lookup(d, p)
  IN  /\ i # 0 /\ inodes[i].type # "dir"
      /\ inodes' = Unlinked(Dirunlink(inodes, d, Name(p)), i)
      /\ UNCHANGED <<ftable, cwd>>
      /\ Noted({Name(p)})

Rmdir(base, p) ==
  LET d == Nameiparent(base, p)
      i == Lookup(d, p)
      J == Dirunlink(inodes, d, Name(p))
  IN  /\ i # 0 /\ inodes[i].type = "dir" /\ Isdirempty(inodes[i])
      /\ inodes' = [J EXCEPT ![d].nlink = IF @ > 0 THEN @ - 1 ELSE 0, ![i] = FreeInode]
      /\ UNCHANGED <<ftable, cwd>>
      /\ Noted({Name(p)})

(* A moved directory gets a new ".."; its parents' counts follow. *)
Reparented(I, i, od, nd) ==
  IF I[i].type # "dir" \/ od = nd THEN I
  ELSE [Dirlink(Dirunlink(I, i, ".."), i, "..", nd) EXCEPT
          ![od].nlink = IF @ > 0 THEN @ - 1 ELSE 0, ![nd].nlink = @ + 1]

RenameMut_KeepParent(obase, op, nbase, np) ==
  LET od == Nameiparent(obase, op)
      i == Lookup(od, op)
      nd == Nameiparent(nbase, np)
      e == Lookup(nd, np)
      J == IF e = 0 THEN inodes ELSE Unlinked(Dirunlink(inodes, nd, Name(np)), e)
      K == Dirunlink(J, od, Name(op))
  IN  /\ i # 0 /\ nd # 0 /\ e # i
      /\ e \notin Dirs(inodes)
      /\ inodes' = IF CanLink(K, nd, Name(np)) THEN Dirlink(K, nd, Name(np), i) ELSE K
      /\ UNCHANGED <<ftable, cwd>>
      /\ Noted({Name(op), Name(np)})

(* The target goes first, then the old name; a full directory is found out *)
(* last, and the file is left without a name.                              *)
Rename(obase, op, nbase, np) ==
  LET od == Nameiparent(obase, op)
      i == Lookup(od, op)
      nd == Nameiparent(nbase, np)
      e == Lookup(nd, np)
      J == IF e = 0 THEN inodes ELSE Unlinked(Dirunlink(inodes, nd, Name(np)), e)
      K == Dirunlink(J, od, Name(op))
  IN  /\ i # 0 /\ nd # 0 /\ e # i
      /\ e \notin Dirs(inodes)
      /\ inodes' = IF CanLink(K, nd, Name(np))
                   THEN Reparented(Dirlink(K, nd, Name(np), i), i, od, nd) ELSE K
      /\ UNCHANGED <<ftable, cwd>>
      /\ Noted({Name(op), Name(np)})

Link(obase, op, nbase, np) ==
  LET i == Namei(obase, op)
      d == Nameiparent(nbase, np)
  IN  /\ i # 0 /\ d # 0 /\ Use < MaxUse
      /\ inodes[i].type # "dir" /\ inodes[i].nlink < MaxLinks
      /\ CanLink(inodes, d, Name(np))
      /\ inodes' = [Dirlink(inodes, d, Name(np), i) EXCEPT ![i].nlink = @ + 1]
      /\ UNCHANGED <<ftable, cwd>>
      /\ Noted({Name(np)})

Chdir(p) ==
  LET i == Namei(0, p)
  IN  /\ i # 0 /\ inodes[i].type = "dir"
      /\ Len(Absolute(p)) <= MaxCwd /\ Use + Len(Absolute(p)) - Len(cwd) <= MaxUse
      /\ cwd' = Absolute(p)
      /\ UNCHANGED <<inodes, ftable>> /\ Noted({})

IsInode(f) == ftable[f].type = "FD_INODE"
Ip(f) == inodes[ftable[f].ip]

SysRead(f, n) ==
  /\ IsInode(f) /\ ftable[f].readable
  /\ ftable' = [ftable EXCEPT ![f].off = @ + Readi(Ip(f), @, n)]
  /\ UNCHANGED <<inodes, cwd>> /\ Noted({})

(* getdents moves the offset past the dirents it looked at, empty or not. *)
SysGetdents(f, n) ==
  LET o == ftable[f].off
      filled == {k \in (o + 1)..Len(Ip(f).ents) : Ip(f).ents[k].inum # 0}
      stop == {k \in filled : Cardinality(filled \cap (o + 1)..k) = n}
  IN  /\ ftable[f].type # "FD_NONE" /\ Ip(f).type = "dir"
      /\ n > 0 /\ o < Len(Ip(f).ents)
      /\ ftable' = [ftable EXCEPT ![f].off = Min(stop \cup {Len(Ip(f).ents)})]
      /\ UNCHANGED <<inodes, cwd>> /\ Noted({})

SysWrite(f, n, b) ==
  LET o == ftable[f].off
      w == Writei(Ip(f), o, n)
  IN  /\ IsInode(f) /\ ftable[f].writable /\ Ip(f).type # "dir"
      /\ w > 0 /\ Use + Max({0, o + w - Ip(f).size}) <= MaxUse
      /\ inodes' = [inodes EXCEPT ![ftable[f].ip] = Written(@, o, w, b)]
      /\ ftable' = [ftable EXCEPT ![f].off = @ + w]
      /\ UNCHANGED cwd /\ Noted({})

SysFtruncate(f, s) ==
  /\ IsInode(f) /\ Ip(f).type # "dir"
  /\ s <= MAXFILE /\ Use + Max({0, s - Ip(f).size}) <= MaxUse
  /\ inodes' = [inodes EXCEPT ![ftable[f].ip] = Itruncate(@, s)]
  /\ UNCHANGED <<ftable, cwd>> /\ Noted({})

(* lseek to any offset, past the end too. *)
SysLseek(f, o) ==
  /\ IsInode(f)
  /\ ftable' = [ftable EXCEPT ![f].off = o]
  /\ UNCHANGED <<inodes, cwd>> /\ Noted({})

(* The last fileclose frees an inode without links, again perhaps. *)
Fileclose(f) ==
  /\ ftable[f].type # "FD_NONE"
  /\ inodes' = IF Ip(f).nlink = 0 THEN [inodes EXCEPT ![ftable[f].ip] = FreeInode]
               ELSE inodes
  /\ ftable' = [ftable EXCEPT ![f] = NoFile]
  /\ UNCHANGED cwd /\ Noted({})

(***************************************************************************)
(* The system                                                              *)
(***************************************************************************)
(* fs_init: the root, /dev and one device. *)
Boot(dev, console) ==
  LET blank == [i \in Inums |-> FreeInode]
      top == [blank EXCEPT ![ROOTINO] = NewInode("dir")]
      a == Dirlink(Dirlink(top, ROOTINO, ".", ROOTINO), ROOTINO, "..", ROOTINO)
      b == CreateIn(a, ROOTINO, dev, "dir")
      c == Dirlink(Dirlink(b, 2, ".", 2), 2, "..", ROOTINO)
  IN  [CreateIn(c, 2, console, "dev") EXCEPT ![ROOTINO].nlink = 3, ![2].nlink = 2]

Init ==
  /\ inodes = Boot("a", "b")
  /\ ftable = [f \in Files |-> NoFile]
  /\ cwd = <<>> /\ dotted = 0

PathCall ==
  \E base \in PathBases, p \in Paths :
    \/ \E fl \in Flags, full \in BOOLEAN :
         OpenExisting(base, p, fl, full) \/ OpenCreates(base, p, fl, full)
    \/ Mkdir(base, p)
    \/ Unlink(base, p)
    \/ Rmdir(base, p)
    \/ \E nbase \in PathBases, np \in Paths :
         Rename(base, p, nbase, np) \/ Link(base, p, nbase, np)
    \/ Chdir(p)

FileCall ==
  \E f \in Files :
    \/ \E n \in 1..2 : SysRead(f, n) \/ SysGetdents(f, n) \/ SysWrite(f, n, 1)
    \/ \E s \in 0..MAXFILE : SysFtruncate(f, s)
    \/ \E o \in 0..MaxOff : SysLseek(f, o)
    \/ Fileclose(f)

Next ==
  /\ dotted < MaxDotted /\ (dotted > 0 => Use < MaxUse)
  /\ PathCall \/ FileCall

Spec == Init /\ [][Next]_vars

(***************************************************************************)
(* Properties                                                              *)
(***************************************************************************)
Ents(I, d) == {k \in DOMAIN I[d].ents : I[d].ents[k].inum # 0}

(* The names of inode i: the dirents other than "." and ".." that hold its *)
(* number.                                                                 *)
NamesOf(I, i) ==
  UNION {{<<d, k>> : k \in {j \in NamedSlots(I[d]) : I[d].ents[j].inum = i}} : d \in Dirs(I)}

(* Inodes, open files and the working directory have the values the code   *)
(* can hold in them.                                                       *)
TypeOK ==
  /\ \A i \in Inums :
       /\ inodes[i].type \in {"free", "dir", "file", "dev"}
       /\ inodes[i].nlink \in Nat /\ inodes[i].size \in 0..MAXFILE
       /\ Len(inodes[i].ents) <= MAXENTS
       /\ inodes[i].type # "dir" => inodes[i].ents = <<>>
  /\ \A f \in Files :
       /\ ftable[f].type \in {"FD_NONE", "FD_INODE", "FD_DEVICE"}
       /\ ftable[f].type # "FD_NONE" => ftable[f].ip \in Inums
       /\ ftable[f].off \in Nat
  /\ Len(cwd) <= MaxCwd /\ dotted \in 0..MaxDotted

(* The directories form what path walking takes them for: a dirent names a *)
(* live inode of the type it records, once per name; no directory has two  *)
(* names; "." is the directory and ".." the one that holds its name, after *)
(* every unlink, rmdir, rename and link and through every reuse of a       *)
(* number.  In particular iget never fails on a dirent, which vfs_open_at  *)
(* relies on.  All this until a call unlinks a "." or "..": rmdir("d/.")   *)
(* frees a directory that has a name, rename("d/..", "x") gives one two    *)
(* names, and the code refuses neither.                                    *)
TreeShape ==
  dotted > 0 \/ \A d \in Dirs(inodes) :
    /\ \A k \in Ents(inodes, d) :
         LET e == inodes[d].ents[k]
         IN  /\ e.name \notin {".", ".."} => e.type = inodes[e.inum].type /\ e.type # "free"
             /\ e.name = "." => e.inum = d
             /\ e.name = ".." => \A n \in NamesOf(inodes, d) : e.inum = n[1]
             /\ SlotsOf(inodes[d], e.name) = {k}
    /\ Cardinality(NamesOf(inodes, d)) <= 1

(* The link count of a live inode is positive, so that fileclose frees no  *)
(* inode in use, and covers every name, so that no inode is freed while a  *)
(* name is left; a directory's covers itself and its subdirectories.  This *)
(* too holds until a call unlinks a "." or "..".                           *)
LinkCounts ==
  dotted > 0 \/ \A i \in Inums :
    /\ (inodes[i].nlink = 0) <=> (inodes[i].type = "free")
    /\ inodes[i].type \in {"file", "dev"} => Cardinality(NamesOf(inodes, i)) <= inodes[i].nlink
    /\ inodes[i].type = "dir" =>
         Cardinality({k \in NamedSlots(inodes[i]) : inodes[i].ents[k].type = "dir"})
           < inodes[i].nlink

(* An inode holds exactly the pages its size needs: no page is lost or     *)
(* held too long by truncate, and readi meets no hole.                     *)
BlocksMatchSize ==
  \A i \in Inums, q \in Blocks :
    (inodes[i].blk[q] # NoBlock) <=> (q * BSIZE < inodes[i].size)

ByteAt(x, k) == x.blk[k \div BSIZE][(k % BSIZE) + 1]

(* A byte of a file that can be read after a step was readable with the    *)
(* same value before, or is a zero the file grew by, or was written by     *)
(* this step through a handle that moved over it: a shrunken file that     *)
(* grows, or a page that is given to it, never shows old bytes.  (The step *)
(* that frees an inode or gives a number to a new file is not one of these *)
(* steps: ialloc leaves the new one empty.)                                *)
NoStaleBytes ==
  [][\A i \in Inums : inodes[i].type = "file" /\ inodes'[i].type = "file" =>
       \A k \in 0..(inodes'[i].size - 1) :
         \/ k < inodes[i].size /\ ByteAt(inodes'[i], k) = ByteAt(inodes[i], k)
         \/ k >= inodes[i].size /\ ByteAt(inodes'[i], k) = 0
         \/ \E f \in Files : /\ ftable[f].ip = i /\ ftable'[f].ip = i
                             /\ k \in ftable[f].off..(ftable'[f].off - 1)]_vars

(* A dirent that stays in a directory keeps its slot, whatever is created, *)
(* removed or renamed around it, so a getdents cursor neither skips nor    *)
(* repeats an entry that is there all along; until a call unlinks a ".",   *)
(* whose slot the ".." of a moved directory may then take.                 *)
CursorsStable ==
  [][dotted' > 0 \/ \A d \in Inums : inodes[d].type = "dir" /\ inodes'[d].type = "dir" =>
       \A k \in Ents(inodes, d) :
         LET e == inodes[d].ents[k]
             after == SlotsOf(inodes'[d], e.name)
         IN  after = {} \/ after = {k} \/ \A j \in after : inodes'[d].ents[j].inum # e.inum]_vars

(* "The caller must make sure that directory entries and open files no     *)
(* longer need the inode": an inode that is free is held by no open file   *)
(* and no dirent.                                                          *)
FreedIsUnneeded ==
  \A i \in Free(inodes) :
    /\ \A f \in Files : ftable[f].ip # i
    /\ NamesOf(inodes, i) = {}
============================================================================
