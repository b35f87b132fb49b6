------------------------------- MODULE Ninep -------------------------------
(***************************************************************************)
(* The wire format of the 9P client (kernel/fs/9p_conv.c): sizeS2M,        *)
(* convS2M and convM2S for messages, convD2M and convM2D for directory     *)
(* entries, and what virtio_9p.c and 9p_client.c do to a reply before or   *)
(* after them.                                                             *)
(*                                                                         *)
(* The three message routines each walk the fields of a message type in    *)
(* their own switch; the tables below are those three switches.  A message *)
(* is a record with the type and a function from field names to values; a  *)
(* string or a payload is a sequence of bytes, and a number of 32 or 64    *)
(* bits the sequence of its 16-bit digits, lowest first.  Only counts and  *)
(* sizes are numbers, and stay below 2^31.                                 *)
(***************************************************************************)
EXTENDS Integers, Sequences, FiniteSets, FiniteSetsExt, SequencesExt

MAXWELEM == 16
IOHDRSZ == 24
HDRSZ == 7       \* size[4] type[1] tag[2]
QIDSZ == 13
STATFIXLENMut_NoCount == 47
STATFIXLEN == 49
ERRSZ == 80      \* v9p_err

U8(n) == <<n, "u8">>
U16(n) == <<n, "u16">>
U32(n) == <<n, "u32">>
U64(n) == <<n, "u64">>
StrF(n) == <<n, "str">>
QidF(n) == <<n, "qid">>
NamesF(n) == <<n, "names">>   \* a 16-bit count and that many strings
QidsF(n) == <<n, "qids">>     \* a 16-bit count and that many qids
DataF(n) == <<n, "data">>     \* a 32-bit count and that many bytes
StatF(n) == <<n, "stat">>     \* a 16-bit count and that many bytes

(* The message types the routines know, at their numbers. *)
TypeCode ==
  [Tversion |-> 100, Rversion |-> 101, Tauth |-> 102, Rauth |-> 103,
   Tattach |-> 104, Rattach |-> 105, Rerror |-> 107, Tflush |-> 108,
   Rflush |-> 109, Twalk |-> 110, Rwalk |-> 111, Topen |-> 112,
   Ropen |-> 113, Tcreate |-> 114, Rcreate |-> 115, Tread |-> 116,
   Rread |-> 117, Twrite |-> 118, Rwrite |-> 119, Tclunk |-> 120,
   Rclunk |-> 121, Tremove |-> 122, Rremove |-> 123, Tstat |-> 124,
   Rstat |-> 125, Twstat |-> 126, Rwstat |-> 127]

Types == DOMAIN TypeCode
Replies == {t \in Types : TypeCode[t] % 2 = 1}

(* What sizeS2M counts. *)
SizeFields ==
  [Tversion |-> <<U32("msize"), StrF("version")>>,
   Tflush |-> <<U16("oldtag")>>,
   Tauth |-> <<U32("afid"), StrF("uname"), StrF("aname")>>,
   Tattach |-> <<U32("fid"), U32("afid"), StrF("uname"), StrF("aname"), U32("n_uname")>>,
   Twalk |-> <<U32("fid"), U32("newfid"), NamesF("wname")>>,
   Topen |-> <<U32("fid"), U8("mode")>>,
   Tcreate |-> <<U32("fid"), StrF("name"), U32("perm"), U8("mode"), StrF("ext")>>,
   Tread |-> <<U32("fid"), U64("offset"), U32("count")>>,
   Twrite |-> <<U32("fid"), U64("offset"), DataF("data")>>,
   Tclunk |-> <<U32("fid")>>, Tremove |-> <<U32("fid")>>, Tstat |-> <<U32("fid")>>,
   Twstat |-> <<U32("fid"), StatF("stat")>>,
   Rversion |-> <<U32("msize"), StrF("version")>>,
   Rerror |-> <<StrF("ename")>>,
   Rflush |-> <<>>,
   Rauth |-> <<QidF("aqid")>>, Rattach |-> <<QidF("qid")>>,
   Rwalk |-> <<QidsF("wqid")>>,
   Ropen |-> <<QidF("qid"), U32("iounit")>>, Rcreate |-> <<QidF("qid"), U32("iounit")>>,
   Rread |-> <<DataF("data")>>, Rwrite |-> <<U32("count")>>,
   Rclunk |-> <<>>, Rremove |-> <<>>,
   Rstat |-> <<StatF("stat")>>, Rwstat |-> <<>>]

(* What convS2M stores, in its order. *)
PutFields ==
  [Tversion |-> <<U32("msize"), StrF("version")>>,
   Tflush |-> <<U16("oldtag")>>,
   Tauth |-> <<U32("afid"), StrF("uname"), StrF("aname")>>,
   Tattach |-> <<U32("fid"), U32("afid"), StrF("uname"), StrF("aname"), U32("n_uname")>>,
   Twalk |-> <<U32("fid"), U32("newfid"), NamesF("wname")>>,
   Topen |-> <<U32("fid"), U8("mode")>>,
   Tcreate |-> <<U32("fid"), StrF("name"), U32("perm"), U8("mode"), StrF("ext")>>,
   Tread |-> <<U32("fid"), U64("offset"), U32("count")>>,
   Twrite |-> <<U32("fid"), U64("offset"), DataF("data")>>,
   Tclunk |-> <<U32("fid")>>, Tremove |-> <<U32("fid")>>, Tstat |-> <<U32("fid")>>,
   Twstat |-> <<U32("fid"), StatF("stat")>>,
   Rversion |-> <<U32("msize"), StrF("version")>>,
   Rerror |-> <<StrF("ename")>>,
   Rflush |-> <<>>,
   Rauth |-> <<QidF("aqid")>>, Rattach |-> <<QidF("qid")>>,
   Rwalk |-> <<QidsF("wqid")>>,
   Ropen |-> <<QidF("qid"), U32("iounit")>>, Rcreate |-> <<QidF("qid"), U32("iounit")>>,
   Rread |-> <<DataF("data")>>, Rwrite |-> <<U32("count")>>,
   Rclunk |-> <<>>, Rremove |-> <<>>,
   Rstat |-> <<StatF("stat")>>, Rwstat |-> <<>>]

(* What convM2S takes, in its order: not the two fields 9P2000.u added to  *)
(* requests, which it is never given.                                      *)
GetFields ==
  [Tversion |-> <<U32("msize"), StrF("version")>>,
   Tflush |-> <<U16("oldtag")>>,
   Tauth |-> <<U32("afid"), StrF("uname"), StrF("aname")>>,
   Tattach |-> <<U32("fid"), U32("afid"), StrF("uname"), StrF("aname")>>,
   Twalk |-> <<U32("fid"), U32("newfid"), NamesF("wname")>>,
   Topen |-> <<U32("fid"), U8("mode")>>,
   Tcreate |-> <<U32("fid"), StrF("name"), U32("perm"), U8("mode")>>,
   Tread |-> <<U32("fid"), U64("offset"), U32("count")>>,
   Twrite |-> <<U32("fid"), U64("offset"), DataF("data")>>,
   Tclunk |-> <<U32("fid")>>, Tremove |-> <<U32("fid")>>, Tstat |-> <<U32("fid")>>,
   Twstat |-> <<U32("fid"), StatF("stat")>>,
   Rversion |-> <<U32("msize"), StrF("version")>>,
   Rerror |-> <<StrF("ename")>>,
   Rflush |-> <<>>,
   Rauth |-> <<QidF("aqid")>>, Rattach |-> <<QidF("qid")>>,
   Rwalk |-> <<QidsF("wqid")>>,
   Ropen |-> <<QidF("qid"), U32("iounit")>>, Rcreate |-> <<QidF("qid"), U32("iounit")>>,
   Rread |-> <<DataF("data")>>, Rwrite |-> <<U32("count")>>,
   Rclunk |-> <<>>, Rremove |-> <<>>,
   Rstat |-> <<StatF("stat")>>, Rwstat |-> <<>>]

(***************************************************************************)
(* Fields                                                                  *)
(***************************************************************************)
Width == [u8 |-> 1, u16 |-> 2, u32 |-> 4, u64 |-> 8]

Wide == {"u32", "u64"}

Flat(ss) == FoldLeft(LAMBDA a, s : a \o s, <<>>, ss)

(* PBIT8 to PBIT32 of a number, little-endian. *)
Put(v, w) == [k \in 1..w |-> (v \div 256^(k - 1)) % 256]

(* GBIT8 to GBIT32, of the bytes behind p. *)
Get(b, p, w) == FoldLeft(LAMBDA a, k : a + b[p + k] * 256^(k - 1), 0, [k \in 1..w |-> k])

(* PBIT32, PBIT64, GBIT32 and GBIT64 of digits. *)
PutWide(v) == Flat([k \in DOMAIN v |-> Put(v[k], 2)])
GetWide(b, p, w) == [k \in 1..(w \div 2) |-> Get(b, p + 2 * (k - 1), 2)]

(* All ones, ~0 in the code. *)
Ones(w) == [k \in 1..(w \div 2) |-> 65535]

(* pstring *)
PutStr(s) == Put(Len(s), 2) \o s

(* pqid, of <<type, vers, path>> *)
PutQid(q) == Put(q[1], 1) \o PutWide(q[2]) \o PutWide(q[3])

SizeOfField(k, v) ==
  CASE k \in DOMAIN Width -> Width[k]
    [] k = "str" -> 2 + Len(v)
    [] k = "qid" -> QIDSZ
    [] k = "names" -> 2 + FoldLeft(LAMBDA a, s : a + 2 + Len(s), 0, v)
    [] k = "qids" -> 2 + Len(v) * QIDSZ
    [] k = "data" -> 4 + Len(v)
    [] k = "stat" -> 2 + Len(v)

PutField(k, v) ==
  CASE k \in Wide -> PutWide(v)
    [] k \in DOMAIN Width \ Wide -> Put(v, Width[k])
    [] k = "str" -> PutStr(v)
    [] k = "qid" -> PutQid(v)
    [] k = "names" -> Put(Len(v), 2) \o Flat([j \in DOMAIN v |-> PutStr(v[j])])
    [] k = "qids" -> Put(Len(v), 2) \o Flat([j \in DOMAIN v |-> PutQid(v[j])])
    [] k = "data" -> Put(Len(v), 4) \o v
    [] k = "stat" -> Put(Len(v), 2) \o v

(* A cursor in a buffer of ep bytes: at byte p, with the value taken last; *)
(* bad once a read would pass the end.                                     *)
At(p) == [p |-> p, v |-> 0, bad |-> FALSE]
Bad == [p |-> 0, v |-> 0, bad |-> TRUE]

GetBytes(b, ep, p, n) ==
  IF p + n > ep THEN Bad ELSE [p |-> p + n, v |-> SubSeq(b, p + 1, p + n), bad |-> FALSE]

GetInt(b, ep, p, k) ==
  LET w == Width[k]
  IN  IF p + w > ep THEN Bad
      ELSE [p |-> p + w, v |-> IF k \in Wide THEN GetWide(b, p, w) ELSE Get(b, p, w), bad |-> FALSE]

(* A count of w bytes, then that many bytes (gstring, Rread, Rstat). *)
GetCounted(b, ep, p, w) ==
  IF p + w > ep THEN Bad ELSE GetBytes(b, ep, p + w, Get(b, p, w))

GetQid(b, ep, p) ==
  IF p + QIDSZ > ep THEN Bad
  ELSE [p |-> p + QIDSZ, v |-> <<Get(b, p, 1), GetWide(b, p + 1, 4), GetWide(b, p + 5, 8)>>,
        bad |-> FALSE]

(* A 16-bit count, at most MAXWELEM, then that many items. *)
GetList(b, ep, p, k) ==
  LET n == Get(b, p, 2)
      step(c, j) == LET d == IF k = "qids" THEN GetQid(b, ep, c.p)
                                           ELSE GetCounted(b, ep, c.p, 2)
                    IN  IF c.bad \/ d.bad THEN Bad ELSE [d EXCEPT !.v = Append(c.v, @)]
  IN  IF p + 2 > ep THEN Bad
      ELSE IF n > MAXWELEM THEN Bad
      ELSE FoldLeft(step, [At(p + 2) EXCEPT !.v = <<>>], [j \in 1..n |-> j])

GetField(k, b, ep, p) ==
  CASE k \in DOMAIN Width -> GetInt(b, ep, p, k)
    [] k = "str" -> GetCounted(b, ep, p, 2)
    [] k = "qid" -> GetQid(b, ep, p)
    [] k \in {"names", "qids"} -> GetList(b, ep, p, k)
    [] k = "data" -> GetCounted(b, ep, p, 4)
    [] k = "stat" -> GetCounted(b, ep, p, 2)

(* The fields x, one after the other, as a function from their names. *)
GetAll(x, b, ep, p) ==
  FoldLeft(LAMBDA c, y : LET d == GetField(y[2], b, ep, c.p)
                         IN  IF c.bad THEN Bad ELSE IF d.bad THEN Bad
                             ELSE [d EXCEPT !.v = [n \in DOMAIN c.v \cup {y[1]} |->
                                                     IF n = y[1] THEN @ ELSE c.v[n]]],
           [At(p) EXCEPT !.v = <<>>], x)

(***************************************************************************)
(* Messages                                                                *)
(***************************************************************************)
SizeS2M(f) ==
  FoldLeft(LAMBDA n, x : n + SizeOfField(x[2], f.val[x[1]]), HDRSZ, SizeFields[f.type])

TooMany(f) ==
  \E x \in Range(PutFields[f.type]) : x[2] \in {"names", "qids"} /\ Len(f.val[x[1]]) > MAXWELEM

(* The header and the fields of f, one after the other. *)
Stored(f) ==
  LET x == PutFields[f.type]
  IN  Put(SizeS2M(f), 4) \o Put(TypeCode[f.type], 1) \o Put(f.tag, 2)
        \o Flat([k \in DOMAIN x |-> PutField(x[k][2], f.val[x[k][1]])])

(* The empty sequence stands for the answer 0. *)
ConvS2M(f, nap) ==
  IF SizeS2M(f) > nap \/ TooMany(f) \/ Len(Stored(f)) # SizeS2M(f) THEN <<>> ELSE Stored(f)

NoFcall == [type |-> "none", tag |-> 0, val |-> <<>>]

(* NoFcall stands for the answer 0: the header or a field does not fit in  *)
(* the nap bytes there are, the type is unknown, or the fields do not end  *)
(* where the size in the header says.                                      *)
ConvM2S(b, nap) ==
  LET codes == {t \in Types : TypeCode[t] = b[5]}
      fcall(t, end) == IF end.bad \/ end.p > nap \/ end.p # Get(b, 0, 4) THEN NoFcall
                       ELSE [type |-> t, tag |-> Get(b, 5, 2), val |-> end.v]
  IN  IF nap < HDRSZ \/ codes = {} THEN NoFcall
      ELSE LET t == CHOOSE x \in codes : TRUE
           IN  fcall(t, GetAll(GetFields[t], b, nap, HDRSZ))

(* v9p_rpc on the answer to a request of type T: the reply as the caller   *)
(* sees it, or NoFcall for -1.  Rerror is not decoded, because 9P2000.u    *)
(* appends an error code convM2S does not expect.                          *)
RpcReply(T, b, rlen) ==
  IF rlen < HDRSZ THEN NoFcall
  ELSE IF b[5] = TypeCode["Rerror"] \/ b[5] # TypeCode[T] + 1 THEN NoFcall
  ELSE ConvM2S(b, rlen)

(* The bytes of the error text v9p_rpc keeps. *)
ErrLen(b, rlen) ==
  Min({ERRSZ - 1, IF rlen >= 9 THEN Min({Get(b, 7, 2), rlen - 9}) ELSE 0})

(***************************************************************************)
(* Directory entries                                                       *)
(***************************************************************************)
DirFields ==
  <<U16("type"), U32("dev"), QidF("qid"), U32("mode"), U32("atime"),
    U32("mtime"), U64("length"), StrF("name"), StrF("uid"), StrF("gid"), StrF("muid")>>

(* A buffer that is too short gets the size it would take, and no more. *)
ConvD2M(d, nbuf) ==
  LET ss == STATFIXLEN + Len(d.name) + Len(d.uid) + Len(d.gid) + Len(d.muid)
      m == Put(ss - 2, 2) \o Flat([k \in DOMAIN DirFields |-> PutField(DirFields[k][2], d[DirFields[k][1]])])
  IN  IF nbuf < 2 THEN <<>>
      ELSE IF ss > nbuf THEN Put(ss - 2, 2)
      ELSE IF Len(m) # ss THEN <<>> ELSE m

(* The Dir in b and where it ends; the size in front is ignored.  The      *)
(* caller's 256 bytes for the copies of the strings, which convM2D does    *)
(* not know of, are not modelled: four longer strings overrun them.        *)
ConvM2D(b, nbuf) == IF nbuf < STATFIXLEN THEN Bad ELSE GetAll(DirFields, b, nbuf, 2)

(* v9p_loaddir takes the entries of a read one by one, each as long as the *)
(* size in front of it says, up to the first that is not whole.            *)
DirEntries(b) ==
  LET more(p) == p + 2 <= Len(b)
      total(p) == Get(b, p, 2) + 2
      entry(p) == ConvM2D(SubSeq(b, p + 1, p + total(p)), total(p))
      whole(p) == IF ~more(p) THEN FALSE
                  ELSE IF p + total(p) > Len(b) THEN FALSE ELSE ~entry(p).bad
      from[p \in 0..Len(b)] ==
        IF whole(p) THEN <<entry(p).v>> \o from[p + total(p)] ELSE <<>>
  IN  from[0]

(* v9p_truncate: every field but the length says "leave it". *)
WstatDir(size) ==
  [type |-> 65535, dev |-> Ones(4), qid |-> <<255, Ones(4), Ones(8)>>, mode |-> Ones(4),
   atime |-> Ones(4), mtime |-> Ones(4), length |-> size, name |-> <<>>, uid |-> <<>>, gid |-> <<>>, muid |-> <<>>]

(* v9p_file_read, v9p_file_write and v9p_loaddir ask for no more than this. *)
Clamp(n, msize) == Min({n, msize - IOHDRSZ})

(***************************************************************************)
(* The property                                                            *)
(***************************************************************************)
(* Values at the edges of a field's widths and counts, one item too many   *)
(* included.                                                               *)
Samples(k) ==
  CASE k = "u8" -> {0, 255}
    [] k = "u16" -> {0, 65535}
    [] k = "u32" -> {<<0, 0>>, <<1, 32768>>, Ones(4)}
    [] k = "u64" -> {<<0, 0, 0, 0>>, <<1, 2, 3, 32768>>, Ones(8)}
    [] k = "str" -> {<<>>, <<97, 98>>}
    [] k = "qid" -> {<<128, <<1, 2>>, <<3, 4, 5, 6>>>>, <<255, Ones(4), Ones(8)>>}
    [] k = "names" -> {[j \in 1..n |-> <<97>>] : n \in {0, 1, MAXWELEM, MAXWELEM + 1}}
    [] k = "qids" -> {[j \in 1..n |-> <<j, <<1, 2>>, <<3, 4, 5, 6>>>>]
                        : n \in {0, 1, MAXWELEM, MAXWELEM + 1}}
    [] k \in {"data", "stat"} -> {<<>>, <<1>>, <<2, 0, 3>>}

(* All ways to fill the fields x. *)
Fillings(x) ==
  FoldLeft(LAMBDA S, y : UNION {{[n \in DOMAIN g \cup {y[1]} |-> IF n = y[1] THEN v ELSE g[n]]
                                  : v \in Samples(y[2])} : g \in S}, {<<>>}, x)

Messages(t) == {[type |-> t, tag |-> 0, val |-> g] : g \in Fillings(SizeFields[t])}

(* The types that convM2S takes apart field by field as convS2M stores     *)
(* them.                                                                   *)
Decodable == {t \in Types : GetFields[t] = PutFields[t]}

(* The three switches agree.  Every message is encoded in exactly the      *)
(* bytes counted for it, and refused when the buffer has one less; when it *)
(* has one name or qid too many it is refused whatever the buffer, and so  *)
(* it is by convM2S, should another store it.  Every other message is      *)
(* decoded to what was encoded, also with more bytes behind it, and        *)
(* refused when it is cut anywhere; v9p_rpc passes on the reply to its own *)
(* request only, and never takes more of an error text than there is.      *)
MessagesExact ==
  \A t \in Types : \A f \in Messages(t) : \A m \in {Stored(f)} :
    /\ ConvS2M(f, SizeS2M(f)) = IF TooMany(f) THEN <<>> ELSE m
    /\ Len(m) = SizeS2M(f)
    /\ ConvS2M(f, Len(m) - 1) = <<>>
    /\ t \in Decodable =>
         \A n \in 0..(Len(m) + 1) :
           ConvM2S(m \o <<1>>, n) = IF n < Len(m) \/ TooMany(f) THEN NoFcall ELSE f
    /\ t \in Replies =>
         \A T \in Types \ Replies :
           RpcReply(T, m, Len(m)) =
             IF t # "Rerror" /\ TypeCode[t] = TypeCode[T] + 1 /\ ~TooMany(f) THEN f ELSE NoFcall
    /\ t = "Rerror" => \A n \in 9..Len(m) : 9 + ErrLen(m, n) <= n

SampleDir(name, length) ==
  [WstatDir(length) EXCEPT !.dev = <<1, 0>>, !.qid = <<128, <<0, 0>>, <<2, 0, 0, 3>>>>,
                           !.mode = <<0, 32768>>, !.name = name]

(* A read of a directory gives back the entries it holds, whole ones only  *)
(* when it is cut; the entry v9p_truncate sends fills its buffer.          *)
EntriesExact ==
  /\ Len(ConvD2M(WstatDir(<<1, 2, 0, 0>>), STATFIXLEN)) = STATFIXLEN
  /\ LET d == SampleDir(<<97, 98>>, <<1, 2, 3, 4>>)
         e == SampleDir(<<97>>, Ones(8))
         m == ConvD2M(d, 60) \o ConvD2M(e, 60)
     IN  /\ DirEntries(m) = <<d, e>>
         /\ \A n \in 1..(Len(m) - 1) :
              DirEntries(SubSeq(m, 1, n)) = IF n < Len(ConvD2M(d, 60)) THEN <<>> ELSE <<d>>

(* With the negotiated size, a write of any length and the answer to a     *)
(* read of any length fit in a message.                                    *)
TransfersFit(msize) ==
  \A n \in 0..(2 * msize) :
    LET data == [k \in 1..Clamp(n, msize) |-> 1]
    IN  /\ SizeS2M([type |-> "Twrite", val |-> [fid |-> <<1, 0>>, offset |-> <<0, 0, 0, 0>>, data |-> data]]) <= msize
        /\ SizeS2M([type |-> "Rread", val |-> [data |-> data]]) <= msize

FormatExact == MessagesExact /\ EntriesExact /\ TransfersFit(64)
============================================================================
