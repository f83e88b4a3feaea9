---------------------------- MODULE BackendFsProofs ----------------------------
(* What the back end does to a file tree, proved for any set of names, any *)
(* depth and any trees it may find.                                        *)
EXTENDS BackendFs, FileTreeProofs

-----------------------------------------------------------------------------
(* Call stacks.                                                            *)

LEMMA StackTop ==
  \A q \in Seq(CallRecord) : q # << >> =>
    /\ Head(q) = q[1] /\ Head(q) \in CallRecord
    /\ Len(q) \in Nat /\ Len(q) >= 1
    /\ \A i \in DOMAIN q : q[i] \in CallRecord
    /\ DOMAIN q = 1..Len(q)
BY EmptySeq, ElementOfSeq, LenProperties

(* The innermost call goes on.                                             *)
LEMMA StackGo ==
  \A q \in Seq(CallRecord) : \A c \in CallRecord : q # << >> =>
    /\ <<c>> \o Tail(q) \in Seq(CallRecord)
    /\ <<c>> \o Tail(q) # << >>
    /\ Len(<<c>> \o Tail(q)) = Len(q)
    /\ (<<c>> \o Tail(q))[1] = c
    /\ \A i \in 2..Len(q) : (<<c>> \o Tail(q))[i] = q[i]
    /\ Len(q) = 1 => <<c>> \o Tail(q) = <<c>>
<1> SUFFICES ASSUME NEW q \in Seq(CallRecord), NEW c \in CallRecord, q # << >>
             PROVE  /\ <<c>> \o Tail(q) \in Seq(CallRecord)
                    /\ <<c>> \o Tail(q) # << >>
                    /\ Len(<<c>> \o Tail(q)) = Len(q)
                    /\ (<<c>> \o Tail(q))[1] = c
                    /\ \A i \in 2..Len(q) : (<<c>> \o Tail(q))[i] = q[i]
                    /\ Len(q) = 1 => <<c>> \o Tail(q) = <<c>>
  OBVIOUS
<1> DEFINE t == Tail(q)
           r == <<c>> \o t
<1>1. /\ t \in Seq(CallRecord) /\ Len(t) = Len(q) - 1 /\ Len(q) \in Nat /\ Len(q) >= 1
      /\ \A i \in 1..Len(t) : t[i] = q[i + 1]
  BY HeadTailProperties, StackTop
<1>2. <<c>> \in Seq(CallRecord) /\ Len(<<c>>) = 1 /\ <<c>>[1] = c
  OBVIOUS
<1> HIDE DEF t
<1>3. /\ r \in Seq(CallRecord) /\ Len(r) = 1 + Len(t)
      /\ \A i \in 1..(1 + Len(t)) : r[i] = IF i <= 1 THEN c ELSE t[i - 1]
  BY <1>1, <1>2, ConcatProperties
<1>4. Len(t) = 0 => r = <<c>>
  BY <1>1, <1>2, EmptySeq, ConcatEmptySeq
<1> HIDE DEF r
<1>5. Len(r) = Len(q) /\ r[1] = c /\ r # << >> /\ \A i \in 2..Len(q) : r[i] = q[i]
  BY <1>1, <1>3
<1> QED BY <1>1, <1>3, <1>4, <1>5 DEF r, t

(* It calls another one.                                                   *)
LEMMA StackPush ==
  \A q \in Seq(CallRecord) : \A c, d \in CallRecord : q # << >> =>
    /\ <<c, d>> \o Tail(q) \in Seq(CallRecord)
    /\ <<c, d>> \o Tail(q) # << >>
    /\ Len(<<c, d>> \o Tail(q)) = Len(q) + 1
    /\ (<<c, d>> \o Tail(q))[1] = c
    /\ (<<c, d>> \o Tail(q))[2] = d
    /\ \A i \in 3..(Len(q) + 1) : (<<c, d>> \o Tail(q))[i] = q[i - 1]
<1> SUFFICES ASSUME NEW q \in Seq(CallRecord), NEW c \in CallRecord, NEW d \in CallRecord,
                    q # << >>
             PROVE  /\ <<c, d>> \o Tail(q) \in Seq(CallRecord)
                    /\ <<c, d>> \o Tail(q) # << >>
                    /\ Len(<<c, d>> \o Tail(q)) = Len(q) + 1
                    /\ (<<c, d>> \o Tail(q))[1] = c
                    /\ (<<c, d>> \o Tail(q))[2] = d
                    /\ \A i \in 3..(Len(q) + 1) : (<<c, d>> \o Tail(q))[i] = q[i - 1]
  OBVIOUS
<1> DEFINE t == Tail(q)
           r == <<c, d>> \o t
<1>1. /\ t \in Seq(CallRecord) /\ Len(t) = Len(q) - 1 /\ Len(q) \in Nat /\ Len(q) >= 1
      /\ \A i \in 1..Len(t) : t[i] = q[i + 1]
  BY HeadTailProperties, StackTop
<1>2. <<c, d>> \in Seq(CallRecord) /\ Len(<<c, d>>) = 2 /\ <<c, d>>[1] = c /\ <<c, d>>[2] = d
  OBVIOUS
<1> DEFINE s == <<c, d>>
<1> HIDE DEF t, s
<1>0. /\ s \o t \in Seq(CallRecord) /\ Len(s \o t) = Len(s) + Len(t)
      /\ \A i \in 1..(Len(s) + Len(t)) :
           (s \o t)[i] = IF i <= Len(s) THEN s[i] ELSE t[i - Len(s)]
  <2>1. s \in Seq(CallRecord)
    BY <1>2 DEF s
  <2> QED BY <2>1, <1>1, ConcatProperties
<1>3. /\ r \in Seq(CallRecord) /\ Len(r) = 2 + Len(t)
      /\ \A i \in 1..(2 + Len(t)) : r[i] = IF i <= 2 THEN <<c, d>>[i] ELSE t[i - 2]
  <2>1. r = s \o t /\ Len(s) = 2 /\ \A i : s[i] = <<c, d>>[i]
    BY <1>2 DEF s
  <2> HIDE DEF r
  <2> QED BY <2>1, <1>0
<1> HIDE DEF r
<1>4. Len(r) = Len(q) + 1 /\ r # << >>
  BY <1>1, <1>3
<1>5. r[1] = c /\ r[2] = d
  BY <1>1, <1>2, <1>3
<1>6. ASSUME NEW i \in 3..(Len(q) + 1)
      PROVE  r[i] = q[i - 1]
  <2>1. i \in 1..(2 + Len(t)) /\ ~(i <= 2) /\ i - 2 \in 1..Len(t) /\ (i - 2) + 1 = i - 1
    BY <1>1
  <2> QED BY <2>1, <1>1, <1>3
<1> QED BY <1>3, <1>4, <1>5, <1>6 DEF r, t

(* It returns to its caller.                                               *)
LEMMA StackPop ==
  \A q \in Seq(CallRecord) : q # << >> /\ Len(q) # 1 =>
    /\ Tail(q) \in Seq(CallRecord) /\ Tail(q) # << >>
    /\ Len(Tail(q)) = Len(q) - 1
    /\ \A i \in 1..(Len(q) - 1) : Tail(q)[i] = q[i + 1]
<1> SUFFICES ASSUME NEW q \in Seq(CallRecord), q # << >>, Len(q) # 1
             PROVE  /\ Tail(q) \in Seq(CallRecord) /\ Tail(q) # << >>
                    /\ Len(Tail(q)) = Len(q) - 1
                    /\ \A i \in 1..(Len(q) - 1) : Tail(q)[i] = q[i + 1]
  OBVIOUS
<1>1. /\ Tail(q) \in Seq(CallRecord) /\ Len(Tail(q)) = Len(q) - 1
      /\ \A i \in 1..Len(Tail(q)) : Tail(q)[i] = q[i + 1]
  BY HeadTailProperties
<1>2. Len(q) \in Nat /\ Len(q) > 1
  <2>1. Len(q) \in Nat /\ Len(q) >= 1
    BY StackTop
  <2>2. \A k \in Nat : k >= 1 /\ k # 1 => k > 1
    OBVIOUS
  <2> QED BY <2>1, <2>2
<1>3. Tail(q) # << >>
  BY <1>1, <1>2, EmptySeq
<1>4. Len(Tail(q)) = Len(q) - 1
  BY <1>1
<1> QED BY <1>1, <1>3, <1>4

-----------------------------------------------------------------------------
(* Commands.                                                               *)

LEMMA CommandTypes ==
  \A c \in Commands :
    /\ c.src \in Path /\ c.dst \in Path
    /\ c.type \in {"delete", "chmod", "link", "mkdir", "rename", "move", "copy"}
    /\ c.type # "mkdir" => c.src # << >>
    /\ c.type = "mkdir" => Len(c.src) < Depth
    /\ c.type \in {"delete", "chmod", "link", "mkdir"} => c.dst = << >>
    /\ c.type \in {"rename", "move", "copy"} => c.dst # << >>
    /\ c.type \in Transfer => ~IsStrictPrefix(c.src, c.dst)
<1> SUFFICES ASSUME NEW c \in Commands
             PROVE  /\ c.src \in Path /\ c.dst \in Path
                    /\ c.type \in {"delete", "chmod", "link", "mkdir", "rename", "move", "copy"}
                    /\ c.type # "mkdir" => c.src # << >>
                    /\ c.type = "mkdir" => Len(c.src) < Depth
                    /\ c.type \in {"delete", "chmod", "link", "mkdir"} => c.dst = << >>
                    /\ c.type \in {"rename", "move", "copy"} => c.dst # << >>
                    /\ c.type \in Transfer => ~IsStrictPrefix(c.src, c.dst)
  OBVIOUS
<1>1. << >> \in Path
  BY PathTypes
<1>2. CASE c \in [type : {"delete", "chmod", "link"}, src : Entries, dst : {<< >>}]
  BY <1>1, <1>2 DEF Entries, Transfer
<1>3. CASE c \in [type : {"mkdir"}, src : {p \in Path : Len(p) < Depth}, dst : {<< >>}]
  BY <1>1, <1>3 DEF Transfer
<1>4. CASE c \in {x \in [type : {"rename"}, src : Entries, dst : Entries] :
                    Parent(x.src) = Parent(x.dst)}
  BY <1>4 DEF Entries, Transfer
<1>5. CASE c \in {x \in [type : {"move", "copy"}, src : Entries, dst : Entries] :
                    Last(x.src) = Last(x.dst) /\ ~IsStrictPrefix(x.src, x.dst)}
  BY <1>5 DEF Entries, Transfer
<1> QED BY <1>2, <1>3, <1>4, <1>5 DEF Commands

LEMMA MountPoints ==
  \A m \in Mounted :
    /\ <<m>> \in Path /\ <<m>> # << >>
    /\ \A p \in Path : IsPrefix(p, <<m>>) /\ p # << >> => p = <<m>>
<1> SUFFICES ASSUME NEW m \in Mounted
             PROVE  /\ <<m>> \in Path /\ <<m>> # << >>
                    /\ \A p \in Path : IsPrefix(p, <<m>>) /\ p # << >> => p = <<m>>
  OBVIOUS
<1>1. <<m>> \in Seq(Names) /\ Len(<<m>>) = 1 /\ <<m>> # << >>
  BY MountedAssumption
<1>2. <<m>> \in Path
  <2>1. Len(<<m>>) <= Depth
    BY <1>1, DepthAssumption
  <2> QED BY <1>1, <2>1, PathIsSequence
<1>3. ASSUME NEW p \in Path, IsPrefix(p, <<m>>), p # << >>
      PROVE  p = <<m>>
  <2> DEFINE q == <<m>>
  <2>1. Len(p) <= Len(q) /\ Len(p) \in Nat /\ Len(p) # 0
    <3>1. q \in Path /\ IsPrefix(p, q)
      BY <1>2, <1>3
    <3> HIDE DEF q
    <3> QED BY <3>1, <1>3, PrefixOrder, PathTypes
  <2>2. q \in Path /\ IsPrefix(p, q) /\ Len(q) = 1
    BY <1>1, <1>2, <1>3
  <2> HIDE DEF q
  <2>3. Len(p) = Len(q)
    <3>1. \A k \in Nat : k <= 1 /\ k # 0 => k = 1
      OBVIOUS
    <3> QED BY <3>1, <2>1, <2>2
  <2>4. p = q
    BY <2>2, <2>3, PrefixOrder
  <2> QED BY <2>4 DEF q
<1> QED BY <1>1, <1>2, <1>3

(* There is room below the destination for all that is below the source.   *)
LEMMA FitsAbove ==
  \A t : \A src, dst \in Path : IsPrefix(dst, src) => Fits(t, src, dst)
<1> SUFFICES ASSUME NEW t, NEW src \in Path, NEW dst \in Path, IsPrefix(dst, src),
                    NEW q \in Under(src)
             PROVE  Len(Rebased(q, src, dst)) <= Depth
  BY DEF Fits
<1>1. q \in Path /\ IsPrefix(src, q)
  BY DEF Under
<1>2. Len(Rebased(q, src, dst)) = Len(dst) + Len(q) - Len(src)
  BY <1>1, RebasedNames
<1>3. Len(dst) <= Len(src) /\ Len(q) <= Depth
  BY <1>1, PrefixOrder, PathTypes, DepthAssumption
<1> QED BY <1>1, <1>2, <1>3, PathTypes, DepthAssumption

LEMMA FitsStill ==
  ASSUME NEW t, NEW u, NEW src \in Path, NEW dst \in Path,
         Fits(t, src, dst), ~IsStrictPrefix(src, dst),
         \A q \in Path : u[q] # Nothing /\ t[q] = Nothing => IsPrefix(dst, q)
  PROVE  Fits(u, src, dst)
<1>1. CASE IsPrefix(dst, src)
  BY <1>1, FitsAbove
<1>2. CASE ~IsPrefix(dst, src)
  <2> SUFFICES ASSUME NEW q \in Under(src), u[q] # Nothing
               PROVE  t[q] # Nothing
    BY DEF Fits
  <2>1. q \in Path /\ IsPrefix(src, q)
    BY DEF Under
  <2>2. ~IsPrefix(dst, q)
    <3> SUFFICES ASSUME IsPrefix(dst, q)
                 PROVE  FALSE
      OBVIOUS
    <3>1. IsPrefix(src, dst)
      BY <2>1, <1>2, PrefixesComparable, PathTypes, DepthAssumption
    <3>2. src # dst
      BY <1>2, PrefixOrder
    <3> QED BY <3>1, <3>2 DEF IsStrictPrefix
  <2> QED BY <2>1, <2>2
<1> QED BY <1>1, <1>2

-----------------------------------------------------------------------------
(* The tree and the stack are sound.                                       *)

Sound     == TypeOK /\ StackSound
FsSound   == fs \in [Path -> Node] /\ WellFormed(fs)
LinkValue == Linked \cup {File(Foreign)} \cup {LinkTo(p) : p \in Path}

LEMMA FaultType == faults \in 0..MaxFaults /\ (Fault \/ UNCHANGED faults) => faults' \in 0..MaxFaults
<1>1. MaxFaults \in Nat
  BY BoundsAssumption
<1> QED BY <1>1 DEF Fault

LEMMA NodeExcept ==
  ASSUME NEW t \in [Path -> Node], WellFormed(t), NEW p \in Path, NEW v \in Node,
         p # << >>,
         v = Nothing \/ t[Parent(p)] = Dir,
         v = Dir \/ Children(t, p) = {},
         v = Dir \/ \A m \in Mounted : p # <<m>>
  PROVE  /\ [t EXCEPT ![p] = v] \in [Path -> Node]
         /\ WellFormed([t EXCEPT ![p] = v])
<1>1. IsTree([t EXCEPT ![p] = v])
  BY TreeExcept DEF WellFormed
<1>2. ASSUME NEW m \in Mounted
      PROVE  [t EXCEPT ![p] = v][<<m>>] = Dir
  BY MountPoints DEF WellFormed
<1> QED BY <1>1, <1>2 DEF WellFormed

LEMMA NodeRenamed ==
  ASSUME NEW t \in [Path -> Node], WellFormed(t), NEW src \in Path, NEW dst \in Path,
         src # << >>, dst # << >>, Renames(t, src, dst),
         \A m \in Mounted : src # <<m>> /\ dst # <<m>>
  PROVE  /\ Renamed(t, src, dst) \in [Path -> Node]
         /\ WellFormed(Renamed(t, src, dst))
<1>1. IsTree(Renamed(t, src, dst))
  BY RenamedTree DEF WellFormed
<1>2. Renamed(t, src, dst) \in [Path -> Node]
  BY RenamedType DEF Node
<1>3. ASSUME NEW m \in Mounted
      PROVE  Renamed(t, src, dst)[<<m>>] = Dir
  <2>1. ~IsPrefix(src, <<m>>) /\ ~IsPrefix(dst, <<m>>) /\ <<m>> \in Path
    BY MountPoints
  <2>2. CASE src = dst
    BY <2>2 DEF Renamed, WellFormed
  <2>3. CASE src # dst
    BY <2>1, <2>3, RenamedAt DEF WellFormed
  <2> QED BY <2>2, <2>3
<1> QED BY <1>1, <1>2, <1>3 DEF WellFormed

(* What the innermost call knows of itself, by the function it is in.      *)
LEMMA RunningTop ==
  ASSUME Sound, status = "running"
  PROVE  /\ calls \in Seq(CallRecord) /\ calls # << >>
         /\ top = calls[1] /\ top \in CallRecord
         /\ Len(calls) \in Nat /\ Len(calls) >= 1
         /\ command \in Commands /\ Src \in Path /\ Dst \in Path
         /\ top.src \in Path /\ IsPrefix(Src, top.src)
         /\ Fits(fs, Src, Dst)
<1>1. /\ calls \in Seq(CallRecord) /\ calls # << >> /\ command \in Commands
      /\ Fits(fs, Src, Dst)
  BY DEF Sound, TypeOK, StackSound
<1>2. /\ top = calls[1] /\ top \in CallRecord /\ Len(calls) \in Nat /\ Len(calls) >= 1
      /\ DOMAIN calls = 1..Len(calls)
  BY <1>1, StackTop DEF top
<1>3. Src \in Path /\ Dst \in Path /\ top.src \in Path
  BY <1>1, <1>2, CommandTypes DEF Src, Dst, CallRecord
<1>4. IsPrefix(Src, top.src)
  <2>1. CASE command.type \in Transfer
    <3>1. Chain
      BY <2>1 DEF Sound, StackSound
    <3>2. 1 \in DOMAIN calls /\ Len(calls) \in DOMAIN calls /\ 1 <= Len(calls)
      BY <1>2
    <3> QED BY <3>1, <3>2, <1>2 DEF Chain
  <2>2. CASE command.type \notin Transfer
    BY <2>2, <1>3, PrefixOrder DEF Sound, StackSound, SingleCall
  <2> QED BY <2>1, <2>2
<1> QED BY <1>1, <1>2, <1>3, <1>4

LEMMA TransferTop ==
  ASSUME Sound, status = "running", top.fn \in Transfer
  PROVE  /\ command.type = top.fn /\ Chain /\ OpenFiles /\ Removable
         /\ Src # << >> /\ Dst # << >> /\ ~IsStrictPrefix(Src, Dst)
         /\ top.dst = Rebased(top.src, Src, Dst)
         /\ top.dst \in Path /\ IsPrefix(Dst, top.dst)
         /\ top.src # << >> /\ top.dst # << >>
<1>1. command.type = top.fn /\ Chain
  <2>1. CASE command.type \notin Transfer
    BY <2>1 DEF Sound, StackSound, SingleCall, Transfer
  <2>2. CASE command.type \in Transfer
    <3>1. Chain
      BY <2>2 DEF Sound, StackSound
    <3>2. 1 \in DOMAIN calls /\ top = calls[1]
      BY RunningTop, StackTop
    <3> QED BY <3>1, <3>2 DEF Chain, Transfer
  <2> QED BY <2>1, <2>2
<1>2. OpenFiles /\ Removable
  BY <1>1 DEF Sound, StackSound, Transfer
<1>3. Src # << >> /\ Dst # << >> /\ ~IsStrictPrefix(Src, Dst)
  BY <1>1, RunningTop, CommandTypes DEF Src, Dst, Transfer
<1>4. top.dst = Rebased(top.src, Src, Dst)
  <2>1. 1 \in DOMAIN calls /\ top = calls[1]
    BY RunningTop, StackTop
  <2> QED BY <2>1, <1>1 DEF Chain, Transfer
<1>5. top.dst \in Path
  BY RunningTop DEF CallRecord
<1>6. IsPrefix(Dst, top.dst)
  <2>1. Len(Rebased(top.src, Src, Dst)) <= Depth
    BY <1>4, <1>5, PathTypes, DepthAssumption
  <2> QED BY <2>1, <1>4, RunningTop, RebasedPath
<1>7. top.src # << >> /\ top.dst # << >>
  BY <1>3, <1>5, <1>6, RunningTop, PrefixOrder, PathTypes
<1> QED BY <1>1, <1>2, <1>3, <1>4, <1>5, <1>6, <1>7

LEMMA RemoveTop ==
  ASSUME Sound, status = "running", top.fn = "remove"
  PROVE  command.type \in {"delete", "move"} /\ Removable /\ top.src # << >>
<1>1. command.type \in {"delete", "move"}
  <2>1. CASE command.type \notin Transfer
    <3>1. SingleCall
      BY <2>1 DEF Sound, StackSound
    <3> QED BY <3>1, <2>1, RunningTop, CommandTypes DEF SingleCall, Transfer
  <2>2. CASE command.type \in Transfer
    <3>1. Chain
      BY <2>2 DEF Sound, StackSound
    <3>2. 1 \in DOMAIN calls /\ top = calls[1]
      BY RunningTop, StackTop
    <3> QED BY <3>1, <3>2, <2>2 DEF Chain, Transfer
  <2> QED BY <2>1, <2>2
<1>2. Removable
  BY <1>1 DEF Sound, StackSound
<1>3. top.src # << >>
  BY <1>2, RunningTop, PrefixOrder, PathTypes DEF Removable
<1> QED BY <1>1, <1>2, <1>3

LEMMA SingleTop ==
  ASSUME Sound, status = "running", top.fn \in {"mkdir", "link"}
  PROVE  command.type = top.fn /\ SingleCall
<1>1. command.type \notin Transfer
  <2> SUFFICES ASSUME command.type \in Transfer
               PROVE  FALSE
    OBVIOUS
  <2>1. Chain
    BY DEF Sound, StackSound
  <2>2. 1 \in DOMAIN calls /\ top = calls[1]
    BY RunningTop, StackTop
  <2> QED BY <2>1, <2>2 DEF Chain, Transfer
<1> QED BY <1>1 DEF Sound, StackSound, SingleCall

(* What may be removed is no mount point.                                  *)
LEMMA NoMountBelow ==
  ASSUME Sound, status = "running", Removable, NEW p \in Path, IsPrefix(Src, p)
  PROVE  p # << >> /\ \A m \in Mounted : p # <<m>>
<1>1. Src \in Path /\ Src # << >> /\ \A m \in Mounted : Src # <<m>>
  BY RunningTop DEF Removable
<1>2. p # << >>
  BY <1>1, PrefixOrder, PathTypes
<1> QED BY <1>1, <1>2, MountPoints

-----------------------------------------------------------------------------
(* How the stack may change.                                               *)

LEMMA Ended ==
  ASSUME Sound, FsSound', status' = "done", calls' = << >>,
         answer' \in {"none", "success", "failed"},
         command' = command, foreign' = foreign,
         link' \in LinkValue, faults' \in 0..MaxFaults
  PROVE  Sound'
<1>1. calls' \in Seq(CallRecord)
  OBVIOUS
<1> QED BY <1>1 DEF Sound, TypeOK, StackSound, FsSound, LinkValue

LEMMA PoppedChain ==
  ASSUME Sound, status = "running", Len(calls) # 1, calls' = Tail(calls),
         command' = command
  PROVE  /\ calls' \in Seq(CallRecord) /\ calls' # << >>
         /\ command.type \in Transfer /\ Chain'
         /\ top' = calls[2] /\ top'.at = "list"
<1>1. command.type \in Transfer /\ Chain
  BY DEF Sound, StackSound, SingleCall
<1>2. /\ calls \in Seq(CallRecord) /\ calls # << >>
      /\ Len(calls) \in Nat /\ DOMAIN calls = 1..Len(calls)
  BY RunningTop, StackTop
<1> DEFINE n == Len(calls)
<1>3. /\ calls' \in Seq(CallRecord) /\ calls' # << >>
      /\ Len(calls') = n - 1 /\ DOMAIN calls' = 1..(n - 1)
      /\ \A i \in 1..(n - 1) : calls'[i] = calls[i + 1]
  BY <1>2, StackPop, StackTop
<1>4. n - 1 \in Nat /\ n - 1 >= 1
  <2>1. Len(calls') \in Nat /\ Len(calls') >= 1
    BY <1>3, StackTop
  <2> QED BY <2>1, <1>3
<1>5. top' = calls[2]
  <2>1. top' = calls'[1]
    BY <1>3, StackTop DEF top
  <2> QED BY <2>1, <1>3, <1>4
<1> HIDE DEF n
<1>6. n \in DOMAIN calls /\ 2 \in DOMAIN calls /\ n \in Nat
      /\ \A i \in 1..(n - 1) : i + 1 \in DOMAIN calls /\ i + 1 > 1 /\ i \in DOMAIN calls
  BY <1>2, <1>4 DEF n
<1>7. top'.at = "list"
  BY <1>1, <1>5, <1>6 DEF Chain
<1>8. Chain'
  <2>1. calls'[Len(calls')].src = Src'
    <3>1. calls'[n - 1] = calls[n] /\ n = Len(calls)
      BY <1>3, <1>4 DEF n
    <3> QED BY <3>1, <1>1, <1>3 DEF Chain, Src
  <2>2. ASSUME NEW i \in 1..(n - 1)
        PROVE  /\ calls'[i].fn = command.type \/ (calls'[i].fn = "remove" /\ command.type = "move")
               /\ calls'[i].fn # "remove" => calls'[i].dst = Rebased(calls'[i].src, Src, Dst)
    <3>1. calls'[i] = calls[i + 1] /\ i + 1 \in DOMAIN calls
      BY <1>3, <1>6
    <3> QED BY <3>1, <1>1 DEF Chain
  <2>3. ASSUME NEW i \in 1..(n - 1), i > 1
        PROVE  /\ calls'[i].at = "list" /\ calls'[i].fn = command.type
               /\ \E x \in calls'[i].seen : calls'[i - 1].src = Append(calls'[i].src, x)
    <3>1. calls'[i] = calls[i + 1] /\ i + 1 \in DOMAIN calls /\ i + 1 > 1
      BY <1>3, <1>6
    <3>2. i - 1 \in 1..(n - 1) /\ (i - 1) + 1 = (i + 1) - 1
      BY <2>3, <1>6
    <3>3. calls'[i - 1] = calls[(i + 1) - 1]
      BY <3>2, <1>3
    <3> QED BY <3>1, <3>3, <1>1 DEF Chain
  <2>4. ASSUME NEW i \in 1..(n - 1), NEW j \in 1..(n - 1), i <= j
        PROVE  IsPrefix(calls'[j].src, calls'[i].src)
    <3>1. /\ calls'[i] = calls[i + 1] /\ calls'[j] = calls[j + 1]
          /\ i + 1 \in DOMAIN calls /\ j + 1 \in DOMAIN calls /\ i + 1 <= j + 1
      BY <2>4, <1>3, <1>6
    <3> QED BY <3>1, <1>1 DEF Chain
  <2> QED BY <2>1, <2>2, <2>3, <2>4, <1>3 DEF Chain, Src, Dst
<1> QED BY <1>1, <1>3, <1>5, <1>7, <1>8

LEMMA Popped ==
  ASSUME Sound, status = "running", Len(calls) # 1, calls' = Tail(calls),
         FsSound', Fits(fs', Src, Dst),
         UNCHANGED <<command, status, answer, link, foreign>>, faults' \in 0..MaxFaults
  PROVE  Sound'
<1>1. TypeOK'
  BY PoppedChain DEF Sound, TypeOK, FsSound
<1>2. Removable'
  BY PoppedChain DEF Sound, StackSound, Removable, Src, Transfer
<1>3. StackSound'
  BY <1>2, PoppedChain DEF Sound, StackSound, OpenFiles, Src, Dst
<1> QED BY <1>1, <1>3 DEF Sound

LEMMA ReplacedChain ==
  ASSUME Sound, status = "running", NEW c \in CallRecord,
         calls' = <<c>> \o Tail(calls), command' = command,
         c.src = top.src,
         (c.fn = top.fn /\ c.dst = top.dst) \/ (c.fn = "remove" /\ command.type = "move")
  PROVE  /\ calls' \in Seq(CallRecord) /\ calls' # << >> /\ Len(calls') = Len(calls)
         /\ top' = c /\ calls'[1] = c
         /\ \A i \in DOMAIN calls : i > 1 => calls'[i] = calls[i]
         /\ DOMAIN calls' = DOMAIN calls
         /\ command.type \in Transfer => Chain'
<1> DEFINE n == Len(calls)
<1>1. /\ calls \in Seq(CallRecord) /\ calls # << >> /\ top = calls[1]
      /\ n \in Nat /\ n >= 1 /\ DOMAIN calls = 1..n
  BY RunningTop, StackTop
<1>2. /\ calls' \in Seq(CallRecord) /\ calls' # << >> /\ Len(calls') = n
      /\ calls'[1] = c /\ \A i \in 2..n : calls'[i] = calls[i]
  BY <1>1, StackGo
<1>3. DOMAIN calls' = 1..n
  BY <1>2, StackTop
<1>4. \A i \in DOMAIN calls : i > 1 => calls'[i] = calls[i]
  BY <1>1, <1>2
<1>5. top' = c
  BY <1>2, StackTop DEF top
<1>6. ASSUME command.type \in Transfer
      PROVE  Chain'
  <2>1. Chain
    BY <1>6 DEF Sound, StackSound
  <2>2. n \in DOMAIN calls /\ 1 \in DOMAIN calls
    BY <1>1
  <2>3. \A i \in DOMAIN calls : calls'[i].src = calls[i].src
    <3>1. \A i \in DOMAIN calls : i = 1 \/ i > 1
      BY <1>1
    <3> QED BY <3>1, <1>1, <1>2, <1>4
  <2> HIDE DEF n
  <2>4. calls'[n].src = Src
    BY <2>1, <2>2, <2>3 DEF Chain, n
  <2>5. /\ c.fn = command.type \/ (c.fn = "remove" /\ command.type = "move")
        /\ c.fn # "remove" => c.dst = Rebased(c.src, Src, Dst)
    BY <1>1, <2>1, <2>2 DEF Chain
  <2>6. ASSUME NEW i \in DOMAIN calls, i > 1
        PROVE  /\ calls'[i].fn = command.type
               /\ calls'[i].dst = Rebased(calls'[i].src, Src, Dst) \/ calls'[i].fn = "remove"
               /\ calls'[i].at = "list"
               /\ \E x \in calls'[i].seen : calls'[i - 1].src = Append(calls'[i].src, x)
    <3>1. calls'[i] = calls[i] /\ i - 1 \in DOMAIN calls
      BY <1>1, <1>4, <2>6
    <3>2. calls'[i - 1].src = calls[i - 1].src
      BY <3>1, <2>3
    <3> QED BY <3>1, <3>2, <2>1, <2>6 DEF Chain
  <2>7. ASSUME NEW i \in DOMAIN calls, NEW j \in DOMAIN calls, i <= j
        PROVE  IsPrefix(calls'[j].src, calls'[i].src)
    BY <2>1, <2>3, <2>7 DEF Chain
  <2>8. \A i \in DOMAIN calls : i = 1 \/ i > 1
    BY <1>1
  <2>9. Len(calls') = n
    BY <1>2
  <2>10. ASSUME NEW i \in DOMAIN calls'
         PROVE  /\ calls'[i].fn = command.type \/ (calls'[i].fn = "remove" /\ command.type = "move")
                /\ calls'[i].fn # "remove" => calls'[i].dst = Rebased(calls'[i].src, Src, Dst)
    BY <1>1, <1>2, <1>3, <2>5, <2>6, <2>8
  <2> QED BY <1>1, <1>3, <2>4, <2>6, <2>7, <2>9, <2>10 DEF Chain, Src, Dst
<1> QED BY <1>1, <1>2, <1>3, <1>4, <1>5, <1>6

LEMMA Replaced ==
  ASSUME Sound, status = "running", NEW c \in CallRecord,
         calls' = <<c>> \o Tail(calls),
         c.src = top.src,
         (c.fn = top.fn /\ c.dst = top.dst) \/ (c.fn = "remove" /\ command.type = "move"),
         command.type = "mkdir" => c.at = "stat" /\ c.count <= Len(Numbered),
         command.type \in Transfer => OpenFiles',
         FsSound', Fits(fs', Src, Dst), link' \in LinkValue,
         UNCHANGED <<command, status, answer, foreign>>, faults' \in 0..MaxFaults
  PROVE  Sound'
<1>1. TypeOK'
  BY ReplacedChain DEF Sound, TypeOK, FsSound, LinkValue
<1>2. command.type # "mkdir" => Removable'
  BY DEF Sound, StackSound, Removable, Src
<1>3. command.type \notin Transfer => SingleCall'
  <2> SUFFICES ASSUME command.type \notin Transfer
               PROVE  SingleCall'
    OBVIOUS
  <2>1. SingleCall
    BY DEF Sound, StackSound
  <2>2. Len(calls') = Len(calls) /\ top' = c
    BY ReplacedChain
  <2> QED BY <2>1, <2>2 DEF SingleCall, Src, Transfer
<1>4. StackSound'
  BY <1>2, <1>3, ReplacedChain DEF Sound, StackSound, Src, Dst
<1> QED BY <1>1, <1>4 DEF Sound

LEMMA PushedChain ==
  ASSUME Sound, status = "running", top.fn \in Transfer, top.at = "list",
         NEW n \in Names, NEW c \in CallRecord, NEW d \in CallRecord,
         Len(top.src) < Depth,
         calls' = <<c, d>> \o Tail(calls), command' = command,
         c.src = Append(top.src, n), c.fn = top.fn, c.dst = Rebased(c.src, Src, Dst),
         d = [top EXCEPT !.seen = @ \cup {n}]
  PROVE  /\ calls' \in Seq(CallRecord) /\ calls' # << >> /\ Len(calls') = Len(calls) + 1
         /\ top' = c /\ calls'[1] = c /\ calls'[2] = d
         /\ \A i \in DOMAIN calls : i > 1 => calls'[i + 1] = calls[i]
         /\ DOMAIN calls' = 1..(Len(calls) + 1)
         /\ Chain'
<1> DEFINE k == Len(calls)
<1>1. /\ calls \in Seq(CallRecord) /\ calls # << >> /\ top = calls[1] /\ top \in CallRecord
      /\ k \in Nat /\ k >= 1 /\ DOMAIN calls = 1..k
  BY RunningTop, StackTop
<1>2. /\ calls' \in Seq(CallRecord) /\ calls' # << >> /\ Len(calls') = k + 1
      /\ calls'[1] = c /\ calls'[2] = d /\ \A i \in 3..(k + 1) : calls'[i] = calls[i - 1]
  BY <1>1, StackPush
<1>3. DOMAIN calls' = 1..(k + 1)
  BY <1>2, StackTop
<1>4. ASSUME NEW i \in DOMAIN calls, i > 1
      PROVE  calls'[i + 1] = calls[i]
  <2>1. i + 1 \in 3..(k + 1) /\ (i + 1) - 1 = i
    BY <1>1, <1>4
  <2> QED BY <2>1, <1>2
<1>5. top' = c
  BY <1>2, StackTop DEF top
<1>6. Chain'
  <2>1. Chain /\ command.type = top.fn
    BY TransferTop
  <2>2. d.src = top.src /\ d.fn = top.fn /\ d.dst = top.dst /\ d.at = "list" /\ n \in d.seen
    BY <1>1 DEF CallRecord
  <2>3. k \in DOMAIN calls /\ 1 \in DOMAIN calls
    BY <1>1
  <2>4. ASSUME NEW i \in DOMAIN calls
        PROVE  /\ i + 1 \in DOMAIN calls' /\ i + 1 > 1
               /\ calls'[i + 1].src = calls[i].src /\ calls'[i + 1].fn = calls[i].fn
               /\ calls'[i + 1].dst = calls[i].dst
               /\ calls'[i + 1].at = "list"
    <3>1. CASE i = 1
      <4>1. i + 1 = 2 /\ 2 \in 1..(k + 1) /\ calls[i] = top
        BY <3>1, <1>1
      <4>2. calls'[i + 1] = d
        BY <4>1, <1>2
      <4>3. i + 1 \in DOMAIN calls'
        BY <4>1, <1>3
      <4>4. i + 1 > 1
        BY <4>1
      <4>5. /\ calls'[i + 1].src = calls[i].src /\ calls'[i + 1].fn = calls[i].fn
            /\ calls'[i + 1].dst = calls[i].dst /\ calls'[i + 1].at = "list"
        BY <4>1, <4>2, <2>2, Zenon
      <4> QED BY <4>3, <4>4, <4>5
    <3>2. CASE i > 1
      <4>1. i + 1 \in DOMAIN calls' /\ i + 1 > 1
        BY <3>2, <1>1, <1>3
      <4>2. calls'[i + 1] = calls[i]
        BY <3>2, <1>4
      <4>3. calls[i].at = "list"
        BY <3>2, <2>1 DEF Chain
      <4> QED BY <4>1, <4>2, <4>3
    <3> QED BY <3>1, <3>2, <1>1
  <2>5. calls'[k + 1].src = Src
    BY <2>1, <2>3, <2>4 DEF Chain
  <2>6. \A i \in DOMAIN calls' : i = 1 \/ (i - 1 \in DOMAIN calls /\ (i - 1) + 1 = i)
    BY <1>1, <1>3
  <2> HIDE DEF k
  <2>7. ASSUME NEW i \in DOMAIN calls'
        PROVE  /\ calls'[i].fn = command.type \/ (calls'[i].fn = "remove" /\ command.type = "move")
               /\ calls'[i].fn # "remove" => calls'[i].dst = Rebased(calls'[i].src, Src, Dst)
    <3>1. CASE i = 1
      BY <3>1, <1>2, <2>1
    <3>2. CASE i - 1 \in DOMAIN calls /\ (i - 1) + 1 = i
      <4> DEFINE j == i - 1
      <4>1. j \in DOMAIN calls /\ j + 1 = i
        BY <3>2
      <4> HIDE DEF j
      <4>2. calls'[i].fn = calls[j].fn /\ calls'[i].src = calls[j].src /\ calls'[i].dst = calls[j].dst
        BY <4>1, <2>4
      <4> QED BY <4>1, <4>2, <2>1 DEF Chain
    <3> QED BY <3>1, <3>2, <2>6
  <2>8. ASSUME NEW i \in DOMAIN calls', i > 1
        PROVE  /\ calls'[i].at = "list" /\ calls'[i].fn = command.type
               /\ \E x \in calls'[i].seen : calls'[i - 1].src = Append(calls'[i].src, x)
    <3>1. CASE i = 2
      <4>1. i - 1 = 1
        BY <3>1
      <4> QED BY <3>1, <4>1, <1>2, <2>1, <2>2
    <3>2. CASE i # 2
      <4> DEFINE j == i - 1
      <4>1. j \in DOMAIN calls /\ j > 1 /\ j + 1 = i /\ j - 1 \in DOMAIN calls /\ (j - 1) + 1 = i - 1
        BY <2>8, <3>2, <1>1, <1>3
      <4>2. calls'[i] = calls[j]
        BY <4>1, <1>4
      <4>3. calls'[i - 1].src = calls[j - 1].src
        BY <4>1, <2>4
      <4> QED BY <4>1, <4>2, <4>3, <2>1 DEF Chain
    <3> QED BY <3>1, <3>2
  <2>9. ASSUME NEW i \in DOMAIN calls', NEW j \in DOMAIN calls', i <= j
        PROVE  IsPrefix(calls'[j].src, calls'[i].src)
    <3>1. CASE i = 1 /\ j = 1
      BY <3>1, <1>2, <1>1, AppendPath, PrefixOrder DEF CallRecord
    <3>2. CASE i = 1 /\ j # 1
      <4> DEFINE l == j - 1
      <4>1. l \in DOMAIN calls /\ l + 1 = j /\ 1 <= l
        BY <3>2, <2>6, <1>1
      <4>2. calls'[j].src = calls[l].src
        BY <4>1, <2>4
      <4>3. IsPrefix(calls[l].src, top.src)
        BY <4>1, <2>1, <2>3, <1>1 DEF Chain
      <4>4. /\ top.src \in Path /\ calls[l].src \in Path /\ c.src \in Path
            /\ IsPrefix(top.src, c.src)
        <5>1. calls[l] \in CallRecord
          BY <1>1, <4>1, StackTop
        <5>2. top.src \in Path /\ calls[l].src \in Path /\ c.src \in Path
          BY <1>1, <5>1 DEF CallRecord
        <5>3. IsPrefix(top.src, c.src)
          BY <5>2, PrefixOfChild
        <5> QED BY <5>2, <5>3
      <4> QED BY <3>2, <4>2, <4>3, <4>4, <1>2, PrefixOrder
    <3>3. CASE i # 1
      <4> DEFINE a == i - 1
                 b == j - 1
      <4>1. a \in DOMAIN calls /\ b \in DOMAIN calls /\ a <= b /\ a + 1 = i /\ b + 1 = j
        BY <3>3, <2>9, <1>1, <1>3
      <4>2. calls'[i].src = calls[a].src /\ calls'[j].src = calls[b].src
        BY <4>1, <2>4
      <4> QED BY <4>1, <4>2, <2>1 DEF Chain
    <3> QED BY <3>1, <3>2, <3>3
  <2>10. Len(calls') = k + 1
    BY <1>2
  <2> QED BY <2>5, <2>7, <2>8, <2>9, <2>10 DEF Chain, Src, Dst
<1> QED BY <1>2, <1>3, <1>4, <1>5, <1>6

LEMMA Pushed ==
  ASSUME Sound, status = "running", top.fn \in Transfer, top.at = "list",
         NEW n \in Names, NEW c \in CallRecord, NEW d \in CallRecord,
         Len(top.src) < Depth,
         calls' = <<c, d>> \o Tail(calls),
         c.src = Append(top.src, n), c.fn = top.fn, c.dst = Rebased(c.src, Src, Dst),
         c.at = "stat", d = [top EXCEPT !.seen = @ \cup {n}],
         UNCHANGED <<fs, command, status, answer, link, foreign, faults>>
  PROVE  Sound'
<1>1. TypeOK'
  BY PushedChain DEF Sound, TypeOK, WellFormed
<1>2. OpenFiles'
  BY PushedChain DEF OpenFiles
<1>3. command.type = top.fn /\ Removable'
  BY TransferTop DEF Removable, Src
<1>4. StackSound'
  BY <1>2, <1>3, PushedChain DEF Sound, StackSound, Src, Dst
<1> QED BY <1>1, <1>4 DEF Sound

LEMMA FailSound ==
  ASSUME Sound, Fail, FsSound',
         UNCHANGED <<command, link, foreign>>, faults' \in 0..MaxFaults
  PROVE  Sound'
<1>1. link' \in LinkValue
  BY DEF Sound, TypeOK, LinkValue
<1> QED BY <1>1, Ended DEF Fail, Finish

LEMMA SucceedSound ==
  ASSUME Sound, status = "running", Succeed, FsSound', Fits(fs', Src, Dst),
         UNCHANGED <<command, link, foreign>>, faults' \in 0..MaxFaults
  PROVE  Sound'
<1>1. link' \in LinkValue
  BY DEF Sound, TypeOK, LinkValue
<1>2. CASE Len(calls) = 1
  BY <1>1, <1>2, Ended DEF Succeed, Finish
<1>3. CASE Len(calls) # 1
  BY <1>3, Popped DEF Succeed
<1> QED BY <1>2, <1>3

LEMMA NodeFacts ==
  /\ Nothing \in Node /\ Dir \in Node
  /\ Empty \in Data /\ Torn \in Data /\ Foreign \in Data /\ Path \subseteq Data
  /\ \A d \in Data : File(d) \in Node
  /\ \A x \in Node : x = Nothing \/ x = Dir \/ x.kind = "file"
  /\ \A x \in Node : x.kind = "file" =>
       x.data \in Data /\ x = File(x.data) /\ x # Nothing /\ x # Dir
<1>1. ASSUME NEW x \in Node
      PROVE  /\ x = Nothing \/ x = Dir \/ x.kind = "file"
             /\ x.kind = "file" => x.data \in Data /\ x = File(x.data) /\ x # Nothing /\ x # Dir
  <2>1. x = Nothing \/ x = Dir \/ \E d \in Data : x = File(d)
    BY DEF Node
  <2>2. CASE \E d \in Data : x = File(d)
    <3>1. PICK d \in Data : x = File(d)
      BY <2>2
    <3>2. File(d).kind = "file" /\ File(d).data = d /\ File(d) # Nothing /\ File(d) # Dir
      BY NodeKinds
    <3> QED BY <3>1, <3>2
  <2> QED BY <2>1, <2>2, NodeKinds
<1> QED BY <1>1 DEF Node, Data

LEMMA CallType ==
  \A fn \in {"mkdir", "link", "move", "copy", "remove"} : \A src, dst \in Path :
    /\ Call(fn, src, dst) \in CallRecord
    /\ Call(fn, src, dst).fn = fn /\ Call(fn, src, dst).src = src
    /\ Call(fn, src, dst).dst = dst /\ Call(fn, src, dst).at = "stat"
    /\ Call(fn, src, dst).count = 0
  BY NodeFacts DEF Call, CallRecord

-----------------------------------------------------------------------------
(* Every step keeps them sound.                                            *)

LEMMA SoundInit == Init => Sound
<1> SUFFICES ASSUME Init
             PROVE  Sound
  OBVIOUS
<1>1. fs \in [Path -> Node] /\ WellFormed(fs)
  BY TreesAssumption DEF Init
<1>2. faults \in 0..MaxFaults
  BY BoundsAssumption DEF Init
<1>3. calls \in Seq(CallRecord)
  BY DEF Init
<1> QED BY <1>1, <1>2, <1>3 DEF Init, Sound, TypeOK, StackSound, Linked

(* The commands that are one system call.                                  *)
LEMMA SoundReceive == Sound /\ Receive => Sound'
<1> SUFFICES ASSUME Sound, Receive
             PROVE  Sound'
  OBVIOUS
<1>1. PICK c \in Commands :
        /\ status = "idle"
        /\ c.type # "mkdir" => \A m \in Mounted : c.src # <<m>> /\ c.dst # <<m>>
        /\ Fits(fs, c.src, c.dst)
        /\ command' = c
        /\ ByRename(c) \/ Refused(c) \/ Chmod(c) \/ ByCall(c)
        /\ link' \in IF c.type = "link" THEN Linked ELSE {Nothing}
        /\ UNCHANGED <<foreign, faults>>
  BY DEF Receive
<1>2. /\ c.src \in Path /\ c.dst \in Path /\ c.type \in {"delete", "chmod", "link", "mkdir", "rename", "move", "copy"}
      /\ c.type # "mkdir" => c.src # << >>
      /\ c.type \in {"rename", "move", "copy"} => c.dst # << >>
      /\ link' \in LinkValue
      /\ fs \in [Path -> Node] /\ WellFormed(fs) /\ faults' \in 0..MaxFaults
      /\ answer \in {"none", "success", "failed"} /\ foreign' \subseteq Path
  BY <1>1, CommandTypes DEF Linked, LinkValue, Sound, TypeOK
<1>3. ASSUME FsSound', status' = "done", calls' = << >>, answer' \in {"none", "success", "failed"}
      PROVE  Sound'
  <2>1. calls' \in Seq(CallRecord)
    BY <1>3
  <2> QED BY <2>1, <1>1, <1>2, <1>3 DEF Sound, TypeOK, StackSound, FsSound, LinkValue
<1>4. CASE ByRename(c)
  <2>1. Renames(fs, c.src, c.dst) /\ fs' = Renamed(fs, c.src, c.dst) /\ c.type \in {"rename", "move"}
    BY <1>4 DEF ByRename, RenamesHere
  <2>2. FsSound'
    <3>1. Renamed(fs, c.src, c.dst) \in [Path -> Node] /\ WellFormed(Renamed(fs, c.src, c.dst))
      BY <1>1, <1>2, <2>1, NodeRenamed
    <3> QED BY <3>1, <2>1 DEF FsSound, WellFormed
  <2> QED BY <2>2, <1>3, <1>4 DEF ByRename, Finish
<1>5. CASE Refused(c) \/ Chmod(c)
  <2>1. FsSound'
    BY <1>2, <1>5 DEF FsSound, WellFormed, Refused, Chmod
  <2> QED BY <2>1, <1>3, <1>5 DEF Refused, Chmod, Finish
<1>6. CASE ByCall(c)
  <2>1. PICK fn \in {"mkdir", "link", "move", "copy", "remove"} : \E dst \in Path :
          /\ calls' = <<Call(fn, c.src, dst)>>
          /\ IF c.type = "delete" THEN fn = "remove" /\ dst = c.src ELSE fn = c.type /\ dst = c.dst
    BY <1>2, <1>6 DEF ByCall
  <2>2. PICK dst \in Path :
          /\ calls' = <<Call(fn, c.src, dst)>>
          /\ IF c.type = "delete" THEN fn = "remove" /\ dst = c.src ELSE fn = c.type /\ dst = c.dst
    BY <2>1
  <2> DEFINE k == Call(fn, c.src, dst)
  <2>3. /\ k \in CallRecord /\ k.fn = fn /\ k.src = c.src /\ k.dst = dst /\ k.at = "stat"
        /\ k.count = 0
    BY <1>2, CallType
  <2> HIDE DEF k
  <2>4. /\ calls' \in Seq(CallRecord) /\ calls' # << >> /\ Len(calls') = 1
        /\ calls'[1] = k /\ DOMAIN calls' = 1..1 /\ Head(calls') = k
    <3>1. calls' = <<k>>
      BY <2>2 DEF k
    <3> QED BY <3>1, <2>3
  <2>5. status' = "running" /\ UNCHANGED <<fs, answer>>
    BY <1>6 DEF ByCall
  <2>6. TypeOK'
    BY <1>1, <1>2, <2>4, <2>5 DEF TypeOK, WellFormed, LinkValue
  <2>7. Fits(fs', Src', Dst') /\ Src' = c.src /\ Dst' = c.dst /\ top' = k
    BY <1>1, <2>4, <2>5 DEF Src, Dst, top
  <2>8. command'.type \notin Transfer => SingleCall'
    <3>1. Len(Numbered) \in Nat
      BY NumberedAssumption, LenProperties
    <3> QED BY <1>1, <2>2, <2>3, <2>4, <2>7, <3>1 DEF SingleCall, Src
  <2>9. command'.type \in Transfer => Chain' /\ OpenFiles'
    <3> SUFFICES ASSUME c.type \in Transfer
                 PROVE  Chain' /\ OpenFiles'
      BY <1>1
    <3>1. c.type # "delete" /\ fn = c.type /\ dst = c.dst
      BY <2>2 DEF Transfer
    <3>2. k.dst = Rebased(k.src, Src', Dst')
      BY <3>1, <2>3, <2>7, <1>2, RebasedSource
    <3>3. IsPrefix(k.src, k.src)
      BY <2>3, <1>2, PrefixOrder
    <3>4. Chain'
      <4>1. calls'[Len(calls')].src = Src'
        BY <2>3, <2>4, <2>7
      <4>2. ASSUME NEW i \in DOMAIN calls'
            PROVE  i = 1 /\ calls'[i] = k /\ ~(i > 1)
        BY <2>4
      <4> QED BY <4>1, <4>2, <3>1, <3>2, <3>3, <2>3, <1>1 DEF Chain
    <3>5. OpenFiles'
      BY <2>3, <2>7 DEF OpenFiles
    <3> QED BY <3>4, <3>5
  <2>10. command'.type # "mkdir" => Removable'
    BY <1>1, <1>2, <2>7 DEF Removable
  <2> QED BY <2>4, <2>6, <2>7, <2>8, <2>9, <2>10, <1>1 DEF Sound, StackSound
<1> QED BY <1>1, <1>4, <1>5, <1>6

(* New directories and favorites.                                          *)
LEMMA TriedPath ==
  ASSUME Sound, At({"mkdir"}, "stat")
  PROVE  /\ SingleCall /\ command.type = "mkdir" /\ top.src = Src /\ top.count <= Len(Numbered)
         /\ top.count \in Nat /\ Len(Src) < Depth /\ Src \in Path
         /\ (IF top.count = 0 THEN 1 ELSE top.count) \in 1..Len(Numbered)
         /\ Tried \in Path /\ Tried # << >> /\ Parent(Tried) = Src
         /\ Tried = Append(Src, Numbered[IF top.count = 0 THEN 1 ELSE top.count])
<1>1. status = "running" /\ top.fn = "mkdir"
  BY DEF At
<1>2. SingleCall /\ command.type = "mkdir"
  BY <1>1, SingleTop
<1>3. top.count \in Nat /\ top.src = Src /\ top.count <= Len(Numbered)
  BY <1>1, <1>2, RunningTop DEF CallRecord, SingleCall
<1>4. Len(Src) < Depth /\ Src \in Path
  BY <1>1, <1>2, RunningTop, CommandTypes DEF Src
<1> DEFINE k == IF top.count = 0 THEN 1 ELSE top.count
<1>5. k \in 1..Len(Numbered)
  <2>1. Len(Numbered) \in Nat /\ Len(Numbered) # 0
    BY NumberedAssumption, LenProperties, EmptySeq
  <2>2. \A n, m \in Nat : n # 0 /\ m <= n => (IF m = 0 THEN 1 ELSE m) \in 1..n
    OBVIOUS
  <2> QED BY <1>3, <2>1, <2>2
<1>6. Numbered[k] \in Names
  BY <1>5, NumberedAssumption, ElementOfSeq
<1>7. Tried = Append(Src, Numbered[k])
  BY <1>3 DEF Tried
<1> HIDE DEF k
<1>8. Tried \in Path /\ Tried # << >> /\ Parent(Tried) = Src
  BY <1>4, <1>6, <1>7, PrefixOfChild
<1> QED BY <1>2, <1>3, <1>4, <1>5, <1>7, <1>8 DEF k

LEMMA SoundMakeDirectory == Sound /\ MakeDirectory => Sound'
<1> SUFFICES ASSUME Sound, MakeDirectory
             PROVE  Sound'
  OBVIOUS
<1>1. /\ At({"mkdir"}, "stat") /\ UNCHANGED <<command, before, link, foreign, faults>>
      /\ \/ Fresh(fs, Tried) /\ fs' = [fs EXCEPT ![Tried] = Dir] /\ Finish("success")
         \/ /\ UNCHANGED fs /\ fs[Tried] # Nothing /\ top.count # Len(Numbered)
            /\ calls' = <<[top EXCEPT !.count = @ + 1]>> /\ UNCHANGED <<status, answer>>
         \/ UNCHANGED fs /\ Finish("none")
  BY DEF MakeDirectory, Tries
<1>2. /\ fs \in [Path -> Node] /\ WellFormed(fs) /\ link' \in LinkValue
      /\ faults' \in 0..MaxFaults
  BY <1>1 DEF Sound, TypeOK, LinkValue
<1>3. CASE Fresh(fs, Tried) /\ fs' = [fs EXCEPT ![Tried] = Dir] /\ Finish("success")
  <2>1. /\ [fs EXCEPT ![Tried] = Dir] \in [Path -> Node]
        /\ WellFormed([fs EXCEPT ![Tried] = Dir])
    BY <1>1, <1>2, <1>3, TriedPath, NodeExcept, NodeFacts DEF Fresh
  <2>2. FsSound'
    BY <1>3, <2>1 DEF FsSound, WellFormed
  <2> QED BY <2>2, <1>1, <1>2, <1>3, Ended DEF Finish
<1>4. CASE /\ UNCHANGED fs /\ top.count # Len(Numbered)
           /\ calls' = <<[top EXCEPT !.count = @ + 1]>> /\ UNCHANGED <<status, answer>>
  <2> DEFINE c == [top EXCEPT !.count = @ + 1]
  <2>1. status = "running" /\ top \in CallRecord /\ top.fn = "mkdir" /\ top.at = "stat"
    BY <1>1, RunningTop DEF At
  <2>2. c \in CallRecord /\ c.src = top.src /\ c.fn = top.fn /\ c.dst = top.dst /\ c.at = "stat"
        /\ c.count = top.count + 1
    BY <2>1 DEF CallRecord
  <2>3. c.count <= Len(Numbered)
    <3>1. Len(Numbered) \in Nat /\ top.count \in Nat /\ top.count <= Len(Numbered)
      BY <1>1, TriedPath, NumberedAssumption, LenProperties
    <3>2. \A n, m \in Nat : m <= n /\ m # n => m + 1 <= n
      OBVIOUS
    <3> QED BY <3>1, <3>2, <2>2, <1>4
  <2> HIDE DEF c
  <2>4. calls' = <<c>> \o Tail(calls)
    <3>1. Len(calls) = 1
      BY <1>1, TriedPath DEF SingleCall
    <3>2. <<c>> \o Tail(calls) = <<c>>
      BY <3>1, <2>1, <2>2, RunningTop, StackGo
    <3> QED BY <3>2, <1>4 DEF c
  <2>5. FsSound' /\ Fits(fs', Src, Dst)
    BY <1>2, <1>4, <2>1, RunningTop DEF FsSound, WellFormed
  <2>6. command.type = "mkdir"
    BY <1>1, TriedPath
  <2> QED BY <2>1, <2>2, <2>3, <2>4, <2>5, <2>6, <1>1, <1>2, <1>4, Replaced DEF Transfer
<1>5. CASE UNCHANGED fs /\ Finish("none")
  <2>1. FsSound'
    BY <1>2, <1>5 DEF FsSound, WellFormed
  <2> QED BY <2>1, <1>1, <1>2, <1>5, Ended DEF Finish
<1> QED BY <1>1, <1>3, <1>4, <1>5

LEMMA SoundLink ==
  Sound /\ (LinkDirectory \/ Symlink \/ UnlinkOld \/ SymlinkAgain \/ AddAtLink) => Sound'
<1> SUFFICES ASSUME Sound, LinkDirectory \/ Symlink \/ UnlinkOld \/ SymlinkAgain \/ AddAtLink
             PROVE  Sound'
  OBVIOUS
<1>1. FsSound /\ link \in LinkValue /\ faults \in 0..MaxFaults
  BY DEF Sound, TypeOK, FsSound, LinkValue
<1>2. UNCHANGED <<fs, command, foreign>> /\ status = "running"
  BY DEF LinkDirectory, Symlink, UnlinkOld, SymlinkAgain, AddAtLink, At
<1>3. FsSound' /\ Fits(fs', Src, Dst) /\ top.src \in Path /\ top \in CallRecord /\ calls # << >>
  BY <1>1, <1>2, RunningTop DEF FsSound, WellFormed, CallRecord
<1>4. link' \in LinkValue /\ faults' \in 0..MaxFaults
  <2>1. LinkTo(top.src) \in LinkValue /\ Dir \in LinkValue /\ Nothing \in LinkValue
        /\ File(Foreign) \in LinkValue
    BY <1>3 DEF LinkValue, Linked
  <2>2. link' \in LinkValue
    BY <2>1, <1>1 DEF LinkDirectory, Symlink, UnlinkOld, SymlinkAgain, AddAtLink, MakeLink
  <2>3. Fault \/ UNCHANGED faults
    BY DEF LinkDirectory, Symlink, UnlinkOld, SymlinkAgain, AddAtLink, MakeLink
  <2> QED BY <2>2, <2>3, <1>1, FaultType
<1>5. ASSUME NEW at \in {"symlink", "unlink", "again"}, Go(at), top.fn = "link",
             UNCHANGED <<status, answer>>
      PROVE  Sound'
  <2> DEFINE c == [top EXCEPT !.at = at]
  <2>1. c \in CallRecord /\ c.src = top.src /\ c.fn = top.fn /\ c.dst = top.dst
    BY <1>3, <1>5 DEF CallRecord
  <2>2. calls' = <<c>> \o Tail(calls)
    BY <1>5 DEF Go
  <2>3. command.type = "link"
    BY <1>2, <1>5, SingleTop
  <2> HIDE DEF c
  <2> QED BY <2>1, <2>2, <2>3, <1>1, <1>2, <1>3, <1>4, <1>5, Replaced DEF Transfer
<1>6. ASSUME NEW a \in {"success", "failed"}, Finish(a)
      PROVE  Sound'
  BY <1>1, <1>2, <1>3, <1>4, <1>6, Ended DEF Finish
<1>7. CASE AddAtLink
  <2>1. UNCHANGED <<calls, answer, status>> /\ command.type = "link"
    BY <1>7 DEF AddAtLink
  <2>2. TypeOK'
    BY <2>1, <1>2, <1>4 DEF Sound, TypeOK, WellFormed, LinkValue
  <2> QED BY <2>1, <2>2, <1>2 DEF Sound, StackSound, SingleCall, top, Transfer, Removable, Src, Dst
<1>8. CASE LinkDirectory
  BY <1>5, <1>8 DEF LinkDirectory, At
<1>9. CASE Symlink
  BY <1>5, <1>6, <1>9 DEF Symlink, MakeLink, At
<1>10. CASE UnlinkOld
  BY <1>5, <1>10 DEF UnlinkOld, At
<1>11. CASE SymlinkAgain
  BY <1>6, <1>11 DEF SymlinkAgain, MakeLink, At
<1> QED BY <1>7, <1>8, <1>9, <1>10, <1>11

(* move_directory and copy_file.                                           *)

(* The innermost call goes on inside a transfer.                           *)
LEMMA GoSound ==
  ASSUME Sound, status = "running", top.fn \in Transfer,
         NEW c \in CallRecord, calls' = <<c>> \o Tail(calls),
         c.src = top.src, c.dst = top.dst, c.fn = top.fn,
         c.at \in {"open", "write", "unlink"} => fs'[top.src].kind = "file",
         c.at = "write" => fs'[top.dst].kind = "file",
         FsSound', Fits(fs', Src, Dst),
         UNCHANGED <<command, status, answer, link, foreign>>, faults' \in 0..MaxFaults
  PROVE  Sound'
<1>1. top' = c
  BY ReplacedChain
<1>2. OpenFiles'
  BY <1>1 DEF OpenFiles
<1>3. command.type # "mkdir" /\ link' \in LinkValue
  BY TransferTop DEF Transfer, Sound, TypeOK, LinkValue
<1> QED BY <1>2, <1>3, Replaced

LEMMA SoundStat == Sound /\ Stat => Sound'
<1> SUFFICES ASSUME Sound, Stat
             PROVE  Sound'
  OBVIOUS
<1>1. /\ status = "running" /\ top.fn \in Transfer
      /\ UNCHANGED <<command, before, link, foreign, faults>>
      /\ FsSound /\ faults' \in 0..MaxFaults
  BY DEF Stat, At, Transfer, Sound, TypeOK, FsSound
<1>2. /\ top \in CallRecord /\ top.src \in Path /\ top.dst \in Path
      /\ top.src # << >> /\ top.dst # << >> /\ IsPrefix(Src, top.src) /\ IsPrefix(Dst, top.dst)
      /\ Src \in Path /\ Dst \in Path /\ Fits(fs, Src, Dst) /\ Removable
      /\ ~IsStrictPrefix(Src, Dst)
  BY <1>1, RunningTop, TransferTop
<1>3. CASE Fail /\ UNCHANGED fs
  <2>1. FsSound'
    BY <1>1, <1>3 DEF FsSound, WellFormed
  <2> QED BY <2>1, <1>1, <1>3, FailSound
<1>4. ASSUME NEW at \in {"mkdir", "open"}, Go(at), UNCHANGED <<fs, status, answer>>,
             at = "open" => fs[top.src].kind = "file"
      PROVE  Sound'
  <2> DEFINE c == [top EXCEPT !.at = at]
  <2>1. c \in CallRecord /\ c.src = top.src /\ c.fn = top.fn /\ c.dst = top.dst /\ c.at = at
    BY <1>2, <1>4 DEF CallRecord
  <2>2. calls' = <<c>> \o Tail(calls)
    BY <1>4 DEF Go
  <2>3. FsSound' /\ Fits(fs', Src, Dst)
    BY <1>1, <1>2, <1>4 DEF FsSound, WellFormed
  <2> HIDE DEF c
  <2> QED BY <2>1, <2>2, <2>3, <1>1, <1>4, GoSound
<1>5. CASE /\ fs[top.src].kind = "file" /\ RenamesHere(fs, top.src, top.dst)
           /\ fs' = Renamed(fs, top.src, top.dst) /\ Succeed
  <2>1. FsSound'
    <3>1. Renames(fs, top.src, top.dst)
      BY <1>5 DEF RenamesHere
    <3>2. \A m \in Mounted : top.src # <<m>> /\ top.dst # <<m>>
      <4>1. \A m \in Mounted : top.src # <<m>>
        BY <1>1, <1>2, NoMountBelow
      <4>2. ASSUME NEW m \in Mounted, top.dst = <<m>>
            PROVE  FALSE
        <5>1. fs[top.dst] = Dir /\ fs[top.src] # Dir
          BY <1>1, <1>5, <4>2, NodeKinds DEF FsSound, WellFormed
        <5> QED BY <5>1, <4>1, <4>2, <3>1, NodeKinds DEF Renames
      <4> QED BY <4>1, <4>2
    <3>3. /\ Renamed(fs, top.src, top.dst) \in [Path -> Node]
          /\ WellFormed(Renamed(fs, top.src, top.dst))
      BY <1>1, <1>2, <3>1, <3>2, NodeRenamed DEF FsSound
    <3> QED BY <3>3, <1>5 DEF FsSound, WellFormed
  <2>2. Fits(fs', Src, Dst)
    <3>1. ASSUME NEW q \in Path, fs'[q] # Nothing, fs[q] = Nothing
          PROVE  IsPrefix(Dst, q)
      <4>1. CASE top.src = top.dst
        BY <3>1, <4>1, <1>5 DEF Renamed
      <4>2. CASE top.src # top.dst
        <5>1. IsPrefix(top.dst, q)
          BY <3>1, <4>2, <1>2, <1>5, RenamedAt
        <5> QED BY <5>1, <1>2, PrefixOrder
      <4> QED BY <4>1, <4>2
    <3> QED BY <3>1, <1>2, FitsStill
  <2> QED BY <2>1, <2>2, <1>1, <1>5, SucceedSound
<1> QED BY <1>3, <1>4, <1>5 DEF Stat

LEMMA SoundMkdir == Sound /\ Mkdir => Sound'
<1> SUFFICES ASSUME Sound, Mkdir
             PROVE  Sound'
  OBVIOUS
<1>1. /\ status = "running" /\ top.fn \in Transfer
      /\ UNCHANGED <<command, before, link, foreign, faults, status, answer>>
      /\ FsSound /\ faults' \in 0..MaxFaults
      /\ fs' = IF Fresh(fs, top.dst) THEN [fs EXCEPT ![top.dst] = Dir] ELSE fs
      /\ calls' = <<[top EXCEPT !.at = "list", !.must = Children(fs', top.src)]>> \o Tail(calls)
  BY DEF Mkdir, At, Transfer, Sound, TypeOK, FsSound
<1>2. /\ top \in CallRecord /\ top.src \in Path /\ top.dst \in Path
      /\ Src \in Path /\ Dst \in Path /\ Fits(fs, Src, Dst) /\ IsPrefix(Dst, top.dst)
      /\ ~IsStrictPrefix(Src, Dst)
  BY <1>1, RunningTop, TransferTop
<1>3. FsSound'
  <2>1. CASE Fresh(fs, top.dst)
    <3>1. /\ [fs EXCEPT ![top.dst] = Dir] \in [Path -> Node]
          /\ WellFormed([fs EXCEPT ![top.dst] = Dir])
      BY <1>1, <1>2, <2>1, NodeExcept, NodeFacts DEF Fresh, FsSound
    <3> QED BY <3>1, <2>1, <1>1 DEF FsSound, WellFormed
  <2>2. CASE ~Fresh(fs, top.dst)
    BY <2>2, <1>1 DEF FsSound, WellFormed
  <2> QED BY <2>1, <2>2
<1>4. Fits(fs', Src, Dst)
  <2>1. ASSUME NEW q \in Path, fs'[q] # Nothing, fs[q] = Nothing
        PROVE  q = top.dst
    BY <1>1, <1>2, <2>1 DEF FsSound
  <2> QED BY <2>1, <1>2, FitsStill
<1> DEFINE c == [top EXCEPT !.at = "list", !.must = Children(fs', top.src)]
<1>5. c \in CallRecord /\ c.src = top.src /\ c.fn = top.fn /\ c.dst = top.dst /\ c.at = "list"
  <2>1. Children(fs', top.src) \in SUBSET Names
    BY DEF Children
  <2> QED BY <1>2, <2>1 DEF CallRecord
<1>6. calls' = <<c>> \o Tail(calls)
  BY <1>1
<1> HIDE DEF c
<1> QED BY <1>1, <1>3, <1>4, <1>5, <1>6, GoSound

(* What is listed has room at its new place.                               *)
LEMMA ListedRoom ==
  ASSUME Sound, status = "running", top.fn \in Transfer,
         NEW n \in Children(fs, top.src)
  PROVE  /\ n \in Names /\ Len(top.src) < Depth /\ Len(top.dst) < Depth
         /\ Append(top.src, n) \in Path /\ Append(top.dst, n) \in Path
         /\ Append(top.dst, n) = Rebased(Append(top.src, n), Src, Dst)
<1> DEFINE q == Append(top.src, n)
<1>1. /\ top.src \in Path /\ Src \in Path /\ Dst \in Path /\ IsPrefix(Src, top.src)
      /\ top.dst = Rebased(top.src, Src, Dst) /\ top.dst \in Path /\ Fits(fs, Src, Dst)
  BY RunningTop, TransferTop
<1>2. n \in Names /\ Len(top.src) < Depth /\ fs[q] # Nothing
  BY DEF Children
<1>3. q \in Path /\ IsPrefix(Src, q) /\ Len(q) = Len(top.src) + 1
  BY <1>1, <1>2, PrefixOfChild, PrefixOrder
<1>4. Len(Rebased(q, Src, Dst)) <= Depth
  BY <1>1, <1>2, <1>3 DEF Fits, Under
<1>5. Len(top.dst) < Depth
  <2>1. /\ Len(Rebased(q, Src, Dst)) = Len(Dst) + Len(q) - Len(Src)
        /\ Len(top.dst) = Len(Dst) + Len(top.src) - Len(Src)
    <3> HIDE DEF q
    <3>1. Len(Rebased(top.src, Src, Dst)) = Len(Dst) + Len(top.src) - Len(Src)
      <4> DEFINE x == top.src
      <4>1. x \in Path /\ Src \in Path /\ Dst \in Path /\ IsPrefix(Src, x)
        BY <1>1
      <4> HIDE DEF x
      <4>2. Len(Rebased(x, Src, Dst)) = Len(Dst) + Len(x) - Len(Src)
        BY <4>1, RebasedNames
      <4> QED BY <4>2 DEF x
    <3>2. Len(Rebased(q, Src, Dst)) = Len(Dst) + Len(q) - Len(Src)
      BY <1>1, <1>3, RebasedNames
    <3> QED BY <3>1, <3>2, <1>1
  <2> HIDE DEF q
  <2> QED BY <2>1, <1>1, <1>3, <1>4, PathTypes, DepthAssumption
<1>6. Append(top.dst, n) = Rebased(q, Src, Dst)
  BY <1>1, <1>2, <1>5, RebasedChild
<1>7. Append(top.dst, n) \in Path
  BY <1>1, <1>2, <1>5, AppendPath
<1> QED BY <1>2, <1>3, <1>5, <1>6, <1>7

LEMMA SoundListEntry == Sound /\ ListEntry => Sound'
<1> SUFFICES ASSUME Sound, ListEntry
             PROVE  Sound'
  OBVIOUS
<1>1. /\ status = "running" /\ top.fn \in Transfer /\ top.at = "list"
      /\ UNCHANGED <<fs, command, status, answer, before, link, foreign, faults>>
  BY DEF ListEntry, At, Transfer
<1>2. PICK n \in Children(fs, top.src) :
        calls' = <<Call(top.fn, Append(top.src, n), Append(top.dst, n)),
                   [top EXCEPT !.seen = @ \cup {n}]>> \o Tail(calls)
  BY DEF ListEntry
<1>3. /\ n \in Names /\ Len(top.src) < Depth
      /\ Append(top.src, n) \in Path /\ Append(top.dst, n) \in Path
      /\ Append(top.dst, n) = Rebased(Append(top.src, n), Src, Dst)
  BY <1>1, ListedRoom
<1> DEFINE c == Call(top.fn, Append(top.src, n), Append(top.dst, n))
           d == [top EXCEPT !.seen = @ \cup {n}]
<1>4. /\ c \in CallRecord /\ c.src = Append(top.src, n) /\ c.fn = top.fn /\ c.at = "stat"
      /\ c.dst = Rebased(c.src, Src, Dst)
  <2>1. top.fn \in {"mkdir", "link", "move", "copy", "remove"}
    BY <1>1 DEF Transfer
  <2> DEFINE f == top.fn
             a == Append(top.src, n)
             b == Append(top.dst, n)
  <2>2. f \in {"mkdir", "link", "move", "copy", "remove"} /\ a \in Path /\ b \in Path
    BY <2>1, <1>3
  <2>3. c = Call(f, a, b) /\ b = Rebased(a, Src, Dst)
    BY <1>3
  <2> HIDE DEF c, f, a, b
  <2>4. /\ Call(f, a, b) \in CallRecord /\ Call(f, a, b).src = a /\ Call(f, a, b).fn = f
        /\ Call(f, a, b).at = "stat" /\ Call(f, a, b).dst = b
    BY <2>2, CallType
  <2>5. c \in CallRecord /\ c.src = a /\ c.fn = f /\ c.at = "stat" /\ c.dst = b
    BY <2>3, <2>4
  <2> QED BY <2>3, <2>5 DEF f, a, b
<1>5. d \in CallRecord
  BY <1>1, <1>3, RunningTop DEF CallRecord
<1>6. calls' = <<c, d>> \o Tail(calls) /\ d = [top EXCEPT !.seen = @ \cup {n}]
  BY <1>2
<1> HIDE DEF c, d
<1> QED BY <1>1, <1>3, <1>4, <1>5, <1>6, Pushed

LEMMA SoundListEnd == Sound /\ ListEnd => Sound'
<1> SUFFICES ASSUME Sound, ListEnd
             PROVE  Sound'
  OBVIOUS
<1>1. /\ status = "running" /\ top.fn \in Transfer /\ top.at = "list"
      /\ UNCHANGED <<fs, command, before, link, foreign, faults>>
      /\ FsSound' /\ faults' \in 0..MaxFaults
  BY DEF ListEnd, At, Transfer, Sound, TypeOK, FsSound, WellFormed
<1>2. Fits(fs', Src, Dst) /\ top.src \in Path /\ command.type = top.fn
  BY <1>1, RunningTop, TransferTop
<1>3. CASE Succeed
  BY <1>1, <1>2, <1>3, SucceedSound
<1>4. CASE /\ top.fn # "copy" /\ UNCHANGED <<status, answer>>
           /\ calls' = <<Call("remove", top.src, top.src)>> \o Tail(calls)
  <2> DEFINE c == Call("remove", top.src, top.src)
  <2>1. c \in CallRecord /\ c.src = top.src /\ c.fn = "remove"
    BY <1>2, CallType
  <2>2. calls' = <<c>> \o Tail(calls) /\ command.type = "move"
    BY <1>1, <1>2, <1>4 DEF Transfer
  <2> HIDE DEF c
  <2>3. OpenFiles'
    BY <2>1, <2>2, <1>1, ReplacedChain DEF OpenFiles, Transfer
  <2>4. link' \in LinkValue
    BY <1>1 DEF Sound, TypeOK, LinkValue
  <2> QED BY <2>1, <2>2, <2>3, <2>4, <1>1, <1>2, <1>4, Replaced
<1> QED BY <1>3, <1>4 DEF ListEnd

LEMMA SoundOpen == Sound /\ Open => Sound'
<1> SUFFICES ASSUME Sound, Open
             PROVE  Sound'
  OBVIOUS
<1>1. /\ status = "running" /\ top.fn \in Transfer /\ top.at = "open"
      /\ UNCHANGED <<command, before, link, foreign, faults>>
      /\ FsSound /\ faults' \in 0..MaxFaults
  BY DEF Open, At, Transfer, Sound, TypeOK, FsSound
<1>2. /\ top \in CallRecord /\ top.src \in Path /\ top.dst \in Path /\ top.dst # << >>
      /\ Src \in Path /\ Dst \in Path /\ Fits(fs, Src, Dst) /\ IsPrefix(Dst, top.dst)
      /\ ~IsStrictPrefix(Src, Dst) /\ OpenFiles
  BY <1>1, RunningTop, TransferTop
<1>3. CASE Fail /\ UNCHANGED fs
  <2>1. FsSound'
    BY <1>1, <1>3 DEF FsSound, WellFormed
  <2> QED BY <2>1, <1>1, <1>3, FailSound
<1>4. CASE /\ fs[top.dst] # Dir /\ fs[Parent(top.dst)] = Dir
           /\ fs' = [fs EXCEPT ![top.dst] = File(Empty)]
           /\ calls' = <<[top EXCEPT !.at = "write", !.data = fs'[top.src].data]>>
                         \o Tail(calls)
           /\ UNCHANGED <<status, answer>>
  <2>1. FsSound'
    <3>1. \A m \in Mounted : top.dst # <<m>>
      BY <1>1, <1>4 DEF FsSound, WellFormed
    <3>2. Children(fs, top.dst) = {}
      BY <1>1, <1>2, <1>4, OnlyDirsHaveChildren DEF FsSound, WellFormed
    <3>3. /\ [fs EXCEPT ![top.dst] = File(Empty)] \in [Path -> Node]
          /\ WellFormed([fs EXCEPT ![top.dst] = File(Empty)])
      BY <1>1, <1>2, <1>4, <3>1, <3>2, NodeExcept, NodeFacts DEF FsSound
    <3> QED BY <3>3, <1>4 DEF FsSound, WellFormed
  <2>2. Fits(fs', Src, Dst)
    <3>1. ASSUME NEW q \in Path, fs'[q] # Nothing, fs[q] = Nothing
          PROVE  q = top.dst
      BY <1>1, <1>4, <3>1 DEF FsSound
    <3> QED BY <3>1, <1>2, FitsStill
  <2>3. /\ fs'[top.dst] = File(Empty) /\ fs'[top.src].kind = "file"
        /\ fs'[top.dst].kind = "file" /\ fs'[top.src] \in Node
    <3>1. fs[top.src].kind = "file"
      BY <1>1, <1>2 DEF OpenFiles
    <3>2. fs'[top.src] \in {fs[top.src], File(Empty)}
      BY <1>1, <1>2, <1>4 DEF FsSound
    <3>3. fs'[top.dst] = File(Empty)
      BY <1>1, <1>2, <1>4 DEF FsSound
    <3>4. fs'[top.src] \in Node
      BY <2>1, <1>2 DEF FsSound
    <3> QED BY <3>1, <3>2, <3>3, <3>4, NodeKinds
  <2> DEFINE c == [top EXCEPT !.at = "write", !.data = fs'[top.src].data]
  <2>4. c \in CallRecord /\ c.src = top.src /\ c.fn = top.fn /\ c.dst = top.dst /\ c.at = "write"
    <3>1. fs'[top.src].data \in Data
      BY <2>3, NodeFacts
    <3> QED BY <3>1, <1>2 DEF CallRecord
  <2>5. calls' = <<c>> \o Tail(calls)
    BY <1>4
  <2> HIDE DEF c
  <2> QED BY <2>1, <2>2, <2>3, <2>4, <2>5, <1>1, <1>4, GoSound
<1> QED BY <1>3, <1>4 DEF Open

LEMMA SoundWrite == Sound /\ Write => Sound'
<1> SUFFICES ASSUME Sound, Write
             PROVE  Sound'
  OBVIOUS
<1>1. /\ status = "running" /\ top.fn \in Transfer /\ top.at = "write"
      /\ UNCHANGED <<command, before, link, foreign>> /\ FsSound
  BY DEF Write, At, Transfer, Sound, TypeOK, FsSound
<1>2. /\ top \in CallRecord /\ top.src \in Path /\ top.dst \in Path /\ top.dst # << >>
      /\ top.data \in Data
      /\ Src \in Path /\ Dst \in Path /\ Fits(fs, Src, Dst) /\ IsPrefix(Dst, top.dst)
      /\ ~IsStrictPrefix(Src, Dst) /\ OpenFiles
  BY <1>1, RunningTop, TransferTop DEF CallRecord
<1>3. faults' \in 0..MaxFaults
  BY FaultType DEF Sound, TypeOK, Write
<1>4. /\ fs[top.src].kind = "file" /\ fs[top.dst].kind = "file"
      /\ fs[top.dst] # Dir /\ fs[top.dst] # Nothing
      /\ fs[Parent(top.dst)] = Dir /\ Children(fs, top.dst) = {}
      /\ \A m \in Mounted : top.dst # <<m>>
  <2>1. fs[top.src].kind = "file" /\ fs[top.dst].kind = "file"
    BY <1>1, <1>2 DEF OpenFiles
  <2>2. fs[top.dst] # Dir /\ fs[top.dst] # Nothing
    BY <2>1, NodeKinds
  <2>3. fs[Parent(top.dst)] = Dir
    BY <2>2, <1>1, <1>2 DEF FsSound, WellFormed, IsTree
  <2>4. Children(fs, top.dst) = {}
    BY <2>2, <1>1, <1>2, OnlyDirsHaveChildren DEF FsSound, WellFormed
  <2>5. \A m \in Mounted : top.dst # <<m>>
    BY <2>2, <1>1 DEF FsSound, WellFormed
  <2> QED BY <2>1, <2>2, <2>3, <2>4, <2>5
<1>5. ASSUME NEW v \in Node, fs' = [fs EXCEPT ![top.dst] = v]
      PROVE  FsSound' /\ Fits(fs', Src, Dst)
  <2>1. /\ [fs EXCEPT ![top.dst] = v] \in [Path -> Node]
        /\ WellFormed([fs EXCEPT ![top.dst] = v])
    BY <1>1, <1>2, <1>4, <1>5, NodeExcept DEF FsSound
  <2>2. FsSound'
    BY <2>1, <1>5 DEF FsSound, WellFormed
  <2>3. ASSUME NEW q \in Path, fs'[q] # Nothing, fs[q] = Nothing
        PROVE  q = top.dst
    BY <1>1, <1>5, <2>3 DEF FsSound
  <2> QED BY <2>2, <2>3, <1>2, FitsStill
<1>6. ASSUME NEW data \in Data, Written(data)
      PROVE  Sound'
  <2>1. fs' = [fs EXCEPT ![top.dst] = File(data)] /\ File(data) \in Node
    BY <1>6, NodeFacts DEF Written
  <2>2. FsSound' /\ Fits(fs', Src, Dst)
    BY <2>1, <1>5
  <2>3. CASE Succeed
    BY <2>2, <2>3, <1>1, <1>3, SucceedSound
  <2>4. CASE Go("unlink") /\ UNCHANGED <<status, answer>>
    <3> DEFINE c == [top EXCEPT !.at = "unlink"]
    <3>1. c \in CallRecord /\ c.src = top.src /\ c.fn = top.fn /\ c.dst = top.dst /\ c.at = "unlink"
      BY <1>2 DEF CallRecord
    <3>2. calls' = <<c>> \o Tail(calls)
      BY <2>4 DEF Go
    <3>3. fs'[top.src].kind = "file"
      <4>1. fs'[top.src] \in {fs[top.src], File(data)}
        BY <2>1, <1>1, <1>2 DEF FsSound
      <4> QED BY <4>1, <1>4, NodeKinds
    <3> HIDE DEF c
    <3> QED BY <3>1, <3>2, <3>3, <2>2, <2>4, <1>1, <1>3, GoSound
  <2> QED BY <2>3, <2>4, <1>6 DEF Written
<1>7. CASE fs' = [fs EXCEPT ![top.dst] = Nothing] /\ Fail
  <2>1. FsSound'
    BY <1>5, <1>7, NodeFacts
  <2> QED BY <2>1, <1>1, <1>3, <1>7, FailSound
<1>8. Written(top.data) \/ Written(Torn) \/ (fs' = [fs EXCEPT ![top.dst] = Nothing] /\ Fail)
  BY DEF Write
<1> QED BY <1>2, <1>6, <1>7, <1>8, NodeFacts

(* Something below the source is removed.                                  *)
LEMMA RemovedSound ==
  ASSUME Sound, status = "running", Removable, NEW p \in Path, IsPrefix(Src, p),
         Children(fs, p) = {}, fs' = [fs EXCEPT ![p] = Nothing]
  PROVE  FsSound' /\ Fits(fs', Src, Dst)
<1>1. FsSound /\ Src \in Path /\ Dst \in Path /\ Fits(fs, Src, Dst)
  BY RunningTop DEF Sound, TypeOK, FsSound
<1>2. /\ [fs EXCEPT ![p] = Nothing] \in [Path -> Node]
      /\ WellFormed([fs EXCEPT ![p] = Nothing])
  BY <1>1, NoMountBelow, NodeExcept, NodeFacts DEF FsSound
<1>3. FsSound'
  BY <1>2 DEF FsSound, WellFormed
<1>4. \A q \in Path : fs'[q] # Nothing => fs[q] # Nothing
  BY <1>1 DEF FsSound
<1>5. Fits(fs', Src, Dst)
  BY <1>1, <1>4 DEF Fits, Under
<1> QED BY <1>3, <1>5

LEMMA SoundUnlink == Sound /\ Unlink => Sound'
<1> SUFFICES ASSUME Sound, Unlink
             PROVE  Sound'
  OBVIOUS
<1>1. /\ status = "running" /\ top.fn = "move" /\ top.at = "unlink" /\ top.fn \in Transfer
      /\ UNCHANGED <<command, before, link, foreign, faults>>
      /\ FsSound /\ faults' \in 0..MaxFaults
      /\ fs' = [fs EXCEPT ![top.src] = Nothing] /\ Succeed
  BY DEF Unlink, At, Transfer, Sound, TypeOK, FsSound
<1>2. top.src \in Path /\ IsPrefix(Src, top.src) /\ Removable /\ OpenFiles
  BY <1>1, RunningTop, TransferTop
<1>3. Children(fs, top.src) = {}
  <2>1. fs[top.src] # Dir
    BY <1>1, <1>2, NodeKinds DEF OpenFiles
  <2> QED BY <2>1, <1>1, <1>2, OnlyDirsHaveChildren DEF FsSound, WellFormed
<1>4. FsSound' /\ Fits(fs', Src, Dst)
  BY <1>1, <1>2, <1>3, RemovedSound
<1> QED BY <1>1, <1>4, SucceedSound

(* remove_file_or_directory.                                               *)
LEMMA SoundRemove ==
  Sound /\ (RemovePath \/ RemoveNext \/ RemoveFails) => Sound'
<1> SUFFICES ASSUME Sound, RemovePath \/ RemoveNext \/ RemoveFails
             PROVE  Sound'
  OBVIOUS
<1>1. /\ status = "running" /\ top.fn = "remove"
      /\ UNCHANGED <<command, before, link, foreign, faults>>
      /\ FsSound /\ faults' \in 0..MaxFaults
  BY DEF RemovePath, RemoveNext, RemoveFails, At, Sound, TypeOK, FsSound
<1>2. /\ top \in CallRecord /\ top.src \in Path /\ IsPrefix(Src, top.src)
      /\ Removable /\ Fits(fs, Src, Dst) /\ Src \in Path
      /\ command.type \in {"delete", "move"} /\ foreign \subseteq Path
      /\ link' \in LinkValue
  BY <1>1, RunningTop, RemoveTop DEF Sound, TypeOK, LinkValue
<1>3. CASE Fail /\ UNCHANGED fs
  <2>1. FsSound'
    BY <1>1, <1>3 DEF FsSound, WellFormed
  <2> QED BY <2>1, <1>1, <1>3, FailSound
<1>4. ASSUME NEW p \in Path, IsPrefix(Src, p), Children(fs, p) = {},
             fs' = [fs EXCEPT ![p] = Nothing],
             Succeed \/ UNCHANGED <<calls, status, answer>>
      PROVE  Sound'
  <2>1. FsSound' /\ Fits(fs', Src, Dst)
    BY <1>1, <1>2, <1>4, RemovedSound
  <2>2. CASE Succeed
    BY <2>1, <2>2, <1>1, SucceedSound
  <2>3. CASE UNCHANGED <<calls, status, answer>>
    <3>1. TypeOK'
      BY <2>1, <2>3, <1>1 DEF Sound, TypeOK, FsSound
    <3>2. top' = top /\ OpenFiles'
      BY <2>3, <1>1 DEF top, OpenFiles, Transfer
    <3>3. StackSound'
      BY <2>1, <2>3, <3>2, <1>1
         DEF Sound, StackSound, SingleCall, Chain, Removable, Src, Dst
    <3> QED BY <3>1, <3>3 DEF Sound
  <2> QED BY <2>2, <2>3, <1>4
<1>5. CASE /\ UNCHANGED <<fs, status, answer>>
           /\ calls' = <<[top EXCEPT !.at = "nftw", !.known = foreign]>> \o Tail(calls)
  <2> DEFINE c == [top EXCEPT !.at = "nftw", !.known = foreign]
  <2>1. c \in CallRecord /\ c.src = top.src /\ c.fn = top.fn /\ c.dst = top.dst /\ c.at = "nftw"
    BY <1>2 DEF CallRecord
  <2>2. calls' = <<c>> \o Tail(calls)
    BY <1>5
  <2> HIDE DEF c
  <2>3. OpenFiles'
    BY <2>1, <2>2, <1>1, ReplacedChain DEF OpenFiles, Transfer
  <2>4. FsSound' /\ Fits(fs', Src, Dst)
    BY <1>1, <1>2, <1>5 DEF FsSound, WellFormed
  <2> QED BY <2>1, <2>2, <2>3, <2>4, <1>1, <1>2, <1>5, Replaced
<1>6. CASE RemovePath
  <2>1. CASE /\ Children(fs, top.src) = {} /\ fs' = [fs EXCEPT ![top.src] = Nothing] /\ Succeed
    BY <2>1, <1>2, <1>4
  <2> QED BY <2>1, <1>3, <1>5, <1>6 DEF RemovePath
<1>7. CASE RemoveNext
  <2>1. PICK p \in Under(top.src) :
          /\ Children(fs, p) = {} /\ fs' = [fs EXCEPT ![p] = Nothing]
          /\ Succeed \/ UNCHANGED <<calls, status, answer>>
    BY <1>7 DEF RemoveNext
  <2>2. p \in Path /\ IsPrefix(Src, p)
    BY <1>2, PrefixOrder DEF Under
  <2> QED BY <2>1, <2>2, <1>4
<1>8. CASE RemoveFails
  BY <1>3, <1>8 DEF RemoveFails
<1> QED BY <1>6, <1>7, <1>8

LEMMA SoundAddForeign == Sound /\ AddForeign => Sound'
<1> SUFFICES ASSUME Sound, AddForeign
             PROVE  Sound'
  OBVIOUS
<1>1. PICK p \in Path :
        /\ Fresh(fs, p) /\ fs' = [fs EXCEPT ![p] = File(Foreign)]
        /\ foreign' = foreign \cup {p} /\ Fits(fs', command.src, command.dst)
  BY DEF AddForeign
<1>2. /\ UNCHANGED <<command, status, calls, answer, before, link, faults>>
      /\ FsSound /\ status = "running"
  BY DEF AddForeign, Sound, TypeOK, FsSound
<1>3. FsSound'
  <2>1. fs[p] # Dir /\ p # << >> /\ fs[Parent(p)] = Dir
    BY <1>1, NodeKinds DEF Fresh
  <2>2. Children(fs, p) = {} /\ \A m \in Mounted : p # <<m>>
    BY <2>1, <1>2, OnlyDirsHaveChildren DEF FsSound, WellFormed
  <2>3. /\ [fs EXCEPT ![p] = File(Foreign)] \in [Path -> Node]
        /\ WellFormed([fs EXCEPT ![p] = File(Foreign)])
    BY <1>2, <2>1, <2>2, NodeExcept, NodeFacts DEF FsSound
  <2> QED BY <2>3, <1>1 DEF FsSound, WellFormed
<1>4. TypeOK'
  BY <1>1, <1>2, <1>3 DEF Sound, TypeOK, FsSound
<1>5. \A q \in Path : fs[q].kind = "file" => fs'[q].kind = "file"
  BY <1>1, <1>2, NodeKinds DEF FsSound, Fresh
<1>6. OpenFiles => OpenFiles'
  <2>1. top' = top
    BY <1>2 DEF top
  <2>2. top.src \in Path /\ top.dst \in Path
    BY <1>2, RunningTop DEF CallRecord
  <2> QED BY <2>1, <2>2, <1>5 DEF OpenFiles
<1>7. StackSound'
  BY <1>1, <1>2, <1>6
     DEF Sound, StackSound, SingleCall, Chain, Removable, top, Src, Dst
<1> QED BY <1>4, <1>7 DEF Sound

LEMMA SoundNext == Sound /\ [Next]_vars => Sound'
<1> SUFFICES ASSUME Sound, [Next]_vars
             PROVE  Sound'
  OBVIOUS
<1>1. CASE BackEnd
  BY <1>1, SoundMakeDirectory, SoundLink, SoundStat, SoundMkdir, SoundListEntry, SoundListEnd,
     SoundOpen, SoundWrite, SoundUnlink, SoundRemove DEF BackEnd
<1>2. CASE UNCHANGED vars
  BY <1>2 DEF vars, Sound, TypeOK, WellFormed, StackSound, SingleCall, Chain, OpenFiles,
              Removable, top, Src, Dst
<1> QED BY <1>1, <1>2, SoundReceive, SoundLink, SoundAddForeign DEF Next

-----------------------------------------------------------------------------
(* Each call is about an entry that the call around it has listed, with    *)
(* source and destination at the same place below those of the command,    *)
(* and what a call has open is a file, for any trees, mount points and     *)
(* other processes.                                                        *)
THEOREM StackIsSound == Spec => []StackSound
<1>1. Spec => []Sound
  BY SoundInit, SoundNext, PTL DEF Spec
<1>2. Sound => StackSound
  BY DEF Sound
<1> QED BY <1>1, <1>2, PTL

(* The tree stays a tree with its mount points, and every variable keeps   *)
(* its type.                                                               *)
THEOREM TypeCorrect == Spec => []TypeOK
<1>1. Spec => []Sound
  BY SoundInit, SoundNext, PTL DEF Spec
<1>2. Sound => TypeOK
  BY DEF Sound
<1> QED BY <1>1, <1>2, PTL
=============================================================================
