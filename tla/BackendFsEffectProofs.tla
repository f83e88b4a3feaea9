------------------------- MODULE BackendFsEffectProofs -------------------------
(* What a command makes of the tree and what the front end is told of it,  *)
(* proved for any set of names, any depth and any trees the back end may   *)
(* find, from the shape of its call stack.                                 *)
EXTENDS BackendFsProofs

-----------------------------------------------------------------------------
(* Every command changes what it names only.                               *)

(* What EffectAsPromised says of one path while a command runs.            *)
Allowed(p, is) ==
  /\ p \notin Named(command.type, Src, Dst) => is = before[p]
  /\ command.type = "mkdir"  => is = before[p] \/ (before[p] = Nothing /\ is = Dir)
  /\ command.type = "delete" => Taken(before[p], is)
  /\ command.type = "copy"   => Put(before[p], is)
  /\ command.type = "move"   => IF IsPrefix(Src, p) THEN Taken(before[p], is) \/ IsPrefix(Dst, p)
                                ELSE Put(before[p], is)

(* FilesStay speaks of the file at p.                                      *)
Staying(p) == command.type = "copy" \/ (command.type = "move" /\ ~IsPrefix(Src, p))

Effected ==
  /\ Sound
  /\ EffectAsPromised
  /\ status = "running" /\ command.type \in Transfer => FilesStay

(* A command that runs is no single system call.                           *)
LEMMA RunningType ==
  ASSUME Sound, status = "running"
  PROVE  command.type \in {"delete", "mkdir", "link", "move", "copy"}
<1>1. CASE command.type \notin Transfer
  <2>1. SingleCall /\ top \in CallRecord /\ command \in Commands
    BY <1>1, RunningTop DEF Sound, StackSound
  <2> QED BY <2>1, CommandTypes DEF SingleCall, CallRecord
<1>2. CASE command.type \in Transfer
  BY <1>2 DEF Transfer
<1> QED BY <1>1, <1>2

LEMMA AllowedNow ==
  ASSUME Effected, status = "running", NEW p \in Path \ foreign
  PROVE  /\ Allowed(p, fs[p])
         /\ Staying(p) /\ before[p].kind = "file" => fs[p].kind = "file"
<1>1. Effect(command.type, Src, Dst, before, fs, foreign)
  BY DEF Effected, EffectAsPromised
<1>2. Allowed(p, fs[p])
  BY <1>1 DEF Effect, Allowed
<1>3. ASSUME Staying(p), before[p].kind = "file"
      PROVE  fs[p].kind = "file"
  BY <1>3 DEF Effected, FilesStay, Staying, Transfer
<1> QED BY <1>2, <1>3

(* It is enough to look at the paths a step changes.                       *)
LEMMA EffectedStep ==
  ASSUME Effected, Sound', status = "running", status' \in {"running", "done"},
         UNCHANGED <<command, before>>, foreign \subseteq foreign',
         \A p \in Path \ foreign' :
           \/ fs'[p] = fs[p]
           \/ /\ Allowed(p, fs'[p])
              /\ status' = "running" /\ Staying(p) /\ fs[p].kind = "file" => fs'[p].kind = "file"
  PROVE  Effected'
<1>1. command.type \in {"delete", "mkdir", "link", "move", "copy"}
  BY RunningType DEF Effected
<1>2. \A p \in Path \ foreign' : Allowed(p, fs'[p])
  BY AllowedNow
<1>3. EffectAsPromised'
  <2>1. Effect(command.type, Src, Dst, before, fs', foreign')
    BY <1>1, <1>2 DEF Effect, Allowed
  <2> QED BY <2>1 DEF EffectAsPromised, Src, Dst
<1>4. ASSUME status' = "running", command.type \in Transfer
      PROVE  FilesStay'
  <2>1. ASSUME NEW p \in Path \ foreign', Staying(p), before[p].kind = "file"
        PROVE  fs'[p].kind = "file"
    BY <1>4, <2>1, AllowedNow
  <2> QED BY <1>4, <2>1 DEF FilesStay, Staying, Transfer, Src
<1> QED BY <1>3, <1>4 DEF Effected

(* Steps that leave the tree alone, or what is at all paths but one.       *)
LEMMA EffectedSame ==
  ASSUME Effected, Sound', status = "running", status' \in {"running", "done"},
         UNCHANGED <<command, before, foreign, fs>>
  PROVE  Effected'
BY EffectedStep

LEMMA EffectedAt ==
  ASSUME Effected, Sound', status = "running", status' \in {"running", "done"},
         UNCHANGED <<command, before, foreign>>,
         NEW p \in Path, NEW v, fs' = [fs EXCEPT ![p] = v],
         p \in foreign \/ Allowed(p, v),
         status' = "running" /\ Staying(p) /\ fs[p].kind = "file" => v.kind = "file"
  PROVE  Effected'
<1>1. fs \in [Path -> Node]
  BY DEF Effected, Sound, TypeOK
<1>2. \A q \in Path : q # p => fs'[q] = fs[q]
  BY <1>1
<1>3. fs'[p] = v
  BY <1>1
<1> HIDE DEF Allowed, Staying
<1> QED BY <1>2, <1>3, EffectedStep

-----------------------------------------------------------------------------
(* What a transfer may put below the destination and take from below the   *)
(* source.                                                                 *)

LEMMA PutAllowed ==
  ASSUME Effected, status = "running", command.type \in Transfer,
         NEW p \in Path, IsPrefix(Dst, p), p \notin foreign, NEW v,
         \/ fs[p] # Dir /\ v # Dir
         \/ fs[p] = Nothing /\ v = Dir
  PROVE  Allowed(p, v)
<1>1. p \in Named(command.type, Src, Dst)
  BY DEF Named, Under, Transfer
<1>2. Allowed(p, fs[p]) /\ (Staying(p) /\ before[p].kind = "file" => fs[p].kind = "file")
  BY AllowedNow
<1>3. CASE ~Staying(p)
  BY <1>1, <1>3 DEF Allowed, Staying, Transfer
<1>4. CASE Staying(p)
  <2>1. Put(before[p], fs[p])
    BY <1>2, <1>4 DEF Allowed, Staying
  <2>2. Put(before[p], v)
    BY <1>2, <1>4, <2>1, NodeKinds DEF Put
  <2> QED BY <1>1, <1>4, <2>2 DEF Allowed, Staying, Transfer
<1> QED BY <1>3, <1>4

LEMMA TakeAllowed ==
  ASSUME NEW p \in Path, IsPrefix(Src, p), command.type \in {"move", "delete"}
  PROVE  Allowed(p, Nothing) /\ ~Staying(p)
BY DEF Allowed, Staying, Named, Under, Taken

LEMMA StatusAfter ==
  ASSUME status = "running", Succeed \/ Fail \/ UNCHANGED <<status, answer>>
  PROVE  status' \in {"running", "done"}
BY DEF Succeed, Fail, Finish

LEMMA EffectedMakeDirectory == Effected /\ MakeDirectory => Effected'
<1> SUFFICES ASSUME Effected, MakeDirectory
             PROVE  Effected'
  OBVIOUS
<1>1. /\ At({"mkdir"}, "stat") /\ status = "running" /\ status' \in {"running", "done"}
      /\ UNCHANGED <<command, before, foreign>>
      /\ \/ fs[Tried] = Nothing /\ fs' = [fs EXCEPT ![Tried] = Dir] /\ status' = "done"
         \/ UNCHANGED fs
  BY DEF MakeDirectory, Tries, At, Fresh, Finish
<1>2. Sound /\ Sound'
  BY SoundMakeDirectory DEF Effected
<1>3. CASE fs[Tried] = Nothing /\ fs' = [fs EXCEPT ![Tried] = Dir] /\ status' = "done"
  <2>1. Tried \in Path /\ command.type = "mkdir" /\ Tried \in Named(command.type, Src, Dst)
    <3>1. /\ command.type = "mkdir" /\ Tried \in Path
          /\ (IF top.count = 0 THEN 1 ELSE top.count) \in 1..Len(Numbered)
          /\ Tried = Append(Src, Numbered[IF top.count = 0 THEN 1 ELSE top.count])
      BY <1>1, <1>2, TriedPath
    <3>2. DOMAIN Numbered = 1..Len(Numbered)
      BY NumberedAssumption, LenProperties
    <3>3. Tried \in NewNames(Src)
      BY <3>1, <3>2 DEF NewNames, Range
    <3> QED BY <3>1, <3>3 DEF Named
  <2>2. Tried \notin foreign => Allowed(Tried, Dir)
    <3> SUFFICES ASSUME Tried \notin foreign
                 PROVE  Allowed(Tried, Dir)
      OBVIOUS
    <3>1. Allowed(Tried, fs[Tried])
      BY <1>1, <2>1, AllowedNow
    <3> QED BY <3>1, <1>3, <2>1, NodeKinds DEF Allowed
  <2>3. ~Staying(Tried)
    BY <2>1 DEF Staying
  <2> QED BY <1>1, <1>2, <1>3, <2>1, <2>2, <2>3, EffectedAt
<1>4. CASE UNCHANGED fs
  BY <1>1, <1>2, <1>4, EffectedSame
<1> QED BY <1>1, <1>3, <1>4

LEMMA EffectedLink ==
  Effected /\ (LinkDirectory \/ Symlink \/ UnlinkOld \/ SymlinkAgain \/ AddAtLink) => Effected'
<1> SUFFICES ASSUME Effected, LinkDirectory \/ Symlink \/ UnlinkOld \/ SymlinkAgain \/ AddAtLink
             PROVE  Effected'
  OBVIOUS
<1>1. /\ status = "running" /\ status' \in {"running", "done"}
      /\ UNCHANGED <<fs, command, before, foreign>>
  BY DEF LinkDirectory, Symlink, MakeLink, UnlinkOld, SymlinkAgain, AddAtLink, Go, At, Finish
<1>2. Sound'
  BY SoundLink DEF Effected
<1> QED BY <1>1, <1>2, EffectedSame

LEMMA EffectedStat == Effected /\ Stat => Effected'
<1> SUFFICES ASSUME Effected, Stat
             PROVE  Effected'
  OBVIOUS
<1>1. /\ status = "running" /\ top.fn \in Transfer /\ UNCHANGED <<command, before, foreign>>
      /\ \/ UNCHANGED fs
         \/ /\ fs[top.src].kind = "file" /\ Renames(fs, top.src, top.dst) /\ top.fn = "move"
            /\ fs' = Renamed(fs, top.src, top.dst)
      /\ status' \in {"running", "done"}
  BY DEF Stat, At, Transfer, RenamesHere, Go, Fail, Succeed, Finish
<1>2. Sound /\ Sound'
  BY SoundStat DEF Effected
<1>3. /\ top.src \in Path /\ top.dst \in Path /\ IsPrefix(Src, top.src) /\ IsPrefix(Dst, top.dst)
      /\ command.type = top.fn /\ fs \in [Path -> Node] /\ IsTree(fs)
  BY <1>1, <1>2, RunningTop, TransferTop DEF Sound, TypeOK, WellFormed
<1>4. CASE /\ fs[top.src].kind = "file" /\ Renames(fs, top.src, top.dst) /\ top.fn = "move"
           /\ fs' = Renamed(fs, top.src, top.dst) /\ top.src # top.dst
  <2>1. /\ fs[top.src] # Dir /\ fs[top.dst] # Dir
        /\ fs' = [fs EXCEPT ![top.src] = Nothing, ![top.dst] = fs[top.src]]
    <3> DEFINE a == top.src
               b == top.dst
    <3>1. /\ a \in Path /\ b \in Path /\ a # b /\ fs[a] # Dir /\ Renames(fs, a, b)
          /\ fs' = Renamed(fs, a, b)
      BY <1>3, <1>4, NodeKinds
    <3> HIDE DEF a, b
    <3>2. fs[b] # Dir /\ Renamed(fs, a, b) = [fs EXCEPT ![a] = Nothing, ![b] = fs[a]]
      BY <3>1, <1>3, RenamedFile
    <3> QED BY <3>1, <3>2 DEF a, b
  <2>2. /\ \A p \in Path : p # top.src /\ p # top.dst => fs'[p] = fs[p]
        /\ fs'[top.dst] = fs[top.src] /\ fs'[top.src] = Nothing
    BY <2>1, <1>3, <1>4
  <2>3. Allowed(top.src, fs'[top.src]) /\ ~Staying(top.src)
    BY <2>2, <1>3, <1>4, TakeAllowed
  <2>4. top.dst \notin foreign => Allowed(top.dst, fs'[top.dst])
    BY <2>1, <2>2, <1>1, <1>3, PutAllowed
  <2>5. fs'[top.dst].kind = "file"
    BY <2>2, <1>4
  <2> HIDE DEF Allowed, Staying
  <2> QED BY <2>2, <2>3, <2>4, <2>5, <1>1, <1>2, EffectedStep
<1>5. CASE UNCHANGED fs
  BY <1>1, <1>2, <1>5, EffectedSame
<1>6. top.src = top.dst /\ fs' = Renamed(fs, top.src, top.dst) => UNCHANGED fs
  BY DEF Renamed
<1> QED BY <1>1, <1>4, <1>5, <1>6

LEMMA EffectedMkdir == Effected /\ Mkdir => Effected'
<1> SUFFICES ASSUME Effected, Mkdir
             PROVE  Effected'
  OBVIOUS
<1>1. /\ status = "running" /\ status' = "running" /\ top.fn \in Transfer
      /\ UNCHANGED <<command, before, foreign>>
      /\ fs' = IF Fresh(fs, top.dst) THEN [fs EXCEPT ![top.dst] = Dir] ELSE fs
  BY DEF Mkdir, At, Transfer
<1>2. Sound /\ Sound'
  BY SoundMkdir DEF Effected
<1>3. /\ top.dst \in Path /\ IsPrefix(Dst, top.dst) /\ command.type \in Transfer
  BY <1>1, <1>2, TransferTop
<1>4. CASE Fresh(fs, top.dst)
  <2>1. fs[top.dst] = Nothing /\ fs[top.dst].kind # "file" /\ fs' = [fs EXCEPT ![top.dst] = Dir]
    BY <1>1, <1>4, NodeKinds DEF Fresh
  <2>2. top.dst \in foreign \/ Allowed(top.dst, Dir)
    BY <2>1, <1>1, <1>3, PutAllowed
  <2> QED BY <2>1, <2>2, <1>1, <1>2, <1>3, EffectedAt
<1>5. CASE ~Fresh(fs, top.dst)
  BY <1>1, <1>2, <1>5, EffectedSame
<1> QED BY <1>4, <1>5

LEMMA EffectedList == Effected /\ (ListEntry \/ ListEnd) => Effected'
<1> SUFFICES ASSUME Effected, ListEntry \/ ListEnd
             PROVE  Effected'
  OBVIOUS
<1>1. /\ status = "running" /\ UNCHANGED <<fs, command, before, foreign>>
      /\ status' \in {"running", "done"}
  BY DEF ListEntry, ListEnd, At, Succeed, Finish
<1>2. Sound'
  BY SoundListEntry, SoundListEnd DEF Effected
<1> QED BY <1>1, <1>2, EffectedSame

LEMMA EffectedOpen == Effected /\ Open => Effected'
<1> SUFFICES ASSUME Effected, Open
             PROVE  Effected'
  OBVIOUS
<1>1. /\ status = "running" /\ top.fn \in Transfer /\ UNCHANGED <<command, before, foreign>>
      /\ status' \in {"running", "done"}
      /\ \/ UNCHANGED fs
         \/ fs[top.dst] # Dir /\ fs' = [fs EXCEPT ![top.dst] = File(Empty)]
  BY DEF Open, At, Transfer, Fail, Finish
<1>2. Sound /\ Sound'
  BY SoundOpen DEF Effected
<1>3. /\ top.dst \in Path /\ IsPrefix(Dst, top.dst) /\ command.type \in Transfer
  BY <1>1, <1>2, TransferTop
<1>4. CASE fs[top.dst] # Dir /\ fs' = [fs EXCEPT ![top.dst] = File(Empty)]
  <2>1. File(Empty) # Dir /\ File(Empty).kind = "file"
    BY NodeKinds
  <2>2. top.dst \in foreign \/ Allowed(top.dst, File(Empty))
    BY <2>1, <1>1, <1>3, <1>4, PutAllowed
  <2> QED BY <2>1, <2>2, <1>1, <1>2, <1>3, <1>4, EffectedAt
<1>5. CASE UNCHANGED fs
  BY <1>1, <1>2, <1>5, EffectedSame
<1> QED BY <1>1, <1>4, <1>5

LEMMA EffectedWrite == Effected /\ Write => Effected'
<1> SUFFICES ASSUME Effected, Write
             PROVE  Effected'
  OBVIOUS
<1>1. /\ status = "running" /\ top.fn \in Transfer /\ top.at = "write"
      /\ UNCHANGED <<command, before, foreign>>
      /\ status' \in {"running", "done"}
  BY DEF Write, Written, At, Transfer, Succeed, Fail, Go, Finish
<1>2. \E v : /\ fs' = [fs EXCEPT ![top.dst] = v]
             /\ (\E d : v = File(d)) \/ (v = Nothing /\ status' = "done")
  BY DEF Write, Written, Fail, Finish
<1>3. Sound /\ Sound'
  BY SoundWrite DEF Effected
<1>4. /\ top.dst \in Path /\ IsPrefix(Dst, top.dst) /\ command.type \in Transfer
      /\ fs[top.dst] # Dir
  BY <1>1, <1>3, TransferTop, NodeKinds DEF OpenFiles
<1>5. PICK v : /\ fs' = [fs EXCEPT ![top.dst] = v]
               /\ (\E d : v = File(d)) \/ (v = Nothing /\ status' = "done")
  BY <1>2
<1>6. v # Dir /\ (status' = "running" => v.kind = "file")
  BY <1>5, NodeKinds
<1>7. top.dst \in foreign \/ Allowed(top.dst, v)
  BY <1>1, <1>4, <1>6, PutAllowed
<1> QED BY <1>1, <1>3, <1>4, <1>5, <1>6, <1>7, EffectedAt

(* Something below the source is removed.                                  *)
LEMMA EffectedRemove ==
  Effected /\ (Unlink \/ RemovePath \/ RemoveNext \/ RemoveFails) => Effected'
<1> SUFFICES ASSUME Effected, Unlink \/ RemovePath \/ RemoveNext \/ RemoveFails
             PROVE  Effected'
  OBVIOUS
<1>1. /\ status = "running" /\ UNCHANGED <<command, before, foreign>>
      /\ status' \in {"running", "done"}
      /\ top.fn \in {"remove", "move"}
      /\ \/ UNCHANGED fs
         \/ \E p \in Under(top.src) \cup {top.src} : fs' = [fs EXCEPT ![p] = Nothing]
  BY DEF Unlink, RemovePath, RemoveNext, RemoveFails, At, Succeed, Fail, Finish
<1>2. Sound /\ Sound'
  BY SoundUnlink, SoundRemove DEF Effected
<1>3. top.src \in Path /\ Src \in Path /\ IsPrefix(Src, top.src)
  BY <1>1, <1>2, RunningTop
<1>4. command.type \in {"move", "delete"}
  BY <1>1, <1>2, RemoveTop, TransferTop DEF Transfer
<1>5. CASE UNCHANGED fs
  BY <1>1, <1>2, <1>5, EffectedSame
<1>6. CASE \E p \in Under(top.src) \cup {top.src} : fs' = [fs EXCEPT ![p] = Nothing]
  <2>1. PICK p \in Under(top.src) \cup {top.src} : fs' = [fs EXCEPT ![p] = Nothing]
    BY <1>6
  <2>2. p \in Path /\ IsPrefix(Src, p)
    BY <1>3, PrefixOrder DEF Under
  <2>3. Allowed(p, Nothing) /\ ~Staying(p)
    BY <1>4, <2>2, TakeAllowed
  <2> QED BY <1>1, <1>2, <2>1, <2>2, <2>3, EffectedAt
<1> QED BY <1>1, <1>5, <1>6

LEMMA EffectedAddForeign == Effected /\ AddForeign => Effected'
<1> SUFFICES ASSUME Effected, AddForeign
             PROVE  Effected'
  OBVIOUS
<1>1. PICK p \in Path : fs' = [fs EXCEPT ![p] = File(Foreign)] /\ foreign' = foreign \cup {p}
  BY DEF AddForeign
<1>2. UNCHANGED <<command, status, before>> /\ status = "running" /\ fs \in [Path -> Node]
  BY DEF AddForeign, Effected, Sound, TypeOK
<1>3. Sound'
  BY SoundAddForeign DEF Effected
<1>4. \A q \in Path \ foreign' : fs'[q] = fs[q]
  BY <1>1, <1>2
<1> QED BY <1>1, <1>2, <1>3, <1>4, EffectedStep

-----------------------------------------------------------------------------
(* Commands that are over at once.                                         *)

LEMMA RenameEffect ==
  ASSUME NEW t, IsTree(t), NEW src \in Path, NEW dst \in Path,
         src # << >>, dst # << >>, Renames(t, src, dst),
         NEW type \in {"rename", "move"}, NEW others
  PROVE  Effect(type, src, dst, t, Renamed(t, src, dst), others)
<1> DEFINE u == Renamed(t, src, dst)
<1>1. CASE src = dst
  <2>1. u = t
    BY <1>1 DEF Renamed
  <2> HIDE DEF u
  <2>2. Effect(type, src, dst, t, u, others)
    BY <2>1, NodeKinds DEF Effect, Taken, Put
  <2> QED BY <2>2 DEF u
<1>2. CASE src # dst
  <2>0. \A p \in Path : ~IsPrefix(dst, p) /\ IsPrefix(src, p) => u[p] = Nothing
    <3> HIDE DEF u
    <3>1. \A p \in Path : ~IsPrefix(dst, p) /\ IsPrefix(src, p) => Renamed(t, src, dst)[p] = Nothing
      BY <1>2 DEF Renamed
    <3> QED BY <3>1 DEF u
  <2>1. ASSUME NEW p \in Path
        PROVE  /\ p \notin Named(type, src, dst) => u[p] = t[p]
               /\ type = "move" => IF IsPrefix(src, p) THEN Taken(t[p], u[p]) \/ IsPrefix(dst, p)
                                   ELSE Put(t[p], u[p])
    <3>1. CASE ~IsPrefix(src, p)
      <4>1. Put(t[p], u[p])
        BY <1>2, <3>1, RenamedKind DEF Put
      <4>2. ~IsPrefix(dst, p) => u[p] = t[p]
        BY <1>2, <3>1, RenamedAt
      <4> HIDE DEF u
      <4> QED BY <3>1, <4>1, <4>2 DEF Named, Under
    <3>2. CASE IsPrefix(src, p)
      <4>1. ~IsPrefix(dst, p) => u[p] = Nothing
        BY <2>0, <3>2
      <4> HIDE DEF u
      <4> QED BY <3>2, <4>1 DEF Named, Under, Taken
    <3> QED BY <3>1, <3>2
  <2>2. {src, dst} \subseteq Path \ {<< >>} /\ type \notin {"mkdir", "delete", "copy"}
    OBVIOUS
  <2>3. type = "rename" => u = Renamed(t, src, dst)
    OBVIOUS
  <2> HIDE DEF u
  <2>4. Effect(type, src, dst, t, u, others)
    BY <2>1, <2>2, <2>3 DEF Effect
  <2> QED BY <2>4 DEF u
<1> QED BY <1>1, <1>2

LEMMA EffectedReceive == Effected /\ Receive => Effected'
<1> SUFFICES ASSUME Effected, Receive
             PROVE  Effected'
  OBVIOUS
<1>1. PICK c \in Commands :
        /\ command' = c /\ before' = fs
        /\ ByRename(c) \/ Refused(c) \/ Chmod(c) \/ ByCall(c)
  BY DEF Receive
<1>2. Sound' /\ IsTree(fs) /\ Src' = c.src /\ Dst' = c.dst
  BY <1>1, SoundReceive DEF Effected, Sound, TypeOK, WellFormed, Src, Dst
<1>3. CASE ByRename(c)
  <2>1. /\ c.type \in {"rename", "move"} /\ Renames(fs, c.src, c.dst)
        /\ fs' = Renamed(fs, c.src, c.dst) /\ status' = "done"
    BY <1>3 DEF ByRename, RenamesHere, Finish
  <2>2. c.src \in Path /\ c.dst \in Path /\ c.src # << >> /\ c.dst # << >>
    BY <2>1, CommandTypes
  <2>3. Effect(c.type, c.src, c.dst, fs, fs', foreign')
    BY <2>1, <2>2, <1>2, RenameEffect
  <2> QED BY <2>1, <2>3, <1>1, <1>2 DEF Effected, EffectAsPromised
<1>4. CASE UNCHANGED fs
  <2>1. Effect(c.type, c.src, c.dst, fs, fs', foreign')
    BY <1>4, NodeKinds DEF Effect, Taken, Put
  <2>2. FilesStay'
    BY <1>1, <1>4 DEF FilesStay
  <2> QED BY <2>1, <2>2, <1>1, <1>2 DEF Effected, EffectAsPromised
<1> QED BY <1>1, <1>3, <1>4 DEF Refused, Chmod, ByCall

LEMMA EffectedNext == Effected /\ [Next]_vars => Effected'
<1> SUFFICES ASSUME Effected, [Next]_vars
             PROVE  Effected'
  OBVIOUS
<1>1. CASE BackEnd
  BY <1>1, EffectedMakeDirectory, EffectedLink, EffectedStat, EffectedMkdir, EffectedList,
     EffectedOpen, EffectedWrite, EffectedRemove DEF BackEnd
<1>2. CASE UNCHANGED vars
  <2>1. Sound'
    BY SoundNext DEF Effected
  <2> QED BY <1>2, <2>1 DEF vars, Effected, EffectAsPromised, FilesStay, Src, Dst
<1> QED BY <1>1, <1>2, EffectedReceive, EffectedLink, EffectedAddForeign DEF Next

LEMMA EffectedAlways == Spec => []Effected
<1>1. Init => Effected
  BY SoundInit DEF Init, Effected, EffectAsPromised
<1> QED BY <1>1, EffectedNext, PTL DEF Spec

(* Whatever else happens to the tree meanwhile, while a command runs and   *)
(* however it ends, it changes only what it names, a delete adds nothing,  *)
(* a copy and a move replace no directory, and a rename happens at once or *)
(* not at all.                                                             *)
THEOREM ChangesOnlyWhatItNames == Spec => []EffectAsPromised
<1>1. Effected => EffectAsPromised
  BY DEF Effected
<1> QED BY <1>1, EffectedAlways, PTL

-----------------------------------------------------------------------------
(* What the front end is told of a single command.                         *)

SingleUnderway ==
  status = "running" =>
    /\ command.type = "mkdir" => Naming
    /\ command.type = "link" => Linking
    /\ command.type = "delete" => Deleting

Honest ==
  /\ Sound
  /\ status = "idle" => foreign = {}
  /\ SingleUnderway
  /\ NewDirectoryIsNew /\ LinkIsHonest /\ DeleteIsHonest

LEMMA HonestTransfer ==
  ASSUME Honest, Sound', command.type \in Transfer, command' = command, status' # "idle"
  PROVE  Honest'
BY DEF Honest, SingleUnderway, NewDirectoryIsNew, LinkIsHonest, DeleteIsHonest, Transfer

(* The names that were tried are taken.                                    *)
LEMMA TriedNames ==
  ASSUME Honest, At({"mkdir"}, "stat"), NEW k \in DOMAIN Numbered,
         k <= top.count \/ (k = 1 /\ top.count = 0), fs[Tried] # Nothing
  PROVE  fs[Append(Src, Numbered[k])] # Nothing
<1>1. /\ Naming /\ top.count \in Nat /\ k \in Nat
      /\ Tried = Append(Src, Numbered[IF top.count = 0 THEN 1 ELSE top.count])
  <2>1. Sound /\ status = "running" /\ DOMAIN Numbered = 1..Len(Numbered)
    BY NumberedAssumption, LenProperties DEF Honest, At
  <2>2. command.type = "mkdir" /\ top.count \in Nat
        /\ Tried = Append(Src, Numbered[IF top.count = 0 THEN 1 ELSE top.count])
    BY <2>1, TriedPath
  <2> QED BY <2>1, <2>2 DEF Honest, SingleUnderway
<1>2. CASE k < top.count \/ (k = 1 /\ top.count > 0)
  BY <1>1, <1>2 DEF Naming
<1>3. CASE k = top.count /\ top.count # 0
  BY <1>1, <1>3
<1>4. CASE k = 1 /\ top.count = 0
  BY <1>1, <1>4
<1>5. \A n, m \in Nat : n <= m => n < m \/ (n = m /\ m # 0) \/ (n = 0 /\ m = 0)
  OBVIOUS
<1>6. k # 0
  BY NumberedAssumption, LenProperties
<1> QED BY <1>1, <1>2, <1>3, <1>4, <1>5, <1>6

LEMMA HonestMakeDirectory == Honest /\ MakeDirectory => Honest'
<1> SUFFICES ASSUME Honest, MakeDirectory
             PROVE  Honest'
  OBVIOUS
<1>1. /\ At({"mkdir"}, "stat") /\ status = "running"
      /\ UNCHANGED <<command, before, foreign>>
      /\ \/ /\ Fresh(fs, Tried) /\ fs' = [fs EXCEPT ![Tried] = Dir] /\ status' = "done"
            /\ answer' = "success"
         \/ /\ fs[Tried] # Nothing /\ UNCHANGED <<fs, status>> /\ top.count # Len(Numbered)
            /\ calls' = <<[top EXCEPT !.count = @ + 1]>>
         \/ /\ fs[Tried] # Nothing /\ UNCHANGED fs /\ top.count = Len(Numbered)
            /\ status' = "done" /\ answer' = "none"
         \/ /\ fs[top.src] # Dir /\ UNCHANGED fs /\ status' = "done" /\ answer' = "none"
  BY DEF MakeDirectory, Tries, At, Finish
<1>2. Sound /\ Sound' /\ fs \in [Path -> Node]
  BY SoundMakeDirectory DEF Honest, Sound, TypeOK
<1>3. /\ command.type = "mkdir" /\ top.src = Src /\ top.count \in Nat
      /\ top \in CallRecord /\ Src \in Path /\ Len(Src) < Depth
      /\ Tried \in Path /\ Tried # << >>
      /\ Tried = Append(Src, Numbered[IF top.count = 0 THEN 1 ELSE top.count])
      /\ (IF top.count = 0 THEN 1 ELSE top.count) \in 1..Len(Numbered)
  BY <1>1, <1>2, TriedPath, RunningTop
<1>4. Naming
  BY <1>1, <1>3 DEF Honest, SingleUnderway
<1>5. /\ DOMAIN Numbered = 1..Len(Numbered) /\ Len(Numbered) \in Nat
      /\ \A k \in DOMAIN Numbered : k \in Nat /\ Numbered[k] \in Names
      /\ NewNames(Src) = {Append(Src, Numbered[k]) : k \in DOMAIN Numbered}
  <2>1. DOMAIN Numbered = 1..Len(Numbered) /\ Len(Numbered) \in Nat
    BY NumberedAssumption, LenProperties
  <2>2. \A k \in DOMAIN Numbered : k \in Nat /\ Numbered[k] \in Names
    BY <2>1, NumberedAssumption, ElementOfSeq
  <2> QED BY <2>1, <2>2 DEF NewNames, Range
<1>6. status' = "done" => LinkIsHonest' /\ DeleteIsHonest' /\ SingleUnderway' /\ status' # "idle"
  BY <1>1, <1>3 DEF LinkIsHonest, DeleteIsHonest, SingleUnderway
<1>7. CASE /\ Fresh(fs, Tried) /\ fs' = [fs EXCEPT ![Tried] = Dir] /\ status' = "done"
           /\ answer' = "success"
  <2>1. Tried \notin foreign /\ before[Tried] = Nothing /\ fs'[Tried] = Dir
    BY <1>2, <1>3, <1>4, <1>7 DEF Naming, Fresh
  <2>2. Changed' = {Tried}
    <3>1. \A p \in Path : p # Tried => fs'[p] = fs[p]
      BY <1>2, <1>7
    <3>2. \A p \in Path \ foreign : p # Tried => fs'[p] = before[p]
      BY <3>1, <1>4 DEF Naming
    <3>3. fs'[Tried] # before[Tried] /\ Tried \in Path \ foreign
      BY <2>1, <1>3, NodeKinds
    <3>4. Changed' = {p \in Path : fs'[p] # before[p]} \ foreign
      BY <1>1 DEF Changed
    <3> HIDE DEF Changed
    <3> QED BY <3>2, <3>3, <3>4
  <2>3. Tried \in NewNames(Src)
    BY <1>3, <1>5
  <2>4. NewDirectoryIsNew'
    BY <2>1, <2>2, <2>3, <1>1, <1>7 DEF NewDirectoryIsNew, Src
  <2> QED BY <2>4, <1>2, <1>6, <1>7 DEF Honest
<1>8. CASE /\ fs[Tried] # Nothing /\ UNCHANGED <<fs, status>> /\ top.count # Len(Numbered)
           /\ calls' = <<[top EXCEPT !.count = @ + 1]>>
  <2>1. top'.count = top.count + 1
    BY <1>3, <1>8 DEF top, CallRecord
  <2>2. ASSUME NEW k \in DOMAIN Numbered, k < top.count + 1 \/ k = 1
        PROVE  fs[Append(Src, Numbered[k])] # Nothing
    <3>1. k <= top.count \/ (k = 1 /\ top.count = 0)
      BY <2>2, <1>3, <1>5
    <3> QED BY <3>1, <1>1, <1>8, TriedNames
  <2>3. Naming'
    BY <2>1, <2>2, <1>1, <1>4, <1>8 DEF Naming, Src
  <2> QED BY <2>3, <1>1, <1>2, <1>3, <1>8
      DEF Honest, SingleUnderway, NewDirectoryIsNew, LinkIsHonest, DeleteIsHonest
<1>9. ASSUME UNCHANGED fs, status' = "done", answer' = "none",
             ~\E p \in NewNames(Src) : Fresh(fs, p)
      PROVE  Honest'
  <2>1. Changed' = {}
    BY <1>1, <1>4, <1>9 DEF Changed, Naming
  <2>2. NewDirectoryIsNew'
    BY <2>1, <1>1, <1>9 DEF NewDirectoryIsNew, Src
  <2> QED BY <2>2, <1>2, <1>6, <1>9 DEF Honest
<1>10. CASE /\ fs[Tried] # Nothing /\ UNCHANGED fs /\ top.count = Len(Numbered)
            /\ status' = "done" /\ answer' = "none"
  <2>1. ASSUME NEW k \in DOMAIN Numbered
        PROVE  ~Fresh(fs, Append(Src, Numbered[k]))
    <3>1. k <= top.count
      BY <1>5, <1>10
    <3>2. fs[Append(Src, Numbered[k])] # Nothing
      BY <3>1, <1>1, <1>10, TriedNames
    <3> QED BY <3>2 DEF Fresh
  <2> QED BY <2>1, <1>5, <1>9, <1>10
<1>11. CASE fs[top.src] # Dir /\ UNCHANGED fs /\ status' = "done" /\ answer' = "none"
  <2>1. ASSUME NEW k \in DOMAIN Numbered
        PROVE  ~Fresh(fs, Append(Src, Numbered[k]))
    <3>1. Parent(Append(Src, Numbered[k])) = Src
      BY <1>3, <1>5, PrefixOfChild
    <3> QED BY <3>1, <1>3, <1>11 DEF Fresh
  <2> QED BY <2>1, <1>5, <1>9, <1>11
<1> QED BY <1>1, <1>7, <1>8, <1>10, <1>11

(* What may be at the path of a link differs in kind; only one is a link   *)
(* before the command.                                                     *)
LEMMA LinkKinds ==
  /\ Nothing # Absent /\ Dir # Absent /\ Nothing # Blocked /\ Dir # Blocked
  /\ Absent.kind # "link" /\ Blocked.kind # "link"
  /\ \A d : File(d) \notin {Absent, Blocked, Nothing} /\ File(d).kind # "link"
  /\ \A x \in Linked : x.kind = "link" => x = OldLink
<1>1. Nothing.kind = "nothing" /\ Dir.kind = "dir" /\ Absent.kind = "absent"
      /\ Blocked.kind = "blocked"
  BY DEF Nothing, Dir, Absent, Blocked
<1>2. \A d : File(d).kind = "file"
  BY DEF File
<1> QED BY <1>1, <1>2 DEF Linked

LEMMA LinkMade ==
  ASSUME MakeLink, top.src = Src, UNCHANGED command
  PROVE  (status' = "running" => Linking') /\ LinkIsHonest'
<1>1. link' = LinkTo(Src) /\ status' = "done" /\ answer' = "success" /\ Src' = Src
  BY DEF MakeLink, Finish, Src
<1>2. Shown(LinkTo(Src)) = Src
  BY DEF Shown, LinkTo
<1> QED BY <1>1, <1>2 DEF LinkIsHonest, Relinked

LEMMA LinkFailed ==
  ASSUME Finish("failed"), link'.kind = "link" => link' = OldLink,
         faults' = 0 => link' \in {Blocked, Dir, File(Foreign)}
  PROVE  (status' = "running" => Linking') /\ LinkIsHonest'
<1>1. status' = "done" /\ answer' = "failed"
  BY DEF Finish
<1>2. Shown(link') \in {Shown(OldLink), NoLink}
  BY DEF Shown
<1> QED BY <1>1, <1>2 DEF LinkIsHonest, Relinked

(* A call that was refused leaves no link but the old one.                 *)
LEMMA Refusal ==
  ASSUME Linking, faults \in Nat, Fault, Finish("failed"), UNCHANGED link
  PROVE  (status' = "running" => Linking') /\ LinkIsHonest'
<1>1. faults' # 0
  BY DEF Fault
<1>2. link.kind = "link" => link = OldLink
  BY LinkKinds DEF Linking
<1> QED BY <1>1, <1>2, LinkFailed

LEMMA HonestLink ==
  Honest /\ (LinkDirectory \/ Symlink \/ UnlinkOld \/ SymlinkAgain \/ AddAtLink) => Honest'
<1> SUFFICES ASSUME Honest, LinkDirectory \/ Symlink \/ UnlinkOld \/ SymlinkAgain \/ AddAtLink
             PROVE  Honest'
  OBVIOUS
<1>1. Sound /\ Sound' /\ UNCHANGED <<command, foreign>> /\ status = "running" /\ status' # "idle"
  BY SoundLink
     DEF Honest, LinkDirectory, Symlink, MakeLink, UnlinkOld, SymlinkAgain, AddAtLink, At, Finish
<1>2. command.type = "link" /\ top.src = Src /\ top \in CallRecord
  <2>1. CASE AddAtLink
    <3>1. command.type = "link"
      BY <2>1 DEF AddAtLink
    <3> QED BY <3>1, <1>1, RunningTop DEF Sound, StackSound, SingleCall, Transfer
  <2>2. CASE ~AddAtLink
    <3>1. top.fn = "link"
      BY <2>2 DEF LinkDirectory, Symlink, UnlinkOld, SymlinkAgain, At
    <3> QED BY <3>1, <1>1, SingleTop, RunningTop DEF SingleCall
  <2> QED BY <2>1, <2>2
<1>3. Linking /\ faults \in Nat
  BY <1>1, <1>2 DEF Honest, SingleUnderway, Sound, TypeOK
<1>4. ASSUME NEW at, Go(at)
      PROVE  top'.at = at
  BY <1>2, <1>4 DEF Go, top, CallRecord
<1>5. (status' = "running" => Linking') /\ LinkIsHonest'
  <2>1. CASE LinkDirectory
    <3>1. /\ top.at = "stat" /\ top'.at = "symlink" /\ UNCHANGED status
          /\ \/ link' = Nothing /\ link = Absent
             \/ link' = link /\ link # Absent
             \/ link' = link /\ faults' = faults + 1
      BY <2>1, <1>4 DEF LinkDirectory, At, Fault
    <3>2. faults' = 0 => link' # Absent
      BY <3>1, <1>3, LinkKinds
    <3>3. link' \in Linked \cup {File(Foreign)}
      BY <3>1, <1>3 DEF Linking, Linked
    <3> QED BY <3>1, <3>2, <3>3, <1>1 DEF Linking, LinkIsHonest
  <2>2. CASE Symlink
    <3>1. CASE MakeLink
      BY <3>1, <1>1, <1>2, LinkMade
    <3>2. CASE link \in {Absent, Blocked} /\ Finish("failed") /\ UNCHANGED <<link, faults>>
      <4>1. faults' = 0 => link' = Blocked
        BY <3>2, <2>2, <1>3 DEF Linking, Symlink, At
      <4> QED BY <4>1, <3>2, LinkKinds, LinkFailed
    <3>3. CASE link \notin {Absent, Blocked, Nothing} /\ Go("unlink")
               /\ UNCHANGED <<link, faults, status, answer>>
      BY <3>3, <1>1, <1>3, <1>4 DEF Linking, LinkIsHonest
    <3>4. CASE Fault /\ Finish("failed") /\ UNCHANGED link
      BY <3>4, <1>3, Refusal
    <3> QED BY <2>2, <3>1, <3>2, <3>3, <3>4 DEF Symlink
  <2>3. CASE UnlinkOld
    <3>1. top.at = "unlink" /\ top'.at = "again" /\ UNCHANGED status
      BY <2>3, <1>4 DEF UnlinkOld, At
    <3>2. CASE link' \in {Nothing, Dir}
      BY <3>1, <3>2, <1>1, LinkKinds DEF Linking, LinkIsHonest, Linked
    <3>3. CASE Fault /\ UNCHANGED link
      <4>1. faults' # 0
        BY <3>3, <1>3 DEF Fault
      <4> QED BY <3>1, <3>3, <4>1, <1>1, <1>3 DEF Linking, LinkIsHonest
    <3> QED BY <2>3, <3>2, <3>3 DEF UnlinkOld
  <2>4. CASE SymlinkAgain
    <3>1. CASE MakeLink
      BY <3>1, <1>1, <1>2, LinkMade
    <3>2. CASE link # Nothing /\ Finish("failed") /\ UNCHANGED <<link, faults>>
      <4>1. /\ faults = 0 => link \in {Dir, File(Foreign)}
            /\ link.kind = "link" => link = OldLink
        BY <3>2, <2>4, <1>3, LinkKinds DEF Linking, SymlinkAgain, At
      <4> QED BY <4>1, <3>2, LinkFailed
    <3>3. CASE Fault /\ Finish("failed") /\ UNCHANGED link
      BY <3>3, <1>3, Refusal
    <3> QED BY <2>4, <3>1, <3>2, <3>3 DEF SymlinkAgain
  <2>5. CASE AddAtLink
    <3>1. link' = File(Foreign) /\ UNCHANGED <<calls, status, faults>>
      BY <2>5 DEF AddAtLink
    <3> QED BY <3>1, <1>1, LinkKinds DEF Linking, LinkIsHonest, top
  <2> QED BY <2>1, <2>2, <2>3, <2>4, <2>5
<1> QED BY <1>1, <1>2, <1>5 DEF Honest, SingleUnderway, NewDirectoryIsNew, DeleteIsHonest

(* A delete.                                                               *)
LEMMA HonestRemove ==
  Honest /\ (RemovePath \/ RemoveNext \/ RemoveFails) => Honest'
<1> SUFFICES ASSUME Honest, RemovePath \/ RemoveNext \/ RemoveFails
             PROVE  Honest'
  OBVIOUS
<1>1. /\ Sound /\ Sound' /\ UNCHANGED <<command, foreign, before>> /\ status = "running"
      /\ status' # "idle" /\ top.fn = "remove" /\ fs \in [Path -> Node] /\ IsTree(fs)
  BY SoundRemove
     DEF Honest, RemovePath, RemoveNext, RemoveFails, At, Succeed, Fail, Finish,
         Sound, TypeOK, WellFormed
<1>2. CASE command.type \in Transfer
  BY <1>1, <1>2, HonestTransfer
<1>3. CASE command.type \notin Transfer
  <2>1. /\ command.type = "delete" /\ top.src = Src /\ Len(calls) = 1 /\ Src \in Path
        /\ top \in CallRecord /\ calls # << >>
    <3>1. command.type = "delete" /\ Src \in Path /\ top \in CallRecord /\ calls # << >>
      BY <1>1, <1>3, RemoveTop, RunningTop DEF Transfer
    <3> QED BY <3>1, <1>1, <1>3 DEF Sound, StackSound, SingleCall
  <2>2. /\ top.at = "stat" => before[Src] = Nothing \/ fs[Src] # Nothing
        /\ top.at = "nftw" => fs[Src] # Nothing
    BY <1>1, <2>1 DEF Honest, SingleUnderway, Deleting
  <2>3. ASSUME UNCHANGED fs, Fail, before[Src] = Nothing \/ fs[Src] # Nothing
        PROVE  Honest'
    BY <1>1, <2>1, <2>3
       DEF Honest, Fail, Finish, SingleUnderway, NewDirectoryIsNew, LinkIsHonest, DeleteIsHonest, Src
  <2>4. ASSUME fs' = [fs EXCEPT ![Src] = Nothing], Succeed
        PROVE  Honest'
    <3>1. fs'[Src] = Nothing /\ status' = "done" /\ answer' = "success"
      BY <1>1, <2>1, <2>4 DEF Succeed, Finish
    <3> QED BY <1>1, <2>1, <3>1
            DEF Honest, SingleUnderway, NewDirectoryIsNew, LinkIsHonest, DeleteIsHonest, Src
  <2>5. ASSUME fs'[Src] # Nothing, UNCHANGED status
        PROVE  Honest'
    BY <1>1, <2>1, <2>5
       DEF Honest, SingleUnderway, Deleting, NewDirectoryIsNew, LinkIsHonest, DeleteIsHonest, Src
  <2>6. CASE RemovePath
    <3>1. CASE Children(fs, top.src) # {} /\ UNCHANGED <<fs, status, answer>>
      <4>1. fs[Src] # Nothing
        BY <1>1, <2>1, <3>1, OnlyDirsHaveChildren, NodeKinds
      <4> QED BY <3>1, <4>1, <2>5
    <3> QED BY <2>1, <2>2, <2>3, <2>4, <2>6, <3>1 DEF RemovePath, At
  <2>7. CASE RemoveNext
    <3>1. PICK p \in Under(Src) :
            /\ fs' = [fs EXCEPT ![p] = Nothing]
            /\ IF p = Src THEN Succeed ELSE UNCHANGED <<calls, status, answer>>
      BY <2>1, <2>7 DEF RemoveNext
    <3>2. CASE p = Src
      BY <3>1, <3>2, <2>4
    <3>3. CASE p # Src
      <4>1. fs[Src] # Nothing
        BY <2>2, <2>7 DEF RemoveNext, At
      <4>2. fs'[Src] = fs[Src]
        BY <3>1, <3>3, <1>1, <2>1
      <4> QED BY <3>1, <3>3, <4>1, <4>2, <2>5
    <3> QED BY <3>2, <3>3
  <2>8. CASE RemoveFails
    BY <2>2, <2>3, <2>8 DEF RemoveFails, At
  <2> QED BY <2>6, <2>7, <2>8
<1> QED BY <1>2, <1>3

LEMMA HonestAddForeign == Honest /\ AddForeign => Honest'
<1> SUFFICES ASSUME Honest, AddForeign
             PROVE  Honest'
  OBVIOUS
<1>1. PICK p \in Path : fs' = [fs EXCEPT ![p] = File(Foreign)] /\ foreign' = foreign \cup {p}
  BY DEF AddForeign
<1>2. /\ UNCHANGED <<command, status, before, calls>> /\ status = "running"
      /\ command.type # "link" /\ Sound /\ Sound' /\ fs \in [Path -> Node]
      /\ Src \in Path /\ foreign \subseteq Path
  BY SoundAddForeign, RunningTop DEF AddForeign, Honest, Sound, TypeOK
<1>3. \A q \in Path : fs[q] # Nothing => fs'[q] # Nothing
  BY <1>1, <1>2, NodeKinds
<1>4. (\A q \in Path \ foreign' : fs'[q] = fs[q]) /\ fs'[p] # Nothing
  BY <1>1, <1>2, NodeKinds
<1>5. command.type = "mkdir" => Naming'
  <2> SUFFICES ASSUME command.type = "mkdir"
               PROVE  Naming'
    OBVIOUS
  <2>1. Naming /\ Len(Src) < Depth
    BY <1>2, CommandTypes, RunningTop DEF Honest, SingleUnderway, Src
  <2>2. \A k \in DOMAIN Numbered : Append(Src, Numbered[k]) \in Path
    BY <1>2, <2>1, AppendPath, NumberedAssumption, ElementOfSeq, LenProperties
  <2>3. (\A q \in foreign' : fs'[q] # Nothing) /\ (\A q \in Path \ foreign' : fs'[q] = before'[q])
    BY <1>1, <1>2, <1>3, <1>4, <2>1 DEF Naming
  <2>4. top' = top /\ Src' = Src
    BY <1>2 DEF top, Src
  <2>5. ASSUME NEW k \in DOMAIN Numbered, k < top.count \/ (k = 1 /\ top.count > 0)
        PROVE  fs'[Append(Src, Numbered[k])] # Nothing
    BY <1>3, <2>1, <2>2, <2>5 DEF Naming
  <2> QED BY <2>3, <2>4, <2>5 DEF Naming
<1>6. command.type = "delete" => Deleting'
  <2> SUFFICES ASSUME command.type = "delete"
               PROVE  Deleting'
    OBVIOUS
  <2>1. Deleting /\ top' = top /\ Src' = Src
    BY <1>2 DEF Honest, SingleUnderway, top, Src
  <2> QED BY <2>1, <1>2, <1>3 DEF Deleting
<1> QED BY <1>2, <1>5, <1>6
        DEF Honest, SingleUnderway, NewDirectoryIsNew, LinkIsHonest, DeleteIsHonest

LEMMA HonestReceive == Honest /\ Receive => Honest'
<1> SUFFICES ASSUME Honest, Receive
             PROVE  Honest'
  OBVIOUS
<1>1. PICK c \in Commands :
        /\ status = "idle" /\ command' = c /\ before' = fs /\ foreign' = foreign
        /\ ByRename(c) \/ Refused(c) \/ Chmod(c) \/ ByCall(c)
        /\ link' \in IF c.type = "link" THEN Linked ELSE {Nothing}
  BY DEF Receive
<1>2. Sound' /\ foreign' = {}
  BY <1>1, SoundReceive DEF Honest
<1>3. CASE ByRename(c) \/ Refused(c) \/ Chmod(c)
  <2>1. c.type \in {"rename", "move", "copy", "chmod"} /\ status' = "done"
    BY <1>3 DEF ByRename, Refused, Chmod, Finish
  <2> QED BY <2>1, <1>1, <1>2
          DEF Honest, SingleUnderway, NewDirectoryIsNew, LinkIsHonest, DeleteIsHonest
<1>4. CASE ByCall(c)
  <2>1. /\ status' = "running" /\ UNCHANGED fs
        /\ \E fn : /\ fn \in {"mkdir", "link", "move", "copy", "remove"}
                   /\ \E dst \in Path : calls' = <<Call(fn, c.src, dst)>>
    BY <1>4, CommandTypes DEF ByCall
  <2>2. top'.at = "stat" /\ top'.count = 0
    BY <2>1 DEF top, Call
  <2>3. /\ c.type = "mkdir" => Naming'
        /\ c.type = "link" => Linking'
        /\ c.type = "delete" => Deleting'
    <3>1. c.type = "mkdir" => Naming'
      <4>1. \A k \in DOMAIN Numbered : ~(k < top'.count \/ (k = 1 /\ top'.count > 0))
        BY <2>2, NumberedAssumption, LenProperties
      <4> QED BY <4>1, <1>1, <1>2, <2>1 DEF Naming
    <3>2. c.type = "link" => Linking'
      BY <1>1, <2>2 DEF Linking
    <3>3. c.type = "delete" => Deleting'
      BY <1>1, <2>1, <2>2 DEF Deleting
    <3> QED BY <3>1, <3>2, <3>3
  <2> QED BY <2>1, <2>3, <1>1, <1>2
          DEF Honest, SingleUnderway, NewDirectoryIsNew, LinkIsHonest, DeleteIsHonest
<1> QED BY <1>1, <1>3, <1>4

LEMMA HonestNext == Honest /\ [Next]_vars => Honest'
<1> SUFFICES ASSUME Honest, [Next]_vars
             PROVE  Honest'
  OBVIOUS
<1>1. Sound /\ Sound'
  BY SoundNext DEF Honest
<1>2. CASE Stat \/ Mkdir \/ ListEntry \/ ListEnd \/ Open \/ Write \/ Unlink
  <2>1. /\ status = "running" /\ top.fn \in Transfer /\ command' = command
        /\ status' # "idle"
    BY <1>2 DEF Stat, Mkdir, ListEntry, ListEnd, Open, Write, Written, Unlink, At, Transfer,
                Succeed, Fail, Go, Finish
  <2>2. command.type \in Transfer
    BY <2>1, <1>1, TransferTop
  <2> QED BY <2>1, <2>2, <1>1, HonestTransfer
<1>3. CASE UNCHANGED vars
  BY <1>1, <1>3
     DEF vars, Honest, SingleUnderway, Naming, Linking, Deleting, NewDirectoryIsNew, LinkIsHonest,
         DeleteIsHonest, Changed, top, Src
<1> QED BY <1>2, <1>3, HonestReceive, HonestMakeDirectory, HonestLink, HonestRemove, HonestAddForeign
        DEF Next, BackEnd

LEMMA HonestAlways == Spec => []Honest
<1>1. Init => Honest
  BY SoundInit
     DEF Init, Honest, SingleUnderway, NewDirectoryIsNew, LinkIsHonest, DeleteIsHonest
<1> QED BY <1>1, HonestNext, PTL DEF Spec

(* Whatever other processes add while it looks for a name, "New directory" *)
(* creates exactly one directory where nothing was, or there was none it   *)
(* could have created.                                                     *)
THEOREM NewDirectories == Spec => []NewDirectoryIsNew
<1>1. Honest => NewDirectoryIsNew
  BY DEF Honest
<1> QED BY <1>1, HonestAlways, PTL

(* "Add to favorites" is answered with success only if the link leads      *)
(* where it should, also when another process takes its place or a call    *)
(* of it is refused; without such a refusal it fails only where something  *)
(* is in the way, and no failure leaves another link than the old one.     *)
THEOREM LinksAreHonest == Spec => []LinkIsHonest
<1>1. Honest => LinkIsHonest
  BY DEF Honest
<1> QED BY <1>1, HonestAlways, PTL

(* A delete that is answered with success has removed all of it, and one   *)
(* that is not answered has left something.                                *)
THEOREM DeletesAreHonest == Spec => []DeleteIsHonest
<1>1. Honest => DeleteIsHonest
  BY DEF Honest
<1> QED BY <1>1, HonestAlways, PTL

-----------------------------------------------------------------------------
(* What becomes of the files of a move or a copy.                          *)

Carrying == status = "running" /\ command.type \in Transfer /\ faults = 0 /\ Apart

Carried ==
  /\ Sound /\ before \in [Path -> Node]
  /\ status = "idle" => faults = 0 /\ command = NoCommand
  /\ status # "idle" => Fits(before, Src, Dst)
  /\ Carrying => Transferring
  /\ MoveKeepsFiles
  /\ status = "done" /\ answer = "success" /\ command.type \in Transfer /\ faults = 0 /\ Apart
     => \A p \in Files : Arrived(p)

(* Reached, for a call c that is innermost, in the tree t.                 *)
Listed(c, t, p) ==
  LET n == p[Len(c.src) + 1]
  IN  /\ p # c.src
      /\ IF n \in c.seen THEN t[Rebased(p, Src, Dst)] = before[p]
         ELSE n \in c.must /\ t[p] = before[p]

ReachedBy(c, t, p) ==
  IF c.fn = "remove" \/ c.at = "unlink" THEN t[Rebased(p, Src, Dst)] = before[p]
  ELSE IF c.at = "list" THEN Listed(c, t, p)
  ELSE /\ t[p] = before[p] /\ c.seen = {}
       /\ c.at = "mkdir" => p # c.src
       /\ c.at = "write" => p = c.src /\ before[p] = File(c.data)

(* A step takes nothing from what is known of p.                           *)
Kept(p) ==
  /\ fs[p] = before[p] => fs'[p] = before[p]
  /\ fs[Rebased(p, Src, Dst)] = before[p] => fs'[Rebased(p, Src, Dst)] = before[p]

LEMMA FilePaths ==
  ASSUME Carried, Carrying, NEW p \in Files
  PROVE  /\ p \in Path /\ IsPrefix(Src, p) /\ before[p] \in Node
         /\ before[p] # Nothing /\ before[p] # Dir
         /\ Rebased(p, Src, Dst) \in Path /\ IsPrefix(Dst, Rebased(p, Src, Dst))
<1>1. p \in Path /\ IsPrefix(Src, p) /\ before[p] \in Node /\ before[p] # Nothing /\ before[p] # Dir
  BY DEF Files, Under, Carried
<1>2. Src \in Path /\ Dst \in Path /\ Fits(before, Src, Dst)
  BY RunningTop DEF Carried, Carrying
<1>3. Len(Rebased(p, Src, Dst)) <= Depth
  BY <1>1, <1>2 DEF Fits, Under
<1> QED BY <1>1, <1>2, <1>3, RebasedPath

LEMMA PlacesApart ==
  ASSUME Carried, Carrying, NEW p \in Path, NEW q \in Path, IsPrefix(Src, p), IsPrefix(Dst, q)
  PROVE  p # q
<1>1. Src \in Path /\ Dst \in Path /\ Apart
  BY RunningTop DEF Carried, Carrying
<1>2. ASSUME p = q
      PROVE  IsPrefix(Src, Dst) \/ IsPrefix(Dst, Src)
  <2>1. Len(Src) <= Len(Dst) \/ Len(Dst) <= Len(Src)
    BY <1>1, PathTypes, DepthAssumption
  <2> QED BY <1>1, <1>2, <2>1, PrefixesComparable
<1> QED BY <1>1, <1>2 DEF Apart

LEMMA NewPlacesApart ==
  ASSUME Carried, Carrying, NEW p \in Files, NEW q \in Path, IsPrefix(Src, q),
         Rebased(p, Src, Dst) = Rebased(q, Src, Dst)
  PROVE  p = q
<1>1. Src \in Path /\ Dst \in Path
  BY RunningTop DEF Carried, Carrying
<1> QED BY <1>1, FilePaths, RebasedApart

(* What is put below the destination hides no file of the source, and one  *)
(* that has arrived only at its own place.                                 *)
LEMMA PutKeeps ==
  ASSUME Carried, Carrying, NEW x \in Path, IsPrefix(Dst, x), NEW v, fs' = [fs EXCEPT ![x] = v],
         NEW p \in Files
  PROVE  /\ fs'[p] = fs[p]
         /\ Rebased(p, Src, Dst) # x => Kept(p)
         /\ Rebased(p, Src, Dst) = x => fs'[Rebased(p, Src, Dst)] = v
<1>1. fs \in [Path -> Node]
  BY DEF Carried, Sound, TypeOK
<1>2. p \in Path /\ IsPrefix(Src, p) /\ Rebased(p, Src, Dst) \in Path
  BY FilePaths
<1>3. p # x
  BY <1>2, PlacesApart
<1> QED BY <1>1, <1>2, <1>3 DEF Kept

LEMMA TakeKeeps ==
  ASSUME Carried, Carrying, NEW x \in Path, IsPrefix(Src, x), fs' = [fs EXCEPT ![x] = Nothing],
         NEW p \in Files
  PROVE  /\ p # x => Kept(p)
         /\ fs'[Rebased(p, Src, Dst)] = fs[Rebased(p, Src, Dst)]
<1>1. fs \in [Path -> Node]
  BY DEF Carried, Sound, TypeOK
<1>2. /\ p \in Path /\ Rebased(p, Src, Dst) \in Path /\ IsPrefix(Dst, Rebased(p, Src, Dst))
  BY FilePaths
<1>3. Rebased(p, Src, Dst) # x
  BY <1>2, PlacesApart
<1> QED BY <1>1, <1>2, <1>3 DEF Kept

(* What is below a call is below the entry its caller listed last.         *)
LEMMA BelowEntry ==
  \A q \in Seq(CallRecord) : \A i \in DOMAIN q : \A p \in Path :
    /\ i > 1 /\ i - 1 \in DOMAIN q /\ IsPrefix(q[i - 1].src, p)
    /\ \E n \in q[i].seen : q[i - 1].src = Append(q[i].src, n)
    => p # q[i].src /\ p[Len(q[i].src) + 1] \in q[i].seen /\ IsPrefix(q[i].src, p)
<1> SUFFICES ASSUME NEW q \in Seq(CallRecord), NEW i \in DOMAIN q, NEW p \in Path,
                    i > 1, i - 1 \in DOMAIN q, IsPrefix(q[i - 1].src, p),
                    NEW n \in q[i].seen, q[i - 1].src = Append(q[i].src, n)
             PROVE  p # q[i].src /\ p[Len(q[i].src) + 1] \in q[i].seen /\ IsPrefix(q[i].src, p)
  OBVIOUS
<1>1. q[i] \in CallRecord /\ q[i - 1] \in CallRecord
  BY StackTop, EmptySeq
<1> DEFINE a == q[i].src
<1>2. a \in Path /\ n \in Names /\ Append(a, n) \in Path
  BY <1>1 DEF CallRecord
<1>3. IsPrefix(Append(a, n), p)
  OBVIOUS
<1> HIDE DEF a
<1>4. Len(a) < Depth
  <2>1. Len(Append(a, n)) <= Depth /\ a \in Seq(Names) /\ Len(a) \in Nat
    <3>1. a \in Seq(Names) /\ Len(a) \in Nat
      BY <1>2, PathIsSequence, LenProperties
    <3> DEFINE b == Append(a, n)
    <3>2. b \in Path
      BY <1>2
    <3> HIDE DEF b
    <3>3. Len(b) <= Depth
      BY <3>2, PathIsSequence
    <3> QED BY <3>1, <3>3 DEF b
  <2>2. Len(Append(a, n)) = Len(a) + 1
    BY <2>1, <1>2, AppendProperties
  <2> QED BY <2>1, <2>2, DepthAssumption
<1>5. IsPrefix(a, p) /\ a # p /\ p[Len(a) + 1] = n
  BY <1>2, <1>3, <1>4, PrefixOfChild
<1> QED BY <1>5 DEF a

LEMMA ReachedTop ==
  ASSUME Carried, Carrying, NEW p \in Files, IsPrefix(top.src, p)
  PROVE  ReachedBy(top, fs, p)
<1>1. Transferring /\ 1 \in DOMAIN calls /\ top = calls[1]
  BY RunningTop, StackTop DEF Carried, Carrying
<1>2. Reached(1, p)
  BY <1>1 DEF Transferring
<1>3. ~(1 > 1)
  OBVIOUS
<1> QED BY <1>1, <1>2, <1>3, Zenon DEF Reached, ReachedBy, Listed, Arrived

LEMMA ListedNow ==
  ASSUME Carried, Carrying, NEW i \in DOMAIN calls, calls[i].fn # "remove", calls[i].at = "list",
         NEW p \in Files, IsPrefix(calls[i].src, p),
         i > 1 => ~IsPrefix(calls[i - 1].src, p)
  PROVE  Listed(calls[i], fs, p)
<1>1. Reached(i, p)
  BY DEF Transferring, Carried
<1> QED BY <1>1 DEF Reached, Listed, Arrived

(* What there is to show when a step changes the stack.                    *)
LEMMA CarriedStack ==
  ASSUME Carried, Carrying, Sound', status' = "running", UNCHANGED <<command, before>>,
         \A p \in Files : fs'[p] = before[p] \/ fs'[Rebased(p, Src, Dst)] = before[p],
         \A p \in Files : IsPrefix(calls'[1].src, p) => ReachedBy(calls'[1], fs', p),
         \A i \in DOMAIN calls' : i > 1 => \A p \in Files :
           IsPrefix(calls'[i].src, p) /\ ~IsPrefix(calls'[i - 1].src, p) => Listed(calls'[i], fs', p)
  PROVE  Transferring'
<1>1. /\ calls' \in Seq(CallRecord) /\ calls' # << >> /\ Chain' /\ command.type \in Transfer
  BY DEF Carrying, Sound, TypeOK, StackSound
<1>2. DOMAIN calls' = 1..Len(calls') /\ Len(calls') \in Nat
  BY <1>1, StackTop
<1>3. Files' = Files /\ Src' = Src /\ Dst' = Dst
  BY DEF Files, Src, Dst
<1>4. ASSUME NEW p \in Files, IsPrefix(calls'[1].src, p)
      PROVE  Reached(1, p)'
  <2>1. ReachedBy(calls'[1], fs', p) /\ ~(1 > 1)
    BY <1>4
  <2> QED BY <2>1, <1>3, Zenon DEF Reached, ReachedBy, Listed, Arrived
<1>5. ASSUME NEW i \in DOMAIN calls', i > 1, NEW p \in Files, IsPrefix(calls'[i].src, p)
      PROVE  Reached(i, p)'
  <2>1. /\ calls'[i].at = "list" /\ calls'[i].fn = command.type
        /\ \E n \in calls'[i].seen : calls'[i - 1].src = Append(calls'[i].src, n)
    BY <1>1, <1>5 DEF Chain
  <2>2. calls'[i].fn # "remove" /\ calls'[i].at # "unlink"
    BY <2>1, <1>1 DEF Transfer
  <2>3. CASE IsPrefix(calls'[i - 1].src, p)
    <3>1. i - 1 \in DOMAIN calls' /\ p \in Path
      BY <1>2, <1>5, FilePaths
    <3>2. p # calls'[i].src /\ p[Len(calls'[i].src) + 1] \in calls'[i].seen
      BY <1>1, <1>5, <2>1, <2>3, <3>1, BelowEntry
    <3> QED BY <2>1, <2>2, <2>3, <3>2, <1>5 DEF Reached
  <2>4. CASE ~IsPrefix(calls'[i - 1].src, p)
    <3>1. Listed(calls'[i], fs', p)
      BY <1>5, <2>4
    <3> QED BY <2>1, <2>2, <3>1, <1>3 DEF Reached, Listed, Arrived
  <2> QED BY <2>3, <2>4
<1>6. \A i \in DOMAIN calls' : i = 1 \/ i > 1
  BY <1>2
<1> QED BY <1>3, <1>4, <1>5, <1>6 DEF Transferring, Arrived

LEMMA ListedStill ==
  ASSUME NEW c, NEW p, Kept(p), Listed(c, fs, p)
  PROVE  Listed(c, fs', p)
BY DEF Kept, Listed

(* The innermost call goes on.                                             *)
LEMMA CarriedTop ==
  ASSUME Carried, Carrying, Sound', status' = "running", UNCHANGED <<command, before>>,
         NEW c \in CallRecord, calls' = <<c>> \o Tail(calls), c.src = top.src,
         (c.fn = top.fn /\ c.dst = top.dst) \/ (c.fn = "remove" /\ command.type = "move"),
         \A p \in Files : ~IsPrefix(top.src, p) => Kept(p),
         \A p \in Files : IsPrefix(top.src, p) => ReachedBy(c, fs', p)
  PROVE  Transferring'
<1>1. Sound /\ Transferring /\ Chain
  BY DEF Carried, Carrying, Sound, StackSound
<1>2. /\ calls'[1] = c /\ DOMAIN calls' = DOMAIN calls
      /\ \A i \in DOMAIN calls : i > 1 => calls'[i] = calls[i]
  BY <1>1, ReplacedChain DEF Carrying
<1>3. /\ calls \in Seq(CallRecord) /\ top = calls[1] /\ DOMAIN calls = 1..Len(calls)
      /\ Len(calls) \in Nat /\ top.src \in Path
  BY <1>1, RunningTop, StackTop DEF Carrying
<1>4. \A i \in DOMAIN calls : calls'[i].src = calls[i].src
  <2>1. \A i \in DOMAIN calls : i = 1 \/ i > 1
    BY <1>3
  <2> QED BY <2>1, <1>2, <1>3
<1>5. \A p \in Files : fs'[p] = before[p] \/ fs'[Rebased(p, Src, Dst)] = before[p]
  BY <1>1 DEF Transferring, Arrived, Kept, ReachedBy, Listed
<1>6. ASSUME NEW i \in DOMAIN calls, i > 1, NEW p \in Files,
             IsPrefix(calls'[i].src, p), ~IsPrefix(calls'[i - 1].src, p)
      PROVE  Listed(calls'[i], fs', p)
  <2>1. i - 1 \in DOMAIN calls /\ 1 \in DOMAIN calls /\ 1 <= i - 1 /\ calls'[i] = calls[i]
    BY <1>2, <1>3, <1>6
  <2>2. calls[i].at = "list" /\ calls[i].fn # "remove"
    BY <1>1, <1>6 DEF Chain, Carrying, Transfer
  <2>3. ~IsPrefix(calls[i - 1].src, p) /\ IsPrefix(calls[i].src, p)
    BY <1>4, <1>6, <2>1
  <2>4. ~IsPrefix(top.src, p)
    <3>1. IsPrefix(calls[i - 1].src, top.src)
      BY <1>1, <1>3, <2>1 DEF Chain
    <3>2. calls[i - 1].src \in Path /\ p \in Path
      <4> DEFINE j == i - 1
      <4>1. j \in DOMAIN calls /\ calls # << >>
        BY <1>3, <2>1
      <4> HIDE DEF j
      <4>2. calls[j] \in CallRecord
        BY <1>3, <4>1, StackTop
      <4> QED BY <4>2, FilePaths DEF CallRecord, j
    <3> QED BY <3>1, <3>2, <2>3, <1>3, PrefixOrder
  <2>5. Listed(calls[i], fs, p)
    BY <1>6, <2>2, <2>3, ListedNow
  <2> QED BY <2>1, <2>4, <2>5, ListedStill
<1>7. \A p \in Files : IsPrefix(calls'[1].src, p) => ReachedBy(calls'[1], fs', p)
  BY <1>2
<1> QED BY <1>2, <1>5, <1>6, <1>7, CarriedStack

(* The innermost call returns 0.                                           *)
LEMMA CarriedPop ==
  ASSUME Carried, Carrying, Sound', Succeed, UNCHANGED <<command, before>>,
         \A p \in Files : ~IsPrefix(top.src, p) => Kept(p),
         \A p \in Files : IsPrefix(top.src, p) => fs'[Rebased(p, Src, Dst)] = before[p]
  PROVE  /\ \A p \in Files : fs'[p] = before[p] \/ fs'[Rebased(p, Src, Dst)] = before[p]
         /\ status' = "running" => Transferring'
         /\ status' = "done" => \A p \in Files : fs'[Rebased(p, Src, Dst)] = before[p]
<1>1. Sound /\ Transferring /\ Chain
  BY DEF Carried, Carrying, Sound, StackSound
<1>2. /\ calls \in Seq(CallRecord) /\ top = calls[1] /\ DOMAIN calls = 1..Len(calls)
      /\ Len(calls) \in Nat /\ top.src \in Path /\ calls # << >>
  BY <1>1, RunningTop, StackTop DEF Carrying
<1>3. \A p \in Files : fs'[p] = before[p] \/ fs'[Rebased(p, Src, Dst)] = before[p]
  BY <1>1 DEF Transferring, Arrived, Kept
<1>4. CASE Len(calls) = 1
  <2>1. top.src = Src
    BY <1>1, <1>2, <1>4 DEF Chain
  <2>2. \A p \in Files : fs'[Rebased(p, Src, Dst)] = before[p]
    BY <2>1, FilePaths
  <2>3. status' = "done"
    BY <1>4 DEF Succeed, Finish
  <2> QED BY <1>3, <2>2, <2>3
<1>5. CASE Len(calls) # 1
  <2>1. calls' = Tail(calls) /\ status' = "running"
    BY <1>5 DEF Succeed, Carrying
  <2>2. /\ calls' \in Seq(CallRecord) /\ Len(calls') = Len(calls) - 1 /\ calls' # << >>
        /\ \A i \in 1..(Len(calls) - 1) : calls'[i] = calls[i + 1]
    BY <2>1, <1>2, <1>5, StackPop
  <2>3. DOMAIN calls' = 1..(Len(calls) - 1)
    BY <2>2, StackTop
  <2>4. ASSUME NEW i \in DOMAIN calls'
        PROVE  /\ calls'[i] = calls[i + 1] /\ i + 1 \in DOMAIN calls /\ i + 1 > 1
               /\ i \in DOMAIN calls /\ (i + 1) - 1 = i
               /\ calls[i + 1].at = "list" /\ calls[i + 1].fn # "remove" /\ calls[i + 1].fn # "unlink"
    <3>1. /\ calls'[i] = calls[i + 1] /\ i + 1 \in DOMAIN calls /\ i + 1 > 1
          /\ i \in DOMAIN calls /\ (i + 1) - 1 = i
      BY <1>2, <2>2, <2>3
    <3> QED BY <3>1, <1>1 DEF Chain, Carrying, Transfer
  <2>5. ASSUME NEW i \in DOMAIN calls', NEW p \in Files,
               IsPrefix(calls'[i].src, p), ~IsPrefix(calls[i].src, p)
        PROVE  Listed(calls'[i], fs', p)
    <3>1. ~IsPrefix(top.src, p)
      <4>1. IsPrefix(calls[i].src, top.src) /\ calls[i].src \in Path /\ p \in Path
        <5>1. 1 \in DOMAIN calls /\ i \in DOMAIN calls /\ 1 <= i
          BY <1>2, <2>2, <2>3, <2>4
        <5> QED BY <5>1, <1>1, <1>2, StackTop, FilePaths DEF Chain, CallRecord
      <4> QED BY <4>1, <2>5, <1>2, PrefixOrder
    <3> DEFINE j == i + 1
    <3>2. /\ calls'[i] = calls[j] /\ j \in DOMAIN calls /\ j - 1 = i
          /\ calls[j].at = "list" /\ calls[j].fn # "remove"
      BY <2>4
    <3> HIDE DEF j
    <3>3. Listed(calls[j], fs, p)
      BY <3>2, <2>5, ListedNow
    <3> QED BY <3>1, <3>2, <3>3, ListedStill
  <2>6. ASSUME NEW i \in DOMAIN calls', i > 1, NEW p \in Files,
               IsPrefix(calls'[i].src, p), ~IsPrefix(calls'[i - 1].src, p)
        PROVE  Listed(calls'[i], fs', p)
    <3> DEFINE j == i - 1
    <3>1. j \in DOMAIN calls' /\ j + 1 = i
      BY <2>3, <2>6, <1>2
    <3>2. calls'[j] = calls[i]
      BY <3>1, <2>4
    <3> QED BY <3>2, <2>5, <2>6
  <2>7. ASSUME NEW p \in Files, IsPrefix(calls'[1].src, p)
        PROVE  ReachedBy(calls'[1], fs', p)
    <3>1. 1 \in DOMAIN calls'
      BY <2>2, <2>3, StackTop
    <3> DEFINE c == calls'[1]
    <3>2. c.at = "list" /\ c.fn # "remove" /\ c = calls[2] /\ 2 \in DOMAIN calls
      BY <3>1, <2>4
    <3>3. CASE ~IsPrefix(top.src, p)
      <4>1. Listed(c, fs', p)
        BY <3>1, <3>3, <2>5, <2>7, <1>2
      <4> HIDE DEF c
      <4> QED BY <3>2, <4>1 DEF ReachedBy, c
    <3>4. CASE IsPrefix(top.src, p)
      <4> PICK k \in DOMAIN calls : k = 2
        BY <3>2
      <4>1. k > 1 /\ k - 1 \in DOMAIN calls /\ k - 1 = 1 /\ p \in Path
        BY <1>2, FilePaths
      <4>2. \E n \in calls[k].seen : calls[k - 1].src = Append(calls[k].src, n)
        BY <1>1, <4>1 DEF Chain
      <4>3. IsPrefix(calls[k - 1].src, p)
        BY <4>1, <3>4, <1>2
      <4>4. p # calls[k].src /\ p[Len(calls[k].src) + 1] \in calls[k].seen
        BY <4>1, <4>2, <4>3, <1>2, BelowEntry
      <4>5. c = calls[k]
        BY <3>2
      <4>6. Listed(c, fs', p)
        BY <4>4, <4>5, <3>4 DEF Listed
      <4> HIDE DEF c
      <4> QED BY <3>2, <4>6 DEF ReachedBy, c
    <3> QED BY <3>3, <3>4
  <2>8. Transferring'
    BY <1>3, <2>1, <2>6, <2>7, CarriedStack
  <2> QED BY <1>3, <2>1, <2>8
<1> QED BY <1>4, <1>5

(* What a step of a transfer has to show.                                  *)
CarriedResult ==
  /\ status' = "running" => Transferring'
  /\ \A p \in Files : fs'[p] = before[p] \/ fs'[Rebased(p, Src, Dst)] = before[p]
  /\ status' = "done" /\ answer' = "success" =>
       \A p \in Files : fs'[Rebased(p, Src, Dst)] = before[p]

LEMMA CarriedBy ==
  ASSUME Carried, Sound', status = "running", status' \in {"running", "done"},
         UNCHANGED <<command, before>>, faults' = 0 => faults = 0,
         Carrying /\ faults' = 0 => CarriedResult
  PROVE  Carried'
<1>1. command.type \in {"delete", "mkdir", "link", "move", "copy"} /\ status' # "idle"
  BY RunningType DEF Carried
<1>2. /\ Files' = Files /\ Src' = Src /\ Dst' = Dst /\ Apart' = Apart
      /\ \A p \in Files : Arrived(p)' <=> fs'[Rebased(p, Src, Dst)] = before[p]
  BY DEF Files, Src, Dst, Apart, Arrived
<1>3. command.type \in Transfer /\ faults' = 0 /\ Apart => CarriedResult
  BY DEF Carrying
<1>4. Carrying' => Transferring'
  BY <1>2, <1>3 DEF Carrying, CarriedResult
<1>5. MoveKeepsFiles'
  BY <1>1, <1>2, <1>3 DEF MoveKeepsFiles, CarriedResult, Transfer
<1>6. status' = "done" /\ answer' = "success" /\ command.type \in Transfer /\ faults' = 0 /\ Apart
      => \A p \in Files : Arrived(p)'
  BY <1>2, <1>3 DEF CarriedResult
<1>7. before' \in [Path -> Node] /\ Fits(before', Src', Dst')
  BY <1>2 DEF Carried
<1> QED BY <1>1, <1>2, <1>4, <1>5, <1>6, <1>7 DEF Carried

(* Commands of other types.                                                *)
LEMMA CarriedOther ==
  ASSUME Carried, Sound', status = "running", status' \in {"running", "done"},
         UNCHANGED <<command, before>>, faults' = 0 => faults = 0,
         command.type \notin Transfer
  PROVE  Carried'
BY CarriedBy DEF Carrying

LEMMA CarriedFail ==
  ASSUME Carried, Carrying, Fail, UNCHANGED <<fs, command>>
  PROVE  CarriedResult
<1>1. Transferring
  BY DEF Carried
<1> QED BY <1>1 DEF Transferring, Arrived, CarriedResult, Fail, Finish, Carrying, Transfer

LEMMA CarriedSucceed ==
  ASSUME Carried, Carrying, Sound', Succeed, UNCHANGED <<command, before>>,
         \A p \in Files : ~IsPrefix(top.src, p) => Kept(p),
         \A p \in Files : IsPrefix(top.src, p) => fs'[Rebased(p, Src, Dst)] = before[p]
  PROVE  CarriedResult
<1> HIDE DEF Carried, Carrying, Succeed, Kept, Transferring
<1> QED BY CarriedPop DEF CarriedResult

LEMMA CarriedGo ==
  ASSUME Carried, Carrying, Sound', UNCHANGED <<command, before, status>>,
         NEW c \in CallRecord, calls' = <<c>> \o Tail(calls), c.src = top.src,
         (c.fn = top.fn /\ c.dst = top.dst) \/ (c.fn = "remove" /\ command.type = "move"),
         \A p \in Files : ~IsPrefix(top.src, p) => Kept(p),
         \A p \in Files : IsPrefix(top.src, p) => ReachedBy(c, fs', p)
  PROVE  CarriedResult
<1>1. status' = "running"
  BY DEF Carrying
<1>2. Transferring'
  BY <1>1, CarriedTop
<1>3. Files' = Files /\ Src' = Src /\ Dst' = Dst
  BY DEF Files, Src, Dst
<1>4. \A p \in Files : fs'[p] = before[p] \/ fs'[Rebased(p, Src, Dst)] = before[p]
  BY <1>2, <1>3 DEF Transferring, Arrived
<1> QED BY <1>1, <1>2, <1>4 DEF CarriedResult

LEMMA TransferPlaces ==
  ASSUME Carried, Carrying, top.fn \in Transfer
  PROVE  /\ top \in CallRecord /\ top.src \in Path /\ IsPrefix(Src, top.src)
         /\ top.dst \in Path /\ IsPrefix(Dst, top.dst) /\ top.dst = Rebased(top.src, Src, Dst)
         /\ top.src # top.dst /\ IsPrefix(top.src, top.src)
         /\ \A p \in Files : ~IsPrefix(top.src, p) =>
              p # top.src /\ Rebased(p, Src, Dst) # top.dst
         /\ \A p \in Files : IsPrefix(top.src, p) /\ fs[p] = before[p] /\ fs[top.src] # Dir
              => p = top.src
<1>1. /\ top \in CallRecord /\ top.src \in Path /\ IsPrefix(Src, top.src)
      /\ top.dst \in Path /\ IsPrefix(Dst, top.dst) /\ top.dst = Rebased(top.src, Src, Dst)
      /\ IsTree(fs)
  BY RunningTop, TransferTop DEF Carried, Carrying, Sound, TypeOK, WellFormed
<1>2. top.src # top.dst /\ IsPrefix(top.src, top.src)
  BY <1>1, PlacesApart, PrefixOrder
<1>3. ASSUME NEW p \in Files, ~IsPrefix(top.src, p)
      PROVE  p # top.src /\ Rebased(p, Src, Dst) # top.dst
  <2>1. p # top.src
    BY <1>2, <1>3
  <2>2. Rebased(p, Src, Dst) # Rebased(top.src, Src, Dst)
    BY <1>1, <2>1, NewPlacesApart
  <2> QED BY <2>1, <2>2, <1>1
<1>4. ASSUME NEW p \in Files, IsPrefix(top.src, p), fs[p] = before[p], fs[top.src] # Dir
      PROVE  p = top.src
  <2>1. p \in Path /\ fs[p] # Nothing
    BY <1>4, FilePaths
  <2> QED BY <1>1, <1>4, <2>1, Ancestors
<1> QED BY <1>1, <1>2, <1>3, <1>4

LEMMA PutAtTop ==
  ASSUME Carried, Carrying, top.fn \in Transfer, NEW v, fs' = [fs EXCEPT ![top.dst] = v]
  PROVE  /\ \A p \in Files : ~IsPrefix(top.src, p) => Kept(p)
         /\ \A p \in Files : fs'[p] = fs[p]
         /\ top.src \in Files => fs'[Rebased(top.src, Src, Dst)] = v
<1>1. top.dst \in Path /\ IsPrefix(Dst, top.dst) /\ top.dst = Rebased(top.src, Src, Dst)
  BY TransferPlaces
<1>2. \A p \in Files : ~IsPrefix(top.src, p) => Rebased(p, Src, Dst) # top.dst
  BY TransferPlaces
<1>3. \A p \in Files : /\ fs'[p] = fs[p]
                       /\ Rebased(p, Src, Dst) # top.dst => Kept(p)
                       /\ Rebased(p, Src, Dst) = top.dst => fs'[Rebased(p, Src, Dst)] = v
  BY <1>1, PutKeeps
<1> HIDE DEF Kept
<1> QED BY <1>1, <1>2, <1>3

LEMMA TakeBelowTop ==
  ASSUME Carried, Carrying, NEW x \in Path, IsPrefix(top.src, x), fs' = [fs EXCEPT ![x] = Nothing]
  PROVE  /\ \A p \in Files : ~IsPrefix(top.src, p) => Kept(p)
         /\ \A p \in Files : fs'[Rebased(p, Src, Dst)] = fs[Rebased(p, Src, Dst)]
<1>1. IsPrefix(Src, x)
  BY RunningTop, PrefixOrder DEF Carried, Carrying
<1>2. \A p \in Files : /\ p # x => Kept(p)
                       /\ fs'[Rebased(p, Src, Dst)] = fs[Rebased(p, Src, Dst)]
  BY <1>1, TakeKeeps
<1> HIDE DEF Kept
<1> QED BY <1>2

LEMMA CarriedStat == Carried /\ Stat => Carried'
<1> SUFFICES ASSUME Carried, Stat
             PROVE  Carried'
  OBVIOUS
<1>1. /\ status = "running" /\ top.fn \in Transfer /\ top.at = "stat" /\ top.fn # "remove"
      /\ UNCHANGED <<command, before, faults>>
      /\ \/ Fail /\ UNCHANGED fs
         \/ fs[top.src] = Dir /\ Go("mkdir") /\ UNCHANGED <<fs, status>>
         \/ fs[top.src].kind = "file" /\ Go("open") /\ UNCHANGED <<fs, status>>
         \/ /\ fs[top.src].kind = "file" /\ Renames(fs, top.src, top.dst)
            /\ fs' = Renamed(fs, top.src, top.dst) /\ Succeed
  BY DEF Stat, At, Transfer, RenamesHere
<1>2. Sound' /\ status' \in {"running", "done"} /\ fs \in [Path -> Node] /\ IsTree(fs)
  BY <1>1, SoundStat DEF Carried, Fail, Succeed, Finish, Sound, TypeOK, WellFormed
<1>3. ASSUME Carrying
      PROVE  CarriedResult
  <2>1. \A p \in Files : IsPrefix(top.src, p) => fs[p] = before[p] /\ top.seen = {}
    BY <1>1, <1>3, ReachedTop DEF ReachedBy
  <2>2. /\ top \in CallRecord /\ top.src \in Path /\ IsPrefix(Src, top.src)
        /\ top.dst \in Path /\ IsPrefix(Dst, top.dst) /\ top.dst = Rebased(top.src, Src, Dst)
        /\ top.src # top.dst
    BY <1>1, <1>3, TransferPlaces
  <2>3. ASSUME NEW at \in {"mkdir", "open"}, Go(at), UNCHANGED <<fs, status>>,
               at = "mkdir" => fs[top.src] = Dir
        PROVE  CarriedResult
    <3> DEFINE c == [top EXCEPT !.at = at]
    <3>1. /\ c \in CallRecord /\ c.src = top.src /\ c.fn = top.fn /\ c.dst = top.dst /\ c.at = at
          /\ c.seen = top.seen
      BY <2>2, <2>3 DEF CallRecord
    <3>2. calls' = <<c>> \o Tail(calls)
      BY <2>3 DEF Go
    <3> HIDE DEF c
    <3>3. \A p \in Files : Kept(p)
      BY <2>3 DEF Kept
    <3>4. \A p \in Files : IsPrefix(top.src, p) => ReachedBy(c, fs', p)
      <4>1. \A p \in Files : before[p] # Dir
        BY <1>3, FilePaths
      <4> QED BY <4>1, <2>1, <2>3, <3>1, <1>1 DEF ReachedBy
    <3> HIDE DEF Kept, ReachedBy
    <3> QED BY <3>1, <3>2, <3>3, <3>4, <1>1, <1>2, <1>3, <2>3, CarriedGo
  <2>4. CASE /\ fs[top.src].kind = "file" /\ Renames(fs, top.src, top.dst)
             /\ fs' = Renamed(fs, top.src, top.dst) /\ Succeed
    <3>1. fs[top.src] # Dir /\ fs' = [fs EXCEPT ![top.src] = Nothing, ![top.dst] = fs[top.src]]
      <4> DEFINE a == top.src
                 b == top.dst
      <4>1. /\ a \in Path /\ b \in Path /\ a # b /\ fs[a] # Dir /\ Renames(fs, a, b)
            /\ fs' = Renamed(fs, a, b)
        BY <2>2, <2>4, NodeKinds
      <4> HIDE DEF a, b
      <4>2. Renamed(fs, a, b) = [fs EXCEPT ![a] = Nothing, ![b] = fs[a]]
        BY <4>1, <1>2, RenamedFile
      <4> QED BY <4>1, <4>2 DEF a, b
    <3>2. /\ \A p \in Path : p # top.src /\ p # top.dst => fs'[p] = fs[p]
          /\ fs'[top.dst] = fs[top.src]
      BY <3>1, <2>2, <1>2
    <3>3. ASSUME NEW p \in Files, ~IsPrefix(top.src, p)
          PROVE  Kept(p)
      <4>1. p # top.src /\ Rebased(p, Src, Dst) # top.dst
        BY <1>1, <1>3, <3>3, TransferPlaces
      <4>2. /\ p \in Path /\ IsPrefix(Src, p) /\ Rebased(p, Src, Dst) \in Path
            /\ IsPrefix(Dst, Rebased(p, Src, Dst))
        BY <1>3, FilePaths
      <4>3. p # top.dst /\ top.src # Rebased(p, Src, Dst)
        BY <4>2, <2>2, <1>3, PlacesApart
      <4> QED BY <4>1, <4>2, <4>3, <3>2 DEF Kept
    <3>4. ASSUME NEW p \in Files, IsPrefix(top.src, p)
          PROVE  fs'[Rebased(p, Src, Dst)] = before[p]
      <4>1. p = top.src
        BY <1>1, <1>3, <2>1, <3>1, <3>4, TransferPlaces
      <4> QED BY <4>1, <2>1, <2>2, <3>2, <3>4
    <3> HIDE DEF Kept
    <3> QED BY <3>3, <3>4, <2>4, <1>1, <1>2, <1>3, CarriedSucceed
  <2> QED BY <1>1, <1>3, <2>3, <2>4, CarriedFail, NodeKinds
<1> QED BY <1>1, <1>2, <1>3, CarriedBy

LEMMA CarriedMkdir == Carried /\ Mkdir => Carried'
<1> SUFFICES ASSUME Carried, Mkdir
             PROVE  Carried'
  OBVIOUS
<1>1. /\ status = "running" /\ status' = "running"
      /\ top.fn \in Transfer /\ top.at = "mkdir" /\ top.fn # "remove"
      /\ UNCHANGED <<command, before, faults>>
      /\ fs' = IF Fresh(fs, top.dst) THEN [fs EXCEPT ![top.dst] = Dir] ELSE fs
      /\ calls' = <<[top EXCEPT !.at = "list", !.must = Children(fs', top.src)]>> \o Tail(calls)
  BY DEF Mkdir, At, Transfer
<1>2. Sound' /\ IsTree(fs')
  BY <1>1, SoundMkdir DEF Carried, Sound, TypeOK, WellFormed
<1>3. ASSUME Carrying
      PROVE  CarriedResult
  <2>1. \A p \in Files : IsPrefix(top.src, p) => fs[p] = before[p] /\ top.seen = {} /\ p # top.src
    BY <1>1, <1>3, ReachedTop DEF ReachedBy
  <2>2. top \in CallRecord /\ top.src \in Path
    BY <1>1, <1>3, TransferPlaces
  <2>3. /\ \A p \in Files : ~IsPrefix(top.src, p) => Kept(p)
        /\ \A p \in Files : fs'[p] = fs[p]
    <3>1. CASE Fresh(fs, top.dst)
      BY <3>1, <1>1, <1>3, PutAtTop
    <3>2. CASE ~Fresh(fs, top.dst)
      BY <3>2, <1>1 DEF Kept
    <3> QED BY <3>1, <3>2
  <2> DEFINE m == Children(fs', top.src)
             c == [top EXCEPT !.at = "list", !.must = m]
  <2>4. m \in SUBSET Names
    BY DEF Children
  <2>5. ASSUME NEW p \in Files, IsPrefix(top.src, p)
        PROVE  p[Len(top.src) + 1] \in m
    <3>1. p \in Path /\ fs'[p] # Nothing /\ p # top.src
      BY <1>3, <2>1, <2>3, <2>5, FilePaths
    <3> QED BY <3>1, <1>2, <2>2, <2>5, Ancestors
  <2> HIDE DEF m
  <2>6. /\ c \in CallRecord /\ c.src = top.src /\ c.fn = top.fn /\ c.dst = top.dst /\ c.at = "list"
        /\ c.seen = top.seen /\ c.must = m
    BY <2>2, <2>4 DEF CallRecord
  <2>7. calls' = <<c>> \o Tail(calls)
    BY <1>1 DEF m
  <2> HIDE DEF c
  <2>8. \A p \in Files : IsPrefix(top.src, p) => ReachedBy(c, fs', p)
    BY <2>1, <2>3, <2>5, <2>6, <1>1 DEF ReachedBy, Listed
  <2> HIDE DEF Kept, ReachedBy
  <2> QED BY <2>3, <2>6, <2>7, <2>8, <1>1, <1>2, <1>3, CarriedGo
<1> QED BY <1>1, <1>2, <1>3, CarriedBy

LEMMA CarriedListEntry == Carried /\ ListEntry => Carried'
<1> SUFFICES ASSUME Carried, ListEntry
             PROVE  Carried'
  OBVIOUS
<1>1. /\ status = "running" /\ top.fn \in Transfer /\ top.at = "list" /\ top.fn # "remove"
      /\ UNCHANGED <<fs, command, status, before, faults>> /\ Sound
  BY DEF ListEntry, At, Transfer, Carried
<1>2. Sound' /\ calls \in Seq(CallRecord) /\ top = calls[1] /\ top \in CallRecord
      /\ calls # << >> /\ DOMAIN calls = 1..Len(calls) /\ Len(calls) \in Nat
  BY <1>1, SoundListEntry, RunningTop, StackTop DEF Carried
<1>3. PICK n \in Children(fs, top.src) \ top.seen :
        calls' = <<Call(top.fn, Append(top.src, n), Append(top.dst, n)),
                   [top EXCEPT !.seen = @ \cup {n}]>> \o Tail(calls)
  BY DEF ListEntry
<1>4. /\ n \in Names /\ Len(top.src) < Depth /\ top.src \in Path
      /\ Append(top.src, n) \in Path /\ Append(top.dst, n) \in Path
      /\ Append(top.dst, n) = Rebased(Append(top.src, n), Src, Dst)
  BY <1>1, <1>2, ListedRoom DEF Carried, CallRecord
<1> DEFINE f == top.fn
           a == Append(top.src, n)
           b == Append(top.dst, n)
           c == Call(f, a, b)
           d == [top EXCEPT !.seen = @ \cup {n}]
<1>5. /\ f \in {"mkdir", "link", "move", "copy", "remove"} /\ a \in Path /\ b \in Path
      /\ b = Rebased(a, Src, Dst) /\ f \in Transfer
  BY <1>1, <1>4 DEF Transfer
<1>6. /\ d \in CallRecord /\ d.src = top.src /\ d.at = "list" /\ d.must = top.must /\ d.fn = top.fn
      /\ d.seen = top.seen \cup {n}
  BY <1>1, <1>2, <1>4 DEF CallRecord
<1>7. calls' = <<c, d>> \o Tail(calls) /\ d = [top EXCEPT !.seen = @ \cup {n}]
  BY <1>3
<1> HIDE DEF d, f, a, b
<1>8. /\ c \in CallRecord /\ c.src = a /\ c.fn = f /\ c.at = "stat" /\ c.dst = b
      /\ c.seen = {}
  BY <1>5, CallType DEF Call
<1> HIDE DEF c
<1>9. /\ calls'[1] = c /\ calls'[2] = d /\ DOMAIN calls' = 1..(Len(calls) + 1)
      /\ \A i \in DOMAIN calls : i > 1 => calls'[i + 1] = calls[i]
  <2>1. /\ c \in CallRecord /\ d \in CallRecord /\ calls' = <<c, d>> \o Tail(calls)
    BY <1>6, <1>7, <1>8
  <2>2. /\ calls' \in Seq(CallRecord) /\ calls' # << >> /\ Len(calls') = Len(calls) + 1
        /\ calls'[1] = c /\ calls'[2] = d
        /\ \A i \in 3..(Len(calls) + 1) : calls'[i] = calls[i - 1]
    BY <2>1, <1>2, StackPush
  <2>3. DOMAIN calls' = 1..(Len(calls) + 1)
    BY <2>2, StackTop
  <2>4. ASSUME NEW i \in DOMAIN calls, i > 1
        PROVE  calls'[i + 1] = calls[i]
    <3>1. i + 1 \in 3..(Len(calls) + 1) /\ (i + 1) - 1 = i
      BY <2>4, <1>2
    <3> QED BY <3>1, <2>2
  <2> QED BY <2>2, <2>3, <2>4
<1>10. ASSUME Carrying
       PROVE  CarriedResult
  <2>1. Transferring
    BY <1>10 DEF Carried
  <2>2. \A p \in Files : IsPrefix(top.src, p) => Listed(top, fs, p)
    BY <1>1, <1>10, ReachedTop DEF ReachedBy
  <2>3. \A p \in Files : fs'[p] = before[p] \/ fs'[Rebased(p, Src, Dst)] = before[p]
    BY <2>1, <1>1 DEF Transferring, Arrived
  <2>4. ASSUME NEW p \in Files, IsPrefix(calls'[1].src, p)
        PROVE  ReachedBy(calls'[1], fs', p)
    <3>1. IsPrefix(top.src, p) /\ p[Len(top.src) + 1] = n
      <4>1. p \in Path /\ IsPrefix(Append(top.src, n), p)
        BY <1>8, <1>9, <1>10, <2>4, FilePaths DEF a
      <4> QED BY <4>1, <1>4, PrefixOfChild
    <3>2. fs[p] = before[p]
      BY <1>3, <2>2, <3>1 DEF Listed
    <3>3. c.fn # "remove"
      BY <1>5, <1>8 DEF Transfer
    <3> QED BY <3>2, <3>3, <1>1, <1>8, <1>9 DEF ReachedBy
  <2>5. ASSUME NEW i \in DOMAIN calls', i > 1, NEW p \in Files,
               IsPrefix(calls'[i].src, p), ~IsPrefix(calls'[i - 1].src, p)
        PROVE  Listed(calls'[i], fs', p)
    <3>1. CASE i = 2
      <4>1. calls'[i] = d /\ i - 1 = 1
        BY <3>1, <1>9
      <4>2. IsPrefix(top.src, p) /\ ~IsPrefix(Append(top.src, n), p) /\ p \in Path
        BY <4>1, <2>5, <1>6, <1>8, <1>9, <1>10, FilePaths DEF a
      <4>3. Listed(top, fs, p)
        BY <4>2, <2>2
      <4>4. p[Len(top.src) + 1] # n
        BY <4>2, <4>3, <1>4, PrefixChild DEF Listed
      <4> QED BY <4>1, <4>3, <4>4, <1>1, <1>6 DEF Listed
    <3>2. CASE i # 2
      <4> DEFINE j == i - 1
      <4>1. j \in DOMAIN calls /\ j > 1 /\ j + 1 = i /\ j - 1 \in DOMAIN calls
        BY <3>2, <2>5, <1>2, <1>9
      <4> HIDE DEF j
      <4>2. calls'[i] = calls[j]
        BY <4>1, <1>9
      <4>3. calls'[j].src = calls[j - 1].src
        <5>1. CASE j = 2
          <6>1. j - 1 = 1
            BY <5>1
          <6> QED BY <5>1, <6>1, <1>2, <1>6, <1>9
        <5>2. CASE j # 2
          <6> DEFINE k == j - 1
          <6>1. k \in DOMAIN calls /\ k > 1 /\ k + 1 = j
            BY <4>1, <5>2, <1>2
          <6> HIDE DEF k
          <6>2. calls'[j] = calls[k]
            BY <6>1, <1>9
          <6> QED BY <6>2 DEF k
        <5> QED BY <5>1, <5>2
      <4>4. j = i - 1
        BY DEF j
      <4>5. calls[j].at = "list" /\ calls[j].fn # "remove"
        BY <4>1, <1>1, <1>10 DEF Sound, StackSound, Chain, Carrying, Transfer
      <4>6. ~IsPrefix(calls[j - 1].src, p) /\ IsPrefix(calls[j].src, p)
        BY <4>2, <4>3, <4>4, <2>5
      <4>7. Listed(calls[j], fs, p)
        BY <4>1, <4>5, <4>6, <1>10, ListedNow
      <4> QED BY <4>2, <4>7, <1>1 DEF Listed
    <3> QED BY <3>1, <3>2
  <2>6. Transferring'
    BY <2>3, <2>4, <2>5, <1>1, <1>2, <1>10, CarriedStack
  <2> QED BY <2>3, <2>6, <1>1 DEF CarriedResult
<1> QED BY <1>1, <1>2, <1>10, CarriedBy

LEMMA CarriedListEnd == Carried /\ ListEnd => Carried'
<1> SUFFICES ASSUME Carried, ListEnd
             PROVE  Carried'
  OBVIOUS
<1>1. /\ status = "running" /\ top.fn \in Transfer /\ top.at = "list" /\ top.fn # "remove"
      /\ UNCHANGED <<fs, command, before, faults>> /\ Sound
      /\ top.must \cap Children(fs, top.src) \subseteq top.seen
      /\ \/ Succeed
         \/ /\ top.fn # "copy" /\ UNCHANGED status
            /\ calls' = <<Call("remove", top.src, top.src)>> \o Tail(calls)
  BY DEF ListEnd, At, Transfer, Carried
<1>2. Sound' /\ status' \in {"running", "done"} /\ IsTree(fs)
  BY <1>1, SoundListEnd DEF Succeed, Finish, Sound, TypeOK, WellFormed
<1>3. ASSUME Carrying
      PROVE  CarriedResult
  <2>1. top \in CallRecord /\ top.src \in Path
    BY <1>1, <1>3, TransferPlaces
  <2>2. ASSUME NEW p \in Files, IsPrefix(top.src, p)
        PROVE  fs'[Rebased(p, Src, Dst)] = before[p]
    <3> DEFINE n == p[Len(top.src) + 1]
    <3>1. Listed(top, fs, p)
      BY <1>1, <1>3, <2>2, ReachedTop DEF ReachedBy
    <3>2. n \in top.seen
      <4> SUFFICES ASSUME n \notin top.seen
                   PROVE  FALSE
        OBVIOUS
      <4>1. n \in top.must /\ fs[p] = before[p] /\ p # top.src
        BY <3>1 DEF Listed
      <4>2. p \in Path /\ fs[p] # Nothing
        BY <4>1, <1>3, FilePaths
      <4>3. n \in Children(fs, top.src)
        BY <4>1, <4>2, <1>2, <2>1, <2>2, Ancestors
      <4> QED BY <4>1, <4>3, <1>1
    <3> QED BY <3>1, <3>2, <1>1 DEF Listed
  <2>3. \A p \in Files : Kept(p)
    BY <1>1 DEF Kept
  <2>4. CASE Succeed
    <3> HIDE DEF Kept
    <3> QED BY <2>2, <2>3, <2>4, <1>1, <1>2, <1>3, CarriedSucceed
  <2>5. CASE /\ top.fn # "copy" /\ UNCHANGED status
             /\ calls' = <<Call("remove", top.src, top.src)>> \o Tail(calls)
    <3> DEFINE c == Call("remove", top.src, top.src)
    <3>1. c \in CallRecord /\ c.src = top.src /\ c.fn = "remove"
      BY <2>1, CallType
    <3>2. calls' = <<c>> \o Tail(calls) /\ command.type = "move"
      BY <1>1, <2>5, TransferTop DEF Transfer
    <3> HIDE DEF c
    <3>3. \A p \in Files : IsPrefix(top.src, p) => ReachedBy(c, fs', p)
      BY <2>2, <3>1 DEF ReachedBy
    <3> HIDE DEF Kept, ReachedBy
    <3> QED BY <3>1, <3>2, <3>3, <2>3, <2>5, <1>1, <1>2, <1>3, CarriedGo
  <2> QED BY <1>1, <2>4, <2>5
<1> QED BY <1>1, <1>2, <1>3, CarriedBy

LEMMA CarriedOpen == Carried /\ Open => Carried'
<1> SUFFICES ASSUME Carried, Open
             PROVE  Carried'
  OBVIOUS
<1>1. /\ status = "running" /\ top.fn \in Transfer /\ top.at = "open" /\ top.fn # "remove"
      /\ UNCHANGED <<command, before, faults>> /\ Sound
      /\ \/ Fail /\ UNCHANGED fs
         \/ /\ fs' = [fs EXCEPT ![top.dst] = File(Empty)] /\ UNCHANGED status
            /\ calls' = <<[top EXCEPT !.at = "write", !.data = fs'[top.src].data]>> \o Tail(calls)
  BY DEF Open, At, Transfer, Carried
<1>2. /\ Sound' /\ status' \in {"running", "done"} /\ fs \in [Path -> Node] /\ OpenFiles
  BY <1>1, SoundOpen, TransferTop DEF Fail, Finish, Sound, TypeOK
<1>3. ASSUME Carrying
      PROVE  CarriedResult
  <2>1. /\ top \in CallRecord /\ top.src \in Path /\ top.dst \in Path /\ top.src # top.dst
    BY <1>1, <1>3, TransferPlaces
  <2>2. fs[top.src] # Dir /\ fs[top.src] = File(fs[top.src].data) /\ fs[top.src].data \in Data
    BY <1>1, <1>2, <2>1, NodeFacts DEF OpenFiles
  <2>3. ASSUME NEW p \in Files, IsPrefix(top.src, p)
        PROVE  p = top.src /\ fs[p] = before[p]
    <3>1. fs[p] = before[p]
      BY <1>1, <1>3, <2>3, ReachedTop DEF ReachedBy
    <3> QED BY <3>1, <1>1, <1>3, <2>2, <2>3, TransferPlaces
  <2>4. CASE /\ fs' = [fs EXCEPT ![top.dst] = File(Empty)] /\ UNCHANGED status
             /\ calls' = <<[top EXCEPT !.at = "write", !.data = fs'[top.src].data]>> \o Tail(calls)
    <3>1. /\ \A p \in Files : ~IsPrefix(top.src, p) => Kept(p)
          /\ \A p \in Files : fs'[p] = fs[p]
      BY <1>1, <1>3, <2>4, PutAtTop
    <3>2. fs'[top.src] = fs[top.src]
      BY <1>2, <2>1, <2>4
    <3> DEFINE x == fs[top.src].data
               c == [top EXCEPT !.at = "write", !.data = x]
    <3>3. x \in Data /\ fs[top.src] = File(x)
      BY <2>2
    <3> HIDE DEF x
    <3>4. /\ c \in CallRecord /\ c.src = top.src /\ c.fn = top.fn /\ c.dst = top.dst
          /\ c.at = "write" /\ c.data = x /\ c.seen = top.seen
      BY <2>1, <3>3 DEF CallRecord
    <3>5. calls' = <<c>> \o Tail(calls)
      BY <2>4, <3>2 DEF x
    <3> HIDE DEF c
    <3>6. ASSUME NEW p \in Files, IsPrefix(top.src, p)
          PROVE  ReachedBy(c, fs', p)
      <4>1. p = top.src /\ fs'[p] = before[p] /\ before[p] = File(x)
        BY <2>3, <3>1, <3>3, <3>6
      <4>2. top.seen = {}
        BY <1>1, <1>3, <3>6, ReachedTop DEF ReachedBy
      <4> QED BY <4>1, <4>2, <3>4, <1>1 DEF ReachedBy
    <3> HIDE DEF Kept, ReachedBy
    <3> QED BY <3>1, <3>4, <3>5, <3>6, <2>4, <1>1, <1>2, <1>3, CarriedGo
  <2> QED BY <1>1, <1>3, <2>4, CarriedFail
<1> QED BY <1>1, <1>2, <1>3, CarriedBy

LEMMA CarriedWrite == Carried /\ Write => Carried'
<1> SUFFICES ASSUME Carried, Write
             PROVE  Carried'
  OBVIOUS
<1>1. /\ status = "running" /\ top.fn \in Transfer /\ top.at = "write" /\ top.fn # "remove"
      /\ UNCHANGED <<command, before>> /\ Sound /\ faults \in Nat
      /\ (Written(top.data) /\ UNCHANGED faults) \/ faults' = faults + 1
  BY BoundsAssumption DEF Write, Fault, At, Transfer, Carried, Sound, TypeOK
<1>2. Sound' /\ status' \in {"running", "done"}
  BY <1>1, SoundWrite DEF Write, Written, Succeed, Fail, Go, Finish
<1>3. ASSUME Carrying, Written(top.data)
      PROVE  CarriedResult
  <2>1. top \in CallRecord /\ top.src \in Path
    BY <1>1, <1>3, TransferPlaces
  <2>2. /\ \A p \in Files : ~IsPrefix(top.src, p) => Kept(p)
        /\ top.src \in Files => fs'[Rebased(top.src, Src, Dst)] = File(top.data)
    BY <1>1, <1>3, PutAtTop DEF Written
  <2>3. ASSUME NEW p \in Files, IsPrefix(top.src, p)
        PROVE  fs'[Rebased(p, Src, Dst)] = before[p]
    <3>1. p = top.src /\ before[p] = File(top.data)
      BY <1>1, <1>3, <2>3, ReachedTop DEF ReachedBy
    <3> QED BY <3>1, <2>2
  <2>4. CASE Succeed
    <3> HIDE DEF Kept
    <3> QED BY <2>2, <2>3, <2>4, <1>1, <1>2, <1>3, CarriedSucceed
  <2>5. CASE Go("unlink") /\ UNCHANGED <<status, answer>>
    <3> DEFINE c == [top EXCEPT !.at = "unlink"]
    <3>1. c \in CallRecord /\ c.src = top.src /\ c.fn = top.fn /\ c.dst = top.dst /\ c.at = "unlink"
      BY <2>1 DEF CallRecord
    <3>2. calls' = <<c>> \o Tail(calls)
      BY <2>5 DEF Go
    <3> HIDE DEF c
    <3>3. \A p \in Files : IsPrefix(top.src, p) => ReachedBy(c, fs', p)
      BY <2>3, <3>1 DEF ReachedBy
    <3> HIDE DEF Kept, ReachedBy
    <3> QED BY <3>1, <3>2, <3>3, <2>2, <2>5, <1>1, <1>2, <1>3, CarriedGo
  <2> QED BY <2>4, <2>5, <1>3 DEF Written
<1>4. faults' = 0 => faults = 0 /\ Written(top.data)
  BY <1>1
<1> QED BY <1>1, <1>2, <1>3, <1>4, CarriedBy

(* Something below the source is removed, of which everything has arrived. *)
LEMMA CarriedRemove ==
  Carried /\ (Unlink \/ RemovePath \/ RemoveNext \/ RemoveFails) => Carried'
<1> SUFFICES ASSUME Carried, Unlink \/ RemovePath \/ RemoveNext \/ RemoveFails
             PROVE  Carried'
  OBVIOUS
<1>1. /\ status = "running" /\ status' \in {"running", "done"}
      /\ UNCHANGED <<command, before, faults>> /\ Sound
      /\ top.fn = "remove" \/ top.at = "unlink"
      /\ \/ Fail /\ UNCHANGED fs
         \/ /\ UNCHANGED <<fs, status>> /\ top.fn = "remove"
            /\ calls' = <<[top EXCEPT !.at = "nftw", !.known = foreign]>> \o Tail(calls)
         \/ \E x \in Under(top.src) \cup {top.src} :
              fs' = [fs EXCEPT ![x] = Nothing] /\ (Succeed \/ UNCHANGED <<calls, status, answer>>)
  BY DEF Unlink, RemovePath, RemoveNext, RemoveFails, At, Succeed, Fail, Finish, Carried
<1>2. Sound'
  BY SoundUnlink, SoundRemove DEF Carried
<1>3. ASSUME Carrying
      PROVE  CarriedResult
  <2>1. /\ top \in CallRecord /\ top.src \in Path /\ IsPrefix(top.src, top.src) /\ Transferring
        /\ calls # << >> /\ top = calls[1]
    BY <1>1, <1>3, RunningTop, PrefixOrder DEF Carried
  <2>2. \A p \in Files : IsPrefix(top.src, p) => fs[Rebased(p, Src, Dst)] = before[p]
    BY <1>1, <1>3, ReachedTop DEF ReachedBy
  <2>3. CASE /\ UNCHANGED <<fs, status>> /\ top.fn = "remove"
             /\ calls' = <<[top EXCEPT !.at = "nftw", !.known = foreign]>> \o Tail(calls)
    <3> DEFINE c == [top EXCEPT !.at = "nftw", !.known = foreign]
    <3>1. /\ c \in CallRecord /\ c.src = top.src /\ c.fn = top.fn /\ c.dst = top.dst
          /\ c.at = "nftw"
      BY <1>1, <2>1 DEF CallRecord, Sound, TypeOK
    <3>2. calls' = <<c>> \o Tail(calls)
      BY <2>3
    <3> HIDE DEF c
    <3>3. \A p \in Files : IsPrefix(top.src, p) => ReachedBy(c, fs', p)
      BY <2>2, <2>3, <3>1 DEF ReachedBy
    <3>4. \A p \in Files : Kept(p)
      BY <2>3 DEF Kept
    <3> HIDE DEF Kept, ReachedBy
    <3> QED BY <3>1, <3>2, <3>3, <3>4, <2>3, <1>1, <1>2, <1>3, CarriedGo
  <2>4. ASSUME NEW x \in Under(top.src) \cup {top.src}, fs' = [fs EXCEPT ![x] = Nothing],
               Succeed \/ UNCHANGED <<calls, status, answer>>
        PROVE  CarriedResult
    <3>1. x \in Path /\ IsPrefix(top.src, x)
      BY <2>1 DEF Under
    <3>2. /\ \A p \in Files : ~IsPrefix(top.src, p) => Kept(p)
          /\ \A p \in Files : fs'[Rebased(p, Src, Dst)] = fs[Rebased(p, Src, Dst)]
      BY <1>3, <2>4, <3>1, TakeBelowTop
    <3>3. CASE Succeed
      <4> HIDE DEF Kept
      <4> QED BY <2>2, <3>2, <3>3, <1>1, <1>2, <1>3, CarriedSucceed
    <3>4. CASE UNCHANGED <<calls, status, answer>>
      <4>1. calls \in Seq(CallRecord) /\ Len(calls) \in Nat /\ DOMAIN calls = 1..Len(calls) /\ Chain
        BY <1>3, <2>1, StackTop DEF Carrying, Sound, TypeOK, StackSound, Carried
      <4>2. \A p \in Files : fs'[p] = before[p] \/ fs'[Rebased(p, Src, Dst)] = before[p]
        BY <2>1, <2>2, <3>2 DEF Transferring, Arrived, Kept
      <4>3. \A p \in Files : IsPrefix(calls'[1].src, p) => ReachedBy(calls'[1], fs', p)
        BY <1>1, <2>1, <2>2, <3>2, <3>4 DEF ReachedBy
      <4>4. ASSUME NEW i \in DOMAIN calls', i > 1, NEW p \in Files,
                   IsPrefix(calls'[i].src, p), ~IsPrefix(calls'[i - 1].src, p)
            PROVE  Listed(calls'[i], fs', p)
        <5> DEFINE j == i - 1
        <5>1. j \in DOMAIN calls /\ 1 \in DOMAIN calls /\ 1 <= j /\ i \in DOMAIN calls
          BY <3>4, <4>1, <4>4
        <5>2. ~IsPrefix(calls[j].src, p) /\ IsPrefix(calls[i].src, p)
          BY <3>4, <4>4
        <5>3. Listed(calls[i], fs, p)
          <6>1. calls[i].at = "list" /\ calls[i].fn # "remove"
            BY <1>3, <4>1, <4>4, <5>1 DEF Chain, Carrying, Transfer
          <6> QED BY <6>1, <1>3, <4>4, <5>1, <5>2, ListedNow
        <5> HIDE DEF j
        <5>4. IsPrefix(calls[j].src, top.src) /\ calls[j].src \in Path /\ p \in Path
          BY <1>3, <2>1, <4>1, <5>1, StackTop, FilePaths DEF Chain, CallRecord
        <5>5. ~IsPrefix(top.src, p)
          BY <2>1, <5>2, <5>4, PrefixOrder
        <5> QED BY <3>2, <3>4, <5>3, <5>5, ListedStill
      <4>5. Transferring'
        BY <4>2, <4>3, <4>4, <3>4, <1>1, <1>2, <1>3, CarriedStack
      <4> QED BY <4>2, <4>5, <3>4, <1>1 DEF CarriedResult
    <3> QED BY <2>4, <3>3, <3>4
  <2> QED BY <1>1, <1>3, <2>3, <2>4, CarriedFail
<1> QED BY <1>1, <1>2, <1>3, CarriedBy

LEMMA CarriedAddForeign == Carried /\ AddForeign => Carried'
<1> SUFFICES ASSUME Carried, AddForeign
             PROVE  Carried'
  OBVIOUS
<1>1. PICK x \in Path : fs[x] = Nothing /\ fs' = [fs EXCEPT ![x] = File(Foreign)]
  BY DEF AddForeign, Fresh
<1>2. UNCHANGED <<command, status, calls, answer, before, faults>> /\ status = "running" /\ Sound'
  BY SoundAddForeign DEF AddForeign, Carried
<1>3. ASSUME Carrying
      PROVE  CarriedResult
  <2>1. fs \in [Path -> Node] /\ Transferring
    BY <1>3 DEF Carried, Sound, TypeOK
  <2>2. ASSUME NEW p \in Files
        PROVE  Kept(p)
    BY <1>1, <1>3, <2>1, FilePaths DEF Kept
  <2>3. /\ Files' = Files /\ Src' = Src /\ Dst' = Dst
        /\ \A p \in Files : Arrived(p) => Arrived(p)'
        /\ \A p \in Files : fs[p] = before[p] => fs'[p] = before'[p]
    BY <1>2, <2>2 DEF Kept, Arrived, Files, Src, Dst
  <2>4. ASSUME NEW i \in DOMAIN calls, NEW p \in Files, IsPrefix(calls[i].src, p)
        PROVE  Reached(i, p)'
    <3>1. Reached(i, p)
      BY <2>1, <2>4 DEF Transferring
    <3>2. (Arrived(p) => Arrived(p)') /\ (fs[p] = before[p] => fs'[p] = before[p])
      BY <2>2, <2>3 DEF Kept
    <3> HIDE DEF Arrived
    <3> QED BY <3>1, <3>2, <1>2 DEF Reached
  <2>5. Transferring'
    BY <2>1, <2>3, <2>4, <1>2 DEF Transferring
  <2> QED BY <2>3, <2>5, <1>2, <1>3 DEF Transferring, Arrived, CarriedResult, Carrying
<1> QED BY <1>2, <1>3, CarriedBy

(* A transfer that is one rename brings every file over.                   *)
LEMMA RenameCarries ==
  ASSUME NEW t, NEW src \in Path, NEW dst \in Path, src # dst,
         Fits(t, src, dst), NEW p \in Path, IsPrefix(src, p), t[p] # Nothing
  PROVE  Renamed(t, src, dst)[Rebased(p, src, dst)] = t[p]
<1> DEFINE q == Rebased(p, src, dst)
<1>1. Len(q) <= Depth
  BY DEF Fits, Under
<1>2. q \in Path /\ IsPrefix(dst, q)
  BY <1>1, RebasedPath
<1>3. Rebased(q, dst, src) = p
  BY <1>1, RebasedBack
<1> HIDE DEF q
<1>4. Renamed(t, src, dst)[q] = t[Rebased(q, dst, src)]
  BY <1>2, <1>3, RenamedAt
<1> QED BY <1>3, <1>4 DEF q

LEMMA CarriedReceive == Carried /\ Receive => Carried'
<1> SUFFICES ASSUME Carried, Receive
             PROVE  Carried'
  OBVIOUS
<1>1. PICK c \in Commands :
        /\ status = "idle" /\ command' = c /\ before' = fs /\ UNCHANGED faults
        /\ Fits(fs, c.src, c.dst)
        /\ ByRename(c) \/ Refused(c) \/ Chmod(c) \/ ByCall(c)
  BY DEF Receive
<1>2. /\ Sound' /\ faults' = 0 /\ Src' = c.src /\ Dst' = c.dst /\ fs \in [Path -> Node]
      /\ before' \in [Path -> Node] /\ c.src \in Path /\ c.dst \in Path
  BY <1>1, SoundReceive, CommandTypes DEF Carried, Sound, TypeOK, Src, Dst
<1>3. Files' = {p \in Under(c.src) : fs[p] \notin {Nothing, Dir}}
  BY <1>1, <1>2 DEF Files
<1>4. status' # "idle" /\ Fits(before', Src', Dst')
  BY <1>1, <1>2 DEF ByRename, Refused, Chmod, ByCall, Finish
<1>5. CASE ByRename(c)
  <2>1. c.type \in {"rename", "move"} /\ fs' = Renamed(fs, c.src, c.dst) /\ status' = "done"
    BY <1>5 DEF ByRename, Finish
  <2>2. ASSUME Apart', NEW p \in Files'
        PROVE  Arrived(p)'
    <3>1. c.src # c.dst /\ p \in Path /\ IsPrefix(c.src, p) /\ fs[p] # Nothing
      BY <1>2, <1>3, <2>2, PrefixOrder DEF Apart, Under
    <3>2. Renamed(fs, c.src, c.dst)[Rebased(p, c.src, c.dst)] = fs[p]
      BY <3>1, <1>1, <1>2, RenameCarries
    <3> QED BY <3>2, <2>1, <1>1, <1>2 DEF Arrived
  <2> QED BY <2>1, <2>2, <1>2, <1>4 DEF Carried, Carrying, MoveKeepsFiles, Arrived
<1>6. CASE Refused(c) \/ Chmod(c)
  <2>1. status' = "done" /\ UNCHANGED fs /\ (c.type \in Transfer => answer' = "failed")
    BY <1>6 DEF Refused, Chmod, Finish, Transfer
  <2>2. MoveKeepsFiles'
    BY <2>1, <1>1 DEF MoveKeepsFiles
  <2> QED BY <2>1, <2>2, <1>1, <1>2, <1>4 DEF Carried, Carrying
<1>7. CASE ByCall(c)
  <2>1. /\ status' = "running" /\ UNCHANGED fs
        /\ c.type \in Transfer => calls' = <<Call(c.type, c.src, c.dst)>>
    BY <1>7 DEF ByCall, Transfer
  <2>2. MoveKeepsFiles'
    BY <2>1, <1>1 DEF MoveKeepsFiles
  <2>3. ASSUME c.type \in Transfer
        PROVE  Transferring'
    <3> DEFINE k == Call(c.type, c.src, c.dst)
    <3>1. k.fn = c.type /\ k.at = "stat" /\ k.seen = {} /\ k.src = c.src
      BY DEF Call
    <3>2. calls' = <<k>>
      BY <2>1, <2>3
    <3> HIDE DEF k
    <3>3. DOMAIN calls' = {1} /\ calls'[1] = k
      BY <3>2
    <3>4. k.fn # "remove"
      BY <3>1, <2>3 DEF Transfer
    <3>5. ASSUME NEW p \in Files'
          PROVE  Reached(1, p)'
      BY <3>1, <3>3, <3>4, <2>1, <1>1 DEF Reached
    <3> QED BY <3>3, <3>5, <2>1, <1>1 DEF Transferring
  <2> QED BY <2>1, <2>2, <2>3, <1>1, <1>2, <1>4 DEF Carried, Carrying
<1> QED BY <1>1, <1>5, <1>6, <1>7

LEMMA CarriedNext == Carried /\ [Next]_vars => Carried'
<1> SUFFICES ASSUME Carried, [Next]_vars
             PROVE  Carried'
  OBVIOUS
<1>1. Sound /\ Sound'
  BY SoundNext DEF Carried
<1>2. CASE MakeDirectory \/ LinkDirectory \/ Symlink \/ UnlinkOld \/ SymlinkAgain \/ AddAtLink
  <2>1. /\ status = "running" /\ status' \in {"running", "done"}
        /\ UNCHANGED <<command, before>>
        /\ top.fn \in {"mkdir", "link"} \/ command.type = "link"
    BY <1>2 DEF MakeDirectory, Tries, LinkDirectory, Symlink, MakeLink, Go, UnlinkOld, SymlinkAgain, AddAtLink, At, Finish
  <2>3. faults' = 0 => faults = 0
    <3>1. Fault \/ UNCHANGED faults
      BY <1>2 DEF MakeDirectory, Tries, LinkDirectory, Symlink, MakeLink, UnlinkOld,
                  SymlinkAgain, AddAtLink
    <3> QED BY <3>1, <1>1 DEF Fault, Sound, TypeOK
  <2>2. command.type \notin Transfer
    BY <2>1, <1>1, SingleTop DEF Transfer
  <2> QED BY <2>1, <2>2, <2>3, <1>1, CarriedOther
<1>3. CASE UNCHANGED vars
  <2>1. Transferring <=> Transferring'
    BY <1>3 DEF vars, Transferring, Reached, Arrived, Files, Src, Dst
  <2> QED BY <1>1, <1>3, <2>1
          DEF vars, Carried, Carrying, MoveKeepsFiles, Files, Arrived, Apart, Src, Dst
<1> QED BY <1>2, <1>3, CarriedReceive, CarriedStat, CarriedMkdir, CarriedListEntry, CarriedListEnd,
           CarriedOpen, CarriedWrite, CarriedRemove, CarriedAddForeign DEF Next, BackEnd

LEMMA CarriedAlways == Spec => []Carried
<1>1. Init => Carried
  <2> SUFFICES ASSUME Init
               PROVE  Carried
    OBVIOUS
  <2>1. command.type = "none" /\ status = "idle" /\ faults = 0 /\ command = NoCommand
        /\ before \in [Path -> Node]
    BY TreesAssumption DEF Init, NoCommand
  <2> QED BY <2>1, SoundInit DEF Carried, Carrying, MoveKeepsFiles
<1> QED BY <1>1, CarriedNext, PTL DEF Spec

(* A copy that is answered with success has brought every file over, in    *)
(* whatever order readdir returned the entries and whatever other          *)
(* processes added meanwhile, unless a write failed.                       *)
THEOREM CopiesAreComplete == Spec => []CopyIsComplete
<1>1. Carried => CopyIsComplete
  BY DEF Carried, CopyIsComplete, Transfer, Arrived
<1> QED BY <1>1, CarriedAlways, PTL

(* While a move or a rename is under way and however it ends, every file   *)
(* of the source is whole at its old or at its new place, unless a write   *)
(* failed: move_directory removes nothing that has not arrived.            *)
THEOREM MovesKeepFiles == Spec => []MoveKeepsFiles
<1>1. Carried => MoveKeepsFiles
  BY DEF Carried
<1> QED BY <1>1, CarriedAlways, PTL

-----------------------------------------------------------------------------
(* A move that succeeds has left nothing behind.                           *)

Moving == status = "running" /\ command.type = "move" /\ Apart

Moved ==
  /\ Sound
  /\ Moving /\ DirOverDir => DirMoved
  /\ status = "done" /\ command.type = "move" /\ answer = "success" /\ Apart =>
       fs[Src] = Nothing /\ (DirOverDir => fs[Dst] = Dir)

(* What a step of a move has to bring about.                               *)
MovedResult ==
  /\ status' = "running" /\ DirOverDir' => DirMoved'
  /\ status' = "done" /\ answer' = "success" =>
       fs'[Src] = Nothing /\ (DirOverDir' => fs'[Dst] = Dir)

LEMMA MovedBy ==
  ASSUME Moved, Sound', status = "running", status' \in {"running", "done"},
         UNCHANGED <<command, before>>, Moving => MovedResult
  PROVE  Moved'
<1>1. Src' = Src /\ Dst' = Dst /\ (Apart' <=> Apart)
  BY DEF Src, Dst, Apart
<1> QED BY <1>1 DEF Moved, Moving, MovedResult

LEMMA MovingPaths ==
  ASSUME Moved, Moving
  PROVE  /\ Src \in Path /\ Dst \in Path /\ Src # Dst /\ ~IsPrefix(Src, Dst)
         /\ fs \in [Path -> Node] /\ WellFormed(fs) /\ Chain
         /\ calls \in Seq(CallRecord) /\ calls # << >> /\ top = calls[1]
         /\ Len(calls) \in Nat /\ Len(calls) >= 1 /\ DOMAIN calls = 1..Len(calls)
<1>1. /\ Src \in Path /\ Dst \in Path
      /\ calls \in Seq(CallRecord) /\ calls # << >> /\ top = calls[1]
  BY RunningTop DEF Moved, Moving
<1>2. Chain /\ fs \in [Path -> Node] /\ WellFormed(fs)
  BY DEF Moved, Moving, Sound, TypeOK, StackSound, Transfer
<1> QED BY <1>1, <1>2, StackTop, PrefixOrder DEF Moving, Apart

(* The outermost call while it is the only one.                            *)
LEMMA MovedOuter ==
  ASSUME Moved, Moving, Len(calls) = 1, DirOverDir
  PROVE  IF top.fn = "move" /\ top.at \in {"stat", "mkdir"}
         THEN fs[Src] = Dir /\ fs[Parent(Dst)] = Dir /\ fs[Dst] = before[Dst]
         ELSE fs[Dst] = Dir /\ (top.at = "list" \/ top.fn = "remove")
<1>1. calls[Len(calls)] = top
  BY MovingPaths
<1> QED BY <1>1 DEF Moved, DirMoved

LEMMA MovedOnly ==
  ASSUME Moved, Moving, Len(calls) = 1
  PROVE  top.src = Src /\ (top.fn \in Transfer => top.fn = "move" /\ top.dst = Dst)
<1>1. calls[Len(calls)] = top
  BY MovingPaths
<1>2. top.src = Src
  BY <1>1, MovingPaths DEF Chain
<1>3. ASSUME top.fn \in Transfer
      PROVE  top.fn = "move" /\ top.dst = Rebased(top.src, Src, Dst)
  BY <1>3, TransferTop DEF Moved, Moving
<1> QED BY <1>2, <1>3, MovingPaths, RebasedSource

(* Below the outermost call nothing changes it.                            *)
LEMMA MovedDeep ==
  ASSUME Moved, Moving, Len(calls) # 1,
         UNCHANGED <<command, before>>, foreign \subseteq foreign',
         fs[Dst] = Dir => fs'[Dst] = Dir,
         \/ Fail
         \/ /\ status' = "running"
            /\ \/ calls' = calls
               \/ calls' = Tail(calls)
               \/ \E c \in CallRecord : calls' = <<c>> \o Tail(calls)
               \/ \E c, d \in CallRecord : calls' = <<c, d>> \o Tail(calls)
  PROVE  MovedResult
<1>1. CASE Fail
  BY <1>1 DEF MovedResult, Fail, Finish, Moving
<1>2. CASE /\ status' = "running"
           /\ \/ calls' = calls
              \/ calls' = Tail(calls)
              \/ \E c \in CallRecord : calls' = <<c>> \o Tail(calls)
              \/ \E c, d \in CallRecord : calls' = <<c, d>> \o Tail(calls)
  <2> DEFINE n == Len(calls)
             o == calls[Len(calls)]
  <2>1. n \in Nat /\ n > 1 /\ calls \in Seq(CallRecord) /\ calls # << >> /\ n \in DOMAIN calls
    BY MovingPaths
  <2>2. calls'[Len(calls')] = o
    <3>1. CASE calls' = calls
      BY <3>1
    <3>2. CASE calls' = Tail(calls)
      <4>1. Len(calls') = n - 1 /\ n - 1 \in 1..(n - 1) /\ (n - 1) + 1 = n
        BY <2>1, <3>2, StackPop
      <4>2. calls'[n - 1] = calls[(n - 1) + 1]
        BY <2>1, <3>2, <4>1, StackPop
      <4> QED BY <4>1, <4>2
    <3>3. ASSUME NEW c \in CallRecord, calls' = <<c>> \o Tail(calls)
          PROVE  calls'[Len(calls')] = o
      <4>1. Len(calls') = n /\ n \in 2..n
        BY <2>1, <3>3, StackGo
      <4>2. \A i \in 2..n : calls'[i] = calls[i]
        BY <2>1, <3>3, StackGo
      <4> QED BY <4>1, <4>2
    <3>4. ASSUME NEW c \in CallRecord, NEW d \in CallRecord, calls' = <<c, d>> \o Tail(calls)
          PROVE  calls'[Len(calls')] = o
      <4>1. Len(calls') = n + 1 /\ n + 1 \in 3..(n + 1) /\ (n + 1) - 1 = n
        BY <2>1, <3>4, StackPush
      <4>2. \A i \in 3..(n + 1) : calls'[i] = calls[i - 1]
        BY <2>1, <3>4, StackPush
      <4> QED BY <4>1, <4>2
    <3> QED BY <3>1, <3>2, <3>3, <3>4, <1>2
  <2>3. o.at = "list" /\ o.fn = "move"
    BY <2>1, MovingPaths DEF Chain, Moving
  <2>4. DirOverDir' => DirOverDir
    BY DEF DirOverDir, Src, Dst
  <2>5. DirOverDir => fs[Dst] = Dir
    BY <2>3 DEF Moved, DirMoved
  <2>6. Dst' = Dst
    BY DEF Dst
  <2> HIDE DEF o
  <2> QED BY <1>2, <2>2, <2>3, <2>4, <2>5, <2>6 DEF MovedResult, DirMoved
<1> QED BY <1>1, <1>2

LEMMA MovedAs ==
  ASSUME status' = "running", UNCHANGED command, NEW o, calls'[Len(calls')] = o,
         DirOverDir' =>
           IF o.fn = "move" /\ o.at \in {"stat", "mkdir"}
           THEN fs'[Src] = Dir /\ fs'[Parent(Dst)] = Dir /\ fs'[Dst] = before'[Dst]
           ELSE fs'[Dst] = Dir /\ (o.at = "list" \/ o.fn = "remove")
  PROVE  MovedResult
BY DEF MovedResult, DirMoved, Src, Dst

LEMMA MovedGo ==
  ASSUME Moved, Moving, Len(calls) = 1, status' = "running", UNCHANGED command,
         NEW c \in CallRecord, calls' = <<c>> \o Tail(calls),
         DirOverDir' =>
           IF c.fn = "move" /\ c.at \in {"stat", "mkdir"}
           THEN fs'[Src] = Dir /\ fs'[Parent(Dst)] = Dir /\ fs'[Dst] = before'[Dst]
           ELSE fs'[Dst] = Dir /\ (c.at = "list" \/ c.fn = "remove")
  PROVE  MovedResult
<1>1. calls'[1] = c /\ Len(calls') = 1
  BY MovingPaths, StackGo
<1> QED BY <1>1, MovedAs

LEMMA MovedStat == Moved /\ Stat => Moved'
<1> SUFFICES ASSUME Moved, Stat
             PROVE  Moved'
  OBVIOUS
<1>1. /\ status = "running" /\ top.fn \in Transfer /\ top.at = "stat"
      /\ UNCHANGED <<command, before, foreign>>
      /\ \/ Fail /\ UNCHANGED fs
         \/ fs[top.src] = Dir /\ Go("mkdir") /\ UNCHANGED <<fs, status, answer>>
         \/ fs[top.src].kind = "file" /\ Go("open") /\ UNCHANGED <<fs, status, answer>>
         \/ /\ fs[top.src].kind = "file" /\ Renames(fs, top.src, top.dst)
            /\ fs' = Renamed(fs, top.src, top.dst) /\ Succeed
  BY DEF Stat, At, Transfer, RenamesHere
<1>2. Sound' /\ status' \in {"running", "done"}
  BY <1>1, SoundStat DEF Moved, Fail, Succeed, Finish
<1>3. ASSUME Moving
      PROVE  MovedResult
  <2>1. /\ top \in CallRecord /\ top.src \in Path /\ IsPrefix(Src, top.src) /\ top.dst \in Path
        /\ Src \in Path /\ Dst \in Path /\ ~IsPrefix(Src, Dst) /\ Src # Dst /\ IsTree(fs)
    BY <1>1, <1>3, RunningTop, TransferTop, MovingPaths DEF Moved, WellFormed
  <2>2. ASSUME fs[Dst] = Dir
        PROVE  fs'[Dst] = Dir
    <3>1. CASE top.src = top.dst
      BY <3>1, <2>2, <1>1 DEF Renamed
    <3>2. CASE top.src # top.dst
      <4>1. ~IsPrefix(top.src, Dst)
        BY <2>1, PrefixOrder
      <4>2. Renames(fs, top.src, top.dst) => Renamed(fs, top.src, top.dst)[Dst] = Dir
        BY <2>1, <2>2, <3>2, <4>1, RenamedKind
      <4> QED BY <4>2, <2>2, <1>1
    <3> QED BY <3>1, <3>2
  <2>3. \A at \in {"mkdir", "open"} : [top EXCEPT !.at = at] \in CallRecord
    BY <2>1 DEF CallRecord
  <2>4. CASE Len(calls) # 1
    <3>1. \/ Fail
          \/ status' = "running" /\ calls' = Tail(calls)
          \/ status' = "running" /\ \E c \in CallRecord : calls' = <<c>> \o Tail(calls)
      BY <1>1, <2>3, <2>4 DEF Go, Succeed
    <3> QED BY <3>1, <1>1, <1>3, <2>2, <2>4, MovedDeep
  <2>5. CASE Len(calls) = 1
    <3>1. top.src = Src /\ top.dst = Dst /\ top.fn = "move"
      BY <1>1, <1>3, <2>5, MovedOnly
    <3>2. DirOverDir' => DirOverDir
      BY <1>1 DEF DirOverDir, Src, Dst
    <3>3. DirOverDir => fs[Src] = Dir /\ fs[Parent(Dst)] = Dir /\ fs[Dst] = before[Dst]
      BY <1>1, <1>3, <2>5, <3>1, MovedOuter
    <3>4. CASE Fail
      BY <3>4 DEF MovedResult, Fail, Finish, Moving
    <3>5. CASE fs[top.src] = Dir /\ Go("mkdir") /\ UNCHANGED <<fs, status, answer>>
      <4> DEFINE c == [top EXCEPT !.at = "mkdir"]
      <4>1. c \in CallRecord /\ c.fn = "move" /\ c.at = "mkdir"
        BY <2>1, <3>1 DEF CallRecord
      <4>2. calls' = <<c>> \o Tail(calls)
        BY <3>5 DEF Go
      <4> HIDE DEF c
      <4> QED BY <4>1, <4>2, <3>2, <3>3, <3>5, <1>1, <1>3, <2>5, MovedGo
    <3>6. CASE fs[top.src].kind = "file" /\ Go("open") /\ UNCHANGED <<fs, status, answer>>
      <4>1. ~DirOverDir'
        BY <3>1, <3>2, <3>3, <3>6, NodeKinds
      <4> QED BY <4>1, <3>6, <1>1 DEF MovedResult, Moving
    <3>7. CASE /\ fs[top.src].kind = "file" /\ Renames(fs, top.src, top.dst)
               /\ fs' = Renamed(fs, top.src, top.dst) /\ Succeed
      <4>1. ~DirOverDir'
        BY <3>1, <3>2, <3>3, <3>7, NodeKinds
      <4>2. fs'[Src] = Nothing
        <5>1. ~IsPrefix(Dst, Src) /\ IsPrefix(Src, Src)
          BY <1>3, <2>1, PrefixOrder DEF Moving, Apart
        <5> QED BY <5>1, <2>1, <3>1, <3>7, RenamedAt
      <4> QED BY <4>1, <4>2, <3>7, <2>5 DEF MovedResult, Succeed, Finish
    <3> QED BY <3>4, <3>5, <3>6, <3>7, <1>1
  <2> QED BY <2>4, <2>5
<1> QED BY <1>1, <1>2, <1>3, MovedBy

LEMMA MovedMkdir == Moved /\ Mkdir => Moved'
<1> SUFFICES ASSUME Moved, Mkdir
             PROVE  Moved'
  OBVIOUS
<1>1. /\ status = "running" /\ status' = "running" /\ top.fn \in Transfer /\ top.at = "mkdir"
      /\ UNCHANGED <<command, before, foreign>>
      /\ fs' = IF Fresh(fs, top.dst) THEN [fs EXCEPT ![top.dst] = Dir] ELSE fs
      /\ calls' = <<[top EXCEPT !.at = "list", !.must = Children(fs', top.src)]>> \o Tail(calls)
  BY DEF Mkdir, At, Transfer
<1>2. Sound'
  BY SoundMkdir DEF Moved
<1>3. ASSUME Moving
      PROVE  MovedResult
  <2>1. /\ top \in CallRecord /\ top.dst \in Path /\ Dst \in Path /\ Dst # << >>
        /\ fs \in [Path -> Node]
    BY <1>1, <1>3, RunningTop, TransferTop, MovingPaths DEF Moved
  <2>2. fs[Dst] = Dir => fs'[Dst] = Dir
    BY <1>1, <2>1
  <2> DEFINE m == Children(fs', top.src)
             c == [top EXCEPT !.at = "list", !.must = m]
  <2>3. m \in SUBSET Names
    BY DEF Children
  <2> HIDE DEF m
  <2>4. c \in CallRecord /\ c.at = "list"
    BY <2>1, <2>3 DEF CallRecord
  <2>5. calls' = <<c>> \o Tail(calls)
    BY <1>1 DEF m
  <2> HIDE DEF c
  <2>6. CASE Len(calls) # 1
    BY <2>6, <2>2, <2>4, <2>5, <1>1, <1>3, MovedDeep
  <2>7. CASE Len(calls) = 1
    <3>1. top.dst = Dst /\ top.fn = "move"
      BY <1>1, <1>3, <2>7, MovedOnly
    <3>2. ASSUME DirOverDir'
          PROVE  fs'[Dst] = Dir
      <4>1. DirOverDir
        BY <1>1, <3>2 DEF DirOverDir, Src, Dst
      <4>2. fs[Parent(Dst)] = Dir /\ fs[Dst] \in {Nothing, Dir}
        BY <4>1, <3>1, <1>1, <1>3, <2>7, MovedOuter DEF DirOverDir
      <4> QED BY <4>2, <3>1, <2>1, <2>2, <1>1 DEF Fresh
    <3> QED BY <3>2, <2>4, <2>5, <2>7, <1>1, <1>3, MovedGo
  <2> QED BY <2>6, <2>7
<1> QED BY <1>1, <1>2, <1>3, MovedBy

LEMMA MovedListEntry == Moved /\ ListEntry => Moved'
<1> SUFFICES ASSUME Moved, ListEntry
             PROVE  Moved'
  OBVIOUS
<1>1. /\ status = "running" /\ status' = "running" /\ top.fn \in Transfer /\ top.at = "list"
      /\ UNCHANGED <<fs, command, before, foreign>>
  BY DEF ListEntry, At, Transfer
<1>2. Sound'
  BY SoundListEntry DEF Moved
<1>3. ASSUME Moving
      PROVE  MovedResult
  <2>1. PICK n \in Children(fs, top.src) \ top.seen :
          calls' = <<Call(top.fn, Append(top.src, n), Append(top.dst, n)),
                     [top EXCEPT !.seen = @ \cup {n}]>> \o Tail(calls)
    BY DEF ListEntry
  <2>2. top \in CallRecord /\ n \in Names /\ Append(top.src, n) \in Path /\ Append(top.dst, n) \in Path
    BY <1>1, RunningTop, ListedRoom DEF Moved
  <2> DEFINE c == Call(top.fn, Append(top.src, n), Append(top.dst, n))
             d == [top EXCEPT !.seen = @ \cup {n}]
  <2>3. c \in CallRecord
    BY <1>1, <2>2, CallType DEF Transfer
  <2>4. d \in CallRecord /\ d.at = "list"
    BY <1>1, <2>2 DEF CallRecord
  <2>5. calls' = <<c, d>> \o Tail(calls)
    BY <2>1
  <2> HIDE DEF c, d
  <2>6. CASE Len(calls) # 1
    BY <2>6, <2>3, <2>4, <2>5, <1>1, <1>3, MovedDeep
  <2>7. CASE Len(calls) = 1
    <3>1. Len(calls') = Len(calls) + 1 /\ calls'[2] = d
      BY <2>3, <2>4, <2>5, <1>3, MovingPaths, StackPush
    <3>2. calls'[Len(calls')] = d
      BY <3>1, <2>7
    <3>3. DirOverDir' => fs'[Dst] = Dir
      <4>1. DirOverDir' => DirOverDir
        BY <1>1 DEF DirOverDir, Src, Dst
      <4> QED BY <4>1, <1>1, <1>3, <2>7, MovedOuter
    <3> QED BY <3>2, <3>3, <2>4, <1>1, MovedAs
  <2> QED BY <2>6, <2>7
<1> QED BY <1>1, <1>2, <1>3, MovedBy

LEMMA MovedListEnd == Moved /\ ListEnd => Moved'
<1> SUFFICES ASSUME Moved, ListEnd
             PROVE  Moved'
  OBVIOUS
<1>1. /\ status = "running" /\ top.fn \in Transfer /\ top.at = "list"
      /\ UNCHANGED <<fs, command, before, foreign>>
      /\ \/ top.fn = "copy" /\ Succeed
         \/ calls' = <<Call("remove", top.src, top.src)>> \o Tail(calls) /\ status' = "running"
  BY DEF ListEnd, At, Transfer
<1>2. Sound' /\ status' \in {"running", "done"}
  BY <1>1, SoundListEnd DEF Moved, Succeed, Finish
<1>3. ASSUME Moving
      PROVE  MovedResult
  <2>1. top.fn = "move" /\ top.src \in Path
    BY <1>1, <1>3, RunningTop, TransferTop DEF Moved, Moving
  <2> DEFINE c == Call("remove", top.src, top.src)
  <2>2. c \in CallRecord /\ c.fn = "remove"
    BY <2>1, CallType
  <2>3. calls' = <<c>> \o Tail(calls) /\ status' = "running"
    BY <1>1, <2>1
  <2> HIDE DEF c
  <2>4. CASE Len(calls) # 1
    BY <2>2, <2>3, <2>4, <1>1, <1>3, MovedDeep
  <2>5. CASE Len(calls) = 1
    <3>1. DirOverDir' => fs'[Dst] = Dir
      <4>1. DirOverDir' => DirOverDir
        BY <1>1 DEF DirOverDir, Src, Dst
      <4> QED BY <4>1, <1>1, <1>3, <2>5, MovedOuter
    <3> QED BY <3>1, <2>2, <2>3, <2>5, <1>1, <1>3, MovedGo
  <2> QED BY <2>4, <2>5
<1> QED BY <1>1, <1>2, <1>3, MovedBy

(* A file that is moved is no directory.                                   *)
LEMMA MovedFile ==
  ASSUME Moved, Moving, Len(calls) = 1, top.fn \in Transfer,
         top.at \in {"open", "write", "unlink"}, UNCHANGED <<command, before>>,
         foreign \subseteq foreign'
  PROVE  ~DirOverDir'
<1>1. DirOverDir' => DirOverDir
  BY DEF DirOverDir, Src, Dst
<1>2. top.fn # "remove"
  BY DEF Transfer
<1> QED BY <1>1, <1>2, MovedOuter

LEMMA MovedOpen == Moved /\ Open => Moved'
<1> SUFFICES ASSUME Moved, Open
             PROVE  Moved'
  OBVIOUS
<1>1. /\ status = "running" /\ top.fn \in Transfer /\ top.at = "open"
      /\ UNCHANGED <<command, before, foreign>>
      /\ \/ Fail /\ UNCHANGED fs
         \/ /\ fs[top.dst] # Dir /\ fs' = [fs EXCEPT ![top.dst] = File(Empty)] /\ UNCHANGED status
            /\ calls' = <<[top EXCEPT !.at = "write", !.data = fs'[top.src].data]>> \o Tail(calls)
  BY DEF Open, At, Transfer
<1>2. Sound' /\ status' \in {"running", "done"}
  BY <1>1, SoundOpen DEF Moved, Fail, Finish
<1>3. ASSUME Moving
      PROVE  MovedResult
  <2>1. Dst \in Path /\ fs \in [Path -> Node] /\ calls \in Seq(CallRecord)
    BY <1>3, MovingPaths
  <2>2. fs[Dst] = Dir => fs'[Dst] = Dir
    BY <1>1, <2>1
  <2>3. CASE Fail
    BY <2>3 DEF MovedResult, Fail, Finish, Moving
  <2>4. CASE /\ UNCHANGED status
             /\ calls' = <<[top EXCEPT !.at = "write", !.data = fs'[top.src].data]>> \o Tail(calls)
    <3> DEFINE c == [top EXCEPT !.at = "write", !.data = fs'[top.src].data]
    <3>1. calls' \in Seq(CallRecord) /\ calls' # << >> /\ status' = "running"
      BY <1>2, <1>3, <2>4 DEF Sound, StackSound, TypeOK, Moving
    <3>2. calls' = <<c>> \o Tail(calls)
      BY <2>4
    <3> HIDE DEF c
    <3>3. c \in CallRecord
      <4>1. calls'[1] = c
        BY <3>2, <2>1, <1>3, MovingPaths
      <4> QED BY <4>1, <3>1, StackTop
    <3>4. CASE Len(calls) # 1
      BY <3>2, <3>3, <3>4, <3>1, <2>2, <1>1, <1>3, MovedDeep
    <3>5. CASE Len(calls) = 1
      <4>1. ~DirOverDir'
        BY <3>5, <1>1, <1>3, MovedFile
      <4> QED BY <4>1, <3>1 DEF MovedResult
    <3> QED BY <3>4, <3>5
  <2> QED BY <2>3, <2>4, <1>1
<1> QED BY <1>1, <1>2, <1>3, MovedBy

LEMMA MovedWrite == Moved /\ Write => Moved'
<1> SUFFICES ASSUME Moved, Write
             PROVE  Moved'
  OBVIOUS
<1>1. /\ status = "running" /\ top.fn \in Transfer /\ top.at = "write"
      /\ UNCHANGED <<command, before, foreign>>
      /\ \/ \E d \in {top.data, Torn} : Written(d)
         \/ fs' = [fs EXCEPT ![top.dst] = Nothing] /\ Fail
  BY DEF Write, At, Transfer
<1>2. Sound' /\ status' \in {"running", "done"}
  BY <1>1, SoundWrite DEF Moved, Fail, Finish, Written, Go, Succeed
<1>3. ASSUME Moving
      PROVE  MovedResult
  <2>1. /\ Dst \in Path /\ fs \in [Path -> Node] /\ top \in CallRecord /\ top.fn = "move"
        /\ fs[top.dst].kind = "file"
    BY <1>1, <1>3, MovingPaths, RunningTop, TransferTop DEF Moved, Moving, OpenFiles
  <2>2. fs[Dst] = Dir => fs'[Dst] = Dir
    BY <1>1, <2>1, NodeKinds DEF Written
  <2>3. CASE Fail
    BY <2>3 DEF MovedResult, Fail, Finish, Moving
  <2>4. CASE \E d \in {top.data, Torn} : Written(d)
    <3> DEFINE c == [top EXCEPT !.at = "unlink"]
    <3>1. c \in CallRecord /\ status' = "running"
      BY <2>1, <2>4, <1>1 DEF CallRecord, Written
    <3>2. calls' = <<c>> \o Tail(calls)
      BY <2>1, <2>4 DEF Written, Go
    <3> HIDE DEF c
    <3>3. CASE Len(calls) # 1
      BY <3>1, <3>2, <3>3, <2>2, <1>1, <1>3, MovedDeep
    <3>4. CASE Len(calls) = 1
      <4>1. ~DirOverDir'
        BY <3>4, <1>1, <1>3, MovedFile
      <4> QED BY <4>1, <3>1 DEF MovedResult
    <3> QED BY <3>3, <3>4
  <2> QED BY <2>3, <2>4, <1>1
<1> QED BY <1>1, <1>2, <1>3, MovedBy

LEMMA MovedRemove ==
  Moved /\ (Unlink \/ RemovePath \/ RemoveNext \/ RemoveFails) => Moved'
<1> SUFFICES ASSUME Moved, Unlink \/ RemovePath \/ RemoveNext \/ RemoveFails
             PROVE  Moved'
  OBVIOUS
<1>1. /\ status = "running" /\ status' \in {"running", "done"}
      /\ UNCHANGED <<command, before, foreign>>
      /\ (top.fn \in Transfer /\ top.at = "unlink") \/ top.fn = "remove"
      /\ \/ Fail /\ UNCHANGED fs
         \/ /\ UNCHANGED <<fs, status>> /\ top.fn = "remove"
            /\ calls' = <<[top EXCEPT !.at = "nftw", !.known = foreign]>> \o Tail(calls)
         \/ \E x \in Under(top.src) \cup {top.src} :
              /\ fs' = [fs EXCEPT ![x] = Nothing]
              /\ (Succeed /\ x = top.src) \/ (UNCHANGED <<calls, status>> /\ top.fn = "remove")
  BY DEF Unlink, RemovePath, RemoveNext, RemoveFails, At, Succeed, Fail, Finish, Transfer
<1>2. Sound'
  BY SoundUnlink, SoundRemove DEF Moved
<1>3. ASSUME Moving
      PROVE  MovedResult
  <2>1. /\ top \in CallRecord /\ top.src \in Path /\ IsPrefix(Src, top.src)
        /\ Src \in Path /\ Dst \in Path /\ ~IsPrefix(Src, Dst) /\ fs \in [Path -> Node]
        /\ foreign \subseteq Path
    BY <1>1, <1>3, RunningTop, MovingPaths DEF Moved, Sound, TypeOK
  <2>2. DirOverDir' => DirOverDir
    BY <1>1 DEF DirOverDir, Src, Dst
  <2>3. Len(calls) = 1 => top.src = Src /\ (DirOverDir' => fs[Dst] = Dir /\ top.fn = "remove")
    <3>1. top.at = "unlink" => top.at \notin {"stat", "mkdir", "list"}
      OBVIOUS
    <3>2. top.fn = "remove" => top.fn # "move"
      OBVIOUS
    <3> QED BY <3>1, <3>2, <2>2, <1>1, <1>3, MovedOuter, MovedOnly
  <2>4. CASE Fail
    BY <2>4 DEF MovedResult, Fail, Finish, Moving
  <2>5. CASE /\ UNCHANGED <<fs, status>> /\ top.fn = "remove"
             /\ calls' = <<[top EXCEPT !.at = "nftw", !.known = foreign]>> \o Tail(calls)
    <3> DEFINE c == [top EXCEPT !.at = "nftw", !.known = foreign]
    <3>1. c \in CallRecord /\ c.fn = "remove"
      BY <2>1, <2>5 DEF CallRecord
    <3>2. calls' = <<c>> \o Tail(calls) /\ status' = "running"
      BY <2>5, <1>1
    <3> HIDE DEF c
    <3>3. CASE Len(calls) # 1
      BY <3>1, <3>2, <3>3, <2>5, <1>1, <1>3, MovedDeep
    <3>4. CASE Len(calls) = 1
      BY <3>1, <3>2, <3>4, <2>3, <2>5, <1>1, <1>3, MovedGo
    <3> QED BY <3>3, <3>4
  <2>6. ASSUME NEW x \in Under(top.src) \cup {top.src}, fs' = [fs EXCEPT ![x] = Nothing],
               (Succeed /\ x = top.src) \/ (UNCHANGED <<calls, status>> /\ top.fn = "remove")
        PROVE  MovedResult
    <3>1. x \in Path /\ x # Dst
      <4>1. x \in Path /\ IsPrefix(top.src, x)
        BY <2>1, PrefixOrder DEF Under
      <4> QED BY <4>1, <2>1, PrefixOrder
    <3>2. fs'[Dst] = fs[Dst]
      BY <3>1, <2>1, <2>6
    <3>3. CASE Len(calls) # 1
      <4>1. status' = "running" /\ (calls' = calls \/ calls' = Tail(calls))
        BY <1>1, <2>6, <3>3 DEF Succeed
      <4> QED BY <4>1, <3>2, <3>3, <1>1, <1>3, MovedDeep
    <3>4. CASE Len(calls) = 1 /\ Succeed /\ x = top.src
      BY <3>4, <3>2, <2>1, <2>3, <2>6 DEF MovedResult, Succeed, Finish
    <3>5. CASE Len(calls) = 1 /\ UNCHANGED <<calls, status>> /\ top.fn = "remove"
      <4>1. calls'[Len(calls')] = top /\ status' = "running"
        BY <3>5, <1>1, <1>3, MovingPaths
      <4>2. top.fn # "move"
        BY <3>5
      <4> QED BY <4>1, <4>2, <3>2, <3>5, <2>3, <1>1, MovedAs
    <3> QED BY <3>3, <3>4, <3>5, <2>6
  <2> QED BY <2>4, <2>5, <2>6, <1>1
<1> QED BY <1>1, <1>2, <1>3, MovedBy

LEMMA MovedAddForeign == Moved /\ AddForeign => Moved'
<1> SUFFICES ASSUME Moved, AddForeign
             PROVE  Moved'
  OBVIOUS
<1>1. PICK x \in Path :
        fs[x] = Nothing /\ fs' = [fs EXCEPT ![x] = File(Foreign)] /\ foreign' = foreign \cup {x}
  BY DEF AddForeign, Fresh
<1>2. UNCHANGED <<command, status, calls, before>> /\ status = "running" /\ Sound'
  BY SoundAddForeign DEF AddForeign, Moved
<1>3. ASSUME Moving
      PROVE  MovedResult
  <2>1. /\ Src \in Path /\ Dst \in Path /\ fs \in [Path -> Node]
        /\ Dst # << >>
    <3>1. Dst # << >>
      BY <1>3, MovingPaths, CommandTypes DEF Moved, Moving, Sound, StackSound, Dst
    <3> QED BY <3>1, <1>3, MovingPaths
  <2>2. Parent(Dst) \in Path
    BY <2>1, ParentPath
  <2>3. \A p \in Path : (fs[p] = Dir => fs'[p] = Dir) /\ (p # x => fs'[p] = fs[p])
    BY <1>1, <2>1, NodeKinds
  <2>4. CASE Len(calls) # 1
    BY <2>1, <2>3, <2>4, <1>1, <1>2, <1>3, MovedDeep
  <2>5. CASE Len(calls) = 1
    <3>1. calls'[Len(calls')] = top
      BY <2>5, <1>2, <1>3, MovingPaths
    <3>2. DirOverDir' => DirOverDir /\ Dst # x
      BY <1>1, <1>2 DEF DirOverDir, Src, Dst
    <3>3. DirOverDir' =>
            IF top.fn = "move" /\ top.at \in {"stat", "mkdir"}
            THEN fs'[Src] = Dir /\ fs'[Parent(Dst)] = Dir /\ fs'[Dst] = before[Dst]
            ELSE fs'[Dst] = Dir /\ (top.at = "list" \/ top.fn = "remove")
      BY <3>2, <2>1, <2>2, <2>3, <2>5, <1>3, MovedOuter
    <3> QED BY <3>1, <3>3, <1>2, MovedAs
  <2> QED BY <2>4, <2>5
<1> QED BY <1>2, <1>3, MovedBy

LEMMA MovedReceive == Moved /\ Receive => Moved'
<1> SUFFICES ASSUME Moved, Receive
             PROVE  Moved'
  OBVIOUS
<1>1. PICK c \in Commands :
        /\ status = "idle" /\ command' = c /\ before' = fs /\ UNCHANGED foreign
        /\ ByRename(c) \/ Refused(c) \/ Chmod(c) \/ ByCall(c)
  BY DEF Receive
<1>2. Sound' /\ Src' = c.src /\ Dst' = c.dst /\ c.src \in Path /\ c.dst \in Path
  BY <1>1, SoundReceive, CommandTypes DEF Moved, Src, Dst
<1>3. CASE ByRename(c)
  <2>1. fs' = Renamed(fs, c.src, c.dst) /\ status' = "done"
    BY <1>3 DEF ByRename, Finish
  <2>2. ASSUME Apart'
        PROVE  fs'[c.src] = Nothing /\ fs'[c.dst] = fs[c.src]
    <3>1. c.src # c.dst /\ ~IsPrefix(c.dst, c.src) /\ IsPrefix(c.src, c.src) /\ IsPrefix(c.dst, c.dst)
      BY <1>2, <2>2, PrefixOrder DEF Apart
    <3>2. Rebased(c.dst, c.dst, c.src) = c.src
      BY <1>2, RebasedSource
    <3>3. /\ Renamed(fs, c.src, c.dst)[c.src] = Nothing
          /\ Renamed(fs, c.src, c.dst)[c.dst] = fs[Rebased(c.dst, c.dst, c.src)]
      BY <1>2, <3>1, <3>2, RenamedAt
    <3> QED BY <2>1, <3>2, <3>3
  <2> QED BY <2>1, <2>2, <1>1, <1>2 DEF Moved, Moving, DirOverDir
<1>4. CASE Refused(c) \/ Chmod(c)
  <2>1. status' = "done" /\ (c.type = "move" => answer' = "failed")
    BY <1>4 DEF Refused, Chmod, Finish
  <2> QED BY <2>1, <1>1, <1>2 DEF Moved, Moving
<1>5. CASE ByCall(c)
  <2>1. /\ status' = "running" /\ UNCHANGED fs
        /\ c.type = "move" => fs[Parent(c.dst)] = Dir /\ calls' = <<Call(c.type, c.src, c.dst)>>
    BY <1>5 DEF ByCall
  <2>2. ASSUME c.type = "move", DirOverDir'
        PROVE  DirMoved'
    <3> DEFINE k == Call(c.type, c.src, c.dst)
    <3>1. k.fn = "move" /\ k.at = "stat"
      BY <2>2 DEF Call
    <3>2. calls' = <<k>>
      BY <2>1, <2>2
    <3> HIDE DEF k
    <3>3. calls'[Len(calls')] = k
      BY <3>2
    <3> QED BY <3>1, <3>3, <2>1, <2>2, <1>1, <1>2 DEF DirMoved, DirOverDir
  <2> QED BY <2>1, <2>2, <1>1, <1>2 DEF Moved, Moving
<1> QED BY <1>1, <1>3, <1>4, <1>5

LEMMA MovedNext == Moved /\ [Next]_vars => Moved'
<1> SUFFICES ASSUME Moved, [Next]_vars
             PROVE  Moved'
  OBVIOUS
<1>1. Sound /\ Sound'
  BY SoundNext DEF Moved
<1>2. CASE MakeDirectory \/ LinkDirectory \/ Symlink \/ UnlinkOld \/ SymlinkAgain \/ AddAtLink
  <2>1. /\ status = "running" /\ status' \in {"running", "done"}
        /\ UNCHANGED <<command, before>>
        /\ top.fn \in {"mkdir", "link"} \/ command.type = "link"
    BY <1>2 DEF MakeDirectory, Tries, LinkDirectory, Symlink, MakeLink, Go, UnlinkOld, SymlinkAgain, AddAtLink, At, Finish
  <2>2. command.type # "move"
    BY <2>1, <1>1, SingleTop
  <2> QED BY <2>1, <2>2, <1>1, MovedBy DEF Moving
<1>3. CASE UNCHANGED vars
  BY <1>1, <1>3 DEF vars, Moved, Moving, DirMoved, DirOverDir, Apart, Src, Dst
<1> QED BY <1>2, <1>3, MovedReceive, MovedStat, MovedMkdir, MovedListEntry, MovedListEnd,
           MovedOpen, MovedWrite, MovedRemove, MovedAddForeign DEF Next, BackEnd

LEMMA MovedAlways == Spec => []Moved
<1>1. Init => Moved
  BY SoundInit DEF Init, Moved, Moving
<1> QED BY <1>1, MovedNext, PTL DEF Spec

(* A move that is answered with success has left nothing at the source,    *)
(* brought every file over unless a write failed, and made a directory of  *)
(* a directory: the result of mkdir, which move_directory ignores, does no *)
(* harm unless a file was in its place.                                    *)
THEOREM MovesAreComplete == Spec => []MoveIsComplete
<1>1. Carried /\ Moved => MoveIsComplete
  BY DEF Carried, Moved, MoveIsComplete, DirOverDir, Transfer, Arrived
<1> QED BY <1>1, CarriedAlways, MovedAlways, PTL

(* What has been done so far, of every command that is under way: the      *)
(* invariant of the code from which the properties above follow.           *)
THEOREM EverythingUnderway == Spec => []Underway
<1>1. StackSound /\ Effected /\ Honest /\ Carried /\ Moved => Underway
  BY DEF Underway, Effected, Honest, SingleUnderway, Carried, Carrying, Moved, Moving
<1> QED BY <1>1, StackIsSound, EffectedAlways, HonestAlways, CarriedAlways, MovedAlways, PTL
=============================================================================
