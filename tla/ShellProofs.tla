----------------------------- MODULE ShellProofs -----------------------------
(***************************************************************************)
(* Theorems about Shell, for any number of shells, any tree and operands,  *)
(* any files and modes.                                                    *)
(***************************************************************************)
EXTENDS Shell, FileTreeProofs, FiniteSetTheorems

(* TypeOK, variable by variable.                                           *)
TreeTyped  == fs \in [Path -> Node] /\ IsTree(fs)
InodeTyped == inode \in [Inodes -> [data : Inodes \cup {Empty, Torn}, mode : SUBSET Bits]]
Somewhere(s) == cwd[s] = Gone \/ At(fs, cwd[s]) = Dir
CwdTyped   == DOMAIN cwd = Shells /\ \A s \in Shells : Somewhere(s)

Controlled ==
  /\ pc \in [Shells -> Places]
  /\ child \in [Shells -> {"none", "running", "ended", "refused"}]
  /\ \A s \in Shells : pc[s] \notin {"wait"} \cup Over => child[s] = "none"
  /\ given \in 0..MaxCommands

Proper(j) ==
  /\ DOMAIN j = DOMAIN NoJob
  /\ {j.from, j.to} \subseteq Inodes \cup {NoFile}
  /\ j.typed \in Octal \cup Letters /\ j.seen \subseteq Bits
JobTyped == DOMAIN job = Shells /\ \A s \in Shells : Proper(job[s])

Recorded == intruded \in [Shells -> BOOLEAN] /\ spoiled \in [Shells -> BOOLEAN]

Typed == TreeTyped /\ InodeTyped /\ CwdTyped /\ Controlled /\ JobTyped /\ Recorded

LEMMA TypedIsTypeOK == Typed <=> TypeOK
BY DEF Typed, TypeOK, TreeTyped, InodeTyped, CwdTyped, Somewhere, Controlled, JobTyped, Proper, Recorded

LEMMA TypeInit == Init => Typed
<1> SUFFICES ASSUME Init
             PROVE  Typed
  OBVIOUS
<1>1. TreeTyped /\ InodeTyped
  BY ShellAssumption DEF Init, TreeTyped, InodeTyped, Bits, Who
<1>2. fs[<< >>] = Dir /\ << >> \in Path
  BY <1>1, PathTypes DEF TreeTyped, IsTree
<1>3. CwdTyped
  BY <1>2 DEF Init, CwdTyped, Somewhere, At
<1>4. Proper(NoJob)
  BY DEF Proper, NoJob, DirMode, Octal
<1>5. JobTyped
  BY <1>4 DEF Init, JobTyped
<1>6. Controlled /\ Recorded
  BY ShellAssumption DEF Init, Controlled, Recorded, Places
<1> QED BY <1>1, <1>3, <1>5, <1>6 DEF Typed

-----------------------------------------------------------------------------
(* What a step may do to each part.                                        *)

LEMMA EnterControlled ==
  ASSUME Controlled, NEW s \in Shells, NEW at \in Places, Enter(s, at), UNCHANGED child,
         pc[s] \notin {"wait"} \cup Over, given' \in 0..MaxCommands
  PROVE  Controlled'
BY DEF Controlled, Enter

LEMMA GivenOnce ==
  ASSUME Controlled, NEW s \in Shells, Given(s)
  PROVE  given' \in 0..MaxCommands /\ pc[s] \notin {"wait"} \cup Over
BY ShellAssumption DEF Controlled, Given, Over

LEMMA JobSet ==
  ASSUME JobTyped, NEW s \in Shells, DOMAIN job' = Shells,
         \A u \in Shells : u # s => job'[u] = job[u], Proper(job'[s])
  PROVE  JobTyped'
BY DEF JobTyped

LEMMA CwdKept ==
  ASSUME CwdTyped, UNCHANGED cwd, \A p \in Path : fs[p] = Dir => fs'[p] = Dir
  PROVE  CwdTyped'
BY NodeKinds DEF CwdTyped, Somewhere, At

LEMMA CwdOf ==
  ASSUME CwdTyped, UNCHANGED fs, NEW s \in Shells, NEW p, At(fs, p) = Dir,
         cwd' = [cwd EXCEPT ![s] = p] \/ UNCHANGED cwd
  PROVE  CwdTyped'
BY DEF CwdTyped, Somewhere, At

LEMMA ChangeRecorded ==
  ASSUME Recorded, NEW s, NEW t, Change(s, t)
  PROVE  fs' = t /\ intruded' \in [Shells -> BOOLEAN]
BY DEF Recorded, Change

LEMMA NodePut ==
  ASSUME TreeTyped, NEW p \in Path, NEW v \in Node, p # << >>,
         v = Nothing \/ fs[Parent(p)] = Dir, fs[p] # Dir \/ Children(fs, p) = {},
         fs' = [fs EXCEPT ![p] = v]
  PROVE  TreeTyped' /\ \A q \in Path : q # p => fs'[q] = fs[q]
<1>1. Children(fs, p) = {}
  BY OnlyDirsHaveChildren DEF TreeTyped
<1>2. IsTree([fs EXCEPT ![p] = v])
  BY <1>1, TreeExcept DEF TreeTyped
<1> QED BY <1>2 DEF TreeTyped

LEMMA NodePlaces ==
  /\ Nothing \in Node /\ Dir \in Node
  /\ \A i \in Inodes : File(i) \in Node
  /\ \A p \in Path : Link(p) \in Node
  /\ \A p : At(fs, p) # Nothing => p \in Path /\ At(fs, p) = fs[p]
BY DEF Node, At

-----------------------------------------------------------------------------
(* Steps that leave the tree alone.                                        *)

LEMMA TypeLoop ==
  ASSUME Typed, NEW s \in Shells,
         Prompt(s) \/ Quit(s) \/ Prints(s) \/ Lost(s) \/ StartAgain(s)
  PROVE  Typed'
<1>1. /\ TreeTyped /\ InodeTyped /\ CwdTyped /\ Controlled /\ JobTyped /\ Recorded
  BY DEF Typed
<1>2. /\ UNCHANGED <<fs, inode, intruded, spoiled, job, child, given>>
      /\ pc[s] \notin {"wait"} \cup Over
      /\ \E at \in Places : Enter(s, at)
      /\ UNCHANGED cwd \/ \E p : At(fs, p) = Dir /\ cwd' = [cwd EXCEPT ![s] = p]
  BY DEF Prompt, Quit, Prints, Lost, StartAgain, Keep, disk, Return, Fail, Over, Places
<1>3. TreeTyped' /\ InodeTyped' /\ JobTyped' /\ Recorded'
  BY <1>1, <1>2 DEF TreeTyped, InodeTyped, JobTyped, Recorded
<1>4. CwdTyped'
  BY <1>1, <1>2, CwdOf, CwdKept
<1>5. Controlled'
  BY <1>1, <1>2, EnterControlled DEF Controlled
<1> QED BY <1>3, <1>4, <1>5 DEF Typed

LEMMA TypeCd ==
  ASSUME Typed, NEW s \in Shells, cmd_cd_home(s) \/ \E o \in Operands : cmd_cd(s, o)
  PROVE  Typed'
<1>1. /\ TreeTyped /\ InodeTyped /\ CwdTyped /\ Controlled /\ JobTyped /\ Recorded
  BY DEF Typed
<1>2. /\ UNCHANGED <<fs, inode, intruded, spoiled, job, child>>
      /\ Given(s) /\ Enter(s, "top")
      /\ UNCHANGED cwd \/ \E p : At(fs, p) = Dir /\ cwd' = [cwd EXCEPT ![s] = p]
  BY DEF cmd_cd_home, cmd_cd, GivenHere, Return
<1>3. TreeTyped' /\ InodeTyped' /\ JobTyped' /\ Recorded'
  BY <1>1, <1>2 DEF TreeTyped, InodeTyped, JobTyped, Recorded
<1>4. CwdTyped'
  BY <1>1, <1>2, CwdOf, CwdKept
<1>5. Controlled'
  BY <1>1, <1>2, EnterControlled, GivenOnce DEF Places
<1> QED BY <1>3, <1>4, <1>5 DEF Typed

(* A command reads the tree and remembers what it has read.                *)
LEMMA TypeRead ==
  ASSUME Typed, NEW s \in Shells, UNCHANGED <<fs, inode, cwd, child>>,
         UNCHANGED intruded \/ intruded' = [intruded EXCEPT ![s] = FALSE],
         spoiled' \in [Shells -> BOOLEAN],
         DOMAIN job' = Shells, \A u \in Shells : u # s => job'[u] = job[u], Proper(job'[s]),
         UNCHANGED pc \/ \E at \in Places : Enter(s, at) /\ pc[s] \notin {"wait"} \cup Over,
         given' \in 0..MaxCommands
  PROVE  Typed'
<1>1. /\ TreeTyped /\ InodeTyped /\ CwdTyped /\ Controlled /\ JobTyped /\ Recorded
  BY DEF Typed
<1>2. TreeTyped' /\ InodeTyped' /\ Recorded'
  BY <1>1 DEF TreeTyped, InodeTyped, Recorded
<1>3. CwdTyped'
  BY <1>1, CwdKept
<1>4. JobTyped'
  BY <1>1, JobSet
<1>5. Controlled'
  BY <1>1, EnterControlled DEF Controlled
<1> QED BY <1>2, <1>3, <1>4, <1>5 DEF Typed

LEMMA ProperJobs ==
  ASSUME Typed
  PROVE  /\ DOMAIN job = Shells /\ \A s \in Shells : Proper(job[s])
         /\ Proper(NoJob)
         /\ intruded \in [Shells -> BOOLEAN] /\ spoiled \in [Shells -> BOOLEAN]
         /\ given \in 0..MaxCommands
         /\ \A i \in Inodes : inode[i].mode \subseteq Bits
<1>1. Proper(NoJob)
  BY DEF Proper, NoJob, DirMode, Octal
<1> QED BY <1>1 DEF Typed, JobTyped, Recorded, Controlled, InodeTyped

LEMMA TypeList ==
  ASSUME Typed, NEW s \in Shells,
         \/ \E todo : cmd_ls(s, todo)
         \/ run_li(s) \/ (\E e \in job[s].left : lstat(s, e)) \/ read_symbolic(s)
  PROVE  Typed'
<1>1. /\ UNCHANGED <<fs, inode, cwd, child, spoiled>>
      /\ UNCHANGED intruded \/ intruded' = [intruded EXCEPT ![s] = FALSE]
      /\ UNCHANGED pc \/ \E at \in Places : Enter(s, at) /\ pc[s] \notin {"wait"} \cup Over
      /\ given' = given \/ Given(s)
  BY DEF cmd_ls, run_li, lstat, read_symbolic, disk, Keep, Enter, Return, Fail, GivenHere, Given,
         Places, Over
<1>2. given' \in 0..MaxCommands /\ spoiled' \in [Shells -> BOOLEAN]
  BY <1>1, GivenOnce, ProperJobs DEF Typed
<1>3. /\ DOMAIN job' = Shells /\ \A u \in Shells : u # s => job'[u] = job[u]
      /\ Proper(job'[s])
  <2>1. DOMAIN job = Shells /\ Proper(job[s]) /\ Proper(NoJob)
    BY ProperJobs
  <2>2. ASSUME NEW todo, cmd_ls(s, todo)
        PROVE  <1>3!:
    BY <2>1, <2>2 DEF cmd_ls, Proper, NoJob
  <2>3. CASE run_li(s)
    BY <2>1, <2>3 DEF run_li, Proper, NoJob
  <2>4. ASSUME NEW e \in job[s].left, lstat(s, e)
        PROVE  <1>3!:
    BY <2>1, <2>4 DEF lstat, Proper, NoJob
  <2>5. CASE read_symbolic(s)
    BY <2>1, <2>5 DEF read_symbolic, Keep
  <2> QED BY <2>2, <2>3, <2>4, <2>5
<1> QED BY <1>1, <1>2, <1>3, TypeRead

(* chmod and cp start: what they read has its type.                        *)
LEMMA TypeStat ==
  ASSUME Typed, NEW s \in Shells, NEW f \in Formats, NEW o \in Operands, cmd_chmod(s, f, o)
  PROVE  Typed'
<1>1. /\ UNCHANGED <<fs, inode, cwd, intruded, child, spoiled>> /\ Given(s)
      /\ \E at \in Places : Enter(s, at) /\ pc[s] \notin {"wait"} \cup Over
  BY DEF cmd_chmod, disk, Enter, Return, GivenHere, Given, Places, Over
<1>2. given' \in 0..MaxCommands /\ spoiled' \in [Shells -> BOOLEAN]
  BY <1>1, GivenOnce, ProperJobs DEF Typed
<1>3. /\ DOMAIN job' = Shells /\ \A u \in Shells : u # s => job'[u] = job[u]
      /\ Proper(job'[s])
  <2>1. DOMAIN job = Shells /\ Proper(job[s]) /\ \A i \in Inodes : inode[i].mode \subseteq Bits
    BY ProperJobs
  <2>2. f \in Octal \cup Letters
    BY ShellAssumption
  <2>3. PICK i \in FileAt(Absolute(s, o)) :
          \/ UNCHANGED job
          \/ job' = [job EXCEPT ![s].path = Absolute(s, o), ![s].typed = f,
                                ![s].seen = inode[i].mode, ![s].from = i]
    BY DEF cmd_chmod
  <2>4. i \in Inodes
    BY DEF FileAt
  <2> QED BY <2>1, <2>2, <2>3, <2>4 DEF Proper, NoJob
<1> QED BY <1>1, <1>2, <1>3, TypeRead

LEMMA TypeCp ==
  ASSUME Typed, NEW s \in Shells, NEW o \in Operands, NEW n \in Operands, cmd_cp(s, o, n)
  PROVE  Typed'
<1>1. /\ UNCHANGED <<fs, inode, cwd, intruded, child>> /\ Given(s)
      /\ \E at \in Places : Enter(s, at) /\ pc[s] \notin {"wait"} \cup Over
      /\ spoiled' = [spoiled EXCEPT ![s] = FALSE]
  BY DEF cmd_cp, Enter, GivenHere, Given, Places, Over
<1>2. given' \in 0..MaxCommands /\ spoiled' \in [Shells -> BOOLEAN]
  BY <1>1, GivenOnce, ProperJobs DEF Typed
<1>3. /\ DOMAIN job' = Shells /\ \A u \in Shells : u # s => job'[u] = job[u]
      /\ Proper(job'[s])
  <2>1. DOMAIN job = Shells /\ Proper(job[s])
    BY ProperJobs
  <2>2. PICK i, p, w : i \in Inodes \cup {NoFile} /\
          job' = [job EXCEPT ![s].path = p, ![s].from = i, ![s].was = w]
    BY DEF cmd_cp, FileAt
  <2> QED BY <2>1, <2>2 DEF Proper, NoJob
<1> QED BY <1>1, <1>2, <1>3, TypeRead

(* A shell that is killed leaves its program behind.                       *)
LEMMA TypePrograms ==
  ASSUME Typed, NEW s \in Shells,
         \/ \E o \in Operands : cmd_run(s, o)
         \/ ChildEnds(s) \/ waitid(s) \/ \E u \in Shells : cmd_kill(s, u)
  PROVE  Typed'
<1>1. UNCHANGED disk /\ (given' = given \/ Given(s))
  BY DEF cmd_run, ChildEnds, waitid, cmd_kill, GivenHere, disk
<1>2. TreeTyped' /\ InodeTyped' /\ Recorded' /\ CwdTyped'
  BY <1>1, CwdKept DEF Typed, disk, TreeTyped, InodeTyped, Recorded
<1>3. given' \in 0..MaxCommands
  BY <1>1, GivenOnce, ProperJobs DEF Typed
<1>4. JobTyped'
  BY ProperJobs DEF cmd_run, ChildEnds, waitid, cmd_kill, JobTyped
<1>5. Controlled'
  <2>1. Controlled
    BY DEF Typed
  <2>2. ASSUME NEW o \in Operands, cmd_run(s, o)
        PROVE  Controlled'
    BY <2>1, <2>2, <1>3 DEF cmd_run, GivenHere, Given, Controlled, Enter, Fail, Places, Over
  <2>3. CASE ChildEnds(s)
    BY <2>1, <2>3, <1>3 DEF ChildEnds, Controlled
  <2>4. CASE waitid(s)
    BY <2>1, <2>4, <1>3 DEF waitid, Controlled, Enter, Return, Places
  <2>5. ASSUME NEW u \in Shells, cmd_kill(s, u)
        PROVE  Controlled'
    BY <2>1, <2>5, <1>3 DEF cmd_kill, Controlled, Given, Places, Over
  <2> QED BY <2>2, <2>3, <2>4, <2>5
<1> QED BY <1>2, <1>3, <1>4, <1>5 DEF Typed

-----------------------------------------------------------------------------
(* Steps that change files.                                                *)

LEMMA FormatTyped ==
  ASSUME NEW f \in Octal \cup Letters, NEW m, m \subseteq Bits
  PROVE  chmod_format(f, m) \subseteq Bits
<1>1. CASE f.octal
  BY <1>1 DEF chmod_format, Octal, Letters
<1>2. CASE ~f.octal
  <2>1. f.who \subseteq Who /\ f.perm \subseteq {"r", "x"}
    BY <1>2 DEF Octal, Letters
  <2>2. (IF f.who = {} THEN Who ELSE f.who) \X f.perm \subseteq Bits
    BY <2>1 DEF Bits
  <2> HIDE DEF Bits
  <2> QED BY <1>2, <2>2 DEF chmod_format
<1> QED BY <1>1, <1>2

LEMMA TypeChmod ==
  ASSUME Typed, NEW s \in Shells, chmod(s)
  PROVE  Typed'
<1>1. /\ UNCHANGED <<fs, cwd, intruded, spoiled, child, given>>
      /\ pc[s] \notin {"wait"} \cup Over /\ Enter(s, "top")
      /\ job' = [job EXCEPT ![s] = NoJob]
      /\ inode' = [i \in Inodes |->
                     IF i \in FileAt(job[s].path)
                     THEN [inode[i] EXCEPT !.mode = chmod_format(job[s].typed, job[s].seen)]
                     ELSE inode[i]]
  BY DEF chmod, Return, Over
<1>2. TreeTyped' /\ Recorded' /\ CwdTyped'
  BY <1>1, CwdKept DEF Typed, TreeTyped, Recorded
<1>3. Controlled'
  BY <1>1, EnterControlled DEF Typed, Controlled, Places
<1>4. JobTyped'
  BY <1>1, ProperJobs, JobSet DEF Typed
<1>5. InodeTyped'
  <2>1. chmod_format(job[s].typed, job[s].seen) \subseteq Bits
    BY ProperJobs, FormatTyped DEF Proper
  <2> HIDE DEF Bits
  <2> QED BY <1>1, <2>1 DEF Typed, InodeTyped
<1> QED BY <1>2, <1>3, <1>4, <1>5 DEF Typed

LEMMA TypeCopy ==
  ASSUME Typed, NEW s \in Shells, copy_file(s)
  PROVE  Typed'
<1>1. /\ UNCHANGED <<fs, cwd, intruded, child, given>>
      /\ pc[s] \notin {"wait"} \cup Over /\ Enter(s, "top")
      /\ job' = [job EXCEPT ![s] = NoJob]
      /\ spoiled' \in [Shells -> BOOLEAN]
  BY DEF copy_file, Return, Over, Spoil, Typed, Recorded
<1>2. TreeTyped' /\ CwdTyped'
  BY <1>1, CwdKept DEF Typed, TreeTyped
<1>3. Controlled'
  BY <1>1, EnterControlled DEF Typed, Controlled, Places
<1>4. JobTyped'
  BY <1>1, ProperJobs, JobSet DEF Typed
<1>5. Recorded'
  BY <1>1 DEF Typed, Recorded
<1>6. InodeTyped'
  <2>1. job[s].from \in Inodes \cup {NoFile} /\ InodeTyped
    BY ProperJobs DEF Proper, Typed
  <2>2. PICK x \in Inodes \cup {Empty, Torn} :
          \/ inode' = [inode EXCEPT ![job[s].to].data = IF x = Empty THEN @ ELSE x]
          \/ inode' = [inode EXCEPT ![job[s].to].data = x]
          \/ inode' = [inode EXCEPT ![job[s].to].data = inode[job[s].to].data]
    BY <2>1 DEF copy_file, InodeTyped
  <2> QED BY <2>1, <2>2 DEF InodeTyped
<1> QED BY <1>2, <1>3, <1>4, <1>5, <1>6 DEF Typed

-----------------------------------------------------------------------------
(* Steps that change the tree.                                             *)

(* What they have in common: the shell goes on, the tree is still one, and *)
(* every shell is still somewhere.                                         *)
LEMMA TypeChange ==
  ASSUME Typed, NEW s \in Shells, NEW at \in Places, Enter(s, at), NEW t, Change(s, t),
         pc[s] \notin {"wait"} \cup Over, UNCHANGED child, given' \in 0..MaxCommands,
         TreeTyped', CwdTyped', InodeTyped', spoiled' \in [Shells -> BOOLEAN],
         DOMAIN job' = Shells, \A u \in Shells : u # s => job'[u] = job[u], Proper(job'[s])
  PROVE  Typed'
<1>1. Controlled'
  BY EnterControlled DEF Typed
<1>2. JobTyped'
  BY JobSet DEF Typed
<1>3. Recorded'
  BY ChangeRecorded DEF Typed, Recorded
<1> QED BY <1>1, <1>2, <1>3 DEF Typed

(* A name is added.                                                        *)
LEMMA NodeAdded ==
  ASSUME Typed, NEW p, Fresh(fs, p), p \in Path, NEW v \in Node, v # Nothing,
         fs' = [fs EXCEPT ![p] = v], UNCHANGED cwd
  PROVE  TreeTyped' /\ CwdTyped'
<1>1. p # << >> /\ fs[p] = Nothing /\ fs[Parent(p)] = Dir
  BY DEF Fresh
<1>2. TreeTyped' /\ \A q \in Path : q # p => fs'[q] = fs[q]
  BY <1>1, NodePut, NodeKinds DEF Typed
<1>3. CwdTyped'
  BY <1>1, <1>2, CwdKept, NodeKinds DEF Typed
<1> QED BY <1>2, <1>3

LEMMA NothingChanged ==
  ASSUME Typed, UNCHANGED <<fs, cwd>>
  PROVE  TreeTyped' /\ CwdTyped'
BY CwdKept DEF Typed, TreeTyped

LEMMA TypeStart == ASSUME Typed, NEW s \in Shells, Start(s) PROVE Typed'
<1>1. /\ UNCHANGED <<inode, spoiled, job, child, given>> /\ pc[s] \notin {"wait"} \cup Over
      /\ \/ /\ At(fs, Real(fs, Base)) = Dir /\ cwd' = [cwd EXCEPT ![s] = Real(fs, Base)]
            /\ Enter(s, "top") /\ UNCHANGED <<fs, intruded>>
         \/ /\ Change(s, IF Fresh(fs, Base) THEN [fs EXCEPT ![Base] = Dir] ELSE fs)
            /\ Enter(s, "starting") /\ UNCHANGED cwd
  BY DEF Start, Return, Over
<1>2. InodeTyped' /\ spoiled' \in [Shells -> BOOLEAN] /\ given' \in 0..MaxCommands /\ JobTyped'
  BY <1>1, ProperJobs DEF Typed, InodeTyped, JobTyped
<1>3. CASE /\ At(fs, Real(fs, Base)) = Dir /\ cwd' = [cwd EXCEPT ![s] = Real(fs, Base)]
           /\ Enter(s, "top") /\ UNCHANGED <<fs, intruded>>
  <2>1. TreeTyped' /\ CwdTyped'
    BY <1>3, CwdOf DEF Typed, TreeTyped
  <2>2. Controlled' /\ Recorded'
    BY <1>1, <1>2, <1>3, EnterControlled DEF Typed, Places, Recorded
  <2> QED BY <1>2, <2>1, <2>2 DEF Typed
<1>4. CASE /\ Change(s, IF Fresh(fs, Base) THEN [fs EXCEPT ![Base] = Dir] ELSE fs)
           /\ Enter(s, "starting") /\ UNCHANGED cwd
  <2>1. TreeTyped' /\ CwdTyped'
    <3>1. Base \in Path
      BY ShellAssumption
    <3>2. CASE Fresh(fs, Base)
      BY <1>4, <3>1, <3>2, NodeAdded, NodePlaces, NodeKinds DEF Change
    <3>3. CASE ~Fresh(fs, Base)
      BY <1>4, <3>3, NothingChanged DEF Change
    <3> QED BY <3>2, <3>3
  <2>2. Controlled' /\ Recorded'
    BY <1>1, <1>2, <1>4, EnterControlled, ChangeRecorded DEF Typed, Places, Recorded
  <2> QED BY <1>2, <2>1, <2>2 DEF Typed
<1> QED BY <1>1, <1>3, <1>4

LEMMA TypeMkdir ==
  ASSUME Typed, NEW s \in Shells, NEW o \in Operands, cmd_mkdir(s, o)
  PROVE  Typed'
<1> DEFINE p == Entry(fs, Absolute(s, o))
<1>1. /\ Given(s) /\ UNCHANGED <<inode, cwd, spoiled, child>>
      /\ \/ /\ p \in Path /\ Fresh(fs, p) /\ Change(s, [fs EXCEPT ![p] = Dir])
            /\ job' = [job EXCEPT ![s].path = Absolute(s, o)]
            /\ Enter(s, "chmod")
         \/ Enter(s, "top") /\ UNCHANGED <<fs, intruded, job>>
  BY DEF cmd_mkdir, GivenHere, Return
<1> HIDE DEF p
<1>2. /\ InodeTyped' /\ spoiled' \in [Shells -> BOOLEAN] /\ given' \in 0..MaxCommands
      /\ pc[s] \notin {"wait"} \cup Over
  BY <1>1, ProperJobs, GivenOnce DEF Typed, InodeTyped
<1>3. /\ DOMAIN job' = Shells /\ \A u \in Shells : u # s => job'[u] = job[u]
      /\ Proper(job'[s])
  BY <1>1, ProperJobs DEF Proper, NoJob
<1>4. CASE /\ p \in Path /\ Fresh(fs, p) /\ Change(s, [fs EXCEPT ![p] = Dir])
           /\ Enter(s, "chmod")
  <2>1. TreeTyped' /\ CwdTyped'
    BY <1>1, <1>4, NodeAdded, NodePlaces, NodeKinds DEF Change
  <2> QED BY <1>1, <1>2, <1>3, <1>4, <2>1, TypeChange DEF Places
<1>5. CASE Enter(s, "top") /\ UNCHANGED <<fs, intruded, job>>
  BY <1>1, <1>2, <1>3, <1>5, TypeRead DEF Places
<1> QED BY <1>1, <1>4, <1>5

LEMMA TypeRmdir ==
  ASSUME Typed, NEW s \in Shells, NEW o \in Operands, cmd_rmdir(s, o)
  PROVE  Typed'
<1> DEFINE p == Entry(fs, Absolute(s, o))
<1>1. /\ Given(s) /\ UNCHANGED <<inode, spoiled, job, child>> /\ Enter(s, "top")
      /\ \/ /\ p # << >> /\ At(fs, p) = Dir /\ Children(fs, p) = {}
            /\ Change(s, [fs EXCEPT ![p] = Nothing])
            /\ cwd' = [u \in Shells |-> IF cwd[u] = p THEN Gone ELSE cwd[u]]
         \/ UNCHANGED <<fs, intruded, cwd>>
  BY DEF cmd_rmdir, GivenHere, Return
<1> HIDE DEF p
<1>2. /\ InodeTyped' /\ spoiled' \in [Shells -> BOOLEAN] /\ given' \in 0..MaxCommands
      /\ pc[s] \notin {"wait"} \cup Over
      /\ DOMAIN job' = Shells /\ \A u \in Shells : u # s => job'[u] = job[u]
      /\ Proper(job'[s])
  BY <1>1, ProperJobs, GivenOnce DEF Typed, InodeTyped
<1>3. CASE /\ p # << >> /\ At(fs, p) = Dir /\ Children(fs, p) = {}
           /\ Change(s, [fs EXCEPT ![p] = Nothing])
           /\ cwd' = [u \in Shells |-> IF cwd[u] = p THEN Gone ELSE cwd[u]]
  <2>1. p \in Path /\ fs' = [fs EXCEPT ![p] = Nothing]
    BY <1>3, NodePlaces, NodeKinds DEF Change
  <2>2. TreeTyped' /\ \A q \in Path : q # p => fs'[q] = fs[q]
    BY <2>1, <1>3, NodePut, NodePlaces DEF Typed
  <2>3. CwdTyped'
    BY <2>2, <1>3, NodeKinds DEF Typed, CwdTyped, Somewhere, At
  <2> QED BY <1>1, <1>2, <1>3, <2>2, <2>3, TypeChange DEF Places
<1>4. CASE UNCHANGED <<fs, intruded, cwd>>
  BY <1>1, <1>2, <1>4, TypeRead DEF Places
<1> QED BY <1>1, <1>3, <1>4

LEMMA TypeRm ==
  ASSUME Typed, NEW s \in Shells, NEW o \in Operands, cmd_rm(s, o)
  PROVE  Typed'
<1> DEFINE p == Entry(fs, Absolute(s, o))
<1>1. /\ Given(s) /\ UNCHANGED <<inode, cwd, spoiled, job, child>> /\ Enter(s, "top")
      /\ Change(s, IF At(fs, p) \in {Nothing, Dir} THEN fs ELSE [fs EXCEPT ![p] = Nothing])
  BY DEF cmd_rm, GivenHere, Return
<1> HIDE DEF p
<1>2. /\ InodeTyped' /\ spoiled' \in [Shells -> BOOLEAN] /\ given' \in 0..MaxCommands
      /\ pc[s] \notin {"wait"} \cup Over
      /\ DOMAIN job' = Shells /\ \A u \in Shells : u # s => job'[u] = job[u]
      /\ Proper(job'[s])
  BY <1>1, ProperJobs, GivenOnce DEF Typed, InodeTyped
<1>3. TreeTyped' /\ CwdTyped'
  <2>1. CASE At(fs, p) \in {Nothing, Dir}
    BY <1>1, <2>1, NothingChanged DEF Change
  <2>2. CASE At(fs, p) \notin {Nothing, Dir}
    <3>1. p \in Path /\ fs[p] # Dir /\ fs[<< >>] = Dir /\ fs' = [fs EXCEPT ![p] = Nothing]
      BY <1>1, <2>2, NodePlaces DEF Change, Typed, TreeTyped, IsTree
    <3>2. TreeTyped' /\ \A q \in Path : q # p => fs'[q] = fs[q]
      BY <3>1, NodePut, NodePlaces DEF Typed
    <3> QED BY <1>1, <3>1, <3>2, CwdKept DEF Typed
  <2> QED BY <2>1, <2>2
<1> QED BY <1>1, <1>2, <1>3, TypeChange DEF Places

LEMMA TypeLn ==
  ASSUME Typed, NEW s \in Shells, NEW symbolic \in BOOLEAN, NEW o \in Operands,
         NEW n \in Operands, cmd_ln(s, symbolic, o, n)
  PROVE  Typed'
<1> DEFINE old == At(fs, Entry(fs, Absolute(s, o)))
           new == Entry(fs, Absolute(s, n))
           node == IF symbolic THEN Link(Absolute(s, o)) ELSE old
           able == new \in Path /\ Fresh(fs, new) /\ node \notin {Nothing, Dir}
<1>1. /\ Given(s) /\ UNCHANGED <<inode, cwd, spoiled, job, child>> /\ Enter(s, "top")
      /\ Change(s, IF able THEN [fs EXCEPT ![new] = node] ELSE fs)
      /\ Absolute(s, o) \in Path
  BY DEF cmd_ln, GivenHere, Return, Allowed
<1>2. /\ InodeTyped' /\ spoiled' \in [Shells -> BOOLEAN] /\ given' \in 0..MaxCommands
      /\ pc[s] \notin {"wait"} \cup Over
      /\ DOMAIN job' = Shells /\ \A u \in Shells : u # s => job'[u] = job[u]
      /\ Proper(job'[s])
  BY <1>1, ProperJobs, GivenOnce DEF Typed, InodeTyped
<1>3. TreeTyped' /\ CwdTyped'
  <2>1. old \in Node
    BY NodePlaces DEF Typed, TreeTyped, At
  <2>2. node \in Node
    BY <1>1, <2>1, NodePlaces
  <2> HIDE DEF new, node
  <2>3. CASE able
    BY <1>1, <2>2, <2>3, NodeAdded DEF Change
  <2>4. CASE ~able
    BY <1>1, <2>4, NothingChanged DEF Change
  <2> QED BY <2>3, <2>4
<1> HIDE DEF able, new, node
<1> QED BY <1>1, <1>2, <1>3, TypeChange DEF Places

(* Whoever is in a directory that is renamed goes with it, whoever is in   *)
(* the empty one that it replaces is nowhere.                              *)
LEMMA CwdRenamed ==
  ASSUME Typed, NEW src \in Path, NEW dst \in Path, Renames(fs, src, dst), Fits(fs, src, dst),
         fs' = Renamed(fs, src, dst), cwd' = Moved(src, dst)
  PROVE  CwdTyped'
<1>1. IsTree(fs) /\ DOMAIN cwd' = Shells
  BY DEF Typed, TreeTyped, Moved
<1>2. ASSUME NEW s \in Shells
      PROVE  Somewhere(s)'
  <2>1. CASE cwd[s] = Gone
    BY <2>1 DEF Moved, Somewhere
  <2>2. CASE cwd[s] # Gone
    <3> DEFINE q == cwd[s]
    <3>1. q \in Path /\ fs[q] = Dir
      <4>1. At(fs, q) = Dir
        BY <2>2 DEF Typed, CwdTyped, Somewhere
      <4> QED BY <4>1, NodePlaces, NodeKinds
    <3>2. cwd'[s] = IF IsPrefix(src, q) THEN Rebased(q, src, dst) ELSE IF q = dst THEN Gone ELSE q
      BY <2>2 DEF Moved
    <3> HIDE DEF q
    <3>3. CASE IsPrefix(src, q)
      <4> DEFINE r == Rebased(q, src, dst)
      <4>1. Len(r) <= Depth
        BY <3>1, <3>3, NodeKinds DEF Fits, Under
      <4>2. r \in Path /\ IsPrefix(dst, r) /\ Rebased(r, dst, src) = q
        BY <3>1, <3>3, <4>1, RebasedPath, RebasedBack
      <4>3. fs'[r] = Dir
        <5>1. CASE src = dst
          BY <5>1, <3>1, <4>2, RebasedSame DEF Renamed
        <5>2. CASE src # dst
          <6> HIDE DEF r
          <6>1. Renamed(fs, src, dst)[r] = fs[Rebased(r, dst, src)]
            BY <5>2, <4>2, <3>1, RenamedAt
          <6> QED BY <6>1, <4>2, <3>1
        <5> QED BY <5>1, <5>2
      <4> HIDE DEF r
      <4> QED BY <4>2, <4>3, <3>2, <3>3 DEF Somewhere, At, r
    <3>4. CASE ~IsPrefix(src, q)
      <4>1. src = dst => fs'[q] = Dir
        BY <3>1 DEF Renamed
      <4>2. src # dst => fs'[q] = Dir
        BY <1>1, <3>1, <3>4, RenamedKind
      <4> QED BY <4>1, <4>2, <3>1, <3>2, <3>4 DEF Somewhere, At
    <3> QED BY <3>3, <3>4
  <2> QED BY <2>1, <2>2
<1> QED BY <1>1, <1>2 DEF CwdTyped

LEMMA TypeRename ==
  ASSUME Typed, NEW s \in Shells, NEW o \in Operands, NEW n \in Operands, cmd_rename(s, o, n)
  PROVE  Typed'
<1> DEFINE src == Entry(fs, Absolute(s, o))
           dst == Entry(fs, Absolute(s, n))
<1>1. /\ Given(s) /\ UNCHANGED <<inode, spoiled, job, child>> /\ Enter(s, "top")
      /\ \/ /\ src \in Path /\ dst \in Path \ {<< >>}
            /\ Renames(fs, src, dst) /\ Fits(fs, src, dst)
            /\ Change(s, Renamed(fs, src, dst)) /\ cwd' = Moved(src, dst)
         \/ UNCHANGED <<fs, intruded, cwd>>
  BY DEF cmd_rename, GivenHere, Return
<1> HIDE DEF src, dst
<1>2. /\ InodeTyped' /\ spoiled' \in [Shells -> BOOLEAN] /\ given' \in 0..MaxCommands
      /\ pc[s] \notin {"wait"} \cup Over
      /\ DOMAIN job' = Shells /\ \A u \in Shells : u # s => job'[u] = job[u]
      /\ Proper(job'[s])
  BY <1>1, ProperJobs, GivenOnce DEF Typed, InodeTyped
<1>3. CASE /\ src \in Path /\ dst \in Path \ {<< >>}
           /\ Renames(fs, src, dst) /\ Fits(fs, src, dst)
           /\ Change(s, Renamed(fs, src, dst)) /\ cwd' = Moved(src, dst)
  <2>1. src # << >>
    <3>1. ~IsStrictPrefix(src, dst)
      BY <1>3 DEF Renames
    <3>2. src = << >> => IsPrefix(src, dst)
      BY <1>3, EmptyPrefix
    <3> QED BY <3>1, <3>2, <1>3 DEF IsStrictPrefix
  <2>2. TreeTyped'
    <3>1. IsTree(Renamed(fs, src, dst))
      BY <1>3, <2>1, RenamedTree DEF Typed, TreeTyped
    <3>2. Renamed(fs, src, dst) \in [Path -> Node]
      BY <1>3, NodePlaces, RenamedType DEF Typed, TreeTyped
    <3> QED BY <3>1, <3>2, <1>3 DEF TreeTyped, Change
  <2>3. CwdTyped'
    BY <1>3, CwdRenamed DEF Change
  <2> QED BY <1>1, <1>2, <1>3, <2>2, <2>3, TypeChange DEF Places
<1>4. CASE UNCHANGED <<fs, intruded, cwd>>
  BY <1>1, <1>2, <1>4, TypeRead DEF Places
<1> QED BY <1>1, <1>3, <1>4

LEMMA TypeOpen ==
  ASSUME Typed, NEW s \in Shells, fopen_target(s)
  PROVE  Typed'
<1>1. UNCHANGED <<cwd, child, given>> /\ pc[s] \notin {"wait"} \cup Over
  BY DEF fopen_target, Over
<1>2. /\ given' \in 0..MaxCommands /\ DOMAIN job = Shells /\ Proper(job[s]) /\ Proper(NoJob)
      /\ InodeTyped /\ spoiled \in [Shells -> BOOLEAN]
  BY <1>1, ProperJobs DEF Typed
<1>3. ASSUME NEW i \in Inodes, Emptied(i), Spoil(s, i), job' = [job EXCEPT ![s].to = i]
      PROVE  /\ InodeTyped' /\ spoiled' \in [Shells -> BOOLEAN]
             /\ DOMAIN job' = Shells /\ \A u \in Shells : u # s => job'[u] = job[u]
             /\ Proper(job'[s])
  <2>1. InodeTyped'
    BY <1>2, <1>3 DEF InodeTyped, Emptied
  <2>2. spoiled' \in [Shells -> BOOLEAN]
    BY <1>2, <1>3 DEF Spoil
  <2>3. Proper(job'[s])
    BY <1>2, <1>3 DEF Proper, NoJob
  <2> QED BY <2>1, <2>2, <2>3, <1>2, <1>3
<1>4. ASSUME NEW i \in FileAt(job[s].path), Emptied(i), Spoil(s, i),
             job' = [job EXCEPT ![s].to = i], Enter(s, "copy"), UNCHANGED <<fs, intruded>>
      PROVE  Typed'
  <2>1. i \in Inodes
    BY DEF FileAt
  <2>2. Change(s, fs)
    BY <1>4 DEF Change
  <2>3. TreeTyped' /\ CwdTyped'
    BY <1>1, <1>4, NothingChanged
  <2> QED BY <1>1, <1>2, <1>3, <1>4, <2>1, <2>2, <2>3, TypeChange DEF Places
<1>5. ASSUME NEW p \in Path, NEW i \in Inodes, Fresh(fs, p), Change(s, [fs EXCEPT ![p] = File(i)]),
             Emptied(i), Spoil(s, i), job' = [job EXCEPT ![s].to = i], Enter(s, "copy")
      PROVE  Typed'
  <2>1. TreeTyped' /\ CwdTyped'
    <3>1. fs' = [fs EXCEPT ![p] = File(i)] /\ File(i) \in Node /\ File(i) # Nothing
      BY <1>5, NodePlaces, NodeKinds DEF Change
    <3> QED BY <3>1, <1>1, <1>5, NodeAdded
  <2> QED BY <1>1, <1>2, <1>3, <1>5, <2>1, TypeChange DEF Places
<1>6. CASE /\ job' = [job EXCEPT ![s] = NoJob] /\ Return(s)
           /\ UNCHANGED <<fs, inode, intruded, spoiled>>
  BY <1>1, <1>2, <1>6, TypeRead DEF Return, Places
<1>7. \A i \in Unused : i \in Inodes
  BY DEF Unused
<1> QED BY <1>4, <1>5, <1>6, <1>7 DEF fopen_target

LEMMA TypeUser == ASSUME Typed, NEW s \in Shells, User(s) PROVE Typed'
<1>1. ASSUME NEW o \in Operands, OnePath(s, o) PROVE Typed'
  <2>1. CASE cmd_cd(s, o)
    BY <2>1, TypeCd
  <2>2. CASE cmd_ls(s, <<o>>) \/ cmd_ls(s, <<o, o>>)
    BY <2>2, TypeList
  <2>3. CASE cmd_run(s, o)
    BY <2>3, TypePrograms
  <2> QED BY <1>1, <2>1, <2>2, <2>3, TypeMkdir, TypeRmdir, TypeRm, TypeStat DEF OnePath
<1>2. ASSUME NEW o \in Operands, NEW n \in Operands, TwoPaths(s, o, n) PROVE Typed'
  BY <1>2, TypeRename, TypeCp, TypeLn DEF TwoPaths
<1>3. CASE Start(s)
  BY <1>3, TypeStart
<1>4. CASE Quit(s) \/ Prints(s) \/ Lost(s)
  BY <1>4, TypeLoop
<1>5. CASE cmd_cd_home(s)
  BY <1>5, TypeCd
<1>6. CASE \E u \in Shells : cmd_kill(s, u)
  BY <1>6, TypePrograms
<1> QED BY <1>1, <1>2, <1>3, <1>4, <1>5, <1>6 DEF User

LEMMA TypeRunning == ASSUME Typed, NEW s \in Shells, Running(s) PROVE Typed'
<1>1. CASE StartAgain(s) \/ Prompt(s)
  BY <1>1, TypeLoop
<1>2. CASE run_li(s) \/ (\E e \in job[s].left : lstat(s, e)) \/ read_symbolic(s)
  BY <1>2, TypeList
<1>3. CASE waitid(s)
  BY <1>3, TypePrograms
<1> QED BY <1>1, <1>2, <1>3, TypeChmod, TypeOpen, TypeCopy DEF Running

LEMMA TypeNext == Typed /\ [Next]_vars => Typed'
<1> SUFFICES ASSUME Typed, [Next]_vars
             PROVE  Typed'
  OBVIOUS
<1>1. ASSUME NEW s \in Shells, User(s) \/ Running(s) \/ ChildEnds(s) PROVE Typed'
  BY <1>1, TypeUser, TypeRunning, TypePrograms
<1>2. CASE UNCHANGED vars
  BY <1>2 DEF vars, disk, Typed, TreeTyped, InodeTyped, CwdTyped, Somewhere, Controlled,
              JobTyped, Proper, Recorded
<1> QED BY <1>1, <1>2 DEF Next

LEMMA TypedAlways == Spec => []Typed
BY TypeInit, TypeNext, PTL DEF Spec

(* The tree stays a tree, the kernel knows where every shell is, and the   *)
(* local variables of every command keep their types, whatever the shells  *)
(* do to each other.                                                       *)
THEOREM TypeCorrect == Spec => []TypeOK
BY TypedIsTypeOK, TypedAlways, PTL

-----------------------------------------------------------------------------
(* Copies. Until another shell writes one of the two files, what was read  *)
(* when the source was opened is what the source still holds, and the      *)
(* target is empty.                                                        *)

Data(i) == IF i = NoFile THEN Empty ELSE inode[i].data

Underway(s) ==
  LET j == job[s] IN
  /\ pc[s] = "copy" => j.to \in Inodes
  /\ pc[s] = "open" /\ ~spoiled[s] => j.was = Data(j.from)
  /\ pc[s] = "copy" /\ ~spoiled[s] /\ j.from # j.to
       => j.was = Data(j.from) /\ Data(j.to) = Empty

Copying == \A s \in Shells : Underway(s)

(* A step of s that has nothing to do with a copy, its own or another's,   *)
(* other than that it may end the other shell.                             *)
Apart(s) ==
  /\ UNCHANGED spoiled
  /\ pc[s] \notin {"open", "copy"} /\ pc'[s] \notin {"open", "copy"}
  /\ pc[s] = "chmod" => chmod(s)
  /\ chmod(s) \/ UNCHANGED inode
  /\ \A u \in Shells \ {s} : pc'[u] = "ended" \/ (pc'[u] = pc[u] /\ job'[u] = job[u])

LEMMA LoopApart ==
  ASSUME Typed, NEW s \in Shells,
         \/ Start(s) \/ StartAgain(s) \/ Prompt(s) \/ Quit(s) \/ Prints(s) \/ Lost(s)
         \/ cmd_cd_home(s) \/ ChildEnds(s) \/ waitid(s)
         \/ \E u \in Shells : cmd_kill(s, u)
  PROVE  Apart(s)
<1>1. /\ pc \in [Shells -> Places] /\ DOMAIN job = Shells
      /\ child[s] = "running" => pc[s] \in {"wait"} \cup Over
  BY DEF Typed, Controlled, JobTyped
<1>2. CASE Start(s) \/ StartAgain(s)
  BY <1>1, <1>2 DEF Start, StartAgain, Apart, Enter, Return, Fail
<1>3. CASE Prompt(s) \/ Quit(s) \/ Prints(s) \/ Lost(s)
  BY <1>1, <1>3 DEF Prompt, Quit, Prints, Lost, Apart, Enter, Return, Fail, Keep, disk
<1>4. CASE cmd_cd_home(s)
  BY <1>1, <1>4 DEF cmd_cd_home, Given, Apart, Enter, Return
<1>5. CASE ChildEnds(s)
  BY <1>1, <1>5 DEF ChildEnds, Apart, disk, Over
<1>6. CASE waitid(s)
  BY <1>1, <1>6 DEF waitid, Apart, Enter, Return, disk
<1>7. ASSUME NEW u \in Shells, cmd_kill(s, u)
      PROVE  Apart(s)
  BY <1>1, <1>7 DEF cmd_kill, Given, Apart, disk
<1> QED BY <1>2, <1>3, <1>4, <1>5, <1>6, <1>7

LEMMA CommandApart ==
  ASSUME Typed, NEW s \in Shells, NEW o \in Operands,
         OnePath(s, o) \/ \E n \in Operands : cmd_rename(s, o, n)
                                             \/ \E symbolic \in BOOLEAN : cmd_ln(s, symbolic, o, n)
  PROVE  Apart(s)
<1>1. pc \in [Shells -> Places] /\ DOMAIN job = Shells
  BY DEF Typed, Controlled, JobTyped
<1>2. CASE cmd_cd(s, o)
  BY <1>1, <1>2 DEF cmd_cd, GivenHere, Given, Apart, Enter, Return
<1>3. CASE cmd_mkdir(s, o)
  BY <1>1, <1>3 DEF cmd_mkdir, GivenHere, Given, Apart, Enter, Return
<1>4. CASE cmd_rmdir(s, o)
  BY <1>1, <1>4 DEF cmd_rmdir, GivenHere, Given, Apart, Enter, Return
<1>5. CASE cmd_rm(s, o)
  BY <1>1, <1>5 DEF cmd_rm, GivenHere, Given, Apart, Enter, Return
<1>6. ASSUME NEW todo, cmd_ls(s, todo)
      PROVE  Apart(s)
  BY <1>1, <1>6 DEF cmd_ls, GivenHere, Given, Apart, Enter, disk
<1>7. CASE cmd_run(s, o)
  BY <1>1, <1>7 DEF cmd_run, GivenHere, Given, Apart, Enter, Fail, disk
<1>8. ASSUME NEW f \in Formats, cmd_chmod(s, f, o)
      PROVE  Apart(s)
  BY <1>1, <1>8 DEF cmd_chmod, GivenHere, Given, Apart, Enter, Return, disk
<1>9. ASSUME NEW n \in Operands, cmd_rename(s, o, n)
      PROVE  Apart(s)
  BY <1>1, <1>9 DEF cmd_rename, GivenHere, Given, Apart, Enter, Return
<1>10. ASSUME NEW n \in Operands, NEW symbolic \in BOOLEAN, cmd_ln(s, symbolic, o, n)
       PROVE  Apart(s)
  BY <1>1, <1>10 DEF cmd_ln, GivenHere, Given, Apart, Enter, Return
<1> QED BY <1>2, <1>3, <1>4, <1>5, <1>6, <1>7, <1>8, <1>9, <1>10 DEF OnePath

LEMMA RunningApart ==
  ASSUME Typed, NEW s \in Shells,
         chmod(s) \/ run_li(s) \/ (\E e \in job[s].left : lstat(s, e)) \/ read_symbolic(s)
  PROVE  Apart(s)
<1>1. pc \in [Shells -> Places] /\ DOMAIN job = Shells
  BY DEF Typed, Controlled, JobTyped
<1>2. CASE chmod(s)
  <2>1. /\ pc[s] = "chmod" /\ pc' = [pc EXCEPT ![s] = "top"]
        /\ job' = [job EXCEPT ![s] = NoJob] /\ UNCHANGED spoiled
    BY <1>2 DEF chmod, Enter, Return
  <2> QED BY <1>1, <1>2, <2>1 DEF Apart
<1>3. CASE run_li(s)
  BY <1>1, <1>3 DEF run_li, Apart, Enter, Return, Fail, disk
<1>4. ASSUME NEW e \in job[s].left, lstat(s, e)
      PROVE  Apart(s)
  BY <1>1, <1>4 DEF lstat, Apart, disk
<1>5. CASE read_symbolic(s)
  BY <1>1, <1>5 DEF read_symbolic, Apart, Enter, Fail, Keep, disk
<1> QED BY <1>2, <1>3, <1>4, <1>5

(* Every step is one of these, or one of a copy.                           *)
LEMMA ApartOrCopy ==
  ASSUME Typed, [Next]_vars
  PROVE  \/ UNCHANGED vars
         \/ \E s \in Shells : Apart(s)
         \/ \E s \in Shells, o \in Operands, n \in Operands : cmd_cp(s, o, n)
         \/ \E s \in Shells : fopen_target(s) \/ copy_file(s)
<1>1. ASSUME NEW s \in Shells, User(s)
      PROVE  Apart(s) \/ \E o \in Operands, n \in Operands : cmd_cp(s, o, n)
  <2>1. ASSUME NEW o \in Operands, NEW n \in Operands, TwoPaths(s, o, n)
        PROVE  Apart(s) \/ cmd_cp(s, o, n)
    BY <2>1, CommandApart DEF TwoPaths
  <2>2. ASSUME NEW o \in Operands, OnePath(s, o)
        PROVE  Apart(s)
    BY <2>2, CommandApart
  <2> QED BY <1>1, <2>1, <2>2, LoopApart DEF User
<1>2. ASSUME NEW s \in Shells, Running(s)
      PROVE  Apart(s) \/ fopen_target(s) \/ copy_file(s)
  BY <1>2, LoopApart, RunningApart DEF Running
<1>3. ASSUME NEW s \in Shells, ChildEnds(s)
      PROVE  Apart(s)
  BY <1>3, LoopApart
<1> QED BY <1>1, <1>2, <1>3 DEF Next

(* What a shell copies is left alone by whatever does not copy.            *)
LEMMA UnderwayKept ==
  ASSUME Copying, JobTyped, NEW u \in Shells,
         pc'[u] \in {"open", "copy"} =>
           pc'[u] = pc[u] /\ job'[u] = job[u] /\ spoiled'[u] = spoiled[u],
         \A i \in {job[u].from, job[u].to} \ {NoFile} :
           spoiled'[u] = FALSE => inode'[i].data = inode[i].data
  PROVE  Underway(u)'
BY DEF Copying, Underway, Data, JobTyped, Proper

LEMMA DataKept ==
  ASSUME Typed, NEW s \in Shells, chmod(s) \/ UNCHANGED inode
  PROVE  \A i \in Inodes : inode'[i].data = inode[i].data
<1>1. CASE chmod(s)
  BY <1>1 DEF chmod, Typed, InodeTyped
<1>2. CASE UNCHANGED inode
  BY <1>2
<1> QED BY <1>1, <1>2

LEMMA CopyingApart ==
  ASSUME Typed, Copying, NEW s \in Shells, Apart(s)
  PROVE  Copying'
<1>1. \A i \in Inodes : inode'[i].data = inode[i].data
  BY DataKept DEF Apart
<1>2. ASSUME NEW u \in Shells
      PROVE  Underway(u)'
  <2>1. JobTyped /\ {job[u].from, job[u].to} \ {NoFile} \subseteq Inodes
    BY ProperJobs DEF Typed, JobTyped, Proper
  <2>2. pc'[u] \in {"open", "copy"} =>
          pc'[u] = pc[u] /\ job'[u] = job[u] /\ spoiled'[u] = spoiled[u]
    BY DEF Apart
  <2> QED BY <1>1, <2>1, <2>2, UnderwayKept
<1> QED BY <1>2 DEF Copying

LEMMA CopyingStarts ==
  ASSUME Typed, Copying, NEW s \in Shells, NEW o \in Operands, NEW n \in Operands, cmd_cp(s, o, n)
  PROVE  Copying'
<1>1. /\ UNCHANGED inode /\ pc' = [pc EXCEPT ![s] = "open"] /\ spoiled' = [spoiled EXCEPT ![s] = FALSE]
      /\ \E i, p : i \in Inodes \cup {NoFile} /\
           job' = [job EXCEPT ![s].path = p, ![s].from = i, ![s].was = Data(i)]
  BY DEF cmd_cp, Enter, FileAt, Data
<1>2. /\ JobTyped /\ DOMAIN job = Shells /\ pc \in [Shells -> Places]
      /\ spoiled \in [Shells -> BOOLEAN]
  BY ProperJobs DEF Typed, Controlled
<1>3. ASSUME NEW u \in Shells, u # s
      PROVE  Underway(u)'
  BY <1>1, <1>2, <1>3, UnderwayKept
<1>4. Underway(s)'
  <2>1. PICK i, p : i \in Inodes \cup {NoFile} /\
          job' = [job EXCEPT ![s].path = p, ![s].from = i, ![s].was = Data(i)]
    BY <1>1
  <2>2. pc'[s] = "open" /\ Data(i)' = Data(i)
    BY <1>1, <1>2 DEF Data
  <2>3. job'[s].from = i /\ job'[s].was = Data(i)
    <3> HIDE DEF Data
    <3> QED BY <2>1, <1>2, ProperJobs DEF Proper, NoJob
  <2> QED BY <2>2, <2>3 DEF Underway
<1> QED BY <1>3, <1>4 DEF Copying

(* The target is opened: it is empty, and the source is as it was unless   *)
(* the two are one file.                                                   *)
LEMMA CopyingOpens ==
  ASSUME Typed, Copying, NEW s \in Shells, fopen_target(s)
  PROVE  Copying'
<1>1. /\ JobTyped /\ DOMAIN job = Shells /\ pc \in [Shells -> Places] /\ InodeTyped
      /\ spoiled \in [Shells -> BOOLEAN] /\ Proper(job[s])
  BY ProperJobs DEF Typed, Controlled
<1>2. ASSUME NEW i \in Inodes, Emptied(i), Spoil(s, i),
             job' = [job EXCEPT ![s].to = i], Enter(s, "copy"), pc[s] = "open"
      PROVE  Copying'
  <2>1. /\ inode'[i].data = Empty /\ \A k \in Inodes \ {i} : inode'[k] = inode[k]
    BY <1>1, <1>2 DEF Emptied, InodeTyped
  <2>2. \A u \in Shells : spoiled'[u] = (spoiled[u] \/ (u # s /\ i \in {job[u].from, job[u].to}))
    BY <1>2 DEF Spoil
  <2>3. \A u \in Shells : {job[u].from, job[u].to} \subseteq Inodes \cup {NoFile}
    BY <1>1 DEF JobTyped, Proper
  <2>4. ASSUME NEW u \in Shells, u # s
        PROVE  Underway(u)'
    <3>1. pc'[u] = pc[u] /\ job'[u] = job[u]
      BY <1>1, <1>2, <2>4 DEF Enter
    <3>2. ~spoiled'[u] => ~spoiled[u] /\ i \notin {job[u].from, job[u].to}
      BY <2>2, <2>4
    <3>3. CASE spoiled'[u] # FALSE
      BY <1>1, <1>2, <2>2, <3>1, <3>3 DEF Copying, Underway, Spoil
    <3>4. CASE spoiled'[u] = FALSE
      <4>1. spoiled[u] = FALSE /\ \A k \in {job[u].from, job[u].to} \ {NoFile} : inode'[k] = inode[k]
        BY <1>1, <2>1, <2>3, <3>2, <3>4
      <4> QED BY <1>1, <3>1, <3>4, <4>1, UnderwayKept
    <3> QED BY <3>3, <3>4
  <2>5. Underway(s)'
    <3>1. /\ pc'[s] = "copy" /\ job'[s].to = i /\ job'[s].from = job[s].from
          /\ job'[s].was = job[s].was /\ spoiled'[s] = spoiled[s]
      BY <1>1, <1>2, <2>2 DEF Enter, Proper, NoJob
    <3>2. i # NoFile
      BY ShellAssumption
    <3>3. ~spoiled[s] => job[s].was = Data(job[s].from)
      BY <1>2 DEF Copying, Underway
    <3> QED BY <2>1, <2>3, <3>1, <3>2, <3>3 DEF Underway, Data
  <2> QED BY <2>4, <2>5 DEF Copying
<1>3. CASE /\ job' = [job EXCEPT ![s] = NoJob] /\ Return(s)
           /\ UNCHANGED <<fs, inode, intruded, spoiled>>
  <2>1. ASSUME NEW u \in Shells
        PROVE  Underway(u)'
    BY <1>1, <1>3, UnderwayKept DEF Return, Enter
  <2> QED BY <2>1 DEF Copying
<1> QED BY <1>2, <1>3 DEF fopen_target, FileAt, Unused

LEMMA CopyingCopies ==
  ASSUME Typed, Copying, NEW s \in Shells, copy_file(s)
  PROVE  Copying'
<1>1. /\ pc[s] = "copy" /\ pc' = [pc EXCEPT ![s] = "top"] /\ job' = [job EXCEPT ![s] = NoJob]
      /\ \A u \in Shells \ {s} :
           spoiled'[u] = (spoiled[u] \/ job[s].to \in {job[u].from, job[u].to})
      /\ \A i \in Inodes : i # job[s].to => inode'[i] = inode[i]
  BY DEF copy_file, Return, Enter, Spoil, Typed, InodeTyped
<1>2. /\ JobTyped /\ DOMAIN job = Shells /\ pc \in [Shells -> Places]
      /\ \A u \in Shells : {job[u].from, job[u].to} \subseteq Inodes \cup {NoFile}
  BY ProperJobs DEF Typed, Controlled, Proper
<1>3. ASSUME NEW u \in Shells
      PROVE  Underway(u)'
  <2>1. CASE u = s
    BY <2>1, <1>1, <1>2 DEF Underway
  <2>2. CASE u # s
    <3>1. pc'[u] = pc[u] /\ job'[u] = job[u]
      BY <2>2, <1>1, <1>2
    <3>2. spoiled'[u] = (spoiled[u] \/ job[s].to \in {job[u].from, job[u].to})
      BY <2>2, <1>1
    <3> QED BY <1>1, <1>2, <3>1, <3>2 DEF Copying, Underway, Data
  <2> QED BY <2>1, <2>2
<1> QED BY <1>3 DEF Copying

LEMMA CopyingInit == Init => Copying
BY DEF Init, Copying, Underway

LEMMA CopyingNext == Typed /\ Copying /\ [Next]_vars => Copying'
<1> SUFFICES ASSUME Typed, Copying, [Next]_vars
             PROVE  Copying'
  OBVIOUS
<1>1. CASE UNCHANGED vars
  BY <1>1 DEF vars, disk, Copying, Underway, Data
<1> QED BY <1>1, ApartOrCopy, CopyingApart, CopyingStarts, CopyingOpens, CopyingCopies

LEMMA CopyingAlways == Spec => []Copying
BY CopyingInit, CopyingNext, TypedAlways, PTL DEF Spec

-----------------------------------------------------------------------------
(* What the steps promise that end a copy and a chmod.                     *)

(* Nothing but the step of its own that does the work brings a shell back. *)
LEMMA ByItself ==
  ASSUME Typed, [Next]_vars, NEW s \in Shells, pc[s] \in {"copy", "chmod"}, pc'[s] = "top"
  PROVE  IF pc[s] = "copy" THEN copy_file(s) ELSE chmod(s)
<1>1. pc \in [Shells -> Places]
  BY DEF Typed, Controlled
<1>2. ASSUME NEW v \in Shells, Apart(v)
      PROVE  pc[s] = "chmod" /\ chmod(s)
  BY <1>2 DEF Apart
<1>3. ~\E v \in Shells, o \in Operands, n \in Operands : cmd_cp(v, o, n)
  BY <1>1 DEF cmd_cp, Enter, GivenHere, Given
<1>4. ASSUME NEW v \in Shells, fopen_target(v) \/ copy_file(v)
      PROVE  pc[s] = "copy" /\ copy_file(s)
  BY <1>1, <1>4 DEF fopen_target, copy_file, Enter, Return
<1>5. ~UNCHANGED vars
  BY DEF vars
<1> QED BY <1>2, <1>3, <1>4, <1>5, ApartOrCopy

(* A copy has all of the file that was opened, whatever becomes of its name*)
(* meanwhile, if no other shell writes one of the two files, they are two, *)
(* and no write fails (copy_file in cmd_cp.c ignores what fwrite and fclose*)
(* return: then the copy is short and the command returns as ever).        *)
THEOREM CopiesAreWhole == Spec => CopyIsWhole
<1>1. ASSUME Typed, Copying, [Next]_vars,
             NEW s \in Shells, pc[s] = "copy", pc'[s] = "top", ~spoiled'[s], job[s].from # job[s].to
      PROVE  inode'[job[s].to].data = job[s].was
  <2>1. copy_file(s)
    BY <1>1, ByItself
  <2>2. /\ ~spoiled[s]
        /\ inode' = [inode EXCEPT ![job[s].to].data = IF Data(job[s].from) = Empty THEN @
                                                     ELSE Data(job[s].from)]
    BY <1>1, <2>1 DEF copy_file, Spoil, Data
  <2>3. job[s].to \in Inodes /\ job[s].was = Data(job[s].from) /\ Data(job[s].to) = Empty
    BY <1>1, <2>2 DEF Copying, Underway
  <2>4. inode[job[s].to].data = Empty
    BY <2>3, ShellAssumption DEF Data
  <2> QED BY <2>2, <2>3, <2>4, <1>1 DEF Typed, InodeTyped
<1>2. Typed /\ Copying /\ [Next]_vars =>
        [\A s \in Shells : LET j == job[s] IN
           pc[s] = "copy" /\ pc'[s] = "top" /\ ~spoiled'[s] /\ j.from # j.to
           => inode'[j.to].data = j.was]_vars
  BY <1>1
<1> QED BY <1>2, TypedAlways, CopyingAlways, PTL DEF Spec, CopyIsWhole

(* A chmod with letters changes the bits that they name and no others, if  *)
(* the mode is still what stat said (chmod_symbolic in cmd_chmod.c).       *)
THEOREM ChmodsAreExact == Spec => ChmodChangesNamedBits
<1> DEFINE Exact(s) ==
      LET j == job[s]  f == j.typed IN
      pc[s] = "chmod" /\ pc'[s] = "top" /\ ~f.octal =>
        \A i \in FileAt(j.path) : i = j.from /\ inode[i].mode = j.seen =>
          \A b \in Bits :
            b \in inode'[i].mode <=>
              IF b[2] \in f.perm /\ (f.who = {} \/ b[1] \in f.who)
              THEN f.op = "+" ELSE b \in inode[i].mode
<1>1. ASSUME Typed, [Next]_vars, NEW s \in Shells
      PROVE  Exact(s)
  <2> DEFINE f == job[s].typed
  <2> SUFFICES ASSUME pc[s] = "chmod", pc'[s] = "top", ~f.octal,
                      NEW i \in FileAt(job[s].path), inode[i].mode = job[s].seen,
                      NEW b \in Bits
               PROVE  b \in inode'[i].mode <=>
                        IF b[2] \in f.perm /\ (f.who = {} \/ b[1] \in f.who)
                        THEN f.op = "+" ELSE b \in inode[i].mode
    OBVIOUS
  <2>1. chmod(s)
    BY <1>1, ByItself
  <2>2. i \in Inodes /\ inode'[i].mode = chmod_format(f, inode[i].mode)
    BY <1>1, <2>1 DEF chmod, FileAt, Typed, InodeTyped
  <2>3. f \in Letters
    BY <1>1, ProperJobs DEF Proper, Octal
  <2> HIDE DEF f
  <2>4. /\ f.who \subseteq Who /\ f.perm \subseteq {"r", "x"} /\ f.op \in {"+", "-"}
    BY <2>3 DEF Letters
  <2>5. b = <<b[1], b[2]>> /\ b[1] \in Who /\ b[2] \in {"r", "x"}
    BY DEF Bits
  <2> DEFINE named == (IF f.who = {} THEN Who ELSE f.who) \X f.perm
  <2>6. b \in named <=> b[2] \in f.perm /\ (f.who = {} \/ b[1] \in f.who)
    BY <2>4, <2>5
  <2>7. chmod_format(f, inode[i].mode) =
          IF f.op = "+" THEN inode[i].mode \cup named ELSE inode[i].mode \ named
    BY DEF chmod_format
  <2> HIDE DEF named
  <2> QED BY <2>2, <2>4, <2>6, <2>7
<1>2. Typed /\ [Next]_vars => [\A s \in Shells : Exact(s)]_vars
  BY <1>1
<1> QED BY <1>2, TypedAlways, PTL DEF Spec, ChmodChangesNamedBits

-----------------------------------------------------------------------------
(* Converted paths and links: both are recursive functions, which a least  *)
(* counterexample or a witness stands in for induction on.                 *)

LEMMA FrontAppend ==
  ASSUME NEW q \in Seq(Names), NEW n \in Names
  PROVE  /\ Append(q, n) \in Seq(Names) /\ Append(q, n) # << >>
         /\ Front(Append(q, n)) = q /\ Last(Append(q, n)) = n
<1> DEFINE a == Append(q, n)
<1>1. /\ Len(q) \in Nat /\ a \in Seq(Names) /\ a # << >> /\ Len(a) = Len(q) + 1
      /\ \A i \in 1..Len(q) : a[i] = q[i]
      /\ a[Len(q) + 1] = n
  BY AppendProperties, LenProperties
<1> HIDE DEF a
<1>2. Last(a) = n
  BY <1>1 DEF Last
<1>3. Front(a) = q
  <2> DEFINE k == Len(q)
             f == SubSeq(a, 1, k)
  <2>1. Front(a) = f
    BY <1>1 DEF Front
  <2>2. k \in Int /\ k \in Nat /\ \A i \in 1..k : a[i] \in Names
    BY <1>1, ElementOfSeq
  <2>3. f \in Seq(Names) /\ Len(f) = k /\ \A i \in 1..k : f[i] = a[i]
    <3> HIDE DEF k
    <3>1. /\ f \in Seq(Names) /\ Len(f) = (IF 1 <= k THEN k - 1 + 1 ELSE 0)
          /\ \A i \in 1..(k - 1 + 1) : f[i] = a[1 + i - 1]
      BY <2>2, SubSeqProperties
    <3>2. k - 1 + 1 = k /\ (IF 1 <= k THEN k - 1 + 1 ELSE 0) = k /\ \A i \in 1..k : 1 + i - 1 = i
      BY <2>2
    <3> QED BY <3>1, <3>2
  <2> HIDE DEF f
  <2> QED BY <1>1, <2>1, <2>3, SeqEqual
<1> QED BY <1>1, <1>2, <1>3 DEF a

LEMMA UpperType ==
  ASSUME NEW p \in Seq(Names)
  PROVE  Upper(p) \in Seq(Names)
<1>1. CASE p = << >>
  BY <1>1 DEF Upper
<1>2. CASE p # << >>
  <2>1. Len(p) \in Nat /\ Len(p) # 0
    BY <1>2, LenProperties, EmptySeq
  <2>2. Len(p) - 1 \in Int /\ \A i \in 1..(Len(p) - 1) : p[i] \in Names
    BY <2>1, ElementOfSeq
  <2>3. SubSeq(p, 1, Len(p) - 1) \in Seq(Names)
    BY <2>2, SubSeqProperties
  <2> QED BY <1>2, <2>3 DEF Upper, Front
<1> QED BY <1>1, <1>2

(* One word more, and the paths after each of the first n words.           *)
Walk(start, words, f, k) ==
  IF k = 0 THEN start
  ELSE IF words[k] = ".." THEN Upper(f[k - 1])
  ELSE IF words[k] = "." THEN f[k - 1] ELSE Append(f[k - 1], words[k])

Walks(start, words, f, n) ==
  f \in [0..n -> Seq(Names)] /\ \A k \in 0..n : f[k] = Walk(start, words, f, k)

LEMMA WalkType ==
  ASSUME NEW start \in Seq(Names), NEW words \in Seq(Names \cup Dots),
         NEW f, NEW k \in 0..Len(words), k # 0 => f[k - 1] \in Seq(Names)
  PROVE  Walk(start, words, f, k) \in Seq(Names)
<1>1. CASE k = 0
  BY <1>1 DEF Walk
<1>2. CASE k # 0
  <2>1. words[k] \in Names \cup Dots /\ f[k - 1] \in Seq(Names)
    BY <1>2, ElementOfSeq, LenProperties
  <2>2. Upper(f[k - 1]) \in Seq(Names)
    BY <2>1, UpperType
  <2>3. words[k] \in Names => Append(f[k - 1], words[k]) \in Seq(Names)
    BY <2>1, AppendProperties
  <2> QED BY <1>2, <2>1, <2>2, <2>3 DEF Walk, Dots
<1> QED BY <1>1, <1>2

LEMMA WalksExist ==
  ASSUME NEW start \in Seq(Names), NEW words \in Seq(Names \cup Dots)
  PROVE  \A n \in 0..Len(words) : \E f : Walks(start, words, f, n)
<1> DEFINE Bad == {n \in 0..Len(words) : ~\E f : Walks(start, words, f, n)}
<1>1. Len(words) \in Nat
  BY LenProperties
<1>2. SUFFICES ASSUME Bad # {}
               PROVE  FALSE
  OBVIOUS
<1>3. PICK n \in Bad : \A m \in Bad : n <= m
  <2>1. Bad \in SUBSET Nat
    BY <1>1
  <2> HIDE DEF Bad
  <2> QED BY <2>1, <1>2, LeastNatural
<1>4. n \in 0..Len(words)
  OBVIOUS
<1>5. n # 0
  <2>1. Walks(start, words, [k \in 0..0 |-> start], 0)
    BY DEF Walks, Walk
  <2> QED BY <2>1
<1>6. n - 1 \in 0..Len(words) /\ n - 1 \notin Bad
  <2>1. n - 1 \in 0..Len(words) /\ ~(n <= n - 1)
    BY <1>1, <1>4, <1>5
  <2> HIDE DEF Bad
  <2> QED BY <2>1, <1>3
<1>7. PICK f : Walks(start, words, f, n - 1)
  BY <1>6
<1> DEFINE next == Walk(start, words, f, n)
           g == [k \in 0..n |-> IF k = n THEN next ELSE f[k]]
<1>8. next \in Seq(Names)
  <2>1. f[n - 1] \in Seq(Names)
    BY <1>4, <1>5, <1>7 DEF Walks
  <2> HIDE DEF next, Bad
  <2> QED BY <2>1, <1>4, WalkType DEF next
<1>9. Walks(start, words, g, n)
  <2> HIDE DEF next, Bad
  <2>1. n \in Nat
    BY <1>1, <1>4
  <2>2. g \in [0..n -> Seq(Names)]
    <3>1. \A k \in 0..n : k # n => k \in 0..(n - 1)
      BY <2>1
    <3> QED BY <3>1, <1>7, <1>8 DEF Walks
  <2>3. ASSUME NEW k \in 0..n
        PROVE  g[k] = Walk(start, words, g, k)
    <3>1. k # 0 => g[k - 1] = f[k - 1]
      <4>1. k # 0 => k - 1 \in 0..n /\ k - 1 # n
        BY <2>1
      <4> QED BY <4>1
    <3>2. Walk(start, words, g, k) = Walk(start, words, f, k)
      <4> HIDE DEF g
      <4> QED BY <3>1 DEF Walk
    <3>3. CASE k = n
      BY <3>2, <3>3 DEF next
    <3>4. CASE k # n
      <4>1. k \in 0..(n - 1)
        BY <2>1, <3>4
      <4> QED BY <4>1, <3>2, <3>4, <1>7 DEF Walks
    <3> QED BY <3>3, <3>4
  <2> HIDE DEF g
  <2> QED BY <2>2, <2>3 DEF Walks
<1> QED BY <1>3, <1>9

-----------------------------------------------------------------------------
(* The turns of a path.                                                    *)

LEMMA WordTypes ==
  /\ Names \subseteq Word /\ Dots \subseteq Word
  /\ \A n \in Names : n \notin Dots
  /\ Seq(Names) \subseteq Seq(Word) /\ Path \subseteq Seq(Names)
<1>1. Names \subseteq Word /\ Dots \subseteq Word
  BY DEF Word
<1>2. \A n \in Names : n \notin Dots
  BY ShellAssumption
<1>3. Seq(Names) \subseteq Seq(Word)
  BY <1>1, SeqMonotonic
<1>4. Path \subseteq Seq(Names)
  BY PathIsSequence
<1> QED BY <1>1, <1>2, <1>3, <1>4

LEMMA LinkKind ==
  /\ Nothing.kind # "link" /\ Dir.kind # "link" /\ \A d : File(d).kind # "link"
  /\ \A p : Link(p).kind = "link" /\ Link(p).to = p
BY DEF Nothing, Dir, File, Link

Turn(t, p, i) == p[i] \in Dots \/ At(t, SubSeq(p, 1, i)).kind = "link"

FirstTurn(t, p, i) ==
  i \in 1..Len(p) /\ Turn(t, p, i) /\ \A k \in 1..(i - 1) : ~Turn(t, p, k)

LEMMA NoTurn ==
  ASSUME NEW t, NEW p \in Seq(Word), \A i \in 1..Len(p) : ~Turn(t, p, i)
  PROVE  Advance(t)[p] = p
<1>1. DOMAIN p = 1..Len(p)
  BY LenProperties
<1>2. {i \in DOMAIN p : p[i] \in Dots \/ At(t, SubSeq(p, 1, i)).kind = "link"} = {}
  BY <1>1 DEF Turn
<1> QED BY <1>2 DEF Advance

LEMMA TakeTurn ==
  ASSUME NEW t, NEW p \in Seq(Word), NEW i, FirstTurn(t, p, i)
  PROVE  Advance(t)[p] = Turned(t, p, i)
<1> DEFINE turns == {k \in DOMAIN p : p[k] \in Dots \/ At(t, SubSeq(p, 1, k)).kind = "link"}
           first == CHOOSE j \in turns : \A k \in turns : j <= k
<1>1. DOMAIN p = 1..Len(p) /\ Len(p) \in Nat
  BY LenProperties
<1>2. turns \subseteq 1..Len(p) /\ \A k \in 1..Len(p) : k \in turns <=> Turn(t, p, k)
  BY <1>1 DEF Turn
<1> HIDE DEF turns
<1>3. i \in turns /\ \A k \in turns : i <= k
  <2>1. i \in turns
    BY <1>2 DEF FirstTurn
  <2>2. ASSUME NEW k \in turns
        PROVE  i <= k
    <3>1. k \in 1..Len(p) /\ i \in 1..Len(p) /\ Turn(t, p, k)
      BY <1>2 DEF FirstTurn
    <3>2. k \notin 1..(i - 1)
      BY <3>1 DEF FirstTurn
    <3> QED BY <3>1, <3>2, <1>1
  <2> QED BY <2>1, <2>2
<1>4. first = i
  <2>1. first \in turns /\ \A k \in turns : first <= k
    BY <1>3
  <2>2. first <= i /\ i <= first /\ first \in 1..Len(p) /\ i \in 1..Len(p)
    BY <1>2, <1>3, <2>1
  <2> HIDE DEF first
  <2> QED BY <2>2, <1>1
<1>5. turns # {}
  BY <1>3
<1>6. Advance(t)[p] = IF turns = {} THEN p ELSE Turned(t, p, first)
  BY DEF Advance, turns
<1> HIDE DEF first
<1> QED BY <1>4, <1>5, <1>6

LEMMA TurnOrNone ==
  ASSUME NEW t, NEW p \in Seq(Word)
  PROVE  (\A i \in 1..Len(p) : ~Turn(t, p, i)) \/ \E i : FirstTurn(t, p, i)
<1> DEFINE turns == {i \in 1..Len(p) : Turn(t, p, i)}
<1>1. Len(p) \in Nat /\ turns \in SUBSET Nat
  BY LenProperties
<1>2. CASE turns = {}
  BY <1>2
<1>3. CASE turns # {}
  <2>1. PICK i \in turns : \A k \in turns : i <= k
    <3> HIDE DEF turns
    <3> QED BY <1>1, <1>3, LeastNatural
  <2>2. i \in 1..Len(p) /\ Turn(t, p, i)
    OBVIOUS
  <2>3. ASSUME NEW k \in 1..(i - 1)
        PROVE  ~Turn(t, p, k)
    <3>1. k \in 1..Len(p) /\ ~(i <= k)
      BY <1>1, <2>2
    <3>2. k \notin turns
      <4> HIDE DEF turns
      <4> QED BY <2>1, <3>1
    <3> QED BY <3>1, <3>2
  <2> QED BY <2>2, <2>3 DEF FirstTurn
<1> QED BY <1>2, <1>3

(* The kernel follows links on a path without dots.                        *)
LEMMA PlainTurn ==
  ASSUME NEW t \in [Path -> Node], NEW p \in Seq(Names), NEW i, FirstTurn(t, p, i)
  PROVE  /\ SubSeq(p, 1, i) \in Path /\ t[SubSeq(p, 1, i)].kind = "link"
         /\ t[SubSeq(p, 1, i)].to \in Path
         /\ Advance(t)[p] = t[SubSeq(p, 1, i)].to \o SubSeq(p, i + 1, Len(p))
         /\ SubSeq(p, i + 1, Len(p)) \in Seq(Names)
<1> DEFINE q == SubSeq(p, 1, i)
<1>1. p \in Seq(Word) /\ i \in 1..Len(p) /\ Len(p) \in Nat /\ \A k \in 1..Len(p) : p[k] \in Names
  BY WordTypes, LenProperties, ElementOfSeq DEF FirstTurn
<1>2. p[i] \notin Dots
  BY <1>1, WordTypes
<1>3. At(t, q).kind = "link"
  BY <1>2 DEF FirstTurn, Turn
<1> HIDE DEF q
<1>4. q \in Path /\ t[q].kind = "link"
  <2>1. CASE q \in Path
    BY <1>3, <2>1 DEF At
  <2>2. CASE q \notin Path
    <3>1. At(t, q) = Nothing
      BY <2>2 DEF At
    <3> QED BY <1>3, <3>1, LinkKind
  <2> QED BY <2>1, <2>2
<1>5. t[q].to \in Path
  <2>1. t[q] \in Node
    BY <1>4
  <2>2. t[q] # Nothing /\ t[q] # Dir /\ \A k \in Inodes : t[q] # File(k)
    BY <1>4, LinkKind
  <2>3. \E r \in Path : t[q] = Link(r)
    BY <2>1, <2>2 DEF Node
  <2> QED BY <2>3, LinkKind
<1>6. SubSeq(p, i + 1, Len(p)) \in Seq(Names)
  <2>1. i + 1 \in Int /\ Len(p) \in Int /\ \A k \in (i + 1)..Len(p) : p[k] \in Names
    BY <1>1
  <2> QED BY <2>1, SubSeqProperties
<1> QED BY <1>1, <1>2, <1>4, <1>5, <1>6, TakeTurn DEF q, Turned

LEMMA AdvancePlain ==
  ASSUME NEW t \in [Path -> Node], NEW p \in Seq(Names)
  PROVE  Advance(t)[p] \in Seq(Names)
<1>1. CASE \E i : FirstTurn(t, p, i)
  <2>1. PICK i : FirstTurn(t, p, i)
    BY <1>1
  <2>2. /\ t[SubSeq(p, 1, i)].to \in Seq(Names) /\ SubSeq(p, i + 1, Len(p)) \in Seq(Names)
        /\ Advance(t)[p] = t[SubSeq(p, 1, i)].to \o SubSeq(p, i + 1, Len(p))
    BY <2>1, PlainTurn, WordTypes
  <2> QED BY <2>2, ConcatProperties
<1>2. CASE \A i \in 1..Len(p) : ~Turn(t, p, i)
  BY <1>2, WordTypes, NoTurn
<1> QED BY <1>1, <1>2, TurnOrNone, WordTypes

-----------------------------------------------------------------------------
(* Turn after turn.                                                        *)

Turns(t, p, f, n) == f[0] = p /\ \A k \in 1..n : f[k] = Advance(t)[f[k - 1]]

After(next, p, f, n) == f = [k \in 0..n |-> IF k = 0 THEN p ELSE next[f[k - 1]]]

LEMMA AfterExists ==
  ASSUME NEW next, NEW p, NEW n \in Nat
  PROVE  \E f : After(next, p, f, n)
<1> DEFINE Is(f, m) == After(next, p, f, m)
           Bad == {m \in Nat : ~\E f : Is(f, m)}
<1>1. SUFFICES ASSUME Bad # {}
               PROVE  FALSE
  OBVIOUS
<1>2. PICK m \in Bad : \A l \in Bad : m <= l
  <2>1. Bad \in SUBSET Nat
    OBVIOUS
  <2> HIDE DEF Bad
  <2> QED BY <1>1, <2>1, LeastNatural
<1>3. m \in Nat
  OBVIOUS
<1>4. m # 0
  <2>1. Is([k \in 0..0 |-> p], 0)
    BY DEF After
  <2> QED BY <2>1
<1>5. m - 1 \in Nat /\ m - 1 \notin Bad
  <2>1. m - 1 \in Nat /\ ~(m <= m - 1)
    BY <1>3, <1>4
  <2> HIDE DEF Bad
  <2> QED BY <1>2, <2>1
<1>6. PICK f : Is(f, m - 1)
  BY <1>5
<1> DEFINE g == [k \in 0..m |-> IF k = m THEN next[f[m - 1]] ELSE f[k]]
<1>7. Is(g, m)
  <2> HIDE DEF Bad
  <2>1. ASSUME NEW k \in 0..m
        PROVE  g[k] = IF k = 0 THEN p ELSE next[g[k - 1]]
    <3>1. k # 0 => k - 1 \in 0..m /\ k - 1 # m
      BY <1>3
    <3>2. k # 0 => g[k - 1] = f[k - 1]
      BY <3>1
    <3>3. CASE k = m
      BY <1>4, <3>2, <3>3
    <3>4. CASE k # m
      <4>1. k \in 0..(m - 1)
        BY <1>3, <3>4
      <4> QED BY <1>6, <3>2, <3>4, <4>1 DEF After
    <3> QED BY <3>3, <3>4
  <2> DEFINE h == [k \in 0..m |-> IF k = 0 THEN p ELSE next[g[k - 1]]]
  <2>2. DOMAIN g = 0..m /\ DOMAIN h = 0..m /\ \A k \in 0..m : g[k] = h[k]
    BY <2>1
  <2>3. g = h
    BY <2>2
  <2> QED BY <2>3 DEF After
<1> QED BY <1>3, <1>7

LEMMA ResolvedTurns ==
  ASSUME NEW t, NEW p, NEW n \in Nat
  PROVE  \E f : /\ Turns(t, p, f, n)
                /\ Resolved(t, p, n) = IF Advance(t)[f[n]] = f[n] THEN f[n] ELSE NoPath
<1> DEFINE next == Advance(t)
           Is(f) == After(next, p, f, n)
           after == CHOOSE f : Is(f)
<1>1. \E f : Is(f)
  BY AfterExists
<1>2. Resolved(t, p, n) = IF next[after[n]] = after[n] THEN after[n] ELSE NoPath
  BY DEF Resolved, After
<1> HIDE DEF next
<1>3. Is(after)
  <2> HIDE DEF Is
  <2> QED BY <1>1
<1>4. \A k \in 0..n : after[k] = IF k = 0 THEN p ELSE next[after[k - 1]]
  BY <1>3, Zenon DEF After
<1> HIDE DEF after, Is
<1>5. after[0] = p /\ \A k \in 1..n : after[k] = next[after[k - 1]]
  BY <1>4
<1> QED BY <1>2, <1>5 DEF Turns, next

LEMMA TurnsAgree ==
  ASSUME NEW t, NEW p, NEW n \in Nat, NEW f, NEW g, Turns(t, p, f, n), Turns(t, p, g, n)
  PROVE  f[n] = g[n]
<1> DEFINE Bad == {k \in 0..n : f[k] # g[k]}
<1>1. SUFFICES ASSUME Bad # {}
               PROVE  FALSE
  OBVIOUS
<1>2. PICK k \in Bad : \A l \in Bad : k <= l
  <2>1. Bad \in SUBSET Nat
    OBVIOUS
  <2> HIDE DEF Bad
  <2> QED BY <1>1, <2>1, LeastNatural
<1>3. k \in 0..n /\ f[k] # g[k]
  OBVIOUS
<1>4. k # 0
  BY <1>3 DEF Turns
<1>5. k - 1 \in 0..n /\ ~(k <= k - 1) /\ k \in 1..n
  BY <1>3, <1>4
<1>6. f[k - 1] = g[k - 1]
  BY <1>2, <1>5
<1> HIDE DEF Bad
<1> QED BY <1>3, <1>5, <1>6 DEF Turns

LEMMA TurnsResolve ==
  ASSUME NEW t, NEW p, NEW n \in Nat, NEW f, Turns(t, p, f, n)
  PROVE  Resolved(t, p, n) = IF Advance(t)[f[n]] = f[n] THEN f[n] ELSE NoPath
BY ResolvedTurns, TurnsAgree

LEMMA TurnsWithin ==
  ASSUME NEW t, NEW p, NEW n \in Nat, NEW f, Turns(t, p, f, n),
         NEW S, p \in S, \A x \in S : Advance(t)[x] \in S
  PROVE  \A k \in 0..n : f[k] \in S
<1> DEFINE Bad == {k \in 0..n : f[k] \notin S}
<1>1. SUFFICES ASSUME Bad # {}
               PROVE  FALSE
  OBVIOUS
<1>2. PICK k \in Bad : \A l \in Bad : k <= l
  <2>1. Bad \in SUBSET Nat
    OBVIOUS
  <2> HIDE DEF Bad
  <2> QED BY <1>1, <2>1, LeastNatural
<1>3. k \in 0..n /\ f[k] \notin S
  OBVIOUS
<1>4. k # 0
  BY <1>3 DEF Turns
<1>5. k - 1 \in 0..n /\ ~(k <= k - 1) /\ k \in 1..n
  BY <1>3, <1>4
<1>6. f[k - 1] \in S
  BY <1>2, <1>5
<1> HIDE DEF Bad
<1> QED BY <1>3, <1>5, <1>6 DEF Turns

(* A path that has come to rest stays.                                     *)
LEMMA AtRest ==
  ASSUME NEW t, NEW p, Advance(t)[p] = p, NEW n \in Nat
  PROVE  /\ Resolved(t, p, n) = p
         /\ \A f : Turns(t, p, f, n) => f[n] = p
<1>1. ASSUME NEW f, Turns(t, p, f, n)
      PROVE  f[n] = p
  <2>1. \A x \in {p} : Advance(t)[x] \in {p}
    OBVIOUS
  <2>2. \A k \in 0..n : f[k] \in {p}
    BY <1>1, <2>1, TurnsWithin
  <2> QED BY <2>2
<1>2. PICK f : /\ Turns(t, p, f, n)
               /\ Resolved(t, p, n) = IF Advance(t)[f[n]] = f[n] THEN f[n] ELSE NoPath
  BY ResolvedTurns
<1> QED BY <1>1, <1>2

LEMMA RestsLast ==
  ASSUME NEW t, NEW p, NEW n \in Nat, NEW f, Turns(t, p, f, n),
         NEW k \in 0..n, Advance(t)[f[k]] = f[k]
  PROVE  f[n] = f[k]
<1> DEFINE g == [i \in 0..(n - k) |-> f[k + i]]
<1>1. n - k \in Nat /\ k + (n - k) = n
  OBVIOUS
<1>2. Turns(t, f[k], g, n - k)
  <2>1. g[0] = f[k]
    BY <1>1
  <2>2. ASSUME NEW i \in 1..(n - k)
        PROVE  g[i] = Advance(t)[g[i - 1]]
    <3>1. i \in 0..(n - k) /\ i - 1 \in 0..(n - k) /\ k + i \in 1..n /\ k + i - 1 = k + (i - 1)
      BY <1>1
    <3>2. g[i] = f[k + i] /\ g[i - 1] = f[k + i - 1]
      BY <3>1
    <3> HIDE DEF g
    <3> QED BY <3>1, <3>2 DEF Turns
  <2> HIDE DEF g
  <2> QED BY <2>1, <2>2 DEF Turns
<1>3. g[n - k] = f[n]
  BY <1>1
<1> HIDE DEF g
<1> QED BY <1>1, <1>2, <1>3, AtRest

(* The same turns, one later.                                              *)
LEMMA TurnsShifted ==
  ASSUME NEW t, NEW p, NEW q, NEW n \in Nat, NEW g, NEW h,
         Turns(t, p, g, n + 1), Turns(t, q, h, n), NEW j \in 0..n, g[j + 1] = h[j]
  PROVE  g[n + 1] = h[n]
<1> DEFINE Bad == {k \in j..n : g[k + 1] # h[k]}
<1>1. SUFFICES ASSUME Bad # {}
               PROVE  FALSE
  OBVIOUS
<1>2. PICK k \in Bad : \A l \in Bad : k <= l
  <2>1. Bad \in SUBSET Nat
    OBVIOUS
  <2> HIDE DEF Bad
  <2> QED BY <1>1, <2>1, LeastNatural
<1>3. k \in j..n /\ g[k + 1] # h[k]
  OBVIOUS
<1>4. k # j
  BY <1>3
<1>5. /\ k - 1 \in j..n /\ ~(k <= k - 1) /\ k \in 1..n /\ k + 1 \in 1..(n + 1)
      /\ k - 1 + 1 = k /\ k + 1 - 1 = k
  BY <1>3, <1>4
<1>6. g[k - 1 + 1] = h[k - 1]
  BY <1>2, <1>5
<1> HIDE DEF Bad
<1>7. g[k + 1] = Advance(t)[g[k + 1 - 1]] /\ h[k] = Advance(t)[h[k - 1]]
  BY <1>5 DEF Turns
<1> QED BY <1>3, <1>5, <1>6, <1>7

-----------------------------------------------------------------------------
(* Turns on a path that goes on.                                           *)

LEMMA ConcatFront ==
  ASSUME NEW S, NEW s \in Seq(S), NEW u \in Seq(S), NEW i \in 0..Len(s)
  PROVE  SubSeq(s \o u, 1, i) = SubSeq(s, 1, i)
<1> DEFINE a == SubSeq(s \o u, 1, i)
           b == SubSeq(s, 1, i)
<1>1. /\ Len(s) \in Nat /\ Len(u) \in Nat /\ i \in Int /\ i - 1 + 1 = i
      /\ \A k \in 1..i : k \in 1..Len(s) /\ k \in 1..(Len(s) + Len(u)) /\ 1 + k - 1 = k /\ k <= Len(s)
  BY LenProperties
<1>2. \A k \in 1..i : s[k] \in S /\ (s \o u)[k] = s[k]
  BY <1>1, ElementOfSeq, ConcatProperties
<1>3. /\ a \in Seq(S) /\ Len(a) = (IF 1 <= i THEN i - 1 + 1 ELSE 0)
      /\ \A k \in 1..(i - 1 + 1) : a[k] = (s \o u)[1 + k - 1]
  BY <1>1, <1>2, SubSeqProperties
<1>4. /\ b \in Seq(S) /\ Len(b) = (IF 1 <= i THEN i - 1 + 1 ELSE 0)
      /\ \A k \in 1..(i - 1 + 1) : b[k] = s[1 + k - 1]
  BY <1>1, <1>2, SubSeqProperties
<1> HIDE DEF a, b
<1>5. Len(a) = i /\ Len(b) = i
  BY <1>1, <1>3, <1>4
<1>6. \A k \in 1..i : a[k] = b[k]
  BY <1>1, <1>2, <1>3, <1>4
<1>7. a = b
  BY <1>3, <1>4, <1>5, <1>6, SeqEqual
<1> QED BY <1>7 DEF a, b

LEMMA ConcatNext ==
  ASSUME NEW S, NEW s \in Seq(S), NEW u \in Seq(S), NEW k \in 1..Len(u)
  PROVE  (s \o u)[Len(s) + k] = u[k]
<1>1. Len(s) \in Nat /\ Len(u) \in Nat
  BY LenProperties
<1>2. Len(s) + k \in 1..(Len(s) + Len(u)) /\ ~(Len(s) + k <= Len(s)) /\ Len(s) + k - Len(s) = k
  BY <1>1
<1>3. (s \o u)[Len(s) + k] = IF Len(s) + k <= Len(s) THEN s[Len(s) + k] ELSE u[Len(s) + k - Len(s)]
  BY <1>2, ConcatProperties
<1> QED BY <1>2, <1>3

LEMMA RestOf ==
  ASSUME NEW S, NEW s \in Seq(S), NEW i \in 0..Len(s)
  PROVE  /\ SubSeq(s, i + 1, Len(s)) \in Seq(S)
         /\ Len(SubSeq(s, i + 1, Len(s))) = Len(s) - i
         /\ \A k \in 1..(Len(s) - i) : SubSeq(s, i + 1, Len(s))[k] = s[i + k]
<1>1. Len(s) \in Nat /\ i \in Nat /\ i <= Len(s) /\ \A k \in 1..Len(s) : s[k] \in S
  BY LenProperties, ElementOfSeq
<1>2. i + 1 \in Int /\ Len(s) \in Int /\ \A k \in (i + 1)..Len(s) : s[k] \in S
  BY <1>1
<1>3. /\ SubSeq(s, i + 1, Len(s)) \in Seq(S)
      /\ Len(SubSeq(s, i + 1, Len(s))) = (IF i + 1 <= Len(s) THEN Len(s) - (i + 1) + 1 ELSE 0)
      /\ \A k \in 1..(Len(s) - (i + 1) + 1) : SubSeq(s, i + 1, Len(s))[k] = s[i + 1 + k - 1]
  BY <1>2, SubSeqProperties
<1>4. (IF i + 1 <= Len(s) THEN Len(s) - (i + 1) + 1 ELSE 0) = Len(s) - i
  BY <1>1
<1>5. ASSUME NEW k \in 1..(Len(s) - i)
      PROVE  SubSeq(s, i + 1, Len(s))[k] = s[i + k]
  <2>1. k \in 1..(Len(s) - (i + 1) + 1) /\ i + 1 + k - 1 = i + k
    BY <1>1
  <2>2. SubSeq(s, i + 1, Len(s))[k] = s[i + 1 + k - 1]
    BY <1>3, <2>1
  <2> QED BY <2>1, <2>2
<1> QED BY <1>3, <1>4, <1>5

LEMMA ConcatBack ==
  ASSUME NEW S, NEW s \in Seq(S), NEW u \in Seq(S), NEW i \in 0..Len(s)
  PROVE  SubSeq(s \o u, i + 1, Len(s \o u)) = SubSeq(s, i + 1, Len(s)) \o u
<1>1. Len(s) \in Nat /\ Len(u) \in Nat /\ i \in Nat /\ i <= Len(s)
  BY LenProperties
<1>2. PICK v : v = s \o u
  OBVIOUS
<1>3. /\ v \in Seq(S) /\ Len(v) = Len(s) + Len(u)
      /\ \A k \in 1..(Len(s) + Len(u)) : v[k] = IF k <= Len(s) THEN s[k] ELSE u[k - Len(s)]
  BY <1>2, ConcatProperties
<1>4. i \in 0..Len(v)
  BY <1>1, <1>3
<1>5. PICK a : a = SubSeq(v, i + 1, Len(v))
  OBVIOUS
<1>6. PICK b : b = SubSeq(s, i + 1, Len(s))
  OBVIOUS
<1>7. /\ a \in Seq(S) /\ Len(a) = Len(s) + Len(u) - i
      /\ \A k \in 1..(Len(s) + Len(u) - i) : a[k] = v[i + k]
  BY <1>3, <1>4, <1>5, RestOf
<1>8. /\ b \in Seq(S) /\ Len(b) = Len(s) - i
      /\ \A k \in 1..(Len(s) - i) : b[k] = s[i + k]
  BY <1>6, RestOf
<1>9. PICK c : c = b \o u
  OBVIOUS
<1>10. /\ c \in Seq(S) /\ Len(c) = Len(s) - i + Len(u)
       /\ \A k \in 1..(Len(s) - i + Len(u)) :
            c[k] = IF k <= Len(s) - i THEN b[k] ELSE u[k - (Len(s) - i)]
  <2>1. /\ c \in Seq(S) /\ Len(c) = Len(b) + Len(u)
        /\ \A k \in 1..(Len(b) + Len(u)) : c[k] = IF k <= Len(b) THEN b[k] ELSE u[k - Len(b)]
    BY <1>8, <1>9, ConcatProperties
  <2> QED BY <1>8, <2>1
<1>11. ASSUME NEW k \in 1..(Len(s) + Len(u) - i)
       PROVE  a[k] = c[k]
  <2>1. i + k \in 1..(Len(s) + Len(u)) /\ k \in 1..(Len(s) - i + Len(u))
    BY <1>1
  <2>2. a[k] = v[i + k]
    BY <1>7
  <2>3. v[i + k] = IF i + k <= Len(s) THEN s[i + k] ELSE u[i + k - Len(s)]
    <3>1. PICK l : l = i + k
      OBVIOUS
    <3>2. v[l] = IF l <= Len(s) THEN s[l] ELSE u[l - Len(s)]
      BY <1>3, <2>1, <3>1
    <3> QED BY <3>1, <3>2
  <2>4. c[k] = IF k <= Len(s) - i THEN b[k] ELSE u[k - (Len(s) - i)]
    BY <1>10, <2>1
  <2>5. CASE i + k <= Len(s)
    <3>1. k \in 1..(Len(s) - i) /\ k <= Len(s) - i
      BY <1>1, <2>5
    <3>2. b[k] = s[i + k]
      BY <1>8, <3>1
    <3> QED BY <2>2, <2>3, <2>4, <2>5, <3>1, <3>2
  <2>6. CASE ~(i + k <= Len(s))
    <3>1. ~(k <= Len(s) - i) /\ k - (Len(s) - i) = i + k - Len(s)
      BY <1>1, <2>6
    <3> QED BY <2>2, <2>3, <2>4, <2>6, <3>1
  <2> QED BY <2>5, <2>6
<1>12. Len(c) = Len(a)
  BY <1>1, <1>7, <1>10
<1>13. a = c
  BY <1>7, <1>10, <1>11, <1>12, SeqEqual
<1> QED BY <1>2, <1>5, <1>6, <1>9, <1>13

LEMMA SameTurns ==
  ASSUME NEW t, NEW s \in Seq(Word), NEW u \in Seq(Word)
  PROVE  /\ \A k \in 1..Len(s) : Turn(t, s \o u, k) <=> Turn(t, s, k)
         /\ \A i : FirstTurn(t, s, i) => FirstTurn(t, s \o u, i)
<1>1. /\ Len(s) \in Nat /\ Len(u) \in Nat /\ Len(s \o u) = Len(s) + Len(u)
      /\ \A k \in 1..Len(s) : (s \o u)[k] = s[k]
  BY LenProperties, ConcatProperties
<1>2. ASSUME NEW k \in 1..Len(s)
      PROVE  Turn(t, s \o u, k) <=> Turn(t, s, k)
  <2>1. k \in 0..Len(s)
    BY <1>1
  <2>2. SubSeq(s \o u, 1, k) = SubSeq(s, 1, k)
    BY <2>1, ConcatFront
  <2> QED BY <1>1, <2>2 DEF Turn
<1>3. ASSUME NEW i, FirstTurn(t, s, i)
      PROVE  FirstTurn(t, s \o u, i)
  <2>1. i \in 1..Len(s) /\ Turn(t, s, i) /\ \A k \in 1..(i - 1) : ~Turn(t, s, k)
    BY <1>3 DEF FirstTurn
  <2>2. i \in 1..Len(s \o u) /\ \A k \in 1..(i - 1) : k \in 1..Len(s)
    BY <1>1, <2>1
  <2> QED BY <1>2, <2>1, <2>2 DEF FirstTurn
<1> QED BY <1>2, <1>3

LEMMA TurnGoesOn ==
  ASSUME NEW t \in [Path -> Node], NEW p \in Seq(Names), NEW i, FirstTurn(t, p, i),
         NEW c \in Seq(Word)
  PROVE  Advance(t)[p \o c] = Advance(t)[p] \o c
<1> DEFINE to == t[SubSeq(p, 1, i)].to
           rest == SubSeq(p, i + 1, Len(p))
<1>1. /\ to \in Seq(Word) /\ rest \in Seq(Word) /\ p \in Seq(Word)
      /\ Advance(t)[p] = to \o rest
  BY PlainTurn, WordTypes
<1>2. i \in 1..Len(p) /\ Len(p) \in Nat
  BY LenProperties DEF FirstTurn
<1>3. i \in 0..Len(p)
  BY <1>2
<1>4. /\ (p \o c)[i] = p[i] /\ p[i] \notin Dots /\ p \o c \in Seq(Word)
  <2>1. p[i] \in Names
    BY <1>2, ElementOfSeq
  <2>2. p[i] \notin Dots
    BY <2>1, WordTypes
  <2>3. p \o c \in Seq(Word) /\ (p \o c)[i] = p[i]
    BY <1>1, <1>2, ConcatProperties, LenProperties
  <2> QED BY <2>2, <2>3
<1>5. /\ SubSeq(p \o c, 1, i) = SubSeq(p, 1, i)
      /\ SubSeq(p \o c, i + 1, Len(p \o c)) = rest \o c
  BY <1>1, <1>3, ConcatFront, ConcatBack
<1>6. FirstTurn(t, p \o c, i)
  BY <1>1, SameTurns
<1>7. Advance(t)[p \o c] = Turned(t, p \o c, i)
  BY <1>4, <1>6, TakeTurn
<1>8. Turned(t, p \o c, i) = to \o (rest \o c)
  BY <1>4, <1>5 DEF Turned
<1> HIDE DEF to, rest
<1>9. to \o (rest \o c) = (to \o rest) \o c
  BY <1>1, ConcatAssociative
<1> QED BY <1>1, <1>7, <1>8, <1>9

(* There is nothing to turn at on the path of a directory.                 *)
LEMMA DirPlain ==
  ASSUME NEW t \in [Path -> Node], IsTree(t), NEW p \in Path, t[p] = Dir
  PROVE  /\ \A i \in 1..Len(p) : ~Turn(t, p, i)
         /\ Advance(t)[p] = p
<1>1. p \in Seq(Names) /\ p \in Seq(Word) /\ Len(p) \in Nat
  BY WordTypes, LenProperties
<1>2. ASSUME NEW i \in 1..Len(p)
      PROVE  ~Turn(t, p, i)
  <2> DEFINE q == SubSeq(p, 1, i)
  <2>1. q \in Seq(Names) /\ Len(q) = i
    <3>1. i \in Int /\ i \in Nat /\ 1 <= i /\ i <= Len(p) /\ \A k \in 1..i : p[k] \in Names
      BY <1>1, ElementOfSeq
    <3>2. q \in Seq(Names) /\ Len(q) = (IF 1 <= i THEN i - 1 + 1 ELSE 0)
      BY <3>1, SubSeqProperties
    <3>3. (IF 1 <= i THEN i - 1 + 1 ELSE 0) = i
      BY <3>1
    <3> QED BY <3>2, <3>3
  <2>2. q \in Path /\ IsPrefix(q, p)
    <3>1. Len(p) <= Depth /\ i <= Len(p)
      BY PathIsSequence
    <3>2. Len(q) <= Depth
      BY <1>1, <2>1, <3>1, DepthAssumption
    <3>3. q \in Path
      BY <2>1, <3>2, PathIsSequence
    <3>4. SubSeq(q, 1, i) = q
      <4> HIDE DEF q
      <4> QED BY <2>1, SubSeqFull
    <3> HIDE DEF q
    <3> QED BY <2>1, <3>1, <3>3, <3>4, <1>1 DEF IsPrefix, q
  <2> HIDE DEF q
  <2>3. t[q] = Dir
    BY <2>2, Ancestors, NodeKinds
  <2>4. At(t, q).kind # "link"
    BY <2>2, <2>3, LinkKind DEF At
  <2>5. p[i] \in Names
    BY <1>1, ElementOfSeq
  <2>6. p[i] \notin Dots
    BY <2>5, WordTypes
  <2> QED BY <2>4, <2>6 DEF Turn, q
<1> QED BY <1>1, <1>2, NoTurn

LEMMA DirFound ==
  ASSUME NEW t \in [Path -> Node], IsTree(t), NEW p \in Path, t[p] = Dir
  PROVE  Real(t, p) = p /\ At(t, Real(t, p)) = Dir
<1>1. Real(t, p) = p
  BY DirPlain, AtRest, ShellAssumption DEF Real
<1> QED BY <1>1 DEF At

LEMMA TurnedDot ==
  ASSUME NEW t, NEW u, NEW i, u[i] \in Dots, At(t, SubSeq(u, 1, i - 1)) = Dir,
         u[i] = ".." => SubSeq(u, 1, i - 1) # << >>
  PROVE  Turned(t, u, i) =
           (IF u[i] = ".." THEN Upper(SubSeq(u, 1, i - 1)) ELSE SubSeq(u, 1, i - 1))
             \o SubSeq(u, i + 1, Len(u))
BY DEF Turned

LEMMA DotTurn ==
  ASSUME NEW t \in [Path -> Node], IsTree(t), NEW d \in Path, t[d] = Dir,
         NEW w \in Dots, w = ".." => d # << >>, NEW c \in Seq(Word)
  PROVE  Advance(t)[d \o (<<w>> \o c)] = (IF w = ".." THEN Upper(d) ELSE d) \o c
<1>1. d \in Seq(Word) /\ w \in Word /\ Len(d) \in Nat
  BY WordTypes, LenProperties
<1>2. <<w>> \in Seq(Word) /\ Len(<<w>>) = 1 /\ <<w>>[1] = w
  BY <1>1
<1>3. PICK s : s = d \o <<w>>
  OBVIOUS
<1>4. PICK n : n = Len(d) + 1
  OBVIOUS
<1>5. /\ s \in Seq(Word) /\ Len(s) = n /\ s[n] = w
      /\ n \in Nat /\ n \in 1..n /\ Len(d) = n - 1 /\ n - 1 \in 0..n
  <2>1. s \in Seq(Word) /\ Len(s) = Len(d) + 1
    BY <1>1, <1>2, <1>3, ConcatProperties
  <2>2. 1 \in 1..Len(<<w>>)
    BY <1>2
  <2>3. s[Len(d) + 1] = <<w>>[1]
    BY <1>1, <1>2, <1>3, <2>2, ConcatNext
  <2>4. n \in Nat /\ n \in 1..n /\ Len(d) = n - 1 /\ n - 1 \in 0..n
    BY <1>1, <1>4
  <2> QED BY <1>2, <1>4, <2>1, <2>3, <2>4
<1>6. PICK u : u = s \o c
  OBVIOUS
<1>7. d \o (<<w>> \o c) = u
  BY <1>1, <1>2, <1>3, <1>6, ConcatAssociative
<1>8. FirstTurn(t, s, n)
  <2>1. \A k \in 1..(n - 1) : ~Turn(t, s, k)
    BY <1>1, <1>2, <1>3, <1>5, SameTurns, DirPlain
  <2>2. Turn(t, s, n)
    BY <1>5 DEF Turn
  <2> QED BY <1>5, <2>1, <2>2 DEF FirstTurn
<1>9. FirstTurn(t, u, n)
  BY <1>5, <1>6, <1>8, SameTurns
<1>10. u \in Seq(Word) /\ u[n] = w
  <2>1. /\ u \in Seq(Word)
        /\ \A k \in 1..(Len(s) + Len(c)) : u[k] = IF k <= Len(s) THEN s[k] ELSE c[k - Len(s)]
    BY <1>5, <1>6, ConcatProperties
  <2>2. n \in 1..(Len(s) + Len(c)) /\ n <= Len(s)
    BY <1>5, LenProperties
  <2> QED BY <1>5, <2>1, <2>2
<1>11. SubSeq(u, 1, n - 1) = d
  <2>1. SubSeq(u, 1, n - 1) = SubSeq(s, 1, n - 1)
    BY <1>5, <1>6, ConcatFront
  <2>2. n - 1 \in 0..Len(d)
    BY <1>5
  <2>3. SubSeq(s, 1, n - 1) = SubSeq(d, 1, n - 1)
    BY <1>1, <1>2, <1>3, <2>2, ConcatFront
  <2> QED BY <1>1, <1>5, <2>1, <2>3, SubSeqFull
<1>12. SubSeq(u, n + 1, Len(u)) = c
  <2>1. n \in 0..Len(s)
    BY <1>5
  <2>2. SubSeq(u, n + 1, Len(u)) = SubSeq(s, n + 1, Len(s)) \o c
    BY <1>5, <1>6, <2>1, ConcatBack
  <2>3. SubSeq(s, n + 1, Len(s)) = << >>
    BY <1>5, SubSeqEmpty
  <2> QED BY <2>2, <2>3, ConcatEmptySeq
<1>13. At(t, d) = Dir
  BY DEF At
<1>14. Turned(t, u, n) = (IF w = ".." THEN Upper(d) ELSE d) \o c
  <2>1. /\ u[n] \in Dots /\ At(t, SubSeq(u, 1, n - 1)) = Dir
        /\ u[n] = ".." => SubSeq(u, 1, n - 1) # << >>
    BY <1>10, <1>11, <1>13
  <2>2. Turned(t, u, n) =
          (IF u[n] = ".." THEN Upper(SubSeq(u, 1, n - 1)) ELSE SubSeq(u, 1, n - 1))
            \o SubSeq(u, n + 1, Len(u))
    BY <2>1, TurnedDot
  <2> QED BY <1>10, <1>11, <1>12, <2>2
<1> QED BY <1>7, <1>9, <1>10, <1>14, TakeTurn

Turning(t, f, j) == \A k \in 0..(j - 1) : \E i : FirstTurn(t, f[k], i)

(* As long as there is something to turn at, the rest comes along.         *)
LEMMA TurnsConcat ==
  ASSUME NEW t \in [Path -> Node], NEW p \in Seq(Names), NEW c \in Seq(Word),
         NEW n \in Nat, NEW f, Turns(t, p, f, n), NEW m \in Nat, NEW g, Turns(t, p \o c, g, m),
         NEW j \in 0..n, j <= m, Turning(t, f, j)
  PROVE  g[j] = f[j] \o c
<1> DEFINE Bad == {k \in 0..j : g[k] # f[k] \o c}
<1>0. j \in 0..j
  OBVIOUS
<1>1. SUFFICES ASSUME Bad # {}
               PROVE  FALSE
  BY <1>0
<1>2. PICK k \in Bad : \A l \in Bad : k <= l
  <2>1. Bad \in SUBSET Nat
    OBVIOUS
  <2> HIDE DEF Bad
  <2> QED BY <1>1, <2>1, LeastNatural
<1>3. k \in 0..j /\ g[k] # f[k] \o c
  OBVIOUS
<1>4. k # 0
  BY <1>3 DEF Turns
<1>5. k - 1 \in 0..j /\ ~(k <= k - 1) /\ k \in 1..n /\ k \in 1..m /\ k - 1 \in 0..(j - 1) /\ k - 1 \in 0..n
  BY <1>3, <1>4
<1>6. g[k - 1] = f[k - 1] \o c
  BY <1>2, <1>5
<1> HIDE DEF Bad
<1>7. f[k - 1] \in Seq(Names)
  <2>1. \A x \in Seq(Names) : Advance(t)[x] \in Seq(Names)
    BY AdvancePlain
  <2>2. \A l \in 0..n : f[l] \in Seq(Names)
    BY <2>1, TurnsWithin
  <2> QED BY <1>5, <2>2
<1>8. PICK i : FirstTurn(t, f[k - 1], i)
  BY <1>5 DEF Turning
<1>9. Advance(t)[f[k - 1] \o c] = Advance(t)[f[k - 1]] \o c
  BY <1>7, <1>8, TurnGoesOn
<1>10. g[k] = Advance(t)[g[k - 1]] /\ f[k] = Advance(t)[f[k - 1]]
  BY <1>5 DEF Turns
<1> QED BY <1>3, <1>6, <1>9, <1>10

(* The kernel spends one turn on a dot after a directory.                  *)
LEMMA DotDropped ==
  ASSUME NEW t \in [Path -> Node], IsTree(t), NEW p \in Seq(Names), At(t, Real(t, p)) = Dir,
         NEW w \in Dots, w = ".." => p # << >> /\ At(t, p) = Dir,
         NEW c \in Seq(Word), NEW n \in Nat, MaxFollow <= n
  PROVE  Resolved(t, p \o (<<w>> \o c), n + 1)
           = Resolved(t, (IF w = ".." THEN Upper(p) ELSE p) \o c, n)
<1> DEFINE e == <<w>> \o c
           q == (IF w = ".." THEN Upper(p) ELSE p) \o c
<1>1. MaxFollow \in Nat /\ w \in Word /\ e \in Seq(Word) /\ n + 1 \in Nat
  <2>1. w \in Word /\ MaxFollow \in Nat /\ n + 1 \in Nat
    BY WordTypes, ShellAssumption
  <2>2. <<w>> \in Seq(Word)
    BY <2>1
  <2>3. e \in Seq(Word)
    BY <2>2, ConcatProperties
  <2> QED BY <2>1, <2>3
<1>2. PICK f : /\ Turns(t, p, f, MaxFollow)
               /\ Real(t, p) = IF Advance(t)[f[MaxFollow]] = f[MaxFollow]
                               THEN f[MaxFollow] ELSE NoPath
  BY <1>1, ResolvedTurns DEF Real
<1>3. PICK g : /\ Turns(t, p \o e, g, n + 1)
               /\ Resolved(t, p \o e, n + 1) = IF Advance(t)[g[n + 1]] = g[n + 1]
                                               THEN g[n + 1] ELSE NoPath
  BY <1>1, ResolvedTurns
<1>4. PICK h : /\ Turns(t, q, h, n)
               /\ Resolved(t, q, n) = IF Advance(t)[h[n]] = h[n] THEN h[n] ELSE NoPath
  BY <1>1, ResolvedTurns
<1>5. PICK d : d = f[MaxFollow] /\ d \in Path /\ t[d] = Dir
  <2>1. NoPath \notin Path /\ Nothing # Dir
    <3>1. NoPath \notin Seq(Names)
      <4>1. NoPath[1] \notin Names
        BY ShellAssumption
      <4>2. NoPath \in Seq(Names) => NoPath[1] \in Names
        <5>1. Len(NoPath) = 1 /\ 1 \in 1..1
          BY DEF NoPath
        <5>2. ASSUME NEW u \in Seq(Names), Len(u) = 1
              PROVE  u[1] \in Names
          <6>1. 1 \in 1..Len(u)
            BY <5>2
          <6> QED BY <6>1, ElementOfSeq
        <5> QED BY <5>1, <5>2
      <4> QED BY <4>1, <4>2
    <3> QED BY <3>1, WordTypes, NodeKinds
  <2>2. Real(t, p) \in Path
    BY <2>1 DEF At
  <2>3. Real(t, p) = f[MaxFollow]
    BY <1>2, <2>1, <2>2
  <2> QED BY <2>2, <2>3 DEF At
<1>6. \A k \in 0..MaxFollow : f[k] \in Seq(Names)
  <2>1. \A x \in Seq(Names) : Advance(t)[x] \in Seq(Names)
    BY AdvancePlain
  <2> QED BY <1>1, <1>2, <2>1, TurnsWithin
<1>7. PICK j \in 0..MaxFollow : f[j] = d /\ \A k \in 0..(j - 1) : f[k] # d
  <2> DEFINE Ends == {k \in 0..MaxFollow : f[k] = d}
  <2>1. Ends \in SUBSET Nat /\ Ends # {}
    BY <1>1, <1>5
  <2> HIDE DEF Ends
  <2>2. PICK j \in Ends : \A k \in Ends : j <= k
    BY <2>1, LeastNatural
  <2>3. j \in 0..MaxFollow /\ f[j] = d
    BY <2>2 DEF Ends
  <2>4. ASSUME NEW k \in 0..(j - 1)
        PROVE  f[k] # d
    <3>1. k \in 0..MaxFollow /\ ~(j <= k)
      BY <1>1, <2>3
    <3>2. k \notin Ends
      BY <2>2, <3>1
    <3> QED BY <3>1, <3>2 DEF Ends
  <2> QED BY <2>3, <2>4
<1>8. ASSUME NEW k \in 0..(j - 1)
      PROVE  \E i : FirstTurn(t, f[k], i)
  <2>1. k \in 0..MaxFollow
    BY <1>1
  <2>2. f[k] \in Seq(Word)
    BY <1>6, <2>1, WordTypes
  <2>3. SUFFICES ASSUME \A i \in 1..Len(f[k]) : ~Turn(t, f[k], i)
                 PROVE  FALSE
    BY <2>2, TurnOrNone
  <2>4. Advance(t)[f[k]] = f[k]
    BY <2>2, <2>3, NoTurn
  <2>5. f[MaxFollow] = f[k]
    BY <1>1, <1>2, <2>1, <2>4, RestsLast
  <2> QED BY <1>5, <1>7, <2>5
<1>9. j <= n + 1 /\ j \in 0..n /\ j + 1 \in 1..(n + 1) /\ j + 1 - 1 = j /\ j \in 0..MaxFollow
  BY <1>1
<1>10. g[j] = d \o e
  <2> HIDE DEF e
  <2>0. Turning(t, f, j)
    BY <1>8 DEF Turning
  <2>1. PICK m : m = n + 1
    OBVIOUS
  <2>2. m \in Nat /\ j <= m /\ Turns(t, p \o e, g, m)
    BY <1>1, <1>3, <1>9, <2>1
  <2>3. g[j] = f[j] \o e
    BY <1>1, <1>2, <1>9, <2>0, <2>2, TurnsConcat
  <2> QED BY <1>7, <2>3
<1>11. w = ".." => d # << >> /\ d = p /\ j = 0
  <2>1. SUFFICES ASSUME w = ".."
                 PROVE  d # << >> /\ d = p /\ j = 0
    OBVIOUS
  <2>2. p \in Path /\ t[p] = Dir /\ p # << >>
    BY <2>1, NodeKinds DEF At
  <2>3. Real(t, p) = p
    BY <2>2, DirFound
  <2>4. d = p
    <3>1. Advance(t)[p] = p
      BY <2>2, DirPlain
    <3>2. f[MaxFollow] = p
      BY <1>1, <1>2, <3>1, AtRest
    <3> QED BY <1>5, <3>2
  <2>5. f[0] = d
    BY <1>2, <2>4 DEF Turns
  <2>6. j = 0
    <3>1. j # 0 => 0 \in 0..(j - 1)
      BY <1>1
    <3> QED BY <1>7, <2>5, <3>1
  <2> QED BY <2>2, <2>4, <2>6
<1>12. g[j + 1] = (IF w = ".." THEN Upper(d) ELSE d) \o c
  <2>1. g[j + 1] = Advance(t)[g[j]]
    BY <1>3, <1>9 DEF Turns
  <2>2. Advance(t)[d \o (<<w>> \o c)] = (IF w = ".." THEN Upper(d) ELSE d) \o c
    BY <1>5, <1>11, DotTurn
  <2> QED BY <1>10, <2>1, <2>2
<1>13. h[j] = (IF w = ".." THEN Upper(d) ELSE d) \o c
  <2>1. CASE w = ".."
    <3>1. h[0] = q
      BY <1>4 DEF Turns
    <3> QED BY <1>11, <2>1, <3>1
  <2>2. CASE w # ".."
    <3>1. Turns(t, p \o c, h, n)
      BY <1>4, <2>2
    <3>3. Turning(t, f, j)
      BY <1>8 DEF Turning
    <3>4. j <= n
      BY <1>1, <1>9
    <3>2. h[j] = f[j] \o c
      <4> HIDE DEF e, q
      <4>1. Turns(t, p, f, MaxFollow) /\ MaxFollow \in Nat /\ j \in 0..MaxFollow
        BY <1>1, <1>2
      <4> QED BY <3>1, <3>3, <3>4, <4>1, TurnsConcat
    <3> QED BY <1>7, <2>2, <3>2
  <2> QED BY <2>1, <2>2
<1> HIDE DEF e, q
<1>14. g[n + 1] = h[n]
  <2>1. g[j + 1] = h[j]
    BY <1>12, <1>13
  <2> QED BY <1>3, <1>4, <1>9, <2>1, TurnsShifted
<1>15. Resolved(t, p \o e, n + 1) = Resolved(t, q, n)
  BY <1>3, <1>4, <1>14
<1> QED BY <1>15 DEF e, q

-----------------------------------------------------------------------------
(* convert_to_absolute, word by word.                                      *)

Walked(start, words, f, n) == \A k \in 0..n : f[k] = Walk(start, words, f, k)

LEMMA WalksAgree ==
  ASSUME NEW start, NEW words, NEW n \in Nat, NEW f, NEW g,
         Walked(start, words, f, n), Walked(start, words, g, n)
  PROVE  f[n] = g[n]
<1> DEFINE Bad == {k \in 0..n : f[k] # g[k]}
<1>0. n \in 0..n
  OBVIOUS
<1>1. SUFFICES ASSUME Bad # {}
               PROVE  FALSE
  BY <1>0
<1>2. PICK k \in Bad : \A l \in Bad : k <= l
  <2>1. Bad \in SUBSET Nat
    OBVIOUS
  <2> HIDE DEF Bad
  <2> QED BY <1>1, <2>1, LeastNatural
<1>3. k \in 0..n /\ f[k] # g[k]
  OBVIOUS
<1>4. f[k] = Walk(start, words, f, k) /\ g[k] = Walk(start, words, g, k)
  BY <1>3 DEF Walked
<1>5. k # 0
  BY <1>3, <1>4 DEF Walk
<1>6. k - 1 \in 0..n /\ ~(k <= k - 1)
  BY <1>3, <1>5
<1>7. f[k - 1] = g[k - 1]
  BY <1>2, <1>6
<1> HIDE DEF Bad
<1> QED BY <1>3, <1>4, <1>7 DEF Walk

LEMMA ConvertedPath ==
  ASSUME NEW from, NEW o, NEW n \in Nat, n = Len(o.words), NEW f,
         Walked(IF o.absolute THEN Base ELSE from, o.words, f, n)
  PROVE  convert_to_absolute(from, o) = f[n]
<1> DEFINE start == IF o.absolute THEN Base ELSE from
           Step(g) == [k \in 0..n |-> Walk(start, o.words, g, k)]
           path == CHOOSE g : g = Step(g)
           h == [k \in 0..n |-> f[k]]
<1>1. convert_to_absolute(from, o) = path[n]
  BY DEF convert_to_absolute, Walk
<1>2. ASSUME NEW k \in 0..n
      PROVE  h[k] = Walk(start, o.words, h, k)
  <2>1. k # 0 => k - 1 \in 0..n
    OBVIOUS
  <2>2. k # 0 => h[k - 1] = f[k - 1]
    BY <2>1
  <2>3. h[k] = Walk(start, o.words, f, k)
    BY DEF Walked
  <2> HIDE DEF h, start
  <2> QED BY <2>2, <2>3 DEF Walk
<1>3. h = Step(h)
  <2>1. DOMAIN h = 0..n /\ DOMAIN Step(h) = 0..n /\ \A k \in 0..n : h[k] = Step(h)[k]
    BY <1>2
  <2> QED BY <2>1
<1>4. path = Step(path)
  <2> HIDE DEF h, Step
  <2> QED BY <1>3
<1>5. \A k \in 0..n : path[k] = Walk(start, o.words, path, k)
  BY <1>4, Zenon
<1> HIDE DEF path, Step, start, h
<1>6. Walked(start, o.words, path, n)
  BY <1>5 DEF Walked
<1>7. Walked(start, o.words, f, n)
  BY DEF start
<1>8. path[n] = f[n]
  BY <1>6, <1>7, WalksAgree
<1> QED BY <1>1, <1>8

LEMMA ConvertedType ==
  ASSUME NEW from \in Seq(Names), NEW o \in Operands
  PROVE  convert_to_absolute(from, o) \in Seq(Names)
<1>1. PICK start : start = IF o.absolute THEN Base ELSE from
  OBVIOUS
<1>2. o.words \in Seq(Names \cup Dots) /\ start \in Seq(Names)
  BY <1>1, ShellAssumption, WordTypes
<1>3. Len(o.words) \in Nat /\ Len(o.words) \in 0..Len(o.words)
  BY <1>2, LenProperties
<1>4. PICK f : Walks(start, o.words, f, Len(o.words))
  BY <1>2, <1>3, WalksExist
<1>5. Walked(start, o.words, f, Len(o.words))
  BY <1>4 DEF Walks, Walked
<1>6. convert_to_absolute(from, o) = f[Len(o.words)]
  BY <1>1, <1>3, <1>5, ConvertedPath
<1> QED BY <1>3, <1>4, <1>6 DEF Walks

-----------------------------------------------------------------------------
(* What the kernel does with the words that the user typed.                *)

(* The path after k words, with the words that follow.                     *)
Later(words, k) == {i \in DotsIn(words) : i > k}

Line(t, f, words, k) ==
  Resolved(t, f[k] \o SubSeq(words, k + 1, Len(words)),
           MaxFollow + Cardinality(Later(words, k)))

StraightOn(t, f, words) ==
  \A i \in DotsIn(words) :
    IF words[i] = ".." THEN f[i - 1] # << >> /\ At(t, f[i - 1]) = Dir
    ELSE At(t, Real(t, f[i - 1])) = Dir

LEMMA LaterFinite ==
  ASSUME NEW words \in Seq(Word), NEW k
  PROVE  IsFiniteSet(Later(words, k)) /\ Cardinality(Later(words, k)) \in Nat
<1>1. Len(words) \in Nat /\ DOMAIN words = 1..Len(words)
  BY LenProperties
<1>2. Later(words, k) \subseteq 1..Len(words)
  BY <1>1 DEF Later, DotsIn
<1>3. IsFiniteSet(1..Len(words))
  BY <1>1, FS_Interval
<1>4. IsFiniteSet(Later(words, k))
  BY <1>2, <1>3, FS_Subset
<1> QED BY <1>4, FS_CardinalityType

LEMMA NextWord ==
  ASSUME NEW S, NEW s \in Seq(S), NEW k \in 1..Len(s)
  PROVE  SubSeq(s, k - 1 + 1, Len(s)) = <<s[k]>> \o SubSeq(s, k + 1, Len(s))
<1>1. Len(s) \in Nat /\ k \in 0..Len(s) /\ k - 1 \in 0..Len(s) /\ s[k] \in S
  BY LenProperties, ElementOfSeq
<1>2. PICK b : b = SubSeq(s, k - 1 + 1, Len(s))
  OBVIOUS
<1>3. PICK a : a = SubSeq(s, k + 1, Len(s))
  OBVIOUS
<1>4. /\ b \in Seq(S) /\ Len(b) = Len(s) - (k - 1)
      /\ \A i \in 1..(Len(s) - (k - 1)) : b[i] = s[k - 1 + i]
  BY <1>1, <1>2, RestOf
<1>5. /\ a \in Seq(S) /\ Len(a) = Len(s) - k
      /\ \A i \in 1..(Len(s) - k) : a[i] = s[k + i]
  BY <1>1, <1>3, RestOf
<1>6. PICK h : h = <<s[k]>>
  OBVIOUS
<1>7. h \in Seq(S) /\ Len(h) = 1 /\ h[1] = s[k]
  BY <1>1, <1>6
<1>8. PICK c : c = h \o a
  OBVIOUS
<1>9. /\ c \in Seq(S) /\ Len(c) = 1 + (Len(s) - k)
      /\ \A i \in 1..(1 + (Len(s) - k)) : c[i] = IF i <= 1 THEN h[i] ELSE a[i - 1]
  <2>1. /\ c \in Seq(S) /\ Len(c) = Len(h) + Len(a)
        /\ \A i \in 1..(Len(h) + Len(a)) : c[i] = IF i <= Len(h) THEN h[i] ELSE a[i - Len(h)]
    BY <1>5, <1>7, <1>8, ConcatProperties
  <2> QED BY <1>5, <1>7, <2>1
<1>10. ASSUME NEW i \in 1..(Len(s) - (k - 1))
       PROVE  b[i] = c[i]
  <2>1. i \in 1..(1 + (Len(s) - k))
    BY <1>1
  <2>2. c[i] = IF i <= 1 THEN h[i] ELSE a[i - 1]
    BY <1>9, <2>1
  <2>3. b[i] = s[k - 1 + i]
    BY <1>4
  <2>4. CASE i <= 1
    <3>1. i = 1 /\ k - 1 + i = k
      BY <1>1, <2>4
    <3> QED BY <1>7, <2>2, <2>3, <3>1
  <2>5. CASE ~(i <= 1)
    <3>1. i - 1 \in 1..(Len(s) - k) /\ k + (i - 1) = k - 1 + i
      BY <1>1, <2>5
    <3>2. a[i - 1] = s[k + (i - 1)]
      BY <1>5, <3>1
    <3> QED BY <2>2, <2>3, <2>5, <3>1, <3>2
  <2> QED BY <2>4, <2>5
<1>11. Len(c) = Len(b)
  BY <1>1, <1>4, <1>9
<1>12. b = c
  BY <1>4, <1>9, <1>10, <1>11, SeqEqual
<1> QED BY <1>2, <1>3, <1>6, <1>8, <1>12

LEMMA Associative ==
  ASSUME NEW a \in Seq(Word), NEW b \in Seq(Word), NEW c \in Seq(Word)
  PROVE  a \o (b \o c) = (a \o b) \o c
BY ConcatAssociative

LEMMA OneWord ==
  ASSUME NEW t \in [Path -> Node], IsTree(t), NEW words \in Seq(Names \cup Dots),
         NEW from \in Seq(Names), NEW f, Walks(from, words, f, Len(words)),
         StraightOn(t, f, words), NEW k \in 1..Len(words)
  PROVE  Line(t, f, words, k - 1) = Line(t, f, words, k)
<1>1. words \in Seq(Word) /\ Len(words) \in Nat /\ DOMAIN words = 1..Len(words)
  <2>1. Names \cup Dots \subseteq Word
    BY WordTypes
  <2>2. words \in Seq(Word)
    BY <2>1, SeqMonotonic
  <2> QED BY <2>2, LenProperties
<1>2. PICK w : w = words[k]
  OBVIOUS
<1>3. PICK c : c = SubSeq(words, k + 1, Len(words))
  OBVIOUS
<1>4. PICK p : p = f[k - 1]
  OBVIOUS
<1>5. /\ c \in Seq(Word) /\ w \in Names \cup Dots /\ w \in Word /\ <<w>> \in Seq(Word)
      /\ SubSeq(words, k - 1 + 1, Len(words)) = <<w>> \o c
  <2>1. k \in 0..Len(words) /\ w \in Names \cup Dots
    BY <1>1, <1>2, ElementOfSeq
  <2>2. c \in Seq(Word)
    BY <1>1, <1>3, <2>1, RestOf
  <2>3. w \in Word
    BY <2>1, WordTypes
  <2>4. SubSeq(words, k - 1 + 1, Len(words)) = <<w>> \o c
    BY <1>1, <1>2, <1>3, NextWord
  <2> QED BY <2>1, <2>2, <2>3, <2>4
<1>6. p \in Seq(Names) /\ p \in Seq(Word) /\ f[k] = Walk(from, words, f, k) /\ k # 0
  <2>1. k \in 0..Len(words) /\ k - 1 \in 0..Len(words) /\ k # 0
    BY <1>1
  <2> QED BY <1>4, <2>1, WordTypes DEF Walks
<1>7. CASE w \notin Dots
  <2>1. f[k] = Append(p, w)
    BY <1>2, <1>4, <1>6, <1>7 DEF Walk, Dots
  <2>2. f[k] = p \o <<w>>
    BY <1>5, <1>6, <2>1, AppendIsConcat
  <2>3. p \o (<<w>> \o c) = f[k] \o c
    <3>0. PICK h : h = <<w>>
      OBVIOUS
    <3>1. p \in Seq(Word) /\ h \in Seq(Word) /\ c \in Seq(Word)
      BY <1>5, <1>6, <3>0
    <3>2. p \o (h \o c) = (p \o h) \o c
      BY <3>1, Associative
    <3> QED BY <2>2, <3>0, <3>2
  <2>4. Later(words, k - 1) = Later(words, k)
    <3>1. k \notin DotsIn(words) /\ DotsIn(words) \subseteq 1..Len(words)
      BY <1>1, <1>2, <1>7 DEF DotsIn
    <3>2. \A i \in DotsIn(words) : i > k - 1 <=> i > k
      BY <1>1, <3>1
    <3> QED BY <3>2 DEF Later
  <2> QED BY <1>3, <1>4, <1>5, <2>3, <2>4 DEF Line
<1>8. CASE w \in Dots
  <2>1. f[k] = IF w = ".." THEN Upper(p) ELSE p
    BY <1>2, <1>4, <1>6, <1>8 DEF Walk, Dots
  <2>2. k \in DotsIn(words)
    BY <1>1, <1>2, <1>8 DEF DotsIn
  <2>3. /\ w = ".." => p # << >> /\ At(t, p) = Dir
        /\ w # ".." => At(t, Real(t, p)) = Dir
    BY <1>2, <1>4, <2>2 DEF StraightOn
  <2>4. At(t, Real(t, p)) = Dir
    <3>1. ASSUME At(t, p) = Dir
          PROVE  At(t, Real(t, p)) = Dir
      <4>1. p \in Path /\ t[p] = Dir
        BY <3>1, NodeKinds DEF At
      <4> QED BY <4>1, DirFound
    <3> QED BY <2>3, <3>1
  <2>5. PICK n : n = MaxFollow + Cardinality(Later(words, k))
    OBVIOUS
  <2>6. n \in Nat /\ MaxFollow <= n /\ n + 1 = MaxFollow + Cardinality(Later(words, k - 1))
    <3>1. IsFiniteSet(Later(words, k)) /\ Cardinality(Later(words, k)) \in Nat
      BY <1>1, LaterFinite
    <3>2. Later(words, k - 1) = Later(words, k) \cup {k} /\ k \notin Later(words, k)
      <4>1. \A i \in 1..Len(words) : i > k - 1 <=> i > k \/ i = k
        BY <1>1
      <4>2. DotsIn(words) \subseteq 1..Len(words) /\ ~(k > k)
        BY <1>1 DEF DotsIn
      <4> QED BY <2>2, <4>1, <4>2 DEF Later
    <3>3. Cardinality(Later(words, k - 1)) = Cardinality(Later(words, k)) + 1
      BY <3>1, <3>2, FS_AddElement
    <3> QED BY <2>5, <3>1, <3>3, ShellAssumption
  <2>7. Resolved(t, p \o (<<w>> \o c), n + 1) = Resolved(t, (IF w = ".." THEN Upper(p) ELSE p) \o c, n)
    BY <1>5, <1>6, <1>8, <2>3, <2>4, <2>6, DotDropped
  <2> QED BY <1>3, <1>4, <1>5, <2>1, <2>5, <2>6, <2>7 DEF Line
<1> QED BY <1>7, <1>8

LEMMA AllWords ==
  ASSUME NEW t \in [Path -> Node], IsTree(t), NEW words \in Seq(Names \cup Dots),
         NEW from \in Seq(Names), NEW f, Walks(from, words, f, Len(words)),
         StraightOn(t, f, words)
  PROVE  Resolved(t, from \o words, MaxFollow + Cardinality(DotsIn(words)))
           = Real(t, f[Len(words)])
<1>1. words \in Seq(Word) /\ Len(words) \in Nat /\ DOMAIN words = 1..Len(words)
  <2>1. Names \cup Dots \subseteq Word
    BY WordTypes
  <2>2. words \in Seq(Word)
    BY <2>1, SeqMonotonic
  <2> QED BY <2>2, LenProperties
<1>2. PICK n : n = Len(words)
  OBVIOUS
<1> DEFINE Bad == {k \in 0..n : Line(t, f, words, k) # Line(t, f, words, 0)}
<1>3. Bad = {}
  <2> SUFFICES ASSUME Bad # {}
               PROVE  FALSE
    OBVIOUS
  <2>1. PICK k \in Bad : \A l \in Bad : k <= l
    <3>1. Bad \in SUBSET Nat
      BY <1>1, <1>2
    <3> HIDE DEF Bad
    <3> QED BY <3>1, LeastNatural
  <2>2. k \in 0..n /\ k # 0 /\ Line(t, f, words, k) # Line(t, f, words, 0)
    OBVIOUS
  <2>3. k - 1 \in 0..n /\ ~(k <= k - 1) /\ k \in 1..Len(words)
    BY <1>1, <1>2, <2>2
  <2>4. Line(t, f, words, k - 1) = Line(t, f, words, 0)
    BY <2>1, <2>3
  <2> HIDE DEF Bad
  <2> QED BY <2>2, <2>3, <2>4, OneWord
<1>4. Line(t, f, words, n) = Line(t, f, words, 0)
  <2>1. n \in 0..n
    BY <1>1, <1>2
  <2> QED BY <1>3, <2>1
<1> HIDE DEF Bad
<1>5. DotsIn(words) \subseteq 1..Len(words)
  BY <1>1 DEF DotsIn
<1>6. Line(t, f, words, 0) = Resolved(t, from \o words, MaxFollow + Cardinality(DotsIn(words)))
  <2>1. Later(words, 0) = DotsIn(words)
    BY <1>1, <1>5 DEF Later
  <2>2. SubSeq(words, 0 + 1, Len(words)) = words
    BY <1>1, SubSeqFull
  <2>3. f[0] = from
    BY <1>1 DEF Walks, Walk
  <2> QED BY <2>1, <2>2, <2>3 DEF Line
<1>7. Line(t, f, words, n) = Real(t, f[n])
  <2>1. Later(words, n) = {}
    BY <1>1, <1>2, <1>5 DEF Later
  <2>2. MaxFollow + Cardinality({}) = MaxFollow
    BY FS_EmptySet, ShellAssumption
  <2>3. SubSeq(words, n + 1, Len(words)) = << >>
    BY <1>1, <1>2, SubSeqEmpty
  <2>4. f[n] \o << >> = f[n]
    <3>1. f[n] \in Seq(Names)
      BY <1>1, <1>2 DEF Walks
    <3> QED BY <3>1, ConcatEmptySeq
  <2> QED BY <2>1, <2>2, <2>3, <2>4 DEF Line, Real
<1> QED BY <1>2, <1>4, <1>6, <1>7

-----------------------------------------------------------------------------
(* cat.                                                                    *)

LEMMA CatSteady ==
  ASSUME Typed
  PROVE  CatOpensWhatItChecked
<1> SUFFICES ASSUME NEW s \in Shells, NEW o \in Operands,
                    cwd[s] # Gone, ~o.absolute, Straight(s, o)
             PROVE  At(fs, Opened(s, o)) = At(fs, Checked(s, o))
  BY DEF CatOpensWhatItChecked
<1>1. fs \in [Path -> Node] /\ IsTree(fs) /\ cwd[s] \in Path /\ cwd[s] \in Seq(Names)
  <2>1. fs \in [Path -> Node] /\ IsTree(fs) /\ At(fs, cwd[s]) = Dir
    BY DEF Typed, TreeTyped, CwdTyped, Somewhere
  <2>2. cwd[s] \in Path
    BY <2>1, NodeKinds DEF At
  <2> QED BY <2>1, <2>2, WordTypes
<1>2. o \in [absolute : BOOLEAN, words : Seq(Names \cup Dots)]
  BY ShellAssumption
<1>3. PICK words : words = o.words
  OBVIOUS
<1>4. words \in Seq(Names \cup Dots) /\ Len(words) \in Nat /\ DOMAIN words = 1..Len(words)
      /\ Len(words) \in 0..Len(words)
  BY <1>2, <1>3, LenProperties
<1>5. PICK f : Walks(cwd[s], words, f, Len(words))
  BY <1>1, <1>4, WalksExist
<1>6. \A k \in 0..Len(words) : f[k] = Walk(cwd[s], words, f, k)
  BY <1>5 DEF Walks
<1>7. Absolute(s, o) = f[Len(words)]
  <2>1. Walked(IF o.absolute THEN Base ELSE cwd[s], o.words, f, Len(words))
    BY <1>3, <1>6 DEF Walked
  <2> QED BY <1>3, <1>4, <2>1, ConvertedPath DEF Absolute
<1>8. ASSUME NEW i \in 1..Len(words)
      PROVE  convert_to_absolute(cwd[s], [o EXCEPT !.words = SubSeq(@, 1, i - 1)]) = f[i - 1]
  <2>1. PICK u : u = [o EXCEPT !.words = SubSeq(@, 1, i - 1)]
    OBVIOUS
  <2>2. u.words = SubSeq(words, 1, i - 1) /\ ~u.absolute
    BY <1>2, <1>3, <2>1
  <2>3. i - 1 \in Nat /\ i - 1 \in Int /\ i - 1 <= Len(words)
        /\ \A k \in 1..(i - 1) : k \in 1..Len(words) /\ 1 + k - 1 = k
    BY <1>4
  <2>4. \A k \in 1..(i - 1) : words[k] \in Names \cup Dots
    BY <1>4, <2>3, ElementOfSeq
  <2>5. /\ Len(u.words) = i - 1
        /\ \A k \in 1..(i - 1) : u.words[k] = words[k]
    <3>1. /\ Len(SubSeq(words, 1, i - 1)) = (IF 1 <= i - 1 THEN i - 1 - 1 + 1 ELSE 0)
          /\ \A k \in 1..(i - 1 - 1 + 1) : SubSeq(words, 1, i - 1)[k] = words[1 + k - 1]
      BY <2>3, <2>4, SubSeqProperties
    <3>2. (IF 1 <= i - 1 THEN i - 1 - 1 + 1 ELSE 0) = i - 1 /\ i - 1 - 1 + 1 = i - 1
      BY <2>3
    <3>3. \A k \in 1..(i - 1) : SubSeq(words, 1, i - 1)[k] = words[1 + k - 1]
      BY <3>1, <3>2
    <3>4. \A k \in 1..(i - 1) : words[1 + k - 1] = words[k]
      BY <2>3
    <3>5. \A k \in 1..(i - 1) : SubSeq(words, 1, i - 1)[k] = words[k]
      BY <3>3, <3>4
    <3> QED BY <2>2, <3>1, <3>2, <3>5
  <2>6. ASSUME NEW k \in 0..(i - 1)
        PROVE  f[k] = Walk(IF u.absolute THEN Base ELSE cwd[s], u.words, f, k)
    <3>1. k \in 0..Len(words) /\ (k # 0 => k \in 1..(i - 1))
      BY <2>3
    <3>2. f[k] = Walk(cwd[s], words, f, k)
      BY <1>6, <3>1
    <3>3. k # 0 => u.words[k] = words[k]
      BY <2>5, <3>1
    <3> QED BY <2>2, <3>2, <3>3 DEF Walk
  <2>7. convert_to_absolute(cwd[s], u) = f[i - 1]
    <3>1. Walked(IF u.absolute THEN Base ELSE cwd[s], u.words, f, i - 1)
      BY <2>6 DEF Walked
    <3> QED BY <2>3, <2>5, <3>1, ConvertedPath
  <2> QED BY <2>1, <2>7
<1>9. StraightOn(fs, f, words)
  <2> SUFFICES ASSUME NEW i \in DotsIn(words)
               PROVE  IF words[i] = ".." THEN f[i - 1] # << >> /\ At(fs, f[i - 1]) = Dir
                      ELSE At(fs, Real(fs, f[i - 1])) = Dir
    BY DEF StraightOn
  <2>1. i \in 1..Len(words)
    BY <1>4 DEF DotsIn
  <2>2. convert_to_absolute(cwd[s], [o EXCEPT !.words = SubSeq(@, 1, i - 1)]) = f[i - 1]
    BY <1>8, <2>1
  <2> QED BY <1>3, <2>2 DEF Straight
<1>10. Opened(s, o) = Real(fs, f[Len(words)])
  <2>1. Resolved(fs, cwd[s] \o words, MaxFollow + Cardinality(DotsIn(words)))
          = Real(fs, f[Len(words)])
    BY <1>1, <1>4, <1>5, <1>9, AllWords
  <2> QED BY <1>3, <2>1 DEF Opened
<1> QED BY <1>7, <1>10 DEF Checked

(* What cat checks is what it opens (cmd_cat.c), wherever its operand goes *)
(* up only from directories that no link leads to: for any number of links *)
(* and any tree.                                                           *)
THEOREM CatChecksWhatItOpens == Spec => []CatOpensWhatItChecked
BY TypedAlways, CatSteady, PTL

-----------------------------------------------------------------------------
(* The confinement. No link of the tree leads out of the names that pass   *)
(* for the base directory, no file has a name in and another one out of    *)
(* them, no shell is out of them, and none is about to make or write a file*)
(* out of them.                                                            *)

LinksInside(t) == \A p \in Path : t[p].kind = "link" => Inside(t[p].to)

(* Every name of the file i is inside.                                     *)
Inner(t, i) == \A p \in Path : t[p] = File(i) => Inside(p)

FilesInside(t) ==
  \A i \in Inodes, p \in Path : t[p] = File(i) /\ Inside(p) => Inner(t, i)

Works(s) == pc[s] \notin {"off", "starting"} \cup Over

Holding == {"open", "chmod", "copy"}

Target(s) ==
  /\ pc[s] \in {"open", "chmod"} => job[s].path \in Path /\ Inside(job[s].path)
  /\ pc[s] = "copy" => Inner(fs, job[s].to)

Confined ==
  /\ LinksInside(fs) /\ FilesInside(fs)
  /\ \A s \in Shells : Works(s) => cwd[s] = Gone \/ Inside(cwd[s])
  /\ \A s \in Shells : Target(s)

(* What each step keeps to.                                                *)
TreeWithin ==
  \A p \in Path : fs'[p] # fs[p] =>
    /\ Inside(p)
    /\ fs'[p].kind = "link" => Inside(fs'[p].to)
    /\ \A i \in Inodes : fs'[p] = File(i) => Inner(fs, i)

CwdWithin ==
  \A u \in Shells : Works(u)' => (Works(u) /\ cwd'[u] \in {cwd[u], Gone}) \/ Inside(cwd'[u])

JobWithin ==
  \A u \in Shells :
    (pc'[u] \in Holding => pc'[u] = pc[u] /\ job'[u] = job[u]) \/ Target(u)'

(* What has no name outside gets none there.                               *)
LEMMA InnerKept ==
  ASSUME TreeWithin, NEW i, Inner(fs, i)
  PROVE  Inner(fs', i)
<1> SUFFICES ASSUME NEW p \in Path, fs'[p] = File(i)
             PROVE  Inside(p)
  BY DEF Inner
<1>1. CASE fs'[p] = fs[p]
  BY <1>1 DEF Inner
<1>2. CASE fs'[p] # fs[p]
  BY <1>2 DEF TreeWithin
<1> QED BY <1>1, <1>2

LEMMA WithinConfined ==
  ASSUME Confined, TreeWithin, CwdWithin, JobWithin
  PROVE  Confined'
<1>1. LinksInside(fs')
  <2>1. ASSUME NEW p \in Path, fs'[p].kind = "link"
        PROVE  Inside(fs'[p].to)
    <3>1. CASE fs'[p] = fs[p]
      BY <2>1, <3>1 DEF Confined, LinksInside
    <3>2. CASE fs'[p] # fs[p]
      BY <2>1, <3>2 DEF TreeWithin
    <3> QED BY <3>1, <3>2
  <2> QED BY <2>1 DEF LinksInside
<1>2. FilesInside(fs')
  <2>1. ASSUME NEW i \in Inodes, NEW p \in Path, fs'[p] = File(i), Inside(p)
        PROVE  Inner(fs', i)
    <3>1. CASE fs'[p] = fs[p]
      <4>1. Inner(fs, i)
        BY <2>1, <3>1 DEF Confined, FilesInside
      <4> QED BY <4>1, InnerKept
    <3>2. CASE fs'[p] # fs[p]
      BY <2>1, <3>2, InnerKept DEF TreeWithin
    <3> QED BY <3>1, <3>2
  <2> QED BY <2>1 DEF FilesInside
<1>3. ASSUME NEW u \in Shells, Works(u)'
      PROVE  cwd'[u] = Gone \/ Inside(cwd'[u])
  BY <1>3 DEF CwdWithin, Confined
<1>4. ASSUME NEW u \in Shells
      PROVE  Target(u)'
  <2>1. CASE pc'[u] \in Holding /\ pc'[u] = pc[u] /\ job'[u] = job[u]
    <3>1. pc'[u] = "copy" => Inner(fs', job'[u].to)
      <4>1. pc'[u] = "copy" => Inner(fs, job'[u].to)
        BY <2>1 DEF Confined, Target
      <4> QED BY <4>1, InnerKept
    <3>2. pc'[u] \in {"open", "chmod"} => job'[u].path \in Path /\ Inside(job'[u].path)
      BY <2>1 DEF Confined, Target
    <3> QED BY <3>1, <3>2 DEF Target, Inner, Inside
  <2>2. CASE pc'[u] \notin Holding
    BY <2>2 DEF Holding, Target
  <2> QED BY <2>1, <2>2 DEF JobWithin
<1> QED BY <1>1, <1>2, <1>3, <1>4
       DEF Confined, LinksInside, FilesInside, Inner, Inside, Works, Over

-----------------------------------------------------------------------------
(* Paths that stay inside.                                                 *)

LEMMA InsideOn ==
  ASSUME NEW p \in Seq(Names), Inside(p), NEW q \in Seq(Names)
  PROVE  p \o q \in Seq(Names) /\ Inside(p \o q)
<1>1. Len(p) \in Nat /\ Len(q) \in Nat /\ Len(p) # 0
  BY LenProperties, EmptySeq DEF Inside
<1>2. 1 \in 1..(Len(p) + Len(q)) /\ 1 <= Len(p)
  BY <1>1
<1>3. PICK r : r = p \o q
  OBVIOUS
<1>4. r \in Seq(Names) /\ Len(r) = Len(p) + Len(q) /\ r[1] = p[1]
  BY <1>2, <1>3, ConcatProperties
<1>5. r # << >>
  <2>1. Len(r) # 0
    BY <1>1, <1>4
  <2> QED BY <2>1, EmptySeq
<1>6. Inside(r)
  BY <1>4, <1>5 DEF Inside
<1> QED BY <1>3, <1>4, <1>6

LEMMA RealInside ==
  ASSUME NEW t \in [Path -> Node], LinksInside(t), NEW p \in Seq(Names), Inside(p)
  PROVE  Real(t, p) = NoPath \/ (Real(t, p) \in Seq(Names) /\ Inside(Real(t, p)))
<1>1. PICK S : S = {x \in Seq(Names) : Inside(x)}
  OBVIOUS
<1>2. ASSUME NEW x \in S
      PROVE  Advance(t)[x] \in S
  <2>1. x \in Seq(Names) /\ Inside(x)
    BY <1>1
  <2>2. CASE \E i : FirstTurn(t, x, i)
    <3>1. PICK i : FirstTurn(t, x, i)
      BY <2>2
    <3>2. PICK q : q = SubSeq(x, 1, i)
      OBVIOUS
    <3>3. PICK r : r = SubSeq(x, i + 1, Len(x))
      OBVIOUS
    <3>4. /\ q \in Path /\ t[q].kind = "link" /\ t[q].to \in Path
          /\ Advance(t)[x] = t[q].to \o r /\ r \in Seq(Names)
      BY <2>1, <3>1, <3>2, <3>3, PlainTurn
    <3>5. t[q].to \in Seq(Names) /\ Inside(t[q].to)
      BY <3>4, WordTypes DEF LinksInside
    <3> QED BY <1>1, <3>4, <3>5, InsideOn
  <2>3. CASE \A i \in 1..Len(x) : ~Turn(t, x, i)
    <3>1. Advance(t)[x] = x
      BY <2>1, <2>3, WordTypes, NoTurn
    <3> QED BY <3>1
  <2> QED BY <2>1, <2>2, <2>3, TurnOrNone, WordTypes
<1>3. MaxFollow \in Nat /\ MaxFollow \in 0..MaxFollow /\ p \in S
  BY <1>1, ShellAssumption
<1>4. PICK f : /\ Turns(t, p, f, MaxFollow)
               /\ Real(t, p) = IF Advance(t)[f[MaxFollow]] = f[MaxFollow]
                               THEN f[MaxFollow] ELSE NoPath
  BY <1>3, ResolvedTurns DEF Real
<1>5. f[MaxFollow] \in S
  <2>1. \A x \in S : Advance(t)[x] \in S
    BY <1>2
  <2>2. \A k \in 0..MaxFollow : f[k] \in S
    BY <1>3, <1>4, <2>1, TurnsWithin
  <2> QED BY <1>3, <2>2
<1> QED BY <1>1, <1>4, <1>5

LEMMA NoPathApart ==
  /\ NoPath \notin Seq(Names)
  /\ \A n \in Names : Append(NoPath, n) \notin Seq(Names)
<1>1. ASSUME NEW u \in Seq(Names), u # << >>
      PROVE  u[1] \in Names
  <2>1. Len(u) \in Nat /\ Len(u) # 0
    BY <1>1, LenProperties, EmptySeq
  <2>2. 1 \in 1..Len(u)
    BY <2>1
  <2> QED BY <2>2, ElementOfSeq
<1>2. NoPath # << >> /\ NoPath \in Seq(Word) /\ Len(NoPath) = 1
  <2>1. PICK x : x = NoPath[1]
    OBVIOUS
  <2>2. x \in Word
    BY <2>1 DEF Word
  <2>3. <<x>> \in Seq(Word) /\ Len(<<x>>) = 1 /\ <<x>> # << >>
    BY <2>2
  <2>4. NoPath = <<x>>
    BY <2>1 DEF NoPath
  <2> QED BY <2>3, <2>4
<1>3. NoPath[1] \notin Names
  BY ShellAssumption
<1>4. ASSUME NEW n \in Names
      PROVE  Append(NoPath, n) # << >> /\ Append(NoPath, n)[1] = NoPath[1]
  <2>1. PICK a : a = Append(NoPath, n)
    OBVIOUS
  <2>2. n \in Word /\ 1 \in 1..Len(NoPath)
    BY <1>2, WordTypes
  <2>3. a \in Seq(Word) /\ a # << >> /\ a[1] = NoPath[1]
    BY <1>2, <2>1, <2>2, AppendProperties
  <2> QED BY <2>1, <2>3
<1> QED BY <1>1, <1>2, <1>3, <1>4

LEMMA FrontOf ==
  ASSUME NEW p \in Seq(Names), p # << >>
  PROVE  Len(Front(p)) = Len(p) - 1 /\ \A i \in 1..(Len(p) - 1) : Front(p)[i] = p[i]
<1>1. Len(p) \in Nat /\ Len(p) # 0
  BY LenProperties, EmptySeq
<1>2. PICK n : n = Len(p) - 1
  OBVIOUS
<1>3. n \in Nat /\ n \in Int /\ \A i \in 1..n : i \in 1..Len(p) /\ 1 + i - 1 = i
  BY <1>1, <1>2
<1>4. \A i \in 1..n : p[i] \in Names
  BY <1>3, ElementOfSeq
<1>5. /\ Len(SubSeq(p, 1, n)) = (IF 1 <= n THEN n - 1 + 1 ELSE 0)
      /\ \A i \in 1..(n - 1 + 1) : SubSeq(p, 1, n)[i] = p[1 + i - 1]
  BY <1>3, <1>4, SubSeqProperties
<1>6. (IF 1 <= n THEN n - 1 + 1 ELSE 0) = n /\ n - 1 + 1 = n
  BY <1>3
<1>7. \A i \in 1..n : SubSeq(p, 1, n)[i] = p[i]
  BY <1>3, <1>5, <1>6
<1> QED BY <1>2, <1>5, <1>6, <1>7 DEF Front

LEMMA EntryInside ==
  ASSUME NEW t \in [Path -> Node], IsTree(t), LinksInside(t), NEW p \in Path, Inside(p),
         Entry(t, p) \in Path
  PROVE  Inside(Entry(t, p))
<1>1. p \in Seq(Names) /\ p # << >> /\ p[1] \in Alike /\ Len(p) \in Nat /\ Len(p) # 0
  BY WordTypes, LenProperties, EmptySeq DEF Inside
<1>2. PICK q : q = Front(p)
  OBVIOUS
<1>3. q \in Seq(Names) /\ Last(p) \in Names
  <2>1. q \in Seq(Names)
    BY <1>1, <1>2, UpperType DEF Upper
  <2>2. Len(p) \in 1..Len(p)
    BY <1>1
  <2> QED BY <1>1, <2>1, <2>2, ElementOfSeq DEF Last
<1>4. Entry(t, p) = Append(Real(t, q), Last(p))
  BY <1>1, <1>2 DEF Entry
<1>5. CASE q = << >>
  <2>1. t[<< >>] = Dir /\ << >> \in Path
    BY PathTypes DEF IsTree
  <2>2. Real(t, q) = << >>
    BY <1>5, <2>1, DirFound
  <2>3. Len(p) = 1
    <3>1. Len(q) = Len(p) - 1
      BY <1>1, <1>2, FrontOf
    <3>2. Len(q) = 0
      BY <1>5, EmptySeq
    <3> QED BY <1>1, <3>1, <3>2
  <2>4. Entry(t, p) = <<p[1]>>
    BY <1>4, <2>2, <2>3 DEF Last
  <2> QED BY <1>1, <2>4 DEF Inside
<1>6. CASE q # << >>
  <2>1. Inside(q)
    <3>1. q[1] = p[1]
      <4>1. Len(q) \in Nat /\ Len(q) # 0
        BY <1>3, <1>6, LenProperties, EmptySeq
      <4>2. 1 \in 1..Len(q)
        BY <4>1
      <4>3. Len(q) = Len(p) - 1 /\ \A i \in 1..Len(q) : q[i] = p[i]
        BY <1>1, <1>2, FrontOf
      <4> QED BY <4>2, <4>3
    <3> QED BY <1>1, <1>6, <3>1 DEF Inside
  <2>2. Real(t, q) # NoPath
    BY <1>3, <1>4, NoPathApart, WordTypes
  <2>3. Real(t, q) \in Seq(Names) /\ Inside(Real(t, q))
    BY <1>3, <2>1, <2>2, RealInside
  <2>4. <<Last(p)>> \in Seq(Names)
    BY <1>3
  <2>5. Append(Real(t, q), Last(p)) = Real(t, q) \o <<Last(p)>>
    BY <1>3, <2>3, AppendIsConcat
  <2> QED BY <1>4, <2>3, <2>4, <2>5, InsideOn
<1> QED BY <1>5, <1>6

-----------------------------------------------------------------------------
(* Steps within.                                                           *)

LEMMA CwdSteps ==
  ASSUME pc \in [Shells -> Places], NEW s \in Shells, NEW at, Enter(s, at),
         Works(s) \/ at \in {"starting"} \cup Over,
         \A u \in Shells : cwd'[u] \in {cwd[u], Gone} \/ Inside(cwd'[u])
  PROVE  CwdWithin
<1> SUFFICES ASSUME NEW u \in Shells, Works(u)', ~Inside(cwd'[u])
             PROVE  Works(u) /\ cwd'[u] \in {cwd[u], Gone}
  BY DEF CwdWithin
<1>1. CASE u = s
  <2>1. pc'[s] = at
    BY DEF Enter
  <2> QED BY <1>1, <2>1 DEF Works
<1>2. CASE u # s
  <2>1. pc'[u] = pc[u]
    BY <1>2 DEF Enter
  <2> QED BY <2>1 DEF Works
<1> QED BY <1>1, <1>2

LEMMA JobSteps ==
  ASSUME pc \in [Shells -> Places], NEW s \in Shells, NEW at, Enter(s, at),
         at \notin Holding \/ Target(s)',
         \A u \in Shells : u # s => job'[u] = job[u]
  PROVE  JobWithin
<1> SUFFICES ASSUME NEW u \in Shells, pc'[u] \in Holding, ~Target(u)'
             PROVE  pc'[u] = pc[u] /\ job'[u] = job[u]
  BY DEF JobWithin
<1>1. pc'[s] = at /\ (u # s => pc'[u] = pc[u])
  BY DEF Enter
<1> QED BY <1>1

LEMMA TreeSame == ASSUME UNCHANGED fs PROVE TreeWithin
BY DEF TreeWithin

LEMMA TreePut ==
  ASSUME fs \in [Path -> Node], NEW p \in Path, Inside(p), NEW v,
         v.kind = "link" => Inside(v.to), \A i \in Inodes : v = File(i) => Inner(fs, i),
         fs' = [fs EXCEPT ![p] = v]
  PROVE  TreeWithin
<1> SUFFICES ASSUME NEW q \in Path, fs'[q] # fs[q]
             PROVE  /\ Inside(q)
                    /\ fs'[q].kind = "link" => Inside(fs'[q].to)
                    /\ \A i \in Inodes : fs'[q] = File(i) => Inner(fs, i)
  BY DEF TreeWithin
<1>1. q = p /\ fs'[q] = v
  OBVIOUS
<1> QED BY <1>1

(* What is put where nothing or something else was: a directory or nothing.*)
LEMMA NoName ==
  ASSUME NEW v \in {Nothing, Dir}
  PROVE  v.kind # "link" /\ \A i \in Inodes : v # File(i)
BY NodeKinds, LinkKind

LEMMA LoopWithin ==
  ASSUME Typed, NEW s \in Shells,
         \/ Prompt(s) \/ Quit(s) \/ Prints(s) \/ Lost(s) \/ chmod(s) \/ copy_file(s)
         \/ run_li(s) \/ (\E e \in job[s].left : lstat(s, e)) \/ read_symbolic(s)
         \/ waitid(s)
  PROVE  TreeWithin /\ CwdWithin /\ JobWithin
<1>1. pc \in [Shells -> Places] /\ DOMAIN job = Shells
  BY DEF Typed, Controlled, JobTyped
<1>2. UNCHANGED <<fs, cwd>> /\ Works(s) /\ \A u \in Shells : u # s => job'[u] = job[u]
  BY <1>1 DEF Prompt, Quit, Prints, Lost, chmod, copy_file, run_li, lstat, read_symbolic, waitid,
              Keep, disk, Works, Over
<1>3. \E at \in {"prompt", "failed", "ended", "top", "ls", "readlink"} : Enter(s, at)
  <2>1. pc[s] = "ls" => pc = [pc EXCEPT ![s] = "ls"]
    BY <1>1
  <2>2. CASE run_li(s)
    BY <2>1, <2>2 DEF run_li, Enter, Return, Fail
  <2>3. ASSUME NEW e \in job[s].left, lstat(s, e)
        PROVE  \E at \in {"ls", "readlink"} : Enter(s, at)
    BY <2>1, <2>3 DEF lstat, Enter
  <2>4. CASE \/ Prompt(s) \/ Quit(s) \/ Prints(s) \/ Lost(s) \/ chmod(s) \/ copy_file(s)
             \/ read_symbolic(s) \/ waitid(s)
    BY <2>4 DEF Prompt, Quit, Prints, Lost, chmod, copy_file, read_symbolic, waitid, Return, Fail
  <2> QED BY <2>2, <2>3, <2>4
<1> QED BY <1>1, <1>2, <1>3, CwdSteps, JobSteps, TreeSame DEF Holding

LEMMA ReadWithin ==
  ASSUME Typed, Confined, NEW s \in Shells, NEW o \in Operands,
         \/ cmd_ls(s, <<o>>) \/ cmd_ls(s, <<o, o>>) \/ cmd_run(s, o)
         \/ \E f \in Formats : cmd_chmod(s, f, o)
  PROVE  TreeWithin /\ CwdWithin /\ JobWithin
<1>1. pc \in [Shells -> Places] /\ DOMAIN job = Shells
  BY DEF Typed, Controlled, JobTyped
<1>2. CASE cmd_ls(s, <<o>>) \/ cmd_ls(s, <<o, o>>)
  <2>1. /\ UNCHANGED <<fs, cwd>> /\ Works(s) /\ Enter(s, "ls")
        /\ \A u \in Shells : u # s => job'[u] = job[u]
    BY <1>1, <1>2 DEF cmd_ls, GivenHere, Given, disk, Works, Over
  <2> QED BY <1>1, <2>1, CwdSteps, JobSteps, TreeSame DEF Holding
<1>3. CASE cmd_run(s, o)
  <2>1. UNCHANGED <<fs, cwd, job>> /\ Works(s) /\ \E at \in {"wait", "failed"} : Enter(s, at)
    BY <1>3 DEF cmd_run, GivenHere, Given, Fail, disk, Works, Over
  <2> QED BY <1>1, <2>1, CwdSteps, JobSteps, TreeSame DEF Holding
<1>4. ASSUME NEW f \in Formats, cmd_chmod(s, f, o)
      PROVE  TreeWithin /\ CwdWithin /\ JobWithin
  <2>1. /\ UNCHANGED <<fs, cwd>> /\ Works(s) /\ Absolute(s, o) \in Path
        /\ Proper(job[s])
    BY <1>4, ProperJobs DEF cmd_chmod, GivenHere, Given, disk, Works, Over
  <2>2. CASE Enter(s, "top") /\ UNCHANGED job
    BY <1>1, <2>1, <2>2, CwdSteps, JobSteps, TreeSame DEF Holding
  <2>3. ASSUME NEW i, is_valid_path(Absolute(s, o)), Enter(s, "chmod"),
               job' = [job EXCEPT ![s].path = Absolute(s, o), ![s].typed = f,
                                  ![s].seen = inode[i].mode, ![s].from = i]
        PROVE  TreeWithin /\ CwdWithin /\ JobWithin
    <3>1. job'[s].path = Absolute(s, o) /\ \A u \in Shells : u # s => job'[u] = job[u]
      BY <1>1, <2>1, <2>3 DEF Proper, NoJob
    <3>2. pc'[s] = "chmod"
      BY <1>1, <2>3 DEF Enter
    <3>3. Target(s)'
      BY <2>1, <2>3, <3>1, <3>2 DEF Target, is_valid_path, Inside
    <3> QED BY <1>1, <2>1, <2>3, <3>1, <3>3, CwdSteps, JobSteps, TreeSame
  <2> QED BY <1>4, <2>2, <2>3 DEF cmd_chmod, Return
<1> QED BY <1>2, <1>3, <1>4

LEMMA EndWithin ==
  ASSUME Typed, NEW s \in Shells, ChildEnds(s) \/ \E u \in Shells : cmd_kill(s, u)
  PROVE  TreeWithin /\ CwdWithin /\ JobWithin
<1>1. pc \in [Shells -> Places] /\ DOMAIN job = Shells
  BY DEF Typed, Controlled, JobTyped
<1>2. CASE ChildEnds(s)
  <2>1. UNCHANGED <<fs, cwd, pc, job>>
    BY <1>2 DEF ChildEnds, disk
  <2> QED BY <2>1, TreeSame DEF CwdWithin, JobWithin, Works
<1>3. ASSUME NEW u \in Shells, cmd_kill(s, u)
      PROVE  TreeWithin /\ CwdWithin /\ JobWithin
  <2>1. /\ UNCHANGED <<fs, cwd>> /\ pc[s] = "prompt" /\ u # s
        /\ pc' = [pc EXCEPT ![s] = "top", ![u] = "ended"] /\ job' = [job EXCEPT ![u] = NoJob]
    BY <1>3 DEF cmd_kill, Given, disk
  <2>2. ASSUME NEW v \in Shells
        PROVE  /\ pc'[v] = (IF v = u THEN "ended" ELSE IF v = s THEN "top" ELSE pc[v])
               /\ v # u => job'[v] = job[v]
    BY <1>1, <2>1
  <2>3. CwdWithin
    BY <2>1, <2>2 DEF CwdWithin, Works, Over
  <2>4. JobWithin
    BY <2>2 DEF JobWithin, Holding
  <2> QED BY <2>1, <2>3, <2>4, TreeSame
<1> QED BY <1>2, <1>3

LEMMA BaseInside ==
  ASSUME Typed, Confined, At(fs, Real(fs, Base)) = Dir
  PROVE  Inside(Real(fs, Base))
<1>1. Base \in Seq(Names) /\ Inside(Base)
  BY ShellAssumption, WordTypes DEF Inside
<1>2. Real(fs, Base) # NoPath
  <2>1. Real(fs, Base) \in Path
    BY NodeKinds DEF At
  <2> QED BY <2>1, NoPathApart, WordTypes
<1> QED BY <1>1, <1>2, RealInside DEF Confined, Typed, TreeTyped

LEMMA GoWithin ==
  ASSUME Typed, Confined, NEW s \in Shells,
         Start(s) \/ StartAgain(s) \/ cmd_cd_home(s)
  PROVE  TreeWithin /\ CwdWithin /\ JobWithin
<1>1. /\ pc \in [Shells -> Places] /\ DOMAIN job = Shells /\ DOMAIN cwd = Shells
      /\ fs \in [Path -> Node]
  BY DEF Typed, Controlled, JobTyped, CwdTyped, TreeTyped
<1>2. ASSUME At(fs, Real(fs, Base)) = Dir, cwd' = [cwd EXCEPT ![s] = Real(fs, Base)],
             Enter(s, "top"), UNCHANGED <<fs, job>>
      PROVE  TreeWithin /\ CwdWithin /\ JobWithin
  <2>1. Inside(Real(fs, Base))
    BY <1>2, BaseInside
  <2>2. CwdWithin
    <3> SUFFICES ASSUME NEW u \in Shells, Works(u)', ~Inside(cwd'[u])
                 PROVE  Works(u) /\ cwd'[u] \in {cwd[u], Gone}
      BY DEF CwdWithin
    <3>1. u # s
      BY <1>1, <1>2, <2>1
    <3>2. pc'[u] = pc[u] /\ cwd'[u] = cwd[u]
      BY <1>2, <3>1 DEF Enter
    <3> QED BY <3>2 DEF Works
  <2> QED BY <1>1, <1>2, <2>2, JobSteps, TreeSame DEF Holding
<1>3. CASE Start(s)
  <2>1. /\ UNCHANGED job
        /\ \/ /\ At(fs, Real(fs, Base)) = Dir /\ cwd' = [cwd EXCEPT ![s] = Real(fs, Base)]
              /\ Enter(s, "top") /\ UNCHANGED fs
           \/ /\ Enter(s, "starting") /\ UNCHANGED cwd
              /\ fs' = IF Fresh(fs, Base) THEN [fs EXCEPT ![Base] = Dir] ELSE fs
    BY <1>3 DEF Start, Return, Change
  <2>2. CASE /\ Enter(s, "starting") /\ UNCHANGED cwd
             /\ fs' = IF Fresh(fs, Base) THEN [fs EXCEPT ![Base] = Dir] ELSE fs
    <3>1. TreeWithin
      <4>1. Base \in Path /\ Inside(Base)
        BY ShellAssumption DEF Inside
      <4> QED BY <1>1, <2>2, <4>1, TreePut, TreeSame, NoName
    <3> QED BY <1>1, <2>1, <2>2, <3>1, CwdSteps, JobSteps DEF Holding
  <2> QED BY <1>2, <2>1, <2>2
<1>4. CASE StartAgain(s)
  <2>1. /\ UNCHANGED <<fs, job>>
        /\ \/ /\ At(fs, Real(fs, Base)) = Dir /\ cwd' = [cwd EXCEPT ![s] = Real(fs, Base)]
              /\ Enter(s, "top")
           \/ Enter(s, "failed") /\ UNCHANGED cwd
    BY <1>4 DEF StartAgain, Return, Fail
  <2>2. CASE Enter(s, "failed") /\ UNCHANGED cwd
    BY <1>1, <2>1, <2>2, CwdSteps, JobSteps, TreeSame DEF Over, Holding
  <2> QED BY <1>2, <2>1, <2>2
<1>5. CASE cmd_cd_home(s)
  <2>1. /\ UNCHANGED <<fs, job>> /\ Enter(s, "top") /\ Works(s)
        /\ \/ At(fs, Real(fs, Base)) = Dir /\ cwd' = [cwd EXCEPT ![s] = Real(fs, Base)]
           \/ UNCHANGED cwd
    BY <1>5 DEF cmd_cd_home, Given, Return, Works, Over
  <2>2. CASE UNCHANGED cwd
    BY <1>1, <2>1, <2>2, CwdSteps, JobSteps, TreeSame DEF Holding
  <2> QED BY <1>2, <2>1, <2>2
<1> QED BY <1>3, <1>4, <1>5

(* A command works on names inside, those that links lead to included.     *)
LEMMA AllowedInside ==
  ASSUME Typed, Confined, NEW s \in Shells, NEW o \in Operands, Allowed(s, o)
  PROVE  /\ Absolute(s, o) \in Path /\ Inside(Absolute(s, o))
         /\ Entry(fs, Absolute(s, o)) \in Path => Inside(Entry(fs, Absolute(s, o)))
         /\ Real(fs, Absolute(s, o)) \in Path => Inside(Real(fs, Absolute(s, o)))
<1>1. Absolute(s, o) \in Path /\ Inside(Absolute(s, o)) /\ Absolute(s, o) \in Seq(Names)
  BY WordTypes DEF Allowed, is_valid_path, Inside
<1>2. fs \in [Path -> Node] /\ IsTree(fs) /\ LinksInside(fs)
  BY DEF Typed, TreeTyped, Confined
<1>3. Real(fs, Absolute(s, o)) = NoPath \/ Inside(Real(fs, Absolute(s, o)))
  BY <1>1, <1>2, RealInside
<1> QED BY <1>1, <1>2, <1>3, EntryInside, NoPathApart, WordTypes

(* A file that a path inside leads to has no name outside.                 *)
LEMMA HeldInside ==
  ASSUME Typed, Confined, NEW p \in Path, Inside(p), NEW i \in FileAt(p)
  PROVE  i \in Inodes /\ Inner(fs, i)
<1>1. /\ fs \in [Path -> Node] /\ IsTree(fs) /\ LinksInside(fs) /\ FilesInside(fs)
      /\ p \in Seq(Names)
  BY WordTypes DEF Typed, TreeTyped, Confined
<1>2. i \in Inodes /\ At(fs, Real(fs, p)) = File(i)
  BY DEF FileAt
<1>3. Real(fs, p) \in Path /\ fs[Real(fs, p)] = File(i)
  BY <1>2, NodeKinds DEF At
<1>4. Inside(Real(fs, p))
  BY <1>1, <1>3, RealInside, NoPathApart, WordTypes
<1> QED BY <1>1, <1>2, <1>3, <1>4 DEF FilesInside

LEMMA PrefixInside ==
  ASSUME NEW p \in Path, Inside(p), NEW q \in Path, IsPrefix(p, q)
  PROVE  Inside(q)
<1>1. Len(p) \in Nat /\ Len(p) # 0 /\ Len(q) \in Nat
  BY PathIsSequence, LenProperties, EmptySeq DEF Inside
<1>2. Len(p) <= Len(q) /\ \A i \in 1..Len(p) : p[i] = q[i]
  BY PrefixPointwise
<1>3. 1 \in 1..Len(p) /\ Len(q) # 0
  BY <1>1, <1>2
<1>4. q[1] = p[1] /\ q # << >>
  BY <1>2, <1>3, EmptySeq
<1> QED BY <1>4 DEF Inside

LEMMA OneWithin ==
  ASSUME Typed, Confined, NEW s \in Shells, NEW o \in Operands,
         cmd_cd(s, o) \/ cmd_mkdir(s, o) \/ cmd_rmdir(s, o) \/ cmd_rm(s, o)
  PROVE  TreeWithin /\ CwdWithin /\ JobWithin
<1> DEFINE p == Entry(fs, Absolute(s, o))
           d == Real(fs, Absolute(s, o))
<1>1. /\ pc \in [Shells -> Places] /\ DOMAIN job = Shells /\ DOMAIN cwd = Shells
      /\ fs \in [Path -> Node]
  BY DEF Typed, Controlled, JobTyped, CwdTyped, TreeTyped
<1>2. Works(s)
  BY DEF cmd_cd, cmd_mkdir, cmd_rmdir, cmd_rm, GivenHere, Given, Works, Over
<1>3. (p \in Path => Inside(p)) /\ (d \in Path => Inside(d))
  <2>1. Allowed(s, o)
    BY DEF cmd_cd, cmd_mkdir, cmd_rmdir, cmd_rm
  <2> QED BY <2>1, AllowedInside
<1>4. CASE cmd_cd(s, o)
  <2>1. /\ UNCHANGED <<fs, job>> /\ Enter(s, "top")
        /\ cwd' = IF At(fs, d) = Dir THEN [cwd EXCEPT ![s] = d] ELSE cwd
    BY <1>4 DEF cmd_cd, Return
  <2> HIDE DEF d, p
  <2>2. At(fs, d) = Dir => Inside(d)
    BY <1>3, NodeKinds DEF At
  <2>3. \A u \in Shells : cwd'[u] \in {cwd[u], Gone} \/ Inside(cwd'[u])
    BY <1>1, <2>1, <2>2
  <2> QED BY <1>1, <1>2, <2>1, <2>3, CwdSteps, JobSteps, TreeSame DEF Holding
<1>5. CASE cmd_mkdir(s, o)
  <2>1. /\ UNCHANGED cwd
        /\ \/ /\ p \in Path /\ fs' = [fs EXCEPT ![p] = Dir] /\ Enter(s, "chmod")
              /\ job'[s].path = Absolute(s, o)
           \/ UNCHANGED fs /\ Enter(s, "top")
        /\ \A u \in Shells : u # s => job'[u] = job[u]
    <3>1. job' = [job EXCEPT ![s].path = Absolute(s, o)] => job'[s].path = Absolute(s, o)
      BY <1>1, ProperJobs DEF Proper, NoJob
    <3> QED BY <1>1, <1>5, <3>1 DEF cmd_mkdir, Change, Return
  <2>2. Absolute(s, o) \in Path /\ Inside(Absolute(s, o))
    BY <1>5, AllowedInside DEF cmd_mkdir
  <2> HIDE DEF d, p
  <2>3. TreeWithin
    BY <1>1, <1>3, <2>1, TreePut, TreeSame, NoName
  <2>4. Enter(s, "top") \/ (Enter(s, "chmod") /\ Target(s)')
    <3>1. Enter(s, "chmod") => pc'[s] = "chmod"
      BY <1>1 DEF Enter
    <3> QED BY <2>1, <2>2, <3>1 DEF Target, Inside
  <2> QED BY <1>1, <1>2, <2>1, <2>3, <2>4, CwdSteps, JobSteps DEF Holding
<1>6. CASE cmd_rmdir(s, o)
  <2>1. /\ UNCHANGED job /\ Enter(s, "top")
        /\ \/ /\ At(fs, p) = Dir /\ fs' = [fs EXCEPT ![p] = Nothing]
              /\ cwd' = [u \in Shells |-> IF cwd[u] = p THEN Gone ELSE cwd[u]]
           \/ UNCHANGED <<fs, cwd>>
    BY <1>6 DEF cmd_rmdir, Change, Return
  <2> HIDE DEF d, p
  <2>2. At(fs, p) = Dir => p \in Path
    BY NodeKinds DEF At
  <2>3. TreeWithin
    BY <1>1, <1>3, <2>1, <2>2, TreePut, TreeSame, NoName
  <2>4. \A u \in Shells : cwd'[u] \in {cwd[u], Gone}
    BY <2>1
  <2> QED BY <1>1, <1>2, <2>1, <2>3, <2>4, CwdSteps, JobSteps DEF Holding
<1>7. CASE cmd_rm(s, o)
  <2>1. /\ UNCHANGED <<job, cwd>> /\ Enter(s, "top")
        /\ fs' = IF At(fs, p) \in {Nothing, Dir} THEN fs ELSE [fs EXCEPT ![p] = Nothing]
    BY <1>7 DEF cmd_rm, Change, Return
  <2> HIDE DEF d, p
  <2>2. At(fs, p) # Nothing => p \in Path
    BY DEF At
  <2>3. TreeWithin
    BY <1>1, <1>3, <2>1, <2>2, TreePut, TreeSame, NoName
  <2> QED BY <1>1, <1>2, <2>1, <2>3, CwdSteps, JobSteps DEF Holding
<1> QED BY <1>4, <1>5, <1>6, <1>7

LEMMA LnWithin ==
  ASSUME Typed, Confined, NEW s \in Shells, NEW symbolic \in BOOLEAN, NEW o \in Operands,
         NEW n \in Operands, cmd_ln(s, symbolic, o, n)
  PROVE  TreeWithin /\ CwdWithin /\ JobWithin
<1> DEFINE from == Absolute(s, o)
           old == At(fs, Entry(fs, from))
           new == Entry(fs, Absolute(s, n))
           node == IF symbolic THEN Link(from) ELSE old
<1>1. /\ pc \in [Shells -> Places] /\ fs \in [Path -> Node] /\ LinksInside(fs) /\ FilesInside(fs)
  BY DEF Typed, Controlled, TreeTyped, Confined
<1>2. /\ UNCHANGED <<cwd, job>> /\ Works(s) /\ Enter(s, "top")
      /\ (new \in Path /\ fs' = [fs EXCEPT ![new] = node]) \/ UNCHANGED fs
  BY DEF cmd_ln, GivenHere, Given, Works, Over, Change, Return
<1>3. Allowed(s, o) /\ Allowed(s, n)
  BY DEF cmd_ln
<1>4. /\ Inside(from) /\ (new \in Path => Inside(new))
      /\ Entry(fs, from) \in Path => Inside(Entry(fs, from))
  BY <1>3, AllowedInside
<1>5. node.kind = "link" => Inside(node.to)
  <2>1. CASE symbolic
    BY <1>4, <2>1, LinkKind
  <2>2. CASE ~symbolic
    <3>1. CASE Entry(fs, from) \in Path
      BY <1>1, <2>2, <3>1 DEF LinksInside, At
    <3>2. CASE Entry(fs, from) \notin Path
      BY <2>2, <3>2, LinkKind DEF At
    <3> QED BY <3>1, <3>2
  <2> QED BY <2>1, <2>2
<1>6. \A i \in Inodes : node = File(i) => Inner(fs, i)
  <2>1. CASE symbolic
    <3>1. \A i \in Inodes : node # File(i)
      BY <2>1 DEF Link, File
    <3> QED BY <3>1
  <2>2. CASE ~symbolic
    <3>1. ASSUME NEW i \in Inodes, old = File(i)
          PROVE  Inner(fs, i)
      <4>1. Entry(fs, from) \in Path /\ fs[Entry(fs, from)] = File(i)
        BY <3>1, NodeKinds DEF At
      <4> QED BY <1>1, <1>4, <4>1 DEF FilesInside
    <3> QED BY <2>2, <3>1
  <2> QED BY <2>1, <2>2
<1> HIDE DEF from, old, new, node
<1>7. TreeWithin
  BY <1>1, <1>2, <1>4, <1>5, <1>6, TreePut, TreeSame
<1> QED BY <1>1, <1>2, <1>7, CwdSteps, JobSteps DEF Holding

LEMMA TreeMoved ==
  ASSUME fs \in [Path -> Node], LinksInside(fs), FilesInside(fs), NEW src \in Path, Inside(src),
         NEW dst \in Path, Inside(dst), fs' = Renamed(fs, src, dst)
  PROVE  TreeWithin
<1>1. CASE src = dst
  <2>1. UNCHANGED fs
    BY <1>1 DEF Renamed
  <2> QED BY <2>1, TreeSame
<1>2. CASE src # dst
  <2> SUFFICES ASSUME NEW q \in Path, fs'[q] # fs[q]
               PROVE  /\ Inside(q)
                      /\ fs'[q].kind = "link" => Inside(fs'[q].to)
                      /\ \A i \in Inodes : fs'[q] = File(i) => Inner(fs, i)
    BY DEF TreeWithin
  <2>1. CASE IsPrefix(dst, q)
    <3>1. Inside(q)
      BY <2>1, PrefixInside
    <3>2. CASE Rebased(q, dst, src) \in Path
      <4>1. PICK r \in Path : r = Rebased(q, dst, src)
        BY <3>2
      <4>2. fs'[q] = fs[r]
        BY <1>2, <2>1, <4>1, RenamedAt
      <4>3. Inside(r)
        <5>1. IsPrefix(src, r)
          BY <2>1, <4>1, RebasedPath, PathTypes
        <5> QED BY <5>1, PrefixInside
      <4> QED BY <3>1, <4>2, <4>3 DEF LinksInside, FilesInside
    <3>3. CASE Rebased(q, dst, src) \notin Path
      <4>1. fs'[q] = Nothing
        BY <1>2, <2>1, <3>3, RenamedAt
      <4> QED BY <3>1, <4>1, NoName
    <3> QED BY <3>2, <3>3
  <2>2. CASE ~IsPrefix(dst, q) /\ IsPrefix(src, q)
    <3>1. fs'[q] = Nothing
      BY <1>2, <2>2, RenamedAt
    <3> QED BY <2>2, <3>1, PrefixInside, NoName
  <2>3. CASE ~IsPrefix(dst, q) /\ ~IsPrefix(src, q)
    BY <1>2, <2>3, RenamedAt
  <2> QED BY <2>1, <2>2, <2>3
<1> QED BY <1>1, <1>2

LEMMA RenameWithin ==
  ASSUME Typed, Confined, NEW s \in Shells, NEW o \in Operands, NEW n \in Operands,
         cmd_rename(s, o, n)
  PROVE  TreeWithin /\ CwdWithin /\ JobWithin
<1> DEFINE src == Entry(fs, Absolute(s, o))
           dst == Entry(fs, Absolute(s, n))
<1>1. /\ pc \in [Shells -> Places] /\ fs \in [Path -> Node] /\ LinksInside(fs) /\ FilesInside(fs)
      /\ \A u \in Shells : cwd[u] = Gone \/ cwd[u] \in Path
  BY NodeKinds DEF Typed, Controlled, TreeTyped, Confined, CwdTyped, Somewhere, At
<1>2. /\ UNCHANGED job /\ Works(s) /\ Enter(s, "top")
      /\ \/ /\ src \in Path /\ dst \in Path
            /\ fs' = Renamed(fs, src, dst) /\ cwd' = Moved(src, dst)
         \/ UNCHANGED <<fs, cwd>>
  BY DEF cmd_rename, GivenHere, Given, Works, Over, Change, Return
<1>3. Allowed(s, o) /\ Allowed(s, n)
  BY DEF cmd_rename
<1>4. (src \in Path => Inside(src)) /\ (dst \in Path => Inside(dst))
  BY <1>3, AllowedInside
<1> HIDE DEF src, dst
<1>5. CASE UNCHANGED <<fs, cwd>>
  BY <1>1, <1>2, <1>5, CwdSteps, JobSteps, TreeSame DEF Holding
<1>6. CASE /\ src \in Path /\ dst \in Path
           /\ fs' = Renamed(fs, src, dst) /\ cwd' = Moved(src, dst)
  <2>1. TreeWithin
    BY <1>1, <1>4, <1>6, TreeMoved
  <2>2. ASSUME NEW u \in Shells
        PROVE  cwd'[u] \in {cwd[u], Gone} \/ Inside(cwd'[u])
    <3>1. cwd'[u] \in {cwd[u], Gone}
            \/ (cwd[u] # Gone /\ IsPrefix(src, cwd[u]) /\ cwd'[u] = Rebased(cwd[u], src, dst))
      BY <1>6 DEF Moved
    <3>2. CASE cwd[u] # Gone /\ IsPrefix(src, cwd[u]) /\ cwd'[u] = Rebased(cwd[u], src, dst)
      <4>1. PICK r : r = cwd'[u]
        OBVIOUS
      <4>2. Len(dst) \in Nat /\ Len(dst) # 0 /\ dst[1] \in Alike
        BY <1>4, <1>6, PathIsSequence, LenProperties, EmptySeq DEF Inside
      <4>3. cwd[u] \in Path
        BY <1>1, <3>2
      <4>4. PICK q \in Path : q = cwd[u]
        BY <4>3
      <4>5. r = Rebased(q, src, dst) /\ IsPrefix(src, q) /\ Len(src) <= Len(q)
            /\ Len(src) \in Nat /\ Len(q) \in Nat
        BY <1>6, <3>2, <4>1, <4>4, PrefixPointwise, PathIsSequence, LenProperties
      <4>6. /\ r \in Seq(Names) /\ Len(r) = Len(dst) + Len(q) - Len(src)
            /\ \A i \in 1..Len(dst) : r[i] = dst[i]
        BY <1>6, <4>5, RebasedNames
      <4>7. 1 \in 1..Len(dst) /\ Len(r) # 0
        BY <4>2, <4>5, <4>6
      <4>8. r # << >> /\ r[1] \in Alike
        BY <4>2, <4>6, <4>7, EmptySeq
      <4> QED BY <4>1, <4>8 DEF Inside
    <3> QED BY <3>1, <3>2
  <2> QED BY <1>1, <1>2, <2>1, <2>2, CwdSteps, JobSteps DEF Holding
<1> QED BY <1>2, <1>5, <1>6

LEMMA GivenJob ==
  ASSUME NEW s \in Shells, DOMAIN job = Shells, Proper(job[s]),
         NEW o, NEW n, cmd_cp(s, o, n)
  PROVE  /\ job'[s].path = Absolute(s, n)
         /\ \A u \in Shells : u # s => job'[u] = job[u]
<1>1. PICK i : job' = [job EXCEPT ![s].path = Absolute(s, n), ![s].from = i,
                                 ![s].was = IF i = NoFile THEN Empty ELSE inode[i].data]
  BY Zenon DEF cmd_cp
<1> QED BY <1>1 DEF Proper, NoJob

(* The file that fopen opens, or makes, has no name outside.               *)
LEMMA OpenWithin ==
  ASSUME Typed, Confined, NEW s \in Shells, fopen_target(s)
  PROVE  TreeWithin /\ CwdWithin /\ JobWithin
<1>1. /\ pc \in [Shells -> Places] /\ fs \in [Path -> Node] /\ IsTree(fs)
      /\ LinksInside(fs) /\ DOMAIN job = Shells /\ Proper(job[s])
  BY DEF Typed, Controlled, TreeTyped, Confined, JobTyped
<1>2. UNCHANGED cwd /\ pc[s] = "open" /\ Works(s)
  BY DEF fopen_target, Works, Over
<1>3. job[s].path \in Path /\ job[s].path \in Seq(Names) /\ Inside(job[s].path)
  BY <1>2, WordTypes DEF Confined, Target
<1>4. ASSUME NEW i \in Inodes, job' = [job EXCEPT ![s].to = i], Enter(s, "copy"), TreeWithin,
             Inner(fs', i)
      PROVE  CwdWithin /\ JobWithin
  <2>1. pc'[s] = "copy" /\ job'[s].to = i /\ \A u \in Shells : u # s => job'[u] = job[u]
    BY <1>1, <1>4 DEF Enter, Proper, NoJob
  <2>2. Target(s)'
    BY <1>4, <2>1 DEF Target, Inner, Inside
  <2> QED BY <1>1, <1>2, <1>4, <2>1, <2>2, CwdSteps, JobSteps
<1>5. ASSUME NEW i \in FileAt(job[s].path), UNCHANGED fs,
             job' = [job EXCEPT ![s].to = i], Enter(s, "copy")
      PROVE  TreeWithin /\ CwdWithin /\ JobWithin
  <2>1. i \in Inodes /\ Inner(fs, i)
    BY <1>3, HeldInside
  <2>2. TreeWithin
    BY <1>5, TreeSame
  <2> QED BY <1>4, <1>5, <2>1, <2>2, InnerKept
<1>6. ASSUME NEW i \in Unused, Real(fs, job[s].path) \in Path,
             fs' = [fs EXCEPT ![Real(fs, job[s].path)] = File(i)],
             job' = [job EXCEPT ![s].to = i], Enter(s, "copy")
      PROVE  TreeWithin /\ CwdWithin /\ JobWithin
  <2>1. Inside(Real(fs, job[s].path))
    BY <1>1, <1>3, <1>6, RealInside, NoPathApart, WordTypes
  <2>2. i \in Inodes /\ Inner(fs, i)
    BY DEF Unused, Inner
  <2>3. \A k \in Inodes : File(i) = File(k) => Inner(fs, k)
    BY <2>2 DEF File
  <2>4. File(i).kind # "link"
    BY LinkKind
  <2>5. TreeWithin
    BY <1>1, <1>6, <2>1, <2>3, <2>4, TreePut
  <2> QED BY <1>4, <1>6, <2>2, <2>5, InnerKept
<1>7. CASE job' = [job EXCEPT ![s] = NoJob] /\ Enter(s, "top") /\ UNCHANGED fs
  <2>1. \A u \in Shells : u # s => job'[u] = job[u]
    BY <1>1, <1>7
  <2> QED BY <1>1, <1>2, <1>7, <2>1, CwdSteps, JobSteps, TreeSame DEF Holding
<1> QED BY <1>5, <1>6, <1>7 DEF fopen_target, Change, Return

LEMMA CopyWithin ==
  ASSUME Typed, Confined, NEW s \in Shells, NEW o \in Operands, NEW n \in Operands,
         cmd_cp(s, o, n)
  PROVE  TreeWithin /\ CwdWithin /\ JobWithin
<1>1. pc \in [Shells -> Places] /\ DOMAIN job = Shells /\ Proper(job[s])
  BY DEF Typed, Controlled, JobTyped
<1>2. UNCHANGED <<fs, cwd>> /\ Works(s) /\ Enter(s, "open") /\ Allowed(s, n)
  BY DEF cmd_cp, GivenHere, Given, Works, Over
<1>3. job'[s].path = Absolute(s, n) /\ \A u \in Shells : u # s => job'[u] = job[u]
  BY <1>1, GivenJob
<1>4. Absolute(s, n) \in Path /\ Inside(Absolute(s, n))
  BY <1>2, AllowedInside
<1>5. pc'[s] = "open"
  BY <1>1, <1>2 DEF Enter
<1>6. Target(s)'
  BY <1>3, <1>4, <1>5 DEF Target, Inside
<1> QED BY <1>1, <1>2, <1>3, <1>6, CwdSteps, JobSteps, TreeSame

LEMMA StepWithin ==
  ASSUME Typed, Confined, [Next]_vars
  PROVE  TreeWithin /\ CwdWithin /\ JobWithin
<1>1. CASE UNCHANGED vars
  BY <1>1, TreeSame DEF vars, disk, CwdWithin, JobWithin, Works
<1>2. ASSUME NEW s \in Shells, User(s)
      PROVE  TreeWithin /\ CwdWithin /\ JobWithin
  <2>1. ASSUME NEW o \in Operands, OnePath(s, o)
        PROVE  TreeWithin /\ CwdWithin /\ JobWithin
    BY <2>1, OneWithin, ReadWithin DEF OnePath
  <2>2. ASSUME NEW o \in Operands, NEW n \in Operands, TwoPaths(s, o, n)
        PROVE  TreeWithin /\ CwdWithin /\ JobWithin
    BY <2>2, RenameWithin, LnWithin, CopyWithin DEF TwoPaths
  <2> QED BY <1>2, <2>1, <2>2, LoopWithin, EndWithin, GoWithin DEF User
<1>3. ASSUME NEW s \in Shells, Running(s)
      PROVE  TreeWithin /\ CwdWithin /\ JobWithin
  BY <1>3, LoopWithin, GoWithin, OpenWithin DEF Running
<1> QED BY <1>1, <1>2, <1>3, EndWithin DEF Next

(* What a step writes has no name outside.                                 *)
LEMMA WritesWithin ==
  ASSUME Typed, Confined, [Next]_vars, NEW i \in Inodes, inode'[i] # inode[i]
  PROVE  Inner(fs, i)
<1>1. ASSUME NEW s \in Shells, chmod(s)
      PROVE  Inner(fs, i)
  <2>1. i \in FileAt(job[s].path)
    BY <1>1 DEF chmod
  <2>2. job[s].path \in Path /\ Inside(job[s].path)
    BY <1>1 DEF chmod, Confined, Target
  <2> QED BY <2>1, <2>2, HeldInside
<1>2. ASSUME NEW s \in Shells, copy_file(s)
      PROVE  Inner(fs, i)
  <2>1. i = job[s].to
    BY <1>2 DEF copy_file, Typed, InodeTyped
  <2> QED BY <1>2, <2>1 DEF copy_file, Confined, Target
<1>3. ASSUME NEW s \in Shells, fopen_target(s)
      PROVE  Inner(fs, i)
  <2>1. job[s].path \in Path /\ Inside(job[s].path)
    BY <1>3 DEF fopen_target, Confined, Target
  <2>2. i \in FileAt(job[s].path) \/ i \in Unused
    BY <1>3 DEF fopen_target, Emptied, Typed, InodeTyped
  <2>3. i \in Unused => Inner(fs, i)
    BY DEF Unused, Inner
  <2> QED BY <2>1, <2>2, <2>3, HeldInside
<1>4. ~UNCHANGED vars
  BY DEF vars, disk
<1>5. ASSUME NEW s \in Shells, NEW o \in Operands, NEW n \in Operands, cmd_cp(s, o, n)
      PROVE  FALSE
  BY <1>5 DEF cmd_cp
<1>6. ASSUME NEW s \in Shells, Apart(s)
      PROVE  Inner(fs, i)
  BY <1>1, <1>6 DEF Apart
<1> QED BY <1>2, <1>3, <1>4, <1>5, <1>6, ApartOrCopy

LEMMA ConfinedInit ==
  ASSUME \A t \in Trees : LinksInside(t) /\ FilesInside(t)
  PROVE  Init => Confined
BY DEF Init, Confined, Works, Target

LEMMA ConfinedNext == Typed /\ Confined /\ [Next]_vars => Confined'
BY StepWithin, WithinConfined

(* If, at the start, no link leads out of the names that pass for BASE_PATH*)
(* and no file that has a name there has one elsewhere, no shell that takes*)
(* commands is ever outside of them, and no command makes, moves or removes*)
(* a name there or writes a file that has one, whatever other shells do    *)
(* between its steps: is_valid_path (path_utils.c) tests only the text of  *)
(* the path, but no command makes a link that leads out (NoLinkLeadsOut),  *)
(* and what is renamed takes shells only where they may be. Inside is what *)
(* the prefix test of the code admits, which is more than BASE_PATH.       *)
THEOREM ShellsStayInside ==
  ASSUME \A t \in Trees, p \in Path : t[p].kind = "link" => Inside(t[p].to),
         \A t \in Trees, i \in Inodes, p, q \in Path :
           t[p] = File(i) /\ t[q] = File(i) /\ Inside(p) => Inside(q)
  PROVE  Spec => StaysInside
<1>1. \A t \in Trees : LinksInside(t) /\ FilesInside(t)
  BY DEF LinksInside, FilesInside, Inner
<1>2. Confined => ShellsInside
  BY DEF Confined, ShellsInside, Works
<1>3. Typed /\ Confined /\ [Next]_vars => [\A p \in Path : fs'[p] # fs[p] => Inside(p)]_vars
  BY StepWithin DEF TreeWithin
<1>4. Typed /\ Confined /\ [Next]_vars =>
        [\A i \in Inodes : inode'[i] # inode[i] =>
           \A p \in Path : fs[p] = File(i) => Inside(p)]_vars
  BY WritesWithin DEF Inner
<1> QED BY <1>1, <1>2, <1>3, <1>4, ConfinedInit, ConfinedNext, TypedAlways, PTL
       DEF Spec, StaysInside

-----------------------------------------------------------------------------
(* Links that lead out, whatever tree the shells find.                     *)

LinksStay ==
  \A p \in Path :
    fs'[p].kind = "link" /\ ~Inside(fs'[p].to) => \E q \in Path : fs[q] = fs'[p]

LEMMA LinkPut ==
  ASSUME fs \in [Path -> Node], NEW p \in Path, NEW v, fs' = [fs EXCEPT ![p] = v],
         v.kind = "link" => Inside(v.to) \/ \E q \in Path : fs[q] = v
  PROVE  LinksStay
<1> SUFFICES ASSUME NEW q \in Path, fs'[q].kind = "link", ~Inside(fs'[q].to)
             PROVE  \E x \in Path : fs[x] = fs'[q]
  BY DEF LinksStay
<1>1. CASE q = p
  BY <1>1
<1>2. CASE q # p
  BY <1>2
<1> QED BY <1>1, <1>2

LEMMA LinkSame == ASSUME UNCHANGED fs PROVE LinksStay
BY DEF LinksStay

LEMMA LinkMoved ==
  ASSUME fs \in [Path -> Node], NEW src \in Path, NEW dst \in Path, fs' = Renamed(fs, src, dst)
  PROVE  LinksStay
<1>1. CASE src = dst
  BY <1>1, LinkSame DEF Renamed
<1>2. CASE src # dst
  <2> SUFFICES ASSUME NEW q \in Path, fs'[q].kind = "link"
               PROVE  \E x \in Path : fs[x] = fs'[q]
    BY DEF LinksStay
  <2>1. CASE IsPrefix(dst, q) /\ Rebased(q, dst, src) \in Path
    <3>1. PICK x \in Path : x = Rebased(q, dst, src)
      BY <2>1
    <3>2. fs'[q] = fs[x]
      BY <1>2, <2>1, <3>1, RenamedAt
    <3> QED BY <3>2
  <2>2. CASE ~IsPrefix(dst, q) /\ ~IsPrefix(src, q)
    BY <1>2, <2>2, RenamedAt
  <2>3. CASE \/ IsPrefix(dst, q) /\ Rebased(q, dst, src) \notin Path
             \/ ~IsPrefix(dst, q) /\ IsPrefix(src, q)
    <3>1. fs'[q] = Nothing
      BY <1>2, <2>3, RenamedAt
    <3> QED BY <3>1, LinkKind
  <2> QED BY <2>1, <2>2, <2>3
<1> QED BY <1>1, <1>2

LEMMA LinkMade ==
  ASSUME Typed, NEW s \in Shells, NEW symbolic \in BOOLEAN, NEW o \in Operands,
         NEW n \in Operands, cmd_ln(s, symbolic, o, n)
  PROVE  LinksStay
<1> DEFINE from == Absolute(s, o)
           old == At(fs, Entry(fs, from))
           new == Entry(fs, Absolute(s, n))
           node == IF symbolic THEN Link(from) ELSE old
<1>1. fs \in [Path -> Node] /\ (UNCHANGED fs \/ (new \in Path /\ fs' = [fs EXCEPT ![new] = node]))
  BY DEF cmd_ln, Change, Typed, TreeTyped
<1>2. Inside(from)
  BY DEF cmd_ln, Allowed, is_valid_path, Inside
<1>3. node.kind = "link" => Inside(node.to) \/ \E q \in Path : fs[q] = node
  <2>1. CASE symbolic
    BY <1>2, <2>1, LinkKind
  <2>2. CASE ~symbolic /\ Entry(fs, from) \in Path
    BY <2>2 DEF At
  <2>3. CASE ~symbolic /\ Entry(fs, from) \notin Path
    BY <2>3, LinkKind DEF At
  <2> QED BY <2>1, <2>2, <2>3
<1> HIDE DEF from, old, new, node
<1> QED BY <1>1, <1>3, LinkPut, LinkSame

(* A change of one name is for a directory, a file or nothing there.       *)
LEMMA OneName ==
  ASSUME Typed, NEW s \in Shells,
         \/ \E o \in Operands : cmd_mkdir(s, o) \/ cmd_rmdir(s, o) \/ cmd_rm(s, o)
         \/ Start(s) \/ fopen_target(s)
  PROVE  LinksStay
<1>1. /\ fs \in [Path -> Node] /\ Base \in Path
      /\ \A p : At(fs, p) # Nothing => p \in Path
  BY ShellAssumption, NodePlaces DEF Typed, TreeTyped
<1>2. ASSUME NEW p \in Path, NEW v, v \in {Nothing, Dir} \/ \E i : v = File(i),
             fs' = [fs EXCEPT ![p] = v]
      PROVE  LinksStay
  <2>1. v.kind # "link"
    BY <1>2, LinkKind
  <2> QED BY <1>1, <1>2, <2>1, LinkPut
<1>3. ASSUME NEW o \in Operands, cmd_mkdir(s, o)
      PROVE  LinksStay
  BY <1>2, <1>3, LinkSame DEF cmd_mkdir, Change
<1>4. ASSUME NEW o \in Operands, cmd_rmdir(s, o) \/ cmd_rm(s, o)
      PROVE  LinksStay
  <2>1. PICK p : p = Entry(fs, Absolute(s, o))
    OBVIOUS
  <2>2. UNCHANGED fs \/ (At(fs, p) # Nothing /\ fs' = [fs EXCEPT ![p] = Nothing])
    BY <1>4, <2>1, NodeKinds DEF cmd_rmdir, cmd_rm, Change
  <2> QED BY <1>1, <1>2, <2>2, LinkSame
<1>5. CASE Start(s)
  BY <1>1, <1>2, <1>5, LinkSame DEF Start, Change
<1>6. CASE fopen_target(s)
  <2>1. UNCHANGED fs \/ \E p \in Path, i \in Inodes : fs' = [fs EXCEPT ![p] = File(i)]
    BY <1>6 DEF fopen_target, Change, Unused
  <2> QED BY <1>2, <2>1, LinkSame
<1> QED BY <1>3, <1>4, <1>5, <1>6

LEMMA LinksNext == Typed /\ [Next]_vars => LinksStay
<1> SUFFICES ASSUME Typed, [Next]_vars
             PROVE  LinksStay
  OBVIOUS
<1>1. fs \in [Path -> Node]
  BY DEF Typed, TreeTyped
<1>2. ASSUME NEW s \in Shells, NEW o \in Operands, NEW n \in Operands, TwoPaths(s, o, n)
      PROVE  LinksStay
  <2>1. CASE cmd_rename(s, o, n)
    BY <1>1, <2>1, LinkMoved, LinkSame DEF cmd_rename, Change
  <2>2. CASE cmd_cp(s, o, n)
    BY <2>2, LinkSame DEF cmd_cp
  <2> QED BY <1>2, <2>1, <2>2, LinkMade DEF TwoPaths
<1>3. ASSUME NEW s \in Shells, NEW o \in Operands, OnePath(s, o)
      PROVE  LinksStay
  <2>1. CASE \/ cmd_cd(s, o) \/ cmd_ls(s, <<o>>) \/ cmd_ls(s, <<o, o>>) \/ cmd_run(s, o)
             \/ \E f \in Formats : cmd_chmod(s, f, o)
    BY <2>1, LinkSame DEF cmd_cd, cmd_ls, cmd_run, cmd_chmod, disk
  <2> QED BY <1>3, <2>1, OneName DEF OnePath
<1>4. ASSUME NEW s \in Shells, User(s)
      PROVE  LinksStay
  <2>1. CASE \/ Quit(s) \/ Prints(s) \/ Lost(s) \/ cmd_cd_home(s)
             \/ \E u \in Shells : cmd_kill(s, u)
    BY <2>1, LinkSame DEF Quit, Prints, Lost, cmd_cd_home, cmd_kill, Keep, disk
  <2> QED BY <1>2, <1>3, <1>4, <2>1, OneName DEF User
<1>5. ASSUME NEW s \in Shells, Running(s)
      PROVE  LinksStay
  <2>1. CASE \/ StartAgain(s) \/ Prompt(s) \/ chmod(s) \/ copy_file(s)
             \/ run_li(s) \/ (\E e \in job[s].left : lstat(s, e)) \/ read_symbolic(s) \/ waitid(s)
    BY <2>1, LinkSame DEF StartAgain, Prompt, chmod, copy_file, run_li, lstat, read_symbolic,
                          waitid, Keep, disk
  <2> QED BY <1>5, <2>1, OneName DEF Running
<1>6. ASSUME NEW s \in Shells, ChildEnds(s)
      PROVE  LinksStay
  BY <1>6, LinkSame DEF ChildEnds, disk
<1>7. CASE UNCHANGED vars
  BY <1>7, LinkSame DEF vars, disk
<1> QED BY <1>4, <1>5, <1>6, <1>7 DEF Next

(* Whatever tree the shells find: no command makes a link that leads out of*)
(* the names that pass for BASE_PATH (ln -s writes the path that it has    *)
(* checked). A link that leads out was there before, under this name or    *)
(* another one; where there is none, the hypothesis of ShellsStayInside is *)
(* not lost again.                                                         *)
THEOREM NoLinkLeadsOut == Spec => [][LinksStay]_vars
<1>1. Typed /\ [Next]_vars => [LinksStay]_vars
  BY LinksNext
<1> QED BY <1>1, TypedAlways, PTL DEF Spec

-----------------------------------------------------------------------------
(* What readdir gives as a link is one, at the place where lstat and       *)
(* readlink look for it.                                                   *)
LEMMA ListedLink ==
  ASSUME Typed, NEW p \in Seq(Names), NEW e \in Contents(p), e.link
  PROVE  At(fs, Entry(fs, Append(p, e.name))).kind = "link"
<1> DEFINE d == Real(fs, p)
<1>1. d \in Path /\ \E n \in Children(fs, d) :
        e = [name |-> n, link |-> fs[Append(d, n)].kind = "link"]
  BY DEF Contents
<1> HIDE DEF d
<1>2. PICK n \in Children(fs, d) :
        e = [name |-> n, link |-> fs[Append(d, n)].kind = "link"]
  BY <1>1
<1>3. n \in Names /\ Len(d) < Depth
  BY DEF Children
<1>4. Append(d, n) \in Path /\ fs[Append(d, n)].kind = "link" /\ e.name = n
  BY <1>1, <1>2, <1>3, AppendPath
<1>5. Append(p, n) # << >> /\ Front(Append(p, n)) = p /\ Last(Append(p, n)) = n
  BY <1>3, FrontAppend
<1>6. Entry(fs, Append(p, n)) = Append(d, n)
  BY <1>5 DEF Entry, d
<1> QED BY <1>4, <1>6 DEF At

-----------------------------------------------------------------------------
(* Why a shell ends: until another one changes the tree, the base          *)
(* directory that it made is there, and so are the links that readdir gave *)
(* it since it read the directory.                                         *)

Listing == {"ls", "readlink"}
ShowsLink(s, e) == e.link => At(fs, Place(s, e)).kind = "link"

Untouched(s) ==
  /\ pc[s] = "off" => fs \in Trees
  /\ pc[s] = "starting" => At(fs, Real(fs, Base)) = Dir
  /\ \A e \in job[s].left : ShowsLink(s, e)
  /\ pc[s] = "readlink" => ShowsLink(s, job[s].here)

Blameless(s) ==
  /\ pc[s] = "failed" => cwd[s] = Gone \/ child[s] = "refused" \/ intruded[s]
  /\ pc[s] \notin Listing \cup Over => job[s].left = {}
  /\ job[s].todo \in Seq(Operands)
  /\ pc[s] = "readlink" => job[s].here.link
  /\ ~intruded[s] /\ pc[s] \notin Over => Untouched(s)

Blame == \A s \in Shells : Blameless(s)

(* A base directory that is no directory, or that cannot be made, ends the *)
(* shell, too.                                                             *)
BaseUsable == \A t \in Trees : Fresh(t, Base) \/ At(t, Real(t, Base)) = Dir

(* A shell whose fork was refused has ended, and stays so.                 *)
RefusedStay == \A u \in Shells : child[u] = "refused" => child'[u] = "refused"

LEMMA RefusedNext == Typed /\ [Next]_vars => RefusedStay
<1> SUFFICES ASSUME Typed, [Next]_vars, NEW u \in Shells, child[u] = "refused"
             PROVE  child'[u] = "refused"
  BY DEF RefusedStay
<1>1. /\ child \in [Shells -> {"none", "running", "ended", "refused"}]
      /\ pc[u] \in {"wait"} \cup Over
  BY DEF Typed, Controlled
<1>2. CASE UNCHANGED child
  BY <1>2
<1>3. ASSUME NEW s \in Shells, NEW o \in Operands, cmd_run(s, o)
      PROVE  child'[u] = "refused"
  BY <1>1, <1>3 DEF cmd_run, GivenHere, Given, Over
<1>4. ASSUME NEW s \in Shells, ChildEnds(s) \/ waitid(s)
      PROVE  child'[u] = "refused"
  BY <1>1, <1>4 DEF ChildEnds, waitid
<1>5. ASSUME NEW s \in Shells, User(s)
      PROVE  child'[u] = "refused"
  BY <1>2, <1>3, <1>5
     DEF User, Start, Quit, Prints, Lost, cmd_cd_home, OnePath, TwoPaths, cmd_kill, cmd_cd,
         cmd_mkdir, cmd_rmdir, cmd_rm, cmd_ls, cmd_chmod, cmd_rename, cmd_cp, cmd_ln, Keep
<1>6. ASSUME NEW s \in Shells, Running(s)
      PROVE  child'[u] = "refused"
  BY <1>2, <1>4, <1>6
     DEF Running, StartAgain, Prompt, chmod, fopen_target, copy_file, run_li, lstat, read_symbolic,
         Keep
<1>7. CASE UNCHANGED vars
  BY <1>2, <1>7 DEF vars
<1> QED BY <1>4, <1>5, <1>6, <1>7 DEF Next

(* What a step does to a shell that does not take it: the tree changes     *)
(* only if it is noticed.                                                  *)
Bystander(u) ==
  /\ pc'[u] = pc[u] /\ job'[u] = job[u]
  /\ cwd[u] = Gone => cwd'[u] = Gone
  /\ child[u] = "refused" => child'[u] = "refused"
  /\ intruded'[u] \in BOOLEAN /\ (intruded[u] => intruded'[u])
  /\ ~intruded'[u] => UNCHANGED fs

Bystanders(s) ==
  \A u \in Shells \ {s} : Bystander(u) \/ (pc'[u] = "ended" /\ job'[u] = NoJob)

LEMMA BystanderBlameless ==
  ASSUME Typed, NEW u \in Shells, Blameless(u), Bystander(u)
  PROVE  Blameless(u)'
<1>1. intruded \in [Shells -> BOOLEAN]
  BY DEF Typed, Recorded
<1>2. CASE intruded'[u]
  BY <1>2 DEF Blameless, Bystander
<1>3. CASE ~intruded'[u]
  <2>1. fs' = fs /\ pc'[u] = pc[u] /\ job'[u] = job[u] /\ ~intruded[u]
    BY <1>3 DEF Bystander
  <2>2. \A e : ShowsLink(u, e)' <=> ShowsLink(u, e)
    BY <2>1 DEF ShowsLink, Place
  <2>3. Untouched(u)' <=> Untouched(u)
    <3> HIDE DEF ShowsLink
    <3> QED BY <2>1, <2>2 DEF Untouched
  <2> QED BY <1>3, <2>1, <2>3 DEF Blameless, Bystander
<1> QED BY <1>2, <1>3

LEMMA EndedBlameless ==
  ASSUME NEW u \in Shells, pc'[u] = "ended", job'[u] = NoJob
  PROVE  Blameless(u)'
BY EmptySeq DEF Blameless, Listing, Over, NoJob

LEMMA BystandersBlameless ==
  ASSUME Typed, Blame, NEW s \in Shells, Bystanders(s), Blameless(s)'
  PROVE  Blame'
BY BystanderBlameless, EndedBlameless DEF Blame, Bystanders

(* A step between commands, or of a command that shows nothing.            *)
Calm(s) ==
  /\ pc[s] \notin Listing \cup Over
  /\ pc'[s] \notin Listing \cup {"failed", "off", "starting"}
  /\ job'[s] = NoJob \/ (job'[s].left = job[s].left /\ job'[s].todo = job[s].todo)
  /\ Bystanders(s)

LEMMA CalmBlame ==
  ASSUME Typed, Blame, NEW s \in Shells, Calm(s)
  PROVE  Blame'
<1>1. job'[s].left = {} /\ job'[s].todo \in Seq(Operands)
  <2>1. job[s].left = {} /\ job[s].todo \in Seq(Operands)
    BY DEF Blame, Blameless, Calm
  <2>2. NoJob.left = {} /\ NoJob.todo = << >>
    BY DEF NoJob
  <2>3. NoJob.todo \in Seq(Operands)
    BY <2>2, EmptySeq
  <2> QED BY <2>1, <2>2, <2>3 DEF Calm
<1>2. pc'[s] \notin Listing \cup {"failed", "off", "starting"}
  BY DEF Calm
<1>3. Untouched(s)'
  BY <1>1, <1>2 DEF Untouched, Listing
<1>4. Blameless(s)'
  BY <1>1, <1>2, <1>3 DEF Blameless, Listing
<1> QED BY <1>4, BystandersBlameless DEF Calm

LEMMA Noticed ==
  ASSUME Typed, NEW s \in Shells, NEW u \in Shells, u # s, NEW t, Change(s, t)
  PROVE  /\ intruded'[u] \in BOOLEAN /\ (intruded[u] => intruded'[u])
         /\ ~intruded'[u] => UNCHANGED fs
<1>1. intruded \in [Shells -> BOOLEAN]
  BY DEF Typed, Recorded
<1>2. CASE t = fs
  <2>1. fs' = fs /\ intruded' = intruded
    BY <1>2 DEF Change
  <2> QED BY <1>1, <2>1
<1>3. CASE t # fs
  <2>1. intruded' = [w \in Shells |-> intruded[w] \/ w # s]
    BY <1>3 DEF Change
  <2>2. intruded'[u] = TRUE
    BY <2>1
  <2> QED BY <2>2
<1> QED BY <1>2, <1>3

LEMMA OthersStand ==
  ASSUME RefusedStay, Typed, NEW s \in Shells,
         \/ (\E t : Change(s, t)) \/ UNCHANGED <<fs, intruded>>
         \/ UNCHANGED fs /\ intruded' = [intruded EXCEPT ![s] = FALSE],
         \A u \in Shells \ {s} :
           pc'[u] = pc[u] /\ job'[u] = job[u] /\ (cwd[u] = Gone => cwd'[u] = Gone)
  PROVE  Bystanders(s)
<1>1. ASSUME NEW u \in Shells, u # s
      PROVE  /\ intruded'[u] \in BOOLEAN /\ (intruded[u] => intruded'[u])
             /\ ~intruded'[u] => UNCHANGED fs
  <2>1. intruded \in [Shells -> BOOLEAN]
    BY DEF Typed, Recorded
  <2> QED BY <1>1, <2>1, Noticed
<1> QED BY <1>1 DEF Bystanders, Bystander, RefusedStay

(* A shell that takes a step leaves the others where they are.             *)
LEMMA OneMoves ==
  ASSUME RefusedStay, Typed, NEW s \in Shells,
         \/ (\E t : Change(s, t)) \/ UNCHANGED <<fs, intruded>>
         \/ UNCHANGED fs /\ intruded' = [intruded EXCEPT ![s] = FALSE],
         (\E at : Enter(s, at)) \/ UNCHANGED pc,
         (\E j : job' = [job EXCEPT ![s] = j]) \/ UNCHANGED job,
         (\E p : cwd' = [cwd EXCEPT ![s] = p]) \/ (\A u \in Shells : cwd[u] = Gone => cwd'[u] = Gone)
  PROVE  /\ Bystanders(s)
         /\ \A at : Enter(s, at) => pc'[s] = at
         /\ \A j : job' = [job EXCEPT ![s] = j] => job'[s] = j
<1>1. pc \in [Shells -> Places] /\ DOMAIN job = Shells /\ DOMAIN cwd = Shells
  BY ProperJobs DEF Typed, Controlled, CwdTyped
<1>2. \A u \in Shells \ {s} :
        pc'[u] = pc[u] /\ job'[u] = job[u] /\ (cwd[u] = Gone => cwd'[u] = Gone)
  BY <1>1 DEF Enter
<1> QED BY <1>1, <1>2, OthersStand DEF Enter

LEMMA CommandCalm ==
  ASSUME RefusedStay, Typed, NEW s \in Shells, NEW o \in Operands,
         \/ cmd_cd(s, o) \/ cmd_mkdir(s, o) \/ cmd_rmdir(s, o) \/ cmd_rm(s, o)
         \/ cmd_run(s, o) /\ Enter(s, "wait")
         \/ \E f \in Formats : cmd_chmod(s, f, o)
         \/ \E n \in Operands : TwoPaths(s, o, n)
  PROVE  Calm(s)
<1> DEFINE Kept(j) == j.left = job[s].left /\ j.todo = job[s].todo
<1>1. /\ pc[s] = "prompt"
      /\ \E at \in {"top", "chmod", "open", "wait"} : Enter(s, at)
  BY DEF cmd_cd, cmd_mkdir, cmd_rmdir, cmd_rm, cmd_run, cmd_chmod, TwoPaths, cmd_rename, cmd_cp,
         cmd_ln, GivenHere, Given, Return
<1>2. (\E t : Change(s, t)) \/ UNCHANGED <<fs, intruded>>
  BY DEF cmd_cd, cmd_mkdir, cmd_rmdir, cmd_rm, cmd_run, cmd_chmod, TwoPaths, cmd_rename, cmd_cp,
         cmd_ln, disk
<1>3. (\E j : job' = [job EXCEPT ![s] = j] /\ Kept(j)) \/ UNCHANGED job
  <2>1. DOMAIN job[s] = DOMAIN NoJob
    BY ProperJobs DEF Proper
  <2>2. CASE cmd_mkdir(s, o)
    <3>1. CASE job' = [job EXCEPT ![s].path = Absolute(s, o)]
      <4>1. Kept([job[s] EXCEPT !.path = Absolute(s, o)])
        BY <2>1 DEF NoJob
      <4> QED BY <3>1, <4>1
    <3> QED BY <2>2, <3>1 DEF cmd_mkdir
  <2>3. ASSUME NEW f \in Formats, cmd_chmod(s, f, o)
        PROVE  <1>3!:
    <3>1. PICK i \in FileAt(Absolute(s, o)) :
            \/ UNCHANGED job
            \/ job' = [job EXCEPT ![s].path = Absolute(s, o), ![s].typed = f,
                                  ![s].seen = inode[i].mode, ![s].from = i]
      BY <2>3 DEF cmd_chmod
    <3>2. Kept([job[s] EXCEPT !.path = Absolute(s, o), !.typed = f,
                              !.seen = inode[i].mode, !.from = i])
      BY <2>1 DEF NoJob
    <3> QED BY <3>1, <3>2
  <2>4. ASSUME NEW n \in Operands, cmd_cp(s, o, n)
        PROVE  <1>3!:
    <3>1. PICK i, p, w : i \in Inodes \cup {NoFile} /\
            job' = [job EXCEPT ![s].path = p, ![s].from = i, ![s].was = w]
      BY <2>4 DEF cmd_cp, FileAt
    <3>2. Kept([job[s] EXCEPT !.path = p, !.from = i, !.was = w])
      BY <2>1 DEF NoJob
    <3> QED BY <3>1, <3>2
  <2> QED BY <2>2, <2>3, <2>4
         DEF cmd_cd, cmd_rmdir, cmd_rm, cmd_run, TwoPaths, cmd_rename, cmd_ln
<1>4. (\E p : cwd' = [cwd EXCEPT ![s] = p]) \/ (\A u \in Shells : cwd[u] = Gone => cwd'[u] = Gone)
  BY DEF cmd_cd, cmd_mkdir, cmd_rmdir, cmd_rm, cmd_run, cmd_chmod, TwoPaths, cmd_rename, cmd_cp,
         cmd_ln, disk, Moved
<1>5. Bystanders(s)
  BY <1>1, <1>2, <1>3, <1>4, OneMoves
<1>6. pc'[s] \in {"top", "chmod", "open", "wait"}
  BY <1>1, <1>2, <1>3, <1>4, OneMoves
<1>7. Kept(job'[s])
  BY <1>3, ProperJobs
<1> QED BY <1>1, <1>5, <1>6, <1>7 DEF Calm, Listing, Over

LEMMA LoopCalm ==
  ASSUME RefusedStay, Typed, NEW s \in Shells,
         \/ Quit(s) \/ Prints(s) \/ cmd_cd_home(s) \/ waitid(s)
         \/ chmod(s) \/ fopen_target(s) \/ copy_file(s)
  PROVE  Calm(s)
<1> DEFINE Kept(j) == j.left = job[s].left /\ j.todo = job[s].todo
<1>1. /\ pc[s] \in {"prompt", "wait", "chmod", "open", "copy"}
      /\ \E at \in {"ended", "top", "copy"} : Enter(s, at)
  BY DEF Quit, Prints, cmd_cd_home, waitid, chmod, fopen_target, copy_file, Given, Return
<1>2. (\E t : Change(s, t)) \/ UNCHANGED <<fs, intruded>>
  BY DEF Quit, Prints, cmd_cd_home, waitid, chmod, fopen_target, copy_file, disk, Keep
<1>3. (\E j : job' = [job EXCEPT ![s] = j] /\ (j = NoJob \/ Kept(j))) \/ UNCHANGED job
  <2>1. DOMAIN job[s] = DOMAIN NoJob
    BY ProperJobs DEF Proper
  <2>2. \A i : Kept([job[s] EXCEPT !.to = i])
    BY <2>1 DEF NoJob
  <2>3. CASE \E i : job' = [job EXCEPT ![s].to = i]
    <3>1. PICK i : job' = [job EXCEPT ![s].to = i]
      BY <2>3
    <3> QED BY <2>2, <3>1
  <2>4. CASE chmod(s) \/ copy_file(s)
    BY <2>4 DEF chmod, copy_file
  <2>5. CASE fopen_target(s)
    <3>1. (\E i : job' = [job EXCEPT ![s].to = i]) \/ job' = [job EXCEPT ![s] = NoJob]
      BY <2>5 DEF fopen_target
    <3> HIDE DEF Kept
    <3> QED BY <2>3, <3>1
  <2> QED BY <2>4, <2>5 DEF Quit, Prints, cmd_cd_home, waitid, Keep
<1>4. (\E p : cwd' = [cwd EXCEPT ![s] = p]) \/ (\A u \in Shells : cwd[u] = Gone => cwd'[u] = Gone)
  BY DEF Quit, Prints, cmd_cd_home, waitid, chmod, fopen_target, copy_file, disk, Keep
<1>5. Bystanders(s) /\ pc'[s] \in {"ended", "top", "copy"}
  BY <1>1, <1>2, <1>3, <1>4, OneMoves
<1>6. job'[s] = NoJob \/ Kept(job'[s])
  BY <1>3, ProperJobs
<1> QED BY <1>1, <1>5, <1>6 DEF Calm, Listing, Over

(* A step that ends a shell shows why.                                     *)
LEMMA FailBlame ==
  ASSUME Typed, Blame, NEW s \in Shells, Enter(s, "failed"), UNCHANGED job, Bystanders(s),
         cwd'[s] = Gone \/ child'[s] = "refused" \/ intruded'[s]
  PROVE  Blame'
<1>1. pc'[s] = "failed" /\ job'[s].todo \in Seq(Operands)
  BY DEF Typed, Controlled, Enter, Blame, Blameless
<1>2. Blameless(s)'
  BY <1>1 DEF Blameless, Over
<1> QED BY <1>2, BystandersBlameless

LEMMA PromptBlame ==
  ASSUME RefusedStay, Typed, Blame, NEW s \in Shells, Prompt(s) \/ Lost(s)
  PROVE  Blame'
<1>1. /\ UNCHANGED <<disk, job>> /\ pc[s] \in {"top", "prompt"}
      /\ Enter(s, "prompt") \/ (Enter(s, "failed") /\ cwd[s] = Gone)
  BY DEF Prompt, Lost, Keep, Fail
<1>2. Bystanders(s) /\ (Enter(s, "prompt") => pc'[s] = "prompt")
  BY <1>1, OneMoves DEF disk
<1>3. CASE Enter(s, "prompt")
  <2>1. Calm(s)
    BY <1>1, <1>2, <1>3 DEF Calm, Listing, Over
  <2> QED BY <2>1, CalmBlame
<1>4. CASE Enter(s, "failed") /\ cwd[s] = Gone
  BY <1>1, <1>2, <1>4, FailBlame DEF disk
<1> QED BY <1>1, <1>3, <1>4

(* The base directory that the shell makes is there.                       *)
LEMMA StartBlame ==
  ASSUME BaseUsable, RefusedStay, Typed, Typed', Blame, NEW s \in Shells, Start(s)
  PROVE  Blame'
<1>1. /\ pc[s] = "off" /\ UNCHANGED job /\ job[s].left = {} /\ job[s].todo \in Seq(Operands)
      /\ \E at : Enter(s, at)
      /\ (\E t : Change(s, t)) \/ UNCHANGED <<fs, intruded>>
      /\ (\E p : cwd' = [cwd EXCEPT ![s] = p]) \/ UNCHANGED cwd
  BY DEF Start, Return, Blame, Blameless, Listing, Over
<1>2. Bystanders(s) /\ \A at : Enter(s, at) => pc'[s] = at
  BY <1>1, OneMoves
<1>3. CASE Enter(s, "top")
  <2>1. Calm(s)
    BY <1>1, <1>2, <1>3 DEF Calm, Listing, Over
  <2> QED BY <2>1, CalmBlame
<1>4. CASE /\ Change(s, IF Fresh(fs, Base) THEN [fs EXCEPT ![Base] = Dir] ELSE fs)
           /\ Enter(s, "starting")
  <2>1. pc'[s] = "starting"
    BY <1>2, <1>4
  <2>2. ASSUME ~intruded'[s]
        PROVE  At(fs', Real(fs', Base)) = Dir
    <3>1. ~intruded[s]
      <4>1. intruded \in [Shells -> BOOLEAN]
        BY DEF Typed, Recorded
      <4> QED BY <4>1, <1>4, <2>2 DEF Change
    <3>2. fs \in Trees
      BY <1>1, <3>1 DEF Blame, Blameless, Untouched, Over
    <3>3. CASE Fresh(fs, Base)
      <4>1. fs' = [fs EXCEPT ![Base] = Dir] /\ Base \in Path
        BY <1>4, <3>3, ShellAssumption DEF Change
      <4>2. fs' \in [Path -> Node] /\ IsTree(fs') /\ fs'[Base] = Dir
        BY <4>1 DEF Typed, TreeTyped
      <4> QED BY <4>1, <4>2, DirFound
    <3>4. CASE ~Fresh(fs, Base)
      <4>1. fs' = fs
        BY <1>4, <3>4 DEF Change
      <4> QED BY <4>1, <3>2, <3>4 DEF BaseUsable
    <3> QED BY <3>3, <3>4
  <2>3. ~intruded'[s] => Untouched(s)'
    BY <1>1, <2>1, <2>2 DEF Untouched
  <2>4. Blameless(s)'
    BY <1>1, <2>1, <2>3 DEF Blameless, Listing
  <2> QED BY <1>2, <2>4, BystandersBlameless
<1> QED BY <1>3, <1>4 DEF Start, Return

LEMMA StartAgainBlame ==
  ASSUME RefusedStay, Typed, Blame, NEW s \in Shells, StartAgain(s)
  PROVE  Blame'
<1>1. /\ pc[s] = "starting" /\ UNCHANGED <<fs, intruded, job>>
      /\ \/ Enter(s, "top") /\ cwd' = [cwd EXCEPT ![s] = Real(fs, Base)]
         \/ Enter(s, "failed") /\ UNCHANGED cwd /\ At(fs, Real(fs, Base)) # Dir
  BY DEF StartAgain, Return, Fail
<1>2. Bystanders(s) /\ \A at : Enter(s, at) => pc'[s] = at
  BY <1>1, OneMoves
<1>3. CASE Enter(s, "top")
  <2>1. Calm(s)
    BY <1>1, <1>2, <1>3 DEF Calm, Listing, Over
  <2> QED BY <2>1, CalmBlame
<1>4. CASE Enter(s, "failed") /\ At(fs, Real(fs, Base)) # Dir
  <2>1. intruded[s]
    BY <1>1, <1>4 DEF Blame, Blameless, Untouched, Over
  <2> QED BY <1>1, <1>2, <1>4, <2>1, FailBlame
<1> QED BY <1>1, <1>3, <1>4

LEMMA ChildBlame ==
  ASSUME RefusedStay, Typed, Blame, NEW s \in Shells, ChildEnds(s)
  PROVE  Blame'
<1>1. UNCHANGED <<fs, cwd, intruded, pc, job>>
  BY DEF ChildEnds, disk
<1>2. intruded \in [Shells -> BOOLEAN]
  BY DEF Typed, Recorded
<1>3. \A u \in Shells : Bystander(u)
  BY <1>1, <1>2 DEF Bystander, RefusedStay
<1> QED BY <1>3, BystanderBlameless DEF Blame

LEMMA RunBlame ==
  ASSUME RefusedStay, Typed, Blame, NEW s \in Shells, NEW o \in Operands, cmd_run(s, o)
  PROVE  Blame'
<1>1. CASE Enter(s, "wait")
  BY <1>1, CommandCalm, CalmBlame
<1>2. CASE Enter(s, "failed") /\ child' = [child EXCEPT ![s] = "refused"]
  <2>1. UNCHANGED <<fs, cwd, intruded, job>> /\ child'[s] = "refused"
    BY <1>2 DEF cmd_run, disk, Typed, Controlled
  <2>2. Bystanders(s)
    BY <1>2, <2>1, OneMoves
  <2> QED BY <1>2, <2>1, <2>2, FailBlame
<1> QED BY <1>1, <1>2 DEF cmd_run, Fail

LEMMA KillBlame ==
  ASSUME RefusedStay, Typed, Blame, NEW s \in Shells, NEW u \in Shells, cmd_kill(s, u)
  PROVE  Blame'
<1>1. /\ pc[s] = "prompt" /\ u # s /\ UNCHANGED <<fs, cwd, intruded, child>>
      /\ pc' = [pc EXCEPT ![s] = "top", ![u] = "ended"]
      /\ job' = [job EXCEPT ![u] = NoJob]
  BY DEF cmd_kill, Given, disk
<1>2. pc \in [Shells -> Places] /\ DOMAIN job = Shells /\ intruded \in [Shells -> BOOLEAN]
  BY ProperJobs DEF Typed, Controlled, Recorded
<1>3. \A v \in Shells \ {s, u} : Bystander(v)
  BY <1>1, <1>2 DEF Bystander
<1>4. pc'[u] = "ended" /\ job'[u] = NoJob
  BY <1>1, <1>2
<1>5. pc'[s] = "top" /\ job'[s] = job[s]
  BY <1>1, <1>2
<1>6. Bystanders(s)
  BY <1>3, <1>4 DEF Bystanders
<1>7. Calm(s)
  BY <1>1, <1>5, <1>6 DEF Calm, Listing, Over
<1> QED BY <1>7, CalmBlame

(* A step of ls -l, which changes nothing but where it is and what it      *)
(* knows of the directory.                                                 *)
LinkIn(p, e) == e.link => At(fs, Entry(fs, Append(p, e.name))).kind = "link"

Knows(s, j, at) ==
  /\ at \in Listing \cup {"top"}
  /\ at = "top" => j.left = {}
  /\ j.todo \in Seq(Operands)
  /\ at = "readlink" => j.here.link
  /\ ~intruded'[s] => \A e \in j.left : LinkIn(j.path, e)
  /\ ~intruded'[s] /\ at = "readlink" => LinkIn(j.path, j.here)

LEMMA ListBlame ==
  ASSUME RefusedStay, Typed, Blame, NEW s \in Shells, UNCHANGED <<fs, cwd>>,
         UNCHANGED intruded \/ intruded' = [intruded EXCEPT ![s] = FALSE],
         NEW at, NEW j, Knows(s, j, at), Enter(s, at),
         job' = [job EXCEPT ![s] = j] \/ (j = job[s] /\ UNCHANGED job)
  PROVE  Blame'
<1>1. pc'[s] = at /\ job'[s] = j
  BY ProperJobs DEF Typed, Controlled, Enter
<1>2. Bystanders(s)
  BY OneMoves
<1>3. ASSUME ~intruded'[s]
      PROVE  Untouched(s)'
  <2>1. \A e : ShowsLink(s, e)' <=> LinkIn(j.path, e)
    BY <1>1 DEF ShowsLink, Place, LinkIn
  <2> HIDE DEF ShowsLink
  <2> QED BY <1>1, <1>3, <2>1 DEF Untouched, Listing, Knows
<1>4. Blameless(s)'
  BY <1>1, <1>3 DEF Blameless, Listing, Knows
<1> QED BY <1>2, <1>4, BystandersBlameless

LEMMA LsBlame ==
  ASSUME RefusedStay, Typed, Blame, NEW s \in Shells, NEW todo \in Seq(Operands), cmd_ls(s, todo)
  PROVE  Blame'
<1> DEFINE j == [job[s] EXCEPT !.todo = todo]
<1>1. /\ pc[s] = "prompt" /\ Enter(s, "ls") /\ UNCHANGED <<fs, intruded, cwd>>
      /\ job' = [job EXCEPT ![s] = j]
  BY DEF cmd_ls, GivenHere, Given, disk
<1>2. j.left = {} /\ j.todo = todo
  <2>1. DOMAIN job[s] = DOMAIN NoJob
    BY ProperJobs DEF Proper
  <2>2. job[s].left = {}
    BY <1>1 DEF Blame, Blameless, Listing, Over
  <2> QED BY <2>1, <2>2 DEF NoJob
<1> HIDE DEF j
<1>3. Knows(s, j, "ls")
  BY <1>2 DEF Knows, Listing
<1> QED BY <1>1, <1>3, ListBlame

LEMMA NextDirectoryBlame ==
  ASSUME RefusedStay, Typed, Blame, NEW s \in Shells, run_li(s)
  PROVE  Blame'
<1>1. /\ pc[s] = "ls" /\ UNCHANGED <<fs, cwd>> /\ job[s].left = {}
      /\ job[s].todo \in Seq(Operands) /\ DOMAIN job = Shells /\ DOMAIN job[s] = DOMAIN NoJob
      /\ pc \in [Shells -> Places]
  BY ProperJobs DEF run_li, Blame, Blameless, Proper, Typed, Controlled
<1>2. CASE job' = [job EXCEPT ![s] = NoJob] /\ Return(s) /\ UNCHANGED intruded
  <2>1. NoJob.left = {} /\ NoJob.todo = << >>
    BY DEF NoJob
  <2>2. NoJob.todo \in Seq(Operands)
    BY <2>1, EmptySeq
  <2>3. Knows(s, NoJob, "top")
    <3> HIDE DEF NoJob
    <3> QED BY <2>1, <2>2 DEF Knows
  <2> QED BY <1>1, <1>2, <2>3, ListBlame DEF Return
<1>3. CASE cwd[s] = Gone /\ Fail(s) /\ UNCHANGED <<job, intruded>>
  <2>1. Bystanders(s)
    BY <1>1, <1>3, OneMoves DEF Fail
  <2> QED BY <1>1, <1>3, <2>1, FailBlame DEF Fail
<1>4. ASSUME job[s].todo # << >>, cwd[s] # Gone, UNCHANGED pc,
             intruded' = [intruded EXCEPT ![s] = FALSE],
             NEW p, p = Absolute(s, Head(job[s].todo)),
             job' = [job EXCEPT ![s].todo = Tail(@), ![s].path = p,
                                ![s].left = IF is_valid_path(p) THEN Contents(p) ELSE {}]
      PROVE  Blame'
  <2> DEFINE j == [job[s] EXCEPT !.todo = Tail(@), !.path = p,
                                 !.left = IF is_valid_path(p) THEN Contents(p) ELSE {}]
  <2>1. job' = [job EXCEPT ![s] = j] /\ Enter(s, "ls")
    BY <1>1, <1>4 DEF Enter
  <2>2. j.todo = Tail(job[s].todo) /\ j.path = p /\ j.left \subseteq Contents(p)
    BY <1>1 DEF NoJob
  <2> HIDE DEF j
  <2>3. Head(job[s].todo) \in Operands /\ Tail(job[s].todo) \in Seq(Operands)
    BY <1>1, <1>4, HeadTailProperties
  <2>4. cwd[s] \in Seq(Names)
    <3>1. At(fs, cwd[s]) = Dir
      BY <1>4 DEF Typed, CwdTyped, Somewhere
    <3> QED BY <3>1, PathIsSequence, NodeKinds DEF At
  <2>5. p \in Seq(Names)
    BY <1>4, <2>3, <2>4, ConvertedType DEF Absolute
  <2>6. \A e \in j.left : LinkIn(j.path, e)
    BY <2>2, <2>5, ListedLink DEF LinkIn
  <2>7. Knows(s, j, "ls")
    BY <2>2, <2>3, <2>6 DEF Knows, Listing
  <2> QED BY <1>1, <1>4, <2>1, <2>7, ListBlame
<1> QED BY <1>2, <1>3, <1>4 DEF run_li

LEMMA LstatBlame ==
  ASSUME RefusedStay, Typed, Blame, NEW s \in Shells, NEW e \in job[s].left, lstat(s, e)
  PROVE  Blame'
<1> DEFINE link == e.link /\ At(fs, Place(s, e)) # Nothing
           at == IF link THEN "readlink" ELSE "ls"
           j == [job[s] EXCEPT !.left = @ \ {e}, !.here = IF link THEN e ELSE @]
<1>1. /\ pc[s] = "ls" /\ UNCHANGED <<fs, intruded, cwd>>
      /\ job' = [job EXCEPT ![s] = j] /\ Enter(s, at)
  BY DEF lstat, disk, Typed, Controlled, Enter
<1>2. /\ j.left \subseteq job[s].left /\ j.todo = job[s].todo /\ j.path = job[s].path
      /\ at = "readlink" => j.here = e /\ e.link
      /\ at \in Listing
  <2>1. DOMAIN job[s] = DOMAIN NoJob
    BY ProperJobs DEF Proper
  <2> QED BY <2>1 DEF NoJob, Listing
<1> HIDE DEF link, at, j
<1>3. ~intruded[s] => \A x \in job[s].left : LinkIn(job[s].path, x)
  BY <1>1 DEF Blame, Blameless, Untouched, ShowsLink, LinkIn, Place, Over
<1>4. job[s].todo \in Seq(Operands)
  BY DEF Blame, Blameless
<1>5. Knows(s, j, at)
  BY <1>1, <1>2, <1>3, <1>4 DEF Knows, Listing
<1> QED BY <1>1, <1>5, ListBlame

LEMMA ReadlinkBlame ==
  ASSUME RefusedStay, Typed, Blame, NEW s \in Shells, read_symbolic(s)
  PROVE  Blame'
<1>1. /\ pc[s] = "readlink" /\ UNCHANGED <<fs, intruded, cwd, job>>
      /\ IF At(fs, Place(s, job[s].here)).kind = "link" THEN Enter(s, "ls") ELSE Enter(s, "failed")
  BY DEF read_symbolic, Keep, Fail, disk
<1>2. /\ job[s].here.link /\ job[s].todo \in Seq(Operands)
      /\ ~intruded[s] => /\ \A e \in job[s].left : ShowsLink(s, e)
                         /\ ShowsLink(s, job[s].here)
  BY <1>1 DEF Blame, Blameless, Untouched, Over
<1>3. CASE Enter(s, "ls")
  <2>1. Knows(s, job[s], "ls")
    BY <1>1, <1>2 DEF Knows, LinkIn, ShowsLink, Place, Listing
  <2> QED BY <1>1, <1>3, <2>1, ListBlame
<1>4. CASE Enter(s, "failed") /\ At(fs, Place(s, job[s].here)).kind # "link"
  <2>1. intruded[s]
    BY <1>2, <1>4 DEF ShowsLink
  <2>2. Bystanders(s)
    BY <1>1, <1>4, OneMoves
  <2> QED BY <1>1, <1>4, <2>1, <2>2, FailBlame
<1> QED BY <1>1, <1>3, <1>4

LEMMA BlameInit == Init => Blame
<1>1. NoJob.left = {} /\ NoJob.todo = << >>
  BY DEF NoJob
<1>2. NoJob.todo \in Seq(Operands)
  BY <1>1, EmptySeq
<1> HIDE DEF NoJob
<1> QED BY <1>1, <1>2 DEF Init, Blame, Blameless, Untouched, Listing, Over

LEMMA BlameNext == BaseUsable /\ Typed /\ Typed' /\ Blame /\ [Next]_vars => Blame'
<1> SUFFICES ASSUME BaseUsable, Typed, Typed', Blame, [Next]_vars
             PROVE  Blame'
  OBVIOUS
<1>0. RefusedStay
  BY RefusedNext
<1>1. CASE UNCHANGED vars
  BY <1>1 DEF vars, disk, Blame, Blameless, Untouched, ShowsLink, Place
<1>2. ASSUME NEW s \in Shells, NEW o \in Operands, OnePath(s, o)
      PROVE  Blame'
  <2>1. <<o>> \in Seq(Operands) /\ <<o, o>> \in Seq(Operands)
    OBVIOUS
  <2> QED BY <1>0, <1>2, <2>1, LsBlame, RunBlame, CommandCalm, CalmBlame DEF OnePath
<1>3. ASSUME NEW s \in Shells, User(s)
      PROVE  Blame'
  BY <1>0, <1>2, <1>3, CommandCalm, LoopCalm, CalmBlame, StartBlame, PromptBlame, KillBlame DEF User
<1>4. ASSUME NEW s \in Shells, Running(s)
      PROVE  Blame'
  BY <1>0, <1>4, LoopCalm, CalmBlame, StartAgainBlame, PromptBlame, NextDirectoryBlame, LstatBlame,
     ReadlinkBlame DEF Running
<1> QED BY <1>0, <1>1, <1>3, <1>4, ChildBlame DEF Next

(* A shell ends without being asked to only when its working directory was *)
(* removed (getcwd returned NULL, main.c), when fork fails (cmd_run.c), or *)
(* when another shell has changed the tree: after its ls read the directory*)
(* whose entry that was a link is none any more (cmd_ls.c), or before it   *)
(* came to its base directory. It takes a base directory that is there or  *)
(* can be made.                                                            *)
THEOREM FailuresHaveCauses ==
  ASSUME \A t \in Trees : Fresh(t, Base) \/ At(t, Real(t, Base)) = Dir
  PROVE  Spec => []FailureHasCause
<1>1. BaseUsable
  BY DEF BaseUsable
<1>2. Blame => FailureHasCause
  BY DEF Blame, Blameless, FailureHasCause
<1> QED BY <1>1, <1>2, BlameInit, BlameNext, TypedAlways, PTL DEF Spec
=============================================================================
