-------------------------------- MODULE Shell --------------------------------
(***************************************************************************)
(* The custom shell (custom_shell): command loops in one directory tree,   *)
(* path conversion, and the commands. Each shell runs one command at a     *)
(* time; a command that makes several system calls on the tree is split    *)
(* there, so that the other shells come between.                           *)
(*                                                                         *)
(* The root of the tree is the parent of BASE_PATH. Above it no path of    *)
(* the shell leads, as convert_to_absolute never removes the first name.   *)
(* The modes of directories are left out.                                  *)
(***************************************************************************)
EXTENDS Integers, FileTree

CONSTANTS
  Shells,       (* the shells                                               *)
  Base,         (* BASE_PATH                                                *)
  Alike,        (* names at the top that begin with the last name of Base   *)
  Inodes,       (* the files there may be                                   *)
  Hollow,       (* those that are empty                                     *)
  Formats,      (* what the user types for a mode                           *)
  Trees,        (* the trees the shells may find                            *)
  Operands,     (* what the user types                                      *)
  MaxFollow,    (* bound: links followed on a path; more are a loop         *)
  MaxCommands   (* bound: commands that name a path                         *)

Link(p) == [kind |-> "link", to |-> p]
Node    == {Nothing, Dir} \cup {File(i) : i \in Inodes} \cup {Link(p) : p \in Path}
Dots    == {".", ".."}
Gone    == <<"gone">>       (* a working directory that was removed         *)
NoPath  == <<"no path">>    (* a path that the kernel does not find         *)
Word    == Names \cup Dots \cup {NoPath[1]}
NoFile  == 0                (* an open directory, which fread does not read *)
Empty   == 0                (* data of an empty file                        *)
Torn    == -1               (* data of which a part is missing              *)

(* Modes are sets of bits, and what the user types for one is an octal     *)
(* number or letters.                                                      *)
Who     == {"u", "g"}
Bits    == Who \X {"r", "x"}
Octal   == [octal : {TRUE}, mode : SUBSET Bits]
DirMode == [octal |-> TRUE, mode |-> Bits]
Letters == [octal : {FALSE}, who : SUBSET Who, op : {"+", "-"}, perm : SUBSET {"r", "x"}]

ASSUME ShellAssumption ==
  /\ Names \cap (Dots \cup {Gone[1], NoPath[1]}) = {}
  /\ Base \in Path \ {<< >>} /\ Base[1] \in Alike /\ Alike \subseteq Names
  /\ Formats \subseteq Octal \cup Letters
  /\ Inodes \subseteq Nat \ {NoFile} /\ MaxFollow \in Nat
  /\ \A t \in Trees : t \in [Path -> Node] /\ IsTree(t)
  /\ MaxCommands \in Nat
  /\ Operands \subseteq [absolute : BOOLEAN, words : Seq(Names \cup Dots)]

VARIABLES
  fs,        (* the tree: directories, names of files, links                *)
  inode,     (* data and mode of each file                                  *)
  cwd,       (* working directory of each shell, as the kernel knows it     *)
  pc,        (* where each shell is                                         *)
  job,       (* the local variables of its command                          *)
  child,     (* its program: "none", "running", "ended", "refused" by fork  *)
  intruded,  (* history: another shell changed the tree since its ls read a *)
             (* directory, or at all if it has read none                    *)
  spoiled,   (* history: another shell wrote a file that it has open, or a  *)
             (* write of its own failed                                     *)
  given      (* history: commands that name a path                          *)

disk == <<fs, inode, cwd, intruded, spoiled>>
vars == <<disk, pc, job, child, given>>

NoEntry == [name |-> NoPath, link |-> FALSE]
NoJob == [path |-> << >>, typed |-> DirMode, seen |-> {}, from |-> NoFile, to |-> NoFile,
          was |-> Empty, todo |-> << >>, left |-> {}, here |-> NoEntry]

-----------------------------------------------------------------------------
(* The kernel's view of paths.                                             *)

At(t, p) == IF p \in Path THEN t[p] ELSE Nothing
Upper(p) == IF p = << >> THEN << >> ELSE Front(p)

(* The turn that the kernel takes at the i-th name, after plain ones: a    *)
(* link is replaced by what it leads to, and "." and ".." need a directory *)
(* before them. Above the root is outside of the tree.                     *)
Turned(t, p, i) ==
  LET before == SubSeq(p, 1, i - 1)
      rest == SubSeq(p, i + 1, Len(p))
  IN  IF p[i] \notin Dots THEN t[SubSeq(p, 1, i)].to \o rest
      ELSE IF At(t, before) # Dir \/ (p[i] = ".." /\ before = << >>) THEN NoPath
      ELSE (IF p[i] = ".." THEN Upper(before) ELSE before) \o rest

Advance(t) ==
  [p \in Seq(Word) |->
     LET turns == {i \in DOMAIN p : p[i] \in Dots \/ At(t, SubSeq(p, 1, i)).kind = "link"}
     IN  IF turns = {} THEN p
         ELSE Turned(t, p, CHOOSE i \in turns : \A k \in turns : i <= k)]

(* Where n turns lead.                                                     *)
Resolved(t, p, n) ==
  LET after[k \in 0..n] == IF k = 0 THEN p ELSE Advance(t)[after[k - 1]]
      last == after[n]
  IN  IF Advance(t)[last] = last THEN last ELSE NoPath

Real(t, p) == Resolved(t, p, MaxFollow)

(* The entry itself: a link in the last place is not followed.             *)
Entry(t, p) == IF p = << >> THEN p ELSE Append(Real(t, Front(p)), Last(p))

-----------------------------------------------------------------------------
(* path_utils.c.                                                           *)

(* Slip of convert_to_absolute: ".." is dropped without the name before.   *)
convert_without_up(from, o) ==
  FoldLeft(LAMBDA p, w : IF w \in Dots THEN p ELSE Append(p, w),
           IF o.absolute THEN Base ELSE from, o.words)

convert_to_absolute(from, o) ==
  LET path[k \in 0..Len(o.words)] ==
        IF k = 0 THEN IF o.absolute THEN Base ELSE from
        ELSE IF o.words[k] = ".." THEN Upper(path[k - 1])
        ELSE IF o.words[k] = "." THEN path[k - 1] ELSE Append(path[k - 1], o.words[k])
  IN  path[Len(o.words)]

is_valid_path(p) == p # << >> /\ p[1] \in Alike

Absolute(s, o) == convert_to_absolute(cwd[s], o)

(* Slip of Allowed: the path is tested before ".." is taken out of it.     *)
AllowedUnconverted(s, o) ==
  is_valid_path(IF o.absolute THEN Base ELSE cwd[s]) /\ Absolute(s, o) \in Path

Allowed(s, o)  == is_valid_path(Absolute(s, o)) /\ Absolute(s, o) \in Path

-----------------------------------------------------------------------------
(* The command loop.                                                       *)

Init ==
  /\ fs \in Trees
  /\ inode = [i \in Inodes |-> [data |-> IF i \in Hollow THEN Empty ELSE i,
                                mode |-> {<<"u", "r">>}]]
  /\ cwd = [s \in Shells |-> << >>]
  /\ pc = [s \in Shells |-> "off"]
  /\ job = [s \in Shells |-> NoJob]
  /\ child = [s \in Shells |-> "none"]
  /\ intruded = [s \in Shells |-> FALSE]
  /\ spoiled = [s \in Shells |-> FALSE]
  /\ given = 0

Enter(s, at)  == pc' = [pc EXCEPT ![s] = at]
Return(s)     == Enter(s, "top")
Fail(s)       == Enter(s, "failed")
Keep          == UNCHANGED <<disk, job, child, given>>

(* What a change of the tree by s makes of the histories.                  *)
Change(s, t) ==
  /\ fs' = t
  /\ intruded' = IF t = fs THEN intruded ELSE [u \in Shells |-> intruded[u] \/ u # s]

(* chdir(BASE_PATH), or mkdir and chdir.                                   *)
Start(s) ==
  /\ pc[s] = "off"
  /\ IF Real(fs, Base) # NoPath /\ At(fs, Real(fs, Base)) = Dir
     THEN cwd' = [cwd EXCEPT ![s] = Real(fs, Base)] /\ Return(s) /\ UNCHANGED <<fs, intruded>>
     ELSE /\ Change(s, IF Fresh(fs, Base) THEN [fs EXCEPT ![Base] = Dir] ELSE fs)
          /\ Enter(s, "starting") /\ UNCHANGED cwd
  /\ UNCHANGED <<inode, spoiled, job, child, given>>

StartAgain(s) ==
  /\ pc[s] = "starting"
  /\ IF At(fs, Real(fs, Base)) = Dir
     THEN cwd' = [cwd EXCEPT ![s] = Real(fs, Base)] /\ Return(s)
     ELSE Fail(s) /\ UNCHANGED cwd
  /\ UNCHANGED <<fs, intruded, inode, spoiled, job, child, given>>

(* getcwd returns NULL when the directory is gone, and strcmp takes it.    *)
Prompt(s) ==
  /\ pc[s] = "top"
  /\ IF cwd[s] = Gone THEN Fail(s) ELSE Enter(s, "prompt")
  /\ Keep

(* "quit", or the end of the input.                                        *)
Quit(s) == pc[s] = "prompt" /\ Enter(s, "ended") /\ Keep

(* Commands that only print: help, ps, cat, ls without -l, and all that    *)
(* are not used as they should be or name a path that is not allowed.      *)
Prints(s) == pc[s] = "prompt" /\ Return(s) /\ Keep

(* A command that names paths. The directory may have gone after the       *)
(* prompt: convert_to_absolute takes the length of NULL.                   *)
Given(s) == pc[s] = "prompt" /\ given < MaxCommands /\ given' = given + 1

Lost(s) == pc[s] = "prompt" /\ cwd[s] = Gone /\ Fail(s) /\ Keep

GivenHere(s) == Given(s) /\ cwd[s] # Gone

-----------------------------------------------------------------------------
(* Commands of one system call.                                            *)

(* cd without an operand, or with "~", does not ask for the directory.     *)
cmd_cd_home(s) ==
  /\ Given(s) /\ Return(s)
  /\ cwd' = IF At(fs, Real(fs, Base)) = Dir THEN [cwd EXCEPT ![s] = Real(fs, Base)] ELSE cwd
  /\ UNCHANGED <<fs, inode, intruded, spoiled, job, child>>

cmd_cd(s, o) ==
  /\ GivenHere(s) /\ Allowed(s, o) /\ Return(s)
  /\ LET p == Real(fs, Absolute(s, o))
     IN  cwd' = IF At(fs, p) = Dir THEN [cwd EXCEPT ![s] = p] ELSE cwd
  /\ UNCHANGED <<fs, inode, intruded, spoiled, job, child>>

(* The working directories after the directory src has become dst, over an *)
(* empty one that may have been there.                                     *)
Moved(src, dst) ==
  [s \in Shells |-> IF cwd[s] = Gone THEN Gone
                    ELSE IF IsPrefix(src, cwd[s]) THEN Rebased(cwd[s], src, dst)
                    ELSE IF cwd[s] = dst THEN Gone ELSE cwd[s]]

(* mkdir, and then chmod as in cmd_chmod.                                  *)
cmd_mkdir(s, o) ==
  /\ GivenHere(s) /\ Allowed(s, o)
  /\ LET p == Entry(fs, Absolute(s, o))
     IN  IF p \in Path /\ Fresh(fs, p)
         THEN /\ Change(s, [fs EXCEPT ![p] = Dir])
              /\ job' = [job EXCEPT ![s].path = Absolute(s, o)]
              /\ Enter(s, "chmod")
         ELSE Return(s) /\ UNCHANGED <<fs, intruded, job>>
  /\ UNCHANGED <<inode, cwd, spoiled, child>>

(* The root of the tree is never removed.                                  *)
cmd_rmdir(s, o) ==
  /\ GivenHere(s) /\ Allowed(s, o) /\ Return(s)
  /\ LET p == Entry(fs, Absolute(s, o))
     IN  IF p # << >> /\ At(fs, p) = Dir /\ Children(fs, p) = {}
         THEN /\ Change(s, [fs EXCEPT ![p] = Nothing])
              /\ cwd' = [u \in Shells |-> IF cwd[u] = p THEN Gone ELSE cwd[u]]
         ELSE UNCHANGED <<fs, intruded, cwd>>
  /\ UNCHANGED <<inode, spoiled, job, child>>

(* unlink.                                                                 *)
cmd_rm(s, o) ==
  /\ GivenHere(s) /\ Allowed(s, o) /\ Return(s)
  /\ LET p == Entry(fs, Absolute(s, o))
     IN  Change(s, IF At(fs, p) \in {Nothing, Dir} THEN fs ELSE [fs EXCEPT ![p] = Nothing])
  /\ UNCHANGED <<inode, cwd, spoiled, job, child>>

(* rename does nothing when both names are names of one file.              *)
cmd_rename(s, o, n) ==
  /\ GivenHere(s) /\ Allowed(s, o) /\ Allowed(s, n) /\ Return(s)
  /\ LET src == Entry(fs, Absolute(s, o))
         dst == Entry(fs, Absolute(s, n))
     IN  IF /\ src \in Path /\ dst \in Path \ {<< >>}
            /\ Renames(fs, src, dst) /\ Fits(fs, src, dst)
            /\ fs[src].kind = "file" => fs[dst] # fs[src]
         THEN Change(s, Renamed(fs, src, dst)) /\ cwd' = Moved(src, dst)
         ELSE UNCHANGED <<fs, intruded, cwd>>
  /\ UNCHANGED <<inode, spoiled, job, child>>

(* link makes a second name for a file or a link, symlink a link that says *)
(* where the file is now.                                                  *)
cmd_ln(s, symbolic, o, n) ==
  /\ GivenHere(s) /\ Allowed(s, o) /\ Allowed(s, n) /\ Return(s)
  /\ LET old == At(fs, Entry(fs, Absolute(s, o)))
         new == Entry(fs, Absolute(s, n))
         node == IF symbolic THEN Link(Absolute(s, o)) ELSE old
     IN  Change(s, IF new \in Path /\ Fresh(fs, new) /\ node \notin {Nothing, Dir}
                   THEN [fs EXCEPT ![new] = node] ELSE fs)
  /\ UNCHANGED <<inode, cwd, spoiled, job, child>>

(* cat checks the absolute path and opens the operand as it was typed, here*)
(* in one state: an absolute operand is then a path outside of the tree.   *)
Checked(s, o) == Real(fs, Absolute(s, o))
DotsIn(words) == {i \in DOMAIN words : words[i] \in Dots}
Opened(s, o)  ==
  IF o.absolute THEN NoPath
  ELSE Resolved(fs, cwd[s] \o o.words, MaxFollow + Cardinality(DotsIn(o.words)))

-----------------------------------------------------------------------------
(* chmod.                                                                  *)

(* Slip of chmod_format: letters without u, g or o mean nobody.            *)
chmod_format_nobody(f, current) ==
  IF f.octal THEN f.mode
  ELSE LET bits == f.who \X f.perm
       IN  IF f.op = "+" THEN current \cup bits ELSE current \ bits

chmod_format(f, current) ==
  IF f.octal THEN f.mode
  ELSE LET bits == (IF f.who = {} THEN Who ELSE f.who) \X f.perm
       IN  IF f.op = "+" THEN current \cup bits ELSE current \ bits

FileAt(p) == {i \in Inodes : At(fs, Real(fs, p)) = File(i)}

(* stat, before the path is checked.                                       *)
cmd_chmod(s, f, o) ==
  /\ GivenHere(s) /\ Absolute(s, o) \in Path
  /\ \E i \in FileAt(Absolute(s, o)) :
       IF is_valid_path(Absolute(s, o))
       THEN /\ job' = [job EXCEPT ![s].path = Absolute(s, o),
                                 ![s].typed = f, ![s].seen = inode[i].mode,
                                 ![s].from = i]
            /\ Enter(s, "chmod")
       ELSE Return(s) /\ UNCHANGED job
  /\ UNCHANGED <<disk, child>>

chmod(s) ==
  /\ pc[s] = "chmod" /\ Return(s)
  /\ inode' = [i \in Inodes |-> IF i \in FileAt(job[s].path)
                                THEN [inode[i] EXCEPT !.mode = chmod_format(job[s].typed, job[s].seen)]
                                ELSE inode[i]]
  /\ job' = [job EXCEPT ![s] = NoJob]
  /\ UNCHANGED <<fs, cwd, intruded, spoiled, child, given>>

-----------------------------------------------------------------------------
(* cp.                                                                     *)

Open(i)  == \E s \in Shells : i \in {job[s].from, job[s].to}
Unused   == {i \in Inodes : ~Open(i) /\ \A p \in Path : fs[p] # File(i)}

(* A file that s writes is spoiled for the others that have it open.       *)
Spoil(s, i) ==
  spoiled' = [u \in Shells |-> spoiled[u] \/ (u # s /\ i \in {job[u].from, job[u].to})]

(* fopen(source, "rb") opens a directory, too.                             *)
cmd_cp(s, o, n) ==
  /\ GivenHere(s) /\ Allowed(s, o) /\ Allowed(s, n)
  /\ LET p == Real(fs, Absolute(s, o))
     IN  \E i \in (IF At(fs, p) = Dir THEN {NoFile} ELSE FileAt(p)) :
           /\ job' = [job EXCEPT ![s].path = Absolute(s, n), ![s].from = i,
                                ![s].was = IF i = NoFile THEN Empty ELSE inode[i].data]
           /\ Enter(s, "open")
  /\ spoiled' = [spoiled EXCEPT ![s] = FALSE]
  /\ UNCHANGED <<fs, inode, cwd, intruded, child>>

Emptied(i) == inode' = [inode EXCEPT ![i].data = Empty]

(* Slip of fopen_target: what the file held is kept.                       *)
fopen_target_kept(s) ==
  /\ pc[s] = "open"
  /\ \E i \in FileAt(job[s].path) :
       job' = [job EXCEPT ![s].to = i] /\ Enter(s, "copy") /\ Spoil(s, i)
  /\ UNCHANGED <<fs, inode, cwd, intruded, child, given>>

(* fopen(target, "wb") empties the file, or makes one, also where a link   *)
(* leads to nothing. It may fail.                                          *)
fopen_target(s) ==
  /\ pc[s] = "open"
  /\ \/ \E i \in FileAt(job[s].path) :
          /\ Emptied(i) /\ Spoil(s, i)
          /\ job' = [job EXCEPT ![s].to = i] /\ Enter(s, "copy")
          /\ UNCHANGED <<fs, intruded>>
     \/ \E p \in {Real(fs, job[s].path)} \cap Path, i \in Unused :
          /\ Fresh(fs, p) /\ Change(s, [fs EXCEPT ![p] = File(i)])
          /\ Emptied(i) /\ Spoil(s, i)
          /\ job' = [job EXCEPT ![s].to = i] /\ Enter(s, "copy")
     \/ /\ job' = [job EXCEPT ![s] = NoJob] /\ Return(s)
        /\ UNCHANGED <<fs, inode, intruded, spoiled>>
  /\ UNCHANGED <<cwd, child, given>>

(* Slip of copy_file: the loop goes on until feof, which a directory never *)
(* reaches.                                                                *)
copy_file_until_eof(s) ==
  /\ pc[s] = "copy" /\ job[s].from # NoFile /\ Return(s)
  /\ LET read == inode[job[s].from].data
     IN  inode' = [inode EXCEPT ![job[s].to].data = IF read = Empty THEN @ ELSE read]
  /\ job' = [job EXCEPT ![s] = NoJob]
  /\ Spoil(s, job[s].to)
  /\ UNCHANGED <<fs, cwd, intruded, child, given>>

(* The loop of fread and fwrite, and the two fclose. Nobody asks whether   *)
(* they failed: with a full disk a part of what was read arrives, or       *)
(* nothing, and the command returns as ever.                               *)
copy_file(s) ==
  /\ pc[s] = "copy" /\ Return(s)
  /\ LET i == job[s].to
         read == IF job[s].from = NoFile THEN Empty ELSE inode[job[s].from].data
     IN  \/ /\ inode' = [inode EXCEPT ![i].data = IF read = Empty THEN @ ELSE read]
            /\ Spoil(s, i)
         \/ /\ read # Empty
            /\ \E part \in {inode[i].data, Torn} : inode' = [inode EXCEPT ![i].data = part]
            /\ spoiled' = [u \in Shells |-> spoiled[u] \/ i \in {job[u].from, job[u].to}]
  /\ job' = [job EXCEPT ![s] = NoJob]
  /\ UNCHANGED <<fs, cwd, intruded, child, given>>

-----------------------------------------------------------------------------
(* ls -l.                                                                  *)

cmd_ls(s, todo) ==
  /\ GivenHere(s) /\ Enter(s, "ls")
  /\ job' = [job EXCEPT ![s].todo = todo]
  /\ UNCHANGED <<disk, child>>

Contents(p) ==
  UNION {{[name |-> n, link |-> fs[Append(d, n)].kind = "link"] : n \in Children(fs, d)} :
           d \in {Real(fs, p)} \cap Path}

(* opendir and readdir, which takes the entries of a directory at once,    *)
(* with their kinds.                                                       *)
run_li(s) ==
  /\ pc[s] = "ls" /\ job[s].left = {}
  /\ \/ /\ job[s].todo = << >>
        /\ Return(s) /\ job' = [job EXCEPT ![s] = NoJob] /\ UNCHANGED intruded
     \/ /\ job[s].todo # << >> /\ cwd[s] = Gone
        /\ Fail(s) /\ UNCHANGED <<job, intruded>>
     \/ /\ job[s].todo # << >> /\ cwd[s] # Gone
        /\ \E p \in {Absolute(s, Head(job[s].todo))} :
             job' = [job EXCEPT ![s].todo = Tail(@), ![s].path = p,
                                ![s].left = IF is_valid_path(p) THEN Contents(p) ELSE {}]
        /\ intruded' = [intruded EXCEPT ![s] = FALSE]
        /\ UNCHANGED pc
  /\ UNCHANGED <<fs, inode, cwd, spoiled, child, given>>

Place(s, e) == Entry(fs, Append(job[s].path, e.name))

(* lstat; an entry that is gone is left out.                               *)
lstat(s, e) ==
  /\ pc[s] = "ls" /\ e \in job[s].left
  /\ LET link == e.link /\ At(fs, Place(s, e)) # Nothing
     IN  /\ job' = [job EXCEPT ![s].left = @ \ {e}, ![s].here = IF link THEN e ELSE @]
         /\ pc' = IF link THEN [pc EXCEPT ![s] = "readlink"] ELSE pc
  /\ UNCHANGED <<disk, child, given>>

(* Slip of read_symbolic: the link is followed.                            *)
read_symbolic_target(s) ==
  /\ pc[s] = "readlink"
  /\ IF At(fs, Real(fs, Append(job[s].path, job[s].here.name))) # Nothing
     THEN Enter(s, "ls") ELSE Fail(s)
  /\ Keep

(* What is no link any more ends the shell, by exit(1).                    *)
read_symbolic(s) ==
  /\ pc[s] = "readlink"
  /\ IF At(fs, Place(s, job[s].here)).kind = "link" THEN Enter(s, "ls") ELSE Fail(s)
  /\ Keep

-----------------------------------------------------------------------------
(* Programs and signals.                                                   *)

(* Slip of cmd_run: nobody waits.                                          *)
cmd_run_apart(s, o) ==
  /\ GivenHere(s) /\ Allowed(s, o) /\ Return(s)
  /\ \/ child' = [child EXCEPT ![s] = "running"] /\ FileAt(Absolute(s, o)) # {}
     \/ child' = [child EXCEPT ![s] = "ended"]
  /\ UNCHANGED <<disk, job>>

(* fork, and execve in the child, which ends at once if that fails. The    *)
(* system may refuse the fork: the shell itself ends then, by exit(1).     *)
cmd_run(s, o) ==
  /\ GivenHere(s) /\ Allowed(s, o)
  /\ \/ /\ Enter(s, "wait") /\ FileAt(Absolute(s, o)) # {}
        /\ child' = [child EXCEPT ![s] = "running"]
     \/ Enter(s, "wait") /\ child' = [child EXCEPT ![s] = "ended"]
     \/ Fail(s) /\ child' = [child EXCEPT ![s] = "refused"]
  /\ UNCHANGED <<disk, job>>

(* The program ends, by itself or by a signal that someone sends it.       *)
ChildEnds(s) ==
  /\ child[s] = "running" /\ child' = [child EXCEPT ![s] = "ended"]
  /\ UNCHANGED <<disk, pc, job, given>>

(* waitid.                                                                 *)
waitid(s) ==
  /\ pc[s] = "wait" /\ child[s] = "ended" /\ Return(s)
  /\ child' = [child EXCEPT ![s] = "none"]
  /\ UNCHANGED <<disk, job, given>>

(* kill ends another shell, wherever it is: all ignore nothing but SIGINT. *)
cmd_kill(s, u) ==
  /\ Given(s) /\ u # s /\ pc[u] \notin {"off", "ended", "failed"}
  /\ pc' = [pc EXCEPT ![s] = "top", ![u] = "ended"]
  /\ job' = [job EXCEPT ![u] = NoJob]
  /\ UNCHANGED <<disk, child>>

-----------------------------------------------------------------------------
OnePath(s, o) ==
  cmd_cd(s, o) \/ cmd_mkdir(s, o) \/ cmd_rmdir(s, o) \/ cmd_rm(s, o)
  \/ cmd_ls(s, <<o>>) \/ cmd_ls(s, <<o, o>>) \/ cmd_run(s, o)
  \/ \E f \in Formats : cmd_chmod(s, f, o)

TwoPaths(s, o, n) ==
  cmd_rename(s, o, n) \/ cmd_cp(s, o, n)
  \/ \E symbolic \in BOOLEAN : cmd_ln(s, symbolic, o, n)

User(s) ==
  Start(s) \/ Quit(s) \/ Prints(s) \/ Lost(s) \/ cmd_cd_home(s)
  \/ \E o \in Operands : OnePath(s, o) \/ \E n \in Operands : TwoPaths(s, o, n)
  \/ \E u \in Shells : cmd_kill(s, u)

Running(s) ==
  StartAgain(s) \/ Prompt(s) \/ chmod(s) \/ fopen_target(s) \/ copy_file(s)
  \/ run_li(s) \/ (\E e \in job[s].left : lstat(s, e)) \/ read_symbolic(s) \/ waitid(s)

Next == \E s \in Shells : User(s) \/ Running(s) \/ ChildEnds(s)

Fairness == \A s \in Shells : WF_vars(Running(s))

Spec == Init /\ [][Next]_vars /\ Fairness

-----------------------------------------------------------------------------
(* Properties.                                                             *)

Over   == {"ended", "failed"}
Places == {"off", "starting", "top", "prompt", "chmod", "open", "copy", "ls",
           "readlink", "wait"} \cup Over

(* Every variable has its type, the tree is a tree, the kernel knows where *)
(* each shell is, whatever is renamed or removed, and a program runs only  *)
(* while the shell waits for it or has ended.                              *)
TypeOK ==
  /\ fs \in [Path -> Node] /\ IsTree(fs)
  /\ inode \in [Inodes -> [data : Inodes \cup {Empty, Torn}, mode : SUBSET Bits]]
  /\ pc \in [Shells -> Places]
  /\ child \in [Shells -> {"none", "running", "ended", "refused"}]
  /\ intruded \in [Shells -> BOOLEAN] /\ spoiled \in [Shells -> BOOLEAN]
  /\ DOMAIN cwd = Shells /\ DOMAIN job = Shells
  /\ \A s \in Shells :
       /\ cwd[s] = Gone \/ At(fs, cwd[s]) = Dir
       /\ pc[s] \notin {"wait"} \cup Over => child[s] = "none"
       /\ DOMAIN job[s] = DOMAIN NoJob
       /\ {job[s].from, job[s].to} \subseteq Inodes \cup {NoFile}
       /\ job[s].typed \in Octal \cup Letters /\ job[s].seen \subseteq Bits
  /\ given \in 0..MaxCommands

(* convert_to_absolute works on the text: it agrees with the kernel when   *)
(* every ".." comes after a directory that is there and that no link leads *)
(* to, and every "." after a directory. Then cat opens the file that it has*)
(* checked.                                                                *)
Straight(s, o) ==
  \A i \in DotsIn(o.words) :
    LET p == convert_to_absolute(cwd[s], [o EXCEPT !.words = SubSeq(@, 1, i - 1)])
    IN  IF o.words[i] = ".." THEN p # << >> /\ At(fs, p) = Dir
        ELSE At(fs, Real(fs, p)) = Dir

CatOpensWhatItChecked ==
  \A s \in Shells, o \in Operands :
    cwd[s] # Gone /\ ~o.absolute /\ Straight(s, o)
    => At(fs, Opened(s, o)) = At(fs, Checked(s, o))

(* cp copies the file that it has opened, whatever becomes of its name     *)
(* meanwhile, as long as the two files are two, nobody else writes one of  *)
(* them and none of its own writes fails: then the copy is short, and cp   *)
(* says nothing.                                                           *)
CopyIsWhole ==
  [][\A s \in Shells : LET j == job[s] IN
       pc[s] = "copy" /\ pc'[s] = "top" /\ ~spoiled'[s] /\ j.from # j.to
       => inode'[j.to].data = j.was]_vars

(* A chmod with letters sets or clears the bits that they name, for those  *)
(* that they name or for all, and leaves the others, if nobody changes the *)
(* mode or the name of the file between its stat and its chmod.            *)
ChmodChangesNamedBits ==
  [][\A s \in Shells : LET j == job[s]  f == j.typed IN
       pc[s] = "chmod" /\ pc'[s] = "top" /\ ~f.octal =>
         \A i \in FileAt(j.path) : i = j.from /\ inode[i].mode = j.seen =>
           \A b \in Bits :
             b \in inode'[i].mode <=>
               IF b[2] \in f.perm /\ (f.who = {} \/ b[1] \in f.who)
               THEN f.op = "+" ELSE b \in inode[i].mode]_vars

(* A shell ends without being asked to only when its working directory was *)
(* removed, when the system refuses it a process, or when another shell has*)
(* changed the tree: since its ls read the directory that it shows, or, if *)
(* it has just been started, before.                                       *)
FailureHasCause ==
  \A s \in Shells : pc[s] = "failed" => cwd[s] = Gone \/ child[s] = "refused" \/ intruded[s]

(* Below the names at the top that pass for the base directory.            *)
Inside(p) == p # << >> /\ p[1] \in Alike

ShellsInside ==
  \A s \in Shells :
    pc[s] \notin {"off", "starting"} \cup Over => cwd[s] = Gone \/ Inside(cwd[s])

(* What is_valid_path promises, which tests the text of a path. As long as *)
(* no link of the tree leads elsewhere and no file has a name elsewhere,   *)
(* too, a shell works below the names at the top that pass for the base    *)
(* directory, of which the base directory is only one: it is never in      *)
(* another directory, it makes, moves and removes no other names, and it   *)
(* writes no file with another name.                                       *)
StaysInside ==
  /\ []ShellsInside
  /\ [][\A p \in Path : fs'[p] # fs[p] => Inside(p)]_vars
  /\ [][\A i \in Inodes : inode'[i] # inode[i] =>
          \A p \in Path : fs[p] = File(i) => Inside(p)]_vars

(* The shell is restricted to BASE_PATH and cannot reach a directory above *)
(* it (README.md).                                                         *)
StaysInBase ==
  \A s \in Shells :
    pc[s] \notin {"off", "starting"} \cup Over => cwd[s] = Gone \/ IsPrefix(Base, cwd[s])

(* A shell that was given a command comes back for the next one, or ends,  *)
(* or waits for a program that goes on.                                    *)
PromptReturns ==
  \A s \in Shells :
    pc[s] \notin {"off", "prompt"} ~>
      (pc[s] \in {"prompt"} \cup Over \/ child[s] = "running")

(* main tests what getcwd returned for NULL before it frees it: a shell    *)
(* whose working directory was removed goes on, until it is told to quit.  *)
ShellGoesOn ==
  \A s \in Shells : pc[s] = "failed" /\ child[s] # "refused" => cwd[s] # Gone
=============================================================================
