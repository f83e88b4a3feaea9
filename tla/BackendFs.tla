------------------------------ MODULE BackendFs ------------------------------
(***************************************************************************)
(* What the back end of the GTK file manager does to a file tree when it   *)
(* carries out a command (dir_manage_gtk/backend.c): one system call or a  *)
(* few harmless ones at a time, while another process may add files.       *)
(*                                                                         *)
(* A file's content is abstracted to the path it had before the command,   *)
(* which says where the data came from. Links inside the tree are not      *)
(* modelled, nor the copy of a directory into itself, which runs into the  *)
(* limits of the stack and of PATH_MAX.                                    *)
(***************************************************************************)
EXTENDS CommandEffects

CONSTANTS
  Mounted,    (* top-level directories that are file systems of their own   *)
  Trees,      (* the trees a command may find                               *)
  MaxForeign, (* bound: files the other process adds                        *)
  MaxFaults   (* bound: calls that fail for want of room or of rights       *)

ASSUME MountedAssumption == Mounted \subseteq Names
ASSUME BoundsAssumption == MaxForeign \in Nat /\ MaxFaults \in Nat

Empty   == <<"empty">>    (* data of a file that was just opened for writing *)
Torn    == <<"torn">>     (* data of which the last part was never written   *)
Foreign == <<"foreign">>  (* data of the other process                       *)

VARIABLES
  fs,        (* the tree: what is at each path                              *)
  command,   (* the command the back end is carrying out                    *)
  status,    (* "idle", "running", "done"                                   *)
  calls,     (* its call stack, the innermost call first                    *)
  answer,    (* what it tells the front end: "none", "success", "failed"    *)
  before,    (* history: the tree when the command was received             *)
  foreign,   (* history: paths of the files the other process added         *)
  faults,    (* history: calls that failed for want of room or of rights    *)
  link       (* what is at the path of a favorite's link in /tmp/link       *)

vars == <<fs, command, status, calls, answer, before, foreign, faults, link>>

-----------------------------------------------------------------------------
(* The tree.                                                               *)

WellFormed(t) == IsTree(t) /\ \A m \in Mounted : t[<<m>>] = Dir

Data == Path \cup {Empty, Torn, Foreign}
Node == {Nothing, Dir} \cup {File(d) : d \in Data}

ASSUME TreesAssumption ==
  \A t \in Trees : t \in [Path -> Node] /\ WellFormed(t)

Device(p) == IF p # << >> /\ p[1] \in Mounted THEN {p[1]} ELSE {}

(* rename(2) succeeds: EXDEV does not apply either.                        *)
RenamesHere(t, src, dst) == Device(src) = Device(dst) /\ Renames(t, src, dst)

-----------------------------------------------------------------------------
(* Commands and calls.                                                     *)

(* The front end builds the destination of a move or a copy from a         *)
(* directory the user typed and the name of the selected entry, which may  *)
(* be gone by now, and that of a rename from the directory shown and a     *)
(* name the user typed. The source of "mkdir" is the directory shown.      *)
Entries  == Path \ {<< >>}
Commands ==
  [type : {"delete", "chmod", "link"}, src : Entries, dst : {<< >>}]
  \cup [type : {"mkdir"}, src : {p \in Path : Len(p) < Depth}, dst : {<< >>}]
  \cup {c \in [type : {"rename"}, src : Entries, dst : Entries] :
          Parent(c.src) = Parent(c.dst)}
  \cup {c \in [type : {"move", "copy"}, src : Entries, dst : Entries] :
          Last(c.src) = Last(c.dst) /\ ~IsStrictPrefix(c.src, c.dst)}

NoCommand == [type |-> "none", src |-> << >>, dst |-> << >>]

Call(fn, src, dst) ==
  [fn |-> fn, src |-> src, dst |-> dst, at |-> "stat",
   must |-> {}, seen |-> {}, data |-> Empty, known |-> {}, count |-> 0]

top        == Head(calls)
At(fn, at) == status = "running" /\ calls # << >> /\ top.fn \in fn /\ top.at = at

Go(at)     == calls' = <<[top EXCEPT !.at = at]>> \o Tail(calls)
Finish(a)  == status' = "done" /\ answer' = a /\ calls' = << >>

(* return 0: the caller goes on with its next entry.                       *)
Succeed ==
  IF Len(calls) = 1 THEN Finish("success")
  ELSE calls' = Tail(calls) /\ UNCHANGED <<status, answer>>

(* return -1: every caller returns -1 too. A delete that fails is not      *)
(* answered.                                                               *)
Fail == Finish(IF command.type = "delete" THEN "none" ELSE "failed")

Init ==
  /\ fs \in Trees
  /\ command = NoCommand /\ status = "idle"
  /\ calls = << >> /\ answer = "none"
  /\ before = fs /\ foreign = {} /\ faults = 0
  /\ link = Nothing

(* The branches of main(): a rename or a change of permissions is one      *)
(* system call; a move tries rename too; a move and a copy want the        *)
(* destination's directory to exist.                                       *)
ByRename(c) ==
  /\ c.type \in {"rename", "move"} /\ RenamesHere(fs, c.src, c.dst)
  /\ fs' = Renamed(fs, c.src, c.dst)
  /\ Finish("success")

Refused(c) ==
  /\ \/ c.type = "rename" /\ ~RenamesHere(fs, c.src, c.dst)
     \/ c.type \in {"move", "copy"} /\ fs[Parent(c.dst)] # Dir
  /\ Finish(IF c.type = "rename" THEN "none" ELSE "failed")
  /\ UNCHANGED fs

Chmod(c) ==
  /\ c.type = "chmod"
  /\ Finish(IF fs[c.src] = Nothing THEN "failed" ELSE "success")
  /\ UNCHANGED fs

ByCall(c) ==
  /\ \/ c.type = "delete" /\ calls' = <<Call("remove", c.src, c.src)>>
     \/ c.type \in {"mkdir", "link"} /\ calls' = <<Call(c.type, c.src, c.dst)>>
     \/ /\ \/ c.type = "copy"
           \/ c.type = "move" /\ ~RenamesHere(fs, c.src, c.dst)
        /\ fs[Parent(c.dst)] = Dir
        /\ calls' = <<Call(c.type, c.src, c.dst)>>
  /\ status' = "running"
  /\ UNCHANGED <<fs, answer>>

(* /tmp/link may be missing or no directory; under the name there may be a *)
(* favorite that was added before, or anything else.                       *)
LinkTo(p) == [kind |-> "link", to |-> p]
Absent    == [kind |-> "absent"]
Blocked   == [kind |-> "blocked"]
OldLink   == LinkTo(<< >>)
Shown(l)  == IF l.kind = "link" THEN l.to ELSE NoLink
Linked    == {Absent, Blocked, Nothing, Dir, File(<< >>), OldLink}

Receive ==
  \E c \in Commands :
    /\ status = "idle"
    /\ c.type # "mkdir" => \A m \in Mounted : c.src # <<m>> /\ c.dst # <<m>>
    /\ Fits(fs, c.src, c.dst)
    /\ command' = c
    /\ before' = fs
    /\ ByRename(c) \/ Refused(c) \/ Chmod(c) \/ ByCall(c)
    /\ link' \in IF c.type = "link" THEN Linked ELSE {Nothing}
    /\ UNCHANGED <<foreign, faults>>

-----------------------------------------------------------------------------
(* New directories and favorites.                                          *)

(* The first name is tried twice: count is still 0 after the first failure *)
(* when it becomes the digit.                                              *)
Tried == Append(top.src, Numbered[IF top.count = 0 THEN 1 ELSE top.count])

Tries(limit) ==
  /\ At({"mkdir"}, "stat")
  /\ \/ /\ Fresh(fs, Tried)
        /\ fs' = [fs EXCEPT ![Tried] = Dir]
        /\ Finish("success")
     \/ /\ fs[Tried] # Nothing
        /\ IF top.count = limit THEN Finish("none")
           ELSE /\ calls' = <<[top EXCEPT !.count = @ + 1]>>
                /\ UNCHANGED <<status, answer>>
        /\ UNCHANGED fs
     \/ /\ fs[top.src] # Dir
        /\ Finish("none") /\ UNCHANGED fs
  /\ UNCHANGED <<command, before, link, foreign, faults>>

(* Slip of MakeDirectory: one try for each name.                           *)
MakeDirectoryTenTimes == Tries(Len(Numbered) - 1)

(* while (count < 11) over ten names.                                      *)
MakeDirectory == Tries(Len(Numbered))

(* A call that fails for want of room or of rights.                        *)
Fault == faults < MaxFaults /\ faults' = faults + 1

(* stat and mkdir of /tmp/link, whose failure is ignored.                  *)
LinkDirectory ==
  /\ At({"link"}, "stat")
  /\ \/ link' = (IF link = Absent THEN Nothing ELSE link) /\ UNCHANGED faults
     \/ link = Absent /\ Fault /\ UNCHANGED link
  /\ Go("symlink")
  /\ UNCHANGED <<fs, command, status, answer, before, foreign>>

MakeLink == link = Nothing /\ link' = LinkTo(top.src) /\ Finish("success") /\ UNCHANGED faults

(* Slip of Symlink: a link that exists will do.                            *)
SymlinkExists ==
  /\ At({"link"}, "symlink")
  /\ \/ MakeLink
     \/ link \in {Absent, Blocked} /\ Finish("failed") /\ UNCHANGED <<link, faults>>
     \/ link \notin {Absent, Blocked, Nothing} /\ Finish("success") /\ UNCHANGED <<link, faults>>
     \/ Fault /\ Finish("failed") /\ UNCHANGED link
  /\ UNCHANGED <<fs, command, before, foreign>>

(* Only EEXIST is a reason to try again.                                   *)
Symlink ==
  /\ At({"link"}, "symlink")
  /\ \/ MakeLink
     \/ link \in {Absent, Blocked} /\ Finish("failed") /\ UNCHANGED <<link, faults>>
     \/ /\ link \notin {Absent, Blocked, Nothing}
        /\ Go("unlink") /\ UNCHANGED <<link, faults, status, answer>>
     \/ Fault /\ Finish("failed") /\ UNCHANGED link
  /\ UNCHANGED <<fs, command, before, foreign>>

(* unlink, whose failure, on a directory for one, is ignored.              *)
UnlinkOld ==
  /\ At({"link"}, "unlink")
  /\ \/ link' = (IF link = Dir THEN Dir ELSE Nothing) /\ UNCHANGED faults
     \/ Fault /\ UNCHANGED link
  /\ Go("again")
  /\ UNCHANGED <<fs, command, status, answer, before, foreign>>

(* The second symlink is the last, whatever its error.                     *)
SymlinkAgain ==
  /\ At({"link"}, "again")
  /\ \/ MakeLink
     \/ link # Nothing /\ Finish("failed") /\ UNCHANGED <<link, faults>>
     \/ Fault /\ Finish("failed") /\ UNCHANGED link
  /\ UNCHANGED <<fs, command, before, foreign>>

(* Another process takes the place of the link.                            *)
AddAtLink ==
  /\ status = "running" /\ command.type = "link" /\ link = Nothing
  /\ link' = File(Foreign)
  /\ UNCHANGED <<fs, command, status, calls, answer, before, foreign, faults>>

-----------------------------------------------------------------------------
(* move_directory and copy_file.                                           *)

(* stat; opendir for a directory; move_directory tries rename on a file.   *)
Stat ==
  /\ At({"move", "copy"}, "stat")
  /\ \/ /\ fs[top.src] = Nothing
        /\ Fail /\ UNCHANGED fs
     \/ /\ fs[top.src] = Dir
        /\ Go("mkdir") /\ UNCHANGED <<fs, status, answer>>
     \/ /\ fs[top.src].kind = "file"
        /\ IF top.fn = "move" /\ RenamesHere(fs, top.src, top.dst)
           THEN fs' = Renamed(fs, top.src, top.dst) /\ Succeed
           ELSE Go("open") /\ UNCHANGED <<fs, status, answer>>
  /\ UNCHANGED <<command, before, link, foreign, faults>>

(* mkdir, whose failure is ignored. readdir may or may not return entries  *)
(* that are added after it has started.                                    *)
Mkdir ==
  /\ At({"move", "copy"}, "mkdir")
  /\ fs' = IF Fresh(fs, top.dst) THEN [fs EXCEPT ![top.dst] = Dir] ELSE fs
  /\ calls' = <<[top EXCEPT !.at = "list", !.must = Children(fs', top.src)]>>
                \o Tail(calls)
  /\ UNCHANGED <<command, status, answer, before, link, foreign, faults>>

(* The specification uses none of the definitions marked as slips: they    *)
(* are mistakes in the definition that follows, which the properties       *)
(* reject. Slip of ListEntry: names are joined to the wrong directory.     *)
ListEntryBeside ==
  /\ At({"move", "copy"}, "list")
  /\ \E n \in Children(fs, top.src) \ top.seen :
       calls' = <<Call(top.fn, Append(top.src, n), Append(Parent(top.dst), n)),
                  [top EXCEPT !.seen = @ \cup {n}]>> \o Tail(calls)
  /\ UNCHANGED <<fs, command, status, answer, before, link, foreign, faults>>

ListEntry ==
  /\ At({"move", "copy"}, "list")
  /\ \E n \in Children(fs, top.src) \ top.seen :
       calls' = <<Call(top.fn, Append(top.src, n), Append(top.dst, n)),
                  [top EXCEPT !.seen = @ \cup {n}]>> \o Tail(calls)
  /\ UNCHANGED <<fs, command, status, answer, before, link, foreign, faults>>

(* Slip of ListEnd: the loop ends before all entries were returned.        *)
ListEndEarly ==
  /\ At({"move", "copy"}, "list")
  /\ IF top.fn = "copy" THEN Succeed
     ELSE /\ calls' = <<Call("remove", top.src, top.src)>> \o Tail(calls)
          /\ UNCHANGED <<status, answer>>
  /\ UNCHANGED <<fs, command, before, link, foreign, faults>>

(* move_directory then calls remove_file_or_directory on the source.       *)
ListEnd ==
  /\ At({"move", "copy"}, "list")
  /\ top.must \cap Children(fs, top.src) \subseteq top.seen
  /\ IF top.fn = "copy" THEN Succeed
     ELSE /\ calls' = <<Call("remove", top.src, top.src)>> \o Tail(calls)
          /\ UNCHANGED <<status, answer>>
  /\ UNCHANGED <<fs, command, before, link, foreign, faults>>

(* fopen(dest, "wb") truncates: if that is the source, nothing is left.    *)
Open ==
  /\ At({"move", "copy"}, "open")
  /\ \/ /\ fs[top.dst] = Dir \/ fs[Parent(top.dst)] # Dir
        /\ Fail /\ UNCHANGED fs
     \/ /\ fs[top.dst] # Dir /\ fs[Parent(top.dst)] = Dir
        /\ fs' = [fs EXCEPT ![top.dst] = File(Empty)]
        /\ calls' = <<[top EXCEPT !.at = "write", !.data = fs'[top.src].data]>>
                      \o Tail(calls)
        /\ UNCHANGED <<status, answer>>
  /\ UNCHANGED <<command, before, link, foreign, faults>>

(* The loop of fread and fwrite and the two fclose. When the disk is full, *)
(* fwrite notices it only if stdio has to flush its buffer meanwhile; what *)
(* fclose could not write is lost without a word.                          *)
Written(data) ==
  /\ fs' = [fs EXCEPT ![top.dst] = File(data)]
  /\ IF top.fn = "copy" THEN Succeed
     ELSE Go("unlink") /\ UNCHANGED <<status, answer>>

Write ==
  /\ At({"move", "copy"}, "write")
  /\ \/ Written(top.data) /\ UNCHANGED faults
     \/ /\ Fault /\ top.data # Empty
        /\ \/ Written(Torn)
           \/ fs' = [fs EXCEPT ![top.dst] = Nothing] /\ Fail
  /\ UNCHANGED <<command, before, link, foreign>>

Unlink ==
  /\ At({"move"}, "unlink")
  /\ fs' = [fs EXCEPT ![top.src] = Nothing]
  /\ Succeed
  /\ UNCHANGED <<command, before, link, foreign, faults>>

-----------------------------------------------------------------------------
(* remove_file_or_directory.                                               *)

(* Slip of RemovePath: a directory that is not empty is tried again.       *)
RemoveOnlyEmpty ==
  /\ At({"remove"}, "stat")
  /\ \/ /\ fs[top.src] = Nothing
        /\ Fail /\ UNCHANGED fs
     \/ /\ fs[top.src] # Nothing /\ Children(fs, top.src) = {}
        /\ fs' = [fs EXCEPT ![top.src] = Nothing]
        /\ Succeed
  /\ UNCHANGED <<command, before, link, foreign, faults>>

RemovePath ==
  /\ At({"remove"}, "stat")
  /\ \/ /\ fs[top.src] = Nothing
        /\ Fail /\ UNCHANGED fs
     \/ /\ fs[top.src] # Nothing /\ Children(fs, top.src) = {}
        /\ fs' = [fs EXCEPT ![top.src] = Nothing]
        /\ Succeed
     \/ /\ Children(fs, top.src) # {}
        /\ calls' = <<[top EXCEPT !.at = "nftw", !.known = foreign]>> \o Tail(calls)
        /\ UNCHANGED <<fs, status, answer>>
  /\ UNCHANGED <<command, before, link, foreign, faults>>

(* Slip of RemoveNext: nftw without FTW_DEPTH meets directories first.     *)
RemoveAnyOrder ==
  /\ At({"remove"}, "nftw")
  /\ \E p \in Under(top.src) :
       /\ fs[p] # Nothing
       /\ fs' = [fs EXCEPT ![p] = Nothing]
       /\ IF p = top.src THEN Succeed ELSE UNCHANGED <<calls, status, answer>>
  /\ UNCHANGED <<command, before, link, foreign, faults>>

(* nftw with FTW_DEPTH: remove() on everything below, contents first.      *)
RemoveNext ==
  /\ At({"remove"}, "nftw")
  /\ \E p \in Under(top.src) :
       /\ fs[p] # Nothing /\ Children(fs, p) = {}
       /\ fs' = [fs EXCEPT ![p] = Nothing]
       /\ IF p = top.src THEN Succeed ELSE UNCHANGED <<calls, status, answer>>
  /\ UNCHANGED <<command, before, link, foreign, faults>>

(* A directory of which only files are left that were added after the walk *)
(* had begun: nftw may have read its entries before.                       *)
Refilled(p) ==
  /\ Children(fs, p) # {}
  /\ {Append(p, n) : n \in Children(fs, p)} \subseteq foreign \ top.known

(* Slip of RemoveFails: remove_callback returns 0 whatever happened.       *)
RemoveGoesOn ==
  /\ At({"remove"}, "nftw")
  /\ \E p \in Under(top.src) : Refilled(p)
  /\ Succeed
  /\ UNCHANGED <<fs, command, before, link, foreign, faults>>

(* Such a directory is not empty when its turn comes: remove_callback ends *)
(* the walk.                                                               *)
RemoveFails ==
  /\ At({"remove"}, "nftw")
  /\ \E p \in Under(top.src) : Refilled(p)
  /\ Fail
  /\ UNCHANGED <<fs, command, before, link, foreign, faults>>

(* Another process adds a file. (symlink does not look at the tree.)       *)
AddForeign ==
  /\ status = "running" /\ command.type # "link"
  /\ Cardinality(foreign) < MaxForeign
  /\ \E p \in Path :
       /\ Fresh(fs, p)
       /\ fs' = [fs EXCEPT ![p] = File(Foreign)]
       /\ foreign' = foreign \cup {p}
       /\ Fits(fs', command.src, command.dst)
  /\ UNCHANGED <<command, status, calls, answer, before, link, faults>>

BackEnd ==
  MakeDirectory \/ LinkDirectory \/ Symlink \/ UnlinkOld \/ SymlinkAgain
  \/ Stat \/ Mkdir \/ ListEntry \/ ListEnd \/ Open \/ Write \/ Unlink
  \/ RemovePath \/ RemoveNext \/ RemoveFails

Next == Receive \/ BackEnd \/ AddForeign \/ AddAtLink

Spec     == Init /\ [][Next]_vars
FairSpec == Spec /\ WF_vars(BackEnd)

-----------------------------------------------------------------------------
(* Properties.                                                             *)

(* Every variable has its type, and the tree is a tree.                    *)
TypeOK ==
  /\ fs \in [Path -> Node] /\ WellFormed(fs)
  /\ command \in Commands \cup {NoCommand}
  /\ status \in {"idle", "running", "done"}
  /\ status = "running" <=> calls # << >>
  /\ answer \in {"none", "success", "failed"}
  /\ foreign \subseteq Path /\ faults \in 0..MaxFaults
  /\ link \in Linked \cup {File(Foreign)} \cup {LinkTo(p) : p \in Path}

Src == command.src
Dst == command.dst
Apart == ~IsPrefix(Src, Dst) /\ ~IsPrefix(Dst, Src)
Changed == {p \in Path : fs[p] # before[p]} \ foreign
Files   == {p \in Under(Src) : before[p] \notin {Nothing, Dir}}

(* While a command runs and however it ends it changes nothing but what it *)
(* names, adds nothing where it takes away, replaces no directory where it *)
(* puts something, and a rename happens at once or not at all: what the    *)
(* window relies on.                                                       *)
EffectAsPromised ==
  status # "idle" => Effect(command.type, Src, Dst, before, fs, foreign)

(* "New directory" gives up only when there is nothing it could create,    *)
(* and otherwise creates one directory where nothing was, whatever names   *)
(* are taken while it tries.                                               *)
NewDirectoryIsNew ==
  status = "done" /\ command.type = "mkdir" =>
    IF answer = "success"
    THEN \E p \in NewNames(Src) : Changed = {p} /\ before[p] = Nothing /\ fs[p] = Dir
    ELSE Changed = {} /\ ~\E p \in NewNames(Src) : Fresh(fs, p)

(* "Add to favorites" succeeds only when the link leads to the entry       *)
(* chosen, and is answered in any case. If it fails though no call was     *)
(* refused for want of room or of rights, then /tmp/link is no directory,  *)
(* or there is a directory under the name, or another process took the     *)
(* place of the link that was removed. A failure leaves no link but the    *)
(* old one, and that only if a call was refused.                           *)
LinkIsHonest ==
  status = "done" /\ command.type = "link" =>
    /\ answer = "failed" \/ (answer = "success" /\ link = LinkTo(Src))
    /\ Shown(link) \in Relinked(answer, Src, Shown(OldLink))
    /\ answer = "failed" /\ faults = 0 => link \in {Blocked, Dir, File(Foreign)}

(* Whoever is told that a delete succeeded finds nothing there, and who is *)
(* not told finds the rest of it.                                          *)
DeleteIsHonest ==
  status = "done" /\ command.type = "delete" =>
    /\ answer = "success" => fs[Src] = Nothing
    /\ before[Src] # Nothing /\ fs[Src] = Nothing => answer = "success"

(* A copy that succeeds has brought every file over, unless the disk was   *)
(* full.                                                                   *)
CopyIsComplete ==
  status = "done" /\ command.type = "copy" /\ answer = "success" /\ faults = 0 /\ Apart =>
    \A p \in Files : fs[Rebased(p, Src, Dst)] = before[p]

(* While a move or a rename is running and however it ends every file of   *)
(* the source is whole at its old or at its new place, unless the disk was *)
(* full.                                                                   *)
MoveKeepsFiles ==
  command.type \in {"move", "rename"} /\ faults = 0 /\ Apart =>
    \A p \in Files : \/ fs[p] = before[p]
                     \/ fs[Rebased(p, Src, Dst)] = before[p]

(* A move that succeeds leaves nothing behind, every file arrived, and a   *)
(* directory is one again, unless a file was in its place.                 *)
MoveIsComplete ==
  status = "done" /\ command.type = "move" /\ answer = "success" /\ faults = 0 /\ Apart =>
    /\ fs[Src] = Nothing
    /\ \A p \in Files : fs[Rebased(p, Src, Dst)] = before[p]
    /\ before[Src] = Dir /\ before[Dst] \in {Nothing, Dir} /\ Dst \notin foreign
       => fs[Dst] = Dir

(* The strengthening of TypeOK that is inductive: the call stack follows a  *)
(* path down from the source, every call but the innermost is in its       *)
(* readdir loop, and each puts what is at its source where that belongs    *)
(* below the destination, for which there is room.                         *)
CallRecord ==
  [fn : {"mkdir", "link", "move", "copy", "remove"}, src : Path, dst : Path,
   at : {"stat", "mkdir", "symlink", "list", "open", "write", "unlink", "again", "nftw"},
   must : SUBSET Names, seen : SUBSET Names, data : Data,
   known : SUBSET Path, count : Nat]

Transfer == {"move", "copy"}

SingleCall ==
  /\ Len(calls) = 1 /\ top.src = Src
  /\ top.fn = IF command.type = "delete" THEN "remove" ELSE command.type
  /\ command.type = "mkdir" => top.at = "stat" /\ top.count <= Len(Numbered)

Chain ==
  /\ calls[Len(calls)].src = Src
  /\ \A i \in DOMAIN calls :
       /\ calls[i].fn = command.type \/ (calls[i].fn = "remove" /\ command.type = "move")
       /\ calls[i].fn # "remove" => calls[i].dst = Rebased(calls[i].src, Src, Dst)
       /\ i > 1 => /\ calls[i].at = "list" /\ calls[i].fn = command.type
                   /\ \E n \in calls[i].seen : calls[i - 1].src = Append(calls[i].src, n)
       /\ \A j \in DOMAIN calls : i <= j => IsPrefix(calls[j].src, calls[i].src)

OpenFiles ==
  top.fn \in Transfer =>
    /\ top.at \in {"open", "write", "unlink"} => fs[top.src].kind = "file"
    /\ top.at = "write" => fs[top.dst].kind = "file"

Removable == Src # << >> /\ \A m \in Mounted : Src # <<m>>

StackSound ==
  /\ calls \in Seq(CallRecord)
  /\ status = "running" =>
       /\ command \in Commands /\ Fits(fs, Src, Dst)
       /\ command.type \notin Transfer => SingleCall
       /\ command.type \in Transfer => Chain /\ OpenFiles
       /\ command.type # "mkdir" => Removable

(* The strengthening of the properties of the single commands that is      *)
(* inductive: what has been done so far, by calls whose stack is sound.    *)
(* While "mkdir" looks for a name the earlier ones are taken; what a       *)
(* delete is about is there until it has succeeded; a move or a copy       *)
(* removes no file of the destination.                                     *)
Naming ==
  /\ \A p \in foreign : fs[p] # Nothing
  /\ \A p \in Path \ foreign : fs[p] = before[p]
  /\ \A k \in DOMAIN Numbered : k < top.count \/ (k = 1 /\ top.count > 0) =>
       fs[Append(Src, Numbered[k])] # Nothing

Linking ==
  /\ link \in Linked \cup {File(Foreign)}
  /\ top.at = "symlink" /\ faults = 0 => link # Absent
  /\ top.at = "unlink" => link \notin {Absent, Blocked}
  /\ top.at = "again" => IF faults = 0 THEN link \in {Nothing, Dir, File(Foreign)}
                         ELSE link \notin {Absent, Blocked}

Deleting ==
  /\ top.at = "stat" => before[Src] = Nothing \/ fs[Src] # Nothing
  /\ top.at = "nftw" => fs[Src] # Nothing

FilesStay ==
  \A p \in Path \ foreign :
    (command.type = "copy" \/ ~IsPrefix(Src, p)) /\ before[p].kind = "file"
    => fs[p].kind = "file"

(* A file of the source is untouched until a call reaches it, and has      *)
(* arrived when the call is over. Every entry a directory had is listed,   *)
(* and one that is removed had everything below it brought over.           *)
Arrived(p) == fs[Rebased(p, Src, Dst)] = before[p]

Reached(i, p) ==
  LET c == calls[i]
      n == p[Len(c.src) + 1]
  IN  IF c.fn = "remove" \/ c.at = "unlink" THEN Arrived(p)
      ELSE IF c.at = "list" THEN
        /\ p # c.src
        /\ IF n \in c.seen THEN Arrived(p) \/ (i > 1 /\ IsPrefix(calls[i - 1].src, p))
           ELSE n \in c.must /\ fs[p] = before[p]
      ELSE /\ fs[p] = before[p] /\ c.seen = {}
           /\ c.at = "mkdir" => p # c.src
           /\ c.at = "write" => p = c.src /\ before[p] = File(c.data)

Transferring ==
  /\ \A p \in Files : fs[p] = before[p] \/ Arrived(p)
  /\ \A i \in DOMAIN calls : \A p \in Files :
       IsPrefix(calls[i].src, p) => Reached(i, p)

(* The directory that a directory is moved to.                             *)
DirOverDir == before[Src] = Dir /\ before[Dst] \in {Nothing, Dir} /\ Dst \notin foreign

DirMoved ==
  LET c == calls[Len(calls)]
  IN  IF c.fn = "move" /\ c.at \in {"stat", "mkdir"}
      THEN fs[Src] = Dir /\ fs[Parent(Dst)] = Dir /\ fs[Dst] = before[Dst]
      ELSE fs[Dst] = Dir /\ (c.at = "list" \/ c.fn = "remove")

Underway ==
  /\ StackSound
  /\ status = "running" =>
       /\ command.type = "mkdir" => Naming
       /\ command.type = "link" => Linking
       /\ command.type = "delete" => Deleting
       /\ command.type \in Transfer =>
            /\ FilesStay
            /\ faults = 0 /\ Apart => Transferring
            /\ command.type = "move" /\ Apart /\ DirOverDir => DirMoved

(* Every command comes to an end.                                          *)
CommandEnds == status = "running" ~> status = "done"

(* "When rename fails, copy and delete": the source of a move is deleted   *)
(* only after its data has arrived, even when the disk is full.            *)
MoveSurvivesFullDisk ==
  command.type = "move" /\ Apart =>
    \A p \in Files : \/ fs[p] = before[p]
                     \/ fs[Rebased(p, Src, Dst)] = before[p]
=============================================================================
