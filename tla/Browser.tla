------------------------------- MODULE Browser -------------------------------
(***************************************************************************)
(* The window of the GTK file manager (dir_manage_gtk): the path entry,    *)
(* the list of a directory, the selection, the popup menu and its dialogs, *)
(* the favorites, and the timers that refresh them after an answer.        *)
(*                                                                         *)
(* The back end carries out one command per step, with any effect that     *)
(* CommandEffects allows; BackendFs shows that it has no other. The two    *)
(* queues are those of FileManager, without their limits.                  *)
(***************************************************************************)
EXTENDS MessageText, CommandEffects

CONSTANTS
  Trees,        (* the trees that may come about                            *)
  Start,        (* the directory the window opens in: /tmp/test             *)
  Cwd,          (* the working directory of both processes                  *)
  TypedTexts,   (* what the user types into the path entry and the dialogs  *)
  TypedNames,   (* the new names the user types                             *)
  NewFolder,    (* the name that on_new_directory_action proposes           *)
  MaxCommands,  (* bound: commands the user gives                           *)
  MaxRefresh    (* bound: refreshes under way when a favorite is clicked    *)

Blank  == <<"">>               (* an entry without text                     *)
NoDir  == <<"no directory">>   (* a list model whose file is NULL           *)
NoFile == <<"no file">>        (* no selected row, no selected_file_info    *)
Text   == Seq(Names) \cup {Blank}

AFile  == File(<< >>)

ASSUME TreesAssumption ==
  \A t \in Trees : /\ DOMAIN t = Path /\ IsTree(t)
                   /\ Fresh(t, Start) => [t EXCEPT ![Start] = Dir] \in Trees
ASSUME PlacesAssumption ==
  /\ Start \in Path /\ Cwd \in Path /\ TypedTexts \subseteq Text
  /\ {NewFolder} \cup TypedNames \subseteq Names
  /\ MaxCommands \in Nat

VARIABLES
  fs,           (* the tree                                                 *)
  links,        (* /tmp/link: the target of the link of each name           *)
  entry,        (* text of path_entry                                       *)
  listed,       (* file of directorylist                                    *)
  marked,       (* the row that GTK shows as selected                       *)
  chosen,       (* selected_file_info; the code only uses the last name     *)
  dialog,       (* the open dialog                                          *)
  timers,       (* pending timeouts of each callback                        *)
  favorites,    (* what the favorites list shows, as links                  *)
  typed,        (* directorylist asks for standard::type                    *)
  checking,     (* is_check_running                                         *)
  requests,     (* command queue                                            *)
  answers,      (* response queue                                           *)
  given         (* history: commands given                                  *)

tree    == <<fs, links>>
view    == <<entry, listed, marked, chosen>>
refresh == <<timers, favorites, typed>>
queues  == <<requests, answers, given>>
vars    == <<tree, view, dialog, refresh, checking, queues>>

NoDialog == [type |-> "none", about |-> NoFile]
IsDir(text)   == text \in Path /\ fs[text] = Dir
Full(text, n) == IF text = Blank THEN Append(Cwd, n) ELSE Append(text, n)
Target        == Full(entry, Last(chosen))

(* GtkDirectoryList follows the directory it is given.                     *)
Rows == IF IsDir(listed) THEN {Append(listed, n) : n \in Children(fs, listed)}
        ELSE {}

(* gtk_directory_list_set_file: the same file again has no effect; another *)
(* one empties the list, and with it the row shown as selected.            *)
ShowDir(file) ==
  /\ listed' = file
  /\ marked' = IF file = listed THEN marked ELSE NoFile

Init ==
  /\ \E t \in Trees :
       /\ fs = IF Fresh(t, Start) THEN [t EXCEPT ![Start] = Dir] ELSE t
       /\ entry = IF fs[Start] = Nothing THEN Cwd ELSE Start
  /\ links \in [Names -> {NoLink}]
  /\ listed = entry /\ marked = NoFile /\ chosen = NoFile
  /\ dialog = NoDialog
  /\ timers = [update |-> 0, update_ui |-> 0, favorites |-> 0]
  /\ favorites = links /\ typed = FALSE
  /\ checking = FALSE
  /\ requests = << >> /\ answers = << >> /\ given = 0

-----------------------------------------------------------------------------
(* Moving around. A modal dialog keeps the user from the window.           *)

Idle == dialog = NoDialog

Type(text) ==
  /\ Idle /\ entry' = text
  /\ UNCHANGED <<tree, listed, marked, chosen, dialog, refresh, checking, queues>>

update_directory ==
  /\ Idle /\ IsDir(entry)
  /\ ShowDir(entry)
  /\ UNCHANGED <<tree, entry, chosen, dialog, refresh, checking, queues>>

(* Slip of upper_directory: the entry is forgotten.                        *)
upper_list_only ==
  /\ Idle /\ entry \notin {Blank, << >>}
  /\ ShowDir(Parent(entry))
  /\ UNCHANGED <<tree, entry, chosen, dialog, refresh, checking, queues>>

upper_directory ==
  /\ Idle /\ entry \notin {Blank, << >>}
  /\ ShowDir(Parent(entry))
  /\ entry' = Parent(entry)
  /\ UNCHANGED <<tree, chosen, dialog, refresh, checking, queues>>

(* A directory is opened below the text of the entry, whatever is listed,  *)
(* once the list knows of types: column.ui does not ask for them.          *)
(* Below an empty text there is no file to list and no path to show.       *)
on_columnview_activate(row) ==
  /\ Idle /\ row \in Rows /\ fs[row] = Dir /\ typed
  /\ IF entry = Blank
     THEN ShowDir(Blank) /\ UNCHANGED entry
     ELSE entry' = Append(entry, Last(row)) /\ ShowDir(entry')
  /\ UNCHANGED <<tree, chosen, dialog, refresh, checking, queues>>

(* The user selects a row that is not shown as selected yet.               *)
on_selection_changed(row) ==
  /\ Idle /\ row \in Rows \ {marked}
  /\ marked' = row /\ chosen' = row
  /\ UNCHANGED <<tree, entry, listed, dialog, refresh, checking, queues>>

(* GtkSingleSelection selects a row by itself when the selected one is     *)
(* gone, without a selection-changed signal.                               *)
Autoselect ==
  /\ marked \notin Rows
  /\ marked' \in IF Rows = {} THEN {NoFile} ELSE Rows
  /\ UNCHANGED <<tree, entry, listed, chosen, dialog, refresh, checking, queues>>

-----------------------------------------------------------------------------
(* Commands. The fields "src" and "dst" of a message say what the handler  *)
(* meant, "from" and "to" what the back end takes from the text.           *)

OnePath == {"delete", "mkdir"}

Message(type, src, dst, srcText, dstText) ==
  LET text == Cut(IF type \in OnePath THEN srcText ELSE Pair(srcText, dstText))
  IN  [type |-> type, src |-> src, dst |-> dst,
       from |-> Reading(IF type \in OnePath THEN text ELSE Field1(text), srcText, src),
       to   |-> IF type \in OnePath THEN dst ELSE Reading(Field2(text), dstText, dst)]

(* send_message and send_favorite_message.                                 *)
Send(type, src, dst, dstText) ==
  /\ requests' = Append(requests, Message(type, src, dst, PathText(src), dstText))
  /\ given' = given + 1
  /\ UNCHANGED answers

SendPath(type, src)      == Send(type, src, NoPath, << >>)
SendPair(type, src, dst) == Send(type, src, dst, PathText(dst))

start_backend_check == checking' = TRUE

on_new_directory_action ==
  /\ Idle /\ given < MaxCommands
  /\ SendPath("mkdir", Full(entry, NewFolder))
  /\ start_backend_check
  /\ UNCHANGED <<tree, view, dialog, refresh>>

(* The menu offers what is about a file when there is a selected_file_info.*)
FileMenu == Idle /\ chosen # NoFile /\ given < MaxCommands

on_add_to_favorites_action ==
  /\ FileMenu
  /\ SendPair("link", Target, <<Last(chosen)>>)
  /\ start_backend_check
  /\ UNCHANGED <<tree, view, dialog, refresh>>

(* Slip of OpenDialog: nothing need be selected.                           *)
OpenDialogUnselected(type) ==
  /\ Idle /\ given < MaxCommands
  /\ dialog' = [type |-> type, about |-> Target]
  /\ UNCHANGED <<tree, view, refresh, checking, queues>>

OpenDialog(type) ==
  /\ FileMenu
  /\ dialog' = [type |-> type, about |-> Target]
  /\ UNCHANGED <<tree, view, refresh, checking, queues>>

on_rename_action == OpenDialog("rename")
on_delete_action == OpenDialog("delete")
on_move_action   == OpenDialog("move")
on_copy_action   == OpenDialog("copy")
on_chmod_action  == Target \in Path /\ fs[Target] # Nothing /\ OpenDialog("chmod")

Close == dialog' = NoDialog

(* The user cancels. Only a delete that is cancelled starts no polling.    *)
Cancel ==
  /\ ~Idle /\ Close
  /\ IF dialog.type = "delete" THEN UNCHANGED checking ELSE start_backend_check
  /\ UNCHANGED <<tree, view, refresh, queues>>

(* Confirmed without a name, a directory or a valid mode: an early return. *)
Rejected ==
  /\ dialog.type \in {"rename", "move", "copy", "chmod"}
  /\ Close
  /\ UNCHANGED <<tree, view, refresh, checking, queues>>

on_delete_response ==
  /\ dialog.type = "delete" /\ Close
  /\ SendPath("delete", Target)
  /\ UNCHANGED <<tree, view, refresh, checking>>

on_dialog_response(n) ==
  /\ dialog.type = "rename" /\ Close
  /\ IF entry = Blank THEN UNCHANGED <<queues, checking>>
     ELSE SendPair("rename", Target, Full(entry, n)) /\ start_backend_check
  /\ UNCHANGED <<tree, view, refresh>>

(* on_move_dialog_response and on_copy_dialog_response.                    *)
on_move_dialog_response(dest) ==
  /\ dialog.type \in {"move", "copy"} /\ dest # Blank /\ Close
  /\ SendPair(dialog.type, Target, Full(dest, Last(chosen)))
  /\ start_backend_check
  /\ UNCHANGED <<tree, view, refresh>>

(* strtol takes an empty text for zero: such a mode is sent, too.          *)
on_chmod_dialog_response(mode) ==
  /\ dialog.type = "chmod" /\ Close
  /\ Send("chmod", dialog.about, mode, mode)
  /\ start_backend_check
  /\ UNCHANGED <<tree, view, refresh>>

-----------------------------------------------------------------------------
(* The back end.                                                           *)

Links(m, answer) ==
  IF m.type = "link" /\ m.to \in {<<n>> : n \in Names}
  THEN LET n == m.to[1]
       IN  {[links EXCEPT ![n] = target] : target \in Relinked(answer, m.from, links[n])}
  ELSE {links}

(* The path of a new directory is that of the proposed name.               *)
Effects(m) ==
  LET src == IF m.type = "mkdir" THEN Parent(m.from) ELSE m.from
  IN  {t \in Trees : Effect(m.type, src, m.to, fs, t, {})}

(* Some commands that fail are answered and some are not.                  *)
Serve ==
  /\ requests # << >>
  /\ requests' = Tail(requests)
  /\ fs' \in Effects(Head(requests))
  /\ \E answer \in {"success", "failed", "none"} :
       /\ links' \in Links(Head(requests), answer)
       /\ answers' = IF answer = "none" THEN answers ELSE Append(answers, answer)
  /\ UNCHANGED <<view, dialog, refresh, checking, given>>

-----------------------------------------------------------------------------
(* Answers and timers, also while a dialog is open.                        *)

Fire(t, due) == [timers EXCEPT ![t] = @ - 1, ![due] = @ + 1]

(* Slip of read_backend_message: the favorites are forgotten.              *)
read_without_favorites ==
  /\ checking /\ answers # << >>
  /\ answers' = Tail(answers)
  /\ timers' = IF Head(answers) = "success"
               THEN [timers EXCEPT !.update = @ + 1] ELSE timers
  /\ UNCHANGED <<tree, view, dialog, favorites, typed, checking, requests, given>>

(* read_backend_message and on_backend_message_received.                   *)
read_backend_message ==
  /\ checking /\ answers # << >>
  /\ answers' = Tail(answers)
  /\ timers' = IF Head(answers) = "success"
               THEN [timers EXCEPT !.update = @ + 1, !.favorites = @ + 1]
               ELSE timers
  /\ UNCHANGED <<tree, view, dialog, favorites, typed, checking, requests, given>>

(* Slip of update: the second timer is not started.                        *)
update_once ==
  /\ timers.update > 0
  /\ timers' = [timers EXCEPT !.update = @ - 1]
  /\ IF IsDir(entry) THEN ShowDir(NoDir) ELSE UNCHANGED <<listed, marked>>
  /\ UNCHANGED <<tree, entry, chosen, dialog, favorites, typed, checking, queues>>

update ==
  /\ timers.update > 0
  /\ IF IsDir(entry)
     THEN ShowDir(NoDir) /\ timers' = Fire("update", "update_ui")
     ELSE /\ timers' = [timers EXCEPT !.update = @ - 1]
          /\ UNCHANGED <<listed, marked>>
  /\ UNCHANGED <<tree, entry, chosen, dialog, favorites, typed, checking, queues>>

(* Slip of update_ui: it forgets the selection of the list it replaces.    *)
update_ui_deselecting ==
  /\ timers.update_ui > 0
  /\ timers' = [timers EXCEPT !.update_ui = @ - 1]
  /\ ShowDir(entry) /\ typed' = TRUE
  /\ chosen' = NoFile
  /\ UNCHANGED <<tree, entry, dialog, favorites, checking, queues>>

update_ui ==
  /\ timers.update_ui > 0
  /\ timers' = [timers EXCEPT !.update_ui = @ - 1]
  /\ ShowDir(entry) /\ typed' = TRUE
  /\ UNCHANGED <<tree, entry, chosen, dialog, favorites, checking, queues>>

(* The callback returns nothing, though its timer goes on or stops by what *)
(* it returns.                                                             *)
update_favorites_list ==
  /\ timers.favorites > 0
  /\ timers' \in {timers, [timers EXCEPT !.favorites = @ - 1]}
  /\ favorites' = links
  /\ UNCHANGED <<tree, view, dialog, typed, checking, queues>>

(* A click on a favorite shows the directory of its target, by update.     *)
on_favorites_row_activated(n) ==
  /\ Idle /\ favorites[n] # NoLink /\ timers.update_ui <= MaxRefresh
  /\ entry' = Parent(favorites[n])
  /\ IF IsDir(entry')
     THEN /\ ShowDir(NoDir)
          /\ timers' = [timers EXCEPT !.update_ui = @ + 1]
     ELSE UNCHANGED <<listed, marked, timers>>
  /\ UNCHANGED <<tree, chosen, dialog, favorites, typed, checking, queues>>

-----------------------------------------------------------------------------
Modes == {<<"755">>, << >>}

Browse ==
  \/ \E text \in TypedTexts : Type(text)
  \/ update_directory
  \/ upper_directory
  \/ \E row \in Rows : on_columnview_activate(row) \/ on_selection_changed(row)
  \/ \E n \in Names : on_favorites_row_activated(n)

Command ==
  \/ on_new_directory_action
  \/ on_add_to_favorites_action
  \/ on_rename_action \/ on_delete_action \/ on_move_action \/ on_copy_action
  \/ on_chmod_action
  \/ Cancel
  \/ Rejected
  \/ on_delete_response
  \/ \E n \in TypedNames : on_dialog_response(n)
  \/ \E dest \in TypedTexts \cup {entry} : on_move_dialog_response(dest)
  \/ \E mode \in Modes : on_chmod_dialog_response(mode)

Timers == update \/ update_ui \/ update_favorites_list

Next == Browse \/ Command \/ Autoselect \/ Serve \/ read_backend_message \/ Timers

Fairness ==
  /\ WF_vars(Serve) /\ WF_vars(read_backend_message)
  /\ WF_vars(update) /\ WF_vars(update_ui) /\ WF_vars(update_favorites_list)

Spec == Init /\ [][Next]_vars /\ Fairness

-----------------------------------------------------------------------------
(* Properties.                                                             *)

DialogTypes == {"rename", "delete", "move", "copy", "chmod"}
Request ==
  [type : DialogTypes \cup {"mkdir", "link"}, src : Seq(Part), dst : Seq(Part),
   from : Seq(STRING), to : Seq(STRING)]

(* Every variable has its type. No "$" comes into the entry or into what   *)
(* the dialogs are about, although favorites lead to places whose paths    *)
(* were cut or taken apart at one; and a dialog is about something that    *)
(* has a name, and open only while its command may still be given.         *)
TypeOK ==
  /\ fs \in Trees
  /\ {links, favorites} \subseteq [Names -> Seq(Part)]
  /\ {entry, listed} \subseteq Seq(Part)
  /\ {marked, chosen} \subseteq (Path \ {<< >>}) \cup {NoFile}
  /\ \/ dialog = NoDialog
     \/ /\ dialog \in [type : DialogTypes, about : Seq(Part)]
        /\ Last(dialog.about) \in Names /\ given < MaxCommands
  /\ timers \in [{"update", "update_ui", "favorites"} -> Nat]
  /\ {typed, checking} \subseteq BOOLEAN
  /\ requests \in Seq(Request)
  /\ answers \in Seq({"success", "failed"}) /\ given \in 0..MaxCommands

(* A dialog that asks about a file (delete, the labels of move, copy and   *)
(* chmod) is still about that file when it is confirmed, although answers  *)
(* and timers replace the list and its selection meanwhile.                *)
DialogKeepsTarget ==
  ~Idle => chosen # NoFile /\ Target = dialog.about

(* However the user moves between update and update_ui, a list that is set *)
(* is that of the path in the entry: no refresh brings an old place back.  *)
ListSetToEntry ==
  [][listed' # listed /\ listed' # NoDir => listed' = entry']_vars

(* What the back end takes from a message is what the handler meant, when  *)
(* it fits into mtext and no name has a "$" in it.                         *)
Plain(p)   == \A i \in DOMAIN p : p[i] \in Names => Spell[p[i]] = <<p[i]>>
ReadAsMeant ==
  \A i \in DOMAIN requests :
    LET m == requests[i]
        s == Len(PathText(m.src))
        d == IF m.type \in OnePath THEN 0
             ELSE IF m.type = "chmod" THEN 1 + Len(m.dst) ELSE 1 + Len(PathText(m.dst))
    IN  Plain(m.src) /\ Plain(m.dst) /\ s + d <= TextMax
        => m.from = m.src /\ m.to = m.dst

(* update empties the list for a moment, and it is filled again.           *)
ClearedListReturns == listed = NoDir ~> listed # NoDir

(* A favorite that was set or replaced is shown in the end, unless a       *)
(* command that fails removes it: then the list goes on showing what it    *)
(* shows, until the next command that succeeds.                            *)
FavoritesCatchUp ==
  \A n \in Names :
    links[n] \notin {NoLink, favorites[n]} ~> links[n] \in {NoLink, favorites[n]}

(* on_selection_changed says that it stores the new selection, and the     *)
(* dialogs call it the selected file: a dialog is about the row shown as   *)
(* selected, if there is one.                                              *)
DialogIsAboutMarkedRow ==
  [][Idle /\ dialog' # NoDialog /\ marked # NoFile => dialog'.about = marked]_vars
=============================================================================
