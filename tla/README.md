# Verification of System-Programming-by-C

TLA+ specifications of the programs in this repository, TLC configurations
that check them on small instances, and TLAPS proofs. The repository holds a
GTK file manager made of two processes (`dir_manage_gtk/`), a small shell
(`custom_shell/`), a shared-memory exercise (`ipc_test/`), earlier versions of
the first two and toy programs (`practice/`). There are no tests; the only
documentation is `README.md` (Korean) and the comments in the code.

## 1. Inventory

### The file manager (`dir_manage_gtk/`)

| Part | State | Operations | Interaction |
|---|---|---|---|
| Front end `column`: start and stop (`main.c`, `ui_manage.c:209-237`) | process, application registration | `start_backend`, `app_startup`, `on_application_shutdown` | forks the back end; second launches activate the first instance, but only after they have forked too |
| Front end: sending (`communication.c:4`, `ui_link.c:3`) | none: the kernel's queue | `send_message`, `send_favorite_message` | blocking `msgsnd` on the thread of the GTK main loop |
| Front end: receiving (`communication.c:37-134`) | `is_check_running`, pending timers | `start_backend_check`, `read_backend_message`, `on_backend_message_received`, `update`, `update_ui`, `update_favorites_list` | GLib timers on the same thread; `msgrcv` with `IPC_NOWAIT` |
| Front end: browsing and dialogs (`ui_cd.c`, `ui_manage.c`, `ui_link.c`) | `path_entry`, `selected_file_info`, `entry`, the directory list, the favorites list | navigation, seven dialogs and menu actions | modal dialogs whose handlers read the path and the selection when they close |
| Command queue, response queue | System V queues under two key files | `msgget`, `msgsnd`, `msgrcv`, `IPC_RMID` | outlive the processes; 16384 bytes each by default, 64 messages of 256 bytes |
| Back end `a.out` (`backend.c`) | two queue identifiers taken once, one message | a loop of `msgrcv`, one file operation, `send_response` | blocking on both queues |
| File operations (`backend.c:20-223`, `289-438`) | the file system | delete, mkdir, rename, move, copy, chmod, symlink | other processes change the same tree |

Hard here: two blocking queues between two processes that are each other's
only reader; timers and blocking calls on one thread; queues that outlive
crashes; a shutdown that waits for a fixed time; any number of back ends after
repeated launches.

What makes each part correct: the queue protocol neither loses, repeats nor
reorders commands, the user interface stays alive, the effect of a successful
command becomes visible, shutting down ends both processes and removes both
queues, and one session does not see the messages of another. A file operation
changes only what the command names, loses no data when it fails half way, and
says truthfully whether it succeeded. A dialog acts on the file the user chose.

### The shell (`custom_shell/`)

A loop that reads a line, runs a built-in (`cd`, `mkdir`, `cp`, ...) or forks
and waits (`main.c`, `cmd_*.c`). Between two commands its only state is the
working directory, which the kernel keeps; within a command it is the paths and
the mode, the file or the directory entries it has read so far. `path_utils.c`
turns operands into absolute paths and keeps them below `/tmp/test`. Shells
share the tree with other shells and with the file manager.

Hard here: path conversion works on text, the kernel on the tree; each command
checks a path first and uses it later; the working directory can be moved or
removed by others; `ls -l` and `cp` make many system calls.

Correct when path resolution agrees with the kernel's, when each command uses
the path it checked, when `cp` and `chmod` do what they say beside other shells,
and when the loop always comes back.

### The shared-memory exercises (`ipc_test/`)

Four programs of one exchange each, over shared memory, a signal or a queue, and
timed with `sleep`. Correct when no signal is lost and neither side reads its own
message.

### Not modelled

- `ui_list.c` and the rest of `column.ui`: how a row looks. They keep no state.
- `cmd_ps.c`, `cmd_help.c`: they print and change nothing.
- Splitting a line of the shell into words (`main.c:144-159`), and a line longer
  than its buffer: they depend on nothing but the line.
- `ipc_test/`: one exchange, then both programs end. What order there is comes from
  the user, who starts the listener first, and from `sleep`: a signal that comes
  before `sigsuspend` ends or strands the listener, and a listener that is late
  lets the client read its own text. A model without time could only say so.
- `dir_manage_ver1/`, `dir_manage_ver2/`: despite their names, two earlier
  single-file versions of the shell. `custom_shell/previous_code/` is a third
  one, and `#if 0` disables it after line 133. No build file of the current
  programs mentions them; `custom_shell` is what they became.
- `practice/`: toy programs without state.
- Inside the modelled parts: permissions and special files, links inside the tree
  of the file manager, modes of directories in the shell, and a directory copied or
  moved into itself, which recurses until the stack or `PATH_MAX` stops it.

`PROJECT.json` lists every component, and every hazard with the line where it
bites and the properties that cover it.

## 2. Plan

In order of importance:

1. `FileManager` (done): the two processes, the two queues, launch, shutdown and
   crashes, with `CommandService` as its abstract specification. All its safety
   properties and the refinement are proved (`FileManagerProofs`,
   `FileManagerSessionProofs`, `FileManagerServiceProofs`).
2. `BackendFs` (done): all seven commands of the back end on a file tree, one
   system call per step, beside another process. All its safety properties are
   proved (`BackendFsProofs`, `BackendFsEffectProofs`).
3. `MessageText`, `Browser` (done): selection, path entry, dialogs, favorites,
   refresh timers and the texts of the commands. All their safety properties are
   proved (`BrowserProofs`).
4. `Shell` (done): path conversion and all commands that change something, with
   several shells in one tree. All its safety properties are proved (`ShellProofs`).

What is left needs more than this plan has: time (`ipc_test/`), the text of a command
line, and permissions.

How the modules are put together:

```
FileTree --- MessageText --------- Browser ----- MCBrowser
   |                                |  `-------- BrowserProofs
   |-------- CommandEffects --------|
   |                                `- BackendFs --- MCBackendFs
   |                                      `--------- BackendFsProofs --- BackendFsEffectProofs
   |-------- Shell ---------------------------------- MCShell
   |           `------------------------------------- ShellProofs
   `-------- FileTreeProofs (used by the proofs about Browser, BackendFs and Shell)

CommandService <--(refinement)-- FileManager --- MCFileManager
                                     `---------- FileManagerProofs
                                                      `- FileManagerSessionProofs
                                                              `- FileManagerServiceProofs
```

`FileManager`, `BackendFs` and `Browser` are three views of one program. What one
knows in detail another takes as an outcome: `FileManager` has the queues with
their limits, crashes and several back ends, and knows of a command only whether
it is answered with success; `BackendFs` has what happens between receiving a
command and answering it; `Browser` has what the user sees and means, with queues
that are never full and a back end that carries out a command in one step. What it
may do to the tree in that step is `Effect` of `CommandEffects`, and `fs_commands` checks
that the system calls of `BackendFs` never do anything else.

## 3. What is modelled now

### `FileManager.tla`

One variable per piece of state: `ui` is what the only thread of the front end
is doing (`idle` in the main loop, `sending` and `quitting` blocked in `msgsnd`,
`sleeping` in `usleep`, `removing` between the two removals, `off`), `outgoing`
the message it is blocked on, `is_check_running` the static flag of
`start_backend_check`, `refreshes` the timers a "success" started. Each queue is
`[id, exists, msgs]`: removing it advances `id`, so that an identifier taken
earlier no longer matches, as in the kernel. A back end has a place `pc`, the
identifiers it took when it started (`msgid`, `response_msgid`) and the command
or the answer in its hands (`buf`, `response`). `issued`, `done`, `answered`,
`base`, `shown` and `faults` are history: no action reads them but to respect a
bound.

| Action | Code |
|---|---|
| `Launch`, `LaunchAgain` | `main()`: `start_backend()` runs before the application registers, so a second launch leaves a back end behind and ends |
| `AttachCommand`, `AttachResponse` | `backend.c` up to the loop; another process may act between the two `msgget` |
| `Request` | a confirmed dialog, "new directory" or "add to favorites": `send_message`, `send_favorite_message`, with `start_backend_check` except after a delete; blocks when the queue is full |
| `RequestResumes`, `QuitResumes` | the blocked `msgsnd` returns |
| `RequestFails` | `ftok`, `msgget` or `msgsnd` fails at once; after the first two most callers free the text a second time, which ends the process or goes unnoticed |
| `CancelDialog` | a dialog that is closed without confirming starts the poll timer |
| `Poll` | `read_backend_message`, one message at most per second |
| `Refresh` | `update`, `update_ui`, `update_favorites_list`; the last is a void function used as a `GSourceFunc`, so the model lets its timer fire again or not |
| `Quit`, `RemoveCommandQueue`, `RemoveResponseQueue` | `on_application_shutdown` in the order of its calls |
| `Receive`, `Work`, `SendResponse` | the back end's loop |
| `FrontEndDies`, `BackEndDies` | crashes, `exit(1)` on failing calls, a failed `exec` |

Abstractions. The text of a message is a number, given in the order of
confirmation. What a command does to the files is its outcome: `success`,
`failed` (types 5 to 8 only) or no answer at all. A quit message of five bytes
takes a slot of its own, as do all others. A back end whose queue was removed
spins in `msgrcv`, which changes nothing: it is a `waiting` back end whose
`msgid` is no longer valid. The kernel hands a message at once to a process
that already sleeps in `msgrcv`; the model allows any delay, as for a process
that is about to call it. A `msgsnd` that is already blocked does not fail: the
program installs no signal handler, so that nothing interrupts it (`EINTR`), and only the front end
removes the queues, which cannot do so while it is blocked (`EIDRM`); a second launch is
not the primary instance of the application and does not run the shutdown. `is_backend_done` is written and never read and is
left out. `ftok` needs the key files, which the repository holds.

### `CommandService.tla`

What the front end may rely on whatever happens to the processes: commands are
numbered in the order of confirmation, each is carried out at most once, a
command overtakes older ones only while fewer than `Workers` of them are left,
commands may be lost, and there are no more answers than commands carried out.
`FileManager` implements it with `pending` = queued, in hand or blocked, and one
worker per back end.

A back end that starts after the shutdown creates its queues again and leaves them
behind; the model has that (`Quit` before `AttachCommand`), and no property
forbids it, since nothing in the repository does. The same holds of a delete, the only
request after which nothing polls: in a session of deletes alone the answers stay unread
and the favorites list is not refreshed, while the list of the directory follows the file
system by itself. `fm_liveness` therefore asks for progress with copies.

### `FileTree.tla`

What `BackendFs`, `Browser` and `Shell` know about directory trees: a path is the
sequence of its names, a tree a function from paths to nothing, a directory, a
file or (in `Shell`) a link. `Renames` says when `rename(2)` succeeds and `Renamed`
what it does. It is a model of the kernel, and marked external.

### `CommandEffects.tla`

What a command may make of a tree, whatever becomes of it: only the paths it names
change; a delete, or the source side of a move, only takes away; a copy, or the
destination side of a move, replaces no directory; a new directory is added where
nothing was, under one of the `Numbered` names; a rename happens at once or not at
all. `Relinked` says where a favorite may lead afterwards: a command that fails may have
removed the old link. It is the abstract view of a command: `Browser` takes its steps from it, and for
`BackendFs` it is the property `EffectAsPromised`, at every moment of a command and
leaving aside what other processes did; `LinkIsHonest` holds it to `Relinked`.

### `BackendFs.tla`

One command of the back end on a tree of files, from its receipt to its answer.
`fs` maps every path to nothing, a directory or a file; the data of a file is the
path it had at first, so that a property can say where it went; `link` is what
`/tmp/link` holds under the name of a new favorite, or that there is no such directory. `calls` is the
stack of the recursive functions, each call with the place it has reached (`at`),
the entries it has been given (`seen`) and those that `readdir` must still give it
(`must`). `answer` is what the front end is told. `before`, `foreign` and `faults`
are history.

| Action | Code |
|---|---|
| `Receive` = `ByRename`, `Refused`, `Chmod` or `ByCall` | the branches of `main()` for all seven types: the first `rename`, the check of the destination's directory, `chmod`, the call |
| `MakeDirectory` | one turn of the loop that looks for a free name for a new directory: `mkdir`, and the next name when it exists. The first name is tried twice |
| `LinkDirectory` | `stat` and `mkdir` of `/tmp/link`, whose failure is ignored; it may be missing, or be a file (`Blocked`) |
| `Symlink`, `UnlinkOld`, `SymlinkAgain` | a favorite: `symlink`; when the name is taken (`EEXIST`), `unlink` of whatever is there and `symlink` again; any other error is answered with `failed` |
| `Stat` | `stat`, `opendir`, and the `rename` that `move_directory` tries on a file |
| `Mkdir` | `mkdir` with its result ignored; the directory is open by then |
| `ListEntry`, `ListEnd` | the `readdir` loop and the recursion; after the last entry `move_directory` calls `remove_file_or_directory` |
| `Open`, `Write`, `Unlink` | the two `fopen` (the second truncates), the loop with both `fclose`, `unlink` |
| `RemovePath`, `RemoveNext`, `RemoveFails` | `stat`, `rmdir`/`unlink`, and `nftw` with `remove_callback`, which ends the walk when `remove` fails |
| `AddForeign`, `AddAtLink` | another process creates a file, at any moment, also under a name that `MakeDirectory` is about to try, or takes the place of a link between `unlink` and `symlink` |

Abstractions. A file is read and written in one step, with three outcomes: all of
it, none of it because `fwrite` failed, or a torn file because only `fclose` would
have noticed. Full disks and missing rights (`Fault`) are met by writes and by every call
of a favorite: `mkdir` of `/tmp/link`, both `symlink` and the `unlink`. `Mounted` are directories at the top
that are file systems of their own: between them `rename` fails with `EXDEV`,
which is how `move_directory` gets to copy. `Numbered` are the names a new directory
may get, ten in the code. Permissions, links inside the tree and special files
are left out, and so is a directory moved or copied into itself, which recurses
until a limit of the system stops it. `readdir` returns what was in the directory
when it was opened and may return what came later. `rename`, `mkdir` and `nftw`
are modelled from how the code uses them and marked external.

Two things that the code does lie outside what the properties ask for: a copy of a
file to where it is empties it and reports success (`Apart` excepts it), and an
empty directory that is moved onto a file disappears (`MoveIsComplete` excepts a
destination that is a file).

### `MessageText.tla`

The text of a command: joined with `$` by the handlers, cut to the size of `mtext`
by `send_message`, split by `strtok` in the back end. A text is a sequence of parts,
a name one part or several around a `$` of its own; `TextMax` parts fit. `Reading`
is the path the back end makes of what it got: the one that was meant, another
one, or none.

### `Browser.tla`

The window. `entry` is the text of `path_entry`, `listed` the directory of
`directorylist`, `marked` the row that GTK shows as selected, `chosen` the
`selected_file_info` that the handlers use: four variables that the code keeps in
step only in part. `dialog` remembers, as a history, which file it was opened
about; most dialogs store nothing and read `entry` and `chosen` again at the end.
Only the chmod dialog keeps its path (ui_manage.c:303), and sends that.
`timers` counts the pending callbacks, `links` and `favorites` are the links in
`/tmp/link` and what the list last showed of them, `typed` says whether the list
asks for the type of its entries: `column.ui` does not, so that a double click
opens no directory before the first refresh.

| Action | Code |
|---|---|
| `Type`, `update_directory`, `upper_directory` | the path entry, its button, the button for the parent |
| `on_columnview_activate`, `on_selection_changed`, `on_favorites_row_activated` | clicks on rows and favorites |
| `Autoselect` | `GtkSingleSelection` selects a row when the selected one is gone, without the signal that `on_selection_changed` waits for |
| `on_new_directory_action`, `on_add_to_favorites_action` | commands without a dialog |
| `on_rename_action`, `on_delete_action`, `on_move_action`, `on_copy_action`, `on_chmod_action` | the popup menu opens a dialog |
| `on_delete_response`, `on_dialog_response`, `on_move_dialog_response`, `on_chmod_dialog_response`, `Cancel`, `Rejected` | how a dialog ends: a command is sent, or not; polling starts, or not (move and copy have the same handler twice) |
| `Serve` | the back end carries out the oldest command, with any effect of `CommandEffects`: a favorite that fails may be lost, as `Links` says |
| `read_backend_message`, `update`, `update_ui`, `update_favorites_list` | the timers, also while a dialog is open |

### `Shell.tla`

Several shells in one tree. `fs` has directories, links and names of files, `inode`
data and mode of each file, `cwd` the directory of each shell as the kernel knows
it (it moves with a rename, and is `Gone` after a removal), `pc` and `job` the place
and the local variables of the command that a shell is carrying out, `child` the
program it waits for. `Real`, `Entry` and `Opened` are the kernel's resolution of a
path: it takes a turn at the first `.`, `..` or link (`Turned`, `Advance`), so long as
there is one and at most a bounded number of times (`Resolved`); `.` and `..` need a
directory before them. `convert_to_absolute` is the shell's, on the text alone. Each command is one
action if it makes one system call that matters (`cmd_cd`, `cmd_rmdir`, `cmd_rm`,
`cmd_rename`, `cmd_ln`), and several otherwise: `mkdir` and `chmod`; `stat` and
`chmod`; the two `fopen` and the copying of `cp`; `readdir`, one `lstat` per entry
and `readlink` of `ls -l`; `fork`, the end of the program, and `waitid`. `Prints`
stands for commands that change nothing and for those that are refused.

`chmod_format` is the conversion of a mode, octal or with letters. `kill` is modelled
as far as it ends another shell. `getcwd` of a removed directory is `NULL`, and the
places where the code uses it end the shell (`Prompt`, `Lost`, `run_li`). A `fork`
that the system refuses ends it, too, by `exit(1)` in `cmd_run`. `cp` does not look at
what `fwrite` and `fclose` return: `copy_file` may leave all, a part or nothing of what it
read and returns in any case. `spoiled` and `intruded` remember what others, or a full
disk, did to the files and to the listing that a command works with.

`getcwd`, the check of a path and the first system call on it are one step, also for
`Checked` and `Opened`, the two paths of `cat`: what another shell does between them is not
seen, such as a rename of the working directory just after `getcwd`. `CatOpensWhatItChecked`
is about the text against the tree. Later system calls of a command (`chmod`, the second
`fopen`, `lstat`, `readlink`) are steps of their own and look the path up again.

### Runs

| Run | Instance | Shows |
|---|---|---|
| `fm_safety` | 2 back ends, delete and copy, capacity 2, 4 messages, 1 fault | types, at most once, order for a single back end and its inductive strengthening, nothing lost before a quit, isolation of sessions, graceful exit, the inductive invariants behind the last three (`Delivery`, `Isolation`) and behind the refinement (`Acknowledgeable`), and the refinement of `CommandService` |
| `fm_backlog` | 1 back end, copy, capacity 2, 6 messages, 1 fault | the processes block each other only with 2 * Capacity + 2 unanswered commands; the accounting behind it |
| `fm_liveness` | 2 back ends, copy, capacity 1, 3 messages | under fairness every command is carried out, the front end comes back from `msgsnd`, lists are refreshed, shutdown ends |
| `fm_jam` (violation) | 1 back end, copy, capacity 1, 4 messages | the front end blocks for ever, against README.md:29 |
| `fm_quit` (violation) | 1 back end, copy, capacity 1, 2 messages | a busy back end never reads the quit message, against backend.c:281 |
| `fs_commands` | all trees of 4 entries, 1 foreign file, 1 failing write or call at a link | the effects of every command are those `Browser` relies on, a new directory is found a free name if there is one, a favorite's and a delete's answers are true, a favorite that fails leaves no link but the old one, a copy or move that succeeds is complete, a move loses no file however it ends; the invariant of the call stack behind all of these (`Underway`); under fairness every command ends |
| `fs_disk` (violation) | trees of 1 entry, 1 failing write | a move deletes the source of a torn copy, against backend.c:127 |
| `br_session` | 4 names, 2 commands, a name with a `$` | a dialog keeps its file, a list that is set is that of the entry, a text that fits is read as it was meant; under fairness a cleared list comes back and a favorite that is set or replaced is shown |
| `br_target` (violation) | the same | the next dialog is about another file than the marked one, against ui_manage.c:57 |
| `sh_session` | 2 shells, 8 operands, 2 commands, 6 trees with links to files and directories, to links, to a directory `test2` beside the base directory and round | path conversion agrees with the kernel where it can (`CatOpensWhatItChecked`), the shells neither go nor make, move, remove or write anything outside of the names their test admits (`StaysInside`), `cp` copies what it opened unless a write failed, `chmod` changes the bits it names, a shell fails for the known reasons only; under fairness every command returns |
| `sh_crash` (violation) | the same | a shell in a removed directory crashes, against main.c:167 |
| `sh_escape` (violation) | 2 shells, the operand `../test2`, the base directory alone | a shell leaves the base directory, against README.md:13-14 |

Constants. `FileManager`: `Capacity` (slots of a queue; 64 in reality),
`MaxMessages`, `MaxFaults`. `BackendFs`: `Depth` (length of a path), `MaxEntries` (of
the tree), `MaxForeign`, `MaxFaults`. `Browser`: `MaxCommands`, `MaxRefresh` (refreshes
under way when a favorite is clicked), `TextMax`. `Shell`: `MaxCommands` (those that
name a path), `MaxFollow` (links on a path; more are a loop), `Depth`. These are all the bounds.

Why the bounds are enough. Order and repetition need two messages in the queue
and two in back ends: capacity 2, four messages, two back ends. A jam needs
2 * Capacity + 2 messages: 4 with capacity 1 (`fm_jam`), 6 with capacity 2
(`fm_backlog`, where the premise of `JamNeedsBacklog` is reached); `fm_liveness`
stays below it with 3. `JamNeedsBacklog`, `AtMostOnce` and `OneBackendInOrder`
are proved for all bounds. One crash at any point is enough to leave both queues
to a second session. Back ends are interchangeable, so the safety
runs use symmetry; the liveness runs do not.

For `BackendFs`: two names and paths of three names give a source directory with a
subdirectory, a destination that is missing, a file, an empty or a filled
directory, on the same or on the other file system; four entries fill source and
destination at once. One foreign file and one failing call can come at every
step. Two numbered names are enough for a loop that tries one name twice and for
one name to be taken meanwhile. A behaviour is one command, since the next one
starts from a tree too.

For `Browser`: two commands put an answer or a refresh of the first into the dialog of
the second, and replace a favorite by another. The start directory with a file and
a subdirectory lets every step up and down change the list. `TextMax = 5` is the
length of one pair of paths, so that the pairs with a longer name are cut. The
refreshes that answers start are bounded by the commands; `MaxRefresh` lets a click
on a favorite start one in the middle of another.

For `Shell`: two commands that name paths can be one in each of two shells, or a
removal and the next command of the same shell; prompting, quitting and printing
are not counted. The operands have a plain name, a subdirectory, a `..` after a
name that may be a directory, a file or a link and one that may lead to the root, a
`.` alone and after a name, and an absolute path; the trees have each of these, and in one the
base directory is missing. To keep the paths few, the name `test2` serves in the base directory
and, as a name that begins like `test`, beside it (`Alike`); `b` is at the top a name that
is not allowed. `MaxFollow = 3` exceeds what three names allow without a loop.

`Straight` is the condition of `CatOpensWhatItChecked`, and says where text and kernel can
agree: a `..` comes after a directory that no link leads to, and a `.` after a
directory, since the kernel refuses `f/.` of a file and the text drops the dot.
An absolute operand is put below the base directory by the check and opened as it was
typed, so the property leaves it out: `cat /f` checks `/tmp/test/f` and opens `/f`, which
disagrees with README.md:13-14 as `sh_escape` does. It shows on one line of the code,
cmd_cat.c:14, and has no run.

Deadlock is not checked in any run: the user may stop, the programs end, and
counters are used up.

Each property of a passing run was also tried on a variant of the module with a
plausible slip (a message sent twice, a retry that is not made, `msgrcv` by
priority, a queue left behind, a timer not started, ...), which it rejects; these
variants stand next to the definitions they replace, marked as slips, and
`PROJECT.json` pairs them with the properties.

Fairness (`FairSpec`): weak fairness of every back end's steps, of the resumption
of a blocked `msgsnd`, of each timer and of the steps of the shutdown. The kernel
schedules runnable processes and wakes senders when there is room, and GLib
fires due timers whenever the main loop runs; a thread blocked in `msgsnd` has
its timers disabled, as the guard `ui = "idle"` says. Nothing is assumed of the
user, and no fault happens in the liveness runs of `FileManager`. In `BackendFs` it is
weak fairness of the back end's steps: it is one process that never waits. In
`Browser` it is weak fairness of `Serve`, of the poll and of each timer callback, for
the same reasons; `update_favorites_list` may keep its timer for ever, as its return
value is undefined, and does its work each time. In `Shell` it is weak fairness of the
steps of a command that has begun (`Running`); a program that was started may run
for ever, which `PromptReturns` excepts, and nothing makes the user type.

## 4. What is proved

Every safety property of the passing runs, invariant or action property, is a
theorem for all values of the constants; two about `Shell` (`FailuresHaveCauses` and
`ShellsStayInside`) assume something of the trees that are found (below). The constants are only what the named assumptions say: any finite set of back ends,
any capacity and bounds; any set of names, depth of paths, mount points and set of
well-formed trees, any spelling of names, any size of `mtext`; any set of shells,
operands, files and modes. `Trees` of `Browser` must moreover hold, with a tree without
the start directory, the one that has it (`TreesAssumption`), since start-up creates
it. `LiteralsAssumption` says that some literals are strings, which the provers do not know.

### The processes and their queues

`FileManagerProofs.tla`:

- `TypeCorrect`: `Spec => []TypeOK`. Besides the ranges, `TypeOK` says that a back
  end holds a command exactly when it works and an answer exactly when it
  replies, which the other proofs need. One step per action.
- `BacklogBeforeJam`: `Spec => []JamNeedsBacklog`. It is not inductive, since it says
  nothing until both queues are full. The invariant is `Accounting`: answers read
  + answers queued + busy back ends + commands queued + the blocked message never
  exceed `issued`. Each action moves one command from one term to another, or
  drops it. When both processes block, the terms are at least
  `Capacity`, 1, `Capacity` and 1. `Accounted` states the invariant itself.
- `Ordered`: `Spec => []CommandOrder`. `CommandOrder` strengthens at-most-once and
  order to everything a command can be in: the blocked message is the newest, the
  queue is increasing, what a back end holds is older than the queue and held by
  no one else, and what was done is older than the queue and in nobody's hands.
  One lemma per way a step touches the commands (`OrderFrame`, `OrderSend`,
  `OrderBlock`, `OrderReceive`, `OrderWork`), then one step per action.
  `NeverTwice` and `InOrder` follow.

`FileManagerSessionProofs.tla`:

- `SessionsApart`: `Spec => []SessionIsolation`, from the inductive `Isolation`
  (`Isolated`): until something crashes the queues hold nothing of an earlier
  session, and a session that ends leaves nothing in them. It holds because the
  command queue is removed before the response queue and identifiers of removed queues
  never match again.
- `NothingLost` and `ExitsGracefully`: `NothingLostBeforeQuit` and `GracefulExit`, from
  the inductive `Delivery` (`Delivered`): every command is somewhere as
  long as the command queue was never removed and nothing crashed, the quit message is the
  last in its queue, and a lone back end that has read it has carried out all others. Its proof uses
  `Ordered` and `Isolated`.

`FileManagerServiceProofs.tla`:

- `Implements`: `Spec => ImplementsService`, the refinement of `CommandService`, one step per
  action: each maps to submitting, performing, losing or acknowledging a command, or
  to a stutter. That a command overtakes others only while fewer than `Workers` older
  ones are left takes `CommandOrder` and a count of the back ends' hands; that
  answers never outnumber what was carried out is `Acknowledgeable` (`Acknowledged`).

### The back end's file operations

`FileTreeProofs.tla` has what the proofs need of prefixes, of the path an entry has
after a move (`Rebased`) and of changing a tree at one path.

`BackendFsProofs.tla`:

- `TypeCorrect` and `StackIsSound`: `[]TypeOK` and `[]StackSound`, proved together as
  `Sound`. Neither is inductive alone: that the tree stays a tree depends on what the calls
  on the stack are about, and the shape of the stack on the tree. `Chain`
  says that each call is about an entry that the call around it has listed, with source
  and destination at the same place below those of the command; `OpenFiles` and
  `Removable` say what the system calls to come can rely on.

`BackendFsEffectProofs.tla`, each from `Sound` and an invariant of its own:

- `ChangesOnlyWhatItNames`: `[]EffectAsPromised`, with `Effected`: files that were at the
  destination stay files.
- `NewDirectories`, `LinksAreHonest`, `DeletesAreHonest`: with `Honest`, what each of these
  commands has found out so far (the names tried are taken; what is to be deleted is still
  there; what stands at the link, if no call was refused yet).
- `CopiesAreComplete` and `MovesKeepFiles`: with `Carried`. For every file of the source and
  every call on the stack above it, `Reached` says where the file is: already at its new
  place if the call has passed it, still at the old one and due to be listed if not.
- `MovesAreComplete`: with `Moved`: the destination of a directory is a directory once `mkdir`,
  whose result nobody looks at, is behind, and a success comes only from a removal.
- `EverythingUnderway`: `[]Underway`, the parts of these invariants that speak of the code,
  which `fs_commands` checks as well, and `StackSound`.

### The window

`BrowserProofs.tla`:

- `TargetKept`: `Spec => []DialogKeepsTarget`. The property is inductive: a dialog is
  opened on its target (`DialogOpened`), the user can only close it
  (`NoDialogKept`, `BrowseIdle`), and everything else leaves `dialog`, `entry` and
  `chosen` alone (`DialogUndisturbed`, `DialogFrame`). It fails as soon as a refresh
  touches the selection or the entry, as the mutant shows.
- `ListFollowsEntry`: `Spec => ListSetToEntry`, action by action (`BrowseList`,
  `CommandKeepsList`).
- `TypeCorrect` and `MessagesAreRead`: `[]TypeOK` and `[]ReadAsMeant`. They are proved together
  as `Typed`, since a path read from a message becomes a link, a link the entry, and the
  entry the next message: `Legible` adds to the type of a message that it is read as it was
  meant, if it can be, and that no `$` gets into a link even when it was cut. Below it
  are lemmas on texts: the text of a path without `$` has none, a pair that fits is not
  cut, and splitting a pair at its first `$` gives both halves back.

The text of a path is a fold over its names (`FlattenSeq`), a recursive function, and
induction with an operator parameter is not available: `TextOfPath` takes instead the
least length for which the claim fails (`LeastNatural`, from `WFMin`), and gives a
witness for the function that the fold chooses. The same lemma finds the
first `$` of a text, and the directories above an entry of a tree.

### The shell

`ShellProofs.tla`:

- `TypeCorrect`: `[]TypeOK`: the tree stays a tree, a working directory is a directory or
  gone whatever others rename and remove, and local variables keep their types.
- `CopiesAreWhole`: `Spec => CopyIsWhole`, from the inductive `Copying`: between opening the
  source and copying, what was seen is what is there unless another shell wrote one of the
  two files, and the target is empty. The property excepts a write of its own that failed,
  which the code ignores and `spoiled` records. Every other action is `Apart` from a copy
  or ends the other shell.
- `ChmodsAreExact`: `Spec => ChmodChangesNamedBits`.
- `FailuresHaveCauses`: `Spec => []FailureHasCause`, if in each of `Trees` the base
  directory is there or can be made. The hypothesis cannot be left out: where
  a file has its name, `chdir` fails after `mkdir` and `main` ends. The inductive
  invariant is `Blame`: unless another shell changed the tree since its `ls` last read a
  directory, the base directory that a
  shell has just made is there, and each entry that its `ls -l` has yet to show, or is
  about to read, is a link if `readdir` said so. A step of another shell changes the tree
  only if it is recorded in `intruded` (`Bystander`), and most commands neither list nor
  start (`Calm`). A refused `fork` is the third cause, and stays recorded in `child`
  (`RefusedStay`). Two facts about the operators carry it: a directory of the
  tree is found at its own path (`DirFound`), and an entry of a listed directory is
  found again where `lstat` and `readlink` look for it (`ListedLink`), for which the path
  must be a sequence of names (`ConvertedType`). `convert_to_absolute` and `Real` are
  recursive functions; the least number of words, or of links, for which the claim fails
  takes the place of induction.
- `CatChecksWhatItOpens`: `Spec => []CatOpensWhatItChecked`, from the types alone, for
  every tree, links, operand and `MaxFollow`. At its first `.` or `..` the kernel takes a
  turn that leads to the path without that dot, unless a link comes before it: then both
  paths take the same turns at links until the dot is reached (`TurnsConcat`,
  `DotDropped`). So the opened path needs one turn more per dot than the checked one, and
  no other (`OneWord`, `AllWords`), which is why the kernel is given `MaxFollow` turns for links and one for
  each dot: with one bound for both, a long chain of links would be a loop for one of the
  two only.
- `ShellsStayInside`: `Spec => StaysInside`, for names, data and modes, if in each of `Trees`
  every link leads to a place that is `Inside` and no file has a name inside and another one
  outside. The hypotheses cannot be left out: the check is on the text, `cd` and `fopen` follow
  a link wherever it leads, and a hard link is as good a name as any. They are about the trees
  the shells find, not about those they make: what the commands make is `NoLinkLeadsOut`,
  `Spec => [][LinksStay]_vars`, which needs no hypothesis. `Inside` is what the prefix test of
  the code admits, more than the base directory (`sh_escape`). `StaysInside` is not inductive, since a rename, an `ln -s` or a second shell could
  put a link that leads outside where a checked path goes through it. The invariant is
  `Confined`: no link of the present tree leads outside, every shell that has started is inside or
  in a removed directory, so is the target of a `cp` that is about to be opened, and a file
  that a command is about to write has no name outside. A checked
  path is `Inside` as text, and stays so at every turn at a link, which replaces its first
  names by the place the link leads to (`RealInside`, `EntryInside`, `AllowedInside`).

### Only model-checked

- All liveness properties: TLAPS proves neither liveness under fairness nor facts
  about ENABLED.
- RECURSIVE operators are out of its reach too; no module here needs them.

## 5. Findings

Each is a run whose property TLC refutes; `PROJECT.json` quotes what the
repository says instead.

- The two processes can block each other for ever (`fm_jam`).
- The quit message can be removed before it is read, and the back end then spins
  (`fm_quit`).
- A full disk makes a move between file systems lose data and report success
  (`fs_disk`).
- After a deletion, or a refresh, GTK marks another row, and the next dialog is still
  about the old file (`br_target`).
- A shell whose working directory was removed, also by its own `rmdir .`, passes
  `NULL` to `strcmp` (`sh_crash`).
- The shell's test admits every directory whose name begins with that of the base directory
  (`sh_escape`).
