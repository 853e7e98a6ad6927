# emus: formal models

TLA+ models of the programs of this repository, checked with TLC, and theorems
about them, checked with TLAPS.  `PROJECT.json` is the index: which definition
models which lines, which run checks which property, which mutation of the model
each property notices, and what is known to be wrong or unchecked.

The repository is a Unix environment: a patched dwm with a command pipe, a screen
locker, small C utilities, many scripts, patches for the programs it builds, and
configuration.  The models cover the parts that keep state and meet other
processes: there a test reaches least.

## 1. Inventory

| Component | State | Operations | Hard part | Correct when |
|---|---|---|---|---|
| Screen locker, entry (`screen-locker.c: readpw`, `pam.c`) | input buffer and cursor, colours, failure flag, PAM's copy of the guess | key events, PAM conversation | buffer read as a C string, stale colour, PAM failures | opens exactly for an accepted string; nothing of an older input survives; the colour tells that something is typed |
| Screen locker, lock and loop (`screen-locker.c: main, lockscreen, readpw`) | lock windows, grabs, privileges, post-lock command | set up, grab with retries, resize, raise | other X clients at any time, PAM blocks the loop, partial failure | no key is read and no command runs before all is covered and held; windows keep the size of the screen and come back on top |
| dwm window list and focus (patches) | client list, focus stack, time of the last focus, urgency | map, destroy, zoom, move to tag or monitor, previous window | lists relinked by hand; order of handlers | each window keeps one place; priorities stay sorted; no visible window is urgent |
| dwm command pipe (`dwm-00-pipe-ipc.diff`, `dwm-hooks.c: fifohook`) | pipe contents, selection, Xlib queue | close, invert, quit, restart, select, urgency, view | messages read together, two event sources, events read early by Xlib | what a command touches is alive; events and messages are not forgotten |
| killclient2 (`dwm-hooks.c`) | pointer and time of the last call | one key | the pointer outlives its client, and its memory may be another's | only the second press in time closes |
| redundansi, filter (`redundansi.c: main, parse_sgr_escape`) | escape buffer, attributes per class | one byte | a parser with a bounded buffer | each line looks in less as on a terminal |
| redundansi, processes (`redundansi.c: main, handle_sigchld`) | child, pipe, signal disposition | read, write, close, wait, handler | signals against waiting, job control | right exit status, nobody waits for ever |
| Tag rules (`dwm-00-tag-rules.diff`) | layout of a monitor, static copies | apply, roll back | rollback from static variables | the layout is restored |
| Mouse restriction, systray, other dwm patches | pointer, icons, bars | X events | order of X events | pointer stays on the selected monitor; icons match the windows |
| unescape (`dwm-hooks.c`) | none | one text | reading and writing in step in one array | escapes come out as in C, or with the documented error; what is written never passes what is still to be read |
| del, refresh (`del.c: refresh_command_list` and what it calls) | list in memory, temporary file, list on disk | load, search, print, flush, sync, rename | any call fails, the machine crashes, two refreshes at once | the file at the path is always a whole list; what fails leaves nothing |
| del, menu (`del.c: menu`) | pipe, child, failure so far | launch, start commands, hang up, wait | end of file against ends of the pipe, a menu that lives on, a list that is replaced while it is read | the launcher ends, with the status that tells what happened |
| statusline (`statusline.c`) | cached file of indicators and its time, pause flag, command line | one turn of the loop, a signal | time of the file against its contents, signal against three sleeps, local against UTC midnight | shows what the file says; pauses are whole; clocks and sun are the right ones |
| fifo2rootname, xidletime, blackwalls | none kept | one pass | pipe reopened | - |
| Scripts with processes (singleton, lock-screen, wait-until-idle, metamux, session-control, the git checkpoint) | other processes, tmux panes, jobs | one run each | check and act in two steps, signals | one instance; locked before sleep |
| Text tools (mdlint, git-colorized-blame, colgrep, ...) | none kept | one pass over the input | parsing | - |
| Build system, bootstrap, core patches, configuration | files | make, shell | - | - |

How they meet: the session starts dwm, statusline (through fifo2rootname) and
lock-screen; lock-screen uses xidletime and runs the locker; session-control
writes to the pipe of dwm; del and dmenu start applications, whose windows dwm
manages; git and man pipe their output through redundansi into less.

The models meet in the same places.  ScreenLocker extends PasswordEntry: the
variables of both make up its state, and one event of the queue becomes one step of
the entry.  Both implement
LockSession.  DwmIpc and DwmClients model the same handlers for two questions:
DwmClients keeps the lists and stacks and has a user who does anything between
two events; DwmIpc keeps the queues between dwm, Xlib, the X server and the
writers, takes the lists to be whole, and abstracts the focus stack to "any visible
window may be on top".
Del composes DelRefresh and DelMenu over the file they share: the child opens what
the path leads to and reads that file to the end while refreshes replace it.
StatusLine prints what the functions of StatusText compute.

## 2. Modules

| Module | Models | Steps |
|---|---|---|
| `LockSession` | abstract: what a lock promises | lock, type, erase, clear, release, fail |
| `PasswordEntry` | key half of `readpw()`, `pam_password_ok()` | one key event, or the end of a PAM exchange |
| `ScreenLocker` | extends it by `main()`, `lockscreen()`, the event loop; X server external | one turn of the grab loop, one event, one act of another client |
| `DwmClients` | the patched dwm functions inside the handlers that call them | one handler, run to its end |
| `DwmIpc` | `run()` and `fifohook()` of the patched dwm; writers and windows external | one command, one event, one act of a window or writer |
| `KillClient2` | `killclient2()`, with the memory of clients that are freed used again | one press, one tick, windows that come and go |
| `Unescape` | `unescape()` as a function on sequences of bytes, and what a piece of text means in C and in UTF-8, by which the pieces are assumed to be right | one text is converted |
| `Redundansi` | the filter, byte by byte, for any input; terminal (a table of its own, after ECMA-48) and less external | one byte (a number is one token with its width) |
| `RedundansiPager` | filter and child | one chunk, one system call or signal |
| `CommandList` | abstract: what a list of commands on disk promises | make, publish |
| `DelRefresh` | `del -r`: exclusions, known commands, desktop entries, temporary file; file system, disk, kills and crashes external | one system call, or one pass over the entries |
| `DelMenu` | `menu()`: launcher and child; the menu, its user and the pipe external | one system call, one line |
| `Del` | both, over one command list | |
| `StatusText` | the texts of `statusline.c`: indicators, battery, coordinates, sun, moon, day, clocks | functions |
| `StatusLine` | its loop and signal handler; clock and file external | from one look at the world to the next |
| `ScreenLocker_proofs`, `DwmClients_proofs`, `DwmIpc_proofs`, `DwmHooks_proofs` (KillClient2 and Unescape), `Redundansi_proofs`, `RedundansiPager_proofs`, `Del_proofs`, `StatusLine_proofs` | theorems about these modules (section 4) | |
| `MCDwmHooks` | killclient2 and unescape, which share no state, in one instance | |
| other `MC*` | constants for TLC | |

Correspondence.  The variables have the names of the C variables where there is one
(`userinput`, `cursor`, `oldcolor`, `mousegrab`, `matches`, `invert`, `print_escapes`,
`exit_code`, ...); `wm` in DwmClients is dwm's data as one record, so that handlers
can be composed from the functions they call as they are in C; `setup`, which never
changes, says how many monitors there are and what kind of windows come, so that one
instance covers several.  An action is a whole handler or, where another process can
act in between, the part of it up to the next blocking call.  Definitions marked
external in `PROJECT.json` stand for dwm, Xlib, the X server, PAM, the kernel, less or
the user.

What data is reduced to: passwords are sequences over two bytes; a window is a
name with a priority, a tag and a monitor; a message is a sequence of commands; a
regular expression is the set of windows it matches; an input of redundansi is a
sequence of pieces; a desktop entry is a sequence of lines of the kinds the code
tells apart; an exclusion pattern is the set of names it matches and whether it has
brackets; the environment's PATH is a sequence of sets of programs, chosen anew at
each look; a time is a whole hour, a longitude a number of hours, and sun and moon
move evenly.

## 3. Runs

The passing runs end with the whole state space explored.

| Run | Question | Bounds and why they are enough |
|---|---|---|
| `password_entry` | Does the entry open exactly for a password, with a clean buffer and the right colour, and implement LockSession? | Four cells, keys of one and two bytes: an input that fills the buffer, one that overflows it by one byte, passwords empty, short and full |
| `screen_locker` | Is everything held and covered before a key is read, do windows stay covered, does the whole implement LockSession? | Two screens (the second can fail after the first), all five attempts, two queued events, two changes by others: one event can overtake another |
| `dwm_windows` | Do lists, stacks, selection, urgency and the previous-window key agree, with tiled windows of different priorities on two monitors, and with floating windows, dialogs, full screen, windows that refuse the focus and windows the list has lost on one? | Three windows, two priorities, two tags, every kind of window in some setup: insertion before, between and after; in one setup four windows of which two can be lost in a row and come back one by one |
| `dwm_lost_window` | *violated*: every window keeps its place in the list | the same, no dialogs |
| `dwm_pipe` | Are messages and events neither lost nor applied to what is gone? | Two windows on two tags, with and without WM_HINTS, a selection of one (so that it overflows), two messages in the pipe (so that they join), one spontaneous change, quit and restart in one line |
| `dwm_view` | *violated*: view shows the tags it was given | one view per tag |
| `dwm_hooks` | Does only the second press in time close? Are numeric escapes decoded, and does the result stay behind what is read? | Three windows that are opened at two addresses, so that one is used again, and two ticks of time; texts of three pieces out of fifteen, five of them erroneous: every escape next to every other, and each error behind a good piece |
| `redundansi` | Does each line look in less as on a terminal, and does all but ESC fit the buffer? | Every form of sequence in any order, one that fits the buffer exactly and one too long; ESC bytes in any number, until they write behind the buffer; two kinds of numbers left in the buffer; that the input meets `DocumentedInput`, the condition of the theorem, is an ASSUME of its module |
| `redundansi_normal` | *violated*: the same with SGR 22 | two attributes |
| `redundansi_pager` | Right exit status, nobody waits for ever? | Four chunks against a pipe of two and a buffer of one; two stops |
| `del` | Is the command list always whole, does a failed refresh leave nothing, does the menu read one list, does the launcher end with the right status? | Two programs at a time, among them two refreshes, or a refresh and a menu; two faults: one that a program meets and a crash on top; three entries and four names that meet every branch of the parsing; a pipe of one line and a menu of two, of which the last may not end |
| `statusline` | Are pauses whole and seconds new, is the file shown at last, are clocks, sun, battery, day and moon right? | Two versions of the file and three signals: one before, in and after a pause; single lines for up to three time zones out of eight, of which three have names that begin alike, for every hour of a day in three places, every phase of the moon, every day of a month, batteries at the limits of what is shown, and coordinates that break each of the rules for them |

The violated runs show disagreements between a comment and the code:

- `dwm-00-window-attachment-priority.diff:77`: a tiled window attached after the
  last tiled one cuts off the floating windows that follow it.  When one of them
  comes back to the list after the next was destroyed, the list leads to a client
  that was freed (`Dangling`, which `dwm_windows` reaches).
- `dwm-hooks.c:319`: while no tag was accepted `strtok()` starts over, so `view`
  with a first tag that is refused (0, or the last tag: line 321 is off by one)
  hangs dwm.
- `redundansi.c:383`: 22 clears faint and italic, not bold and faint.

Disagreements met while modelling that no run is spent on:

- screen-locker: the two checks whose messages say "PAM support not enabled"
  (`screen-locker.c:509, 513`) are compiled in when it *is* (line 507), so that a
  build with PAM refuses a user without a local hash, whom PAM could authenticate.
  `HashRefused` models it.  Where PAM asks for the password in a second message, the
  conversation writes its answer outside of the array of answers (`pam.c:37` takes
  `resp[i]` for `(*resp)[i]`), so that PAM never gets it: `Answers` says so.
- unescape: after an escape of one character `in` does not advance
  (`dwm-hooks.c:48-58`), so that the character is written again, and of an unknown
  escape the character behind it is taken, and taken again (line 103).
- del, refresh: `fncasematch()` makes lower-case letters by `| 32` (line 243), which
  turns `[` into `{`, so that the bracket patterns that fnmatch(3) promises
  (line 176) match nothing they were written for; the path of the exclusion list is
  appended to uninitialised memory (line 961), and may name no file; a later
  group's `Exec` line counts as the entry's (line 479); names that differ in case
  only are never both found but may both be in the file that is read, and qsort()
  does not order them (`OneCaseAssumption` leaves them out); of two refreshes at
  once the later one undoes what only the earlier one found.
- del, menu: a last line without newline is complained about and not run, with
  status 0 (line 835), which the comment of `menu()` keeps for the case that no problem
  was met (line 749).
- statusline: the times of sunrise and sunset are computed for the UTC day of local
  midnight (`statusline.c:652` on what line 712 gives): ahead of Greenwich that is
  the day before, and the "next" event of line 687 can be one that is over; the
  structure given to mktime() has no `tm_isdst` (line 621).  `sunrise_sunset_info`
  models both.
- statusline: whether a clock is shown already is looked for with strstr() in the text of
  the clocks so far (line 1225), so that one is left out too whose name another at the
  same time begins with, as with `-z ABCD0 -z ABC0`; the usage promises to leave out
  duplicates only (line 955).
- statusline: the buffer of indicators is compared with single lines, not with all
  of them (line 367); a file that changes twice within the resolution of its time, or
  whose reading fails once, is shown when it changes again; the usage documents `-f`,
  `-n` and setting the root window name (lines 906-944), and the program has none of
  these; strtolatlong() takes an `errno` left by something else for a malformed number
  (line 838).
- dwm: `select N` with N other than 0 and -1 searches no monitor (`dwm-hooks.c:287`);
  lines that are read together share one selection, and the two messages of a logout
  join to one unknown word if dwm reads neither for a second; where `killclient2()`
  remembers a client that is gone, and a new one got its memory, one press closes the
  new one (line 361, against the comment at line 335); `urgency 1` marks visible
  windows, and one without WM_HINTS stays marked, because no event follows (line 308);
  a window attached as floating and tiled later leaves the list unsorted, and a zoom
  may pass a higher priority.
- screen-locker: an empty input that PAM rejects leaves PAM's colour on the screen
  (`screen-locker.c:305`).
- redundansi: bright colours and 21 are not followed; an ESC inside a sequence is
  appended to what is held of it, because `escapelen` is not set back
  (`redundansi.c:331`), so that the sequence it begins is not followed, and numbers that
  earlier sequences left in the buffer are taken for parameters (`Beyond`); there is no
  test of the room at that line, so that the ESC after 32 of them, and every later one,
  is written behind `escape` until a newline comes; and the handler waits for the end of
  a child that was merely stopped.

Deadlock is checked for StatusLine, where something can always happen, in
`redundansi_normal` and in `dwm_lost_window`.  The other runs switch it off because the
program ends or, in DwmIpc, hangs in `view`, because a client list is left in a state
with which dwm cannot go on, or, in `redundansi`, because the filter wrote behind its
buffer: what it does then is undefined.

### What the properties need to be read with

- `Covered` excludes a screen that changed before its lock window was mapped, and
  `EventuallyOnTop` a window mapped before the root window is watched: no event
  tells the program.
- `ListCompleteTiled`, `PrioritySorted` and `BackAndForth` are stated for the setups
  without floating windows; with them the first fails (`dwm_lost_window`).  The other
  properties of DwmClients hold with the lost windows included.  The model stops
  where a list leads to a freed client (`Dangling`), because what dwm reads there is
  undefined, and where the relinking has closed a list into a cycle (`Endless`), which
  dwm walks for ever.  The cycle needs two views and two windows that float for a
  time, more than the setups of the run have.
- DwmIpc takes the lists of dwm to be whole: `select` finds every client.  What lists
  that have lost windows do is the question of DwmClients.
- `UrgentSettles` speaks of the windows that have WM_HINTS: only for these an event
  follows when `urgency 1` marks a visible window.
- `ClosesOnSecondPress` lets a press for a client that is gone stand for one for the
  client that has its memory now: a comparison of pointers can do no better.
- `EventsHandled` starts with the second `select()`: what Xlib read during the
  first `XSync()` does wait for something else to arrive.  `PipeEmptied` is stated
  for windows that come to rest, which `MaxChanges` makes them do.
- The input of Redundansi is any bytes.  `TypeOK` says of the buffer what the code keeps
  to: any byte but an ESC fits, with a place behind it, and an ESC may be written behind
  the end, where the model stops.  `LessLikeTerminal` speaks of the input up to
  the first ESC inside of a sequence (`orderly`), where the pieces are as
  `DocumentedInput` says: an SGR sequence fits the buffer and has no 21, 22 or bright
  colour.
- `StatusTells` says of a last line without newline what the code does: it is the one
  line that is not started, and it does not change the status.  `ClocksOnceInOrder`
  names the clocks that strstr() drops besides the duplicates.
- `Finishes` excludes the behaviours in which the SIGCHLD handler was entered for
  a stopped child.
- `StatusPassedOn` and `ReadErrorReported` speak of a filter that exits; it may
  also be killed by SIGPIPE when the child ends first.
- `PromiseSpec` of Del lets a crash bring back an older list; what it excludes is a
  part of one, or one that is not sorted.  `NothingLeftBehind` speaks of a refresh that
  ends by itself and could delete its file: a killed one leaves it.
- `PausesFully` allows the line that was on its way when the first signal came.
- `ShownEventually` is stated for versions with times of their own and readings that
  do not fail; `NextEventShown` for clocks behind Greenwich; `NumericEscapesDecoded`
  for texts of plain characters and numeric escapes, in which no digit follows a
  hexadecimal one.

### Fairness

- ScreenLocker: weak fairness of start-up, of reading an event and of the end of a
  PAM exchange.  The program is one thread that sleeps only in `XNextEvent()` and in
  PAM; that PAM answers is an assumption about the PAM stack.
- DwmIpc: weak fairness of the loop.  dwm is one thread that `select()` wakes when
  either descriptor is readable.  Nothing is assumed of windows or writers.
- RedundansiPager: weak fairness of the filter, of the child reading what is in the
  pipe and ending at its end, and of continuing what was stopped.  A user may quit
  the pager but need not.
- Del: weak fairness of the launcher's steps other than a failure (a system call that
  could fail need not), of the menu, and of the delivery of SIGHUP.  That the user
  ends with the menu is assumed: it is the condition of `LauncherEnds`.  Refreshes have
  no fairness.
- StatusLine: weak fairness of the program, one thread that sleeps in select() with a
  limit, and of the clock.  Nothing is assumed of those who write the file or signal.

PasswordEntry, DwmClients, KillClient2, Unescape and Redundansi carry safety
properties only.

## 4. Proofs

Eight modules hold the theorems; each extends the module it is about.  Every
invariant below was checked with TLC on the instance of the run before it was proved.
Where a property of a run is proved, the run shows it on a small instance, the
theorem for all values of the constants under the assumptions named.

`ScreenLocker_proofs`, first about the entry, for every set of bytes, keys and
passwords and every buffer size (`CapacityAssumption`, `ByteAssumption`,
`TextAssumption`: a positive size, a terminator that no key produces, keys that
produce at least one byte):

- `EntryInvariant`: the inductive invariant.  The type invariant alone is not
  inductive: that `cursor` stays inside the array follows from the guard of the
  insertion, but that the string `crypt()` reads is the one typed needs the cells
  from the cursor on to be NUL and those before it not, through every insertion,
  erasure and wipe, with room for the terminator; and `TypingShown` needs the
  relation between the believed and the shown colour, because the repaint is decided
  from the believed one.
- `NoResidueAlways`, `TypingShownAlways`, `OpensExactly`: the properties of the run,
  from it.
- `ImplementsPromise`: the entry implements LockSession.  Each key event maps to
  typing, erasing, clearing or a stutter, PAM's answer to a release or a clear.

The same module, about the whole program, for any number of screens, attempts, queued
events and acts of other clients.  `LockerInvariant` extends the invariant of the
entry, whose steps are reused as lemmas, by three parts: what each place of `main()`
has already obtained (up to which screen the windows are mapped and watched, that both
grabs are held, when the privileges are gone), how the place of `main()` and the phase
of the entry go together, and the sizes: `Covered` speaks of the time when keys are
read, and holds then because the notices queued while the lock is still being set up
are right as well. From it: `NeverUnreachableAlways`, `LockedWhileReadingAlways`,
`CoveredAlways`, and `LockerImplementsPromise`: the program as a whole implements
LockSession, the steps of the entry through its own refinement. `NoticeRaisesAlways`
is what `EventuallyOnTop` rests on in every step: a window over a watched screen is
announced, and an announcement stays queued behind keys and sizes until one raises
every screen.

`DwmClients_proofs`, for any windows, monitors, tags, priorities and rules, with any
windows floating.  The lists are left out of the first invariant on purpose: attaching
and detaching change links only, whatever they link (`Relinked`), and where no list
leads to a freed client, every window that a handler finds or walks to is managed.  On
that `ClientsInvariant` says that every client is once in the stack of its monitor, that
what is selected is there and visible, that no client is visible and urgent, and that
the order of the last focus names no client twice.  Within a handler these parts do
not hold: `StackedBut` is for a client between two stacks, `HiddenBut` for monitors
that are still to be arranged, and `FocusOf` shows that focus() restores the selection
whatever it was.  `StacksCompleteAlways`, `SelVisibleAlways` and `UrgentHiddenAlways`
follow.
Where no window ever floats, `ListsInvariant` says of the links that the head of each
monitor starts a chain of exactly its windows, in the order of their priorities
(`Listed`); detach() leaves such a chain without its client (`DetachLists`), and
attachbypriority() puts one in (`AttachLists`).  The operators follow a list by a
recursive function; that it reads what the chain says (`AtFollows`, `ListIs`) is no
induction but its counterpart: of the places where two functions that take the same
steps differ, the first would need one before it, and that there is a first is a fact
about cardinalities (`Smallest`).  `ListCompleteTiledAlways` and `PrioritySortedAlways`
follow; `BackAndForthAlways` needs also that the selected window is the one stamped
last (`LatestInvariant`, which holds with floating windows too).

`DwmHooks_proofs`, first for all windows, addresses and limits, whatever memory is used
again: `KillInvariant` (the static variables hold the address and the time of the last
press, whether or not its window is still there, and each client is at the address that
its window was given), and `SecondPressCloses` from it.

The same module about `unescape()`, for texts of any pieces and any length.
`TokensAssumption` says what the pieces are: bytes other than NUL, and where a piece is
numeric, that it is a literal or an octal, hexadecimal or Unicode escape with the
meaning that C and UTF-8 give it.  UTF-8 is stated the other way round than the code
writes it, as the number that the bytes add up to, so that `EncodedIsUTF8` says
something of the shifts and masks.  The value of digits (a fold), the text (a flattened
sequence) and the result (a recursion that goes on wherever a piece ends) are each
shown to have a history (`ValueRuns`, `FlattenRuns`, `UnescapeRuns`): a recursion that
looks only at what is smaller has a solution (`Solution`), and two solutions agree.
From these: a hexadecimal value that is too large at some digit stays so
(`ValueGrows`), which is why refusing it there is right; each piece is read from where
the one before ends up to its own end (`PieceStands`, `NumericStands`); and what
follows a piece is what comes of the pieces behind it (`PiecesRead`), which gives the
bytes of all without an error and the first error otherwise (`AllRight`, `FirstWrong`).
`NumericEscapesDecodedAlways` follows with `UnescapeInv`.  `NeverOvertakesAlways` is
about all texts, unknown and single-character escapes included (`PieceFits`): the
result fits the array in which it is written.

`DwmIpc_proofs`, for any windows, monitors, tags, messages, and any room in the pipe
and in `matches`.  The type invariant, the selection, the selected window and urgency
are proved together (`IpcInvariant`): urgency needs, of *each* window with WM_HINTS
that is urgent and visible, an event on the way, in the socket or already in Xlib's
queue, through every round trip that moves events from one to the other; the selected
window needs that of every client whose window is gone the end is still to be heard.
From it `IpcTypeOK` (with the bound on `matches`), `MatchesManagedAlways`,
`SelLostOnlyToCloseAlways`, `UrgentSettlesAlways`, and `NothingLeftToXlib`: dwm never
sleeps with an event in Xlib's queue.  That is what `EventsHandled` rests on in every
state; that the loop gets on is left to TLC.

`Redundansi_proofs`, for any input made of pieces, with parameters of any number and
width, any size of the buffer and anything left in it (`SizeAssumption`,
`PieceAssumption`, `StaleAssumption`).  The loops over bytes, parameters, groups and
classes of attributes are folds; instead of an induction, `FoldSolution` and
`FoldRuns` turn each into the history of its results, again by the first place where
two would differ.  `ParserInvariant` has no condition on the input: only ESC bytes get
to the end of the buffer and behind it, an attribute has no more than five parameters,
and an orderly piece leaves the parser outside of a sequence; `TypeOKAlways` follows.
Whether the filter knows the same attributes as a terminal is a comparison of two
tables (`SetsStandard`, `ClearsAlike`).  `LessLikeTerminalAlways`, under
`DocumentedInput`, needs three more parts while the input is orderly: while a sequence
is read, what is held is as much of it as was read, with the zeros the filter puts in
(`HeldInv`); an SGR sequence is held until it ends (`SgrInv`); and between the bytes
what is kept is what a terminal shows, as is what less was told, unless it is told
before the next byte (`SameInv`). The hardest step is the end of a sequence: that the
loop which takes numbers together (`Grouped`) finds again the attributes the sequence
was spelled from (`GroupedAsSpelled`), whatever is left out of them.

`RedundansiPager_proofs`, for any length of input, size of the pipe and statuses.
`PagerInvariant` says when SIGCHLD has its handler: an error of the input is known
only where it has not, so that the handler cannot return the child's status in its
place; and that a filter that exited with the child's status has seen a child that is
dead, whose fate no longer changes.  `StatusPassedOnAlways`,
`ReadErrorReportedAlways` and `ClosedBeforeWaitAlways` (the filter waits with the pipe
closed and everything written) follow; the last is what `Finishes` rests on.

`Del_proofs`, for any number of refreshes beside one menu, any entries, patterns,
directories, names and crashes.  The assumptions are that lower case is idempotent,
that commands and entries are finitely many, and that no two programs in the
directories differ in case only (`OneCaseAssumption`; without it the promise is false).
`DelInvariant` relates where a refresh is to what is at the path and what has reached
the disk: a file that is renamed is whole and was synced, the list at the path is one
that was made, the menu's descriptor stays on the list it was opened on whatever is
renamed over it, and the launcher has started as many as there are commands among the
lines it took, of which only the last can be one that does not end.
`NothingLeftBehindAlways`, `MenuReadsOneListAlways` and `StatusTellsAlways` follow.
`NeverBothWaitAlways` is what `LauncherEnds` rests on: the launcher waits, for a line or
for the end of the menu, only where the menu does not wait for room in the pipe.  After
a failure that holds because the launcher keeps the pipe open only if it tells the menu
to go (`EndsInv`).
`DelImplementsCommandList` is the refinement.  Its hard part is that a list
that was made is sorted and names nothing twice: `Sorted` places each command by
counting the smaller ones, and that this is a sequence in order is the pigeonhole
principle (`Places`, `Picked`, `SortedSorts`), which needs no induction.

`StatusLine_proofs`, for all settings, any contents of the file and any number of
signals.  `NewSecondAlways` needs, while no second has begun since the last line, that
select() still waits at least to the turn of the second, or that the flag of the
signal that woke it is set and will be looked at; `PausesFullyAlways` that a signal
less than a pause ago is either still flagged or being waited for in full.
`ChangeNoticedAlways` is what `ShownEventually` rests on: whenever the version
remembered is the one at the path, its indicators are those shown, so that a change
which comes between the look at the time and the reading is found by the next look; it
needs that a version that comes later is never the one remembered (`VersionInv`).
`NextEventShownAlways` is about arithmetic: where the clocks are behind Greenwich,
local midnight falls on the UTC day of the same date (also when mktime() takes an hour
off), so that the sun's times are those of today and tomorrow, and the one chosen is
the first of all that are to come.  `PlaceAssumption` says that the clocks fit the
place: the sun rises after midnight and sets before it. `ClocksOnceInOrderAlways` is
about what a loop over zones of any number adds up: after each zone the clocks shown
are those wanted of the zones so far (`AddedIsRow`).  A zone is wanted if no earlier
one that was asked for has it in its text, and the code looks only among those shown;
it is the same, because a zone that hides one which hides another hides that one as
well. That the fold computes this (`FoldIsRow`) is again shown by the smallest set of
zones on which two solutions of its equation would differ.  `ZonesAssumption` says
that the zones are a sequence and that strftime() returns a text.

### Only model-checked

- Liveness (`EventuallyOnTop`, `PipeEmptied`, `EventsHandled`, `Finishes`,
  `LauncherEnds`, `ShownEventually`): proofs with fairness and ENABLED are out of the
  prover's reach.  What five of them rest on in every state is proved, as far as it is
  safety: `NoticeRaises`, `NothingLeftToXlib`, `ClosedBeforeWait`, `NeverBothWait` and
  `ChangeNoticed`.  That the processes get on is left to TLC.
- `TextsAsDocumented`: for the days of a month, the phases of the moon and the
  forms of coordinates the run is exhaustive in the numbers of the model; a battery is
  checked with each key named once at most, as in the files of the kernel.

## 5. Plan

Done: the screen locker, the window list, the pipe, killclient2, unescape, redundansi,
del and statusline are modelled and checked; every safety property that a passing run
checks is proved, except `TextsAsDocumented`, and what liveness rests on where it is
safety.

Next, if the code grows: the parts of section 6 that get a partner or state of their own.

## 6. Not modelled

- Cosmetic patches of dwm, st and dmenu: drawing, fonts, colours.
- The patches under `core/patches`: changes of other programs, of a few lines each,
  whose behaviour is that of the program.
- Build system, bootstrap, configuration of programs, keys, dictionaries,
  PowerShell modules: files or one pass of commands, no state of their own.
- Text tools: one pass over their input, with no partner.
- Tag rules, pointer restriction, click to focus and system tray of dwm: the patches
  change functions of dwm whose other half is not in the repository; a model would be
  mostly external.
- The scripts that watch other processes (singleton, wait-until-idle, lock-screen,
  metamux, session-control): their state is in the process table or in tmux, and what
  they do to it is a few commands each.
- Of dwm-hooks.c: regexmatch(), which calls the C library, the window titles of
  ruleshook(), and center(), which computes coordinates; of the pipe, what a blank
  message finds in uninitialised buffers.
- utf8proc-wcwidth, exepath, xidletime, blackwalls, fifo2rootname: each one query or
  one pass.
- In statusline the astronomical formulas (`moon_phase()`, the equation of time, the
  hour angle), of which only their order on the clock is modelled.
- In the modelled programs: option parsing, messages, drawing, and running out of
  memory where the program simply ends.
