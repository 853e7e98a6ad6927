------------------------------- MODULE DelMenu -------------------------------
(***************************************************************************)
(* "del": menu() of src/desktop-environment/utilities/del.c.  A child      *)
(* opens the command list as its input and becomes the menu; the launcher  *)
(* starts every command the menu prints on the pipe between them, waits    *)
(* for the menu and ends with a status that tells what happened.           *)
(*                                                                         *)
(* The menu is another program: it reads its input to the end, prints the  *)
(* lines the user chooses, as the user says, and ends or is killed.  The   *)
(* file it reads belongs to the module that brings the two together.       *)
(***************************************************************************)
EXTENDS Naturals, Sequences

CONSTANTS
  Closed,     \* no file is open
  MaxLines,   \* bound on the lines a user chooses
  PipeSize,   \* lines the pipe holds
  MenuStatus, \* statuses the menu may exit with
  MenuSignal  \* signals it may get from others

ASSUME PipeAssumption == PipeSize \in Nat \ {0} /\ MaxLines \in Nat
ASSUME MenuAssumption == MenuStatus \subseteq 0 .. 127 /\ MenuSignal \subseteq 1 .. 64

SIGHUP == 1
SIGPIPE == 13

VARIABLES
  launcher,  \* where the launcher is
  ends,      \* the ends of the pipe the launcher holds, of {"read", "write"}
  failure,   \* its return value so far
  started,   \* how many commands were started
  taken,     \* how many lines were read from the pipe
  hangup,    \* SIGHUP was sent to the menu
  broken,    \* history: what went wrong in the launcher, "no" (thing), "wait" or "fatal"
  menu,      \* where the menu is
  fate,      \* how it ended: its exit status, or 128 + a signal
  input,     \* the file it reads, or Closed
  seen,      \* the entries it has read
  wanted,    \* lines it has still to print
  printed    \* lines it printed: TRUE with a newline at the end

launcherVars == <<launcher, ends, failure, started, taken, hangup, broken>>
menuProgramVars == <<menu, fate, input, seen, wanted, printed>>
menuVars == <<launcherVars, menuProgramVars>>

MenuOver == menu \in {"exited", "killed"}

MenuInit ==
  /\ launcher \in {"never", "start"} /\ ends = {} /\ failure = 1 /\ started = 0 /\ taken = 0
  /\ hangup = FALSE /\ broken = "no"
  /\ menu = "none" /\ fate = 0 /\ input = Closed /\ seen = <<>>
  /\ wanted = 0 /\ printed = <<>>

-----------------------------------------------------------------------------
(* The launcher                                                             *)

\* pipe() and fork().
Launch ==
  /\ launcher = "start"
  /\ \/ launcher' = "ended" /\ broken' = "fatal" /\ UNCHANGED <<ends, menu>>
     \/ /\ launcher' = "close" /\ ends' = {"read", "write"} /\ menu' = "fork"
        /\ UNCHANGED broken
  /\ UNCHANGED <<failure, started, taken, hangup, fate, input, seen, wanted, printed>>

\* Bugs of the kind the properties are for: the launcher keeps its writing end;
\* the status of the menu replaces a failure of the launcher.
OpenOutputKept ==
  /\ launcher = "close" /\ failure' = 0 /\ launcher' = "read"
  /\ UNCHANGED <<ends, started, taken, hangup, broken, menuProgramVars>>

WaitForgetful ==
  /\ launcher = "wait" /\ MenuOver
  /\ failure' = fate /\ launcher' = "ended"
  /\ UNCHANGED <<ends, started, taken, hangup, broken, menuProgramVars>>

\* The writing end is closed, without which there would be no end of file, and
\* the other one becomes a stream.  Either may fail.
OpenOutput ==
  /\ launcher = "close" /\ ends' = {"read"}
  /\ \/ failure' = 0 /\ launcher' = "read" /\ UNCHANGED broken
     \/ broken' = "fatal" /\ launcher' = "hangup" /\ UNCHANGED failure
  /\ UNCHANGED <<started, taken, hangup, menuProgramVars>>

\* A line is read and its command started in a child.  A line without a newline,
\* which is the last one, is complained about, and the status does not change.
ReadLine ==
  /\ launcher = "read" /\ taken < Len(printed) /\ taken' = taken + 1
  /\ IF printed[taken + 1]
     THEN \/ started' = started + 1 /\ UNCHANGED <<launcher, failure, broken>>
          \/ /\ failure' = 1 /\ launcher' = "output" /\ broken' = "fatal" \* fork() fails
             /\ UNCHANGED started
     ELSE UNCHANGED <<launcher, failure, started, broken>>
  /\ UNCHANGED <<ends, hangup, menuProgramVars>>

\* The end of the output: nobody is left who could write.  Or an error.
ReadEnd ==
  /\ launcher = "read" /\ launcher' = "output"
  /\ \/ taken = Len(printed) /\ MenuOver /\ "write" \notin ends
        /\ UNCHANGED <<failure, broken>>
     \/ failure' = 1 /\ broken' = "fatal"
  /\ UNCHANGED <<ends, started, taken, hangup, menuProgramVars>>

CloseOutput ==
  /\ launcher = "output" /\ ends' = {} /\ launcher' = "hangup"
  /\ UNCHANGED <<failure, started, taken, hangup, broken, menuProgramVars>>

\* A menu that will not be listened to is told to go.
HangUp ==
  /\ launcher = "hangup" /\ hangup' = (failure = 1) /\ launcher' = "wait"
  /\ UNCHANGED <<ends, failure, started, taken, broken, menuProgramVars>>

\* waitpid(), which fails if SIGCHLD is ignored.
Wait ==
  /\ launcher = "wait" /\ MenuOver /\ launcher' = "ended"
  /\ \/ /\ failure' = IF failure = 0 THEN 2 ELSE failure
        /\ broken' = IF broken = "no" THEN "wait" ELSE broken
     \/ /\ failure' = IF failure = 0 THEN fate ELSE failure
        /\ UNCHANGED broken
  /\ UNCHANGED <<ends, started, taken, hangup, menuProgramVars>>

LauncherNext ==
  Launch \/ OpenOutput \/ ReadLine \/ ReadEnd \/ CloseOutput \/ HangUp \/ Wait

-----------------------------------------------------------------------------
(* The child, which becomes the menu                                        *)

MenuEnds(how, code) == menu' = how /\ fate' = code

\* Its output is the pipe and its input the file; a step may fail, the list be
\* missing, or there be no such menu.
BecomeMenu(file) ==
  /\ menu = "fork"
  /\ \/ MenuEnds("exited", 1) /\ UNCHANGED <<input, wanted>>
     \/ /\ file # Closed /\ input' = file /\ menu' = "reading"
        /\ wanted' \in 0 .. MaxLines /\ UNCHANGED fate
  /\ UNCHANGED <<launcherVars, seen, printed>>

\* It reads a file that holds these entries.
MenuReads(entries) ==
  /\ menu = "reading"
  /\ IF Len(seen) < Len(entries)
     THEN seen' = Append(seen, entries[Len(seen) + 1]) /\ UNCHANGED menu
     ELSE menu' = "showing" /\ UNCHANGED seen
  /\ UNCHANGED <<launcherVars, fate, input, wanted, printed>>

\* It prints a line, the last one perhaps without a newline, when there is room
\* in the pipe.  It dies of SIGPIPE when nobody would read it.
MenuPrints ==
  /\ menu = "showing" /\ wanted > 0
  /\ IF "read" \in ends
     THEN /\ Len(printed) - taken < PipeSize
          /\ printed' \in {Append(printed, TRUE)} \cup
                          (IF wanted = 1 THEN {Append(printed, FALSE)} ELSE {})
          /\ wanted' = wanted - 1 /\ UNCHANGED <<menu, fate>>
     ELSE MenuEnds("killed", 128 + SIGPIPE) /\ UNCHANGED <<printed, wanted>>
  /\ UNCHANGED <<launcherVars, input, seen>>

MenuExits ==
  /\ menu = "showing" /\ wanted = 0
  /\ \E code \in MenuStatus : MenuEnds("exited", code)
  /\ UNCHANGED <<launcherVars, input, seen, wanted, printed>>

MenuHangsUp ==
  /\ hangup /\ menu \in {"fork", "reading", "showing"} /\ MenuEnds("killed", 128 + SIGHUP)
  /\ UNCHANGED <<launcherVars, input, seen, wanted, printed>>

\* Somebody else kills it.
MenuKilled ==
  /\ menu \in {"fork", "reading", "showing"}
  /\ \E signal \in MenuSignal : MenuEnds("killed", 128 + signal)
  /\ UNCHANGED <<launcherVars, input, seen, wanted, printed>>

-----------------------------------------------------------------------------
\* The machine crashes.
MenuCrash ==
  /\ launcher' = IF launcher \in {"never", "start", "ended"} THEN launcher ELSE "dead"
  /\ menu' = IF menu = "none" \/ MenuOver THEN menu ELSE "killed"
  /\ UNCHANGED <<ends, failure, started, taken, hangup, broken, fate, input, seen,
                 wanted, printed>>

-----------------------------------------------------------------------------
\* The output of the menu stops in the middle of a line.
Incomplete == printed # <<>> /\ ~printed[Len(printed)]

\* The exit status tells what happened, in the order del.c:749 gives: 1 exactly
\* for what is called fatal, 2 if nothing is but the end of the menu could not be
\* learned, and otherwise what the menu ended with; 0 only if it exited with 0.
\* Unless something is fatal, every line the menu printed was started, except for
\* one: a line that does not end is complained about (del.c:835), is not run, and
\* leaves the status as it is, so that it may be 0, which the comment keeps for
\* "no problems".
StatusTells ==
  launcher = "ended" =>
    /\ broken = "fatal" => failure = 1
    /\ broken = "wait" => failure = 2
    /\ broken = "no" => failure = fate
    /\ failure = 0 => broken = "no" /\ menu = "exited"
    /\ broken # "fatal" => started = Len(printed) - IF Incomplete THEN 1 ELSE 0

\* The launcher ends, provided that the user finishes with the menu.
LauncherEnds == launcher = "close" ~> launcher \in {"ended", "dead"}
=============================================================================
