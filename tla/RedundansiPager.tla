--------------------------- MODULE RedundansiPager ---------------------------
(***************************************************************************)
(* redundansi COMMAND: the filter writes to a pipe that COMMAND, mostly a  *)
(* pager, reads, and ends with its exit status.  Until the input ends the  *)
(* end of the child is noticed by the SIGCHLD handler, afterwards by       *)
(* waiting for it.                                                         *)
(*                                                                         *)
(* Data are counted in chunks, the buffer of stdio holds one.  SIGPIPE     *)
(* kills and SIGCHLD is ignored unless handled, as is usual for a program  *)
(* run from a shell.                                                       *)
(***************************************************************************)
EXTENDS Naturals

CONSTANTS
  MaxInput,   \* bound on the chunks of input
  PipeSize,   \* chunks the pipe holds
  MaxStops,   \* bound on how often the child is stopped
  ChildStatus \* statuses the child may exit with

ASSUME SizeAssumption ==
  PipeSize \in Nat \ {0} /\ MaxInput \in Nat /\ MaxStops \in Nat
ASSUME StatusAssumption == ChildStatus \subseteq Nat

EXIT_FAILURE == 1
EXIT_IO_ERROR == 2
SIGHUP == 1
SIGTERM == 15

VARIABLES
  parent,     \* where the filter is; "killed" by SIGPIPE
  handling,   \* handle_sigchld is the handler of SIGCHLD
  input,      \* chunks still to come
  readError,  \* the input ends in an error
  buffered,   \* a chunk is in the buffer of destfile
  exit_code,
  status,     \* exit status of the filter
  child,
  fate,       \* how the child ended: an exit status, or 128 + a signal
  sighup,     \* SIGHUP was sent to it
  sigchld,    \* SIGCHLD is pending
  pipe,       \* chunks in the pipe
  open,       \* the filter holds the writing end
  stops

parentVars == <<parent, handling, input, readError, buffered, exit_code, status, open>>
childVars == <<child, fate, stops>>
vars == <<parentVars, childVars, sighup, sigchld, pipe>>

Over == parent \in {"exited", "killed"}

FlagsOK ==
  /\ handling \in BOOLEAN /\ readError \in BOOLEAN /\ buffered \in BOOLEAN
  /\ sighup \in BOOLEAN /\ sigchld \in BOOLEAN /\ open \in BOOLEAN

CountsOK ==
  /\ input \in 0 .. MaxInput /\ pipe \in 0 .. PipeSize /\ stops \in 0 .. MaxStops
  /\ exit_code \in {0, EXIT_IO_ERROR} /\ status \in Nat /\ fate \in Nat

TypeOK ==
  /\ parent \in {"starting", "opening", "reading", "writing", "closing", "waiting",
                 "handler", "exited", "killed"}
  /\ child \in {"none", "running", "stopped", "dying", "dead"}
  /\ FlagsOK /\ CountsOK

Init ==
  /\ parent = "starting" /\ handling = FALSE
  /\ input \in 0 .. MaxInput /\ readError \in BOOLEAN
  /\ buffered = FALSE /\ exit_code = 0 /\ status = 0
  /\ child = "none" /\ fate = 0 /\ sighup = FALSE /\ sigchld = FALSE
  /\ pipe = 0 /\ open = FALSE /\ stops = 0

-----------------------------------------------------------------------------
(* The filter                                                               *)

\* It exits; its end of the pipe is closed.
Exit(code) == parent' = "exited" /\ status' = code /\ open' = FALSE

Fork ==
  /\ parent = "starting"
  /\ \/ /\ Exit(EXIT_FAILURE) \* pipe() or fork() fails
        /\ handling' \in BOOLEAN /\ UNCHANGED child
     \/ /\ parent' = "opening" /\ handling' = TRUE /\ open' = TRUE /\ child' = "running"
        /\ UNCHANGED status
  /\ UNCHANGED <<input, readError, buffered, exit_code, fate, stops, sighup,
                 sigchld, pipe>>

\* close() and fdopen().
Open ==
  /\ parent = "opening"
  /\ \/ parent' = "reading" /\ UNCHANGED <<status, open, handling, sighup>>
     \/ Exit(EXIT_FAILURE) /\ handling' = FALSE /\ sighup' = TRUE
  /\ UNCHANGED <<input, readError, buffered, exit_code, childVars, sigchld, pipe>>

Read ==
  /\ parent = "reading" /\ input > 0
  /\ input' = input - 1
  /\ IF buffered THEN parent' = "writing" /\ UNCHANGED buffered
                 ELSE buffered' = TRUE /\ UNCHANGED parent
  /\ UNCHANGED <<handling, readError, exit_code, status, open, childVars, sighup,
                 sigchld, pipe>>

Reader == child \in {"running", "stopped"}

\* write() of a chunk, which waits for room; what comes after it is next.
Written(next) ==
  /\ IF Reader
     THEN pipe < PipeSize /\ pipe' = pipe + 1 /\ next
     ELSE parent' = "killed" /\ open' = FALSE /\ UNCHANGED <<pipe, buffered>>
  /\ UNCHANGED <<handling, input, readError, exit_code, status, childVars, sighup, sigchld>>

Write ==
  /\ parent = "writing"
  /\ Written(parent' = "reading" /\ UNCHANGED <<buffered, open>>)

EndOfInputHandled ==
  /\ parent = "reading" /\ input = 0
  /\ parent' = "closing"
  /\ exit_code' = IF readError THEN EXIT_IO_ERROR ELSE 0
  /\ UNCHANGED <<handling, input, readError, buffered, status, open, childVars,
                 sighup, sigchld, pipe>>

\* The handler is taken back, then ferror() looked at.
EndOfInput ==
  /\ parent = "reading" /\ input = 0
  /\ parent' = "closing" /\ handling' = FALSE
  /\ exit_code' = IF readError THEN EXIT_IO_ERROR ELSE 0
  /\ UNCHANGED <<input, readError, buffered, status, open, childVars, sighup,
                 sigchld, pipe>>

Flush ==
  /\ parent = "closing" /\ buffered
  /\ Written(buffered' = FALSE /\ UNCHANGED <<parent, open>>)

CloseLater ==
  /\ parent = "closing" /\ ~buffered
  /\ parent' = "waiting"
  /\ sighup' = (exit_code # 0)
  /\ UNCHANGED <<handling, input, readError, buffered, exit_code, status, open,
                 childVars, sigchld, pipe>>

\* fclose(), and SIGHUP for the child if there was an error.
Close ==
  /\ parent = "closing" /\ ~buffered
  /\ parent' = "waiting" /\ open' = FALSE
  /\ sighup' = (exit_code # 0)
  /\ UNCHANGED <<handling, input, readError, buffered, exit_code, status,
                 childVars, sigchld, pipe>>

FinalStatusOwn == exit_code

\* What main() returns after the child ended.
FinalStatus ==
  IF exit_code # 0 THEN exit_code
  ELSE IF sighup /\ fate = 128 + SIGHUP THEN exit_code
  ELSE fate

Wait ==
  /\ parent = "waiting" /\ child = "dead"
  /\ Exit(FinalStatus)
  /\ UNCHANGED <<handling, input, readError, buffered, exit_code, childVars,
                 sighup, sigchld, pipe>>

\* SIGCHLD interrupts the filter wherever it is; handle_sigchld() does not
\* return.
Signal ==
  /\ sigchld /\ ~Over
  /\ sigchld' = FALSE
  /\ parent' = IF handling THEN "handler" ELSE parent
  /\ UNCHANGED <<handling, input, readError, buffered, exit_code, status, open,
                 childVars, sighup, pipe>>

\* waitpid() in the handler waits for the end of the child, whatever the signal
\* was sent for.
HandlerWait ==
  /\ parent = "handler" /\ child = "dead"
  /\ Exit(fate)
  /\ UNCHANGED <<handling, input, readError, buffered, exit_code, childVars,
                 sighup, sigchld, pipe>>

Filter ==
  \/ Fork \/ Open \/ Read \/ Write \/ EndOfInput \/ Flush \/ Close \/ Wait
  \/ Signal \/ HandlerWait

-----------------------------------------------------------------------------
(* The child and the user's job control (external)                          *)

Take ==
  /\ child = "running" /\ pipe > 0
  /\ pipe' = pipe - 1
  /\ UNCHANGED <<parentVars, childVars, sighup, sigchld>>

\* The child ends: its descriptors are closed first, then SIGCHLD is sent.
EndsWith(how) ==
  /\ child = "running"
  /\ child' = "dying" /\ fate' = how
  /\ UNCHANGED <<parentVars, stops, sighup, sigchld, pipe>>

Quit == \E s \in ChildStatus \cup {128 + SIGTERM} : EndsWith(s)
Killed == sighup /\ EndsWith(128 + SIGHUP)
AtEnd == ~open /\ pipe = 0 /\ \E s \in ChildStatus : EndsWith(s)

Dies ==
  /\ child = "dying"
  /\ child' = "dead" /\ sigchld' = TRUE
  /\ UNCHANGED <<parentVars, fate, stops, sighup, pipe>>

Stop ==
  /\ child = "running" /\ stops < MaxStops
  /\ child' = "stopped" /\ stops' = stops + 1 /\ sigchld' = TRUE
  /\ UNCHANGED <<parentVars, fate, sighup, pipe>>

Continue ==
  /\ child = "stopped"
  /\ child' = "running" /\ sigchld' = TRUE
  /\ UNCHANGED <<parentVars, fate, stops, sighup, pipe>>

Child == Take \/ Quit \/ Killed \/ AtEnd \/ Dies \/ Stop \/ Continue

Next == Filter \/ Child

\* The child reads what there is and ends at the end of it; who stops it
\* continues it.
Spec ==
  /\ Init /\ [][Next]_vars
  /\ WF_vars(Filter)
  /\ WF_vars(Take) /\ WF_vars(AtEnd) /\ WF_vars(Dies) /\ WF_vars(Continue)

-----------------------------------------------------------------------------
\* The filter ends with the status of the child, however its end was noticed,
\* unless something failed.
StatusPassedOn ==
  parent = "exited" /\ exit_code = 0 /\ child # "none" /\ ~sighup => status = fate

\* "Exit status to indicate one or more I/O errors": an error of the input is
\* reported even if the child ends well at the same moment.
ReadErrorReported ==
  parent = "exited" /\ exit_code = EXIT_IO_ERROR => status = EXIT_IO_ERROR

\* Neither waits for the other: the filter ends, unless the handler was entered
\* because the child was stopped (the filter then waits for a child that waits
\* for data).
Entered == parent = "handler" => child = "dead"
Finishes == []Entered => <>Over
=============================================================================
