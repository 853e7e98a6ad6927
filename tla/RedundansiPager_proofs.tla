------------------------ MODULE RedundansiPager_proofs ------------------------
(***************************************************************************)
(* What the filter returns, for every size of the input and of the pipe,   *)
(* and every status the child may end with.                                *)
(***************************************************************************)
EXTENDS RedundansiPager, TLAPS

\* The child exists from fork() on, its end is final.
ChildInv ==
  /\ parent = "starting" => child = "none" /\ ~handling
  /\ parent \in {"opening", "reading", "writing", "closing", "waiting", "handler"} =>
       child # "none"

\* SIGCHLD has its handler until the end of the input.  An error of the input is
\* known only afterwards, so the handler never passes on the status of the child
\* in its place.
HandlerInv ==
  /\ parent \in {"closing", "waiting"} => ~handling
  /\ parent = "handler" => handling
  /\ exit_code # 0 => parent \in {"closing", "waiting", "exited", "killed"} /\ ~handling

\* How the filter came to an end: it returns the status of a child that is dead,
\* whose fate is settled, or one of the failures.
StatusInv ==
  parent = "exited" =>
    /\ exit_code # 0 => status = exit_code
    /\ exit_code = 0 /\ child # "none" /\ ~sighup => child = "dead" /\ status = fate

\* The filter waits for the child only when it has given it everything and has
\* closed the pipe, so that the child is not waiting for more.
ClosedBeforeWait == parent = "waiting" => ~open /\ ~buffered

Inv == TypeOK /\ ChildInv /\ HandlerInv /\ StatusInv /\ ClosedBeforeWait

-----------------------------------------------------------------------------
USE DEF EXIT_IO_ERROR

\* At the beginning.
LEMMA InitInv == Init => Inv
<1> SUFFICES ASSUME Init PROVE Inv
  OBVIOUS
<1>1. FlagsOK
  BY DEF Init, FlagsOK
<1>2. CountsOK
  BY SizeAssumption DEF Init, CountsOK
<1> QED
  BY <1>1, <1>2 DEF Init, Inv, TypeOK, ChildInv, HandlerInv, StatusInv, ClosedBeforeWait

\* A step keeps the flags true or false,
LEMMA FlagsStep == ASSUME FlagsOK, [Next]_vars PROVE FlagsOK'
<1> USE DEF FlagsOK, parentVars, childVars
<1>1. CASE Filter
  <2>1. CASE Fork \/ Open
    BY <2>1 DEF Fork, Open, Exit
  <2>2. CASE Read \/ Write \/ EndOfInput
    BY <2>2 DEF Read, Write, Written, EndOfInput
  <2>3. CASE Flush \/ Close
    BY <2>3 DEF Flush, Written, Close
  <2>4. CASE Wait \/ Signal \/ HandlerWait
    BY <2>4 DEF Wait, Signal, HandlerWait, Exit
  <2> QED
    BY <1>1, <2>1, <2>2, <2>3, <2>4 DEF Filter
<1>2. CASE Child
  <2>1. CASE Take \/ Quit \/ Killed \/ AtEnd
    BY <2>1 DEF Take, Quit, Killed, AtEnd, EndsWith
  <2>2. CASE Dies \/ Stop \/ Continue
    BY <2>2 DEF Dies, Stop, Continue
  <2> QED
    BY <1>2, <2>1, <2>2 DEF Child
<1>3. CASE UNCHANGED vars
  BY <1>3 DEF vars
<1> QED
  BY <1>1, <1>2, <1>3 DEF Next

\* and the numbers in their ranges.
LEMMA CountsStep == ASSUME CountsOK, [Next]_vars PROVE CountsOK'
<1> USE SizeAssumption DEF CountsOK, childVars
<1>1. CASE Fork \/ Open \/ Close \/ EndOfInput \/ Signal
  BY <1>1 DEF Fork, Open, Exit, EXIT_FAILURE, Close, EndOfInput, Signal
<1>2. CASE Read
  BY <1>2 DEF Read
<1>3. CASE Write
  BY <1>3 DEF Write, Written, Reader
<1>4. CASE Flush
  <2>1. /\ \/ pipe' = pipe
           \/ pipe < PipeSize /\ pipe' = pipe + 1
        /\ UNCHANGED <<input, exit_code, status, fate, stops>>
    BY <1>4 DEF Flush, Written
  <2> QED
    BY <2>1
<1>5. CASE Wait \/ HandlerWait
  <2>1. FinalStatus \in Nat
    BY DEF FinalStatus
  <2> QED
    BY <1>5, <2>1 DEF Wait, HandlerWait, Exit
<1>6. CASE Take
  BY <1>6 DEF Take, parentVars
<1>7. ASSUME NEW how \in Nat, EndsWith(how) PROVE CountsOK'
  BY <1>7 DEF EndsWith, parentVars
<1>8. CASE Quit \/ Killed \/ AtEnd
  BY <1>7, <1>8, StatusAssumption DEF Quit, Killed, AtEnd, SIGTERM, SIGHUP
<1>9. CASE Dies \/ Stop \/ Continue
  BY <1>9 DEF Dies, Stop, Continue, parentVars
<1>10. CASE UNCHANGED vars
  BY <1>10 DEF vars, parentVars
<1> QED
  BY <1>1, <1>2, <1>3, <1>4, <1>5, <1>6, <1>8, <1>9, <1>10 DEF Next, Filter, Child

\* A step goes from one place to another.
LEMMA TypeStep == ASSUME TypeOK, [Next]_vars PROVE TypeOK'
<1>0. FlagsOK' /\ CountsOK'
  BY FlagsStep, CountsStep DEF TypeOK
<1>1. CASE Filter
  <2> USE <1>0 DEF TypeOK, childVars
  <2>1. CASE Fork \/ Open
    BY <2>1 DEF Fork, Open, Exit
  <2>2. CASE Read \/ Write \/ EndOfInput
    BY <2>2 DEF Read, Write, Written, EndOfInput
  <2>3. CASE Flush \/ Close
    BY <2>3 DEF Flush, Written, Close
  <2>4. CASE Wait \/ Signal \/ HandlerWait
    BY <2>4 DEF Wait, Signal, HandlerWait, Exit
  <2> QED
    BY <1>1, <2>1, <2>2, <2>3, <2>4 DEF Filter
<1>2. CASE Child
  <2> USE <1>0 DEF TypeOK, parentVars
  <2>1. CASE Take \/ Quit \/ Killed \/ AtEnd
    BY <2>1 DEF Take, Quit, Killed, AtEnd, EndsWith, childVars
  <2>2. CASE Dies \/ Stop \/ Continue
    BY <2>2 DEF Dies, Stop, Continue
  <2> QED
    BY <1>2, <2>1, <2>2 DEF Child
<1>3. CASE UNCHANGED vars
  BY <1>0, <1>3 DEF TypeOK, vars, parentVars, childVars
<1> QED
  BY <1>1, <1>2, <1>3 DEF Next

\* A step of the filter: one step for each of its operations.
LEMMA FilterStep == ASSUME Inv, Filter PROVE (ChildInv /\ HandlerInv /\ StatusInv)'
<1> USE DEF Inv, ChildInv, HandlerInv, StatusInv, childVars
<1>1. CASE Fork
  BY <1>1 DEF Fork, Exit
<1>2. CASE Open
  BY <1>2 DEF Open, Exit
<1>3. CASE Read
  BY <1>3 DEF Read
<1>4. CASE Write
  BY <1>4 DEF Write, Written
<1>5. CASE EndOfInput
  BY <1>5 DEF EndOfInput
<1>6. CASE Flush
  BY <1>6 DEF Flush, Written
<1>7. CASE Close
  BY <1>7 DEF Close
<1>8. CASE Wait
  <2>1. /\ exit_code # 0 => FinalStatus = exit_code
        /\ exit_code = 0 /\ ~sighup => FinalStatus = fate
    BY DEF FinalStatus
  <2>2. /\ parent' = "exited" /\ status' = FinalStatus /\ child = "dead" /\ ~handling
        /\ UNCHANGED <<handling, exit_code, child, fate, sighup>>
    BY <1>8 DEF Wait, Exit
  <2> QED
    BY <2>1, <2>2
<1>9. CASE Signal
  <2>1. /\ parent \notin {"exited", "killed"}
        /\ UNCHANGED <<handling, exit_code, child, fate, sighup, status>>
    BY <1>9 DEF Signal, Over
  <2>2. CASE handling
    <3>1. parent' = "handler" /\ parent # "starting" /\ exit_code = 0
      BY <1>9, <2>1, <2>2 DEF Signal
    <3> QED
      BY <2>1, <2>2, <3>1 DEF TypeOK
  <2>3. CASE ~handling
    <3>1. parent' = parent
      BY <1>9, <2>3 DEF Signal
    <3> QED
      BY <2>1, <3>1
  <2> QED
    BY <2>2, <2>3
<1>10. CASE HandlerWait
  BY <1>10 DEF HandlerWait, Exit
<1> QED
  BY <1>1, <1>2, <1>3, <1>4, <1>5, <1>6, <1>7, <1>8, <1>9, <1>10 DEF Filter

\* A step of the child: what it does to the filter is the signal that is pending.
LEMMA ChildStep == ASSUME Inv, Child PROVE (ChildInv /\ HandlerInv /\ StatusInv)'
<1> USE DEF Inv, ChildInv, HandlerInv, StatusInv, parentVars
<1>1. CASE Take
  BY <1>1 DEF Take, childVars
<1>2. CASE Quit \/ Killed \/ AtEnd
  BY <1>2 DEF Quit, Killed, AtEnd, EndsWith
<1>3. CASE Dies
  BY <1>3 DEF Dies
<1>4. CASE Stop
  BY <1>4 DEF Stop
<1>5. CASE Continue
  BY <1>5 DEF Continue
<1> QED
  BY <1>1, <1>2, <1>3, <1>4, <1>5 DEF Child

LEMMA ClosedStep == ASSUME ClosedBeforeWait, [Next]_vars PROVE ClosedBeforeWait'
<1> USE DEF ClosedBeforeWait, parentVars, childVars
<1>1. CASE Fork \/ Open \/ Read \/ EndOfInput \/ Wait \/ HandlerWait
  BY <1>1 DEF Fork, Open, Read, EndOfInput, Wait, HandlerWait, Exit
<1>2. CASE Write \/ Flush
  BY <1>2 DEF Write, Flush, Written
<1>3. CASE Close \/ Signal
  BY <1>3 DEF Close, Signal
<1>4. CASE Child
  BY <1>4 DEF Child, Take, Quit, Killed, AtEnd, EndsWith, Dies, Stop, Continue
<1>5. CASE UNCHANGED vars
  BY <1>5 DEF vars
<1> QED
  BY <1>1, <1>2, <1>3, <1>4, <1>5 DEF Next, Filter

LEMMA NextInv == Inv /\ [Next]_vars => Inv'
<1> SUFFICES ASSUME Inv, [Next]_vars PROVE Inv'
  OBVIOUS
<1>1. CASE UNCHANGED vars
  BY <1>1, TypeStep, ClosedStep
  DEF Inv, ChildInv, HandlerInv, StatusInv, vars, parentVars, childVars
<1> QED
  BY <1>1, TypeStep, FilterStep, ChildStep, ClosedStep DEF Inv, Next

-----------------------------------------------------------------------------
\* The invariant: where the filter and the child are, and whether SIGCHLD has its
\* handler.
THEOREM PagerInvariant == Spec => []Inv
BY InitInv, NextInv, PTL DEF Spec

\* The filter and the child never wait for each other at the end of the input, for
\* any size of the pipe: the part of Finishes that is about every state.
THEOREM ClosedBeforeWaitAlways == Spec => []ClosedBeforeWait
<1>1. Inv => ClosedBeforeWait
  BY DEF Inv
<1> QED
  BY <1>1, PagerInvariant, PTL

\* Whether the end of the child is noticed by the handler, in the middle of a read,
\* of a write or of the flush, or by waiting for it, the filter returns its status,
\* for any length of input and any pipe.
THEOREM StatusPassedOnAlways == Spec => []StatusPassedOn
<1>1. Inv => StatusPassedOn
  BY DEF Inv, StatusInv, StatusPassedOn
<1> QED
  BY <1>1, PagerInvariant, PTL

\* An error of the input is never hidden by the status of the child.
THEOREM ReadErrorReportedAlways == Spec => []ReadErrorReported
<1>1. Inv => ReadErrorReported
  BY DEF Inv, StatusInv, ReadErrorReported
<1> QED
  BY <1>1, PagerInvariant, PTL

=============================================================================
