---------------------------- MODULE LockSession ----------------------------
(***************************************************************************)
(* What the screen locker promises, without colours, buffers, event loops  *)
(* or authentication back ends: once locked, the session stays locked      *)
(* until a string that somebody typed in full is one of the accepted ones. *)
(***************************************************************************)
EXTENDS Naturals, Sequences

CONSTANTS
  Byte,      \* the characters that can be typed
  Text,      \* what one key press can insert: non-empty strings of characters
  Capacity,  \* at most Capacity - 1 characters are held
  Accepted   \* the strings that unlock the session

VARIABLES
  status,    \* "open" before the lock, then "locked", "released" or "failed"
  typed      \* the characters entered since the input was last cleared

vars == <<status, typed>>

TypeOK ==
  /\ status \in {"open", "locked", "released", "failed"}
  /\ typed \in Seq(Byte)
  /\ Len(typed) < Capacity

Init == status = "open" /\ typed = <<>>

Lock == status = "open" /\ status' = "locked" /\ UNCHANGED typed

Fail == status = "open" /\ status' = "failed" /\ UNCHANGED typed

Type(t) ==
  /\ status = "locked"
  /\ Len(typed) + Len(t) < Capacity
  /\ typed' = typed \o t
  /\ UNCHANGED status

Erase ==
  /\ status = "locked"
  /\ typed # <<>>
  /\ typed' = SubSeq(typed, 1, Len(typed) - 1)
  /\ UNCHANGED status

\* Escape, or a submitted string that was rejected.
Clear == status = "locked" /\ typed' = <<>> /\ UNCHANGED status

Release ==
  /\ status = "locked"
  /\ typed \in Accepted
  /\ status' = "released"
  /\ typed' = <<>>

Next ==
  \/ Lock \/ Fail \/ Erase \/ Clear \/ Release
  \/ \E t \in Text : Type(t)

Spec == Init /\ [][Next]_vars
=============================================================================
