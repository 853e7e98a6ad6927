----------------------------- MODULE CommandList -----------------------------
(***************************************************************************)
(* What "del -r" promises about the command list, the file at its path: at *)
(* any time it is absent or a list some refresh made, whole.  The machine  *)
(* may crash and bring an older one back, never a part of one.             *)
(***************************************************************************)
CONSTANTS
  Initial, \* the lists that may be there before
  Lists    \* the lists a refresh may make: sorted, each command once

VARIABLES
  list,   \* what somebody who opens the path now will read
  made    \* the lists that refreshes have made

vars == <<list, made>>

Init == list \in Initial /\ made = {list}

\* A refresh knows its result.
Make(l) == made' = made \cup {l} /\ UNCHANGED list

\* It puts it in place, or a crash brings back one that was.
Publish(l) == list' = l /\ UNCHANGED made

Next == (\E l \in Lists : Make(l)) \/ (\E l \in made : Publish(l))

Spec == Init /\ [][Next]_vars
=============================================================================
