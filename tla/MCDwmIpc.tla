------------------------------ MODULE MCDwmIpc ------------------------------
(* Two windows on different tags and a selection that holds only one.        *)
EXTENDS DwmIpc, TLC

CONSTANTS w1, w2

MCMonOf == (w1 :> 0) @@ (w2 :> 0)
MCTagOf == (w1 :> 1) @@ (w2 :> 2)

Cmd(op) == [op |-> op]
SelectCmd(mon, match) == [op |-> "select", mon |-> mon, match |-> match]
UrgencyCmd(on) == [op |-> "urgency", on |-> on]
ViewCmd(tags) == [op |-> "view", tags |-> tags]
Line(commands) == [commands |-> commands, newline |-> TRUE]
NoLine(commands) == [commands |-> commands, newline |-> FALSE]

\* The two messages of a logout.
Logout == {NoLine(<<SelectCmd(AllMonitors, Window), Cmd("close")>>), NoLine(<<Cmd("quit")>>)}

\* All commands, with views that end.
MCMessage ==
  Logout \cup {Line(<<Cmd("invert"), SelectCmd(0, {w1}), ViewCmd(<<2>>)>>),
               Line(<<SelectCmd(AllMonitors, {w1, w2}), UrgencyCmd(TRUE), ViewCmd(<<1, 2, 4>>)>>),
               Line(<<Cmd("quit"), Cmd("restart")>>)}
MCViews == {Line(<<ViewCmd(<<t>>)>>) : t \in 1 .. NumTags}
=============================================================================
