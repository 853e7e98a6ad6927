--------------------------- MODULE MCScreenLocker ---------------------------
(* Two screens, so that the lock of one can fail after the other; passwords *)
(* of one byte and of two, so that the states go to the startup, the queue  *)
(* and the windows.  MCPasswordEntry covers the buffer.                     *)
EXTENDS ScreenLocker

CONSTANTS a

MCByte == {a}
MCText == {<<a>>}
MCHashPassword == {<<a>>}
MCPamPassword == {<<a, a>>}
MCKeys == {[press |-> TRUE, class |-> "text", text |-> <<a>>],
           [press |-> TRUE, class |-> "Return", text |-> <<>>]}
MCMode == {<<1, 2>>, <<2, 2>>}
=============================================================================
