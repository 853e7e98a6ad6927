-------------------------- MODULE MCPasswordEntry --------------------------
(* Two bytes, a buffer of four cells (so a two-byte character can straddle *)
(* its end) and passwords as long as the buffer holds.                      *)
EXTENDS PasswordEntry

CONSTANTS a, b

MCByte == {a, b}
MCText == {<<a>>, <<b>>, <<a, b>>}
MCHashPassword == {<<a, b, a>>}
MCPamPassword == {<<b>>, <<>>}
=============================================================================
