------------------------------ MODULE MCDwmHooks ------------------------------
(***************************************************************************)
(* Two functions of dwm-hooks.c that dwm calls from its event loop, and    *)
(* that have no state in common: killclient2() for a key and unescape()    *)
(* for a message from the pipe.  A behaviour exercises one of them.        *)
(***************************************************************************)
EXTENDS KillClient2, Unescape

Token(text, bytes) ==
  [text |-> text, bytes |-> bytes, errno |-> "", open |-> FALSE, numeric |-> TRUE]
Wrong(text, errno) ==
  [text |-> text, bytes |-> <<>>, errno |-> errno, open |-> TRUE, numeric |-> TRUE]

\* f, 7, \x41, \101, \u00e9, \u0800, \U0001F311, and with errors \x100, \777,
\* \u12, \uD800, \U00110000; \n, \\ and \q.
MCTokens == {
  Token(<<102>>, <<102>>), Token(<<55>>, <<55>>),
  [Token(<<92, 120, 52, 49>>, <<65>>) EXCEPT !.open = TRUE],
  Token(<<92, 49, 48, 49>>, <<65>>),
  Token(<<92, 117, 48, 48, 101, 57>>, <<195, 169>>),
  Token(<<92, 117, 48, 56, 48, 48>>, <<224, 160, 128>>),
  Token(<<92, 85, 48, 48, 48, 49, 70, 51, 49, 49>>, <<240, 159, 140, 145>>),
  Wrong(<<92, 120, 49, 48, 48>>, "ERANGE"), Wrong(<<92, 55, 55, 55>>, "ERANGE"),
  Wrong(<<92, 117, 49, 50>>, "EILSEQ"), Wrong(<<92, 117, 68, 56, 48, 48>>, "EDOM"),
  Wrong(<<92, 85, 48, 48, 49, 49, 48, 48, 48, 48>>, "ERANGE"),
  [Token(<<92, 110>>, <<10>>) EXCEPT !.numeric = FALSE],
  [Token(<<92, 92>>, <<92>>) EXCEPT !.numeric = FALSE],
  [Token(<<92, 113>>, <<113>>) EXCEPT !.numeric = FALSE]}

HooksInit == Init /\ UnescapeInit
HooksNext ==
  \/ written = Nothing /\ Next /\ UNCHANGED textVars
  \/ Convert /\ UNCHANGED vars
HooksSpec == HooksInit /\ [][HooksNext]_<<vars, textVars>>
=============================================================================
