---------------------------- MODULE KillClient2 ----------------------------
(***************************************************************************)
(* killclient2() of dwm-hooks.c: the key that closes the selected window   *)
(* when it is pressed twice within the time limit.  The function remembers *)
(* the window it was last called for as a pointer, so a client is its      *)
(* address here.  Clients are allocated and freed: a new one gets any      *)
(* address that is free, the one remembered included.                      *)
(*                                                                         *)
(* Time passes in ticks; Limit of them are the 250 ms.                     *)
(***************************************************************************)
EXTENDS Naturals

CONSTANTS
  Address,   \* where a Client can be allocated
  NULL,
  Window,    \* the windows that ever exist
  Limit      \* the time limit, in ticks

ASSUME NullAssumption == NULL \notin Address \cup Window
ASSUME LimitAssumption == Limit \in Nat \ {0}

VARIABLES
  client,    \* the window of the client at each address, or NULL
  sel,       \* selmon->sel
  c,         \* killclient2's static c
  lastcall,  \* ticks since killclient2 last stored the time, Limit at most
  asked,     \* the window that was asked to close just now, or NULL
  \* What happened, for the property:
  home,      \* the address of each window's client, also when it is gone
  pressed,   \* the window selected at the last press, or NULL if that press
             \* closed it
  ago        \* ticks since the last press, Limit at most

vars == <<client, sel, c, lastcall, asked, home, pressed, ago>>

Managed == {a \in Address : client[a] # NULL}

TypeOK ==
  /\ client \in [Address -> Window \cup {NULL}]
  /\ sel \in Managed \cup {NULL}
  /\ c \in Address \cup {NULL}
  /\ lastcall \in 0 .. Limit
  /\ asked \in Window \cup {NULL}
  /\ home \in [Window -> Address \cup {NULL}]
  /\ pressed \in Window \cup {NULL}
  /\ ago \in 0 .. Limit

Init ==
  /\ client = [a \in Address |-> NULL]
  /\ sel = NULL /\ c = NULL
  /\ lastcall = Limit
  /\ asked = NULL
  /\ home = [w \in Window |-> NULL]
  /\ pressed = NULL /\ ago = Limit

Tick ==
  /\ lastcall' = IF lastcall < Limit THEN lastcall + 1 ELSE lastcall
  /\ ago' = IF ago < Limit THEN ago + 1 ELSE ago
  /\ asked' = NULL
  /\ UNCHANGED <<client, sel, c, home, pressed>>

\* manage() and focus().
Open(w, a) ==
  /\ home[w] = NULL
  /\ client[a] = NULL
  /\ client' = [client EXCEPT ![a] = w]
  /\ home' = [home EXCEPT ![w] = a]
  /\ sel' = a
  /\ asked' = NULL
  /\ UNCHANGED <<c, lastcall, pressed, ago>>

\* unmanage(): the client is freed, and another one selected.
Close(a) ==
  /\ client[a] # NULL
  /\ client' = [client EXCEPT ![a] = NULL]
  /\ sel' \in IF sel # a THEN {sel}
              ELSE IF Managed = {a} THEN {NULL} ELSE Managed \ {a}
  /\ asked' = NULL
  /\ UNCHANGED <<c, lastcall, home, pressed, ago>>

Focus(a) ==
  /\ a \in Managed
  /\ sel' = a
  /\ asked' = NULL
  /\ UNCHANGED <<client, c, lastcall, home, pressed, ago>>

\* A bug of the kind the property is for: any second call counts.
KillsUntimed == sel = c

\* The second call for the same client within the limit.
Kills == sel = c /\ lastcall < Limit

killclient2 ==
  /\ sel # NULL
  /\ IF Kills
     THEN /\ asked' = client[sel] /\ pressed' = NULL
          /\ c' = NULL /\ UNCHANGED lastcall
     ELSE /\ asked' = NULL /\ pressed' = client[sel]
          /\ c' = sel /\ lastcall' = 0
  /\ ago' = 0
  /\ UNCHANGED <<client, sel, home>>

Next ==
  \/ Tick \/ killclient2
  \/ \E w \in Window, a \in Address : Open(w, a)
  \/ \E a \in Address : Close(a) \/ Focus(a)

Spec == Init /\ [][Next]_vars

-----------------------------------------------------------------------------
\* A press for v confirms one for w if they are the same window, or if v is gone
\* and the client of w has taken over its memory.
Confirms(v, w) == v = w \/ (home[v] = home[w] /\ client[home[v]] # v)

\* "this function must be called twice no more than 250 ms between calls to close
\* a window.  The delay timer is reset if the selected window has changed since
\* the last call" (dwm-hooks.c:335): a window is asked to close only if the press
\* before was within the limit, closed nothing itself, and was for that window.
\* The code compares pointers (line 361): what it does keep to is that the press
\* before was for that window or for one that has gone since and whose memory the
\* window's client was given; then its first press closes it.
ClosesOnSecondPress ==
  [][asked' # NULL =>
       pressed # NULL /\ ago < Limit /\ Confirms(pressed, asked')]_vars
=============================================================================
