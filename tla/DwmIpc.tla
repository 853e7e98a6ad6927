------------------------------- MODULE DwmIpc -------------------------------
(***************************************************************************)
(* The command pipe of dwm: the event loop run() of the pipe-ipc patch,    *)
(* which waits for the pipe and the X connection at once, and fifohook()   *)
(* of dwm-hooks.c, which interprets what was read.                         *)
(*                                                                         *)
(* Writers send messages; the loop reads all that is in the pipe and hands *)
(* it to fifohook() as one string.  The commands of that string run one    *)
(* after the other; windows come, go and set their hints meanwhile, and    *)
(* their events wait in the socket or, once a request has made Xlib read   *)
(* it, in Xlib's queue, which select() does not see.                       *)
(*                                                                         *)
(* The lists of dwm are taken to be whole: select finds every client,      *)
(* where the code walks m->clients (dwm-hooks.c:288), from which, as       *)
(* DwmClients shows, attaching a window may lose others.                   *)
(*                                                                         *)
(* Left out: reads cut off at PIPE_BUF + 1 bytes, and blank messages.      *)
(***************************************************************************)
EXTENDS Naturals, Integers, Sequences, FiniteSets, SequencesExt

CONSTANTS
  Window, NULL,
  MonOf,       \* number of the monitor of each window, from 0
  TagOf,       \* tag of each window
  NumTags,     \* LENGTH(tags)
  MaxMatches,  \* LENGTH(matches)
  Message,     \* what writers send: commands, and whether a newline follows
  MaxPipe,     \* bound on the messages waiting in the pipe
  MaxChanges   \* bound on what the windows do by themselves

Selmon == 0
Tag == 1 .. NumTags
AllMonitors == -1

ASSUME WindowAssumption == NULL \notin Window /\ IsFiniteSet(Window)
ASSUME LimitAssumption == MaxMatches \in Nat \ {0} /\ NumTags \in Nat \ {0}
ASSUME BoundAssumption == MaxPipe \in Nat /\ MaxChanges \in Nat

VARIABLES
  pc,        \* "started" when select() is called first, "asleep" in a later
             \* call of select(), "parsing", "draining",
             \* "stuck" in a loop that does not end, "exited"
  running,
  pipe,      \* messages not read yet
  batch,     \* commands of the string being parsed that are left
  matches,   \* selected windows
  invert,
  exists,    \* windows of the X server that were mapped
  managed,   \* clients of dwm
  asked,     \* windows that were asked to close and have not gone
  sel,       \* selmon->sel
  urgent,    \* clients with isurgent
  hinted,    \* windows with a WM_HINTS property
  hint,      \* windows with the urgency hint in that property
  view,      \* tags shown on the selected monitor
  socket,    \* events that arrived and were not read by Xlib
  xqueue,    \* events Xlib has read and dwm has not handled
  changes    \* number of changes the windows made by themselves

pipeVars == <<running, pipe, batch, matches, invert>>
clientVars == <<exists, managed, asked, sel, urgent, hinted, hint, view>>
eventVars == <<socket, xqueue, changes>>
vars == <<pc, pipeVars, clientVars, eventVars>>

Event == {"map", "hints", "destroy"} \X Window

TypeOK ==
  /\ pc \in {"started", "asleep", "parsing", "draining", "stuck", "exited"}
  /\ running \in BOOLEAN /\ invert \in BOOLEAN
  /\ pipe \in Seq(Message) /\ Len(pipe) <= MaxPipe
  /\ Len(matches) <= MaxMatches /\ matches \in Seq(Window)
  /\ exists \subseteq Window /\ asked \subseteq Window
  /\ hint \subseteq hinted /\ hinted \subseteq exists
  /\ managed \subseteq Window /\ urgent \subseteq managed
  /\ sel \in managed \cup {NULL}
  /\ view \in (SUBSET Tag) \ {{}}
  /\ socket \subseteq Event /\ xqueue \subseteq Event
  /\ changes \in 0 .. MaxChanges

Visible(w, shown) == MonOf[w] # Selmon \/ TagOf[w] \in shown

\* focus(NULL): the top visible client of the selected monitor.  The focus
\* stack is abstracted: any of them may be the top one.
FocusChoices(clients, shown) ==
  LET candidates == {w \in clients : MonOf[w] = Selmon /\ Visible(w, shown)}
  IN IF candidates = {} THEN {NULL} ELSE candidates

-----------------------------------------------------------------------------
(* What is read from the pipe                                               *)

Words == {"close", "invert", "quit", "restart", "unknown"}
Unknown == [op |-> "unknown"]

\* The command that ends one string, followed by the command that begins the
\* next without a newline in between.  A word grows into another word; the last
\* regular expression of a select grows and matches nothing; numbers end where
\* the word begins.
Merged(a, b) ==
  IF a.op \in {"view", "urgency"} THEN <<a, b>>
  ELSE IF a.op = "select"
       THEN <<[a EXCEPT !.match = {}]>> \o (IF b.op \in Words THEN <<>> ELSE <<Unknown>>)
       ELSE <<Unknown>>

Joined(text, commands, newline) ==
  IF text = <<>> \/ newline THEN text \o commands
  ELSE Front(text) \o Merged(Last(text), Head(commands)) \o Tail(commands)

\* All messages as one string.
Batch(messages) ==
  FoldLeft(LAMBDA done, message :
             [text |-> Joined(done.text, message.commands, done.newline),
              newline |-> message.newline],
           [text |-> <<>>, newline |-> TRUE], messages).text

-----------------------------------------------------------------------------
\* The events of windows whose WM_HINTS are written.
Hints(windows) == {<<"hints", w>> : w \in windows}

\* dwm has managed the windows it found; some may have written their hints since.
Init ==
  /\ pc = "started" /\ running = TRUE
  /\ pipe = <<>> /\ batch = <<>> /\ matches = <<>> /\ invert = FALSE
  /\ exists \in SUBSET Window /\ managed = exists
  /\ view = {1} /\ asked = {}
  /\ hinted \in SUBSET exists
  /\ hint \in SUBSET {w \in hinted : ~Visible(w, view)} /\ urgent = hint
  /\ sel \in FocusChoices(managed, view)
  /\ socket = {} /\ changes = 0
  /\ xqueue \in {{}, Hints(hinted)}

-----------------------------------------------------------------------------
(* run()                                                                    *)

WakeOnEvents ==
  /\ pc \in {"started", "asleep"} /\ running
  /\ socket # {}
  /\ pc' = IF pipe # <<>> THEN "parsing" ELSE "draining"
  /\ batch' = Batch(pipe)
  /\ pipe' = <<>>
  /\ matches' = <<>> /\ invert' = FALSE
  /\ UNCHANGED <<running, clientVars, eventVars>>

\* select() returns when the pipe or the X connection is readable; what the
\* pipe holds goes to fifohook(), with a fresh selection.
Wake ==
  /\ pc \in {"started", "asleep"} /\ running
  /\ pipe # <<>> \/ socket # {}
  /\ pc' = IF pipe # <<>> THEN "parsing" ELSE "draining"
  /\ batch' = Batch(pipe)
  /\ pipe' = <<>>
  /\ matches' = <<>> /\ invert' = FALSE
  /\ UNCHANGED <<running, clientVars, eventVars>>

EndOfBatchAsleep ==
  /\ pc = "parsing" /\ batch = <<>>
  /\ pc' = IF running THEN "asleep" ELSE "exited"
  /\ matches' = <<>> /\ invert' = FALSE
  /\ UNCHANGED <<running, pipe, batch, clientVars, eventVars>>

EndOfBatch ==
  /\ pc = "parsing" /\ batch = <<>>
  /\ pc' = "draining"
  /\ matches' = <<>> /\ invert' = FALSE
  /\ UNCHANGED <<running, pipe, batch, clientVars, eventVars>>

Sleep ==
  /\ pc = "draining" /\ xqueue = {} /\ socket = {}
  /\ pc' = IF running THEN "asleep" ELSE "exited"
  /\ UNCHANGED <<pipeVars, clientVars, eventVars>>

-----------------------------------------------------------------------------
(* fifohook()                                                               *)

Command(op) ==
  /\ pc = "parsing" /\ batch # <<>>
  /\ Head(batch).op = op
  /\ batch' = Tail(batch)

\* A request that waits for its reply makes Xlib read the socket; sent are the
\* events the X server sends because of it.
RoundTrip(sent) ==
  xqueue' = xqueue \cup socket /\ socket' = sent /\ UNCHANGED changes

\* killclient() for each selected window, made the selected one for the time of
\* the call; it asks the window to close.
Close ==
  LET chosen == Range(matches) IN
  /\ Command("close")
  /\ asked' = asked \cup (chosen \cap exists)
  /\ sel' = IF sel \in chosen THEN NULL ELSE sel
  /\ IF chosen = {} THEN UNCHANGED eventVars ELSE RoundTrip({})
  /\ UNCHANGED <<pc, running, pipe, matches, invert, exists, managed, urgent,
                 hinted, hint, view>>

Invert ==
  /\ Command("invert")
  /\ invert' = TRUE
  /\ UNCHANGED <<pc, running, pipe, matches, clientVars, eventVars>>

Quit ==
  /\ Command("quit")
  /\ running' = FALSE
  /\ UNCHANGED <<pc, pipe, matches, invert, clientVars, eventVars>>

\* The monitors the loop of select visits: it starts at the first one, number
\* 0, and stops at the first one that does not match.
Visited(mon) == IF mon = AllMonitors THEN {MonOf[w] : w \in Window} ELSE {mon} \cap {0}

Found ==
  {w \in managed : /\ MonOf[w] \in Visited(Head(batch).mon)
                   /\ (w \in Head(batch).match) # invert}

SelectUnbounded ==
  /\ Command("select")
  /\ matches' = matches \o SetToSeq(Found)
  /\ invert' = FALSE
  /\ UNCHANGED <<pc, running, pipe, clientVars, eventVars>>

\* What does not fit is not selected.
Select ==
  LET all == matches \o SetToSeq(Found) IN
  /\ Command("select")
  /\ matches' = SubSeq(all, 1, IF Len(all) < MaxMatches THEN Len(all) ELSE MaxMatches)
  /\ invert' = FALSE
  /\ UNCHANGED <<pc, running, pipe, clientVars, eventVars>>

\* seturgent() sets isurgent; only if the window has WM_HINTS it writes the property,
\* of which the X server sends an event.
Urgency ==
  LET chosen == Range(matches)
      on == Head(batch).on
  IN /\ Command("urgency")
     /\ urgent' = IF on THEN urgent \cup chosen ELSE urgent \ chosen
     /\ hint' = IF on THEN hint \cup (chosen \cap hinted) ELSE hint \ chosen
     /\ IF chosen = {} THEN UNCHANGED eventVars ELSE RoundTrip(Hints(chosen \cap hinted))
     /\ UNCHANGED <<pc, running, pipe, matches, invert, exists, managed, asked,
                    sel, hinted, view>>

Shown(clients, tags) == {w \in urgent \cap clients : Visible(w, tags)}

\* What seturgent(c, 0) is called for: showhide(), when a monitor is arranged, does
\* so for the windows it shows, and focus() for the one it selects.
Calmed(clients, tags, mon, selected) ==
  {w \in Shown(clients, tags) : MonOf[w] = mon \/ w = selected}

\* The tags of view TAGS are split with strtok(), which starts over as long as
\* no tag was accepted.
Accepted(tags) == {t \in 1 .. NumTags - 1 : t \in Range(tags)}

View ==
  LET tags == Head(batch).tags
      wanted == Accepted(tags)
  IN /\ Command("view")
     /\ IF Head(tags) \notin wanted
        THEN pc' = "stuck" /\ UNCHANGED <<clientVars, eventVars>>
        ELSE /\ pc' = pc
             /\ IF wanted = view
                THEN UNCHANGED <<clientVars, eventVars>>
                ELSE /\ view' = wanted
                     /\ sel' \in FocusChoices(managed, wanted)
                     /\ LET calmed == Calmed(managed, wanted, Selmon, sel')
                        IN /\ urgent' = urgent \ calmed /\ hint' = hint \ calmed
                           /\ RoundTrip(Hints(calmed \cap hinted))
                     /\ UNCHANGED <<exists, managed, asked, hinted>>
     /\ UNCHANGED <<running, pipe, matches, invert>>

\* The connections are closed and dwm is executed anew: it scans the windows
\* that exist, takes over their hints and shows its first view.  A quit earlier in
\* the string is forgotten.
Restart ==
  LET visible == {w \in exists : Visible(w, {1})} IN
  /\ Command("restart")
  /\ \/ pc' = "exited" /\ UNCHANGED <<clientVars, eventVars, matches, invert, pipe, running>>
     \/ /\ pc' = "started" /\ running' = TRUE
        /\ pipe' = <<>> /\ matches' = <<>> /\ invert' = FALSE
        /\ managed' = exists
        /\ urgent' = hint \ visible
        /\ hint' = hint \ visible
        /\ view' = {1}
        /\ sel' \in FocusChoices(exists, {1})
        /\ xqueue' \in {{}, Hints(hinted)} /\ socket' = {}
        /\ UNCHANGED <<exists, asked, hinted, changes>>

\* Parsing stops at what is not a command; unescape() failing ends it too.
Unreadable ==
  /\ pc = "parsing" /\ batch # <<>>
  /\ Head(batch).op = "unknown"
  /\ batch' = <<>>
  /\ UNCHANGED <<pc, running, pipe, matches, invert, clientVars, eventVars>>

Fifohook ==
  Close \/ Invert \/ Quit \/ Select \/ Urgency \/ View \/ Restart \/ Unreadable

-----------------------------------------------------------------------------
(* The handlers of events (of dwm, with the urgency patch and ruleshook())  *)

HandleAnytime(e, sent) ==
  /\ pc \in {"parsing", "draining"}
  /\ e \in xqueue \cup socket
  /\ xqueue' = (xqueue \cup socket) \ {e}
  /\ socket' = sent
  /\ UNCHANGED <<pc, pipeVars, exists, changes>>

\* The event handled is taken from Xlib's queue, or from the socket when the
\* queue is empty; either way the socket has been read.
Handle(e, sent) ==
  /\ pc = "draining"
  /\ e \in xqueue \cup (IF xqueue = {} THEN socket ELSE {})
  /\ xqueue' = (xqueue \cup socket) \ {e}
  /\ socket' = sent
  /\ UNCHANGED <<pc, pipeVars, exists, changes>>

Ignore(e) == Handle(e, {}) /\ UNCHANGED <<managed, asked, sel, urgent, hinted, hint, view>>

\* A new window on tags that are not shown is marked urgent by ruleshook(); the hint
\* of one that is shown is removed.  No event tells of either: dwm asks for the
\* window's events afterwards.
HandleMap(w) ==
  LET clients == managed \cup {w}
      hidden == ~Visible(w, view)
  IN IF w \notin exists \ managed THEN Ignore(<<"map", w>>)
     ELSE /\ managed' = clients
          /\ sel' \in FocusChoices(clients, view)
          /\ LET calmed == Calmed(managed, view, MonOf[w], sel')
             IN /\ Handle(<<"map", w>>, Hints(calmed \cap hinted))
                /\ urgent' = (urgent \ calmed) \cup (IF hidden THEN {w} ELSE {})
                /\ hint' = IF hidden THEN (hint \ calmed) \cup ({w} \cap hinted)
                           ELSE hint \ (calmed \cup {w})
          /\ UNCHANGED <<asked, hinted, view>>

HandleHintsUnpatched(w) ==
  LET refused == w = sel /\ w \in hint
      becomes == IF refused \/ w \notin hinted THEN w \in urgent ELSE w \in hint
  IN IF w \notin managed THEN Ignore(<<"hints", w>>)
     ELSE /\ Handle(<<"hints", w>>, IF refused THEN Hints({w}) ELSE {})
          /\ urgent' = IF becomes THEN urgent \cup {w} ELSE urgent \ {w}
          /\ hint' = IF refused THEN hint \ {w} ELSE hint
          /\ UNCHANGED <<managed, asked, sel, hinted, view>>

\* updatewmhints(), which does nothing for a window without WM_HINTS: the selected
\* window's hint is removed; another window becomes as urgent as its hint says; then
\* the patch removes the urgency of what is visible.
HandleHints(w) ==
  LET refused == w = sel /\ w \in hint
      becomes == IF refused \/ w \notin hinted THEN w \in urgent ELSE w \in hint
      removed == becomes /\ Visible(w, view)
  IN IF w \notin managed THEN Ignore(<<"hints", w>>)
     ELSE /\ Handle(<<"hints", w>>,
                    IF refused \/ removed THEN Hints({w} \cap hinted) ELSE {})
          /\ urgent' = IF becomes /\ ~removed THEN urgent \cup {w} ELSE urgent \ {w}
          /\ hint' = IF refused \/ removed THEN hint \ {w} ELSE hint
          /\ UNCHANGED <<managed, asked, sel, hinted, view>>

HandleDestroyUnfocused(w) ==
  IF w \notin managed THEN Ignore(<<"destroy", w>>)
  ELSE /\ Handle(<<"destroy", w>>, {})
       /\ managed' = managed \ {w}
       /\ urgent' = urgent \ {w}
       /\ sel' = IF sel = w THEN NULL ELSE sel
       /\ UNCHANGED <<asked, hinted, hint, view>>

\* unmanage(): another window is focused and the monitor arranged.
HandleDestroy(w) ==
  LET clients == managed \ {w} IN
  IF w \notin managed THEN Ignore(<<"destroy", w>>)
  ELSE /\ managed' = clients
       /\ sel' \in FocusChoices(clients, view)
       /\ LET calmed == Calmed(clients, view, MonOf[w], sel')
          IN /\ Handle(<<"destroy", w>>, Hints(calmed \cap hinted))
             /\ urgent' = urgent \ (calmed \cup {w})
             /\ hint' = hint \ calmed
       /\ UNCHANGED <<asked, hinted, view>>

Dispatch == \E w \in Window : HandleMap(w) \/ HandleHints(w) \/ HandleDestroy(w)

-----------------------------------------------------------------------------
(* Writers and applications (external)                                      *)

Alive == pc # "exited"

\* A message written while a string is parsed waits as one written just after:
\* only the latter is explored.
Write(message) ==
  /\ Alive /\ pc # "parsing"
  /\ Len(pipe) < MaxPipe
  /\ pipe' = Append(pipe, message)
  /\ UNCHANGED <<pc, running, batch, matches, invert, clientVars, eventVars>>

Changes == Alive /\ changes < MaxChanges /\ changes' = changes + 1

\* A window goes, on request or not, and another may take its place once dwm
\* has heard of that.
WindowGoes(w) ==
  /\ w \in exists
  /\ IF w \in asked THEN Alive /\ UNCHANGED changes ELSE Changes
  /\ exists' = exists \ {w} /\ asked' = asked \ {w}
  /\ hinted' = hinted \ {w} /\ hint' = hint \ {w}
  /\ socket' = socket \cup {<<"destroy", w>>}
  /\ UNCHANGED <<pc, pipeVars, managed, sel, urgent, view, xqueue>>

\* With WM_HINTS or without.
WindowComes(w) ==
  /\ Changes /\ w \notin exists \cup managed
  /\ {<<"destroy", w>>, <<"map", w>>} \cap (socket \cup xqueue) = {}
  /\ exists' = exists \cup {w}
  /\ \/ UNCHANGED <<hinted, hint>>
     \/ hinted' = hinted \cup {w} /\ hint' \in {hint, hint \cup {w}}
  /\ socket' = socket \cup {<<"map", w>>}
  /\ UNCHANGED <<pc, pipeVars, managed, asked, sel, urgent, view, xqueue>>

\* An application sets the urgency hint; dwm hears of it if the window is its client.
SetsHint(w) ==
  /\ Changes /\ w \in exists \ hint
  /\ hinted' = hinted \cup {w} /\ hint' = hint \cup {w}
  /\ socket' = socket \cup Hints({w} \cap managed)
  /\ UNCHANGED <<pc, pipeVars, exists, managed, asked, sel, urgent, view, xqueue>>

Environment ==
  \/ \E message \in Message : Write(message)
  \/ \E w \in Window : WindowGoes(w) \/ WindowComes(w) \/ SetsHint(w)

-----------------------------------------------------------------------------
Loop == Wake \/ EndOfBatch \/ Sleep \/ Fifohook \/ Dispatch

Next == Loop \/ Environment

\* dwm is one thread that runs whenever select() lets it.
Spec == Init /\ [][Next]_vars /\ WF_vars(Loop)

-----------------------------------------------------------------------------
(* Properties                                                               *)

\* matches holds pointers: while a string is interpreted no client is freed,
\* so the commands that follow a select never touch a freed one.
MatchesManaged == Range(matches) \subseteq managed

\* close leaves the selected monitor without a selected window when that one
\* was asked to close; it stays so only as long as the window is there or the
\* news of its end is on the way.
SelLostOnlyToClose ==
  sel = NULL => \/ FocusChoices(managed, view) = {NULL}
                \/ \E w \in managed : MonOf[w] = Selmon
                     /\ (w \in asked \/ <<"destroy", w>> \in socket \cup xqueue)

\* "Removes urgency hint from any window that is visible" (the urgency patch):
\* urgency 1 marks visible windows too, and the event of the property it writes
\* comes back and has the mark removed.  When nothing is left to handle, no visible
\* window is urgent, but for one without WM_HINTS: there the command sets isurgent
\* and no event follows, so that it stays marked until its monitor is arranged.
UrgentSettles ==
  pc = "asleep" /\ socket = {} /\ xqueue = {} => Shown(managed, view) \cap hinted = {}

\* The requests of fifohook() make Xlib read events that select() will not
\* report again; the loop handles them before it sleeps.  Only what Xlib read
\* before the first select() waits for something else to arrive.
EventsHandled == (pc # "started" /\ xqueue # {}) ~> (xqueue = {} \/ pc = "started" \/ ~Alive)

\* What is written to the pipe is read, once the windows come to rest, unless
\* dwm stops first.
PipeEmptied == (pipe # <<>>) ~> (pipe = <<>> \/ ~running \/ ~Alive)

\* "Change current view to specified tag numbers" (dwm-hooks.c on view).
ViewShowsRequested ==
  [][View => view' = Range(Head(batch).tags)]_vars
=============================================================================
