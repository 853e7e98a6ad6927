---------------------------- MODULE DwmIpc_proofs ----------------------------
(***************************************************************************)
(* For any windows, monitors, tags, messages and room for matches: the     *)
(* commands of a string touch no freed client, the selected monitor loses  *)
(* its selected window only to close, and what is visible is not urgent    *)
(* once all events are handled, but for windows without WM_HINTS.          *)
(***************************************************************************)
EXTENDS DwmIpc, FiniteSetTheorems, SequenceTheorems, TLAPS

Pending(kind, w) == <<kind, w>> \in socket \cup xqueue

\* Windows are selected only while a string is interpreted, or when that has
\* stopped dwm; dwm sleeps with no event in Xlib's queue.
LoopInv ==
  /\ pc \in {"started", "asleep", "draining"} => matches = <<>>
  /\ pc = "asleep" => xqueue = {}
  /\ MatchesManaged

\* The selected window is on the selected monitor; dwm will hear of the end of
\* each client whose window is gone.
SelInv ==
  /\ sel # NULL => MonOf[sel] = Selmon
  /\ \A w \in managed \ exists : Pending("destroy", w)
  /\ SelLostOnlyToClose

\* Of each window that is urgent and visible an event is on the way, if it has the
\* property of which there are events.
UrgentInv == \A w \in Shown(managed, view) \cap hinted : Pending("hints", w)

Inv == TypeOK /\ LoopInv /\ SelInv /\ UrgentInv

-----------------------------------------------------------------------------
\* focus(NULL) selects nothing only if there is nothing to select.
LEMMA Choice ==
  ASSUME NEW clients \in SUBSET Window, NEW shown, NEW s \in FocusChoices(clients, shown)
  PROVE  /\ s \in clients \cup {NULL}
         /\ s # NULL => MonOf[s] = Selmon
         /\ s = NULL => FocusChoices(clients, shown) = {NULL}
BY WindowAssumption DEF FocusChoices

LEMMA InitInv == ASSUME Init PROVE Inv
<1> USE WindowAssumption, LimitAssumption, BoundAssumption DEF Init
<1>1. sel \in managed \cup {NULL} /\ (sel # NULL => MonOf[sel] = Selmon) /\ SelLostOnlyToClose
  <2>1. managed \in SUBSET Window
    OBVIOUS
  <2> QED BY <2>1, Choice DEF SelLostOnlyToClose
<1>2. TypeOK
  <2>1. pipe \in Seq(Message) /\ Len(pipe) <= MaxPipe
    BY EmptySeq
  <2>2. matches \in Seq(Window) /\ Len(matches) <= MaxMatches
    BY EmptySeq
  <2>3. view \in (SUBSET Tag) \ {{}}
    BY DEF Tag
  <2>4. socket \subseteq Event /\ xqueue \subseteq Event
    BY DEF Event, Hints
  <2>5. changes \in 0 .. MaxChanges
    OBVIOUS
  <2> QED BY <1>1, <2>1, <2>2, <2>3, <2>4, <2>5 DEF TypeOK
<1>3. LoopInv
  BY DEF LoopInv, MatchesManaged, Range
<1>4. SelInv
  BY <1>1 DEF SelInv
<1>5. UrgentInv
  BY DEF UrgentInv, Shown
<1> QED BY <1>2, <1>3, <1>4, <1>5 DEF Inv

-----------------------------------------------------------------------------
(* Types                                                                    *)

\* What is selected are clients, as many as there is room for.
LEMMA SelectedFit ==
  ASSUME TypeOK, MatchesManaged, Select
  PROVE  /\ matches' \in Seq(Window) /\ Len(matches') <= MaxMatches
         /\ Range(matches') \subseteq managed
<1> DEFINE all == matches \o SetToSeq(Found)
           n == IF Len(all) < MaxMatches THEN Len(all) ELSE MaxMatches
<1>1. matches \in Seq(managed)
  <2>1. matches \in Seq(Window)
    BY DEF TypeOK
  <2>2. matches \in Seq(Range(matches))
    BY <2>1, SeqOfRange
  <2> QED BY <2>2, SeqMonotonic DEF MatchesManaged
<1>2. SetToSeq(Found) \in Seq(managed)
  <2>1. Found \subseteq managed /\ managed \subseteq Window
    BY DEF Found, TypeOK
  <2>2. IsFiniteSet(Found)
    BY <2>1, WindowAssumption, FS_Subset
  <2>3. Cardinality(Found) \in Nat /\ ExistsBijection(1 .. Cardinality(Found), Found)
    BY <2>2, FS_CardinalityType
  <2>4. PICK f \in [1 .. Cardinality(Found) -> Found] : IsInjective(f)
    BY <2>3 DEF ExistsBijection, Bijection, Injection
  <2>5. SetToSeq(Found) \in [1 .. Cardinality(Found) -> Found]
    BY <2>4 DEF SetToSeq
  <2>6. \A i \in 1 .. Cardinality(Found) : SetToSeq(Found)[i] \in managed
    BY <2>1, <2>5
  <2>7. [i \in 1 .. Cardinality(Found) |-> SetToSeq(Found)[i]] \in Seq(managed)
    BY <2>3, <2>6, IsASeq
  <2> QED BY <2>5, <2>7
<1>3. all \in Seq(managed) /\ Len(all) \in Nat
  <2>1. all \in Seq(managed)
    BY <1>1, <1>2, ConcatProperties
  <2> HIDE DEF all
  <2> QED BY <2>1, LenProperties
<1> HIDE DEF all
<1>4. n \in 0 .. Len(all) /\ n <= MaxMatches
  BY <1>3, LimitAssumption
<1>5. matches' = SubSeq(all, 1, n)
  BY DEF Select, all
<1> HIDE DEF n
<1>6. matches' \in Seq(managed) /\ Len(matches') = n
  <2>1. \A i \in 1 .. n : all[i] \in managed
    <3>1. \A i \in 1 .. n : i \in 1 .. Len(all)
      BY <1>3, <1>4
    <3> QED BY <1>3, <3>1, ElementOfSeq
  <2>2. SubSeq(all, 1, n) \in Seq(managed)
    BY <1>4, <2>1, SubSeqProperties
  <2>3. Len(SubSeq(all, 1, n)) = IF 1 <= n THEN n - 1 + 1 ELSE 0
    BY <1>4, <2>1, SubSeqProperties
  <2> QED BY <1>4, <1>5, <2>2, <2>3
<1>7. managed \subseteq Window
  BY DEF TypeOK
<1>8. matches' \in Seq(Window)
  BY <1>6, <1>7, SeqMonotonic
<1>9. Range(matches') \subseteq managed
  BY <1>6, RangeOfSeq
<1> QED BY <1>4, <1>6, <1>8, <1>9

\* The parts of the state that a step may give a new type.
PipeType ==
  /\ running \in BOOLEAN /\ invert \in BOOLEAN
  /\ pipe \in Seq(Message) /\ Len(pipe) <= MaxPipe
  /\ Len(matches) <= MaxMatches /\ matches \in Seq(Window)
ClientType ==
  /\ exists \subseteq Window /\ asked \subseteq Window
  /\ hint \subseteq hinted /\ hinted \subseteq exists
  /\ managed \subseteq Window /\ urgent \subseteq managed
  /\ sel \in managed \cup {NULL}
  /\ view \in (SUBSET Tag) \ {{}}
EventType == socket \subseteq Event /\ xqueue \subseteq Event

LEMMA EmptyFits ==
  /\ <<>> \in Seq(Window) /\ <<>> \in Seq(Message)
  /\ Len(<<>>) <= MaxMatches /\ Len(<<>>) <= MaxPipe
<1>1. /\ <<>> \in Seq(Window) /\ <<>> \in Seq(Message) /\ Len(<<>>) = 0
  BY EmptySeq
<1>2. 0 <= MaxMatches /\ 0 <= MaxPipe
  BY LimitAssumption, BoundAssumption
<1> QED BY <1>1, <1>2

LEMMA TypeNext ==
  ASSUME TypeOK, MatchesManaged, [Next]_vars
  PROVE  TypeOK'
<1>0. PipeType /\ ClientType /\ EventType /\ changes \in 0 .. MaxChanges
  BY DEF TypeOK, PipeType, ClientType, EventType
<1>a. ASSUME pc' \in {pc, "started", "asleep", "parsing", "draining", "stuck", "exited"},
             PipeType', ClientType', EventType', changes' \in 0 .. MaxChanges
      PROVE  TypeOK'
  BY <1>a DEF TypeOK, PipeType, ClientType, EventType
<1>b. UNCHANGED clientVars => ClientType'
  BY <1>0 DEF ClientType, clientVars
<1>c. UNCHANGED pipeVars => PipeType'
  BY <1>0 DEF PipeType, pipeVars
<1>d. UNCHANGED eventVars => EventType' /\ changes' \in 0 .. MaxChanges
  BY <1>0 DEF EventType, eventVars
<1>e. ASSUME NEW sent \in SUBSET Event, RoundTrip(sent)
      PROVE  EventType' /\ changes' \in 0 .. MaxChanges
  BY <1>0, <1>e DEF EventType, RoundTrip
<1>f. \A s : s \subseteq Window => Hints(s) \in SUBSET Event
  BY DEF Hints, Event
<1>g. Range(matches) \subseteq managed /\ managed \subseteq Window
  BY <1>0 DEF MatchesManaged, ClientType
<1>k. \A s : Hints(s \cap hinted) \in SUBSET Event /\ Hints(hinted) \in SUBSET Event
  BY <1>0, <1>f DEF ClientType
<1>h. ASSUME NEW e, NEW sent \in SUBSET Event, Handle(e, sent)
      PROVE  EventType' /\ changes' \in 0 .. MaxChanges /\ PipeType' /\ UNCHANGED <<pc, exists>>
  BY <1>0, <1>c, <1>h DEF Handle, EventType
<1>i. ASSUME NEW e, Ignore(e) PROVE TypeOK'
  <2>1. EventType' /\ changes' \in 0 .. MaxChanges /\ PipeType' /\ UNCHANGED <<pc, exists>>
    BY <1>h, <1>i DEF Ignore
  <2>2. ClientType'
    BY <1>0, <1>i, <2>1 DEF Ignore, ClientType
  <2> QED BY <1>a, <2>1, <2>2
<1>j. UNCHANGED <<running, invert, pipe, matches>> => PipeType'
  BY <1>0 DEF PipeType
<1>1. CASE Wake
  <2>1. PipeType'
    BY <1>0, <1>1, EmptyFits DEF Wake, PipeType
  <2> QED BY <1>1, <1>a, <1>b, <1>d, <2>1 DEF Wake
<1>2. CASE EndOfBatch
  <2>1. PipeType'
    BY <1>0, <1>2, EmptyFits DEF EndOfBatch, PipeType
  <2> QED BY <1>2, <1>a, <1>b, <1>d, <2>1 DEF EndOfBatch
<1>3. CASE Sleep
  BY <1>3, <1>a, <1>b, <1>c, <1>d DEF Sleep
<1>4. CASE Close
  <2>1. PipeType' /\ UNCHANGED pc
    BY <1>4, <1>j DEF Close
  <2>2. ClientType'
    BY <1>0, <1>4 DEF Close, ClientType
  <2>3. EventType' /\ changes' \in 0 .. MaxChanges
    BY <1>4, <1>d, <1>e DEF Close
  <2> QED BY <1>a, <2>1, <2>2, <2>3
<1>5. CASE Invert \/ Quit \/ Unreadable
  <2>1. PipeType' /\ UNCHANGED <<pc, clientVars, eventVars>>
    BY <1>0, <1>5 DEF Invert, Quit, Unreadable, PipeType
  <2> QED BY <1>a, <1>b, <1>d, <2>1
<1>6. CASE Select
  <2>1. PipeType'
    BY <1>0, <1>6, SelectedFit DEF Select, PipeType
  <2> QED BY <1>6, <1>a, <1>b, <1>d, <2>1 DEF Select
<1>7. CASE Urgency
  <2>1. PipeType' /\ UNCHANGED pc
    BY <1>7, <1>j DEF Urgency
  <2>2. ClientType'
    BY <1>0, <1>7, <1>g DEF Urgency, ClientType
  <2>3. EventType' /\ changes' \in 0 .. MaxChanges
    BY <1>7, <1>d, <1>e, <1>k DEF Urgency
  <2> QED BY <1>a, <2>1, <2>2, <2>3
<1>8. CASE View
  <2>1. PipeType' /\ pc' \in {pc, "stuck"}
    BY <1>8, <1>j DEF View
  <2>2. CASE UNCHANGED <<clientVars, eventVars>>
    BY <1>a, <1>b, <1>d, <2>1, <2>2
  <2>3. CASE ~UNCHANGED <<clientVars, eventVars>>
    <3> DEFINE wanted == Accepted(Head(batch).tags)
               calmed == Calmed(managed, wanted, Selmon, sel')
    <3>1. /\ Head(Head(batch).tags) \in wanted /\ view' = wanted
          /\ sel' \in FocusChoices(managed, wanted)
          /\ urgent' = urgent \ calmed /\ hint' = hint \ calmed
          /\ RoundTrip(Hints(calmed \cap hinted))
          /\ UNCHANGED <<exists, managed, asked, hinted>>
      BY <1>8, <2>3 DEF View
    <3>2. view' \in (SUBSET Tag) \ {{}}
      BY <3>1, LimitAssumption DEF Accepted, Tag
    <3>3. sel' \in managed \cup {NULL}
      BY <1>g, <3>1, Choice
    <3>4. ClientType'
      BY <1>0, <3>1, <3>2, <3>3 DEF ClientType
    <3>5. EventType' /\ changes' \in 0 .. MaxChanges
      BY <1>e, <1>k, <3>1
    <3> QED BY <1>a, <2>1, <3>4, <3>5
  <2> QED BY <2>2, <2>3
<1>9. CASE Restart
  <2>1. CASE UNCHANGED <<clientVars, eventVars, matches, invert, pipe, running>>
    <3>1. PipeType' /\ pc' \in {"exited", "started"}
      BY <1>9, <1>j, <2>1 DEF Restart
    <3> QED BY <1>a, <1>b, <1>d, <2>1, <3>1
  <2>2. CASE ~UNCHANGED <<clientVars, eventVars, matches, invert, pipe, running>>
    <3> DEFINE visible == {w \in exists : Visible(w, {1})}
    <3>1. /\ pc' = "started" /\ running' = TRUE
          /\ pipe' = <<>> /\ matches' = <<>> /\ invert' = FALSE
          /\ managed' = exists /\ urgent' = hint \ visible
          /\ hint' = hint \ visible /\ view' = {1} /\ sel' \in FocusChoices(exists, {1})
          /\ xqueue' \in {{}, Hints(hinted)} /\ socket' = {}
          /\ UNCHANGED <<exists, asked, hinted, changes>>
      BY <1>9, <2>2 DEF Restart
    <3>2. PipeType'
      BY <1>0, <3>1, EmptyFits DEF PipeType
    <3>3. exists \subseteq Window /\ hint \subseteq exists
      BY <1>0 DEF ClientType
    <3>4. sel' \in exists \cup {NULL}
      BY <3>1, <3>3, Choice
    <3>5. view' \in (SUBSET Tag) \ {{}}
      BY <3>1, LimitAssumption DEF Tag
    <3>6. ClientType'
      BY <1>0, <3>1, <3>3, <3>4, <3>5 DEF ClientType
    <3>7. EventType'
      BY <1>k, <3>1 DEF EventType
    <3> QED BY <1>0, <1>a, <3>1, <3>2, <3>6, <3>7
  <2> QED BY <2>1, <2>2
<1>10. ASSUME NEW w \in Window, HandleMap(w) PROVE TypeOK'
  <2>1. CASE Ignore(<<"map", w>>)
    BY <1>i, <2>1
  <2>2. CASE ~Ignore(<<"map", w>>)
    <3> DEFINE calmed == Calmed(managed, view, MonOf[w], sel')
               hidden == ~Visible(w, view)
    <3>1. /\ managed' = managed \cup {w} /\ sel' \in FocusChoices(managed', view)
          /\ Handle(<<"map", w>>, Hints(calmed \cap hinted))
          /\ urgent' = (urgent \ calmed) \cup (IF hidden THEN {w} ELSE {})
          /\ hint' = IF hidden THEN (hint \ calmed) \cup ({w} \cap hinted)
                     ELSE hint \ (calmed \cup {w})
          /\ UNCHANGED <<asked, hinted, view>>
      BY <1>10, <2>2 DEF HandleMap
    <3>2. EventType' /\ changes' \in 0 .. MaxChanges /\ PipeType' /\ UNCHANGED <<pc, exists>>
      BY <1>h, <1>k, <3>1
    <3>3. sel' \in managed' \cup {NULL}
      BY <1>g, <3>1, Choice
    <3>4. ClientType'
      <4> HIDE DEF calmed, hidden
      <4> QED BY <1>0, <3>1, <3>2, <3>3 DEF ClientType
    <3> QED BY <1>a, <3>2, <3>4
  <2> QED BY <2>1, <2>2
<1>11. ASSUME NEW w \in Window, HandleHints(w) PROVE TypeOK'
  <2>1. CASE Ignore(<<"hints", w>>)
    BY <1>i, <2>1
  <2>2. CASE ~Ignore(<<"hints", w>>)
    <3>1. PICK sent \in SUBSET Event : Handle(<<"hints", w>>, sent)
      <4>1. Hints({w} \cap hinted) \in SUBSET Event
        BY <1>k
      <4> QED BY <1>11, <2>2, <4>1 DEF HandleHints
    <3>2. EventType' /\ changes' \in 0 .. MaxChanges /\ PipeType' /\ UNCHANGED <<pc, exists>>
      BY <1>h, <3>1
    <3>3. ClientType'
      BY <1>0, <1>11, <2>2, <3>2 DEF HandleHints, ClientType
    <3> QED BY <1>a, <3>2, <3>3
  <2> QED BY <2>1, <2>2
<1>12. ASSUME NEW w \in Window, HandleDestroy(w) PROVE TypeOK'
  <2>1. CASE Ignore(<<"destroy", w>>)
    BY <1>i, <2>1
  <2>2. CASE ~Ignore(<<"destroy", w>>)
    <3> DEFINE calmed == Calmed(managed \ {w}, view, MonOf[w], sel')
    <3>1. /\ managed' = managed \ {w} /\ sel' \in FocusChoices(managed', view)
          /\ Handle(<<"destroy", w>>, Hints(calmed \cap hinted))
          /\ urgent' = urgent \ (calmed \cup {w}) /\ hint' = hint \ calmed
          /\ UNCHANGED <<asked, hinted, view>>
      BY <1>12, <2>2 DEF HandleDestroy
    <3>2. EventType' /\ changes' \in 0 .. MaxChanges /\ PipeType' /\ UNCHANGED <<pc, exists>>
      BY <1>h, <1>k, <3>1
    <3>3. sel' \in managed' \cup {NULL}
      BY <1>g, <3>1, Choice
    <3>4. ClientType'
      <4> HIDE DEF calmed
      <4> QED BY <1>0, <3>1, <3>2, <3>3 DEF ClientType
    <3> QED BY <1>a, <3>2, <3>4
  <2> QED BY <2>1, <2>2
<1>13. ASSUME NEW message \in Message, Write(message) PROVE TypeOK'
  <2>1. pipe \in Seq(Message) /\ Len(pipe) < MaxPipe /\ pipe' = Append(pipe, message)
    BY <1>0, <1>13 DEF Write, PipeType
  <2>2. pipe' \in Seq(Message) /\ Len(pipe') = Len(pipe) + 1 /\ Len(pipe) \in Nat
    BY <2>1, AppendProperties, LenProperties
  <2>3. Len(pipe') <= MaxPipe
    BY <2>1, <2>2, BoundAssumption
  <2>4. PipeType'
    BY <1>0, <1>13, <2>2, <2>3 DEF Write, PipeType
  <2> QED BY <1>13, <1>a, <1>b, <1>d, <2>4 DEF Write
<1>14. ASSUME NEW w \in Window, WindowGoes(w) \/ WindowComes(w) \/ SetsHint(w) PROVE TypeOK'
  <2>1. UNCHANGED <<pc, pipeVars>>
    BY <1>14 DEF WindowGoes, WindowComes, SetsHint
  <2>2. ClientType'
    BY <1>0, <1>14 DEF WindowGoes, WindowComes, SetsHint, ClientType
  <2>3. EventType'
    BY <1>0, <1>14 DEF WindowGoes, WindowComes, SetsHint, EventType, Event, Hints
  <2>4. changes' \in 0 .. MaxChanges
    <3>1. changes' = changes \/ (changes < MaxChanges /\ changes' = changes + 1)
      BY <1>14 DEF WindowGoes, WindowComes, SetsHint, Changes
    <3> QED BY <1>0, <3>1, BoundAssumption
  <2> QED BY <1>a, <1>c, <2>1, <2>2, <2>3, <2>4
<1>15. CASE UNCHANGED vars
  BY <1>15, <1>a, <1>b, <1>c, <1>d DEF vars
<1> QED BY <1>1, <1>2, <1>3, <1>4, <1>5, <1>6, <1>7, <1>8, <1>9, <1>10, <1>11, <1>12, <1>13,
           <1>14, <1>15 DEF Next, Loop, Fifohook, Dispatch, Environment

-----------------------------------------------------------------------------
(* What the loop holds on to                                                *)

LEMMA LoopNext ==
  ASSUME TypeOK, LoopInv, [Next]_vars
  PROVE  LoopInv'
<1>0. /\ pc \in {"started", "asleep", "draining"} => matches = <<>>
      /\ pc = "asleep" => xqueue = {}
      /\ Range(matches) \subseteq managed
  BY DEF LoopInv, MatchesManaged
<1>a. ASSUME matches' = <<>>, pc' = "asleep" => xqueue' = {} PROVE LoopInv'
  BY <1>a DEF LoopInv, MatchesManaged, Range
<1>b. ASSUME UNCHANGED <<matches, managed, pc>>, pc = "asleep" => xqueue' = {} PROVE LoopInv'
  BY <1>0, <1>b DEF LoopInv, MatchesManaged
<1>c. ASSUME pc = "draining", UNCHANGED <<pc, matches>> PROVE LoopInv'
  BY <1>0, <1>a, <1>c
<1>1. CASE Wake \/ EndOfBatch
  BY <1>1, <1>a DEF Wake, EndOfBatch
<1>2. CASE Sleep
  BY <1>0, <1>2, <1>a DEF Sleep, pipeVars, eventVars
<1>3. CASE Close \/ Invert \/ Quit \/ Urgency \/ Unreadable
  BY <1>3, <1>b DEF Close, Invert, Quit, Urgency, Unreadable, Command, clientVars
<1>4. CASE Select
  <2>1. Range(matches') \subseteq managed
    BY <1>4, SelectedFit DEF LoopInv
  <2>2. UNCHANGED managed /\ pc' = "parsing"
    BY <1>4 DEF Select, Command, clientVars
  <2> QED BY <2>1, <2>2 DEF LoopInv, MatchesManaged
<1>5. CASE View
  <2>1. pc = "parsing" /\ pc' \in {"parsing", "stuck"} /\ UNCHANGED <<matches, managed>>
    BY <1>5 DEF View, Command, clientVars
  <2> QED BY <1>0, <2>1 DEF LoopInv, MatchesManaged
<1>6. CASE Restart
  <2>1. CASE matches' = <<>> /\ pc' = "started"
    BY <1>a, <2>1
  <2>2. CASE pc' = "exited" /\ UNCHANGED <<matches, managed>>
    BY <1>0, <2>2 DEF LoopInv, MatchesManaged
  <2> QED BY <1>6, <2>1, <2>2 DEF Restart, clientVars
<1>7. CASE Dispatch
  <2>1. pc = "draining" /\ UNCHANGED <<pc, matches>>
    BY <1>7 DEF Dispatch, HandleMap, HandleHints, HandleDestroy, Ignore, Handle, pipeVars
  <2> QED BY <1>c, <2>1
<1>8. CASE Environment
  <2>1. UNCHANGED <<pc, matches, managed, xqueue>>
    BY <1>8 DEF Environment, Write, WindowGoes, WindowComes, SetsHint, pipeVars, clientVars,
                eventVars
  <2> QED BY <1>0, <1>b, <2>1
<1>9. CASE UNCHANGED vars
  BY <1>0, <1>9, <1>b DEF vars, pipeVars, clientVars, eventVars
<1> QED BY <1>1, <1>2, <1>3, <1>4, <1>5, <1>6, <1>7, <1>8, <1>9 DEF Next, Loop, Fifohook

-----------------------------------------------------------------------------
(* The selected window                                                      *)

\* After focus(NULL).
LEMMA Refocused ==
  ASSUME managed' \subseteq Window, sel' \in FocusChoices(managed', view'),
         \A w \in managed' \ exists' : Pending("destroy", w)'
  PROVE  SelInv'
<1>1. sel' # NULL => MonOf[sel'] = Selmon
  BY Choice
<1>2. sel' = NULL => FocusChoices(managed', view') = {NULL}
  BY Choice
<1>3. SelLostOnlyToClose'
  BY <1>2 DEF SelLostOnlyToClose
<1> QED BY <1>1, <1>3 DEF SelInv

\* As long as nobody goes and no event is lost, nothing changes.
LEMMA SelKept ==
  ASSUME SelInv, UNCHANGED <<managed, view, sel>>, exists \subseteq exists', asked \subseteq asked',
         \A w \in managed : Pending("destroy", w) => Pending("destroy", w)'
  PROVE  SelInv'
<1>1. sel' # NULL => MonOf[sel'] = Selmon
  BY DEF SelInv
<1>2. \A w \in managed' \ exists' : Pending("destroy", w)'
  BY DEF SelInv
<1>3. SelLostOnlyToClose'
  BY DEF SelInv, SelLostOnlyToClose, Pending
<1> QED BY <1>1, <1>2, <1>3 DEF SelInv

LEMMA SelNext ==
  ASSUME TypeOK, LoopInv, SelInv, [Next]_vars
  PROVE  SelInv'
<1>0. managed \subseteq Window /\ exists \subseteq Window /\ sel \in managed \cup {NULL}
  BY DEF TypeOK
<1>a. \A w \in managed \ exists : Pending("destroy", w)
  BY DEF SelInv
<1>b. ASSUME UNCHANGED <<clientVars, socket, xqueue>> PROVE SelInv'
  BY <1>b, SelKept DEF clientVars, Pending
<1>c. ASSUME NEW sent, RoundTrip(sent), NEW kind, NEW w, Pending(kind, w)
      PROVE  Pending(kind, w)'
  BY <1>c DEF RoundTrip, Pending
<1>d. ASSUME NEW e, NEW sent, Handle(e, sent), NEW kind, NEW w, <<kind, w>> # e,
             Pending(kind, w)
      PROVE  Pending(kind, w)'
  BY <1>d DEF Handle, Pending
<1>1. CASE Wake \/ EndOfBatch \/ Sleep \/ Invert \/ Quit \/ Select \/ Unreadable
  BY <1>1, <1>b DEF Wake, EndOfBatch, Sleep, Invert, Quit, Select, Unreadable, eventVars
<1>2. CASE Close
  <2>1. /\ UNCHANGED <<exists, managed, view>> /\ asked \subseteq asked'
        /\ asked' = asked \cup (Range(matches) \cap exists)
        /\ sel' = IF sel \in Range(matches) THEN NULL ELSE sel
    BY <1>2 DEF Close
  <2>2. \A w : Pending("destroy", w) => Pending("destroy", w)'
    BY <1>2, <1>c DEF Close, eventVars, Pending
  <2>3. CASE sel \notin Range(matches)
    BY <2>1, <2>2, <2>3, SelKept
  <2>4. CASE sel \in Range(matches)
    <3>0. PICK w : w = sel
      OBVIOUS
    <3>1. w \in managed /\ sel' = NULL
      BY <2>1, <2>4, <3>0 DEF LoopInv, MatchesManaged
    <3>2. MonOf[w] = Selmon
      BY <1>0, <3>0, <3>1, WindowAssumption DEF SelInv
    <3>3. w \in asked' \/ Pending("destroy", w)'
      BY <1>a, <2>1, <2>2, <2>4, <3>0, <3>1
    <3>4. SelLostOnlyToClose'
      BY <2>1, <3>1, <3>2, <3>3 DEF SelLostOnlyToClose, Pending
    <3> QED BY <1>a, <2>1, <2>2, <3>1, <3>4 DEF SelInv
  <2> QED BY <2>3, <2>4
<1>3. CASE Urgency
  <2>1. UNCHANGED <<exists, managed, asked, sel, view>>
    BY <1>3 DEF Urgency
  <2>2. \A w : Pending("destroy", w) => Pending("destroy", w)'
    BY <1>3, <1>c DEF Urgency, eventVars, Pending
  <2> QED BY <2>1, <2>2, SelKept
<1>4. CASE View
  <2> DEFINE wanted == Accepted(Head(batch).tags)
  <2>1. CASE UNCHANGED <<clientVars, eventVars>>
    BY <1>b, <2>1 DEF eventVars
  <2>2. CASE ~UNCHANGED <<clientVars, eventVars>>
    <3>1. /\ view' = wanted /\ sel' \in FocusChoices(managed, wanted)
          /\ \E sent : RoundTrip(sent)
          /\ UNCHANGED <<exists, managed, asked>>
      BY <1>4, <2>2 DEF View
    <3>2. \A w \in managed' \ exists' : Pending("destroy", w)'
      BY <1>a, <1>c, <3>1
    <3> QED BY <1>0, <3>1, <3>2, Refocused
  <2> QED BY <2>1, <2>2
<1>5. CASE Restart
  <2>1. CASE UNCHANGED <<clientVars, eventVars>>
    BY <1>b, <2>1 DEF eventVars
  <2>2. CASE ~UNCHANGED <<clientVars, eventVars>>
    <3>1. managed' = exists /\ exists' = exists /\ view' = {1} /\ sel' \in FocusChoices(exists, {1})
      BY <1>5, <2>2 DEF Restart
    <3> QED BY <1>0, <3>1, Refocused
  <2> QED BY <2>1, <2>2
<1>6. ASSUME NEW e, NEW w \in Window, e = <<"map", w>> \/ e = <<"hints", w>> \/ w \notin managed,
             e \in {<<kind, w>> : kind \in {"map", "hints", "destroy"}}, Ignore(e)
      PROVE  SelInv'
  <2>1. UNCHANGED <<exists, managed, asked, sel, view>>
    BY <1>6 DEF Ignore, Handle
  <2>2. \A v \in managed : Pending("destroy", v) => Pending("destroy", v)'
    BY <1>6, <1>d DEF Ignore
  <2> QED BY <2>1, <2>2, SelKept
<1>7. ASSUME NEW w \in Window, HandleMap(w) PROVE SelInv'
  <2>1. CASE Ignore(<<"map", w>>)
    BY <1>6, <2>1
  <2>2. CASE ~Ignore(<<"map", w>>)
    <3>1. /\ w \in exists /\ managed' = managed \cup {w}
          /\ sel' \in FocusChoices(managed', view) /\ UNCHANGED <<asked, view>>
          /\ \E sent : Handle(<<"map", w>>, sent)
      BY <1>7, <2>2 DEF HandleMap
    <3>2. UNCHANGED exists
      BY <3>1 DEF Handle
    <3>3. \A v \in managed' \ exists' : Pending("destroy", v)'
      BY <1>a, <1>d, <3>1, <3>2
    <3> QED BY <1>0, <3>1, <3>3, Refocused
  <2> QED BY <2>1, <2>2
<1>8. ASSUME NEW w \in Window, HandleHints(w) PROVE SelInv'
  <2>1. CASE Ignore(<<"hints", w>>)
    BY <1>6, <2>1
  <2>2. CASE ~Ignore(<<"hints", w>>)
    <3>1. UNCHANGED <<managed, asked, sel, view>> /\ \E sent : Handle(<<"hints", w>>, sent)
      BY <1>8, <2>2 DEF HandleHints
    <3>2. UNCHANGED exists
      BY <3>1 DEF Handle
    <3>3. \A v \in managed : Pending("destroy", v) => Pending("destroy", v)'
      BY <1>d, <3>1
    <3> QED BY <3>1, <3>2, <3>3, SelKept
  <2> QED BY <2>1, <2>2
<1>9. ASSUME NEW w \in Window, HandleDestroy(w) PROVE SelInv'
  <2>1. CASE w \notin managed
    BY <1>6, <1>9, <2>1 DEF HandleDestroy
  <2>2. CASE w \in managed
    <3>1. /\ managed' = managed \ {w} /\ sel' \in FocusChoices(managed', view)
          /\ UNCHANGED <<asked, view>> /\ \E sent : Handle(<<"destroy", w>>, sent)
      BY <1>9, <2>2 DEF HandleDestroy
    <3>2. UNCHANGED exists
      BY <3>1 DEF Handle
    <3>3. \A v \in managed' \ exists' : Pending("destroy", v)'
      BY <1>a, <1>d, <3>1, <3>2
    <3> QED BY <1>0, <3>1, <3>3, Refocused
  <2> QED BY <2>1, <2>2
<1>10. CASE \E message \in Message : Write(message)
  BY <1>10, <1>b DEF Write, eventVars
<1>11. ASSUME NEW w \in Window, WindowGoes(w) PROVE SelInv'
  <2>1. /\ exists' = exists \ {w} /\ asked' = asked \ {w} /\ UNCHANGED <<managed, view, sel, xqueue>>
        /\ socket' = socket \cup {<<"destroy", w>>}
    BY <1>11 DEF WindowGoes
  <2>2. \A v : Pending("destroy", v)' <=> v = w \/ Pending("destroy", v)
    BY <2>1 DEF Pending
  <2>3. SelLostOnlyToClose'
    <3>1. SUFFICES ASSUME sel = NULL, FocusChoices(managed, view) # {NULL}
                   PROVE  \E v \in managed : MonOf[v] = Selmon
                                             /\ (v \in asked' \/ Pending("destroy", v)')
      BY <2>1 DEF SelLostOnlyToClose, Pending
    <3>2. PICK v \in managed : MonOf[v] = Selmon /\ (v \in asked \/ Pending("destroy", v))
      BY <3>1 DEF SelInv, SelLostOnlyToClose, Pending
    <3>3. v \in asked' \/ Pending("destroy", v)'
      BY <2>1, <2>2, <3>2
    <3> QED BY <3>2, <3>3
  <2>4. \A v \in managed' \ exists' : Pending("destroy", v)'
    BY <1>a, <2>1, <2>2
  <2>5. sel' # NULL => MonOf[sel'] = Selmon
    BY <2>1 DEF SelInv
  <2> QED BY <2>3, <2>4, <2>5 DEF SelInv
<1>12. ASSUME NEW w \in Window, WindowComes(w) \/ SetsHint(w) PROVE SelInv'
  <2>1. /\ UNCHANGED <<managed, view, sel, asked, xqueue>> /\ exists \subseteq exists'
        /\ socket \subseteq socket'
    BY <1>12 DEF WindowComes, SetsHint
  <2>2. \A v : Pending("destroy", v) => Pending("destroy", v)'
    BY <2>1 DEF Pending
  <2> QED BY <2>1, <2>2, SelKept
<1>13. CASE UNCHANGED vars
  BY <1>13, <1>b DEF vars, eventVars
<1> QED BY <1>1, <1>2, <1>3, <1>4, <1>5, <1>7, <1>8, <1>9, <1>10, <1>11, <1>12, <1>13
        DEF Next, Loop, Fifohook, Dispatch, Environment

-----------------------------------------------------------------------------
(* Urgent windows                                                           *)

\* Nobody becomes urgent or visible or gets hints, and no event about hints is lost.
LEMMA UrgentKept ==
  ASSUME UrgentInv, urgent' \subseteq urgent, UNCHANGED view, managed' \subseteq managed,
         hinted' \subseteq hinted,
         \A w \in Shown(managed, view)' : Pending("hints", w) => Pending("hints", w)'
  PROVE  UrgentInv'
BY DEF UrgentInv, Shown

LEMMA UrgentNext ==
  ASSUME TypeOK, UrgentInv, [Next]_vars
  PROVE  UrgentInv'
<1>0. urgent \subseteq managed
  BY DEF TypeOK
<1>b. ASSUME UNCHANGED <<urgent, view, managed, hinted, socket, xqueue>> PROVE UrgentInv'
  BY <1>b, UrgentKept DEF Pending
<1>c. ASSUME NEW sent, RoundTrip(sent), NEW kind, NEW w, Pending(kind, w)
      PROVE  Pending(kind, w)'
  BY <1>c DEF RoundTrip, Pending
<1>d. ASSUME NEW e, NEW sent, Handle(e, sent), NEW kind, NEW w, <<kind, w>> # e,
             Pending(kind, w)
      PROVE  Pending(kind, w)'
  BY <1>d DEF Handle, Pending
<1>1. CASE Wake \/ EndOfBatch \/ Sleep \/ Invert \/ Quit \/ Select \/ Unreadable
  BY <1>1, <1>b DEF Wake, EndOfBatch, Sleep, Invert, Quit, Select, Unreadable, clientVars,
                    eventVars
<1>2. CASE Close
  <2>1. UNCHANGED <<urgent, view, managed, hinted>>
    BY <1>2 DEF Close
  <2>2. \A w : Pending("hints", w) => Pending("hints", w)'
    BY <1>2, <1>c DEF Close, eventVars, Pending
  <2> QED BY <2>1, <2>2, UrgentKept
<1>3. CASE Urgency
  <2> DEFINE chosen == Range(matches)
  <2>1. /\ urgent' \subseteq urgent \cup chosen /\ UNCHANGED <<view, managed, hinted>>
        /\ IF chosen = {} THEN UNCHANGED eventVars ELSE RoundTrip(Hints(chosen \cap hinted))
    BY <1>3 DEF Urgency
  <2>2. \A w \in chosen \cap hinted : Pending("hints", w)'
    BY <2>1 DEF RoundTrip, Hints, Pending
  <2>3. \A w : Pending("hints", w) => Pending("hints", w)'
    BY <2>1, <1>c DEF eventVars, Pending
  <2> QED BY <2>1, <2>2, <2>3 DEF UrgentInv, Shown
<1>4. CASE View
  <2> DEFINE wanted == Accepted(Head(batch).tags)
             calmed == Calmed(managed, wanted, Selmon, sel')
  <2>1. CASE UNCHANGED <<clientVars, eventVars>>
    BY <1>b, <2>1 DEF clientVars, eventVars
  <2>2. CASE ~UNCHANGED <<clientVars, eventVars>>
    <3>1. /\ view' = wanted /\ urgent' = urgent \ calmed /\ UNCHANGED <<managed, hinted>>
          /\ \E sent : RoundTrip(sent)
      BY <1>4, <2>2 DEF View
    <3>2. ASSUME NEW w \in Shown(managed, view)'
          PROVE  w \in Shown(managed, view)
      BY <3>1, <3>2 DEF Shown, Calmed, Visible
    <3>3. \A w : Pending("hints", w) => Pending("hints", w)'
      BY <1>c, <3>1
    <3> QED BY <3>1, <3>2, <3>3 DEF UrgentInv
  <2> QED BY <2>1, <2>2
<1>5. CASE Restart
  <2>1. CASE UNCHANGED <<clientVars, eventVars>>
    BY <1>b, <2>1 DEF clientVars, eventVars
  <2>2. CASE ~UNCHANGED <<clientVars, eventVars>>
    <3>1. /\ managed' = exists /\ view' = {1}
          /\ urgent' = hint \ {w \in exists : Visible(w, {1})}
      BY <1>5, <2>2 DEF Restart
    <3>2. Shown(managed, view)' = {}
      BY <3>1 DEF Shown
    <3> QED BY <3>2 DEF UrgentInv
  <2> QED BY <2>1, <2>2
<1>6. ASSUME NEW w \in Window, NEW e, Ignore(e), e # <<"hints", w>> \/ w \notin managed,
             e \in {<<kind, w>> : kind \in {"map", "hints", "destroy"}}
      PROVE  UrgentInv'
  <2>1. UNCHANGED <<urgent, view, managed, hinted>>
    BY <1>6 DEF Ignore
  <2>2. \A v \in managed : Pending("hints", v) => Pending("hints", v)'
    BY <1>6, <1>d DEF Ignore
  <2> QED BY <2>1, <2>2, UrgentKept DEF Shown
<1>7. ASSUME NEW w \in Window, HandleMap(w) PROVE UrgentInv'
  <2>1. CASE Ignore(<<"map", w>>)
    BY <1>6, <2>1
  <2>2. CASE ~Ignore(<<"map", w>>)
    <3>1. /\ w \notin managed /\ managed' = managed \cup {w} /\ UNCHANGED <<view, hinted>>
          /\ urgent' \subseteq urgent \cup (IF ~Visible(w, view) THEN {w} ELSE {})
          /\ \E sent : Handle(<<"map", w>>, sent)
      BY <1>7, <2>2 DEF HandleMap
    <3>2. Shown(managed, view)' \subseteq Shown(managed, view)
      BY <1>0, <3>1 DEF Shown, Visible
    <3>3. \A v : Pending("hints", v) => Pending("hints", v)'
      BY <1>d, <3>1
    <3> QED BY <3>1, <3>2, <3>3 DEF UrgentInv
  <2> QED BY <2>1, <2>2
<1>8. ASSUME NEW w \in Window, HandleHints(w) PROVE UrgentInv'
  <2>1. CASE w \notin managed
    BY <1>6, <1>8, <2>1 DEF HandleHints
  <2>2. CASE w \in managed
    <3>1. /\ UNCHANGED <<managed, view, hinted>>
          /\ urgent' \subseteq urgent \cup {w}
          /\ w \in urgent' => ~Visible(w, view)
          /\ \E sent : Handle(<<"hints", w>>, sent)
      BY <1>8, <2>2 DEF HandleHints
    <3>2. Shown(managed, view)' \subseteq Shown(managed, view) \ {w}
      BY <3>1 DEF Shown, Visible
    <3>3. \A v : v # w /\ Pending("hints", v) => Pending("hints", v)'
      BY <1>d, <3>1
    <3> QED BY <3>1, <3>2, <3>3 DEF UrgentInv
  <2> QED BY <2>1, <2>2
<1>9. ASSUME NEW w \in Window, HandleDestroy(w) PROVE UrgentInv'
  <2>1. CASE w \notin managed
    BY <1>6, <1>9, <2>1 DEF HandleDestroy
  <2>2. CASE w \in managed
    <3>1. /\ managed' = managed \ {w} /\ UNCHANGED <<view, hinted>>
          /\ urgent' \subseteq urgent /\ \E sent : Handle(<<"destroy", w>>, sent)
      BY <1>9, <2>2 DEF HandleDestroy
    <3>2. \A v : Pending("hints", v) => Pending("hints", v)'
      BY <1>d, <3>1
    <3> QED BY <3>1, <3>2, UrgentKept
  <2> QED BY <2>1, <2>2
<1>10. CASE Environment
  <2>1. UNCHANGED <<urgent, view, managed, xqueue>> /\ socket \subseteq socket'
    BY <1>10 DEF Environment, Write, WindowGoes, WindowComes, SetsHint, clientVars, eventVars
  <2>2. \A v : Pending("hints", v) => Pending("hints", v)'
    BY <2>1 DEF Pending
  <2>3. ASSUME NEW w \in (managed \cap hinted') \ hinted PROVE Pending("hints", w)'
    <3>1. SetsHint(w)
      BY <1>10, <2>3 DEF Environment, Write, WindowGoes, WindowComes, SetsHint, clientVars
    <3> QED BY <2>3, <3>1 DEF SetsHint, Hints, Pending
  <2> QED BY <2>1, <2>2, <2>3 DEF UrgentInv, Shown
<1>11. CASE UNCHANGED vars
  BY <1>11, <1>b DEF vars, clientVars, eventVars
<1> QED BY <1>1, <1>2, <1>3, <1>4, <1>5, <1>7, <1>8, <1>9, <1>10, <1>11
        DEF Next, Loop, Fifohook, Dispatch

-----------------------------------------------------------------------------
(* The theorems                                                             *)

\* The inductive invariant, for any windows, monitors, tags and messages.
THEOREM IpcInvariant == Spec => []Inv
<1>1. ASSUME Inv, [Next]_vars PROVE Inv'
  BY <1>1, TypeNext, LoopNext, SelNext, UrgentNext DEF Inv, LoopInv
<1> QED BY InitInv, <1>1, PTL DEF Spec

\* Whatever the messages say, all variables keep their types; in particular at
\* least one tag is shown, and no more windows are selected than there is room.
THEOREM IpcTypeOK == Spec => []TypeOK
<1>1. Inv => TypeOK
  BY DEF Inv
<1> QED BY <1>1, IpcInvariant, PTL

\* The pointers that select collects for fifohook() are of clients that have
\* not been freed.
THEOREM MatchesManagedAlways == Spec => []MatchesManaged
<1>1. Inv => MatchesManaged
  BY DEF Inv, LoopInv
<1> QED BY <1>1, IpcInvariant, PTL

\* close is the only thing that can leave the selected monitor without a
\* selected window, until dwm hears that the window is gone.
THEOREM SelLostOnlyToCloseAlways == Spec => []SelLostOnlyToClose
<1>1. Inv => SelLostOnlyToClose
  BY DEF Inv, SelInv
<1> QED BY <1>1, IpcInvariant, PTL

\* When dwm sleeps and no event is left, no visible window that has WM_HINTS is
\* urgent.
THEOREM UrgentSettlesAlways == Spec => []UrgentSettles
<1>1. Inv => UrgentSettles
  BY DEF Inv, UrgentInv, UrgentSettles, Pending
<1> QED BY <1>1, IpcInvariant, PTL

\* dwm does not call select() again with an event left in Xlib's queue, which
\* select() would not report: requests of fifohook() may have read it.
THEOREM NothingLeftToXlib == Spec => [](pc = "asleep" => xqueue = {})
<1>1. Inv => (pc = "asleep" => xqueue = {})
  BY DEF Inv, LoopInv
<1> QED BY <1>1, IpcInvariant, PTL
=============================================================================
