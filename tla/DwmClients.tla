----------------------------- MODULE DwmClients -----------------------------
(***************************************************************************)
(* The windows dwm manages, with the patches of this repository that       *)
(* decide where a window stands and what it shows: attachment by priority, *)
(* select-previous-window, visibility-removes-urgency and the rules hook.  *)
(*                                                                         *)
(* wm is dwm's data: each monitor has a client list, linked by next        *)
(* pointers and kept as such because one patch relinks it by hand, and a   *)
(* focus stack.  Every event handler runs to its end before the next       *)
(* event, so each is one action, composed from the functions it calls; the *)
(* unpatched functions of dwm are external.                                *)
(***************************************************************************)
EXTENDS Naturals, Sequences, FiniteSets, SequencesExt

CONSTANTS
  Client,      \* the windows
  NULL,
  Tag,         \* the tags
  Priority,    \* priority of each client, from the rules or the default
  RuleTags,    \* tags the rules give a client; {} for none
  Setups       \* what the screen, the rules and the windows may be like:
               \*   mons, the number of monitors
               \*   windows, those that come
               \*   tagSets, the tags the user switches to or gives a client
               \*   ruleFloats, the clients a rule makes floating
               \*   neverFocus, those that refuse the input focus
               \*   mayFloat, the clients that users make floating or tiled, or
               \*     that ask for full screen
               \*   transients, the clients that are dialogs of another one

ASSUME ClientAssumption == NULL \notin Client /\ IsFiniteSet(Client)
ASSUME TagAssumption == RuleTags \in [Client -> SUBSET Tag] /\ Tag # {}
ASSUME SetupAssumption ==
  \A s \in Setups :
    /\ s.mons \in Nat \ {0} /\ NULL \notin 1 .. s.mons
    /\ s.tagSets \subseteq (SUBSET Tag) \ {{}}
    /\ s.windows \subseteq Client /\ s.mayFloat \subseteq Client
ASSUME PriorityAssumption == Priority \in [Client -> Nat]

VARIABLES wm, setup

vars == <<wm, setup>>

Mon == 1 .. setup.mons

\* ISVISIBLE: the client has a tag its monitor shows.
Visible(w, c) == w.tags[c] \cap w.tagset[w.mon[c]] # {}
Managed(w) == {c \in Client : w.mon[c] # NULL}

\* The first element of a sequence that is in a set.
First(seq, S) ==
  seq[CHOOSE i \in DOMAIN seq :
        seq[i] \in S /\ \A j \in DOMAIN seq : seq[j] \in S => i <= j]

\* The client list of a monitor, followed from its head up to NULL.  A list that
\* does not end after as many clients as there are windows has a cycle.
At(w, m) ==
  LET at[k \in 0 .. Cardinality(setup.windows)] ==
        IF k = 0 THEN w.head[m]
        ELSE IF at[k - 1] = NULL THEN NULL ELSE w.next[at[k - 1]]
  IN at
List(w, m) ==
  LET at == At(w, m)
  IN [k \in 1 .. Cardinality({i \in 0 .. Cardinality(setup.windows) - 1 : at[i] # NULL}) |->
        at[k - 1]]

\* wintoclient(): a window is found through the client lists.
Found(w, c) == \E m \in Mon : c \in Range(List(w, m))

-----------------------------------------------------------------------------
(* Lists and stacks                                                         *)

Attach(w, c) ==
  [w EXCEPT !.next[c] = w.head[w.mon[c]], !.head[w.mon[c]] = c]

LinkAfterLosing(w, p, c, rest) == [w EXCEPT !.next[c] = NULL, !.next[p] = c]
LinkAfter(w, p, c, rest) == [w EXCEPT !.next[c] = rest, !.next[p] = c]

\* attachbypriority(): before the first tiled client of lower priority (or of
\* equal priority, when the new one goes first), after the tiled client that
\* precedes it.
AttachByPriority(w, c, afterIfEqual) ==
  LET list == List(w, w.mon[c])
      tiled == {i \in DOMAIN list : list[i] \notin w.floating \cup w.fullscreen
                                     /\ list[i] # c}
      lower == {i \in tiled : \/ Priority[c] > Priority[list[i]]
                              \/ Priority[c] = Priority[list[i]] /\ ~afterIfEqual}
      stops == IF lower = {} THEN tiled
               ELSE {i \in tiled : \A j \in lower : i < j}
      last == CHOOSE i \in stops : \A j \in stops : j <= i
  IN IF c \in w.floating \cup w.fullscreen \/ stops = {}
     THEN Attach(w, c)
     ELSE LinkAfter(w, list[last], c,
                    IF lower = {} THEN NULL ELSE w.next[list[last]])

\* detach(): unlink c from its list; when it is not in the list, the walk ends
\* at the tail's pointer, which is the one that is overwritten.
Detach(w, c) ==
  LET m == w.mon[c]
      list == List(w, m)
      before == IF c \in Range(list)
                THEN {i \in DOMAIN list : i + 1 \in DOMAIN list /\ list[i + 1] = c}
                ELSE {i \in DOMAIN list : i = Len(list)}
  IN IF before = {} THEN [w EXCEPT !.head[m] = w.next[c]]
     ELSE [w EXCEPT !.next[list[CHOOSE i \in before : TRUE]] = w.next[c]]

AttachStack(w, c) == [w EXCEPT !.stack[w.mon[c]] = <<c>> \o @]

FirstVisible(w, m) ==
  LET shown == {c \in Range(w.stack[m]) : Visible(w, c)}
  IN IF shown = {} THEN NULL ELSE First(w.stack[m], shown)

DetachStack(w, c) ==
  LET m == w.mon[c]
      rest == [w EXCEPT !.stack[m] = RemoveFirst(@, c)]
  IN IF w.sel[m] = c THEN [rest EXCEPT !.sel[m] = FirstVisible(rest, m)] ELSE rest

-----------------------------------------------------------------------------
(* Focus, urgency and arrangement                                           *)

SetFocusUnstamped(w, c) == w

\* setfocus() stamps the client with the time, unless it refuses the focus;
\* recent lists the stamped clients, the latest first.
SetFocus(w, c) ==
  IF c \in setup.neverFocus THEN w ELSE [w EXCEPT !.recent = <<c>> \o RemoveFirst(@, c)]

SetUrgent(w, c, on) ==
  [w EXCEPT !.urgent = IF on THEN @ \cup {c} ELSE @ \ {c}]

\* focus(c): c if it is visible, else the top visible client of the selected
\* monitor.
Focus(w, c) ==
  LET target == IF c # NULL /\ Visible(w, c) THEN c ELSE FirstVisible(w, w.selmon)
      moved == AttachStack(DetachStack([w EXCEPT !.selmon = w.mon[target]], target),
                           target)
  IN IF target = NULL THEN [w EXCEPT !.sel[w.selmon] = NULL]
     ELSE [SetFocus(SetUrgent(moved, target, FALSE), target)
             EXCEPT !.sel[moved.selmon] = target]

\* arrange() of a set of monitors: showhide() takes the urgency from every
\* client it shows.
Arrange(w, ms) ==
  [w EXCEPT !.urgent = {c \in @ : ~(w.mon[c] \in ms /\ Visible(w, c))}]

\* nexttiled() from some index of a list on.
NextTiled(w, list, from) ==
  LET tiled == {i \in DOMAIN list : i >= from /\ list[i] \notin w.floating
                                     /\ Visible(w, list[i])}
  IN IF tiled = {} THEN NULL ELSE list[CHOOSE i \in tiled : \A j \in tiled : i <= j]

Selected(w) == w.sel[w.selmon]

-----------------------------------------------------------------------------
Init ==
  /\ setup \in Setups
  /\ wm = [head |-> [m \in Mon |-> NULL], next |-> [c \in Client |-> NULL],
           mon |-> [c \in Client |-> NULL], stack |-> [m \in Mon |-> <<>>],
           sel |-> [m \in Mon |-> NULL], selmon |-> 1,
           floating |-> {}, fullscreen |-> {}, oldfloating |-> {},
           tags |-> [c \in Client |-> {}],
           tagset |-> [m \in Mon |-> {CHOOSE t \in Tag : TRUE}],
           urgent |-> {}, recent |-> <<>>, gone |-> {}]

\* manage(): parent is the window a dialog names as its own.  A dialog of a
\* window that is found goes with it; every other window goes to the rules and
\* then to ruleshook(), which marks it urgent when its tags are not shown.
Manage(c, parent) ==
  LET dialog == parent # NULL /\ Found(wm, parent)
      m == IF dialog THEN wm.mon[parent] ELSE wm.selmon
      own == IF dialog THEN wm.tags[parent]
             ELSE IF RuleTags[c] # {} THEN RuleTags[c] ELSE wm.tagset[m]
      floats == parent # NULL \/ c \in setup.ruleFloats
      made == [wm EXCEPT !.mon[c] = m, !.tags[c] = own,
                 !.floating = IF floats THEN @ \cup {c} ELSE @]
      hooked == SetUrgent(made, c, ~dialog /\ ~Visible(made, c))
      listed == AttachStack(AttachByPriority(hooked, c, TRUE), c)
  IN /\ wm.mon[c] = NULL
     /\ c \in setup.transients <=> parent # NULL
     /\ wm' = Focus(Arrange([listed EXCEPT !.sel[m] = c], {m}), NULL)

\* A window disappears.  unmanage() frees the client that wintoclient() finds;
\* when it finds none the event is ignored, and the client stays.
Destroy(c) ==
  LET left == DetachStack(Detach(wm, c), c)
      freed == [left EXCEPT !.mon[c] = NULL, !.tags[c] = {}, !.next[c] = NULL,
                  !.floating = @ \ {c}, !.fullscreen = @ \ {c},
                  !.oldfloating = @ \ {c}, !.urgent = @ \ {c},
                  !.recent = RemoveFirst(@, c)]
  IN /\ c \in Managed(wm) \ wm.gone
     /\ wm' = IF Found(wm, c) THEN Arrange(Focus(freed, NULL), {wm.mon[c]})
              ELSE [wm EXCEPT !.gone = @ \cup {c}]

PopUnpatched(w, c) == Arrange(Focus(Attach(Detach(w, c), c), c), {w.mon[c]})

\* zoom(): the selected tiled client, or the second one when it is the first,
\* moves as far up as its priority allows.
Pop(w, c) == Arrange(Focus(AttachByPriority(Detach(w, c), c, FALSE), c), {w.mon[c]})

Zoom ==
  LET list == List(wm, wm.selmon)
      first == NextTiled(wm, list, 1)
      second == NextTiled(wm, list, 1 + CHOOSE i \in DOMAIN list : list[i] = first)
      c == IF Selected(wm) = first THEN second ELSE Selected(wm)
  IN /\ Selected(wm) # NULL /\ Selected(wm) \notin wm.floating
     /\ c # NULL
     /\ wm' = Pop(wm, c)

ToggleFloating ==
  LET c == Selected(wm) IN
  /\ c \in setup.mayFloat \ wm.fullscreen
  /\ wm' = Arrange([wm EXCEPT !.floating = IF c \in @ THEN @ \ {c} ELSE @ \cup {c}],
                   {wm.selmon})

\* setfullscreen(), on the request of a client: it floats for the time being.
FullScreen(c) ==
  /\ c \in setup.mayFloat
  /\ Found(wm, c)
  /\ wm' = Arrange(IF c \in wm.fullscreen
                   THEN [wm EXCEPT !.fullscreen = @ \ {c},
                           !.floating = IF c \in wm.oldfloating THEN @ ELSE @ \ {c},
                           !.oldfloating = @ \ {c}]
                   ELSE [wm EXCEPT !.fullscreen = @ \cup {c},
                           !.oldfloating = IF c \in wm.floating THEN @ \cup {c} ELSE @,
                           !.floating = @ \cup {c}], {wm.mon[c]})

TagMonTwoStacks(m) ==
  LET c == Selected(wm)
      moved == [Detach(wm, c) EXCEPT !.mon[c] = m, !.tags[c] = wm.tagset[m]]
  IN /\ c # NULL /\ m # wm.selmon
     /\ wm' = Arrange(Focus(AttachStack(AttachByPriority(moved, c, TRUE), c), NULL), Mon)

\* tagmon(): sendmon() of the selected client.
TagMon(m) ==
  LET c == Selected(wm)
      away == DetachStack(Detach(wm, c), c)
      moved == [away EXCEPT !.mon[c] = m, !.tags[c] = wm.tagset[m]]
  IN /\ c # NULL /\ m # wm.selmon
     /\ wm' = Arrange(Focus(AttachStack(AttachByPriority(moved, c, TRUE), c), NULL), Mon)

FocusMon(m) == m # wm.selmon /\ wm' = Focus([wm EXCEPT !.selmon = m], NULL)

\* A click on a window, on whichever monitor it is.
Click(c) ==
  /\ Found(wm, c) /\ Visible(wm, c)
  /\ LET there == IF wm.mon[c] = wm.selmon THEN wm
                  ELSE Focus([wm EXCEPT !.selmon = wm.mon[c]], NULL)
     IN wm' = Focus(there, c)

\* lastclient(): of the visible clients in the list, the one focused last,
\* the selected one apart; clients that were never focused come last, in the
\* order of the list.
Others(w) ==
  {c \in Range(List(w, w.selmon)) : Visible(w, c) /\ c # Selected(w)}
Latest(w) ==
  First(IF Others(w) \cap Range(w.recent) = {} THEN List(w, w.selmon) ELSE w.recent,
        Others(w))

LastClient ==
  /\ Others(wm) # {}
  /\ wm' = Focus(wm, Latest(wm))

View(T) ==
  /\ T # wm.tagset[wm.selmon]
  /\ wm' = Arrange(Focus([wm EXCEPT !.tagset[wm.selmon] = T], NULL), {wm.selmon})

TagClientUnfocused(T) ==
  /\ Selected(wm) # NULL
  /\ wm' = Arrange([wm EXCEPT !.tags[Selected(wm)] = T], {wm.selmon})

TagClient(T) ==
  /\ Selected(wm) # NULL
  /\ wm' = Arrange(Focus([wm EXCEPT !.tags[Selected(wm)] = T], NULL), {wm.selmon})

HintKept(c, on) == Found(wm, c) /\ wm' = SetUrgent(wm, c, on /\ c # Selected(wm))

\* updatewmhints(): a client sets or clears its urgency hint; the hint of a
\* visible client is taken away again.
Hint(c, on) ==
  /\ Found(wm, c)
  /\ wm' = SetUrgent(wm, c, on /\ c # Selected(wm) /\ ~Visible(wm, c))

\* A list that has lost its end is walked for ever by the next handler.
Endless(w) ==
  \E m \in Mon : At(w, m)[Cardinality(setup.windows)] # NULL

\* A list leads to a client that was freed: a window that the list had lost came
\* back to it, and the one that followed it was gone.  What the next handler
\* reads there is undefined.
Dangling(w) == \E m \in Mon : Range(List(w, m)) \ Managed(w) # {}

Step ==
  \/ \E c \in setup.windows, parent \in {NULL} \cup Managed(wm) : Manage(c, parent)
  \/ \E c \in setup.windows : Destroy(c) \/ FullScreen(c) \/ Click(c)
  \/ \E c \in setup.windows, on \in BOOLEAN : Hint(c, on)
  \/ \E m \in Mon : TagMon(m) \/ FocusMon(m)
  \/ \E T \in setup.tagSets : View(T) \/ TagClient(T)
  \/ Zoom \/ ToggleFloating \/ LastClient

Next == ~Endless(wm) /\ ~Dangling(wm) /\ Step /\ UNCHANGED setup

Spec == Init /\ [][Next]_vars

-----------------------------------------------------------------------------
(* Properties                                                               *)

OnMonitor(m) == {c \in Client : wm.mon[c] = m}

\* "When a new window is managed by dwm, its position in the window list is
\* determined by its priority" (the attachment patch): every managed window has
\* one position in the list of its monitor, whatever was relinked.
ListComplete ==
  \A m \in Mon : LET list == List(wm, m) IN
    ~Endless(wm) /\ IsInjective(list) /\ Range(list) = OnMonitor(m)

\* The same where no window ever floats.
NoFloats == setup.ruleFloats \cup setup.transients \cup setup.mayFloat = {}
ListCompleteTiled == NoFloats => ListComplete

\* Where no window ever floats, the windows of a monitor stand in the order of their priorities,
\* through new windows, zooms and windows sent from other monitors.
PrioritySorted ==
  NoFloats =>
    \A m \in Mon : LET list == List(wm, m) IN
      \A i, j \in DOMAIN list : i < j => Priority[list[i]] >= Priority[list[j]]

\* A window is once in one focus stack, that of its monitor, also when the
\* client list has lost it.
StacksComplete ==
  \A m \in Mon : IsInjective(wm.stack[m]) /\ Range(wm.stack[m]) = OnMonitor(m)

\* Something visible on the selected monitor is selected whenever there is
\* anything visible.
SelVisible ==
  IF Selected(wm) = NULL THEN \A c \in OnMonitor(wm.selmon) : ~Visible(wm, c)
  ELSE wm.mon[Selected(wm)] = wm.selmon /\ Visible(wm, Selected(wm))

\* "Removes urgency hint from any window that is visible" (the urgency patch):
\* no handler ends with a visible urgent window, whichever of the tags, the
\* views, the monitors or the hints it changed.
UrgentHidden == \A c \in wm.urgent : ~Visible(wm, c)

\* "select the most recently, previously focused window" (the previous window
\* patch): pressing the key again leads back, where no window ever floats.
BackAndForth ==
  [][/\ NoFloats /\ LastClient
     /\ Selected(wm) \notin setup.neverFocus \cup {NULL}
     /\ Selected(wm)' \notin setup.neverFocus
     => Latest(wm') = Selected(wm)]_wm
=============================================================================
