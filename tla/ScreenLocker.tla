---------------------------- MODULE ScreenLocker ----------------------------
(***************************************************************************)
(* screen-locker.c as a whole: main() up to the locked screens, the grab   *)
(* loop of lockscreen(), the post-lock command, and readpw()'s event loop  *)
(* with the two kinds of event that are not keys.  The keyboard part is    *)
(* PasswordEntry, which reads one event of the queue at a time and blocks  *)
(* the whole loop while PAM is asked.                                      *)
(*                                                                         *)
(* The X server is external: it owns the grabs, the geometry of the        *)
(* screens, the stacking order and the event queue, and other clients      *)
(* change them at any time.                                                *)
(***************************************************************************)
EXTENDS PasswordEntry

CONSTANTS
  Keys,         \* the key events that occur
  NumScreens,   \* ScreenCount(display)
  Mode,         \* unrotated screen sizes, as <<width, height>>
  HavePamAuth,  \* the program was compiled with HAVE_PAM_AUTH
  MaxQueue,     \* bound on the event queue
  MaxChanges    \* bound on the screen changes and on the windows mapped

ASSUME KeysAssumption == Keys \subseteq KeyEvent
ASSUME ScreenAssumption == NumScreens \in Nat \ {0}
ASSUME BoundAssumption == MaxQueue \in Nat /\ MaxChanges \in Nat

VARIABLES
  pc,           \* where main() is
  screen,       \* the screen being locked
  attempts,     \* remaining_attempts
  mousegrab, kbgrab, \* results of the grabs for this screen
  privileged,   \* root privileges are still held
  command,      \* the post-lock command: "none", "wanted" or "started"
  grabbed,      \* the devices this program holds
  foreign,      \* the devices another client holds
  window,       \* per screen: "none", "created", "mapped" or "watched"
  size,         \* size of each lock window
  above,        \* screens where another window is stacked above the lock
  geometry,     \* current size of each screen
  events,       \* the X event queue of this client
  missed,       \* screens that changed when no notice of it was asked for
  changes       \* number of environment changes so far

mainVars == <<pc, screen, attempts, mousegrab, kbgrab, privileged, command>>
grabVars == <<grabbed, foreign>>
windowVars == <<window, size, above, geometry, missed, changes>>
vars == <<entryVars, mainVars, grabVars, windowVars, events>>

Screen == 1 .. NumScreens
Device == {"pointer", "keyboard"}
GrabStatus == {"unknown", "GrabSuccess", "AlreadyGrabbed", "Failed"}
GrabAttempts == 5

Rotated(mode) == <<mode[2], mode[1]>>
Sizes == Mode \cup {Rotated(m) : m \in Mode}

Event == [type : {"key"}, key : Keys]
         \cup [type : {"RRScreenChangeNotify"}, screen : Screen, mode : Mode,
               rotate : BOOLEAN]
         \cup [type : {"other"}]

TypeOK ==
  /\ EntryTypeOK
  /\ pc \in {"checking", "creating", "grabbing", "watching", "forking",
             "reading", "unreachable", "exit 0", "exit 1"}
  /\ screen \in 1 .. NumScreens + 1
  /\ attempts \in 0 .. GrabAttempts
  /\ mousegrab \in GrabStatus /\ kbgrab \in GrabStatus
  /\ privileged \in BOOLEAN
  /\ command \in {"none", "wanted", "started"}
  /\ grabbed \subseteq Device /\ foreign \subseteq Device
  /\ window \in [Screen -> {"none", "created", "mapped", "watched"}]
  /\ size \in [Screen -> Sizes]
  /\ geometry \in [Screen -> Sizes]
  /\ above \subseteq Screen /\ missed \subseteq Screen
  /\ events \in Seq(Event)
  /\ changes \in 0 .. MaxChanges

Init ==
  /\ EntryInit
  /\ pc = "checking"
  /\ screen = 1
  /\ attempts = GrabAttempts
  /\ mousegrab = "unknown" /\ kbgrab = "unknown"
  /\ privileged = TRUE
  /\ command \in {"none", "wanted"}
  /\ grabbed = {}
  /\ foreign \in SUBSET Device
  /\ window = [s \in Screen |-> "none"]
  /\ \E m \in Mode : geometry = [s \in Screen |-> m]
  /\ size = geometry
  /\ above = {}
  /\ events = <<>>
  /\ missed = {}
  /\ changes = 0

\* exit(3) closes the connection: the server releases grabs and windows.
Exit(status) ==
  /\ pc' = status
  /\ grabbed' = {}
  /\ window' = [s \in Screen |-> "none"]

-----------------------------------------------------------------------------
(* main(), up to the locked screens                                         *)

\* The display cannot be opened, an option is wrong, the OOM score or the
\* privileges cannot be changed, memory is short.
SetupFails ==
  /\ pc = "checking"
  /\ Exit("exit 1")
  /\ UNCHANGED <<entryVars, screen, attempts, mousegrab, kbgrab, privileged,
                 command, foreign, size, above, geometry, missed, changes, events>>

\* "PAM support not enabled, and ...": a missing or unusable hash is refused
\* when HAVE_PAM_AUTH is defined.
HashRefused == HavePamAuth /\ hash # "usable"

RefuseHash ==
  /\ pc = "checking"
  /\ HashRefused
  /\ Exit("exit 1")
  /\ UNCHANGED <<entryVars, screen, attempts, mousegrab, kbgrab, privileged,
                 command, foreign, size, above, geometry, missed, changes, events>>

DropPrivileges ==
  /\ pc = "checking"
  /\ ~HashRefused
  /\ privileged' = FALSE
  /\ pc' = "creating"
  /\ UNCHANGED <<entryVars, screen, attempts, mousegrab, kbgrab, command,
                 grabVars, windowVars, events>>

\* The window gets the size the screen had when the display was opened.
CreateWindow ==
  /\ pc = "creating"
  /\ pc' = "grabbing"
  /\ window' = [window EXCEPT ![screen] = "created"]
  /\ attempts' = GrabAttempts
  /\ mousegrab' = "unknown" /\ kbgrab' = "unknown"
  /\ UNCHANGED <<entryVars, screen, privileged, command, grabVars, size, above,
                 geometry, missed, changes, events>>

\* XGrabPointer and XGrabKeyboard: refused while another client has the
\* device, and now and then for a reason of the server's own.
GrabResult(device, last) ==
  IF last = "GrabSuccess" THEN {"GrabSuccess"}
  ELSE {"Failed", IF device \in foreign THEN "AlreadyGrabbed" ELSE "GrabSuccess"}

Holds(mouse, kb) ==
  {d \in Device : \/ d = "pointer" /\ mouse = "GrabSuccess"
                  \/ d = "keyboard" /\ kb = "GrabSuccess"}

LastAttemptMissed == attempts = 0
LastAttempt == attempts - 1 = 0
GivesUp(mouse, kb) ==
  \/ mouse \notin {"AlreadyGrabbed", "GrabSuccess"}
  \/ kb \notin {"AlreadyGrabbed", "GrabSuccess"}
  \/ LastAttempt

\* One turn of the grab loop.  A screen whose grabs both succeed is mapped on
\* top and its size changes are watched.
TryGrabs ==
  /\ pc = "grabbing"
  /\ IF attempts = 0
     THEN /\ pc' = "unreachable"
          /\ UNCHANGED <<attempts, mousegrab, kbgrab, grabbed, window, above>>
     ELSE \E mouse \in GrabResult("pointer", mousegrab),
             kb \in GrabResult("keyboard", kbgrab) :
            /\ attempts' = attempts - 1
            /\ mousegrab' = mouse /\ kbgrab' = kb
            /\ \/ /\ mouse = "GrabSuccess" /\ kb = "GrabSuccess"
                  /\ pc' = "watching"
                  /\ grabbed' = Device
                  /\ window' = [window EXCEPT ![screen] = "mapped"]
                  /\ above' = above \ {screen}
               \/ /\ ~(mouse = "GrabSuccess" /\ kb = "GrabSuccess")
                  /\ GivesUp(mouse, kb)
                  /\ Exit("exit 1")
                  /\ UNCHANGED above
               \/ /\ ~(mouse = "GrabSuccess" /\ kb = "GrabSuccess")
                  /\ ~GivesUp(mouse, kb)
                  /\ grabbed' = grabbed \cup Holds(mouse, kb)
                  /\ UNCHANGED <<pc, window, above>>
  /\ UNCHANGED <<entryVars, screen, privileged, command, foreign, size,
                 geometry, missed, changes, events>>

WatchRootFirst ==
  /\ pc = "watching"
  /\ window' = [window EXCEPT ![screen] = "watched"]
  /\ screen' = screen + 1
  /\ pc' = "forking"
  /\ UNCHANGED <<entryVars, attempts, mousegrab, kbgrab, privileged, command,
                 grabVars, size, above, geometry, missed, changes, events>>

\* XSelectInput on the root window: from here on, windows that other clients
\* map are noticed.  The request is separate from the one that mapped the
\* lock, so another client's can be served in between.
WatchRoot ==
  /\ pc = "watching"
  /\ window' = [window EXCEPT ![screen] = "watched"]
  /\ screen' = screen + 1
  /\ pc' = IF screen = NumScreens THEN "forking" ELSE "creating"
  /\ UNCHANGED <<entryVars, attempts, mousegrab, kbgrab, privileged, command,
                 grabVars, size, above, geometry, missed, changes, events>>

\* Every screen is locked: start the command, if there is one, and read keys.
StartCommand ==
  /\ pc = "forking"
  /\ \/ /\ command = "wanted"
        /\ Exit("exit 1")
        /\ UNCHANGED <<command, entryVars>>
     \/ /\ command' = IF command = "wanted" THEN "started" ELSE command
        /\ pc' = "reading"
        /\ Open
        /\ UNCHANGED <<grabbed, window>>
  /\ UNCHANGED <<screen, attempts, mousegrab, kbgrab, privileged, foreign, size,
                 above, geometry, missed, changes, events>>

-----------------------------------------------------------------------------
(* readpw(): one event at a time                                            *)

Consume(type) ==
  /\ pc = "reading" /\ phase = "reading"
  /\ events # <<>> /\ Head(events).type = type
  /\ events' = Tail(events)

LeaveAfterReturn ==
  IF phase' # "reading" THEN Exit("exit 0") ELSE UNCHANGED <<pc, grabbed, window>>

\* Leaving readpw() leaves main(): exit status 0.
LeaveIfDone ==
  IF phase' = "done" THEN Exit("exit 0") ELSE UNCHANGED <<pc, grabbed, window>>

ReadKey ==
  /\ Consume("key")
  /\ HandleKey(Head(events).key)
  /\ LeaveIfDone
  /\ UNCHANGED <<screen, attempts, mousegrab, kbgrab, privileged, command,
                 foreign, size, above, geometry, missed, changes>>

FinishPam ==
  /\ pc = "reading"
  /\ PamReturns
  /\ LeaveIfDone
  /\ UNCHANGED <<screen, attempts, mousegrab, kbgrab, privileged, command,
                 foreign, size, above, geometry, missed, changes, events>>

ResizedToUnrotated(e) == e.mode

\* The event carries the unrotated size.
ResizedTo(e) == IF e.rotate THEN Rotated(e.mode) ELSE e.mode

Resize ==
  /\ Consume("RRScreenChangeNotify")
  /\ size' = [size EXCEPT ![Head(events).screen] = ResizedTo(Head(events))]
  /\ UNCHANGED <<entryVars, mainVars, grabVars, window, above, geometry, missed,
                 changes>>

RaiseFirst ==
  /\ Consume("other")
  /\ above' = above \ {1}
  /\ UNCHANGED <<entryVars, mainVars, grabVars, window, size, geometry, missed,
                 changes>>

\* Any other event raises the lock window of every screen.
RaiseAll ==
  /\ Consume("other")
  /\ above' = {}
  /\ UNCHANGED <<entryVars, mainVars, grabVars, window, size, geometry, missed,
                 changes>>

ReadEvent == ReadKey \/ Resize \/ RaiseAll

-----------------------------------------------------------------------------
(* The X server and the other clients (external)                            *)

Running == pc \notin {"exit 0", "exit 1", "unreachable"}
Deliver(e) == Len(events) < MaxQueue /\ events' = Append(events, e)

\* Keys reach the program once it has the keyboard.
PressKey(k) ==
  /\ Running
  /\ "keyboard" \in grabbed
  /\ Deliver([type |-> "key", key |-> k])
  /\ UNCHANGED <<entryVars, mainVars, grabVars, windowVars>>

\* Another client takes a free device or gives one back.
ForeignGrab(d) ==
  /\ pc \in {"creating", "grabbing"}
  /\ d \notin grabbed
  /\ foreign' = IF d \in foreign THEN foreign \ {d} ELSE foreign \cup {d}
  /\ UNCHANGED <<entryVars, mainVars, grabbed, windowVars, events>>

ChangeScreen(s, mode, rotate) ==
  /\ Running
  /\ changes < MaxChanges
  /\ changes' = changes + 1
  /\ geometry' = [geometry EXCEPT ![s] = IF rotate THEN Rotated(mode) ELSE mode]
  /\ IF window[s] \in {"mapped", "watched"}
     THEN /\ Deliver([type |-> "RRScreenChangeNotify", screen |-> s,
                      mode |-> mode, rotate |-> rotate])
          /\ missed' = missed \ {s}
     ELSE missed' = missed \cup {s} /\ UNCHANGED events
  /\ UNCHANGED <<entryVars, mainVars, grabVars, window, size, above>>

\* An override-redirect window (a notification, a menu) appears on top.
MapAbove(s) ==
  /\ Running
  /\ changes < MaxChanges
  /\ changes' = changes + 1
  /\ above' = above \cup {s}
  /\ IF window[s] = "watched" THEN Deliver([type |-> "other"]) ELSE UNCHANGED events
  /\ UNCHANGED <<entryVars, mainVars, grabVars, window, size, geometry, missed>>

Environment ==
  \/ \E k \in Keys : PressKey(k)
  \/ \E d \in Device : ForeignGrab(d)
  \/ \E s \in Screen, mode \in Mode, rotate \in BOOLEAN : ChangeScreen(s, mode, rotate)
  \/ \E s \in Screen : MapAbove(s)

Startup ==
  \/ SetupFails \/ RefuseHash \/ DropPrivileges
  \/ CreateWindow \/ TryGrabs \/ WatchRoot \/ StartCommand

Next == Startup \/ ReadEvent \/ FinishPam \/ Environment

\* The program is one thread that never sleeps for good: it goes on starting
\* up, reads an event whenever one is queued, and PAM answers.
Spec ==
  /\ Init /\ [][Next]_vars
  /\ WF_vars(Startup) /\ WF_vars(ReadEvent) /\ WF_vars(FinishPam)

-----------------------------------------------------------------------------
(* Properties                                                               *)

Locked == grabbed = Device /\ \A s \in Screen : window[s] = "watched"

\* The assertion at the end of lockscreen() is never reached: the last turn of
\* the grab loop always returns.
NeverUnreachable == pc # "unreachable"

\* While keys are read or PAM is asked, no root privilege is left, both devices
\* are held and every screen is covered; the post-lock command runs only behind
\* such a lock.
LockedWhileReading ==
  /\ phase \in {"reading", "authenticating"} \/ (command = "started" /\ Running) =>
       Locked /\ ~privileged
  /\ pc = "reading" <=> phase \in {"reading", "authenticating"}

\* The notices of changes of a screen that are queued.
Notices(s) ==
  {i \in DOMAIN events : events[i].type = "RRScreenChangeNotify" /\ events[i].screen = s}

\* The window has the size of its screen, or the last notice will give it that.
Fitting(s) ==
  \/ Notices(s) = {} /\ size[s] = geometry[s]
  \/ \E last \in Notices(s) : /\ \A i \in Notices(s) : i <= last
                             /\ ResizedTo(events[last]) = geometry[s]

\* Every lock window has the size of its screen, or the notice that will give
\* it that size is the last one queued for it; except where the screen changed
\* before its window was mapped, of which no event tells.
Covered == pc = "reading" => \A s \in Screen \ missed : Fitting(s)

\* A window another client puts on top of a watched screen is covered again,
\* also when the notice arrives while PAM is asked.
Noticed == Running /\ \E i \in DOMAIN events : events[i].type = "other"
EventuallyOnTop == Noticed ~> (above = {} \/ ~Running)

\* The whole program keeps the promise of LockSession.
Status ==
  IF pc = "reading" THEN "locked"
  ELSE IF pc = "exit 0" THEN "released"
  ELSE IF pc \in {"exit 1", "unreachable"} THEN "failed" ELSE "open"
Promise == INSTANCE LockSession
             WITH Accepted <- HashPassword \cup PamPassword,
                  status <- Status, typed <- Typed
PromiseSpec == Promise!Spec
=============================================================================
