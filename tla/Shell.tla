-------------------------------- MODULE Shell --------------------------------
(***************************************************************************)
(* The shell of the device (nev_appkit/shell.c): the slots of the apps     *)
(* that hold a screen, the one in front, the home grid, the modal, and the *)
(* setting that brings the user back to where they were.                   *)
(*                                                                         *)
(* All of it runs on nev_ui, one frame after the other: nev_shell_tick     *)
(* takes the time, handles what the bus has queued and ticks the app in    *)
(* front; then LVGL draws, and reports at most one touch.  The bus may     *)
(* have lost any event (module EventBus), so each may come or not.  The    *)
(* hooks of the apps run inside these steps and, in the apps that ship,    *)
(* change nothing of the shell's.                                          *)
(***************************************************************************)
EXTENDS Naturals, Sequences, SequencesExt

CONSTANTS
  Apps,        \* registered apps
  NoApp,       \* an empty slot; the empty setting
  MaxLive,     \* NEV_SHELL_MAX_LIVE
  NeedsBridge, \* apps with requires_bridge
  Fragile,     \* apps whose on_launch may report an error
  Opens,       \* [Apps -> SUBSET Apps]: apps an app's own screen leads to
  Modals,      \* apps that open a modal
  Leavers,     \* those whose modal, once confirmed, goes home
  MaxNow       \* bound: the clock reading of the last frame, below its wrap

ASSUME ShellAssumption ==
  /\ NoApp \notin Apps
  /\ MaxLive \in Nat \ {0}
  /\ NeedsBridge \subseteq Apps /\ Fragile \subseteq Apps
  /\ Modals \subseteq Apps /\ Leavers \subseteq Modals
  /\ Opens \in [Apps -> SUBSET Apps]
  /\ MaxNow \in Nat

\* What opens another app's screen opens one that cannot fail (settings_app.c
\* leads to Wi-Fi and to pairing; only a game's on_launch reports errors).
ASSUME RowsOpen == \A a \in Apps : Opens[a] \cap Fragile = {}

Slots == 1..MaxLive
Home == 0  \* s_foreground = -1

VARIABLES
  ready,    \* s_ready
  live,     \* [Slots -> a live_app_t]
  fg,       \* s_foreground
  grid,     \* the home grid is visible
  modal,    \* a modal is open
  bridgeUp, \* s_bridge_up
  now,      \* s_now_ms
  phase,    \* where nev_ui is in its frame
  lastApp,  \* NEV_SET_LAST_APP
  order     \* history: the suspended apps, least recently used first

screen == <<live, fg, grid, order>>
vars == <<ready, live, fg, grid, modal, bridgeUp, now, phase, lastApp, order>>

LiveApp(n) == [app : Apps \cup {NoApp}, used : 0..n, suspended : BOOLEAN]
Empty == [app |-> NoApp, used |-> 0, suspended |-> FALSE]

Init ==
  /\ ready = FALSE
  /\ live = [i \in Slots |-> Empty]
  /\ fg = Home
  /\ grid = TRUE
  /\ modal = FALSE
  /\ bridgeUp = FALSE
  /\ now = 0
  /\ phase = "rest"
  /\ lastApp = NoApp
  /\ order = <<>>

Foreground == IF fg = Home THEN NoApp ELSE live[fg].app
\* A sequence without an app.
Drop(q, a) == IF Contains(q, a) THEN RemoveAt(q, CHOOSE i \in 1..Len(q) : q[i] = a)
              ELSE q
IsLive(a) == \E i \in Slots : live[i].app = a
SlotOf(a) == CHOOSE i \in Slots : live[i].app = a

-----------------------------------------------------------------------------
(* suspend_foreground, evict_one.                                          *)

\* Mutant: the app that steps back is not marked as suspended.
SuspendedUnmarked == IF fg = Home THEN live ELSE [live EXCEPT ![fg].used = now]

Suspended == IF fg = Home THEN live
             ELSE [live EXCEPT ![fg].suspended = TRUE, ![fg].used = now]

SuspendedOrder == IF fg = Home THEN order ELSE Append(order, Foreground)

Candidates(l, f) == {i \in Slots : l[i].app # NoApp /\ i # f}

\* Mutant: the first slot that will do.
VictimFirst(l, f) == Min(Candidates(l, f))

\* The scan goes up and a later slot wins a tie.
Victim(l, f) ==
  CHOOSE i \in Candidates(l, f) : \A j \in Candidates(l, f) :
    l[i].used < l[j].used \/ (l[i].used = l[j].used /\ j <= i)

Vacant(l) == {i \in Slots : l[i].app = NoApp}

\* The slot a launch takes: the first that is free, or the victim's.
Place(l) == IF Vacant(l) # {} THEN Min(Vacant(l))
            ELSE Victim(l, Home)

-----------------------------------------------------------------------------
(* nev_shell_launch.                                                       *)

\* Already warm: shown again as it was.
ShowWarm(a) ==
  /\ IsLive(a)
  /\ a # Foreground
  /\ live' = [Suspended EXCEPT ![SlotOf(a)].suspended = FALSE, ![SlotOf(a)].used = now]
  /\ fg' = SlotOf(a)
  /\ grid' = FALSE
  /\ lastApp' = a
  /\ order' = Drop(SuspendedOrder, a)

\* Mutant: a launch that fails leaves the grid hidden.
StartFreshBlank(a, ok) ==
  /\ ~IsLive(a)
  /\ ok \/ a \in Fragile
  /\ LET i == Place(Suspended)
     IN  /\ live' = [Suspended EXCEPT ![i] =
                       IF ok THEN [app |-> a, used |-> now, suspended |-> FALSE] ELSE Empty]
         /\ fg' = IF ok THEN i ELSE Home
         /\ order' = Drop(SuspendedOrder, Suspended[i].app)
  /\ grid' = FALSE
  /\ lastApp' = IF ok THEN a ELSE lastApp

\* A new app takes a slot before its on_launch runs, and gives it back, the
\* grid in front again, if that fails.
StartFresh(a, ok) ==
  /\ ~IsLive(a)
  /\ ok \/ a \in Fragile
  /\ LET i == Place(Suspended)
     IN  /\ live' = [Suspended EXCEPT ![i] =
                       IF ok THEN [app |-> a, used |-> now, suspended |-> FALSE] ELSE Empty]
         /\ fg' = IF ok THEN i ELSE Home
         /\ order' = Drop(SuspendedOrder, Suspended[i].app)
  /\ grid' = ~ok
  /\ lastApp' = IF ok THEN a ELSE lastApp

\* A touch comes after the tick, and is the frame's only one.  What leads to
\* an app is its tile on the grid or a row of the screen in front.
Touch == ready /\ phase = "touch" /\ phase' = "rest"

Tappable(a) ==
  /\ ~modal
  /\ \/ grid /\ (a \in NeedsBridge => bridgeUp)
     \/ fg # Home /\ a \in Opens[Foreground]

Resume(a) ==
  /\ Touch
  /\ Tappable(a)
  /\ ShowWarm(a)
  /\ UNCHANGED <<ready, modal, bridgeUp, now>>

Start(a, ok) ==
  /\ Touch
  /\ Tappable(a)
  /\ StartFresh(a, ok)
  /\ UNCHANGED <<ready, modal, bridgeUp, now>>

-----------------------------------------------------------------------------
(* nev_shell_go_home: button B, or a swipe to the right.                   *)

\* Mutant: the app that is left stays the one to come back to.
LeaveAppRemembered ==
  /\ live' = Suspended
  /\ order' = SuspendedOrder
  /\ fg' = Home
  /\ grid' = TRUE
  /\ UNCHANGED lastApp

LeaveApp ==
  /\ live' = Suspended
  /\ order' = SuspendedOrder
  /\ fg' = Home
  /\ grid' = TRUE
  /\ lastApp' = IF fg = Home THEN lastApp ELSE NoApp

\* Back dismisses a modal before it leaves the app.
GoHome == IF modal THEN modal' = FALSE /\ UNCHANGED <<screen, lastApp>>
                   ELSE LeaveApp /\ UNCHANGED modal

Back == /\ ready /\ phase = "events"
        /\ GoHome
        /\ UNCHANGED <<ready, bridgeUp, now, phase>>

\* The modal covers the content, and its gestures do not reach it.
Swipe == /\ Touch
         /\ ~modal
         /\ GoHome
         /\ UNCHANGED <<ready, bridgeUp, now>>

-----------------------------------------------------------------------------
(* The modal of settings and Wi-Fi, whose scrim takes every touch.         *)

OpenModal ==
  /\ Touch
  /\ ~modal /\ fg # Home /\ Foreground \in Modals
  /\ modal' = TRUE
  /\ UNCHANGED <<ready, screen, bridgeUp, now, lastApp>>

\* Cancelled, or confirmed by a handler that stays where it is.
CloseModal ==
  /\ Touch
  /\ modal
  /\ modal' = FALSE
  /\ UNCHANGED <<ready, screen, bridgeUp, now, lastApp>>

\* A factory reset whose erase fails has put every setting back all the same.
ResetFails ==
  /\ Touch
  /\ modal /\ Foreground \in Leavers
  /\ modal' = FALSE
  /\ lastApp' = NoApp
  /\ UNCHANGED <<ready, screen, bridgeUp, now>>

\* The handler of a factory reset goes home; the modal is closed before it runs.
ConfirmModal ==
  /\ Touch
  /\ modal /\ Foreground \in Leavers
  /\ modal' = FALSE
  /\ LeaveApp
  /\ UNCHANGED <<ready, bridgeUp, now>>

-----------------------------------------------------------------------------
(* nev_shell_tick.                                                         *)

\* The frame's time is taken first.
Frame ==
  /\ ready /\ phase # "events"
  /\ now < MaxNow
  /\ now' = now + 1
  /\ phase' = "events"
  /\ UNCHANGED <<ready, screen, modal, bridgeUp, lastApp>>

BridgeEvent ==
  /\ ready /\ phase = "events"
  /\ bridgeUp' = ~bridgeUp
  /\ UNCHANGED <<ready, screen, modal, now, phase, lastApp>>

\* SYS_MEM_PRESSURE closes one app that nobody is looking at.
MemPressure ==
  /\ ready /\ phase = "events"
  /\ Candidates(live, fg) # {}
  /\ LET i == Victim(live, fg)
     IN  /\ live' = [live EXCEPT ![i] = Empty]
         /\ fg' = IF fg = i THEN Home ELSE fg
         /\ order' = Drop(order, live[i].app)
  /\ UNCHANGED <<ready, grid, modal, bridgeUp, now, phase, lastApp>>

\* Mutant: the app is stamped with what the clock says by then.
AppTickLater ==
  /\ ready /\ phase = "events"
  /\ live' = IF fg = Home THEN live ELSE [live EXCEPT ![fg].used = now + 1]
  /\ phase' = "touch"
  /\ UNCHANGED <<ready, fg, grid, order, modal, bridgeUp, now, lastApp>>

AppTick ==
  /\ ready /\ phase = "events"
  /\ live' = IF fg = Home THEN live ELSE [live EXCEPT ![fg].used = now]
  /\ phase' = "touch"
  /\ UNCHANGED <<ready, fg, grid, order, modal, bridgeUp, now, lastApp>>

-----------------------------------------------------------------------------
(* nev_shell_init and, on the host, nev_shell_deinit.                      *)

\* The setting is what the store has kept: the last value or an older one.  An
\* app that does not open any more is forgotten.
Boot(last, ok) ==
  /\ ~ready
  /\ ready' = TRUE
  /\ now' = 0
  /\ phase' = "rest"
  /\ bridgeUp' = FALSE
  /\ IF last = NoApp
     THEN ok /\ lastApp' = NoApp /\ UNCHANGED screen
     ELSE /\ ok \/ last \in Fragile
          /\ live' = [live EXCEPT ![1] =
                        IF ok THEN [app |-> last, used |-> 0, suspended |-> FALSE] ELSE Empty]
          /\ fg' = IF ok THEN 1 ELSE Home
          /\ grid' = ~ok
          /\ lastApp' = IF ok THEN last ELSE NoApp
          /\ UNCHANGED order
  /\ UNCHANGED modal

\* Between two frames, when the window is closed; the process ends with it.
Deinit ==
  /\ ready /\ phase # "events"
  /\ ready' = FALSE
  /\ live' = [i \in Slots |-> Empty]
  /\ fg' = Home
  /\ grid' = TRUE
  /\ modal' = FALSE
  /\ order' = <<>>
  /\ UNCHANGED <<bridgeUp, now, phase, lastApp>>

-----------------------------------------------------------------------------
Next ==
  \/ \E a \in Apps \cup {NoApp}, ok \in BOOLEAN : Boot(a, ok)
  \/ \E a \in Apps : Resume(a)
  \/ \E a \in Apps, ok \in BOOLEAN : Start(a, ok)
  \/ Back \/ Swipe
  \/ OpenModal \/ CloseModal \/ ConfirmModal \/ ResetFails
  \/ Frame \/ BridgeEvent \/ MemPressure \/ AppTick
  \/ Deinit

Spec == Init /\ [][Next]_vars

-----------------------------------------------------------------------------
\* Every variable has its type, and no stamp is in the future.
TypeOK ==
  /\ ready \in BOOLEAN /\ grid \in BOOLEAN /\ modal \in BOOLEAN /\ bridgeUp \in BOOLEAN
  /\ live \in [Slots -> LiveApp(now)]
  /\ fg \in Slots \cup {Home}
  /\ now \in Nat
  /\ phase \in {"events", "touch", "rest"}
  /\ lastApp \in Apps \cup {NoApp}
  /\ order \in Seq(Apps)

\* An app holds at most one slot, and whoever is not suspended is in front:
\* events and ticks reach one app, and every other one has been told to stop.
OneInFront ==
  /\ \A i, j \in Slots : live[i].app # NoApp /\ live[i].app = live[j].app => i = j
  /\ \A i \in Slots : live[i].app # NoApp => (live[i].suspended <=> i # fg)
  /\ fg # Home => live[fg].app # NoApp

\* There is always something on the screen: the grid is hidden exactly while
\* an app is in front, whatever failed on the way, and a modal belongs to the
\* app in front, whose handler it will call.
SomethingShows ==
  /\ grid <=> fg = Home
  /\ modal => fg # Home /\ Foreground \in Modals

\* A reboot never brings back an app the user has left: the setting names the
\* app in front or none, whatever was closed, failed or reset in between.
ComesBackToFront == ready /\ lastApp # NoApp => lastApp = Foreground

\* The shell does what docs/app-lifecycle.md says: the victim of every
\* eviction is the app that left the front longest ago, and never the one in
\* front.
Life == INSTANCE AppLife WITH
          front <- Foreground, warm <- order, Nobody <- NoApp, Room <- MaxLive

ImplementsAppLife == Life!Spec
=============================================================================
