---------------------------- MODULE ShellProofs ----------------------------
(***************************************************************************)
(* Proofs about the shell: its slots, the grid, the modal and the setting  *)
(* that names the app in front agree after every frame, and the shell      *)
(* implements AppLife, for any apps and any number of slots.               *)
(***************************************************************************)
EXTENDS Shell, WellFoundedInduction, FiniteSetTheorems, SequenceTheorems, TLAPS

\* OneInFront of any slots and any slot in front.
Sane(l, f) ==
  /\ \A i, j \in Slots : l[i].app # NoApp /\ l[i].app = l[j].app => i = j
  /\ \A i \in Slots : l[i].app # NoApp => (l[i].suspended <=> i # f)
  /\ f # Home => l[f].app # NoApp

\* Nothing is left over from before nev_shell_init.
Clean == ~ready => live = [i \in Slots |-> Empty] /\ fg = Home /\ ~modal

Inv == TypeOK /\ OneInFront /\ SomethingShows /\ ComesBackToFront /\ Clean

USE ShellAssumption DEF ShellAssumption

-----------------------------------------------------------------------------
(* Sequences and minima.                                                   *)

\* Taking an app out of a sequence of apps leaves a sequence of apps.
LEMMA DropType ==
  ASSUME NEW S, NEW q \in Seq(S), NEW a
  PROVE  Drop(q, a) \in Seq(S)
<1>1. CASE ~Contains(q, a)
  BY <1>1 DEF Drop
<1>2. CASE Contains(q, a)
  <2>1. PICK i \in 1..Len(q) : Drop(q, a) = RemoveAt(q, i)
    BY <1>2 DEF Drop, Contains
  <2>2. SubSeq(q, 1, i - 1) \in Seq(S)
    BY SubSeqProperties
  <2>3. SubSeq(q, i + 1, Len(q)) \in Seq(S)
    BY SubSeqProperties
  <2> QED BY <2>1, <2>2, <2>3, ConcatProperties DEF RemoveAt
<1> QED BY <1>1, <1>2

\* Every set of naturals that is not empty has a least member.
LEMMA Least ==
  ASSUME NEW T, T \subseteq Nat, T # {}
  PROVE  \E x \in T : \A y \in T : x <= y
<1> DEFINE R == {p \in Nat \X Nat : p[1] < p[2]}
<1>1. R = OpToRel(<, Nat)
  BY DEF OpToRel
<1>2. IsWellFoundedOn(R, Nat)
  BY <1>1, NatLessThanWellFounded, Zenon
<1>3. \A x, y \in Nat : y < x => <<y, x>> \in R
  OBVIOUS
<1> HIDE DEF R
<1>4. PICK x \in T : \A y \in T : ~ (<<y, x>> \in R)
  BY <1>2, WFMin
<1>5. ASSUME NEW y \in T PROVE x <= y
  <2>1. x \in Nat /\ y \in Nat
    OBVIOUS
  <2>2. ~ (y < x)
    BY <1>3, <1>4, <2>1
  <2> QED BY <2>1, <2>2
<1> QED BY <1>5

\* The first of some slots is one of them.
LEMMA MinOfSlots ==
  ASSUME NEW T, T \subseteq Slots, T # {}
  PROVE  Min(T) \in T
<1> T \subseteq Nat
  BY DEF Slots
<1>1. \E x \in T : \A y \in T : x <= y
  BY Least
<1> QED BY <1>1 DEF Min

\* evict_one finds somebody whenever there is anybody to find, and nobody was
\* used before them.
LEMMA VictimFound ==
  ASSUME NEW n \in Nat, NEW l \in [Slots -> LiveApp(n)], NEW f, Candidates(l, f) # {}
  PROVE  /\ Victim(l, f) \in Candidates(l, f)
         /\ \A j \in Candidates(l, f) : l[Victim(l, f)].used <= l[j].used
<1> DEFINE C == Candidates(l, f)
           U == {l[i].used : i \in C}
<1>1. C \subseteq Slots /\ \A i \in C : l[i].used \in Nat
  BY DEF Candidates, LiveApp
<1> U \subseteq Nat /\ U # {}
  BY <1>1
<1>2. PICK u \in U : \A w \in U : u <= w
  <2> HIDE DEF U
  <2> QED BY Least
<1> DEFINE D == {MaxLive - i : i \in {j \in C : l[j].used = u}}
<1>3. D \subseteq Nat /\ D # {}
  BY <1>1, <1>2 DEF Slots
<1>4. PICK d \in D : \A e \in D : d <= e
  BY <1>3, Least
<1>5. PICK i \in C : l[i].used = u /\ d = MaxLive - i
  BY <1>4
<1>6. ASSUME NEW j \in C
      PROVE  l[i].used < l[j].used \/ (l[i].used = l[j].used /\ j <= i)
  <2>1. l[i].used <= l[j].used
    BY <1>2, <1>5
  <2>2. CASE l[j].used = u
    <3>1. MaxLive - i <= MaxLive - j
      BY <1>4, <1>5, <2>2
    <3> QED BY <3>1, <2>2, <1>5, <1>1 DEF Slots
  <2> QED BY <2>1, <2>2, <1>5, <1>1
<1>7. /\ Victim(l, f) \in C
      /\ \A j \in C : \/ l[Victim(l, f)].used < l[j].used
                      \/ l[Victim(l, f)].used = l[j].used /\ j <= Victim(l, f)
  BY <1>5, <1>6 DEF Victim
<1> QED BY <1>7, <1>1

\* A launch finds a slot.
LEMMA PlaceFound ==
  ASSUME NEW n \in Nat, NEW l \in [Slots -> LiveApp(n)]
  PROVE  Place(l) \in Slots
<1>1. CASE Vacant(l) # {}
  BY <1>1, MinOfSlots DEF Place, Vacant
<1>2. CASE Vacant(l) = {}
  <2>1. 1 \in Candidates(l, Home)
    BY <1>2 DEF Vacant, Candidates, Slots, Home
  <2>2. Victim(l, Home) \in Candidates(l, Home)
    BY <2>1, VictimFound
  <2> QED BY <1>2, <2>2 DEF Place, Candidates
<1> QED BY <1>1, <1>2

-----------------------------------------------------------------------------
(* What the helpers of an action do to the slots.                          *)

\* A record that is stamped and marked is a record still.
LEMMA Stamped ==
  ASSUME NEW n \in Nat, NEW r \in LiveApp(n), NEW u \in 0..n, NEW b \in BOOLEAN
  PROVE  [r EXCEPT !.suspended = b, !.used = u] \in LiveApp(n)
BY DEF LiveApp

\* Stepping back leaves everybody in their slot and nobody in front.
LEMMA SuspendedSane ==
  ASSUME Inv
  PROVE  /\ Suspended \in [Slots -> LiveApp(now)]
         /\ \A i \in Slots : Suspended[i].app = live[i].app
         /\ Sane(Suspended, Home)
         /\ SuspendedOrder \in Seq(Apps)
<1> USE DEF Inv, TypeOK, OneInFront, Sane
<1>1. CASE fg = Home
  BY <1>1 DEF Suspended, SuspendedOrder, LiveApp
<1>2. CASE fg # Home
  <2>1. /\ fg \in Slots /\ fg # Home /\ now \in 0..now
        /\ live[fg].app \in Apps
    BY <1>2 DEF LiveApp
  <2>2. Suspended = [i \in Slots |->
           IF i = fg THEN [live[i] EXCEPT !.suspended = TRUE, !.used = now] ELSE live[i]]
    BY <1>2, <2>1 DEF Suspended
  <2>3. \A i \in Slots : i # Home
    BY DEF Slots, Home
  <2>4. Suspended \in [Slots -> LiveApp(now)]
    <3>1. live \in [Slots -> LiveApp(now)]
      BY DEF LiveApp
    <3>2. \A i \in Slots : [live[i] EXCEPT !.suspended = TRUE, !.used = now] \in LiveApp(now)
      BY <3>1, <2>1, Stamped
    <3> QED BY <3>1, <3>2, <2>2
  <2>5. \A i \in Slots : /\ Suspended[i].app = live[i].app
                         /\ Suspended[i].suspended <=> (i = fg \/ live[i].suspended)
    BY ZenonT(40), <2>2, <2>1 DEF LiveApp
  <2>6. Sane(Suspended, Home)
    BY <2>5, <2>3, <2>1
  <2>7. SuspendedOrder \in Seq(Apps)
    BY <1>2, <2>1 DEF SuspendedOrder, Foreground
  <2> QED BY <2>4, <2>5, <2>6, <2>7
<1> QED BY <1>1, <1>2

\* A warm app that is shown again is the one in front.
LEMMA ShowWarmSane ==
  ASSUME Inv, NEW a \in Apps, ShowWarm(a)
  PROVE  /\ live' \in [Slots -> LiveApp(now)]
         /\ fg' \in Slots /\ live'[fg'].app = a
         /\ Sane(live', fg')
         /\ order' \in Seq(Apps)
<1>1. PICK i \in Slots : i = SlotOf(a) /\ live[i].app = a
  BY DEF ShowWarm, IsLive, SlotOf
<1>2. /\ Suspended \in [Slots -> LiveApp(now)]
      /\ \A j \in Slots : Suspended[j].app = live[j].app
      /\ Sane(Suspended, Home)
      /\ SuspendedOrder \in Seq(Apps)
  BY SuspendedSane
<1>3. /\ fg' = i
      /\ live' = [Suspended EXCEPT ![i].suspended = FALSE, ![i].used = now]
      /\ order' = Drop(SuspendedOrder, a)
  BY <1>1 DEF ShowWarm
<1>4. live' = [j \in Slots |->
          IF j = i THEN [Suspended[j] EXCEPT !.suspended = FALSE, !.used = now] ELSE Suspended[j]]
  BY <1>2, <1>3
<1>5. now \in 0..now
  BY DEF Inv, TypeOK
<1>6. live' \in [Slots -> LiveApp(now)]
  <2>1. \A j \in Slots : [Suspended[j] EXCEPT !.suspended = FALSE, !.used = now] \in LiveApp(now)
    BY <1>2, <1>5, Stamped DEF Inv, TypeOK
  <2> QED BY <2>1, <1>2, <1>4
<1>7. \A j \in Slots : /\ live'[j].app = live[j].app
                       /\ live'[j].suspended <=> (j # i /\ Suspended[j].suspended)
  BY <1>2, <1>4 DEF LiveApp
<1>8. Sane(live', fg')
  <2>1. \A j \in Slots : j # Home
    BY DEF Slots, Home
  <2> QED BY <1>1, <1>2, <1>3, <1>7, <2>1 DEF Sane
<1>9. order' \in Seq(Apps)
  BY <1>2, <1>3, DropType
<1> QED BY <1>1, <1>3, <1>6, <1>7, <1>8, <1>9

\* An app that starts is the one in front; one that fails leaves its slot
\* empty and nobody in front.
LEMMA StartFreshSane ==
  ASSUME Inv, NEW a \in Apps, NEW ok \in BOOLEAN, StartFresh(a, ok)
  PROVE  /\ live' \in [Slots -> LiveApp(now)]
         /\ Sane(live', fg')
         /\ IF ok THEN fg' \in Slots /\ live'[fg'].app = a ELSE fg' = Home
         /\ order' \in Seq(Apps)
<1>1. /\ Suspended \in [Slots -> LiveApp(now)]
      /\ \A j \in Slots : Suspended[j].app = live[j].app
      /\ Sane(Suspended, Home)
      /\ SuspendedOrder \in Seq(Apps)
  BY SuspendedSane
<1>2. now \in Nat
  BY DEF Inv, TypeOK
<1> DEFINE r == IF ok THEN [app |-> a, used |-> now, suspended |-> FALSE] ELSE Empty
<1>3. PICK i \in Slots : i = Place(Suspended)
  BY <1>1, <1>2, PlaceFound
<1>4. /\ live' = [Suspended EXCEPT ![i] = r]
      /\ fg' = IF ok THEN i ELSE Home
      /\ order' = Drop(SuspendedOrder, Suspended[i].app)
      /\ \A j \in Slots : live[j].app # a
  BY <1>3 DEF StartFresh, IsLive
<1>5. r \in LiveApp(now)
  BY <1>2 DEF LiveApp, Empty
<1>6. live' \in [Slots -> LiveApp(now)] /\ live'[i] = r
      /\ \A j \in Slots : j # i => live'[j] = Suspended[j]
  BY <1>1, <1>4, <1>5
<1>7. \A j \in Slots : j # Home
  BY DEF Slots, Home
<1>8. Sane(live', fg')
  <2>1. CASE ok
    <3>1. fg' = i /\ live'[i].app = a /\ ~live'[i].suspended
      BY <2>1, <1>4, <1>6
    <3> QED BY <3>1, <1>1, <1>4, <1>6, <1>7 DEF Sane
  <2>2. CASE ~ok
    <3>1. fg' = Home /\ live'[i].app = NoApp
      BY <2>2, <1>4, <1>6 DEF Empty
    <3> QED BY <3>1, <1>1, <1>6, <1>7 DEF Sane
  <2> QED BY <2>1, <2>2
<1>9. IF ok THEN fg' \in Slots /\ live'[fg'].app = a ELSE fg' = Home
  BY <1>3, <1>4, <1>6
<1>10. order' \in Seq(Apps)
  BY <1>1, <1>4, DropType
<1> QED BY <1>6, <1>8, <1>9, <1>10

\* Leaving for the grid puts nobody in front and forgets who was.
LEMMA LeaveAppSane ==
  ASSUME Inv, ready, LeaveApp
  PROVE  /\ live' \in [Slots -> LiveApp(now)]
         /\ Sane(live', fg')
         /\ fg' = Home /\ grid' = TRUE
         /\ lastApp' = NoApp
         /\ order' \in Seq(Apps)
<1>1. fg = Home => lastApp = NoApp
  BY DEF Inv, ComesBackToFront, Foreground
<1> QED BY <1>1, SuspendedSane DEF LeaveApp

-----------------------------------------------------------------------------
(* The invariant.                                                          *)

\* The initial states satisfy the invariant.
LEMMA InitInv == Init => Inv
<1> SUFFICES ASSUME Init PROVE Inv
  OBVIOUS
<1>1. TypeOK
  <2>1. Empty \in LiveApp(0)
    BY DEF Empty, LiveApp
  <2>2. live \in [Slots -> LiveApp(now)]
    BY <2>1 DEF Init
  <2>3. order \in Seq(Apps) /\ fg \in Slots \cup {Home}
    BY DEF Init
  <2> QED BY <2>2, <2>3 DEF Init, TypeOK
<1>2. OneInFront
  BY DEF Init, OneInFront, Empty
<1> QED BY <1>1, <1>2 DEF Init, Inv, SomethingShows, ComesBackToFront, Clean

\* Coming up, with or without an app to come back to, keeps the invariant.
LEMMA BootInv ==
  ASSUME Inv, NEW last \in Apps \cup {NoApp}, NEW ok \in BOOLEAN, Boot(last, ok)
  PROVE  Inv'
<1>1. /\ live = [i \in Slots |-> Empty] /\ fg = Home /\ modal = FALSE /\ modal' = FALSE
      /\ ready' = TRUE /\ now' = 0 /\ phase' = "rest" /\ bridgeUp' = FALSE /\ order' \in Seq(Apps)
  BY DEF Boot, Inv, Clean, TypeOK, screen
<1>2. 1 \in Slots /\ 1 # Home /\ \A i \in Slots : i # Home
  BY DEF Slots, Home
<1>3. CASE last = NoApp
  <2>1. live' = live /\ fg' = fg /\ grid' = grid /\ lastApp' = NoApp
    BY <1>3 DEF Boot, screen
  <2>2. live' \in [Slots -> LiveApp(now')]
    BY <1>1, <2>1 DEF LiveApp, Empty
  <2> QED BY <1>1, <2>1, <2>2
      DEF Inv, TypeOK, OneInFront, SomethingShows, ComesBackToFront, Clean, Foreground
<1>4. CASE last # NoApp
  <2> DEFINE r == IF ok THEN [app |-> last, used |-> 0, suspended |-> FALSE] ELSE Empty
  <2>1. /\ live' = [live EXCEPT ![1] = r]
        /\ fg' = IF ok THEN 1 ELSE Home
        /\ grid' = ~ok
        /\ lastApp' = IF ok THEN last ELSE NoApp
    BY <1>4 DEF Boot
  <2>2. r \in LiveApp(0) /\ Empty \in LiveApp(0)
    BY <1>4 DEF LiveApp, Empty
  <2>3. live' = [i \in Slots |-> IF i = 1 THEN r ELSE Empty]
    BY <1>1, <1>2, <2>1
  <2>4. live' \in [Slots -> LiveApp(now')]
    BY <1>1, <2>2, <2>3
  <2>5. TypeOK'
    BY <1>1, <1>2, <1>4, <2>1, <2>4 DEF TypeOK
  <2>6. OneInFront'
    BY <1>2, <1>4, <2>1, <2>3 DEF OneInFront, Empty
  <2>7. SomethingShows'
    BY <1>1, <1>2, <2>1 DEF SomethingShows
  <2>8. ComesBackToFront'
    BY <1>2, <2>1, <2>3 DEF ComesBackToFront, Foreground
  <2> QED BY <1>1, <2>5, <2>6, <2>7, <2>8 DEF Inv, Clean
<1> QED BY <1>3, <1>4

\* Showing a warm app keeps the invariant.
LEMMA ResumeInv ==
  ASSUME Inv, NEW a \in Apps, Resume(a)
  PROVE  Inv'
<1>1. /\ ready' = ready /\ ready /\ modal' = modal /\ ~modal /\ now' = now /\ bridgeUp' = bridgeUp /\ phase' = "rest"
      /\ ShowWarm(a)
      /\ grid' = FALSE /\ lastApp' = a
  BY DEF Resume, Touch, Tappable, ShowWarm
<1>2. /\ live' \in [Slots -> LiveApp(now')]
      /\ fg' \in Slots /\ live'[fg'].app = a
      /\ Sane(live', fg')
      /\ order' \in Seq(Apps)
  BY <1>1, ShowWarmSane
<1>3. fg' # Home
  BY <1>2 DEF Slots, Home
<1>4. TypeOK'
  BY <1>1, <1>2 DEF Inv, TypeOK
<1> QED BY <1>1, <1>2, <1>3, <1>4
    DEF Inv, OneInFront, Sane, SomethingShows, ComesBackToFront, Clean, Foreground

\* Starting an app, successfully or not, keeps the invariant.
LEMMA StartInv ==
  ASSUME Inv, RowsOpen, NEW a \in Apps, NEW ok \in BOOLEAN, Start(a, ok)
  PROVE  Inv'
<1>1. /\ ready /\ ready' = ready /\ modal' = modal /\ ~modal /\ now' = now /\ bridgeUp' = bridgeUp /\ phase' = "rest"
      /\ StartFresh(a, ok) /\ Tappable(a)
      /\ grid' = ~ok /\ lastApp' = (IF ok THEN a ELSE lastApp)
  BY DEF Start, Touch, Tappable, StartFresh
<1>2. /\ live' \in [Slots -> LiveApp(now')]
      /\ Sane(live', fg')
      /\ IF ok THEN fg' \in Slots /\ live'[fg'].app = a ELSE fg' = Home
      /\ order' \in Seq(Apps)
  BY <1>1, StartFreshSane
<1>3. ok => fg' # Home
  BY <1>2 DEF Slots, Home
\* What fails to open was tapped on the grid, where no app is remembered.
<1>4. ~ok => lastApp = NoApp
  <2>1. SUFFICES ASSUME ~ok, fg # Home PROVE FALSE
    BY <1>1 DEF Inv, ComesBackToFront, Foreground
  <2>2. Foreground \in Apps
    BY <2>1 DEF Inv, TypeOK, OneInFront, Foreground, LiveApp
  <2>3. a \in Fragile /\ a \in Opens[Foreground]
    BY <1>1, <2>1 DEF StartFresh, Tappable, Inv, SomethingShows
  <2> QED BY <2>2, <2>3, RowsOpen DEF RowsOpen
<1>5. TypeOK'
  BY <1>1, <1>2 DEF Inv, TypeOK
<1>6. SomethingShows'
  BY <1>1, <1>2, <1>3 DEF SomethingShows
<1>7. ComesBackToFront'
  BY <1>1, <1>2, <1>3, <1>4 DEF ComesBackToFront, Foreground
<1> QED BY <1>1, <1>2, <1>5, <1>6, <1>7 DEF Inv, OneInFront, Sane, Clean

\* What leaves the app in front, by whatever way.
LEMMA LeaveInv ==
  ASSUME Inv, ready, LeaveApp, modal' = FALSE, UNCHANGED <<ready, bridgeUp, now>>,
         phase' \in {"events", "touch", "rest"}
  PROVE  Inv'
<1>1. /\ live' \in [Slots -> LiveApp(now')]
      /\ Sane(live', fg')
      /\ fg' = Home /\ grid' = TRUE
      /\ lastApp' = NoApp
      /\ order' \in Seq(Apps)
  BY LeaveAppSane
<1>2. TypeOK'
  BY <1>1 DEF Inv, TypeOK
<1> QED BY <1>1, <1>2 DEF Inv, OneInFront, Sane, SomethingShows, ComesBackToFront, Clean

\* What stays on the screen it is on, and may close a modal.
LEMMA StayInv ==
  ASSUME Inv, ready, modal' \in BOOLEAN, modal' => modal,
         phase' \in {"events", "touch", "rest"}, bridgeUp' \in BOOLEAN,
         lastApp' \in {lastApp, NoApp}, UNCHANGED <<ready, screen>>,
         now' \in Nat, now <= now'
  PROVE  Inv'
<1>1. live' = live /\ fg' = fg /\ grid' = grid /\ order' = order
  BY DEF screen
<1>2. Foreground' = Foreground
  BY <1>1 DEF Foreground
<1>3. live' \in [Slots -> LiveApp(now')]
  <2>1. 0..now \subseteq 0..now'
    BY DEF Inv, TypeOK
  <2>2. LiveApp(now) \subseteq LiveApp(now')
    BY <2>1 DEF LiveApp
  <2>3. live \in [Slots -> LiveApp(now)]
    BY DEF Inv, TypeOK, LiveApp
  <2> QED BY <1>1, <2>2, <2>3
<1>4. TypeOK'
  BY <1>1, <1>3 DEF Inv, TypeOK
<1>5. OneInFront' /\ SomethingShows' /\ ComesBackToFront' /\ Clean'
  BY <1>1, <1>2 DEF Inv, OneInFront, SomethingShows, ComesBackToFront, Clean
<1> QED BY <1>4, <1>5 DEF Inv

\* A modal opens over the app in front only.
LEMMA OpenModalInv ==
  ASSUME Inv, OpenModal
  PROVE  Inv'
<1>1. /\ live' = live /\ fg' = fg /\ grid' = grid /\ order' = order /\ ready' = ready
      /\ now' = now /\ bridgeUp' = bridgeUp /\ lastApp' = lastApp
      /\ modal' = TRUE /\ phase' = "rest"
      /\ fg # Home /\ Foreground \in Modals /\ ready
  BY DEF OpenModal, Touch, screen
<1>2. Foreground' = Foreground
  BY <1>1 DEF Foreground
<1>3. TypeOK'
  BY <1>1 DEF Inv, TypeOK
<1> QED BY <1>1, <1>2, <1>3 DEF Inv, OneInFront, SomethingShows, ComesBackToFront, Clean

\* Closing an app under memory pressure keeps the invariant.
LEMMA MemPressureInv ==
  ASSUME Inv, MemPressure
  PROVE  Inv'
<1>1. PICK i \in Slots : i = Victim(live, fg) /\ i # fg
  <2>1. live \in [Slots -> LiveApp(now)] /\ now \in Nat
    BY DEF Inv, TypeOK, LiveApp
  <2> QED BY <2>1, VictimFound DEF MemPressure, Candidates
<1>2. /\ live' = [live EXCEPT ![i] = Empty] /\ fg' = fg
      /\ order' = Drop(order, live[i].app)
      /\ ready /\ UNCHANGED <<ready, grid, modal, bridgeUp, now, phase, lastApp>>
  BY <1>1 DEF MemPressure
<1>3. \A j \in Slots : live'[j] = IF j = i THEN Empty ELSE live[j]
  BY <1>2 DEF Inv, TypeOK
<1>4. fg # Home => live'[fg] = live[fg]
  BY <1>1, <1>3 DEF Inv, TypeOK
<1>5. TypeOK'
  <2>1. Empty \in LiveApp(now)
    BY DEF Inv, TypeOK, LiveApp, Empty
  <2>2. live' \in [Slots -> LiveApp(now)]
    BY <1>2, <2>1 DEF Inv, TypeOK, LiveApp
  <2>3. order' \in Seq(Apps)
    BY <1>2, DropType DEF Inv, TypeOK
  <2> QED BY <1>2, <2>2, <2>3 DEF Inv, TypeOK
<1>6. OneInFront'
  BY <1>2, <1>3, <1>4 DEF Inv, OneInFront, Empty
<1>7. Foreground' = Foreground
  BY <1>2, <1>4 DEF Foreground
<1> QED BY <1>2, <1>5, <1>6, <1>7 DEF Inv, SomethingShows, ComesBackToFront, Clean

\* Stamping the app in front keeps the invariant.
LEMMA AppTickInv ==
  ASSUME Inv, AppTick
  PROVE  Inv'
<1>1. /\ live' = IF fg = Home THEN live ELSE [live EXCEPT ![fg].used = now]
      /\ phase' = "touch" /\ ready
      /\ UNCHANGED <<ready, fg, grid, order, modal, bridgeUp, now, lastApp>>
  BY DEF AppTick
<1>2. live' = [i \in Slots |-> IF i = fg THEN [live[i] EXCEPT !.used = now] ELSE live[i]]
  <2>1. \A i \in Slots : i # Home
    BY DEF Slots, Home
  <2> QED BY <1>1, <2>1 DEF Inv, TypeOK
<1>3. \A i \in Slots : /\ live'[i].app = live[i].app
                       /\ live'[i].suspended <=> live[i].suspended
  BY <1>2 DEF Inv, TypeOK
<1>4. TypeOK'
  <2>1. \A i \in Slots : [live[i] EXCEPT !.used = now] \in LiveApp(now)
    <3>1. live \in [Slots -> LiveApp(now)] /\ now \in 0..now
      BY DEF Inv, TypeOK
    <3> QED BY <3>1 DEF LiveApp
  <2>2. live' \in [Slots -> LiveApp(now)]
    BY <1>2, <2>1 DEF Inv, TypeOK, LiveApp
  <2> QED BY <1>1, <2>2 DEF Inv, TypeOK
<1>5. OneInFront'
  BY <1>1, <1>3 DEF Inv, TypeOK, OneInFront
<1>6. Foreground' = Foreground
  BY <1>1, <1>3 DEF Inv, TypeOK, Foreground
<1> QED BY <1>1, <1>4, <1>5, <1>6 DEF Inv, SomethingShows, ComesBackToFront, Clean

\* Shutting down keeps the invariant.
LEMMA DeinitInv ==
  ASSUME Inv, Deinit
  PROVE  Inv'
<1>1. /\ live' = [i \in Slots |-> Empty] /\ fg' = Home /\ grid' = TRUE /\ modal' = FALSE
      /\ ready' = FALSE /\ order' = <<>>
      /\ UNCHANGED <<bridgeUp, now, phase, lastApp>>
  BY DEF Deinit
<1>2. TypeOK'
  <2>1. Empty \in LiveApp(now)
    BY DEF Inv, TypeOK, LiveApp, Empty
  <2>2. live' \in [Slots -> LiveApp(now)] /\ order' \in Seq(Apps)
    BY <1>1, <2>1
  <2> QED BY <1>1, <2>2 DEF Inv, TypeOK
<1> QED BY <1>1, <1>2 DEF Inv, OneInFront, SomethingShows, ComesBackToFront, Clean, Empty

\* Every step keeps the invariant.
LEMMA NextInv ==
  ASSUME Inv, RowsOpen, [Next]_vars
  PROVE  Inv'
<1>1. ASSUME NEW a \in Apps \cup {NoApp}, NEW ok \in BOOLEAN, Boot(a, ok) PROVE Inv'
  BY <1>1, BootInv
<1>2. ASSUME NEW a \in Apps, Resume(a) PROVE Inv'
  BY <1>2, ResumeInv
<1>3. ASSUME NEW a \in Apps, NEW ok \in BOOLEAN, Start(a, ok) PROVE Inv'
  BY <1>3, StartInv
<1>4. CASE Back
  <2>1. CASE modal
    <3>1. ready /\ modal' \in BOOLEAN /\ (modal' => modal)
      BY <1>4, <2>1 DEF Back, GoHome
    <3>2. /\ phase' \in {"events", "touch", "rest"} /\ bridgeUp' \in BOOLEAN
          /\ now' \in Nat /\ now <= now'
      BY <1>4, <2>1 DEF Back, GoHome, Inv, TypeOK
    <3>3. lastApp' \in {lastApp, NoApp} /\ UNCHANGED <<ready, screen>>
      BY <1>4, <2>1 DEF Back, GoHome
    <3> QED BY <3>1, <3>2, <3>3, StayInv
  <2>2. CASE ~modal
    BY <1>4, <2>2, LeaveInv DEF Back, GoHome, Inv, TypeOK
  <2> QED BY <2>1, <2>2
<1>5. CASE Swipe
  BY <1>5, LeaveInv DEF Swipe, GoHome, Touch, Inv, TypeOK
<1>6. CASE OpenModal
  BY <1>6, OpenModalInv
<1>7. CASE CloseModal
  <2>1. ready /\ modal' \in BOOLEAN /\ (modal' => modal)
    BY <1>7 DEF CloseModal, Touch
  <2>2. /\ phase' \in {"events", "touch", "rest"} /\ bridgeUp' \in BOOLEAN
        /\ now' \in Nat /\ now <= now'
    BY <1>7 DEF CloseModal, Touch, Inv, TypeOK
  <2>3. lastApp' \in {lastApp, NoApp} /\ UNCHANGED <<ready, screen>>
    BY <1>7 DEF CloseModal, Touch
  <2> QED BY <2>1, <2>2, <2>3, StayInv
<1>8. CASE ConfirmModal
  BY <1>8, LeaveInv DEF ConfirmModal, Touch
<1>9. CASE ResetFails
  <2>1. ready /\ modal' \in BOOLEAN /\ (modal' => modal)
    BY <1>9 DEF ResetFails, Touch
  <2>2. /\ phase' \in {"events", "touch", "rest"} /\ bridgeUp' \in BOOLEAN
        /\ now' \in Nat /\ now <= now'
    BY <1>9 DEF ResetFails, Touch, Inv, TypeOK
  <2>3. lastApp' \in {lastApp, NoApp} /\ UNCHANGED <<ready, screen>>
    BY <1>9 DEF ResetFails, Touch
  <2> QED BY <2>1, <2>2, <2>3, StayInv
<1>10. CASE Frame
  BY <1>10, StayInv DEF Frame, Inv, TypeOK
<1>11. CASE BridgeEvent
  BY <1>11, StayInv DEF BridgeEvent, Inv, TypeOK
<1>12. CASE MemPressure
  BY <1>12, MemPressureInv
<1>13. CASE AppTick
  BY <1>13, AppTickInv
<1>14. CASE Deinit
  BY <1>14, DeinitInv
<1>15. CASE UNCHANGED vars
  BY <1>15 DEF vars, Inv, TypeOK, OneInFront, SomethingShows, ComesBackToFront, Clean, Foreground
<1> QED BY <1>1, <1>2, <1>3, <1>4, <1>5, <1>6, <1>7, <1>8, <1>9, <1>10, <1>11, <1>12, <1>13,
           <1>14, <1>15 DEF Next

\* The invariant holds in every reachable state.
LEMMA SpecInv == Spec => []Inv
<1>1. Inv /\ [Next]_vars => Inv'
  BY NextInv, RowsOpen
<1> QED BY <1>1, InitInv, PTL DEF Spec

-----------------------------------------------------------------------------
\* Every variable of the shell keeps its type, and no stamp is in the future.
THEOREM ShellTypeCorrect == Spec => []TypeOK
<1>1. Inv => TypeOK
  BY DEF Inv
<1> QED BY <1>1, SpecInv, PTL

\* However launches, evictions and failures interleave, an app holds at most
\* one slot and whoever is not suspended is in front.
THEOREM OnlyOneInFront == Spec => []OneInFront
<1>1. Inv => OneInFront
  BY DEF Inv
<1> QED BY <1>1, SpecInv, PTL

\* The grid is hidden exactly while an app is in front, and a modal belongs to
\* the app in front.
THEOREM ScreenNeverBlank == Spec => []SomethingShows
<1>1. Inv => SomethingShows
  BY DEF Inv
<1> QED BY <1>1, SpecInv, PTL

\* A reboot never brings back an app the user has left.
THEOREM RebootComesBack == Spec => []ComesBackToFront
<1>1. Inv => ComesBackToFront
  BY DEF Inv
<1> QED BY <1>1, SpecInv, PTL

-----------------------------------------------------------------------------
(* AppLife: the slot that is evicted, found by stamps, is always that of   *)
(* the app that left the front longest ago.                                *)


\* The sequence q names the apps of the slots l other than slot f, and their
\* stamps rise along it.
Ranked(l, f, q) ==
  /\ \A k \in 1..Len(q) : \E i \in Slots : i # f /\ l[i].app = q[k]
  /\ \A i \in Slots : i # f /\ l[i].app # NoApp => \E k \in 1..Len(q) : q[k] = l[i].app
  /\ \A i, j \in Slots : \A k, m \in 1..Len(q) :
       q[k] = l[i].app /\ q[m] = l[j].app /\ k < m => l[i].used < l[j].used

\* Whoever may be suspended next was used after everybody who already is:
\* every frame has a time of its own, and one app steps back in it.
Aged == fg # Home /\ phase # "rest" =>
          \A i \in Slots : i # fg /\ live[i].app # NoApp => live[i].used < now

LifeInv == Inv /\ Ranked(live, fg, order) /\ Aged

-----------------------------------------------------------------------------
(* Ranked slots.                                                           *)

\* No app is named twice.
LEMMA RankedOnce ==
  ASSUME NEW n \in Nat, NEW l \in [Slots -> LiveApp(n)], NEW f, NEW q \in Seq(Apps),
         Ranked(l, f, q), NEW k \in 1..Len(q), NEW m \in 1..Len(q), q[k] = q[m]
  PROVE  k = m
<1>1. PICK i \in Slots : l[i].app = q[k]
  BY DEF Ranked
<1>2. ~(l[i].used < l[i].used)
  BY DEF LiveApp
<1>3. ~(k < m) /\ ~(m < k)
  BY <1>1, <1>2 DEF Ranked
<1> QED BY <1>3

\* Taking out an app that is named takes out its place.
LEMMA DropAt ==
  ASSUME NEW n \in Nat, NEW l \in [Slots -> LiveApp(n)], NEW f, NEW q \in Seq(Apps),
         Ranked(l, f, q), NEW k \in 1..Len(q)
  PROVE  /\ Drop(q, q[k]) = RemoveAt(q, k)
         /\ RemoveAt(q, k) \in Seq(Apps)
         /\ Len(RemoveAt(q, k)) = Len(q) - 1
         /\ \A m \in 1..Len(q) - 1 : RemoveAt(q, k)[m] = IF m < k THEN q[m] ELSE q[m + 1]
<1>1. (CHOOSE m \in 1..Len(q) : q[m] = q[k]) = k
  BY RankedOnce
<1>2. Drop(q, q[k]) = RemoveAt(q, k)
  BY <1>1 DEF Drop, Contains
<1>3. /\ SubSeq(q, 1, k - 1) \in Seq(Apps)
      /\ Len(SubSeq(q, 1, k - 1)) = k - 1
      /\ \A m \in 1..k - 1 : SubSeq(q, 1, k - 1)[m] = q[m]
  BY SubSeqProperties
<1>4. /\ SubSeq(q, k + 1, Len(q)) \in Seq(Apps)
      /\ Len(SubSeq(q, k + 1, Len(q))) = Len(q) - k
      /\ \A m \in 1..Len(q) - k : SubSeq(q, k + 1, Len(q))[m] = q[m + k]
  BY SubSeqProperties
<1>5. PICK s \in Seq(Apps), t \in Seq(Apps) :
        s = SubSeq(q, 1, k - 1) /\ t = SubSeq(q, k + 1, Len(q))
  BY <1>3, <1>4
<1>6. /\ s \o t \in Seq(Apps)
      /\ Len(s \o t) = Len(s) + Len(t)
      /\ \A m \in 1..Len(s) + Len(t) : (s \o t)[m] = IF m <= Len(s) THEN s[m] ELSE t[m - Len(s)]
  BY ConcatProperties
<1>7. RemoveAt(q, k) = s \o t
  BY <1>5 DEF RemoveAt
<1>8. Len(s) = k - 1 /\ Len(t) = Len(q) - k /\ Len(q) \in Nat /\ Len(s) + Len(t) = Len(q) - 1
  <2>1. Len(s) = k - 1 /\ Len(t) = Len(q) - k
    BY <1>3, <1>4, <1>5
  <2>2. Len(q) \in Nat /\ k \in Nat
    OBVIOUS
  <2> QED BY <2>1, <2>2
<1>9. ASSUME NEW m \in 1..Len(q) - 1
      PROVE  (s \o t)[m] = IF m < k THEN q[m] ELSE q[m + 1]
  <2>1. m \in 1..Len(s) + Len(t)
    BY <1>8
  <2>2. CASE m < k
    <3>1. m <= Len(s) /\ m \in 1..k - 1
      BY <1>8, <2>2
    <3>2. s[m] = q[m]
      BY <3>1, <1>3, <1>5
    <3> QED BY <3>1, <3>2, <2>1, <2>2, <1>6
  <2>3. CASE ~(m < k)
    <3>1. ~(m <= Len(s)) /\ m - Len(s) \in 1..Len(q) - k /\ (m - Len(s)) + k = m + 1
      BY <1>8, <2>3
    <3>2. (s \o t)[m] = t[m - Len(s)]
      BY <3>1, <2>1, <1>6
    <3>3. t[m - Len(s)] = q[(m - Len(s)) + k]
      BY <3>1, <1>4, <1>5
    <3> QED BY <3>1, <3>2, <3>3, <2>3
  <2> QED BY <2>2, <2>3
<1> QED BY <1>2, <1>6, <1>7, <1>8, <1>9

\* A slot that is vacated or comes to the front leaves the others ranked.
LEMMA RankedWithout ==
  ASSUME NEW n \in Nat, NEW l \in [Slots -> LiveApp(n)], NEW f, NEW q \in Seq(Apps),
         Ranked(l, f, q),
         \A i, j \in Slots : l[i].app # NoApp /\ l[i].app = l[j].app => i = j,
         NEW k \in 1..Len(q), NEW i \in Slots, l[i].app = q[k],
         NEW g \in {f, i}, f = Home \/ g = f,
         NEW h, \A j \in Slots : j # i => h[j] = l[j],
         h[i].app = NoApp \/ g = i,
         h[i].app \in {NoApp, l[i].app} \/ \A j \in Slots : l[j].app # h[i].app
  PROVE  Ranked(h, g, RemoveAt(q, k))
<1> DEFINE r == RemoveAt(q, k)
<1>1. /\ r \in Seq(Apps)
      /\ Len(r) = Len(q) - 1
      /\ \A m \in 1..Len(q) - 1 : r[m] = IF m < k THEN q[m] ELSE q[m + 1]
  BY DropAt
<1> DEFINE at(m) == IF m < k THEN m ELSE m + 1
<1>2. \A m \in 1..Len(r) : at(m) \in 1..Len(q) /\ at(m) # k /\ r[m] = q[at(m)]
  BY <1>1
<1>3. \A m, p \in 1..Len(r) : m < p => at(m) < at(p)
  BY <1>1
<1>4. \A p \in 1..Len(q) : p # k => \E m \in 1..Len(r) : at(m) = p
  <2>1. SUFFICES ASSUME NEW p \in 1..Len(q), p # k PROVE \E m \in 1..Len(r) : at(m) = p
    OBVIOUS
  <2>2. CASE p < k
    <3>1. p \in 1..Len(r) /\ at(p) = p
      BY <1>1, <2>2
    <3> QED BY <3>1
  <2>3. CASE p > k
    <3>1. p - 1 \in 1..Len(r) /\ at(p - 1) = p
      BY <1>1, <2>3
    <3> QED BY <3>1
  <2> QED BY <2>1, <2>2, <2>3
<1>5. Len(r) \in Nat /\ Len(q) \in Nat
  BY <1>1
<1> HIDE DEF r, at
\* What is still named is in a slot other than i.
<1>6. \A m \in 1..Len(r) : r[m] # h[i].app /\ r[m] # l[i].app /\ r[m] # NoApp
  <2>1. SUFFICES ASSUME NEW m \in 1..Len(r)
                 PROVE  r[m] # h[i].app /\ r[m] # l[i].app /\ r[m] # NoApp
    OBVIOUS
  <2>2. r[m] = q[at(m)] /\ at(m) \in 1..Len(q) /\ at(m) # k
    BY <1>2
  <2>3. r[m] # l[i].app
    BY <2>2, RankedOnce
  <2>4. r[m] # NoApp
    BY <2>2
  <2>5. \E j \in Slots : l[j].app = r[m]
    BY <2>2 DEF Ranked
  <2> QED BY <2>3, <2>4, <2>5
<1>7. \A m \in 1..Len(r) : \E j \in Slots : j # g /\ h[j].app = r[m]
  <2>1. SUFFICES ASSUME NEW m \in 1..Len(r) PROVE \E j \in Slots : j # g /\ h[j].app = r[m]
    OBVIOUS
  <2>2. PICK j \in Slots : j # f /\ l[j].app = r[m]
    BY SMTT(30), <1>2 DEF Ranked
  <2>3. j # i
    BY <2>2, <1>6
  <2> QED BY <2>2, <2>3
<1>8. ASSUME NEW j \in Slots, j # g, h[j].app # NoApp
      PROVE  \E m \in 1..Len(r) : r[m] = h[j].app
  <2>1. j # i /\ h[j] = l[j]
    BY <1>8
  <2>2. j # f
    BY <1>8, <2>1 DEF Slots, Home
  <2>3. PICK p \in 1..Len(q) : q[p] = l[j].app
    BY <1>8, <2>1, <2>2 DEF Ranked
  <2>4. p # k
    BY <2>1, <2>3, <1>8
  <2>5. PICK m \in 1..Len(r) : at(m) = p
    BY <2>4, <1>4
  <2> QED BY <2>1, <2>3, <2>5, <1>2
<1>9. ASSUME NEW j1 \in Slots, NEW j2 \in Slots, NEW m \in 1..Len(r), NEW p \in 1..Len(r),
             r[m] = h[j1].app, r[p] = h[j2].app, m < p
      PROVE  h[j1].used < h[j2].used
  <2>1. j1 # i /\ j2 # i
    BY <1>6, <1>9
  <2>2. h[j1] = l[j1] /\ h[j2] = l[j2]
    BY <2>1
  <2>3. q[at(m)] = l[j1].app /\ q[at(p)] = l[j2].app /\ at(m) < at(p)
        /\ at(m) \in 1..Len(q) /\ at(p) \in 1..Len(q)
    BY <1>2, <1>3, <1>9, <2>2
  <2> QED BY <2>2, <2>3 DEF Ranked
<1>10. Ranked(h, g, r)
  BY <1>7, <1>8, <1>9 DEF Ranked
<1> QED BY <1>10 DEF r

\* The first that is named is the victim, and what is left without it is the
\* tail.
LEMMA VictimIsFirst ==
  ASSUME NEW n \in Nat, NEW l \in [Slots -> LiveApp(n)], NEW f, NEW q \in Seq(Apps),
         Ranked(l, f, q), Candidates(l, f) # {}
  PROVE  /\ Victim(l, f) \in Slots /\ Victim(l, f) # f
         /\ q # <<>> /\ 1 \in 1..Len(q) /\ l[Victim(l, f)].app = q[1]
         /\ Drop(q, q[1]) = RemoveAt(q, 1) /\ RemoveAt(q, 1) = Tail(q)
<1>1. PICK v \in Slots : /\ v = Victim(l, f) /\ v # f /\ l[v].app # NoApp
                         /\ \A j \in Candidates(l, f) : l[v].used <= l[j].used
  BY VictimFound DEF Candidates
<1>2. PICK k \in 1..Len(q) : q[k] = l[v].app
  BY <1>1 DEF Ranked
<1>3. 1 \in 1..Len(q) /\ q # <<>> /\ Len(q) \in Nat
  BY <1>2
<1>4. PICK j \in Slots : j # f /\ l[j].app = q[1]
  BY <1>3 DEF Ranked
<1>5. q[1] \in Apps /\ q[1] # NoApp
  BY <1>3
<1>6. l[v].used <= l[j].used
  BY <1>1, <1>4, <1>5 DEF Candidates
<1>7. ~(1 < k)
  <2>1. SUFFICES ASSUME 1 < k PROVE FALSE
    OBVIOUS
  <2>2. l[j].used < l[v].used
    BY <2>1, <1>2, <1>3, <1>4 DEF Ranked
  <2>3. l[j].used \in Nat /\ l[v].used \in Nat
    BY DEF LiveApp
  <2> QED BY <1>6, <2>2, <2>3
<1>8. k = 1
  BY <1>7
<1>9. RemoveAt(q, 1) = Tail(q)
  <2>1. SubSeq(q, 1, 1 - 1) = <<>>
    BY SubSeqEmpty
  <2>2. Tail(q) = SubSeq(q, 1 + 1, Len(q)) /\ Tail(q) \in Seq(Apps)
    BY <1>3, TailIsSubSeq, HeadTailProperties
  <2>3. <<>> \o Tail(q) = Tail(q)
    BY <2>2, ConcatEmptySeq
  <2> QED BY <2>1, <2>2, <2>3 DEF RemoveAt
<1>10. Drop(q, q[1]) = RemoveAt(q, 1)
  BY <1>3, DropAt
<1> QED BY <1>1, <1>2, <1>3, <1>8, <1>9, <1>10

\* With nobody in front there is room exactly while a slot is free.
LEMMA RoomLeft ==
  ASSUME NEW n \in Nat, NEW l \in [Slots -> LiveApp(n)], NEW q \in Seq(Apps),
         Ranked(l, Home, q), Sane(l, Home)
  PROVE  Len(q) < MaxLive <=> Vacant(l) # {}
<1>1. Len(q) \in Nat /\ \A i \in Slots : i # Home
  BY DEF Slots, Home
<1> DEFINE g == [k \in 1..Len(q) |-> CHOOSE i \in Slots : l[i].app = q[k]]
<1>2. \A k \in 1..Len(q) : g[k] \in Slots /\ l[g[k]].app = q[k] /\ q[k] # NoApp
  BY DEF Ranked
<1>3. g \in Injection(1..Len(q), Slots)
  <2>1. g \in [1..Len(q) -> Slots]
    BY <1>2
  <2>2. ASSUME NEW k \in 1..Len(q), NEW m \in 1..Len(q), g[k] = g[m]
        PROVE  k = m
    <3>1. q[k] = q[m]
      BY <1>2, <2>2
    <3> QED BY <3>1, RankedOnce
  <2> QED BY <2>1, <2>2 DEF Injection, IsInjective
<1>4. /\ IsFiniteSet(Slots) /\ Cardinality(Slots) = MaxLive
      /\ Cardinality(1..Len(q)) = Len(q)
  <2>1. 1 \in Int /\ MaxLive \in Int /\ Len(q) \in Int
    BY <1>1
  <2>2. /\ IsFiniteSet(1..MaxLive)
        /\ Cardinality(1..MaxLive) = IF 1 > MaxLive THEN 0 ELSE MaxLive - 1 + 1
    BY <2>1, FS_Interval
  <2>3. Cardinality(1..Len(q)) = IF 1 > Len(q) THEN 0 ELSE Len(q) - 1 + 1
    BY <2>1, FS_Interval
  <2> QED BY <1>1, <2>2, <2>3 DEF Slots
<1>5. /\ Len(q) <= MaxLive
      /\ Len(q) = MaxLive <=> g \in Surjection(1..Len(q), Slots)
  <2> HIDE DEF g
  <2>1. /\ Cardinality(1..Len(q)) <= Cardinality(Slots)
        /\ Cardinality(1..Len(q)) = Cardinality(Slots) <=> g \in Surjection(1..Len(q), Slots)
    BY <1>3, <1>4, FS_Injection
  <2> QED BY <2>1, <1>4
<1>6. g \in Surjection(1..Len(q), Slots) <=> Vacant(l) = {}
  <2>1. ASSUME g \in Surjection(1..Len(q), Slots), NEW i \in Slots
        PROVE  l[i].app # NoApp
    <3>1. PICK k \in 1..Len(q) : g[k] = i
      BY <2>1 DEF Surjection
    <3> QED BY <3>1, <1>2
  <2>2. ASSUME Vacant(l) = {}, NEW i \in Slots
        PROVE  \E k \in 1..Len(q) : g[k] = i
    <3>1. l[i].app # NoApp
      BY <2>2 DEF Vacant
    <3>2. PICK k \in 1..Len(q) : q[k] = l[i].app
      BY <3>1, <1>1 DEF Ranked
    <3>3. g[k] = i
      BY <3>1, <3>2, <1>2 DEF Sane
    <3> QED BY <3>3
  <2>3. g \in [1..Len(q) -> Slots]
    BY <1>2
  <2> HIDE DEF g
  <2>4. Vacant(l) = {} => g \in Surjection(1..Len(q), Slots)
    BY <2>2, <2>3 DEF Surjection
  <2>5. g \in Surjection(1..Len(q), Slots) => Vacant(l) = {}
    BY <2>1 DEF Vacant
  <2> QED BY <2>4, <2>5
<1> QED BY <1>1, <1>5, <1>6

\* Stepping back puts the app in front last.
LEMMA RankedSuspended ==
  ASSUME LifeInv, phase # "rest"
  PROVE  Ranked(Suspended, Home, SuspendedOrder)
<1>1. \A i \in Slots : i # Home
  BY DEF Slots, Home
<1>2. live \in [Slots -> LiveApp(now)] /\ order \in Seq(Apps) /\ now \in Nat
      /\ Ranked(live, fg, order) /\ fg \in Slots \cup {Home}
  BY DEF LifeInv, Inv, TypeOK
<1>3. CASE fg = Home
  BY <1>2, <1>3 DEF Suspended, SuspendedOrder
<1>4. CASE fg # Home
  <2>1. fg \in Slots /\ live[fg].app # NoApp /\ live[fg].app \in Apps
    BY <1>2, <1>4 DEF LifeInv, Inv, OneInFront, LiveApp
  <2>2. /\ SuspendedOrder = Append(order, live[fg].app)
        /\ Len(order) \in Nat
        /\ Len(SuspendedOrder) = Len(order) + 1
        /\ SuspendedOrder[Len(order) + 1] = live[fg].app
        /\ \A k \in 1..Len(order) : SuspendedOrder[k] = order[k]
    BY <1>2, <1>4, <2>1 DEF SuspendedOrder, Foreground
  <2>3. Suspended = [i \in Slots |->
           IF i = fg THEN [live[i] EXCEPT !.suspended = TRUE, !.used = now] ELSE live[i]]
    BY <1>2, <1>4 DEF Suspended
  <2>4. /\ Suspended[fg].app = live[fg].app /\ Suspended[fg].used = now
        /\ \A i \in Slots : i # fg => Suspended[i] = live[i]
        /\ \A i \in Slots : Suspended[i].app = live[i].app
    BY <2>1, <2>3, <1>2 DEF LiveApp
  <2>5. \A i, j \in Slots : live[i].app # NoApp /\ live[i].app = live[j].app => i = j
    BY DEF LifeInv, Inv, OneInFront
  <2>6. \A i \in Slots : i # fg /\ live[i].app # NoApp => live[i].used < now
    BY <1>4 DEF LifeInv, Aged
  <2>7. \A k \in 1..Len(order) : order[k] # live[fg].app /\ order[k] # NoApp
    BY <1>2, <2>1, <2>5 DEF Ranked
  <2>8. ASSUME NEW k \in 1..Len(SuspendedOrder)
        PROVE  \E i \in Slots : i # Home /\ Suspended[i].app = SuspendedOrder[k]
    <3>1. CASE k = Len(order) + 1
      BY <3>1, <2>1, <2>2, <2>4, <1>1
    <3>2. CASE k # Len(order) + 1
      <4>1. k \in 1..Len(order)
        BY <3>2, <2>2
      <4> QED BY <4>1, <2>2, <2>4, <1>1, <1>2 DEF Ranked
    <3> QED BY <3>1, <3>2
  <2>9. ASSUME NEW i \in Slots, Suspended[i].app # NoApp
        PROVE  \E k \in 1..Len(SuspendedOrder) : SuspendedOrder[k] = Suspended[i].app
    <3>1. CASE i = fg
      <4>1. Len(order) + 1 \in 1..Len(SuspendedOrder)
        BY <2>2
      <4> QED BY <4>1, <3>1, <2>2, <2>4
    <3>2. CASE i # fg
      <4>1. PICK k \in 1..Len(order) : order[k] = live[i].app
        BY <3>2, <2>4, <2>9, <1>2 DEF Ranked
      <4>2. k \in 1..Len(SuspendedOrder)
        BY <2>2
      <4> QED BY <4>1, <4>2, <2>2, <2>4
    <3> QED BY <3>1, <3>2
  <2>10. ASSUME NEW i \in Slots, NEW j \in Slots,
                NEW k \in 1..Len(SuspendedOrder), NEW m \in 1..Len(SuspendedOrder),
                SuspendedOrder[k] = Suspended[i].app, SuspendedOrder[m] = Suspended[j].app, k < m
         PROVE  Suspended[i].used < Suspended[j].used
    <3>1. k \in 1..Len(order) /\ SuspendedOrder[k] = order[k]
      BY <2>2, <2>10
    <3>2. i # fg /\ Suspended[i] = live[i] /\ live[i].app = order[k] /\ live[i].app # NoApp
      BY <3>1, <2>4, <2>7, <2>10
    <3>3. CASE m = Len(order) + 1
      <4>1. live[j].app = live[fg].app
        BY <3>3, <2>2, <2>4, <2>10
      <4>2. j = fg
        BY <4>1, <2>1, <2>5
      <4> QED BY <4>2, <3>2, <2>4, <2>6
    <3>4. CASE m # Len(order) + 1
      <4>1. m \in 1..Len(order) /\ SuspendedOrder[m] = order[m]
        BY <3>4, <2>2
      <4>2. j # fg /\ Suspended[j] = live[j] /\ live[j].app = order[m]
        BY <4>1, <2>4, <2>7, <2>10
      <4> QED BY <4>1, <4>2, <3>1, <3>2, <1>2, <2>10 DEF Ranked
    <3> QED BY <3>3, <3>4
  <2> QED BY <2>8, <2>9, <2>10 DEF Ranked
<1> QED BY <1>3, <1>4

\* What happens to the slot in front does not disturb the others.
LEMMA RankedFront ==
  ASSUME NEW n \in Nat, NEW l \in [Slots -> LiveApp(n)], NEW f, NEW q \in Seq(Apps),
         Ranked(l, f, q),
         \A i, j \in Slots : l[i].app # NoApp /\ l[i].app = l[j].app => i = j,
         NEW h, \A i \in Slots : h[i].app = l[i].app /\ (i # f => h[i] = l[i])
  PROVE  Ranked(h, f, q)
<1>1. ASSUME NEW i \in Slots, NEW k \in 1..Len(q), q[k] = h[i].app
      PROVE  h[i] = l[i]
  <2>1. PICK j \in Slots : j # f /\ l[j].app = q[k]
    BY DEF Ranked
  <2>2. l[j].app # NoApp /\ l[j].app = l[i].app
    BY <1>1, <2>1
  <2>3. i = j
    BY <2>2
  <2> QED BY <2>1, <2>3
<1> QED BY <1>1 DEF Ranked

\* An app that takes a free slot, and comes to the front or vacates it again,
\* does not disturb the others.
LEMMA RankedFresh ==
  ASSUME NEW n \in Nat, NEW l \in [Slots -> LiveApp(n)], NEW q \in Seq(Apps),
         Ranked(l, Home, q), NEW i \in Slots, l[i].app = NoApp,
         NEW h, \A j \in Slots : j # i => h[j] = l[j],
         NEW g \in {Home, i}, h[i].app = NoApp \/ g = i,
         \A j \in Slots : l[j].app = NoApp \/ l[j].app # h[i].app
  PROVE  Ranked(h, g, q) /\ Drop(q, NoApp) = q
<1>1. \A j \in Slots : j # Home
  BY DEF Slots, Home
<1>2. \A k \in 1..Len(q) : q[k] # NoApp /\ q[k] # h[i].app
  <2>1. SUFFICES ASSUME NEW k \in 1..Len(q) PROVE q[k] # NoApp /\ q[k] # h[i].app
    OBVIOUS
  <2>2. q[k] \in Apps /\ \E j \in Slots : l[j].app = q[k]
    BY DEF Ranked
  <2> QED BY <2>2
<1>3. Drop(q, NoApp) = q
  BY <1>2 DEF Drop, Contains
<1>4. \A k \in 1..Len(q), j \in Slots : q[k] = l[j].app => j # i
  BY <1>2
<1>5. \A k \in 1..Len(q), j \in Slots : q[k] = h[j].app => j # i
  BY <1>2
<1>6. \A k \in 1..Len(q) : \E j \in Slots : j # g /\ h[j].app = q[k]
  BY <1>1, <1>4 DEF Ranked
<1>7. \A j \in Slots : j # g /\ h[j].app # NoApp => \E k \in 1..Len(q) : q[k] = h[j].app
  BY <1>1 DEF Ranked
<1>8. \A j, m \in Slots : \A k, p \in 1..Len(q) :
        q[k] = h[j].app /\ q[p] = h[m].app /\ k < p => h[j].used < h[m].used
  BY <1>5 DEF Ranked
<1> QED BY <1>3, <1>6, <1>7, <1>8 DEF Ranked

-----------------------------------------------------------------------------
(* Every action is a step of AppLife, and keeps the ranking.               *)

Step == Life!Next \/ UNCHANGED Life!vars

\* An app in front is one app, and who steps back joins those behind.
LEMMA FrontOrHome ==
  ASSUME Inv
  PROVE  /\ Foreground = NoApp <=> fg = Home
         /\ fg # Home => Foreground \in Apps
         /\ Life!Behind = SuspendedOrder
<1>1. Foreground = NoApp <=> fg = Home
  BY DEF Inv, OneInFront, Foreground
<1>2. fg # Home => Foreground \in Apps
  BY DEF Inv, TypeOK, OneInFront, Foreground, LiveApp
<1> QED BY <1>1, <1>2 DEF Life!Behind, SuspendedOrder

\* Coming up with an app is opening it.
LEMMA BootLife ==
  ASSUME LifeInv, NEW last \in Apps \cup {NoApp}, NEW ok \in BOOLEAN, Boot(last, ok), Inv'
  PROVE  Ranked(live, fg, order)' /\ Aged' /\ Step
<1>1. /\ live = [i \in Slots |-> Empty] /\ fg = Home /\ order' = order /\ phase' = "rest"
      /\ order \in Seq(Apps) /\ \A i \in Slots : i # Home
  BY DEF Boot, LifeInv, Inv, Clean, TypeOK, screen, Slots, Home
<1>2. order = <<>>
  <2>1. SUFFICES ASSUME order # <<>> PROVE FALSE
    OBVIOUS
  <2>2. 1 \in 1..Len(order) /\ order[1] \in Apps
    BY <1>1, <2>1
  <2> QED BY <2>2, <1>1 DEF LifeInv, Ranked, Empty
<1>3. Aged'
  BY <1>1 DEF Aged
<1>4. Foreground = NoApp
  BY <1>1 DEF Foreground
<1>5. CASE last = NoApp
  <2>1. live' = live /\ fg' = fg
    BY <1>5 DEF Boot, screen
  <2>2. Ranked(live, fg, order)'
    BY <1>1, <2>1 DEF LifeInv, Ranked
  <2>3. UNCHANGED Life!vars
    BY <1>1, <2>1 DEF Life!vars, Foreground
  <2> QED BY <1>3, <2>2, <2>3 DEF Step
<1>6. CASE last # NoApp
  <2> DEFINE r == IF ok THEN [app |-> last, used |-> 0, suspended |-> FALSE] ELSE Empty
  <2>1. 1 \in Slots
    BY DEF Slots
  <2>2. /\ live' = [i \in Slots |-> IF i = 1 THEN r ELSE Empty]
        /\ fg' = IF ok THEN 1 ELSE Home
    BY <1>1, <1>6, <2>1 DEF Boot
  <2>3. \A i \in Slots : i # fg' => live'[i].app = NoApp
    BY <2>2 DEF Empty
  <2>4. order' = <<>> /\ Len(order') = 0
    BY <1>1, <1>2
  <2>5. Ranked(live, fg, order)'
    BY <2>3, <2>4 DEF Ranked
  <2>6. Foreground' = IF ok THEN last ELSE NoApp
    BY <2>1, <2>2, <1>1 DEF Foreground
  <2>7. Life!Open(last)
    <3>1. Life!Behind = <<>>
      BY <1>2, <1>4 DEF Life!Behind
    <3>2. ~Life!Contains(<<>>, last)
      BY DEF Life!Contains
    <3>3. Len(<<>>) < MaxLive
      OBVIOUS
    <3> QED BY <1>4, <1>6, <2>4, <2>6, <3>1, <3>2, <3>3 DEF Life!Open
  <2> QED BY <1>3, <1>6, <2>5, <2>7 DEF Step, Life!Next
<1> QED BY <1>5, <1>6

\* Showing a warm app is returning to it.
LEMMA ResumeLife ==
  ASSUME LifeInv, NEW a \in Apps, Resume(a)
  PROVE  Ranked(live, fg, order)' /\ Aged' /\ Step
<1>1. ShowWarm(a) /\ phase = "touch" /\ phase' = "rest"
  BY DEF Resume, Touch
<1>2. PICK i \in Slots : i = SlotOf(a) /\ live[i].app = a
  BY <1>1 DEF ShowWarm, IsLive, SlotOf
<1>3. /\ Suspended \in [Slots -> LiveApp(now)]
      /\ \A j \in Slots : Suspended[j].app = live[j].app
      /\ Sane(Suspended, Home)
      /\ SuspendedOrder \in Seq(Apps)
      /\ Ranked(Suspended, Home, SuspendedOrder)
      /\ now \in Nat /\ \A j \in Slots : j # Home
  BY <1>1, SuspendedSane, RankedSuspended DEF LifeInv, Inv, TypeOK, Slots, Home
<1>4. /\ fg' = i
      /\ live' = [Suspended EXCEPT ![i].suspended = FALSE, ![i].used = now]
      /\ order' = Drop(SuspendedOrder, a)
      /\ a # Foreground
  BY <1>1, <1>2 DEF ShowWarm
<1>5. PICK k \in 1..Len(SuspendedOrder) : SuspendedOrder[k] = a
  BY <1>2, <1>3 DEF Ranked
<1>6. order' = RemoveAt(SuspendedOrder, k)
  BY <1>3, <1>4, <1>5, DropAt
<1>7. /\ \A j \in Slots : j # i => live'[j] = Suspended[j]
      /\ live'[i].app = Suspended[i].app
  BY <1>3, <1>4 DEF LiveApp
<1>8. Ranked(live', fg', order')
  <2>1. \A j, m \in Slots : Suspended[j].app # NoApp /\ Suspended[j].app = Suspended[m].app => j = m
    BY <1>3 DEF Sane
  <2>2. Suspended[i].app = SuspendedOrder[k]
    BY <1>2, <1>3, <1>5
  <2>3. /\ fg' \in {Home, i} /\ fg' = i
        /\ live'[i].app \in {NoApp, Suspended[i].app}
    BY <1>4, <1>7
  <2>4. Ranked(live', fg', RemoveAt(SuspendedOrder, k))
    BY <1>3, <1>7, <2>1, <2>2, <2>3, RankedWithout
  <2> QED BY <1>6, <2>4
<1>9. Life!Return(a)
  <2>1. Foreground' = a
    BY <1>2, <1>3, <1>4, <1>7 DEF Foreground
  <2>2. Life!Behind = SuspendedOrder
    BY FrontOrHome DEF LifeInv
  <2>3. order' = Life!RemoveAt(SuspendedOrder, k)
    BY <1>6 DEF RemoveAt, Life!RemoveAt
  <2> QED BY <1>4, <1>5, <2>1, <2>2, <2>3 DEF Life!Return
<1>10. Ranked(live, fg, order)'
  BY <1>8 DEF Ranked
<1> QED BY <1>1, <1>9, <1>10 DEF Aged, Step, Life!Next

\* Starting an app is opening it, and costs the first of those behind when
\* there is no room.
LEMMA StartLife ==
  ASSUME LifeInv, NEW a \in Apps, NEW ok \in BOOLEAN, Start(a, ok)
  PROVE  Ranked(live, fg, order)' /\ Aged' /\ Step
<1>1. StartFresh(a, ok) /\ phase = "touch" /\ phase' = "rest"
  BY DEF Start, Touch
<1>2. /\ Suspended \in [Slots -> LiveApp(now)]
      /\ \A j \in Slots : Suspended[j].app = live[j].app
      /\ Sane(Suspended, Home)
      /\ SuspendedOrder \in Seq(Apps)
      /\ Ranked(Suspended, Home, SuspendedOrder)
      /\ now \in Nat /\ \A j \in Slots : j # Home
  BY <1>1, SuspendedSane, RankedSuspended DEF LifeInv, Inv, TypeOK, Slots, Home
<1>3. PICK i \in Slots : i = Place(Suspended)
  BY <1>2, PlaceFound
<1> DEFINE r == IF ok THEN [app |-> a, used |-> now, suspended |-> FALSE] ELSE Empty
<1>4. /\ live' = [Suspended EXCEPT ![i] = r]
      /\ fg' = IF ok THEN i ELSE Home
      /\ order' = Drop(SuspendedOrder, Suspended[i].app)
      /\ \A j \in Slots : Suspended[j].app # a
  BY <1>1, <1>2, <1>3 DEF StartFresh, IsLive
<1>5. /\ \A j \in Slots : j # i => live'[j] = Suspended[j]
      /\ live'[i].app = IF ok THEN a ELSE NoApp
  BY <1>2, <1>4 DEF Empty
<1>6. Foreground' = IF ok THEN a ELSE NoApp
  BY <1>2, <1>4, <1>5 DEF Foreground
<1>7. /\ fg' \in {Home, i}
      /\ live'[i].app = NoApp \/ fg' = i
      /\ \A j \in Slots : Suspended[j].app = NoApp \/ Suspended[j].app # live'[i].app
      /\ live'[i].app \in {NoApp, Suspended[i].app} \/ \A j \in Slots : Suspended[j].app # live'[i].app
  BY <1>4, <1>5
<1>8. Len(SuspendedOrder) < MaxLive <=> Vacant(Suspended) # {}
  BY <1>2, RoomLeft
<1>9. /\ Ranked(live', fg', order')
      /\ order' = IF Len(SuspendedOrder) < MaxLive THEN SuspendedOrder ELSE Tail(SuspendedOrder)
  <2>1. CASE Vacant(Suspended) # {}
    <3>1. Suspended[i].app = NoApp
      BY <1>3, <2>1, MinOfSlots DEF Place, Vacant
    <3>2. Ranked(live', fg', SuspendedOrder) /\ Drop(SuspendedOrder, NoApp) = SuspendedOrder
      BY <1>2, <1>5, <1>7, <3>1, RankedFresh
    <3> QED BY <1>4, <1>8, <2>1, <3>1, <3>2
  <2>2. CASE Vacant(Suspended) = {}
    <3>1. Candidates(Suspended, Home) # {}
      <4>1. 1 \in Candidates(Suspended, Home)
        BY <2>2 DEF Vacant, Candidates, Slots, Home
      <4> QED BY <4>1
    <3>2. i = Victim(Suspended, Home)
      BY <1>3, <2>2 DEF Place
    <3>3. /\ 1 \in 1..Len(SuspendedOrder) /\ Suspended[i].app = SuspendedOrder[1]
          /\ Drop(SuspendedOrder, SuspendedOrder[1]) = RemoveAt(SuspendedOrder, 1)
          /\ RemoveAt(SuspendedOrder, 1) = Tail(SuspendedOrder)
      BY <1>2, <3>1, <3>2, VictimIsFirst
    <3>4. \A j, m \in Slots : Suspended[j].app # NoApp /\ Suspended[j].app = Suspended[m].app => j = m
      BY <1>2 DEF Sane
    <3>5. Ranked(live', fg', RemoveAt(SuspendedOrder, 1))
      BY SMTT(30), <1>2, <1>5, <1>7, <3>3, <3>4, RankedWithout
    <3> QED BY <1>4, <1>8, <2>2, <3>3, <3>5
  <2> QED BY <2>1, <2>2
<1>10. Life!Open(a)
  <2>1. a # Foreground
    BY <1>2, <1>4 DEF Foreground, LifeInv, Inv, TypeOK
  <2>2. Life!Behind = SuspendedOrder
    BY FrontOrHome DEF LifeInv
  <2>3. ~Life!Contains(SuspendedOrder, a)
    BY <1>2, <1>4 DEF Life!Contains, Ranked
  <2> QED BY <1>6, <1>9, <2>1, <2>2, <2>3 DEF Life!Open
<1>11. Ranked(live, fg, order)'
  BY <1>9 DEF Ranked
<1> QED BY <1>1, <1>10, <1>11 DEF Aged, Step, Life!Next

\* Leaving for the grid is going home.
LEMMA LeaveLife ==
  ASSUME LifeInv, LeaveApp, phase # "rest"
  PROVE  Ranked(live, fg, order)' /\ Aged' /\ Step
<1>1. live' = Suspended /\ order' = SuspendedOrder /\ fg' = Home
  BY DEF LeaveApp
<1>2. Ranked(live, fg, order)'
  BY <1>1, RankedSuspended DEF Ranked
<1>3. Life!Home
  <2>1. Life!Behind = SuspendedOrder
    BY FrontOrHome DEF LifeInv
  <2>2. Foreground' = NoApp
    BY <1>1 DEF Foreground
  <2> QED BY <1>1, <2>1, <2>2 DEF Life!Home
<1> QED BY <1>1, <1>2, <1>3 DEF Aged, Step, Life!Next

\* What leaves the screen alone is no step of AppLife at all.
LEMMA StayLife ==
  ASSUME LifeInv, UNCHANGED screen, UNCHANGED <<now, phase>> \/ phase' = "rest" \/ Frame
  PROVE  Ranked(live, fg, order)' /\ Aged' /\ Step
<1>1. live' = live /\ fg' = fg /\ order' = order
  BY DEF screen
<1>2. Ranked(live, fg, order)'
  BY <1>1 DEF LifeInv, Ranked
<1>3. Aged'
  <2>1. CASE UNCHANGED <<now, phase>>
    BY <1>1, <2>1 DEF LifeInv, Aged
  <2>2. CASE phase' = "rest"
    BY <2>2 DEF Aged
  <2>3. CASE Frame
    <3>1. \A i \in Slots : live[i].used \in Nat /\ live[i].used <= now
      BY DEF LifeInv, Inv, TypeOK, LiveApp
    <3>2. now' = now + 1 /\ now \in Nat
      BY <2>3 DEF Frame, LifeInv, Inv, TypeOK
    <3>3. \A i \in Slots : live'[i].used < now'
      BY <1>1, <3>1, <3>2
    <3> QED BY <3>3 DEF Aged
  <2> QED BY <2>1, <2>2, <2>3
<1>4. UNCHANGED Life!vars
  BY <1>1 DEF Life!vars, Foreground
<1> QED BY <1>2, <1>3, <1>4 DEF Step

\* Memory pressure reclaims the first of those behind.
LEMMA MemPressureLife ==
  ASSUME LifeInv, MemPressure
  PROVE  Ranked(live, fg, order)' /\ Aged' /\ Step
<1>1. live \in [Slots -> LiveApp(now)] /\ now \in Nat /\ order \in Seq(Apps)
      /\ Ranked(live, fg, order) /\ fg \in Slots \cup {Home} /\ Candidates(live, fg) # {}
  BY DEF LifeInv, Inv, TypeOK, MemPressure
<1>2. PICK i \in Slots : i = Victim(live, fg) /\ i # fg
      /\ order # <<>> /\ 1 \in 1..Len(order) /\ live[i].app = order[1]
      /\ Drop(order, order[1]) = RemoveAt(order, 1) /\ RemoveAt(order, 1) = Tail(order)
  BY <1>1, VictimIsFirst
<1>3. /\ live' = [live EXCEPT ![i] = Empty] /\ fg' = fg
      /\ order' = Drop(order, live[i].app) /\ phase' = phase /\ now' = now
  BY <1>2 DEF MemPressure
<1>4. /\ \A j \in Slots : j # i => live'[j] = live[j]
      /\ live'[i].app = NoApp
  BY <1>1, <1>3 DEF Empty
<1>5. \A j, m \in Slots : live[j].app # NoApp /\ live[j].app = live[m].app => j = m
  BY DEF LifeInv, Inv, OneInFront
<1>6. Ranked(live', fg, RemoveAt(order, 1))
  BY SMTT(30), <1>1, <1>2, <1>4, <1>5, RankedWithout
<1>7. Ranked(live, fg, order)'
  <2>1. order' = RemoveAt(order, 1) /\ fg' = fg
    BY <1>2, <1>3
  <2>2. Ranked(live', fg', order')
    BY <1>6, <2>1
  <2> QED BY <2>2 DEF Ranked
<1>8. Aged'
  BY <1>3, <1>4 DEF LifeInv, Aged
<1>9. Foreground' = Foreground
  BY <1>1, <1>2, <1>3, <1>4 DEF Foreground
<1>10. Life!Reclaim
  BY <1>2, <1>3, <1>9 DEF Life!Reclaim
<1> QED BY <1>7, <1>8, <1>10 DEF Step, Life!Next

\* Stamping the app in front is no step of AppLife.
LEMMA AppTickLife ==
  ASSUME LifeInv, AppTick
  PROVE  Ranked(live, fg, order)' /\ Aged' /\ Step
<1>1. /\ live' = IF fg = Home THEN live ELSE [live EXCEPT ![fg].used = now]
      /\ phase = "events" /\ phase' = "touch"
      /\ fg' = fg /\ order' = order /\ now' = now
  BY DEF AppTick
<1>2. live \in [Slots -> LiveApp(now)] /\ now \in Nat /\ order \in Seq(Apps)
      /\ Ranked(live, fg, order) /\ fg \in Slots \cup {Home}
  BY DEF LifeInv, Inv, TypeOK
<1>3. \A j \in Slots : live'[j].app = live[j].app /\ (j # fg => live'[j] = live[j])
  BY <1>1, <1>2 DEF LiveApp
<1>4. \A j, m \in Slots : live[j].app # NoApp /\ live[j].app = live[m].app => j = m
  BY DEF LifeInv, Inv, OneInFront
<1>5. Ranked(live', fg, order)
  BY <1>2, <1>3, <1>4, RankedFront
<1>6. Ranked(live, fg, order)'
  BY <1>1, <1>5 DEF Ranked
<1>7. Aged'
  BY <1>1, <1>3 DEF LifeInv, Aged
<1>8. UNCHANGED Life!vars
  BY <1>1, <1>2, <1>3 DEF Life!vars, Foreground
<1> QED BY <1>6, <1>7, <1>8 DEF Step

\* Shutting down is shutting down.
LEMMA DeinitLife ==
  ASSUME LifeInv, Deinit
  PROVE  Ranked(live, fg, order)' /\ Aged' /\ Step
<1>1. live' = [i \in Slots |-> Empty] /\ fg' = Home /\ order' = <<>>
  BY DEF Deinit
<1>2. Ranked(live, fg, order)'
  <2>1. \A i \in Slots : live'[i].app = NoApp
    BY <1>1 DEF Empty
  <2>2. Len(order') = 0
    BY <1>1
  <2> QED BY <2>1, <2>2 DEF Ranked
<1>3. Life!Shutdown
  BY <1>1 DEF Life!Shutdown, Life!Init, Foreground
<1> QED BY <1>1, <1>2, <1>3 DEF Aged, Step, Life!Next

-----------------------------------------------------------------------------
\* Every step is a step of AppLife and keeps the ranking.
LEMMA NextLife ==
  ASSUME LifeInv, Inv', [Next]_vars
  PROVE  Ranked(live, fg, order)' /\ Aged' /\ Step
<1>1. ASSUME NEW a \in Apps \cup {NoApp}, NEW ok \in BOOLEAN, Boot(a, ok)
      PROVE  Ranked(live, fg, order)' /\ Aged' /\ Step
  BY <1>1, BootLife
<1>2. ASSUME NEW a \in Apps, Resume(a)
      PROVE  Ranked(live, fg, order)' /\ Aged' /\ Step
  BY <1>2, ResumeLife
<1>3. ASSUME NEW a \in Apps, NEW ok \in BOOLEAN, Start(a, ok)
      PROVE  Ranked(live, fg, order)' /\ Aged' /\ Step
  BY <1>3, StartLife
<1>4. CASE Back
  <2>1. phase # "rest" /\ UNCHANGED <<now, phase>> /\ (UNCHANGED screen \/ LeaveApp)
    BY <1>4 DEF Back, GoHome
  <2> QED BY <2>1, StayLife, LeaveLife
<1>5. CASE Swipe
  <2>1. phase # "rest" /\ phase' = "rest" /\ (UNCHANGED screen \/ LeaveApp)
    BY <1>5 DEF Swipe, Touch, GoHome
  <2> QED BY <2>1, StayLife, LeaveLife
<1>6. CASE OpenModal \/ CloseModal \/ ResetFails
  <2>1. phase' = "rest" /\ UNCHANGED screen
    BY <1>6 DEF OpenModal, CloseModal, ResetFails, Touch
  <2> QED BY <2>1, StayLife
<1>7. CASE ConfirmModal
  <2>1. phase # "rest" /\ LeaveApp
    BY <1>7 DEF ConfirmModal, Touch
  <2> QED BY <2>1, LeaveLife
<1>8. CASE Frame
  <2>1. UNCHANGED screen
    BY <1>8 DEF Frame
  <2> QED BY <1>8, <2>1, StayLife
<1>9. CASE BridgeEvent
  <2>1. UNCHANGED screen /\ UNCHANGED <<now, phase>>
    BY <1>9 DEF BridgeEvent
  <2> QED BY <2>1, StayLife
<1>10. CASE MemPressure
  BY <1>10, MemPressureLife
<1>11. CASE AppTick
  BY <1>11, AppTickLife
<1>12. CASE Deinit
  BY <1>12, DeinitLife
<1>13. CASE UNCHANGED vars
  <2>1. UNCHANGED screen /\ UNCHANGED <<now, phase>>
    BY <1>13 DEF vars, screen
  <2> QED BY <2>1, StayLife
<1> QED BY <1>1, <1>2, <1>3, <1>4, <1>5, <1>6, <1>7, <1>8, <1>9, <1>10, <1>11, <1>12, <1>13 DEF Next

\* The initial states are initial states of AppLife.
LEMMA InitLife == Init => Ranked(live, fg, order) /\ Aged /\ Life!Init
<1> SUFFICES ASSUME Init PROVE Ranked(live, fg, order) /\ Aged /\ Life!Init
  OBVIOUS
<1>1. \A i \in Slots : live[i].app = NoApp
  BY DEF Init, Empty
<1>2. order = <<>> /\ fg = Home /\ Len(order) = 0
  BY DEF Init
<1> QED BY <1>1, <1>2 DEF Ranked, Aged, Life!Init, Foreground

\* What the shell does with stamps and slots is what docs/app-lifecycle.md
\* says of recency: the app that is closed to make room is the one that left
\* the front longest ago, and never the one in front.
THEOREM ShellImplementsAppLife == Spec => ImplementsAppLife
<1>1. Init => LifeInv /\ Life!Init
  BY InitInv, InitLife DEF LifeInv
<1>2. LifeInv /\ Inv' /\ [Next]_vars => LifeInv' /\ [Life!Next]_(Life!vars)
  BY NextLife DEF LifeInv, Step
<1> QED BY <1>1, <1>2, SpecInv, PTL DEF Spec, ImplementsAppLife, Life!Spec
=============================================================================
