------------------------------- MODULE Power -------------------------------
(***************************************************************************)
(* Input, idling and the backlight: input_service.c, power_service.c and   *)
(* the policy in power_core.c.  A frame polls the touch panel, then the    *)
(* buttons, then ticks the power service; both polls pass a press through  *)
(* the policy first, which may keep it to itself to wake the screen.       *)
(*                                                                         *)
(* The panel, the contacts and the charger are read afresh by every poll   *)
(* and may have changed since the last one: a read is any value.  Time is  *)
(* counted in units, and a frame takes none or some of them.               *)
(***************************************************************************)
EXTENDS Integers, FiniteSets

CONSTANTS
  Buttons,   \* the buttons
  Timeouts,  \* sleep_after_ms settings, in units
  Debounce   \* NEV_BTN_DEBOUNCE_MS, in units

\* There is a longest timeout.
Parameters ==
  /\ Timeouts \subseteq Nat /\ Debounce \in Nat
  /\ \E t \in Timeouts : \A u \in Timeouts : u <= t

VARIABLES
  core,    \* nev_power_core_t; since: now_ms - last_activity_ms, up to Longest
  touch,   \* s_touch_down, s_swallowing
  btn,     \* s_buttons, s_raw_last, and now_ms - s_raw_since_ms, up to Debounce
  stage,   \* the part of the frame that runs next
  heard    \* what the bus has been told last: a finger, buttons, nobody here, light

vars == <<core, touch, btn, stage, heard>>

Longest == CHOOSE t \in Timeouts : \A u \in Timeouts : u <= t
UpTo(n, bound) == IF n < bound THEN n ELSE bound

\* sleep_after and dim_after.
SleepAfter == IF core.low /\ ~core.charging THEN core.sleep \div 2 ELSE core.sleep
DimAfter == (SleepAfter * 2) \div 3

Init ==
  \E t \in Timeouts :
    /\ core = [phase |-> "active", since |-> 0, charging |-> FALSE, low |-> FALSE,
               sleep |-> t, changed |-> FALSE]
    /\ touch = [down |-> FALSE, swallowing |-> FALSE]
    /\ btn = [published |-> {}, raw |-> {}, held |-> 0]
    /\ stage = "touch"
    /\ heard = [finger |-> FALSE, buttons |-> {}, dozing |-> FALSE, lit |-> TRUE]

\* set_phase; phase_changed stays set until a tick or a new setting clears it.
SetPhase(c, phase) == [c EXCEPT !.phase = phase, !.changed = @ \/ c.phase # phase]

\* nev_power_core_activity, and whether the press may be delivered.
Activity(c) == [SetPhase(c, "active") EXCEPT !.since = 0]
Delivers(c) == c.phase # "asleep"

\* power_service_gate_input: a phase that has changed is lit and announced.
Gate(h, c) == IF Activity(c).changed THEN [h EXCEPT !.lit = TRUE, !.dozing = FALSE] ELSE h

-----------------------------------------------------------------------------
(* The polls.                                                              *)

\* A finger lands: the touch that wakes the screen is swallowed.
Lands ==
  /\ ~touch.down
  /\ touch' = [down |-> TRUE, swallowing |-> touch.swallowing \/ ~Delivers(core)]
  /\ core' = Activity(core)
  /\ heard' = [Gate(heard, core) EXCEPT !.finger = @ \/ Delivers(core)]

\* Mutant: a touch that woke the screen goes on being swallowed after the finger lifts.
LiftsUnswallowed ==
  /\ touch.down
  /\ touch' = [touch EXCEPT !.down = FALSE]
  /\ heard' = IF touch.swallowing THEN heard ELSE [heard EXCEPT !.finger = FALSE]
  /\ UNCHANGED core

\* A finger lifts: its UP follows only a DOWN that was published.
Lifts ==
  /\ touch.down
  /\ touch' = [down |-> FALSE, swallowing |-> FALSE]
  /\ heard' = IF touch.swallowing THEN heard ELSE [heard EXCEPT !.finger = FALSE]
  /\ UNCHANGED core

\* poll_touch, at the start of the next frame.
PollTouch ==
  /\ stage = "touch"
  /\ stage' = "buttons"
  /\ Lands \/ Lifts \/ UNCHANGED <<core, touch, heard>>
  /\ UNCHANGED btn

\* The presses of one read, gated in the order of the bits: the first of them
\* may wake the screen, and is not delivered then.
Pressed(raw) == raw \ btn.published
FirstOf(S) == {b \in S : \A c \in S : b <= c}
Delivered(raw) == IF Delivers(core) THEN Pressed(raw) ELSE Pressed(raw) \ FirstOf(Pressed(raw))

\* A contact that has been steady for long enough is published; a release always.
Publish(raw) ==
  /\ btn' = [btn EXCEPT !.published = raw]
  /\ core' = IF Pressed(raw) = {} THEN core ELSE Activity(core)
  /\ heard' = [(IF Pressed(raw) = {} THEN heard ELSE Gate(heard, core))
                 EXCEPT !.buttons = (@ \intersect raw) \union Delivered(raw)]

\* The rest of input_service_poll: the debounce.
PollButtons ==
  /\ stage = "buttons"
  /\ stage' = "tick"
  /\ \E raw \in SUBSET Buttons :
       IF raw # btn.raw
       THEN btn' = [btn EXCEPT !.raw = raw, !.held = 0] /\ UNCHANGED <<core, heard>>
       ELSE IF raw # btn.published /\ btn.held >= Debounce
       THEN Publish(raw)
       ELSE UNCHANGED <<btn, core, heard>>
  /\ UNCHANGED touch

-----------------------------------------------------------------------------
(* The power service's tick.                                               *)

\* drain_settings: the phase stays, and nothing is announced of it.
Configured(c) == {c} \union {[c EXCEPT !.sleep = t, !.changed = FALSE] : t \in Timeouts}

\* poll_supply, when it is due.
Supplied(c) ==
  \/ core' = c
  \/ \E p, l \in BOOLEAN : core' = [c EXCEPT !.charging = p, !.low = l]

\* nev_power_core_tick: the phase that the time since the last press calls for.
PhaseNow ==
  IF core.since >= SleepAfter THEN IF core.charging THEN "dim" ELSE "asleep"
  ELSE IF core.since >= DimAfter THEN "dim" ELSE "active"

\* The settings and the supply are read before the phase is drawn from them.
Settings ==
  /\ stage = "tick"
  /\ stage' = "phase"
  /\ \E c \in Configured(core) : Supplied(c)
  /\ UNCHANGED <<touch, btn, heard>>

\* The rest of power_service_tick; then the frame, which takes some time.
\* IDLE_ENTER on the way into sleep, IDLE_EXIT on the way out.
Tick ==
  /\ stage = "phase"
  /\ stage' = "touch"
  /\ heard' = IF core.phase = PhaseNow THEN heard
              ELSE [heard EXCEPT !.lit = PhaseNow # "asleep", !.dozing = PhaseNow = "asleep"]
  /\ \E dt \in 0..Longest :
       /\ core' = [SetPhase([core EXCEPT !.changed = FALSE], PhaseNow)
                     EXCEPT !.since = UpTo(@ + dt, Longest)]
       /\ btn' = [btn EXCEPT !.held = UpTo(@ + dt, Debounce)]
  /\ UNCHANGED touch

Next == PollTouch \/ PollButtons \/ Settings \/ Tick

-----------------------------------------------------------------------------

Phases == {"active", "dim", "asleep"}

TypeOK ==
  /\ core \in [phase : Phases, since : 0..Longest, charging : BOOLEAN, low : BOOLEAN,
               sleep : Timeouts, changed : BOOLEAN]
  /\ touch \in [down : BOOLEAN, swallowing : BOOLEAN]
  /\ btn \in [published : SUBSET Buttons, raw : SUBSET Buttons, held : 0..Debounce]
  /\ stage \in {"touch", "buttons", "tick", "phase"}
  /\ heard \in [finger : BOOLEAN, buttons : SUBSET Buttons, dozing : BOOLEAN, lit : BOOLEAN]

\* The bus believes in a finger exactly while one is down that did not wake the
\* screen, so that every DOWN gets its UP and a touch that woke the screen gives
\* neither (input_service.c, s_swallowing).
TouchesPair == heard.finger = (touch.down /\ ~touch.swallowing)

\* Nobody on the bus is left thinking a button is still held.
NoStuckButton == heard.buttons \subseteq btn.published

\* The persona dozes, and the backlight is out, exactly while the policy sleeps,
\* however it got there: by time, by a charger, by a setting or by a press.
DozesAsleep == /\ heard.dozing = (core.phase = "asleep")
               /\ heard.lit = (core.phase # "asleep")

\* Input and idling agree with what the rest of the device was told of them.
InputAgrees == TouchesPair /\ NoStuckButton /\ DozesAsleep
=============================================================================
