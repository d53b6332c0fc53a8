-------------------------------- MODULE Reflex --------------------------------
(***************************************************************************)
(* The reaction trainer: reflex_core.c, and the app that steps its clock   *)
(* and ends the run when the rounds are over (reflex_app.c).  Times are in *)
(* steps of that clock, which counts 8 ms for every 1/120 s.               *)
(***************************************************************************)
EXTENDS Integers, Sequences

CONSTANTS
  Rounds,    \* RX_ROUNDS
  Delays,    \* from RX_DELAY_MIN_MS to RX_DELAY_MAX_MS
  Feedback,  \* FEEDBACK_MS
  Floor,     \* RX_HUMAN_FLOOR_MS
  Ceiling    \* bound: of what a round is timed up to; RX_SCORE_CEILING_MS is below it

Parameters ==
  /\ Rounds \in Nat \ {0} /\ Delays \subseteq Nat /\ Feedback \in Nat
  /\ Floor \in Nat /\ Ceiling \in Nat /\ Floor <= Ceiling

VARIABLES
  core,    \* reflex_core_t: state, timer_ms, hold_ms
  result,  \* result and voided of the rounds that are over
  score,   \* of the run, once it is over
  shown    \* history: how long the target of this round has been there to see

vars == <<core, result, score, shown>>

Running == -1   \* no score yet

Waiting(delay) == [state |-> "waiting", timer |-> delay, hold |-> 0]

\* reflex_start, reflex_core_reset.
Init ==
  /\ \E delay \in Delays : core = Waiting(delay)
  /\ result = <<>> /\ score = Running /\ shown = 0

Restart ==
  /\ score # Running
  /\ \E delay \in Delays : core' = Waiting(delay)
  /\ result' = <<>> /\ score' = Running /\ shown' = 0

\* What a round is worth, and the sum over the rounds: reflex_core_score.
Worth(r) == IF ~r.voided /\ r.ms < Ceiling THEN Ceiling - r.ms ELSE 0
Sum[n \in 0..Rounds] == IF n = 0 THEN 0 ELSE Sum[n - 1] + Worth(result[n])

\* reflex_update: one step of the clock; a run that has finished is scored and over.
Step ==
  /\ score = Running
  /\ CASE core.state = "waiting" /\ core.timer <= 1 ->
            core' = [core EXCEPT !.state = "armed", !.timer = 0] /\ shown' = 0 /\ UNCHANGED score
       [] core.state = "waiting" /\ core.timer > 1 ->
            core' = [core EXCEPT !.timer = @ - 1] /\ UNCHANGED <<score, shown>>
       [] core.state = "armed" ->
            /\ core' = [core EXCEPT !.timer = IF @ < Ceiling THEN @ + 1 ELSE @]
            /\ shown' = IF shown < Ceiling THEN shown + 1 ELSE shown
            /\ UNCHANGED score
       [] core.state = "feedback" /\ core.hold > 1 ->
            core' = [core EXCEPT !.hold = @ - 1] /\ UNCHANGED <<score, shown>>
       [] core.state = "feedback" /\ core.hold <= 1 /\ Len(result) < Rounds ->
            (\E delay \in Delays : core' = Waiting(delay)) /\ shown' = 0 /\ UNCHANGED score
       [] core.state = "feedback" /\ core.hold <= 1 /\ Len(result) = Rounds ->
            core' = [core EXCEPT !.state = "finished"] /\ score' = Sum[Rounds] /\ UNCHANGED shown
  /\ UNCHANGED result

\* finish_round.
FinishRound(ms, voided) ==
  /\ core' = [core EXCEPT !.state = "feedback", !.hold = Feedback]
  /\ result' = Append(result, [ms |-> ms, voided |-> voided])
  /\ UNCHANGED <<score, shown>>

\* Mutant: a tap before the target appears is a very fast one.
TapMashes ==
  /\ score = Running /\ core.state \in {"waiting", "armed"}
  /\ FinishRound(core.timer, core.state = "armed" /\ core.timer < Floor)

\* reflex_core_tap: too soon, or too soon to be true, voids the round; a tap while
\* the feedback shows is ignored.
Tap ==
  /\ score = Running /\ core.state \in {"waiting", "armed"}
  /\ FinishRound(IF core.state = "waiting" THEN 0 ELSE core.timer,
                 core.state = "waiting" \/ core.timer < Floor)

Next == Step \/ Tap \/ Restart

-----------------------------------------------------------------------------

TypeOK ==
  /\ core.state \in {"waiting", "armed", "feedback", "finished"}
  /\ Len(result) <= Rounds
  /\ score \in Int /\ shown \in 0..Ceiling

\* Mashing measures nothing: what a round counts for is how long its target was there
\* to see, no round counts that was answered before anyone could have, and every run
\* has all its rounds (reflex_core.h: tapping too soon must cost something).
RoundsAreEarned ==
  /\ core.state = "feedback" =>
       LET r == result[Len(result)]
       IN ~r.voided => r.ms = shown /\ shown >= Floor
  /\ (score # Running) = (core.state = "finished")
  /\ score # Running => Len(result) = Rounds /\ score <= Rounds * (Ceiling - Floor)
=============================================================================
