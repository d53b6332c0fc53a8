-------------------------------- MODULE Runner --------------------------------
(***************************************************************************)
(* The jump of the one-button runner, runner_core.c, and the taps that     *)
(* runner_app.c makes of touches and of button A.  How high the player is  *)
(* is left out: in the air, a step may land it or not; any step may crash. *)
(* Time is counted in steps.  Obstacles and distance are left out.         *)
(***************************************************************************)
EXTENDS Integers

CONSTANTS
  Coyote,  \* RN_COYOTE_S
  Buffer   \* RN_BUFFER_S

Parameters == Coyote \in Nat /\ Buffer \in Nat

VARIABLES
  player,  \* on_ground, coyote, buffered
  state,   \* "playing" or "over"
  jumps    \* history: jumps since the player last stood, the first one buffered or not

vars == <<player, state, jumps>>

Fresh == [ground |-> TRUE, coyote |-> 0, buffered |-> 0]
Standing == [count |-> 0, sprung |-> FALSE]
Init == player = Fresh /\ state = "playing" /\ jumps = Standing
Restart == state = "over" /\ player' = Fresh /\ state' = "playing" /\ jumps' = Standing

\* Mutant: a jump does not use up the grace it may have been owed to.
JumpKeepsGrace ==
  /\ state = "playing"
  /\ IF player.ground \/ player.coyote > 0
     THEN /\ player' = [player EXCEPT !.ground = FALSE, !.buffered = 0]
          /\ jumps' = [jumps EXCEPT !.count = @ + 1]
     ELSE player' = [player EXCEPT !.buffered = Buffer] /\ UNCHANGED jumps
  /\ UNCHANGED state

\* runner_core_jump: now, from the ground or within the grace; or later.
Jump ==
  /\ state = "playing"
  /\ IF player.ground \/ player.coyote > 0
     THEN /\ player' = [ground |-> FALSE, coyote |-> 0, buffered |-> 0]
          /\ jumps' = [jumps EXCEPT !.count = @ + 1]
     ELSE player' = [player EXCEPT !.buffered = Buffer] /\ UNCHANGED jumps
  /\ UNCHANGED state

Less(t) == IF t > 0 THEN t - 1 ELSE 0

\* The vertical part of runner_core_step.  Standing or landing gives the grace anew;
\* a jump that was buffered goes off at once, and keeps it.
Step(lands) ==
  LET standing == player.ground \/ lands
      buffered == Less(player.buffered)
      springs == player.buffered > 0 /\ standing
  IN /\ player' = [ground |-> standing /\ ~springs,
                   coyote |-> IF standing THEN Coyote ELSE Less(player.coyote),
                   buffered |-> IF springs THEN 0 ELSE buffered]
     /\ jumps' = IF springs THEN [count |-> 1, sprung |-> TRUE]
                 ELSE IF standing THEN Standing ELSE jumps

\* runner_update, which a crash ends.
Update ==
  /\ state = "playing"
  /\ \E lands \in IF player.ground THEN {FALSE} ELSE BOOLEAN : Step(lands)
  /\ state' \in {"playing", "over"}

Next == Jump \/ Update \/ Restart

-----------------------------------------------------------------------------

TypeOK ==
  /\ player \in [ground : BOOLEAN, coyote : 0..Coyote, buffered : 0..Buffer]
  /\ state \in {"playing", "over"}
  /\ jumps \in [count : 0..2, sprung : BOOLEAN]

\* One jump for every time the player stood, however the button is mashed; but for
\* one more within the grace that a buffered jump takes along into the air.
OneJumpALanding ==
  /\ jumps.count <= IF jumps.sprung THEN 2 ELSE 1
  /\ player.ground => jumps.count = 0
  /\ (~player.ground /\ player.coyote > 0) => jumps.sprung /\ jumps.count = 1
=============================================================================
