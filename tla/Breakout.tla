------------------------------- MODULE Breakout -------------------------------
(***************************************************************************)
(* What is counted in the brick game: bricks, lives, levels and what falls *)
(* from broken bricks (breakout_core.c, breakout_app.c).  Where the ball,  *)
(* the paddle and the drops are is left out: a step of the ball may hit up *)
(* to two bricks, one on either axis, or leave the field, which is nowhere *)
(* near the bricks; a drop may be caught or missed; a timer may run out.   *)
(***************************************************************************)
EXTENDS Integers, FiniteSets

CONSTANTS
  Bricks,    \* BO_BRICKS; Upper of them may take two hits
  Upper,     \* the bricks of the two upper rows
  Lives,     \* BO_LIVES
  MostLives, \* 9
  MaxDrops,  \* BO_MAX_DROPS
  MaxLevel   \* bound: levels

Parameters ==
  /\ Bricks \subseteq Nat \ {0} /\ IsFiniteSet(Bricks) /\ Bricks # {}
  /\ Lives \in 1..MostLives /\ MostLives \in Nat /\ MaxDrops \in Nat /\ MaxLevel \in Nat

VARIABLES
  c,      \* breakout_core_t: lives, level, bricks_left, ball_stuck, slow_timer, wide_timer
  brick,  \* hp of every brick; bricks are numbered from 1
  drops,  \* [slots -> what falls, or "none"]
  state   \* "playing" or "over"

vars == <<c, brick, drops, state>>

Kinds == {"wide", "slow", "life"}
NoDrops == [i \in 1..MaxDrops |-> "none"]

\* breakout_core_start_level: hp 2 appears from level 2, in the upper rows.
Walls(level) ==
  {hp \in [Bricks -> 1..2] : \A b \in Bricks : hp[b] = 2 => level >= 2 /\ b \in Upper}
Parked(lives, level) ==
  [lives |-> lives, level |-> level, left |-> Cardinality(Bricks), stuck |-> TRUE,
   slow |-> FALSE, wide |-> FALSE, paddle |-> "normal"]

\* breakout_core_reset and level 1.
Init ==
  /\ c = Parked(Lives, 1) /\ brick \in Walls(1) /\ drops = NoDrops /\ state = "playing"

Restart ==
  /\ state = "over"
  /\ c' = Parked(Lives, 1) /\ brick' \in Walls(1) /\ drops' = NoDrops /\ state' = "playing"

\* breakout_core_launch.
Launch ==
  /\ state = "playing" /\ c.stuck
  /\ c' = [c EXCEPT !.stuck = FALSE]
  /\ UNCHANGED <<brick, drops, state>>

-----------------------------------------------------------------------------
(* breakout_core_step, and what breakout_update makes of it.               *)

\* A timer runs out, and a wide paddle is narrow again.
TimeOut(which) ==
  /\ state = "playing" /\ c[which]
  /\ c' = [c EXCEPT ![which] = FALSE, !.paddle = IF which = "wide" THEN "normal" ELSE @]
  /\ UNCHANGED <<brick, drops, state>>

\* Mutant: lives are not capped.
CaughtEver(kind) ==
  CASE kind = "wide" -> [c EXCEPT !.wide = TRUE, !.paddle = "wide"]
    [] kind = "slow" -> [c EXCEPT !.slow = TRUE]
    [] kind = "life" -> [c EXCEPT !.lives = @ + 1]

\* A drop is caught, or falls past.
Caught(kind) ==
  CASE kind = "wide" -> [c EXCEPT !.wide = TRUE, !.paddle = "wide"]
    [] kind = "slow" -> [c EXCEPT !.slow = TRUE]
    [] kind = "life" -> [c EXCEPT !.lives = IF @ < MostLives THEN @ + 1 ELSE @]
Falls(i) ==
  /\ state = "playing" /\ drops[i] # "none"
  /\ drops' = [drops EXCEPT ![i] = "none"]
  /\ c' \in {c, Caught(drops[i])}
  /\ UNCHANGED <<brick, state>>

\* spawn_drop, one brick in six, into the first free slot.
FreeSlots(d) == {i \in 1..MaxDrops : d[i] = "none"}
Spawned(d) ==
  {d} \union {[d EXCEPT ![i] = kind] :
                i \in {j \in FreeSlots(d) : \A k \in FreeSlots(d) : j <= k}, kind \in Kinds}

\* brick_at and break_brick: a brick that is gone is not hit.
Broken(hits) ==
  [b \in Bricks |->
     LET n == Cardinality({i \in {1, 2} : hits[i] = b})
     IN IF n < brick[b] THEN brick[b] - n ELSE 0]

\* Mutant: a brick that is only chipped is counted off.
GoneChipped(now) == {b \in Bricks : now[b] < brick[b]}
Gone(now) == {b \in Bricks : brick[b] > 0 /\ now[b] = 0}

\* A step with up to two hits.  With the last brick the next level begins, with
\* nothing falling and nothing running.
Flies(hits) ==
  LET now == Broken(hits)
      left == c.left - Cardinality(Gone(now))
  IN IF left > 0
     THEN /\ c' = [c EXCEPT !.left = left]
          /\ brick' = now
          /\ \E d \in Spawned(drops) :
               drops' \in IF Gone(now) = {} THEN {drops}
                          ELSE IF Cardinality(Gone(now)) = 1 THEN {d} ELSE Spawned(d)
     ELSE /\ c' = Parked(c.lives, c.level + 1)
          /\ brick' \in Walls(c.level + 1)
          /\ drops' = NoDrops

Fly ==
  /\ state = "playing" /\ ~c.stuck /\ c.level <= MaxLevel
  /\ \E hits \in (Bricks \union {0}) \X (Bricks \union {0}) : Flies(hits)
  /\ UNCHANGED state

\* The ball is lost: with it a life, and whatever was running.
Lost ==
  /\ state = "playing" /\ ~c.stuck
  /\ c' = IF c.lives = 1 THEN [c EXCEPT !.lives = 0]
          ELSE [Parked(c.lives - 1, c.level) EXCEPT !.left = c.left]
  /\ state' = IF c.lives = 1 THEN "over" ELSE state
  /\ UNCHANGED <<brick, drops>>

Next ==
  \/ Launch
  \/ \E which \in {"slow", "wide"} : TimeOut(which)
  \/ \E i \in 1..MaxDrops : Falls(i)
  \/ Fly
  \/ Lost
  \/ Restart

-----------------------------------------------------------------------------

TypeOK ==
  /\ c \in [lives : 0..MostLives, level : 1..(MaxLevel + 1), left : 0..Cardinality(Bricks),
            stuck : BOOLEAN, slow : BOOLEAN, wide : BOOLEAN, paddle : {"normal", "wide"}]
  /\ brick \in [Bricks -> 0..2]
  /\ drops \in [1..MaxDrops -> Kinds \union {"none"}]
  /\ state \in {"playing", "over"}

\* However the ball bounces, even twice off one brick in a step, the bricks left are
\* the bricks that stand, and no level is played on without one.
BricksAreCounted ==
  /\ c.left = Cardinality({b \in Bricks : brick[b] > 0})
  /\ c.left > 0

\* A run goes on exactly while a life is left, and the paddle is wide exactly while
\* the timer that will narrow it runs, over lost balls and new levels.
RunEndsWithLives ==
  /\ (state = "playing") = (c.lives > 0)
  /\ (c.paddle = "wide") = c.wide

BreakoutIsFair == BricksAreCounted /\ RunEndsWithLives
=============================================================================
