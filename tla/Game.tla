--------------------------------- MODULE Game ---------------------------------
(***************************************************************************)
(* The engine under the five games, game.c: one run after another of the   *)
(* game that is open, its score and its best, and the fixed updates that   *)
(* a frame runs.  What an update does is the game's business: it scores,   *)
(* or ends the run, or both.  All of it runs on nev_ui; a frame is in two  *)
(* kinds of step here, the updates and the end of it.                      *)
(***************************************************************************)
EXTENDS Integers

CONSTANTS
  Step,       \* 1 / tick_hz, in units of the clock
  Frames,     \* what a frame may take, in units; also hours, for a suspended game
  Wrap,       \* 2^32 us
  MaxSteps,   \* MAX_STEPS_PER_FRAME
  MaxScore    \* bound: scores

\* Time passes, and an update takes some of it.
Parameters ==
  /\ Step \in Nat \ {0} /\ Wrap \in Nat \ {0} /\ MaxSteps \in Nat /\ MaxScore \in Nat
  /\ Frames \subseteq Nat

VARIABLES
  g,       \* nev_game_t: state, score, best, beat_best, accum_us
  frame,   \* the updates that this frame has run, or NoFrame
  saved,   \* the game's high score in the store
  start,   \* history: the best when the run began
  beats,   \* history: HIGHSCORE_BEATs since the run began
  lost     \* history: since the game opened, a run that had beaten the saved best
           \* was broken off, or the store was reset

vars == <<g, frame, saved, start, beats, lost>>

NoFrame == -1
Closed == [state |-> "closed", score |-> 0, best |-> 0, beat |-> FALSE, accum |-> 0]

Init ==
  /\ g = Closed
  /\ frame = NoFrame
  /\ saved = 0
  /\ start = 0
  /\ beats = 0
  /\ lost = FALSE

-----------------------------------------------------------------------------

\* nev_game_begin, when the app opens.
Begin ==
  /\ g.state = "closed"
  /\ g' = [Closed EXCEPT !.state = "attract", !.best = saved]
  /\ lost' = FALSE
  /\ UNCHANGED <<frame, saved, start, beats>>

BreaksOff == g.state = "playing" /\ g.best > saved

\* nev_game_end, when it closes: nothing is stored of a run that goes on.
End ==
  /\ g.state # "closed" /\ frame = NoFrame
  /\ g' = Closed
  /\ lost' = (lost \/ BreaksOff)
  /\ UNCHANGED <<frame, saved, start, beats>>

\* nev_game_restart: a touch or button A unless a run goes on (nev_game_event), or
\* a click on the overlay, which LVGL may deliver once the touch has started one.
Restart ==
  /\ g.state # "closed" /\ frame = NoFrame
  /\ g' = [g EXCEPT !.state = "playing", !.score = 0, !.beat = FALSE, !.accum = 0]
  /\ lost' = (lost \/ BreaksOff)
  /\ start' = g.best
  /\ beats' = 0
  /\ UNCHANGED <<frame, saved>>

\* nev_game_frame: the time that has passed is to be made up for.
Frame(delta) ==
  /\ g.state # "closed" /\ frame = NoFrame
  /\ g' = IF g.state = "playing" THEN [g EXCEPT !.accum = (@ + delta) % Wrap] ELSE g
  /\ frame' = 0
  /\ UNCHANGED <<saved, start, beats, lost>>

Due == g.state = "playing" /\ g.accum >= Step /\ frame < MaxSteps

\* nev_game_add_score: a best that falls is told once a run.  The very first points
\* of a new game are no record, though the next ones are.
Scored(d) ==
  LET score == g.score + d
      record == ~g.beat /\ score > g.best /\ g.best > 0
  IN [now |-> [g EXCEPT !.score = score, !.best = IF score > @ THEN score ELSE @,
                        !.beat = @ \/ record, !.accum = @ - Step],
      beats |-> IF record THEN beats + 1 ELSE beats]

\* on_update, once.
Update(d) ==
  /\ frame # NoFrame /\ Due /\ g.score + d <= MaxScore
  /\ g' = Scored(d).now
  /\ beats' = Scored(d).beats
  /\ frame' = frame + 1
  /\ UNCHANGED <<saved, start, lost>>

\* Mutant: only a score above the best is stored, and the best has followed it.
OverStrict(d) ==
  /\ frame # NoFrame /\ Due /\ g.score + d <= MaxScore
  /\ g' = [Scored(d).now EXCEPT !.state = "over"]
  /\ saved' = IF g'.score > g'.best THEN g'.score ELSE saved
  /\ beats' = Scored(d).beats
  /\ frame' = frame + 1
  /\ UNCHANGED <<start, lost>>

\* on_update, and the nev_game_over it ends with: a score that is the best is stored.
Over(d) ==
  /\ frame # NoFrame /\ Due /\ g.score + d <= MaxScore
  /\ g' = [Scored(d).now EXCEPT !.state = "over"]
  /\ saved' = IF g'.score >= g'.best THEN g'.score ELSE saved
  /\ beats' = Scored(d).beats
  /\ frame' = frame + 1
  /\ UNCHANGED <<start, lost>>

\* The end of nev_game_frame: what is more than a frame may make up for is dropped.
FrameEnds ==
  /\ frame # NoFrame /\ ~Due
  /\ frame' = NoFrame
  /\ g' = IF frame = MaxSteps /\ g.accum >= Step THEN [g EXCEPT !.accum = 0] ELSE g
  /\ UNCHANGED <<saved, start, beats, lost>>

\* The settings app resets the store: a game that is open, if only suspended, keeps the
\* best it has.
FactoryReset ==
  /\ frame = NoFrame
  /\ saved' = 0
  /\ lost' = (lost \/ g.state # "closed")
  /\ UNCHANGED <<g, frame, start, beats>>

Next ==
  \/ FactoryReset
  \/ Begin
  \/ End
  \/ Restart
  \/ \E delta \in Frames : Frame(delta)
  \/ \E d \in 0..2 : Update(d)
  \/ \E d \in 0..2 : Over(d)
  \/ FrameEnds

-----------------------------------------------------------------------------

TypeOK ==
  /\ g \in [state : {"closed", "attract", "playing", "over"}, score : 0..MaxScore,
            best : 0..MaxScore, beat : BOOLEAN, accum : 0..(Wrap - 1)]
  /\ frame \in {NoFrame} \union 0..MaxSteps
  /\ saved \in 0..MaxScore /\ start \in 0..MaxScore
  /\ beats \in 0..MaxScore /\ lost \in BOOLEAN

\* The best that the screen shows is no less than the score and the one in the store, and
\* between runs it is the one in the store.  Two things come between them until the game
\* is opened again: a run broken off after it had beaten it, and a factory reset.
BestIsKept ==
  g.state # "closed" =>
    /\ g.best >= g.score /\ g.best >= saved
    /\ g.state # "playing" => saved = g.best \/ lost

\* The device celebrates a record once a run at most, and only when the best that the
\* run began with has fallen.
OneRecordPerRun ==
  /\ beats <= 1
  /\ g.state \in {"playing", "over"} => ((beats = 1) => g.best > start) /\ (g.beat = (beats = 1))

\* A hitch is made up for in one frame or not at all: no frame of a run leaves time
\* over for a whole update, so that none makes the next one later.
NeverSpirals == (g.state = "playing" /\ frame = NoFrame) => g.accum < Step

GameAgrees == BestIsKept /\ OneRecordPerRun /\ NeverSpirals
=============================================================================
