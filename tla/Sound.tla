-------------------------------- MODULE Sound --------------------------------
(***************************************************************************)
(* The cues: sound_core.c renders one, sound_service.c feeds it to the     *)
(* board a slice per frame.  The board may take less than it is given; the *)
(* rest is kept.  A cue replaces the one that plays.  A sample is its cue  *)
(* and its number; what it sounds like is left out.                        *)
(***************************************************************************)
EXTENDS Integers, Sequences

CONSTANTS
  Slice,   \* SLICE_SAMPLES
  Totals,  \* lengths of cues, in samples
  Room     \* bound: what the board takes in one write

\* Lengths.
Parameters == Slice \in Nat /\ Totals \subseteq Nat /\ Room \in Nat

VARIABLES
  cue,      \* nev_sound_core_t: active, sample, total
  pending,  \* s_slice from s_pending_at on: s_pending samples
  heard,    \* history: how much of this cue the board has taken
  hole      \* history: a sample was taken out of its turn

vars == <<cue, pending, heard, hole>>

Init ==
  /\ cue = [active |-> FALSE, sample |-> 0, total |-> 0]
  /\ pending = <<>>
  /\ heard = 0
  /\ hole = FALSE

\* nev_sound_play, from an app or for an event: the half-written slice is dropped
\* with its cue.  Switched off, or at a volume of 0, it does nothing.
Play(total) ==
  /\ cue' = [active |-> TRUE, sample |-> 0, total |-> total]
  /\ pending' = <<>>
  /\ heard' = 0
  /\ UNCHANGED hole

\* nev_board_audio_out_write of some samples, of which the board takes a few.
Write(samples) ==
  \E n \in 0..Room :
    LET took == IF n < Len(samples) THEN n ELSE Len(samples)
    IN /\ pending' = SubSeq(samples, took + 1, Len(samples))
       /\ heard' = heard + took
       /\ hole' = (hole \/ \E i \in 1..took : samples[i] # heard + i)

\* Finish the last slice first; a new one waits while any of it is left.
Finish ==
  /\ pending # <<>>
  /\ Write(pending)
  /\ UNCHANGED cue

\* Mutant: what the board has not taken is dropped for the next slice.
RenderOver ==
  /\ cue.active
  /\ LET n == IF cue.sample + Slice < cue.total THEN Slice ELSE cue.total - cue.sample
     IN /\ cue' = [cue EXCEPT !.sample = @ + n, !.active = cue.sample + n < cue.total]
        /\ Write([i \in 1..n |-> cue.sample + i])

\* nev_sound_core_render, and the write of what it rendered.
Render ==
  /\ cue.active /\ pending = <<>>
  /\ LET n == IF cue.sample + Slice < cue.total THEN Slice ELSE cue.total - cue.sample
     IN /\ cue' = [cue EXCEPT !.sample = @ + n, !.active = cue.sample + n < cue.total]
        /\ Write([i \in 1..n |-> cue.sample + i])

Next == \/ \E total \in Totals : Play(total)
        \/ Finish
        \/ Render

-----------------------------------------------------------------------------

TypeOK ==
  /\ cue \in [active : BOOLEAN, sample : Nat, total : Totals \union {0}] /\ cue.sample <= cue.total
  /\ pending \in Seq(Nat) /\ Len(pending) <= Slice
  /\ heard \in 0..cue.sample
  /\ hole \in BOOLEAN

\* A cue arrives without a hole and without a sample twice, whatever the board
\* takes at a time, and all of it once nothing is playing (sound_service.c: "the
\* remainder must be kept, or a cue arrives with a hole in it").
NoHoleInACue ==
  /\ ~hole
  /\ (~cue.active /\ pending = <<>>) => heard = cue.total
=============================================================================
