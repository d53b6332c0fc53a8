-------------------------------- MODULE Persona --------------------------------
(***************************************************************************)
(* The face's mood: persona_core.c, and persona.c that binds it to the bus.*)
(* It is ready only in the simulator's persona screen (host main.c,        *)
(* --persona), which has no shell and no apps; anywhere else               *)
(* nev_persona_set_mood returns at once.  All of it runs on one thread.    *)
(*                                                                         *)
(* A mood is either what the face rests in, or is held until a time and    *)
(* then gives way to the rest.  The clock is nev_now_ms modulo Wrap.       *)
(* Which events reach the persona is a choice: its ring of twelve drops    *)
(* the oldest and coalesces.  How a face moves from one mood to another,   *)
(* blinks and looks around is left out.                                    *)
(***************************************************************************)
EXTENDS Integers

CONSTANTS
  Wrap,      \* 2^32 ms
  Holds,     \* how long reactions, and hints of the daemon, are held; 0 is for good
  Hints,     \* moods that the daemon hints at
  MaxFrame   \* bound: what a frame takes

Moods == {"idle", "curious", "happy", "focused", "sleepy", "celebrating", "concerned",
          "thinking"}

Parameters ==
  /\ Wrap \in Nat \ {0} /\ MaxFrame \in Nat /\ Holds \subseteq Nat /\ Hints \subseteq Moods

VARIABLES
  now,    \* nev_now_ms
  core,   \* nev_persona_core_t: mood, rest_mood, hold_until_ms
  zero    \* history: the mood is held, and was to end when the clock reads 0

vars == <<now, core, zero>>

Clock == 0..(Wrap - 1)

\* build_persona_screen: the mood that it was asked to start in.
Init ==
  /\ now \in Clock
  /\ \E mood \in Moods : core = [mood |-> mood, rest |-> mood, until |-> 0]
  /\ zero = FALSE

Until(hold) == (now + hold) % Wrap

\* Mutant: a mood that is held is what the face rests in as well, and its end forgotten.
SetMoodForGood(mood, hold) ==
  /\ core' = [core EXCEPT !.mood = mood, !.rest = IF hold > 0 THEN @ ELSE mood, !.until = 0]
  /\ zero' = FALSE

\* nev_persona_core_set_mood: a hold of 0 makes the mood the one to rest in.
SetMood(mood, hold) ==
  /\ core' = IF hold > 0 THEN [core EXCEPT !.mood = mood, !.until = Until(hold)]
             ELSE [mood |-> mood, rest |-> mood, until |-> 0]
  /\ zero' = (hold > 0 /\ Until(hold) = 0)

-----------------------------------------------------------------------------
(* The persona's tick.                                                     *)

\* handle_event: shaken, tapped, worried, beaten or lost, for a while; asleep,
\* awake, thinking or done, until told otherwise; and what the daemon hints at.
Held == {"curious", "happy", "concerned", "celebrating"}
Rested == {"sleepy", "idle", "thinking"}
React ==
  /\ \/ \E mood \in Held, hold \in Holds \ {0} : SetMood(mood, hold)
     \/ \E mood \in Rested :
          ~(mood = "thinking" /\ core.mood = "thinking") /\ SetMood(mood, 0)
     \/ \E mood \in Hints, hold \in Holds : SetMood(mood, hold)
  /\ UNCHANGED now

\* The signed difference of two times.
Reached(t) == (now - t) % Wrap < Wrap \div 2

\* nev_persona_core_tick: a hold that has run out gives way to the rest.
Expire ==
  /\ core.until # 0 /\ Reached(core.until)
  /\ SetMood(core.rest, 0)
  /\ UNCHANGED now

\* A frame takes its time, and ticks.
Pass ==
  \E dt \in 1..MaxFrame :
    /\ core.until # 0 => ~Reached(core.until)
    /\ now' = (now + dt) % Wrap
    /\ UNCHANGED <<core, zero>>

Next == React \/ Expire \/ Pass

-----------------------------------------------------------------------------

TypeOK ==
  /\ now \in Clock
  /\ core \in [mood : Moods, rest : Moods, until : Clock]
  /\ zero \in BOOLEAN

\* No reaction lasts for good: a mood the face does not rest in has a time at which
\* it ends, whatever set it and over whatever mood.  Only a hold that was to end at
\* the very instant the clock wraps is taken for none (persona_core.c, hold_until_ms).
HeldMoodEnds == core.mood # core.rest => core.until # 0 \/ zero
=============================================================================
