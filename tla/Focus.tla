-------------------------------- MODULE Focus --------------------------------
(***************************************************************************)
(* The focus timer, focus_app.c, on nev_ui.  The clock is nev_now_ms       *)
(* modulo Wrap, in units of which a second has several.  What it tells the *)
(* face is left out: no build of the shell has one (see Persona).          *)
(***************************************************************************)
EXTENDS Integers

CONSTANTS
  Wrap,      \* 2^32 ms
  Second,    \* 1000 ms
  Preset,    \* kPresets, in seconds: only one
  MaxFrame   \* bound: what a frame takes

Parameters ==
  /\ Wrap \in Nat \ {0} /\ Second \in Nat \ {0} /\ Preset \in Nat \ {0} /\ MaxFrame \in Nat

VARIABLES
  now,     \* nev_now_ms
  timer,   \* the focus app: open, in front, s_state, s_left_s, s_last_tick_ms
  ran      \* history: what the timer has run for since it was set

vars == <<now, timer, ran>>

Clock == 0..(Wrap - 1)
Full == Preset * Second

Init ==
  /\ now \in Clock
  /\ timer = [open |-> FALSE, front |-> FALSE, state |-> "idle", left |-> 0, mark |-> 0]
  /\ ran = 0

\* focus_launch, and a preset touched: set_choice.  The presets show only while
\* no timer runs or is paused.
SetChoice ==
  /\ timer.front \/ ~timer.open
  /\ timer.state \in {"idle", "done"}
  /\ timer' = [open |-> TRUE, front |-> TRUE, state |-> "idle", left |-> Preset,
               mark |-> timer.mark]
  /\ ran' = 0
  /\ UNCHANGED now

\* Going home suspends the app, and opening it again resumes it.
Switch ==
  /\ timer.open
  /\ timer' = [timer EXCEPT !.front = ~@]
  /\ UNCHANGED <<now, ran>>

\* ring_clicked: it starts, pauses, goes on, and starts over when it is done.
Ring ==
  /\ timer.front
  /\ IF timer.state = "running" THEN timer' = [timer EXCEPT !.state = "paused"] /\ UNCHANGED ran
     ELSE /\ timer' = [timer EXCEPT !.state = "running", !.left = IF @ = 0 THEN Preset ELSE @,
                                    !.mark = now]
          /\ ran' = IF timer.left = 0 THEN 0 ELSE ran
  /\ UNCHANGED now

\* focus_tick, while in front: the whole seconds since the mark, which moves on by
\* as much.
Elapsed == (now - timer.mark) % Wrap
FocusTick ==
  /\ timer.front /\ timer.state = "running" /\ Elapsed >= Second
  /\ LET seconds == Elapsed \div Second
         left == IF timer.left > seconds THEN timer.left - seconds ELSE 0
     IN timer' = [timer EXCEPT !.left = left, !.mark = (@ + seconds * Second) % Wrap,
                               !.state = IF left = 0 THEN "done" ELSE @]
  /\ UNCHANGED <<now, ran>>

\* focus_close: the timer stops with the app.
FocusClose ==
  /\ timer.open
  /\ timer' = [timer EXCEPT !.open = FALSE, !.front = FALSE, !.state = "idle"]
  /\ UNCHANGED <<now, ran>>

\* A frame takes its time; no running timer is left alone for 49 days.
Pass ==
  \E dt \in 1..MaxFrame :
    /\ timer.state = "running" => Elapsed + dt < Wrap
    /\ now' = (now + dt) % Wrap
    /\ ran' = IF timer.state # "running" THEN ran
              ELSE IF ran + dt < Full THEN ran + dt ELSE Full
    /\ UNCHANGED timer

Next == SetChoice \/ Switch \/ Ring \/ FocusTick \/ FocusClose \/ Pass

-----------------------------------------------------------------------------

TypeOK ==
  /\ now \in Clock
  /\ timer \in [open : BOOLEAN, front : BOOLEAN, state : {"idle", "running", "paused", "done"},
                left : 0..Preset, mark : Clock]
  /\ ran \in 0..Full

\* However often it is paused, left or late for a tick, the timer never says it is
\* done before it has run for as long as it was set to.
TimerIsNeverShort ==
  /\ timer.state = "done" => ran = Full
  /\ timer.state \in {"running", "paused"} => (Preset - timer.left) * Second <= ran
=============================================================================
