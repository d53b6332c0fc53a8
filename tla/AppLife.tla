------------------------------- MODULE AppLife -------------------------------
(***************************************************************************)
(* What docs/app-lifecycle.md promises of the shell: one app in front, a   *)
(* few kept warm behind it, and when room has to be made the least         *)
(* recently used of those is closed, never the one in front.               *)
(***************************************************************************)
EXTENDS Naturals, Sequences, SequencesExt

CONSTANTS Apps,
          Nobody,  \* no app
          Room     \* how many apps may hold their screen at once

VARIABLES front, \* the app in front, or Nobody
          warm   \* the suspended apps, least recently used first

vars == <<front, warm>>

Init == front = Nobody /\ warm = <<>>

\* Who is behind once the app in front has stepped back.
Behind == IF front = Nobody THEN warm ELSE Append(warm, front)

\* A warm app comes back as it was, and costs nobody anything.
Return(a) == /\ a # front
             /\ front' = a
             /\ \E i \in 1..Len(Behind) : Behind[i] = a /\ warm' = RemoveAt(Behind, i)

\* A closed app opens; with no room left the least recently used one goes.  An
\* app that cannot open leaves nobody in front.
Open(a) == /\ a # front
           /\ ~Contains(Behind, a)
           /\ front' \in {a, Nobody}
           /\ warm' = IF Len(Behind) < Room THEN Behind ELSE Tail(Behind)

Home == front' = Nobody /\ warm' = Behind

\* Memory pressure closes one more.
Reclaim == warm # <<>> /\ warm' = Tail(warm) /\ UNCHANGED front

Shutdown == Init'

Next == \/ \E a \in Apps : Return(a) \/ Open(a)
        \/ Home
        \/ Reclaim
        \/ Shutdown

Spec == Init /\ [][Next]_vars
=============================================================================
