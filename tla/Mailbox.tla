------------------------------- MODULE Mailbox -------------------------------
(***************************************************************************)
(* What the NEVOS event bus promises to the tasks that use it, without     *)
(* semaphores, signalling steps or reference counts: every subscriber has  *)
(* a bounded first-in first-out box.  Publishing always succeeds at once.  *)
(* A box loses an event only when it is full, and only the event its       *)
(* policy names; a subscriber that opted in to coalescing sees the newest  *)
(* of several snapshots of one type, in the place of the first.  Whatever  *)
(* is in a box whose reader keeps reading is eventually handed over.       *)
(***************************************************************************)
EXTENDS Naturals, Sequences, Functions

CONSTANTS Subs,        \* subscriber slots
          Depth,       \* [Subs -> Nat \ {0}]: capacity of each box
          KeepsOldest, \* the slots that refuse the arriving event when full
          Snapshots,   \* [Subs -> SUBSET types]: types a slot replaces in place
          TypeOf(_),   \* the type of an event
          NoEvent      \* nothing in hand

VARIABLES box,  \* [Subs -> sequences of events], oldest first
          hand  \* [Subs -> an event or NoEvent]: the event being handled

vars == <<box, hand>>

Init == /\ box = [s \in Subs |-> <<>>]
        /\ hand = [s \in Subs |-> NoEvent]

\* The positions of box[s] that a snapshot of this type would replace.
SameType(s, e) == {k \in DOMAIN box[s] : TypeOf(box[s][k]) = TypeOf(e)}

Replaceable(s, e) == TypeOf(e) \in Snapshots[s] /\ SameType(s, e) # {}

\* The box of one addressee once e has been posted.
Posted(s, e) ==
  IF Replaceable(s, e)
  THEN {[box[s] EXCEPT ![k] = e] : k \in SameType(s, e)}
  ELSE IF Len(box[s]) < Depth[s] THEN {Append(box[s], e)}
  ELSE IF s \in KeepsOldest THEN {box[s]}
  ELSE {Append(Tail(box[s]), e)}

\* An event reaches every subscriber of its domain in one step, and there is
\* no state in which posting has to wait.
Post(e, to) ==
  /\ \A s \in to : box'[s] \in Posted(s, e)
  /\ \A s \in Subs \ to : box'[s] = box[s]
  /\ UNCHANGED hand

Deliver(s) == /\ hand[s] = NoEvent
              /\ box[s] # <<>>
              /\ hand' = [hand EXCEPT ![s] = Head(box[s])]
              /\ box' = [box EXCEPT ![s] = Tail(@)]

Handled(s) == /\ hand[s] # NoEvent
              /\ hand' = [hand EXCEPT ![s] = NoEvent]
              /\ UNCHANGED box

\* Shutdown discards what is still queued.
Close == /\ \A s \in Subs : hand[s] = NoEvent
         /\ box' = [s \in Subs |-> <<>>]
         /\ UNCHANGED hand

\* The event posted is one that some box now holds; a post that every box
\* refused leaves no trace here.
Next == \/ \E e \in UNION {Range(box'[s]) : s \in Subs}, to \in SUBSET Subs : Post(e, to)
        \/ \E s \in Subs : Deliver(s) \/ Handled(s)
        \/ Close

Spec == Init /\ [][Next]_vars /\ \A s \in Subs : WF_vars(Deliver(s))
=============================================================================
