------------------------------ MODULE EventBus ------------------------------
(***************************************************************************)
(* The NEVOS event bus (nev_kernel/nev_bus.c) with the tasks that publish  *)
(* on it and the tasks that drain it, and the reference counts of the      *)
(* blobs the events carry.                                                 *)
(*                                                                         *)
(* A critical section of the bus lock is one step: what another task can   *)
(* do meanwhile (give or take a semaphore, allocate or release its own     *)
(* blob) touches nothing the section reads and commutes with it.           *)
(* Everything the code does outside the lock is a step of its own: the     *)
(* semaphore gives after a publish, the take before a receive, the         *)
(* releases by publisher and receiver, and the reports of the overflow     *)
(* sweep.  The free lists under a blob's count are module BlobPool's.      *)
(***************************************************************************)
EXTENDS Integers, Sequences, FiniteSets

CONSTANTS
  Subs,        \* subscriber slots (s_subs)
  Tasks,       \* tasks that publish: nev_ui, nev_net, nev_sys
  Sweepers,    \* tasks that call nev_bus_report_overflows
  Types,       \* event types
  Overflow,    \* SYS_BUS_OVERFLOW
  Coalescable, \* types nev_evt_is_coalescable allows
  BlobTypes,   \* types published with NEV_EVF_BLOB
  Publishes,   \* [Tasks -> SUBSET Types]: types each task publishes
  Accepts,     \* [Subs -> SUBSET Types]: domain mask of each subscriber
  MaxDepth,    \* NEV_BUS_MAX_DEPTH
  Depth,       \* [Subs -> 1..MaxDepth]
  Policy,      \* [Subs -> {"DROP_NEWEST", "DROP_OLDEST"}]
  Coalescing,  \* subscribers with .coalesce = true
  Blobs,       \* blob handles
  NoBlob,      \* NEV_BLOB_NONE
  NoEvent,     \* no event
  MaxSeq       \* bound: tasks start no new publish once s_seq has reached it

ASSUME BusAssumption ==
  /\ IsFiniteSet(Subs) /\ IsFiniteSet(Tasks) /\ IsFiniteSet(Blobs)
  /\ Sweepers \subseteq Tasks
  /\ Overflow \in Types /\ Overflow \notin BlobTypes
  /\ Coalescable \subseteq Types /\ BlobTypes \subseteq Types
  /\ Publishes \in [Tasks -> SUBSET Types]
  /\ Accepts \in [Subs -> SUBSET Types]
  /\ MaxDepth \in Nat
  /\ Depth \in [Subs -> 1..MaxDepth]
  /\ Policy \in [Subs -> {"DROP_NEWEST", "DROP_OLDEST"}]
  /\ Coalescing \subseteq Subs
  /\ NoBlob \notin Blobs
  /\ MaxSeq \in Nat

\* An event; the bus stamps seq when it is published.
Event == [type : Types, blob : Blobs \cup {NoBlob}, seq : Nat, by : Tasks]

ASSUME NoEventAssumption == NoEvent \notin Event

VARIABLES
  ready,     \* s_ready
  inUse,     \* slots handed out by nev_bus_subscribe
  ring,      \* [Subs -> Seq(Event)]: the queued events, oldest first
  sem,       \* [Subs -> Nat]: the count of each subscriber's semaphore
  seq,       \* s_seq
  stats,     \* [Subs -> counters]: received, dropped, coalesced, reported
  refs,      \* [Blobs -> Nat]: reference counts; 0 is "on the free list"
  outbox,    \* [Tasks -> Event or NoEvent]: the event a task is publishing
  toSignal,  \* [Tasks -> SUBSET Subs]: gives a publish still owes
  owned,     \* [Tasks -> blob]: the publisher's own reference
  reports,   \* [Tasks -> SUBSET Subs]: the sweep's snapshot, not yet published
  taken,     \* SUBSET Subs: receivers between nev_sem_take and the lock
  hand,      \* [Subs -> Event or NoEvent]: the event a receiver is handling
  offered,   \* history, [Subs -> Nat]: publishes that matched the subscriber
  popped,    \* history, [Subs -> Nat]: events handed to the receiver
  last       \* history, [Subs -> [Types -> Nat]]: seq last delivered, by type

busVars == <<ready, inUse, ring, sem, seq, stats>>
taskVars == <<outbox, toSignal, owned, reports>>
recvVars == <<taken, hand>>
history == <<offered, popped, last>>
vars == <<busVars, refs, taskVars, recvVars, history>>

Zero == [received |-> 0, dropped |-> 0, coalesced |-> 0, reported |-> 0]

Init ==
  /\ ready = TRUE
  /\ inUse = {}
  /\ ring = [s \in Subs |-> <<>>]
  /\ sem = [s \in Subs |-> 0]
  /\ seq = 0
  /\ stats = [s \in Subs |-> Zero]
  /\ refs = [b \in Blobs |-> 0]
  /\ outbox = [t \in Tasks |-> NoEvent]
  /\ toSignal = [t \in Tasks |-> {}]
  /\ owned = [t \in Tasks |-> NoBlob]
  /\ reports = [t \in Tasks |-> {}]
  /\ taken = {}
  /\ hand = [s \in Subs |-> NoEvent]
  /\ offered = [s \in Subs |-> 0]
  /\ popped = [s \in Subs |-> 0]
  /\ last = [s \in Subs |-> [u \in Types |-> 0]]

-----------------------------------------------------------------------------
(* enqueue(): what one publish does to one subscriber that accepts it.     *)

SlotsOfType(s, e) == {k \in DOMAIN ring[s] : ring[s][k].type = e.type}

Full(s) == Len(ring[s]) = Depth[s]

\* Both have to agree: the subscriber and the type.  The scan runs from the
\* tail and stops at the first slot of the type.
Replaces(s, e) ==
  s \in Coalescing /\ e.type \in Coalescable /\ SlotsOfType(s, e) # {}

Slot(s, e) ==
  CHOOSE k \in SlotsOfType(s, e) : \A j \in SlotsOfType(s, e) : k <= j

Refuses(s, e) == ~Replaces(s, e) /\ Full(s) /\ Policy[s] = "DROP_NEWEST"
Evicts(s, e)  == ~Replaces(s, e) /\ Full(s) /\ Policy[s] = "DROP_OLDEST"
Queues(s, e)  == ~Replaces(s, e) /\ ~Full(s)

\* Mutant: an eviction overwrites the oldest slot and leaves the tail on it.
EnqueueOverTail(s, e) ==
  IF Replaces(s, e) THEN [ring[s] EXCEPT ![Slot(s, e)] = e]
  ELSE IF Refuses(s, e) THEN ring[s]
  ELSE IF Evicts(s, e) THEN [ring[s] EXCEPT ![1] = e]
  ELSE Append(ring[s], e)

Enqueue(s, e) ==
  IF Replaces(s, e) THEN [ring[s] EXCEPT ![Slot(s, e)] = e]
  ELSE IF Refuses(s, e) THEN ring[s]
  ELSE IF Evicts(s, e) THEN Append(Tail(ring[s]), e)
  ELSE Append(ring[s], e)

\* Mutant: an evicted event's reference does not die with it.
DisplacedOnReplace(s, e) == IF Replaces(s, e) THEN ring[s][Slot(s, e)].blob ELSE NoBlob

\* The blob whose reference leaves the ring with the event it rode on.
Displaced(s, e) ==
  IF Replaces(s, e) THEN ring[s][Slot(s, e)].blob
  ELSE IF Evicts(s, e) THEN Head(ring[s]).blob
  ELSE NoBlob

\* Mutant: an eviction is not counted as a loss.
CountedRefusals(s, e) ==
  [stats[s] EXCEPT !.received  = IF Refuses(s, e) THEN @ ELSE @ + 1,
                   !.dropped   = IF Refuses(s, e) THEN @ + 1 ELSE @,
                   !.coalesced = IF Replaces(s, e) THEN @ + 1 ELSE @]

Counted(s, e) ==
  [stats[s] EXCEPT !.received  = IF Refuses(s, e) THEN @ ELSE @ + 1,
                   !.dropped   = IF Refuses(s, e) \/ Evicts(s, e) THEN @ + 1 ELSE @,
                   !.coalesced = IF Replaces(s, e) THEN @ + 1 ELSE @]

\* Mutant: signals whenever it enqueues, an evict-then-enqueue too.
SignalledOnDelivery(e) ==
  {s \in inUse : e.type \in Accepts[s] /\ (Queues(s, e) \/ Evicts(s, e))}

\* Subscribers of the event's domain, and those whose ring grew.
Matching(e) == {s \in inUse : e.type \in Accepts[s]}
Signalled(e) == {s \in Matching(e) : Queues(s, e)}

\* Reference counts after the whole publish: one retain per accepted delivery,
\* one release per event overwritten or evicted.
Recounted(e) ==
  [b \in Blobs |->
     (refs[b]
        + (IF b = e.blob THEN Cardinality({s \in Matching(e) : ~Refuses(s, e)}) ELSE 0))
        - Cardinality({s \in Matching(e) : Displaced(s, e) = b})]

-----------------------------------------------------------------------------
(* Publishing tasks.                                                       *)

Idle(t) == /\ outbox[t] = NoEvent
           /\ toSignal[t] = {}
           /\ owned[t] = NoBlob
           /\ reports[t] = {}

\* nev_bus_subscribe: a free slot, cleared under the lock.  On the device the
\* ui task subscribes its services while nev_net and nev_sys already publish.
Subscribe(s) ==
  /\ ready
  /\ s \notin inUse
  /\ inUse' = inUse \cup {s}
  /\ ring' = [ring EXCEPT ![s] = <<>>]
  /\ sem' = [sem EXCEPT ![s] = 0]
  /\ stats' = [stats EXCEPT ![s] = Zero]
  /\ UNCHANGED <<ready, seq, refs, taskVars, recvVars, history>>

\* A publisher builds an event; one that carries a payload first allocates its
\* blob, with a count of one, and does not publish when the pool is exhausted.
Compose(t, u) ==
  /\ ready
  /\ Idle(t)
  /\ seq < MaxSeq
  /\ u \in Publishes[t]
  /\ \E b \in Blobs \cup {NoBlob} :
       /\ b = NoBlob <=> u \notin BlobTypes
       /\ b # NoBlob => refs[b] = 0
       /\ refs' = [c \in Blobs |-> IF c = b THEN 1 ELSE refs[c]]
       /\ owned' = [owned EXCEPT ![t] = b]
       /\ outbox' = [outbox EXCEPT ![t] = [type |-> u, blob |-> b, seq |-> 0, by |-> t]]
  /\ UNCHANGED <<busVars, toSignal, reports, recvVars, history>>

\* nev_bus_publish up to the unlock: stamp, then enqueue on every match.
Publish(t) ==
  /\ ready
  /\ outbox[t] # NoEvent
  /\ LET e == [outbox[t] EXCEPT !.seq = seq + 1]
     IN  /\ seq' = seq + 1
         /\ ring' = [s \in Subs |-> IF s \in Matching(e) THEN Enqueue(s, e) ELSE ring[s]]
         /\ stats' = [s \in Subs |-> IF s \in Matching(e) THEN Counted(s, e) ELSE stats[s]]
         /\ refs' = Recounted(e)
         /\ toSignal' = [toSignal EXCEPT ![t] = Signalled(e)]
         /\ offered' = [s \in Subs |-> IF s \in Matching(e) THEN offered[s] + 1 ELSE offered[s]]
  /\ outbox' = [outbox EXCEPT ![t] = NoEvent]
  /\ UNCHANGED <<ready, inUse, sem, owned, reports, recvVars, popped, last>>

\* Mutant: a binary semaphore instead of a counting one.
SignalBinary(t, s) ==
  /\ s \in toSignal[t]
  /\ toSignal' = [toSignal EXCEPT ![t] = @ \ {s}]
  /\ sem' = [sem EXCEPT ![s] = 1]
  /\ UNCHANGED <<ready, inUse, ring, seq, stats, refs, outbox, owned, reports,
                 recvVars, history>>

\* One nev_sem_give after the unlock; a counting semaphore saturates at the
\* maximum it was created with, the subscriber's depth.
Signal(t, s) ==
  /\ s \in toSignal[t]
  /\ toSignal' = [toSignal EXCEPT ![t] = @ \ {s}]
  /\ sem' = [sem EXCEPT ![s] = IF @ < Depth[s] THEN @ + 1 ELSE @]
  /\ UNCHANGED <<ready, inUse, ring, seq, stats, refs, outbox, owned, reports,
                 recvVars, history>>

\* The publisher gives up its own reference once nev_bus_publish has returned.
ReleaseOwn(t) ==
  /\ owned[t] # NoBlob
  /\ outbox[t] = NoEvent
  /\ toSignal[t] = {}
  /\ refs' = [refs EXCEPT ![owned[t]] = @ - 1]
  /\ owned' = [owned EXCEPT ![t] = NoBlob]
  /\ UNCHANGED <<busVars, outbox, toSignal, reports, recvVars, history>>

\* nev_bus_report_overflows: the snapshot, under the lock ...
Sweep(t) ==
  /\ t \in Sweepers
  /\ ready
  /\ Idle(t)
  /\ seq < MaxSeq
  /\ reports' = [reports EXCEPT ![t] =
                   {s \in inUse : stats[s].dropped # stats[s].reported}]
  /\ reports'[t] # {}
  /\ stats' = [s \in Subs |-> IF s \in reports'[t]
                              THEN [stats[s] EXCEPT !.reported = stats[s].dropped]
                              ELSE stats[s]]
  /\ UNCHANGED <<ready, inUse, ring, sem, seq, refs, outbox, toSignal, owned,
                 recvVars, history>>

\* ... and its reports, published one by one outside it.
Report(t, s) ==
  /\ s \in reports[t]
  /\ outbox[t] = NoEvent
  /\ toSignal[t] = {}
  /\ reports' = [reports EXCEPT ![t] = @ \ {s}]
  /\ outbox' = [outbox EXCEPT ![t] =
                  [type |-> Overflow, blob |-> NoBlob, seq |-> 0, by |-> t]]
  /\ UNCHANGED <<busVars, refs, toSignal, owned, recvVars, history>>

-----------------------------------------------------------------------------
(* Receiving tasks: each subscription is drained by one task.              *)

\* Mutant: takes a token without looking whether there is one.
TakeUnchecked(s) ==
  /\ s \in inUse
  /\ s \notin taken
  /\ hand[s] = NoEvent
  /\ sem' = [sem EXCEPT ![s] = @ - 1]
  /\ taken' = taken \cup {s}
  /\ UNCHANGED <<ready, inUse, ring, seq, stats, refs, taskVars, hand, history>>

\* nev_bus_recv, first half: the semaphore, outside the lock.  With no token
\* a poll returns and a blocking receive waits; neither changes anything.
Take(s) ==
  /\ s \in inUse
  /\ s \notin taken
  /\ hand[s] = NoEvent
  /\ sem[s] > 0
  /\ sem' = [sem EXCEPT ![s] = @ - 1]
  /\ taken' = taken \cup {s}
  /\ UNCHANGED <<ready, inUse, ring, seq, stats, refs, taskVars, hand, history>>

\* Second half: the oldest event, under the lock, if there is one.
Pop(s) ==
  /\ s \in taken
  /\ taken' = taken \ {s}
  /\ IF ring[s] = <<>>
     THEN UNCHANGED <<ring, hand, history>>
     ELSE /\ hand' = [hand EXCEPT ![s] = Head(ring[s])]
          /\ ring' = [ring EXCEPT ![s] = Tail(@)]
          /\ popped' = [popped EXCEPT ![s] = @ + 1]
          /\ last' = [last EXCEPT ![s][Head(ring[s]).type] = Head(ring[s]).seq]
          /\ UNCHANGED offered
  /\ UNCHANGED <<ready, inUse, sem, seq, stats, refs, taskVars>>

\* The receiver is done with the event and releases the blob it carried.
Handle(s) ==
  /\ hand[s] # NoEvent
  /\ refs' = [b \in Blobs |-> IF b = hand[s].blob THEN refs[b] - 1 ELSE refs[b]]
  /\ hand' = [hand EXCEPT ![s] = NoEvent]
  /\ UNCHANGED <<busVars, taskVars, taken, history>>

-----------------------------------------------------------------------------
(* nev_bus_deinit and the next nev_bus_init.                               *)

Quiet == /\ \A t \in Tasks : Idle(t)
         /\ taken = {}
         /\ \A s \in Subs : hand[s] = NoEvent

\* The ring slots whose event carries b; nev_bus_flush releases one reference
\* for each of a subscriber's.
Carrying(b) == {p \in inUse \X (1..MaxDepth) :
                  p[2] <= Len(ring[p[1]]) /\ ring[p[1]][p[2]].blob = b}

\* The targets tear the bus down last, when no other task is running.
Deinit ==
  /\ ready
  /\ Quiet
  /\ ready' = FALSE
  /\ refs' = [b \in Blobs |-> refs[b] - Cardinality(Carrying(b))]
  /\ ring' = [s \in Subs |-> <<>>]
  /\ sem' = [s \in Subs |-> 0]
  /\ inUse' = {}
  /\ UNCHANGED <<seq, stats, taskVars, recvVars, history>>

\* nev_bus_init clears every slot; the history restarts with the counters.
BusInit ==
  /\ ~ready
  /\ ready' = TRUE
  /\ seq' = 0
  /\ stats' = [s \in Subs |-> Zero]
  /\ offered' = [s \in Subs |-> 0]
  /\ popped' = [s \in Subs |-> 0]
  /\ last' = [s \in Subs |-> [u \in Types |-> 0]]
  /\ UNCHANGED <<inUse, ring, sem, refs, taskVars, recvVars>>

-----------------------------------------------------------------------------
Next ==
  \/ \E s \in Subs : Subscribe(s)
  \/ \E t \in Tasks, u \in Types : Compose(t, u)
  \/ \E t \in Tasks : Publish(t)
  \/ \E t \in Tasks, s \in Subs : Signal(t, s)
  \/ \E t \in Tasks : ReleaseOwn(t)
  \/ \E t \in Tasks : Sweep(t)
  \/ \E t \in Tasks, s \in Subs : Report(t, s)
  \/ \E s \in Subs : Take(s)
  \/ \E s \in Subs : Pop(s)
  \/ \E s \in Subs : Handle(s)
  \/ Deinit
  \/ BusInit

\* A publish that has left the lock gives its signals without waiting for
\* anyone, and every main loop keeps draining its subscription.  Nothing is
\* assumed about publishers starting new work.
Fairness ==
  /\ \A t \in Tasks, s \in Subs : WF_vars(Signal(t, s))
  /\ \A s \in Subs : WF_vars(Take(s)) /\ WF_vars(Pop(s))

Spec == Init /\ [][Next]_vars /\ Fairness

-----------------------------------------------------------------------------
(* What is checked.                                                        *)

\* Every variable has its type.
TypeOK ==
  /\ ready \in BOOLEAN
  /\ inUse \in SUBSET Subs
  /\ ring \in [Subs -> Seq(Event)]
  /\ sem \in [Subs -> Nat]
  /\ seq \in Nat
  /\ stats \in [Subs -> [received : Nat, dropped : Nat, coalesced : Nat, reported : Nat]]
  /\ refs \in [Blobs -> Int]
  /\ outbox \in [Tasks -> Event \cup {NoEvent}]
  /\ toSignal \in [Tasks -> SUBSET Subs]
  /\ owned \in [Tasks -> Blobs \cup {NoBlob}]
  /\ reports \in [Tasks -> SUBSET Subs]
  /\ taken \in SUBSET Subs
  /\ hand \in [Subs -> Event \cup {NoEvent}]
  /\ offered \in [Subs -> Nat]
  /\ popped \in [Subs -> Nat]
  /\ last \in [Subs -> [Types -> Nat]]

\* The semaphore accounts for the ring exactly: its count, the gives still on
\* their way from publishers that have left the lock and the token a receiver
\* holds between its take and the lock add up to the ring's count.  So a
\* receiver that got a token finds an event, a queued event always has a token
\* coming, and a give never meets a saturated semaphore.
Signallers(s) == {t \in Tasks : s \in toSignal[t]}

TokensMatchRing ==
  \A s \in Subs :
    /\ Len(ring[s]) <= Depth[s]
    /\ sem[s] + Cardinality(Signallers(s)) + (IF s \in taken THEN 1 ELSE 0) = Len(ring[s])

\* Every reference is accounted for: a blob's count is the number of its
\* publishers that still own it, of ring slots that carry it and of receivers
\* handling it.  A missing release would leave the count too high for ever and
\* an extra one would free a blob somebody still reads.
Holders(b) ==
  Cardinality({t \in Tasks : owned[t] = b})
    + Cardinality(Carrying(b))
    + Cardinality({s \in Subs : hand[s] # NoEvent /\ hand[s].blob = b})

RefsExact == \A b \in Blobs : refs[b] = Holders(b)

\* A subscriber that does not coalesce receives in publish order, whatever was
\* dropped in between; a coalescing one receives each type in publish order and
\* never holds two snapshots of one type.
OrderKept ==
  \A s \in inUse : \A i, j \in DOMAIN ring[s] :
    LET early == ring[s][i]
        late  == ring[s][j]
    IN  /\ i < j /\ (s \notin Coalescing \/ early.type = late.type)
             => early.seq < late.seq
        /\ i # j /\ s \in Coalescing /\ early.type = late.type
             => early.type \notin Coalescable
        /\ last[s][early.type] < early.seq
        /\ s \notin Coalescing => \A u \in Types : last[s][u] < early.seq

\* Losses are visible: every publish that matched a subscriber was handed to
\* its receiver, is still queued, was overwritten and counted as coalesced, or
\* was lost and counted as dropped.
LossAccounted ==
  \A s \in inUse :
    /\ offered[s] = popped[s] + Len(ring[s]) + stats[s].coalesced + stats[s].dropped
    /\ stats[s].received = IF Policy[s] = "DROP_NEWEST"
                           THEN offered[s] - stats[s].dropped ELSE offered[s]

\* The bus is a set of lossy mailboxes, in which whatever is queued for a
\* receiver that keeps receiving is eventually handed over: no wakeup is lost
\* between the ring and the semaphore.
MB == INSTANCE Mailbox WITH
        box <- ring, TypeOf <- LAMBDA e : e.type,
        KeepsOldest <- {s \in Subs : Policy[s] = "DROP_NEWEST"},
        Snapshots <- [s \in Subs |-> IF s \in Coalescing THEN Coalescable ELSE {}]

ImplementsMailbox == MB!Spec

\* docs/event-bus.md: "for any single publishing task P and any single
\* subscriber S, events published by P are delivered to S in publish order".
\* A ring is delivered from its head, so it has to be sorted per publisher.
PublishOrder ==
  \A s \in Subs : \A i, j \in DOMAIN ring[s] :
    i < j /\ ring[s][i].by = ring[s][j].by => ring[s][i].seq < ring[s][j].seq
=============================================================================
