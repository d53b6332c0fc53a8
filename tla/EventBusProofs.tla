--------------------------- MODULE EventBusProofs ---------------------------
(***************************************************************************)
(* EventBus keeps its semaphores, its order and its loss counters right,   *)
(* a blob's count is exactly who holds it, and every step of the bus is a  *)
(* step of its mailboxes, for any number of subscribers, tasks and blobs,  *)
(* any depths and any policies.                                            *)
(***************************************************************************)
EXTENDS EventBus, FiniteSetTheorems, FunctionTheorems, SequenceTheorems, WellFoundedInduction, TLAPS

\* A set of naturals has a least element: the first slot the scan meets.
LEMMA LeastElement ==
  ASSUME NEW T \in SUBSET Nat, T # {}
  PROVE  \E k \in T : \A j \in T : k <= j
<1> DEFINE F == {0..k : k \in T}
<1>1. PICK k \in T : \A Y \in F : <<Y, 0..k>> \notin StrictSubsetOrdering(Nat)
  <2>1. ASSUME NEW k \in T PROVE 0..k \in FiniteSubsetsOf(Nat)
    <3>1. IsFiniteSet(0..k)
      BY FS_Interval, k \in Int, 0 \in Int
    <3>2. 0..k \in SUBSET Nat
      OBVIOUS
    <3> QED BY <3>1, <3>2 DEF FiniteSubsetsOf
  <2>2. \E X \in F : \A Y \in F : <<Y, X>> \notin StrictSubsetOrdering(Nat)
    <3>1. F \subseteq FiniteSubsetsOf(Nat) /\ F # {}
      BY <2>1
    <3> HIDE DEF F
    <3> QED BY <3>1, WFMin, FS_StrictSubsetOrderingWellFounded
  <2> QED BY <2>2
<1>2. SUFFICES ASSUME NEW j \in T, j < k PROVE FALSE
  BY <1>1
<1>3. 0..j \in F /\ <<0..j, 0..k>> \notin StrictSubsetOrdering(Nat)
  BY <1>1
<1>4. 0..j \in SUBSET Nat /\ 0..k \in SUBSET Nat /\ 0..j \subseteq 0..k
  BY <1>2
<1>5. k \in 0..k /\ k \notin 0..j
  BY <1>2
<1>6. <<0..j, 0..k>> \in StrictSubsetOrdering(Nat)
  <2> DEFINE A == 0..j  B == 0..k
  <2>1. A \in SUBSET Nat /\ B \in SUBSET Nat /\ A \subseteq B /\ A # B
    BY <1>4, <1>5
  <2> HIDE DEF A, B
  <2>2. <<A, B>> \in StrictSubsetOrdering(Nat)
    BY <2>1 DEF StrictSubsetOrdering
  <2> QED BY <2>2 DEF A, B
<1> QED BY <1>3, <1>6

-----------------------------------------------------------------------------
\* What one publish does to the ring of a subscriber, slot by slot.

LEMMA RingFacts ==
  ASSUME TypeOK, NEW s \in Subs
  PROVE  /\ ring[s] \in Seq(Event) /\ Len(ring[s]) \in Nat
         /\ DOMAIN ring[s] = 1..Len(ring[s])
         /\ \A i \in 1..Len(ring[s]) : ring[s][i] \in Event
         /\ Depth[s] \in Nat /\ Depth[s] >= 1
         /\ Policy[s] \in {"DROP_NEWEST", "DROP_OLDEST"}
<1>1. ring[s] \in Seq(Event)
  BY DEF TypeOK
<1>2. Depth[s] \in 1..MaxDepth /\ MaxDepth \in Nat
  BY BusAssumption
<1>3. Policy[s] \in {"DROP_NEWEST", "DROP_OLDEST"}
  BY BusAssumption
<1>4. \A i \in 1..Len(ring[s]) : ring[s][i] \in Event
  BY <1>1, ElementOfSeq
<1> QED BY <1>1, <1>2, <1>3, <1>4, LenProperties

LEMMA SlotFound ==
  ASSUME TypeOK, NEW s \in Subs, NEW e \in Event, Replaces(s, e)
  PROVE  Slot(s, e) \in 1..Len(ring[s]) /\ ring[s][Slot(s, e)].type = e.type
<1> DEFINE P == SlotsOfType(s, e)
<1>1. P # {} /\ P \subseteq 1..Len(ring[s]) /\ \A k \in P : ring[s][k].type = e.type
  BY RingFacts DEF Replaces, SlotsOfType
<1>2. P \in SUBSET Nat
  BY <1>1, RingFacts
<1> HIDE DEF P
<1>3. \E k \in P : \A j \in P : k <= j
  BY <1>1, <1>2, LeastElement
<1>4. (CHOOSE k \in P : \A j \in P : k <= j) \in P
  BY <1>3
<1>5. Slot(s, e) \in P
  BY <1>4 DEF Slot, P
<1> QED BY <1>1, <1>5

LEMMA EnqueueReplaces ==
  ASSUME TypeOK, NEW s \in Subs, NEW e \in Event, Replaces(s, e)
  PROVE  /\ Enqueue(s, e) \in Seq(Event)
         /\ Len(Enqueue(s, e)) = Len(ring[s])
         /\ \A i \in 1..Len(ring[s]) :
              Enqueue(s, e)[i] = IF i = Slot(s, e) THEN e ELSE ring[s][i]
<1>1. ring[s] \in Seq(Event)
  BY RingFacts
<1>2. Slot(s, e) \in 1..Len(ring[s])
  BY SlotFound
<1>3. Enqueue(s, e) = [ring[s] EXCEPT ![Slot(s, e)] = e]
  BY DEF Enqueue
<1> QED BY <1>1, <1>2, <1>3, ExceptSeq

LEMMA EnqueueRefuses ==
  ASSUME TypeOK, NEW s \in Subs, NEW e \in Event, Refuses(s, e)
  PROVE  Enqueue(s, e) = ring[s]
BY DEF Enqueue, Refuses

LEMMA EnqueueEvicts ==
  ASSUME TypeOK, NEW s \in Subs, NEW e \in Event, Evicts(s, e)
  PROVE  /\ Enqueue(s, e) \in Seq(Event)
         /\ Len(ring[s]) >= 1
         /\ Len(Enqueue(s, e)) = Len(ring[s])
         /\ Enqueue(s, e)[Len(ring[s])] = e
         /\ \A i \in 1..(Len(ring[s]) - 1) : Enqueue(s, e)[i] = ring[s][i + 1]
<1>1. /\ ring[s] \in Seq(Event) /\ Len(ring[s]) \in Nat
      /\ Len(ring[s]) = Depth[s] /\ Depth[s] >= 1 /\ ring[s] # <<>>
  BY RingFacts DEF Evicts, Full
<1>2. Enqueue(s, e) = Append(Tail(ring[s]), e)
  BY DEF Enqueue, Evicts, Refuses
<1>3. /\ Tail(ring[s]) \in Seq(Event)
      /\ Len(Tail(ring[s])) = Len(ring[s]) - 1
      /\ \A i \in 1..Len(Tail(ring[s])) : Tail(ring[s])[i] = ring[s][i + 1]
  BY <1>1, HeadTailProperties
<1> QED BY <1>1, <1>2, <1>3, AppendProperties

LEMMA EnqueueQueues ==
  ASSUME TypeOK, NEW s \in Subs, NEW e \in Event, Queues(s, e)
  PROVE  /\ Enqueue(s, e) \in Seq(Event)
         /\ Len(Enqueue(s, e)) = Len(ring[s]) + 1
         /\ Enqueue(s, e)[Len(ring[s]) + 1] = e
         /\ \A i \in 1..Len(ring[s]) : Enqueue(s, e)[i] = ring[s][i]
<1>1. ring[s] \in Seq(Event) /\ Len(ring[s]) \in Nat
  BY RingFacts
<1>2. Enqueue(s, e) = Append(ring[s], e)
  BY DEF Enqueue, Evicts, Refuses, Queues
<1> QED BY <1>1, <1>2, AppendProperties

\* The four cases are all there are.
LEMMA EnqueueCases ==
  ASSUME TypeOK, NEW s \in Subs, NEW e \in Event
  PROVE  Replaces(s, e) \/ Refuses(s, e) \/ Evicts(s, e) \/ Queues(s, e)
BY RingFacts DEF Refuses, Evicts, Queues

LEMMA EnqueueLength ==
  ASSUME TypeOK, NEW s \in Subs, NEW e \in Event, Len(ring[s]) <= Depth[s]
  PROVE  /\ Enqueue(s, e) \in Seq(Event)
         /\ Len(Enqueue(s, e)) = Len(ring[s]) + (IF Queues(s, e) THEN 1 ELSE 0)
         /\ Len(Enqueue(s, e)) <= Depth[s]
<1>1. Len(ring[s]) \in Nat /\ Depth[s] \in Nat /\ ring[s] \in Seq(Event)
  BY RingFacts
<1>2. CASE Replaces(s, e)
  BY <1>1, <1>2, EnqueueReplaces DEF Queues
<1>3. CASE Refuses(s, e)
  BY <1>1, <1>3, EnqueueRefuses DEF Queues, Refuses
<1>4. CASE Evicts(s, e)
  BY <1>1, <1>4, EnqueueEvicts DEF Queues, Evicts
<1>5. CASE Queues(s, e)
  BY <1>1, <1>5, EnqueueQueues DEF Queues, Full
<1> QED BY <1>2, <1>3, <1>4, <1>5, EnqueueCases

-----------------------------------------------------------------------------
(* Types.                                                                  *)

Counters == [received : Nat, dropped : Nat, coalesced : Nat, reported : Nat]

LEMMA InitTypeOK == Init => TypeOK
<1> SUFFICES ASSUME Init PROVE TypeOK
  OBVIOUS
<1>1. <<>> \in Seq(Event)
  OBVIOUS
<1>2. Zero \in Counters
  BY DEF Zero, Counters
<1> QED BY <1>1, <1>2 DEF Init, TypeOK, Counters

LEMMA CountedType ==
  ASSUME TypeOK, NEW s \in Subs, NEW e \in Event
  PROVE  Counted(s, e) \in Counters
<1>1. stats[s] \in Counters
  BY DEF TypeOK, Counters
<1> DEFINE r == IF Refuses(s, e) THEN stats[s].received ELSE stats[s].received + 1
           d == IF Refuses(s, e) \/ Evicts(s, e)
                THEN stats[s].dropped + 1 ELSE stats[s].dropped
           c == IF Replaces(s, e) THEN stats[s].coalesced + 1 ELSE stats[s].coalesced
<1>2. r \in Nat /\ d \in Nat /\ c \in Nat
  BY <1>1 DEF Counters
<1>3. Counted(s, e) = [stats[s] EXCEPT !.received = r, !.dropped = d, !.coalesced = c]
  BY DEF Counted
<1> HIDE DEF r, d, c
<1> QED BY <1>1, <1>2, <1>3 DEF Counters

\* The event a task publishes, once stamped.
LEMMA StampedType ==
  ASSUME TypeOK, NEW t \in Tasks, outbox[t] # NoEvent
  PROVE  /\ [outbox[t] EXCEPT !.seq = seq + 1] \in Event
         /\ [outbox[t] EXCEPT !.seq = seq + 1].seq = seq + 1
<1>1. outbox[t] \in Event /\ seq + 1 \in Nat
  BY DEF TypeOK
<1> QED BY <1>1 DEF Event

LEMMA RecountedType ==
  ASSUME TypeOK, NEW e
  PROVE  Recounted(e) \in [Blobs -> Int]
<1>1. \A b \in Blobs : refs[b] \in Int
  BY DEF TypeOK
<1>2. IsFiniteSet(Subs)
  BY BusAssumption
<1>3. ASSUME NEW b \in Blobs
      PROVE  /\ Cardinality({s \in Matching(e) : ~Refuses(s, e)}) \in Int
             /\ Cardinality({s \in Matching(e) : Displaced(s, e) = b}) \in Int
  <2>1. Matching(e) \subseteq Subs
    BY DEF Matching, TypeOK
  <2> DEFINE A == {s \in Matching(e) : ~Refuses(s, e)}
             B == {s \in Matching(e) : Displaced(s, e) = b}
  <2>2. A \in SUBSET Subs /\ B \in SUBSET Subs
    BY <2>1
  <2> HIDE DEF A, B
  <2>3. Cardinality(A) \in Nat /\ Cardinality(B) \in Nat
    BY <1>2, <2>2, FS_Subset, FS_CardinalityType
  <2> QED BY <2>3 DEF A, B
<1>4. ASSUME NEW b \in Blobs
      PROVE  (refs[b] + (IF b = e.blob
                         THEN Cardinality({s \in Matching(e) : ~Refuses(s, e)}) ELSE 0))
                - Cardinality({s \in Matching(e) : Displaced(s, e) = b}) \in Int
  <2>1. PICK m : m = Cardinality({s \in Matching(e) : ~Refuses(s, e)})
    OBVIOUS
  <2>2. PICK n : n = Cardinality({s \in Matching(e) : Displaced(s, e) = b})
    OBVIOUS
  <2>3. m \in Int /\ n \in Int /\ refs[b] \in Int
    BY <1>1, <1>3, <2>1, <2>2
  <2>4. (refs[b] + (IF b = e.blob THEN m ELSE 0)) - n \in Int
    BY <2>3
  <2> QED BY <2>1, <2>2, <2>4
<1> QED BY <1>4 DEF Recounted

LEMMA CarryingCount ==
  ASSUME TypeOK, NEW b \in Blobs
  PROVE  Cardinality(Carrying(b)) \in Nat
<1>1. IsFiniteSet(Subs)
  BY BusAssumption
<1>2. IsFiniteSet(Subs \X (1..MaxDepth))
  <2>1. MaxDepth \in Int /\ 1 \in Int
    BY BusAssumption
  <2>2. IsFiniteSet(1..MaxDepth)
    BY <2>1, FS_Interval
  <2> QED BY <1>1, <2>2, FS_Product
<1>3. Carrying(b) \in SUBSET (Subs \X (1..MaxDepth))
  BY DEF Carrying, TypeOK
<1> QED BY <1>2, <1>3, FS_Subset, FS_CardinalityType

\* The lengths of the rings, which the tokens bound, are all that types need.
LEMMA NextTypeOK ==
  ASSUME TypeOK, [Next]_vars, \A s \in Subs : Len(ring[s]) <= Depth[s]
  PROVE  TypeOK'
<1> USE DEF TypeOK
<1>1. ASSUME NEW s \in Subs, Subscribe(s) PROVE TypeOK'
  <2>1. <<>> \in Seq(Event)
    OBVIOUS
  <2>2. Zero \in Counters
    BY DEF Zero, Counters
  <2>3. stats' \in [Subs -> Counters]
    BY <1>1, <2>2 DEF Subscribe, Counters
  <2> QED BY <1>1, <2>1, <2>3
       DEF Subscribe, taskVars, recvVars, history, Counters
<1>2. ASSUME NEW t \in Tasks, NEW u \in Types, Compose(t, u) PROVE TypeOK'
  <2>1. PICK b \in Blobs \cup {NoBlob} :
          /\ refs' = [c \in Blobs |-> IF c = b THEN 1 ELSE refs[c]]
          /\ owned' = [owned EXCEPT ![t] = b]
          /\ outbox' = [outbox EXCEPT ![t] = [type |-> u, blob |-> b, seq |-> 0, by |-> t]]
    BY <1>2 DEF Compose
  <2>2. [type |-> u, blob |-> b, seq |-> 0, by |-> t] \in Event
    BY DEF Event
  <2>3. refs' \in [Blobs -> Int]
    BY <2>1
  <2> QED BY <1>2, <2>1, <2>2, <2>3 DEF Compose, busVars, recvVars, history
<1>3. ASSUME NEW t \in Tasks, Publish(t) PROVE TypeOK'
  <2>1. PICK e : e = [outbox[t] EXCEPT !.seq = seq + 1]
    OBVIOUS
  <2>2. e \in Event
    BY <1>3, <2>1, StampedType DEF Publish
  <2>3. ring' = [s \in Subs |-> IF s \in Matching(e) THEN Enqueue(s, e) ELSE ring[s]]
    BY <1>3, <2>1 DEF Publish
  <2>4. ring' \in [Subs -> Seq(Event)]
    BY <2>2, <2>3, EnqueueLength
  <2>5. stats' = [s \in Subs |-> IF s \in Matching(e) THEN Counted(s, e) ELSE stats[s]]
    BY <1>3, <2>1 DEF Publish
  <2>6. stats' \in [Subs -> Counters]
    BY <2>2, <2>5, CountedType DEF Counters
  <2>7. refs' \in [Blobs -> Int]
    BY <1>3, <2>1, RecountedType DEF Publish
  <2>8. toSignal' \in [Tasks -> SUBSET Subs]
    <3>1. Signalled(e) \subseteq Subs
      BY DEF Signalled, Matching
    <3> QED BY <1>3, <2>1, <3>1 DEF Publish
  <2>9. offered' \in [Subs -> Nat]
    <3>1. offered' = [s \in Subs |-> IF s \in Matching(e) THEN offered[s] + 1 ELSE offered[s]]
      BY <1>3, <2>1 DEF Publish
    <3> QED BY <3>1
  <2>10. seq' \in Nat /\ outbox' \in [Tasks -> Event \cup {NoEvent}]
    BY <1>3 DEF Publish
  <2> QED BY <1>3, <2>4, <2>6, <2>7, <2>8, <2>9, <2>10
       DEF Publish, recvVars, Counters
<1>4. ASSUME NEW t \in Tasks, NEW s \in Subs, Signal(t, s) PROVE TypeOK'
  BY <1>4 DEF Signal, recvVars, history
<1>5. ASSUME NEW t \in Tasks, ReleaseOwn(t) PROVE TypeOK'
  <2>1. refs' \in [Blobs -> Int]
    BY <1>5 DEF ReleaseOwn
  <2> QED BY <1>5, <2>1 DEF ReleaseOwn, busVars, recvVars, history
<1>6. ASSUME NEW t \in Tasks, Sweep(t) PROVE TypeOK'
  <2>1. PICK R \in SUBSET Subs : reports' = [reports EXCEPT ![t] = R]
    BY <1>6 DEF Sweep
  <2>2. stats' = [s \in Subs |-> IF s \in reports'[t]
                                 THEN [stats[s] EXCEPT !.reported = stats[s].dropped]
                                 ELSE stats[s]]
    BY <1>6 DEF Sweep
  <2>3. ASSUME NEW s \in Subs
        PROVE  [stats[s] EXCEPT !.reported = stats[s].dropped] \in Counters
    <3>1. stats[s] \in Counters
      BY DEF Counters
    <3> QED BY <3>1 DEF Counters
  <2>4. stats' \in [Subs -> Counters]
    BY <2>2, <2>3 DEF Counters
  <2> QED BY <1>6, <2>1, <2>4 DEF Sweep, recvVars, history, Counters
<1>7. ASSUME NEW t \in Tasks, NEW s \in Subs, Report(t, s) PROVE TypeOK'
  <2>1. [type |-> Overflow, blob |-> NoBlob, seq |-> 0, by |-> t] \in Event
    BY BusAssumption DEF Event
  <2> QED BY <1>7, <2>1 DEF Report, busVars, recvVars, history
<1>8. ASSUME NEW s \in Subs, Take(s) PROVE TypeOK'
  BY <1>8 DEF Take, taskVars, history
<1>9. ASSUME NEW s \in Subs, Pop(s) PROVE TypeOK'
  <2>1. CASE ring[s] = <<>>
    BY <1>9, <2>1 DEF Pop, taskVars, history
  <2>2. CASE ring[s] # <<>>
    <3>1. Head(ring[s]) \in Event /\ Tail(ring[s]) \in Seq(Event)
      BY <2>2, HeadTailProperties
    <3>2. Head(ring[s]).type \in Types /\ Head(ring[s]).seq \in Nat
      BY <3>1 DEF Event
    <3>3. /\ ring' = [ring EXCEPT ![s] = Tail(@)]
          /\ hand' = [hand EXCEPT ![s] = Head(ring[s])]
          /\ popped' = [popped EXCEPT ![s] = @ + 1]
          /\ last' = [last EXCEPT ![s][Head(ring[s]).type] = Head(ring[s]).seq]
      BY <1>9, <2>2 DEF Pop
    <3>4. last' \in [Subs -> [Types -> Nat]]
      BY <3>2, <3>3
    <3>5. ring' \in [Subs -> Seq(Event)] /\ hand' \in [Subs -> Event \cup {NoEvent}]
      BY <3>1, <3>3
    <3>6. popped' \in [Subs -> Nat] /\ offered' = offered /\ taken' \in SUBSET Subs
      BY <1>9, <2>2, <3>3 DEF Pop
    <3> QED BY <1>9, <3>4, <3>5, <3>6 DEF Pop, taskVars
  <2> QED BY <2>1, <2>2
<1>10. ASSUME NEW s \in Subs, Handle(s) PROVE TypeOK'
  BY <1>10 DEF Handle, busVars, taskVars, history
<1>11. CASE Deinit
  <2>1. refs' \in [Blobs -> Int]
    <3>1. \A b \in Blobs : refs[b] - Cardinality(Carrying(b)) \in Int
      BY CarryingCount
    <3> QED BY <1>11, <3>1 DEF Deinit
  <2>2. <<>> \in Seq(Event)
    OBVIOUS
  <2> QED BY <1>11, <2>1, <2>2 DEF Deinit, taskVars, recvVars, history
<1>12. CASE BusInit
  <2>1. Zero \in Counters
    BY DEF Zero, Counters
  <2> QED BY <1>12, <2>1 DEF BusInit, taskVars, recvVars, Counters
<1>13. CASE UNCHANGED vars
  BY <1>13 DEF vars, busVars, taskVars, recvVars, history
<1> QED BY <1>1, <1>2, <1>3, <1>4, <1>5, <1>6, <1>7, <1>8, <1>9, <1>10, <1>11,
           <1>12, <1>13 DEF Next

-----------------------------------------------------------------------------
(* Slots nobody has subscribed are empty, nobody signals or drains them,   *)
(* and a task that is about to publish has given all its earlier signals.  *)

Settled ==
  /\ ~ready => inUse = {}
  /\ \A t \in Tasks : outbox[t] # NoEvent => toSignal[t] = {}
  /\ \A t \in Tasks : toSignal[t] \subseteq inUse
  /\ taken \subseteq inUse
  /\ \A s \in Subs \ inUse : ring[s] = <<>> /\ sem[s] = 0
  /\ ready => \A s \in Subs \ inUse : offered[s] = 0 /\ popped[s] = 0

LEMMA InitSettled == Init => Settled
BY DEF Init, Settled

LEMMA NextSettled ==
  ASSUME TypeOK, Settled, [Next]_vars
  PROVE  Settled'
<1> USE DEF Settled
<1>1. ASSUME NEW s \in Subs, Subscribe(s) PROVE Settled'
  BY <1>1 DEF Subscribe, taskVars, recvVars, history, TypeOK
<1>2. ASSUME NEW t \in Tasks, NEW u \in Types, Compose(t, u) PROVE Settled'
  <2>1. toSignal[t] = {} /\ UNCHANGED <<toSignal, inUse, ring, sem, ready, taken, offered, popped>>
    BY <1>2 DEF Compose, Idle, busVars, recvVars, history
  <2>2. \A q \in Tasks : q # t => outbox'[q] = outbox[q]
    BY <1>2 DEF Compose, TypeOK
  <2> QED BY <2>1, <2>2
<1>3. ASSUME NEW t \in Tasks, Publish(t) PROVE Settled'
  <2>1. PICK e : e = [outbox[t] EXCEPT !.seq = seq + 1]
    OBVIOUS
  <2>2. /\ ring' = [s \in Subs |-> IF s \in Matching(e) THEN Enqueue(s, e) ELSE ring[s]]
        /\ toSignal' = [toSignal EXCEPT ![t] = Signalled(e)]
        /\ offered' = [s \in Subs |-> IF s \in Matching(e) THEN offered[s] + 1 ELSE offered[s]]
        /\ outbox' = [outbox EXCEPT ![t] = NoEvent]
        /\ UNCHANGED <<ready, inUse, sem, taken, popped>>
    BY <1>3, <2>1 DEF Publish, recvVars
  <2>3. Signalled(e) \subseteq inUse /\ Matching(e) \subseteq inUse
    BY DEF Signalled, Matching
  <2>4. \A q \in Tasks : outbox'[q] # NoEvent => q # t /\ toSignal'[q] = {}
    BY <2>2 DEF TypeOK
  <2>5. \A q \in Tasks : toSignal'[q] \subseteq inUse'
    BY <2>2, <2>3 DEF TypeOK
  <2>6. \A s \in Subs \ inUse' :
          ring'[s] = ring[s] /\ sem'[s] = sem[s] /\ offered'[s] = offered[s]
    BY <2>2, <2>3
  <2> QED BY <2>2, <2>4, <2>5, <2>6
<1>4. ASSUME NEW t \in Tasks, NEW s \in Subs, Signal(t, s) PROVE Settled'
  <2>1. s \in inUse
    BY <1>4 DEF Signal
  <2>2. \A q \in Tasks : toSignal'[q] \subseteq toSignal[q]
    BY <1>4 DEF Signal, TypeOK
  <2>3. \A q \in Subs : q # s => sem'[q] = sem[q]
    BY <1>4 DEF Signal, TypeOK
  <2> QED BY <1>4, <2>1, <2>2, <2>3 DEF Signal, recvVars, history
<1>5. ASSUME NEW t \in Tasks, ReleaseOwn(t) PROVE Settled'
  BY <1>5 DEF ReleaseOwn, busVars, recvVars, history
<1>6. ASSUME NEW t \in Tasks, Sweep(t) PROVE Settled'
  BY <1>6 DEF Sweep, recvVars, history
<1>7. ASSUME NEW t \in Tasks, NEW s \in Subs, Report(t, s) PROVE Settled'
  <2>1. \A q \in Tasks : q # t => outbox'[q] = outbox[q]
    BY <1>7 DEF Report, TypeOK
  <2>2. toSignal[t] = {} /\ UNCHANGED <<toSignal, inUse, ring, sem, ready, taken, offered, popped>>
    BY <1>7 DEF Report, busVars, recvVars, history
  <2> QED BY <2>1, <2>2
<1>8. ASSUME NEW s \in Subs, Take(s) PROVE Settled'
  <2>1. \A q \in Subs : q # s => sem'[q] = sem[q]
    BY <1>8 DEF Take, TypeOK
  <2> QED BY <1>8, <2>1 DEF Take, taskVars, history
<1>9. ASSUME NEW s \in Subs, Pop(s) PROVE Settled'
  <2>1. s \in inUse
    BY <1>9 DEF Pop
  <2>2. \A q \in Subs : q # s => ring'[q] = ring[q] /\ popped'[q] = popped[q]
    BY <1>9 DEF Pop, TypeOK, history
  <2>3. UNCHANGED <<ready, inUse, sem, outbox, toSignal, offered>> /\ taken' \subseteq taken
    BY <1>9 DEF Pop, taskVars, history
  <2> QED BY <2>1, <2>2, <2>3
<1>10. ASSUME NEW s \in Subs, Handle(s) PROVE Settled'
  BY <1>10 DEF Handle, busVars, taskVars, history
<1>11. CASE Deinit
  BY <1>11 DEF Deinit, Quiet, Idle, taskVars, recvVars, history
<1>12. CASE BusInit
  BY <1>12 DEF BusInit, taskVars, recvVars
<1>13. CASE UNCHANGED vars
  BY <1>13 DEF vars, busVars, taskVars, recvVars, history
<1> QED BY <1>1, <1>2, <1>3, <1>4, <1>5, <1>6, <1>7, <1>8, <1>9, <1>10, <1>11,
           <1>12, <1>13 DEF Next

-----------------------------------------------------------------------------
(* Tokens.                                                                 *)

\* The tokens of one subscriber, on its semaphore or on their way to it.
Tokens(s) == sem[s] + Cardinality(Signallers(s)) + (IF s \in taken THEN 1 ELSE 0)

LEMMA SignallersFinite ==
  ASSUME NEW s
  PROVE  IsFiniteSet(Signallers(s)) /\ Cardinality(Signallers(s)) \in Nat
<1>1. Signallers(s) \in SUBSET Tasks /\ IsFiniteSet(Tasks)
  BY BusAssumption DEF Signallers
<1> QED BY <1>1, FS_Subset, FS_CardinalityType

LEMMA InitTokens == Init => TokensMatchRing
<1> SUFFICES ASSUME Init, NEW s \in Subs
             PROVE  Len(ring[s]) <= Depth[s] /\ Tokens(s) = Len(ring[s])
  BY DEF TokensMatchRing, Tokens
<1>1. Signallers(s) = {} /\ sem[s] = 0 /\ s \notin taken /\ ring[s] = <<>>
  BY DEF Init, Signallers
<1>2. Depth[s] \in Nat
  BY BusAssumption
<1> QED BY <1>1, <1>2, FS_EmptySet DEF Tokens

LEMMA NextTokens ==
  ASSUME TypeOK, Settled, TokensMatchRing, [Next]_vars
  PROVE  TokensMatchRing'
<1> SUFFICES ASSUME NEW q \in Subs
             PROVE  Len(ring'[q]) <= Depth[q] /\ Tokens(q)' = Len(ring'[q])
  BY DEF TokensMatchRing, Tokens
<1>0. /\ Len(ring[q]) \in Nat /\ Len(ring[q]) <= Depth[q] /\ Depth[q] \in Nat
      /\ Tokens(q) = Len(ring[q]) /\ sem[q] \in Nat
      /\ Cardinality(Signallers(q)) \in Nat /\ IsFiniteSet(Signallers(q))
  BY RingFacts, SignallersFinite DEF TokensMatchRing, Tokens, TypeOK
<1>a. ASSUME UNCHANGED <<ring, sem, toSignal, taken>>
      PROVE  Len(ring'[q]) <= Depth[q] /\ Tokens(q)' = Len(ring'[q])
  BY <1>0, <1>a DEF Tokens, Signallers
<1>1. ASSUME NEW s \in Subs, Subscribe(s)
      PROVE  Len(ring'[q]) <= Depth[q] /\ Tokens(q)' = Len(ring'[q])
  <2>1. UNCHANGED <<toSignal, taken>> /\ Signallers(q)' = Signallers(q)
    BY <1>1 DEF Subscribe, taskVars, recvVars, Signallers
  <2>2. ring' = ring /\ sem' = sem
    BY <1>1 DEF Subscribe, Settled, TypeOK
  <2> QED BY <1>0, <2>1, <2>2 DEF Tokens
<1>2. ASSUME NEW t \in Tasks, NEW u \in Types, Compose(t, u)
      PROVE  Len(ring'[q]) <= Depth[q] /\ Tokens(q)' = Len(ring'[q])
  BY <1>a, <1>2 DEF Compose, busVars, recvVars
<1>3. ASSUME NEW t \in Tasks, Publish(t)
      PROVE  Len(ring'[q]) <= Depth[q] /\ Tokens(q)' = Len(ring'[q])
  <2>1. PICK e : e = [outbox[t] EXCEPT !.seq = seq + 1]
    OBVIOUS
  <2>2. e \in Event
    BY <1>3, <2>1, StampedType DEF Publish
  <2>3. /\ ring'[q] = IF q \in Matching(e) THEN Enqueue(q, e) ELSE ring[q]
        /\ toSignal' = [toSignal EXCEPT ![t] = Signalled(e)]
        /\ UNCHANGED <<sem, taken>>
    BY <1>3, <2>1 DEF Publish, recvVars
  <2>4. t \notin Signallers(q)
    BY <1>3 DEF Publish, Settled, Signallers
  <2>5. CASE q \in Matching(e) /\ Queues(q, e)
    <3>1. Len(ring'[q]) = Len(ring[q]) + 1 /\ Len(ring'[q]) <= Depth[q]
      BY <1>0, <2>2, <2>3, <2>5, EnqueueLength
    <3>2. Signallers(q)' = Signallers(q) \cup {t}
      BY <2>3, <2>5 DEF Signallers, Signalled, TypeOK
    <3>3. Cardinality(Signallers(q)') = Cardinality(Signallers(q)) + 1
      BY <1>0, <2>4, <3>2, FS_AddElement
    <3> QED BY SMTT(30), <1>0, <2>3, <3>1, <3>3 DEF Tokens
  <2>6. CASE ~(q \in Matching(e) /\ Queues(q, e))
    <3>1. Len(ring'[q]) = Len(ring[q])
      <4>1. CASE q \notin Matching(e)
        BY <2>3, <4>1
      <4>2. CASE q \in Matching(e) /\ ~Queues(q, e)
        <5>1. Len(Enqueue(q, e)) = Len(ring[q]) + 0
          BY <1>0, <2>2, <4>2, EnqueueLength
        <5> QED BY <1>0, <2>3, <4>2, <5>1
      <4> QED BY <2>6, <4>1, <4>2
    <3>2. Signallers(q)' = Signallers(q)
      BY <2>3, <2>4, <2>6 DEF Signallers, Signalled, TypeOK
    <3> QED BY <1>0, <2>3, <3>1, <3>2 DEF Tokens
  <2> QED BY <2>5, <2>6
<1>4. ASSUME NEW t \in Tasks, NEW s \in Subs, Signal(t, s)
      PROVE  Len(ring'[q]) <= Depth[q] /\ Tokens(q)' = Len(ring'[q])
  <2>1. UNCHANGED <<ring, taken>> /\ toSignal' = [toSignal EXCEPT ![t] = @ \ {s}]
    BY <1>4 DEF Signal, recvVars
  <2>2. CASE q = s
    <3>1. t \in Signallers(q) /\ Signallers(q)' = Signallers(q) \ {t}
      BY <1>4, <2>1, <2>2 DEF Signal, Signallers, TypeOK
    <3>2. Cardinality(Signallers(q)') = Cardinality(Signallers(q)) - 1
      BY <1>0, <3>1, FS_RemoveElement
    <3>3. Cardinality(Signallers(q)) >= 1
      BY <1>0, <3>1, FS_EmptySet
    <3>4. sem[q] < Depth[q]
      BY <1>0, <3>3 DEF Tokens
    <3>5. sem'[q] = sem[q] + 1
      BY <1>4, <2>2, <3>4 DEF Signal, TypeOK
    <3> QED BY <1>0, <2>1, <3>2, <3>5 DEF Tokens
  <2>3. CASE q # s
    <3>1. Signallers(q)' = Signallers(q)
      BY <2>1, <2>3 DEF Signallers, TypeOK
    <3>2. sem'[q] = sem[q]
      BY <1>4, <2>3 DEF Signal, TypeOK
    <3> QED BY <1>0, <2>1, <3>1, <3>2 DEF Tokens
  <2> QED BY <2>2, <2>3
<1>5. ASSUME NEW t \in Tasks, ReleaseOwn(t)
      PROVE  Len(ring'[q]) <= Depth[q] /\ Tokens(q)' = Len(ring'[q])
  BY <1>a, <1>5 DEF ReleaseOwn, busVars, recvVars
<1>6. ASSUME NEW t \in Tasks, Sweep(t)
      PROVE  Len(ring'[q]) <= Depth[q] /\ Tokens(q)' = Len(ring'[q])
  BY <1>a, <1>6 DEF Sweep, recvVars
<1>7. ASSUME NEW t \in Tasks, NEW s \in Subs, Report(t, s)
      PROVE  Len(ring'[q]) <= Depth[q] /\ Tokens(q)' = Len(ring'[q])
  BY <1>a, <1>7 DEF Report, busVars, recvVars
<1>8. ASSUME NEW s \in Subs, Take(s)
      PROVE  Len(ring'[q]) <= Depth[q] /\ Tokens(q)' = Len(ring'[q])
  <2>1. UNCHANGED <<ring, toSignal>> /\ Signallers(q)' = Signallers(q)
    BY <1>8 DEF Take, taskVars, Signallers
  <2>2. CASE q = s
    BY <1>0, <1>8, <2>1, <2>2 DEF Take, Tokens, TypeOK
  <2>3. CASE q # s
    BY <1>0, <1>8, <2>1, <2>3 DEF Take, Tokens, TypeOK
  <2> QED BY <2>2, <2>3
<1>9. ASSUME NEW s \in Subs, Pop(s)
      PROVE  Len(ring'[q]) <= Depth[q] /\ Tokens(q)' = Len(ring'[q])
  <2>1. UNCHANGED <<sem, toSignal>> /\ taken' = taken \ {s} /\ s \in taken
        /\ Signallers(q)' = Signallers(q)
    BY <1>9 DEF Pop, taskVars, Signallers
  <2>2. CASE q = s
    \* A receiver with a token finds an event.
    <3>1. Len(ring[q]) >= 1
      BY <1>0, <2>1, <2>2 DEF Tokens
    <3>2. ring[q] # <<>> /\ ring[q] \in Seq(Event)
      BY <3>1, RingFacts
    <3>3. ring'[q] = Tail(ring[q])
      BY <1>9, <2>2, <3>2 DEF Pop, TypeOK
    <3>4. Len(ring'[q]) = Len(ring[q]) - 1
      BY <3>2, <3>3, HeadTailProperties
    <3> QED BY <1>0, <2>1, <2>2, <3>4 DEF Tokens
  <2>3. CASE q # s
    <3>1. ring'[q] = ring[q]
      BY SMTT(30), <1>9, <2>3 DEF Pop, TypeOK
    <3> QED BY <1>0, <2>1, <2>3, <3>1 DEF Tokens
  <2> QED BY <2>2, <2>3
<1>10. ASSUME NEW s \in Subs, Handle(s)
       PROVE  Len(ring'[q]) <= Depth[q] /\ Tokens(q)' = Len(ring'[q])
  BY <1>a, <1>10 DEF Handle, busVars, taskVars
<1>11. CASE Deinit
  <2>1. ring'[q] = <<>> /\ sem'[q] = 0 /\ q \notin taken'
    BY <1>11 DEF Deinit, Quiet, recvVars
  <2>2. Signallers(q)' = {}
    BY <1>11 DEF Deinit, Quiet, Idle, Signallers, taskVars
  <2> QED BY <1>0, <2>1, <2>2, FS_EmptySet DEF Tokens
<1>12. CASE BusInit
  BY <1>a, <1>12 DEF BusInit, taskVars, recvVars
<1>13. CASE UNCHANGED vars
  BY <1>a, <1>13 DEF vars, busVars, taskVars, recvVars
<1> QED BY <1>1, <1>2, <1>3, <1>4, <1>5, <1>6, <1>7, <1>8, <1>9, <1>10, <1>11,
           <1>12, <1>13 DEF Next

-----------------------------------------------------------------------------
(* Order.  The strengthening: nothing queued or delivered is newer than    *)
(* the bus's sequence number, so an arriving event is newer than all.      *)

\* An event a queued for s, when n is the bus's number and l what s was last given.
Fresh(s, a, l, n) ==
  /\ a.seq <= n
  /\ l[a.type] < a.seq
  /\ s \notin Coalescing => \A u \in Types : l[u] < a.seq

\* Event a may be queued in front of event b.
Before(s, a, b) ==
  /\ s \notin Coalescing \/ a.type = b.type => a.seq < b.seq
  /\ s \in Coalescing /\ a.type = b.type => a.type \notin Coalescable

InOrder(s, q, l, n) ==
  /\ \A u \in Types : l[u] <= n
  /\ \A i \in 1..Len(q) : Fresh(s, q[i], l, n)
  /\ \A i, j \in 1..Len(q) : i < j => Before(s, q[i], q[j])

Ordered == \A s \in Subs : InOrder(s, ring[s], last[s], seq)

LEMMA OrderedOrderKept ==
  ASSUME TypeOK, Ordered
  PROVE  OrderKept
<1> SUFFICES ASSUME NEW s \in inUse, NEW i \in DOMAIN ring[s], NEW j \in DOMAIN ring[s]
             PROVE  LET early == ring[s][i]
                        late  == ring[s][j]
                    IN  /\ i < j /\ (s \notin Coalescing \/ early.type = late.type)
                             => early.seq < late.seq
                        /\ i # j /\ s \in Coalescing /\ early.type = late.type
                             => early.type \notin Coalescable
                        /\ last[s][early.type] < early.seq
                        /\ s \notin Coalescing => \A u \in Types : last[s][u] < early.seq
  BY DEF OrderKept
<1>1. /\ s \in Subs /\ InOrder(s, ring[s], last[s], seq)
      /\ Len(ring[s]) \in Nat /\ i \in 1..Len(ring[s]) /\ j \in 1..Len(ring[s])
  BY RingFacts DEF Ordered, TypeOK
<1>2. Fresh(s, ring[s][i], last[s], seq)
  BY <1>1 DEF InOrder
<1>3. /\ i < j => Before(s, ring[s][i], ring[s][j])
      /\ j < i => Before(s, ring[s][j], ring[s][i])
  BY <1>1 DEF InOrder
<1>4. i < j \/ j < i \/ i = j
  BY <1>1
<1> QED BY <1>2, <1>3, <1>4 DEF Fresh, Before

LEMMA InitOrdered == Init => Ordered
<1> SUFFICES ASSUME Init, NEW s \in Subs PROVE InOrder(s, ring[s], last[s], seq)
  BY DEF Ordered
<1>1. ring[s] = <<>> /\ seq = 0 /\ \A u \in Types : last[s][u] = 0
  BY DEF Init
<1>2. 1..Len(ring[s]) = {}
  BY <1>1
<1> QED BY <1>1, <1>2 DEF InOrder

\* An event stamped with the next number keeps a ring in order however it is
\* taken in.
LEMMA EnqueueInOrder ==
  ASSUME TypeOK, NEW s \in Subs, NEW e \in Event, e.seq = seq + 1,
         InOrder(s, ring[s], last[s], seq)
  PROVE  InOrder(s, Enqueue(s, e), last[s], seq + 1)
<1> DEFINE n == Len(ring[s])
<1>1. /\ n \in Nat /\ seq \in Nat /\ e.type \in Types
      /\ \A i \in 1..n : ring[s][i] \in Event
      /\ \A u \in Types : last[s][u] \in Nat
  <2>1. n \in Nat /\ \A i \in 1..n : ring[s][i] \in Event
    BY RingFacts
  <2>2. e.type \in Types
    BY DEF Event
  <2>3. seq \in Nat /\ last[s] \in [Types -> Nat]
    BY DEF TypeOK
  <2> QED BY <2>1, <2>2, <2>3
<1>2. \A i \in 1..n : ring[s][i].seq \in Nat /\ ring[s][i].type \in Types
  BY <1>1 DEF Event
<1>3. /\ \A u \in Types : last[s][u] <= seq
      /\ \A i \in 1..n : Fresh(s, ring[s][i], last[s], seq)
      /\ \A i, j \in 1..n : i < j => Before(s, ring[s][i], ring[s][j])
  BY DEF InOrder
<1>4. \A u \in Types : last[s][u] <= seq + 1
  BY <1>1, <1>3
<1>5. \A i \in 1..n : Fresh(s, ring[s][i], last[s], seq + 1)
  BY <1>1, <1>2, <1>3 DEF Fresh
<1>6. Fresh(s, e, last[s], seq + 1)
  BY <1>1, <1>3 DEF Fresh
<1>7. \A i \in 1..n : ring[s][i].seq < e.seq
  BY <1>1, <1>2, <1>3 DEF Fresh
<1>8. ASSUME ~Replaces(s, e)
      PROVE  \A i \in 1..n : Before(s, ring[s][i], e)
  <2>1. s \in Coalescing /\ e.type \in Coalescable
          => \A i \in 1..n : ring[s][i].type # e.type
    BY <1>8, RingFacts DEF Replaces, SlotsOfType
  <2> QED BY <1>7, <2>1 DEF Before
<1>9. CASE Replaces(s, e)
  <2>1. PICK k \in 1..n : k = Slot(s, e) /\ ring[s][k].type = e.type
    BY <1>9, SlotFound
  <2>2. s \in Coalescing /\ e.type \in Coalescable
    BY <1>9 DEF Replaces
  <2>3. PICK q : q = Enqueue(s, e)
    OBVIOUS
  <2>4. /\ Len(q) = n
        /\ \A i \in 1..n : q[i] = IF i = k THEN e ELSE ring[s][i]
    BY <1>9, <2>1, <2>3, EnqueueReplaces
  \* No other slot holds a snapshot of the type.
  <2>5. ASSUME NEW i \in 1..n, i # k PROVE ring[s][i].type # e.type
    <3>1. i < k \/ k < i
      BY <1>1, <2>5
    <3>2. Before(s, ring[s][i], ring[s][k]) \/ Before(s, ring[s][k], ring[s][i])
      BY <1>3, <3>1
    <3> QED BY <2>1, <2>2, <3>2 DEF Before
  <2>6. \A i \in 1..n : i # k => Before(s, ring[s][i], e) /\ Before(s, e, ring[s][i])
    BY <2>2, <2>5 DEF Before
  <2>7. \A i, j \in 1..n : i < j => Before(s, q[i], q[j])
    <3> SUFFICES ASSUME NEW i \in 1..n, NEW j \in 1..n, i < j
                 PROVE  Before(s, q[i], q[j])
      OBVIOUS
    <3>1. i # j /\ (i = k \/ i # k) /\ (j = k \/ j # k)
      BY <1>1
    <3> QED BY <1>3, <2>4, <2>6, <3>1
  <2>8. \A i \in 1..n : Fresh(s, q[i], last[s], seq + 1)
    BY <1>5, <1>6, <2>4
  <2> QED BY <1>4, <2>3, <2>4, <2>7, <2>8 DEF InOrder
<1>10. CASE Refuses(s, e)
  BY <1>3, <1>4, <1>5, <1>10, EnqueueRefuses DEF InOrder
<1>11. CASE Evicts(s, e)
  <2>1. PICK q : q = Enqueue(s, e)
    OBVIOUS
  <2>2. /\ n >= 1 /\ Len(q) = n /\ q[n] = e
        /\ \A i \in 1..(n - 1) : q[i] = ring[s][i + 1]
    BY <1>11, <2>1, EnqueueEvicts
  <2>3. \A i \in 1..n : i = n \/ (i \in 1..(n - 1) /\ i + 1 \in 1..n)
    BY <1>1
  <2>4. \A i \in 1..n : Fresh(s, q[i], last[s], seq + 1)
    BY <1>5, <1>6, <2>2, <2>3
  <2>5. \A i, j \in 1..n : i < j => Before(s, q[i], q[j])
    <3> SUFFICES ASSUME NEW i \in 1..n, NEW j \in 1..n, i < j
                 PROVE  Before(s, q[i], q[j])
      OBVIOUS
    <3>1. i \in 1..(n - 1) /\ i + 1 \in 1..n /\ q[i] = ring[s][i + 1]
      BY <1>1, <2>2
    <3>2. CASE j = n
      BY <1>8, <1>11, <2>2, <3>1, <3>2 DEF Evicts
    <3>3. CASE j # n
      <4>1. j \in 1..(n - 1) /\ j + 1 \in 1..n /\ i + 1 < j + 1 /\ q[j] = ring[s][j + 1]
        BY <1>1, <2>2, <3>3
      <4> QED BY <1>3, <3>1, <4>1
    <3> QED BY <3>2, <3>3
  <2> QED BY <1>4, <2>1, <2>2, <2>4, <2>5 DEF InOrder
<1>12. CASE Queues(s, e)
  <2>1. PICK q : q = Enqueue(s, e)
    OBVIOUS
  <2>2. /\ Len(q) = n + 1 /\ q[n + 1] = e
        /\ \A i \in 1..n : q[i] = ring[s][i]
    BY <1>12, <2>1, EnqueueQueues
  <2>3. \A i \in 1..(n + 1) : i = n + 1 \/ i \in 1..n
    BY <1>1
  <2>4. \A i \in 1..(n + 1) : Fresh(s, q[i], last[s], seq + 1)
    BY <1>5, <1>6, <2>2, <2>3
  <2>5. \A i, j \in 1..(n + 1) : i < j => Before(s, q[i], q[j])
    <3> SUFFICES ASSUME NEW i \in 1..(n + 1), NEW j \in 1..(n + 1), i < j
                 PROVE  Before(s, q[i], q[j])
      OBVIOUS
    <3>1. i \in 1..n /\ q[i] = ring[s][i]
      BY <1>1, <2>2
    <3>2. CASE j = n + 1
      BY <1>8, <1>12, <2>2, <3>1, <3>2 DEF Queues
    <3>3. CASE j \in 1..n
      BY <1>3, <2>2, <3>1, <3>3
    <3> QED BY <2>3, <3>2, <3>3
  <2> QED BY <1>4, <2>1, <2>2, <2>4, <2>5 DEF InOrder
<1> QED BY <1>9, <1>10, <1>11, <1>12, EnqueueCases

\* Handing over the oldest event keeps the rest newer than what was delivered.
LEMMA PopInOrder ==
  ASSUME TypeOK, NEW s \in Subs, ring[s] # <<>>, InOrder(s, ring[s], last[s], seq)
  PROVE  InOrder(s, Tail(ring[s]),
                 [last[s] EXCEPT ![Head(ring[s]).type] = Head(ring[s]).seq], seq)
<1> DEFINE n == Len(ring[s])
<1>1. /\ n \in Nat /\ seq \in Nat /\ n # 0
      /\ \A i \in 1..n : ring[s][i] \in Event
      /\ last[s] \in [Types -> Nat]
  BY RingFacts, EmptySeq DEF TypeOK
<1>2. PICK h : h = ring[s][1]
  OBVIOUS
<1>3. /\ Len(Tail(ring[s])) = n - 1
      /\ \A i \in 1..(n - 1) : Tail(ring[s])[i] = ring[s][i + 1]
      /\ Head(ring[s]) = h
  BY <1>1, <1>2, RingFacts, HeadTailProperties
<1>4. PICK l : l = [last[s] EXCEPT ![h.type] = h.seq]
  OBVIOUS
<1>5. PICK q : q = Tail(ring[s])
  OBVIOUS
<1>6. /\ \A u \in Types : last[s][u] <= seq
      /\ \A i \in 1..n : Fresh(s, ring[s][i], last[s], seq)
      /\ \A i, j \in 1..n : i < j => Before(s, ring[s][i], ring[s][j])
  BY DEF InOrder
<1>7. \A u \in Types : l[u] = IF u = h.type THEN h.seq ELSE last[s][u]
  BY <1>1, <1>4
<1>8. 1 \in 1..n /\ h.seq <= seq /\ h.seq \in Nat
  BY <1>1, <1>2, <1>6 DEF Fresh, Event
<1>9. \A u \in Types : l[u] <= seq
  BY <1>6, <1>7, <1>8
<1>10. ASSUME NEW i \in 1..(n - 1) PROVE Fresh(s, q[i], l, seq)
  <2>1. PICK a : a = ring[s][i + 1]
    OBVIOUS
  <2>2. i + 1 \in 1..n /\ 1 < i + 1 /\ q[i] = a
    BY <1>1, <1>3, <1>5, <2>1
  <2>3. a \in Event /\ a.type \in Types /\ a.seq \in Nat
    BY <1>1, <2>1, <2>2 DEF Event
  <2>4. Fresh(s, a, last[s], seq) /\ Before(s, h, a)
    BY <1>2, <1>6, <1>8, <2>1, <2>2
  <2>5. Fresh(s, a, l, seq)
    BY <1>7, <1>8, <2>3, <2>4 DEF Fresh, Before
  <2> QED BY <2>2, <2>5
<1>11. ASSUME NEW i \in 1..(n - 1), NEW j \in 1..(n - 1), i < j
       PROVE  Before(s, q[i], q[j])
  <2>1. i + 1 \in 1..n /\ j + 1 \in 1..n /\ i + 1 < j + 1
    BY <1>1, <1>11
  <2> QED BY <1>3, <1>5, <1>6, <2>1
<1>12. InOrder(s, q, l, seq)
  BY <1>3, <1>5, <1>9, <1>10, <1>11 DEF InOrder
<1> QED BY <1>3, <1>4, <1>5, <1>12

LEMMA NextOrdered ==
  ASSUME TypeOK, Settled, Ordered, [Next]_vars
  PROVE  Ordered'
<1> SUFFICES ASSUME NEW q \in Subs PROVE InOrder(q, ring'[q], last'[q], seq')
  BY DEF Ordered
<1>0. InOrder(q, ring[q], last[q], seq)
  BY DEF Ordered
<1>a. ASSUME ring'[q] = ring[q], last'[q] = last[q], seq' = seq
      PROVE  InOrder(q, ring'[q], last'[q], seq')
  BY <1>0, <1>a
<1>b. ASSUME ring'[q] = <<>>, \A u \in Types : last'[q][u] <= seq'
      PROVE  InOrder(q, ring'[q], last'[q], seq')
  <2>1. 1..Len(ring'[q]) = {}
    BY <1>b
  <2> QED BY <1>b, <2>1 DEF InOrder
<1>1. ASSUME NEW s \in Subs, Subscribe(s)
      PROVE  InOrder(q, ring'[q], last'[q], seq')
  <2>1. ring'[q] = ring[q]
    BY <1>1 DEF Subscribe, Settled, TypeOK
  <2> QED BY <1>a, <1>1, <2>1 DEF Subscribe, history
<1>2. ASSUME NEW t \in Tasks, NEW u \in Types, Compose(t, u)
      PROVE  InOrder(q, ring'[q], last'[q], seq')
  BY <1>a, <1>2 DEF Compose, busVars, history
<1>3. ASSUME NEW t \in Tasks, Publish(t)
      PROVE  InOrder(q, ring'[q], last'[q], seq')
  <2>1. PICK e : e = [outbox[t] EXCEPT !.seq = seq + 1]
    OBVIOUS
  <2>2. e \in Event /\ e.seq = seq + 1
    BY <1>3, <2>1, StampedType DEF Publish
  <2>3. /\ ring'[q] = IF q \in Matching(e) THEN Enqueue(q, e) ELSE ring[q]
        /\ seq' = seq + 1 /\ last' = last
    BY <1>3, <2>1 DEF Publish
  <2>4. CASE q \in Matching(e)
    BY <1>0, <2>2, <2>3, <2>4, EnqueueInOrder
  <2>5. CASE q \notin Matching(e)
    <3>1. /\ Len(ring[q]) \in Nat /\ seq \in Nat
          /\ \A i \in 1..Len(ring[q]) : ring[q][i] \in Event
      BY RingFacts DEF TypeOK
    <3>2. \A u \in Types : last[q][u] \in Nat
      BY DEF TypeOK
    <3>3. \A i \in 1..Len(ring[q]) : ring[q][i].seq \in Nat
      BY <3>1 DEF Event
    <3>4. \A u \in Types : last[q][u] <= seq + 1
      BY <1>0, <3>1, <3>2 DEF InOrder
    <3>5. \A i \in 1..Len(ring[q]) : Fresh(q, ring[q][i], last[q], seq + 1)
      BY <1>0, <3>1, <3>3 DEF InOrder, Fresh
    <3> QED BY <1>0, <2>3, <2>5, <3>4, <3>5 DEF InOrder
  <2> QED BY <2>4, <2>5
<1>4. ASSUME NEW t \in Tasks, NEW s \in Subs, Signal(t, s)
      PROVE  InOrder(q, ring'[q], last'[q], seq')
  BY <1>a, <1>4 DEF Signal, history
<1>5. ASSUME NEW t \in Tasks, ReleaseOwn(t)
      PROVE  InOrder(q, ring'[q], last'[q], seq')
  BY <1>a, <1>5 DEF ReleaseOwn, busVars, history
<1>6. ASSUME NEW t \in Tasks, Sweep(t)
      PROVE  InOrder(q, ring'[q], last'[q], seq')
  BY <1>a, <1>6 DEF Sweep, history
<1>7. ASSUME NEW t \in Tasks, NEW s \in Subs, Report(t, s)
      PROVE  InOrder(q, ring'[q], last'[q], seq')
  BY <1>a, <1>7 DEF Report, busVars, history
<1>8. ASSUME NEW s \in Subs, Take(s)
      PROVE  InOrder(q, ring'[q], last'[q], seq')
  BY <1>a, <1>8 DEF Take, history
<1>9. ASSUME NEW s \in Subs, Pop(s)
      PROVE  InOrder(q, ring'[q], last'[q], seq')
  <2>1. seq' = seq
    BY <1>9 DEF Pop
  <2>2. CASE ring[s] = <<>>
    BY <1>a, <1>9, <2>1, <2>2 DEF Pop, history
  <2>3. CASE ring[s] # <<>>
    <3>1. /\ ring' = [ring EXCEPT ![s] = Tail(@)]
          /\ last' = [last EXCEPT ![s][Head(ring[s]).type] = Head(ring[s]).seq]
      BY <1>9, <2>3 DEF Pop
    <3>2. CASE q = s
      <4>1. ring'[q] = Tail(ring[q])
        BY <3>1, <3>2 DEF TypeOK
      <4>2. last'[q] = [last[q] EXCEPT ![Head(ring[q]).type] = Head(ring[q]).seq]
        BY <3>1, <3>2 DEF TypeOK
      <4> QED BY <1>0, <2>1, <2>3, <3>2, <4>1, <4>2, PopInOrder
    <3>3. CASE q # s
      <4>1. ring'[q] = ring[q] /\ last'[q] = last[q]
        BY <3>1, <3>3 DEF TypeOK
      <4> QED BY <1>a, <2>1, <4>1
    <3> QED BY <3>2, <3>3
  <2> QED BY <2>2, <2>3
<1>10. ASSUME NEW s \in Subs, Handle(s)
       PROVE  InOrder(q, ring'[q], last'[q], seq')
  BY <1>a, <1>10 DEF Handle, busVars, history
<1>11. CASE Deinit
  <2>1. ring'[q] = <<>> /\ last' = last /\ seq' = seq
    BY <1>11 DEF Deinit, history
  <2>2. \A u \in Types : last'[q][u] <= seq'
    BY <1>0, <2>1 DEF InOrder
  <2> QED BY <1>b, <2>1, <2>2
<1>12. CASE BusInit
  <2>1. ring'[q] = <<>>
    BY <1>12 DEF BusInit, Settled
  <2>2. seq' = 0 /\ \A u \in Types : last'[q][u] = 0
    BY <1>12 DEF BusInit
  <2> QED BY <1>b, <2>1, <2>2
<1>13. CASE UNCHANGED vars
  BY <1>a, <1>13 DEF vars, busVars, history
<1> QED BY <1>1, <1>2, <1>3, <1>4, <1>5, <1>6, <1>7, <1>8, <1>9, <1>10, <1>11,
           <1>12, <1>13 DEF Next

-----------------------------------------------------------------------------
(* Losses.                                                                 *)

\* LossAccounted for one subscriber.
Accounted(s, o, p, n, c) ==
  /\ o = p + n + c.coalesced + c.dropped
  /\ c.received = IF Policy[s] = "DROP_NEWEST" THEN o - c.dropped ELSE o

LEMMA AccountedLoss ==
  LossAccounted <=> \A s \in inUse : Accounted(s, offered[s], popped[s], Len(ring[s]), stats[s])
BY DEF LossAccounted, Accounted

LEMMA EnqueueAccounted ==
  ASSUME TypeOK, NEW s \in Subs, NEW e \in Event, Len(ring[s]) <= Depth[s],
         Accounted(s, offered[s], popped[s], Len(ring[s]), stats[s])
  PROVE  Accounted(s, offered[s] + 1, popped[s], Len(Enqueue(s, e)), Counted(s, e))
<1>1. /\ stats[s] \in Counters /\ offered[s] \in Nat /\ popped[s] \in Nat
  BY DEF TypeOK, Counters
<1>2. /\ stats[s].received \in Nat /\ stats[s].dropped \in Nat /\ stats[s].coalesced \in Nat
      /\ Counted(s, e).received = IF Refuses(s, e) THEN stats[s].received
                                  ELSE stats[s].received + 1
      /\ Counted(s, e).dropped = IF Refuses(s, e) \/ Evicts(s, e)
                                 THEN stats[s].dropped + 1 ELSE stats[s].dropped
      /\ Counted(s, e).coalesced = IF Replaces(s, e) THEN stats[s].coalesced + 1
                                   ELSE stats[s].coalesced
  BY <1>1 DEF Counted, Counters
<1>3. /\ Len(ring[s]) \in Nat
      /\ Len(Enqueue(s, e)) = Len(ring[s]) + (IF Queues(s, e) THEN 1 ELSE 0)
      /\ Policy[s] \in {"DROP_NEWEST", "DROP_OLDEST"}
  BY EnqueueLength, RingFacts
<1>4. PICK r, d, c, n, m, o, p :
        /\ r = stats[s].received /\ d = stats[s].dropped /\ c = stats[s].coalesced
        /\ n = Len(ring[s]) /\ m = Len(Enqueue(s, e)) /\ o = offered[s] /\ p = popped[s]
  OBVIOUS
<1>5. PICK rr, dd, cc : /\ rr = Counted(s, e).received /\ dd = Counted(s, e).dropped
                        /\ cc = Counted(s, e).coalesced
  OBVIOUS
<1>6. /\ r \in Nat /\ d \in Nat /\ c \in Nat /\ n \in Nat /\ o \in Nat /\ p \in Nat
      /\ o = p + n + c + d
      /\ Policy[s] = "DROP_NEWEST" => r = o - d
      /\ Policy[s] # "DROP_NEWEST" => r = o
  BY <1>1, <1>2, <1>3, <1>4 DEF Accounted
<1>7. SUFFICES /\ o + 1 = p + m + cc + dd
               /\ Policy[s] = "DROP_NEWEST" => rr = (o + 1) - dd
               /\ Policy[s] # "DROP_NEWEST" => rr = o + 1
  BY <1>4, <1>5, <1>7 DEF Accounted
<1>8. CASE Replaces(s, e)
  <2>1. ~Refuses(s, e) /\ ~Evicts(s, e) /\ ~Queues(s, e)
    BY <1>8 DEF Refuses, Evicts, Queues
  <2>2. rr = r + 1 /\ dd = d /\ cc = c + 1 /\ m = n
    BY <1>2, <1>3, <1>4, <1>5, <1>6, <1>8, <2>1
  <2>3. o + 1 = p + m + cc + dd
    BY <1>6, <2>2
  <2>4. /\ Policy[s] = "DROP_NEWEST" => rr = (o + 1) - dd
        /\ Policy[s] # "DROP_NEWEST" => rr = o + 1
    BY <1>6, <2>2
  <2> QED BY <2>3, <2>4
<1>9. CASE Refuses(s, e)
  <2>1. ~Replaces(s, e) /\ ~Queues(s, e) /\ Policy[s] = "DROP_NEWEST"
    BY <1>9 DEF Refuses, Queues
  <2>2. rr = r /\ dd = d + 1 /\ cc = c /\ m = n
    BY <1>2, <1>3, <1>4, <1>5, <1>6, <1>9, <2>1
  <2> QED BY <1>6, <2>1, <2>2
<1>10. CASE Evicts(s, e)
  <2>1. ~Replaces(s, e) /\ ~Refuses(s, e) /\ ~Queues(s, e) /\ Policy[s] # "DROP_NEWEST"
    BY <1>10 DEF Evicts, Refuses, Queues
  <2>2. rr = r + 1 /\ dd = d + 1 /\ cc = c /\ m = n
    BY <1>2, <1>3, <1>4, <1>5, <1>6, <1>10, <2>1
  <2> QED BY <1>6, <2>1, <2>2
<1>11. CASE Queues(s, e)
  <2>1. ~Replaces(s, e) /\ ~Refuses(s, e) /\ ~Evicts(s, e)
    BY <1>11 DEF Evicts, Refuses, Queues
  <2>2. rr = r + 1 /\ dd = d /\ cc = c /\ m = n + 1
    BY <1>2, <1>3, <1>4, <1>5, <1>6, <1>11, <2>1
  <2> QED BY <1>6, <2>2
<1> QED BY <1>8, <1>9, <1>10, <1>11, EnqueueCases

LEMMA NextAccounted ==
  ASSUME TypeOK, Settled, TokensMatchRing, LossAccounted, [Next]_vars
  PROVE  LossAccounted'
<1>0. \A s \in inUse : Accounted(s, offered[s], popped[s], Len(ring[s]), stats[s])
  BY AccountedLoss
<1>z. /\ inUse \subseteq Subs /\ \A s \in Subs : Len(ring[s]) <= Depth[s]
  BY DEF TypeOK, TokensMatchRing
<1> SUFFICES ASSUME NEW q \in inUse', TypeOK'
             PROVE  Accounted(q, offered'[q], popped'[q], Len(ring'[q]), stats'[q])
  <2>1. TypeOK'
    BY <1>z, NextTypeOK
  <2> QED BY <2>1 DEF LossAccounted, Accounted
<1>y. q \in Subs
  BY DEF TypeOK
<1>a. ASSUME q \in inUse, offered'[q] = offered[q], popped'[q] = popped[q],
             ring'[q] = ring[q], stats'[q] = stats[q]
      PROVE  Accounted(q, offered'[q], popped'[q], Len(ring'[q]), stats'[q])
  BY <1>0, <1>a
<1>1. ASSUME NEW s \in Subs, Subscribe(s)
      PROVE  Accounted(q, offered'[q], popped'[q], Len(ring'[q]), stats'[q])
  <2>1. UNCHANGED <<offered, popped>> /\ inUse' = inUse \cup {s} /\ s \notin inUse /\ ready
    BY <1>1 DEF Subscribe, history
  <2>2. CASE q = s
    <3>1. offered[q] = 0 /\ popped[q] = 0 /\ ring'[q] = <<>> /\ stats'[q] = Zero
      BY <1>1, <1>y, <2>1, <2>2 DEF Subscribe, Settled, TypeOK
    <3> QED BY <2>1, <3>1 DEF Accounted, Zero
  <2>3. CASE q # s
    <3>1. q \in inUse /\ ring'[q] = ring[q] /\ stats'[q] = stats[q]
      BY <1>1, <1>y, <2>1, <2>3 DEF Subscribe, TypeOK
    <3> QED BY <1>a, <2>1, <3>1
  <2> QED BY <2>2, <2>3
<1>2. ASSUME NEW t \in Tasks, NEW u \in Types, Compose(t, u)
      PROVE  Accounted(q, offered'[q], popped'[q], Len(ring'[q]), stats'[q])
  BY <1>a, <1>2 DEF Compose, busVars, history
<1>3. ASSUME NEW t \in Tasks, Publish(t)
      PROVE  Accounted(q, offered'[q], popped'[q], Len(ring'[q]), stats'[q])
  <2>1. PICK e : e = [outbox[t] EXCEPT !.seq = seq + 1]
    OBVIOUS
  <2>2. e \in Event
    BY <1>3, <2>1, StampedType DEF Publish
  <2>3. /\ ring'[q] = IF q \in Matching(e) THEN Enqueue(q, e) ELSE ring[q]
        /\ stats'[q] = IF q \in Matching(e) THEN Counted(q, e) ELSE stats[q]
        /\ offered'[q] = IF q \in Matching(e) THEN offered[q] + 1 ELSE offered[q]
        /\ popped' = popped /\ inUse' = inUse
    BY <1>3, <1>y, <2>1 DEF Publish
  <2>4. CASE q \in Matching(e)
    BY <1>0, <1>y, <1>z, <2>2, <2>3, <2>4, EnqueueAccounted
  <2>5. CASE q \notin Matching(e)
    BY <1>a, <2>3, <2>5
  <2> QED BY <2>4, <2>5
<1>4. ASSUME NEW t \in Tasks, NEW s \in Subs, Signal(t, s)
      PROVE  Accounted(q, offered'[q], popped'[q], Len(ring'[q]), stats'[q])
  BY <1>a, <1>4 DEF Signal, history
<1>5. ASSUME NEW t \in Tasks, ReleaseOwn(t)
      PROVE  Accounted(q, offered'[q], popped'[q], Len(ring'[q]), stats'[q])
  BY <1>a, <1>5 DEF ReleaseOwn, busVars, history
<1>6. ASSUME NEW t \in Tasks, Sweep(t)
      PROVE  Accounted(q, offered'[q], popped'[q], Len(ring'[q]), stats'[q])
  <2>1. UNCHANGED <<offered, popped, ring, inUse>>
    BY <1>6 DEF Sweep, history
  <2>2. \/ stats'[q] = stats[q]
        \/ stats'[q] = [stats[q] EXCEPT !.reported = stats[q].dropped]
    BY <1>6, <1>y DEF Sweep
  <2>3. stats[q] \in Counters
    BY <1>y DEF TypeOK, Counters
  <2>4. /\ stats'[q].received = stats[q].received
        /\ stats'[q].dropped = stats[q].dropped
        /\ stats'[q].coalesced = stats[q].coalesced
    BY <2>2, <2>3 DEF Counters
  <2> QED BY <1>0, <2>1, <2>4 DEF Accounted
<1>7. ASSUME NEW t \in Tasks, NEW s \in Subs, Report(t, s)
      PROVE  Accounted(q, offered'[q], popped'[q], Len(ring'[q]), stats'[q])
  BY <1>a, <1>7 DEF Report, busVars, history
<1>8. ASSUME NEW s \in Subs, Take(s)
      PROVE  Accounted(q, offered'[q], popped'[q], Len(ring'[q]), stats'[q])
  BY <1>a, <1>8 DEF Take, history
<1>9. ASSUME NEW s \in Subs, Pop(s)
      PROVE  Accounted(q, offered'[q], popped'[q], Len(ring'[q]), stats'[q])
  <2>1. UNCHANGED <<inUse, stats, offered>>
    BY <1>9 DEF Pop, history
  <2>2. CASE ring[s] = <<>> \/ q # s
    <3>1. ring'[q] = ring[q] /\ popped'[q] = popped[q]
      BY <1>9, <1>y, <2>2 DEF Pop, history, TypeOK
    <3> QED BY <1>a, <2>1, <3>1
  <2>3. CASE ring[s] # <<>> /\ q = s
    <3>1. ring'[q] = Tail(ring[q]) /\ popped'[q] = popped[q] + 1
      BY <1>9, <2>3 DEF Pop, TypeOK
    <3>2. Len(ring[q]) \in Nat /\ Len(Tail(ring[q])) = Len(ring[q]) - 1
      BY <1>y, <2>3, RingFacts, HeadTailProperties
    <3>3. /\ popped[q] \in Nat /\ offered[q] \in Nat
          /\ stats[q].coalesced \in Nat /\ stats[q].dropped \in Nat
      BY <1>y DEF TypeOK
    <3>4. PICK o, p, n, m, c, d :
            /\ o = offered[q] /\ p = popped[q] /\ n = Len(ring[q]) /\ m = Len(ring'[q])
            /\ c = stats[q].coalesced /\ d = stats[q].dropped
      OBVIOUS
    <3>5. /\ o = p + n + c + d /\ m = n - 1 /\ p \in Nat /\ n \in Nat
          /\ c \in Nat /\ d \in Nat
      BY <1>0, <2>1, <3>1, <3>2, <3>3, <3>4 DEF Accounted
    <3>6. o = (p + 1) + m + c + d
      BY <3>5
    <3> QED BY <1>0, <2>1, <3>1, <3>4, <3>6 DEF Accounted
  <2> QED BY <2>2, <2>3
<1>10. ASSUME NEW s \in Subs, Handle(s)
       PROVE  Accounted(q, offered'[q], popped'[q], Len(ring'[q]), stats'[q])
  BY <1>a, <1>10 DEF Handle, busVars, history
<1>11. CASE Deinit
  BY <1>11 DEF Deinit
<1>12. CASE BusInit
  BY <1>12 DEF BusInit, Settled
<1>13. CASE UNCHANGED vars
  BY <1>a, <1>13 DEF vars, busVars, history
<1> QED BY <1>1, <1>2, <1>3, <1>4, <1>5, <1>6, <1>7, <1>8, <1>9, <1>10, <1>11,
           <1>12, <1>13 DEF Next

-----------------------------------------------------------------------------
IInv == TypeOK /\ Settled /\ TokensMatchRing /\ Ordered /\ LossAccounted

LEMMA Inductive == Spec => []IInv
<1>1. Init => IInv
  BY InitTypeOK, InitSettled, InitTokens, InitOrdered DEF IInv, Init, LossAccounted
<1>2. IInv /\ [Next]_vars => IInv'
  <2> SUFFICES ASSUME IInv, [Next]_vars PROVE IInv'
    OBVIOUS
  <2>1. \A s \in Subs : Len(ring[s]) <= Depth[s]
    BY DEF IInv, TokensMatchRing
  <2> QED BY <2>1, NextTypeOK, NextSettled, NextTokens, NextOrdered, NextAccounted DEF IInv
<1> QED BY <1>1, <1>2, PTL DEF Spec

\* Every variable of the bus keeps its type.
THEOREM BusTypeCorrect == Spec => []TypeOK
<1>1. IInv => TypeOK
  BY DEF IInv
<1> QED BY <1>1, Inductive, PTL

\* No wakeup is lost and no token is left over between publishers, semaphore
\* and ring, whatever the interleaving.
THEOREM TokensNeverDrift == Spec => []TokensMatchRing
<1>1. IInv => TokensMatchRing
  BY DEF IInv
<1> QED BY <1>1, Inductive, PTL

\* Delivery order survives eviction, refusal and replacement in place.
THEOREM OrderSurvivesOverflow == Spec => []OrderKept
<1>1. IInv => OrderKept
  BY OrderedOrderKept DEF IInv
<1> QED BY <1>1, Inductive, PTL

\* A subscriber's counters account for every publish it should have seen.
THEOREM LossesAreCounted == Spec => []LossAccounted
<1>1. IInv => LossAccounted
  BY DEF IInv
<1> QED BY <1>1, Inductive, PTL

-----------------------------------------------------------------------------
(* Counting.  A publish takes some references out of the rings and puts    *)
(* others in; what stays may move, but no two to one place.                *)

\* The size of a set some of whose elements left, some came and the rest moved.
LEMMA MovedCount ==
  ASSUME NEW C, NEW D, IsFiniteSet(C), IsFiniteSet(D),
         NEW L \in SUBSET C, NEW N \in SUBSET D, ExistsBijection(C \ L, D \ N)
  PROVE  Cardinality(D) = Cardinality(C) - Cardinality(L) + Cardinality(N)
<1>1. /\ IsFiniteSet(C \ L) /\ Cardinality(C \ L) = Cardinality(C) - Cardinality(C \cap L)
      /\ Cardinality(D \ N) = Cardinality(D) - Cardinality(D \cap N)
  BY FS_Difference
<1>2. C \cap L = L /\ D \cap N = N
  OBVIOUS
<1>3. Cardinality(D \ N) = Cardinality(C \ L)
  BY <1>1, FS_Bijection
<1>4. /\ Cardinality(C) \in Nat /\ Cardinality(D) \in Nat
      /\ Cardinality(L) \in Nat /\ Cardinality(N) \in Nat
  BY FS_CardinalityType, FS_Subset
<1>5. Cardinality(C) - Cardinality(L) = Cardinality(D) - Cardinality(N)
  BY <1>1, <1>2, <1>3
<1> QED BY <1>4, <1>5

\* A place each: as many as there are who have one.
LEMMA PlacesCount ==
  ASSUME NEW S, IsFiniteSet(S), NEW place
  PROVE  Cardinality({<<s, place[s]>> : s \in S}) = Cardinality(S)
<1> DEFINE T == {<<s, place[s]>> : s \in S}  f == [s \in S |-> <<s, place[s]>>]
<1>1. f \in [S -> T] /\ \A a, b \in S : f[a] = f[b] => a = b
  OBVIOUS
<1>2. \A t \in T : \E s \in S : f[s] = t
  OBVIOUS
<1>3. f \in Bijection(S, T)
  <2> HIDE DEF f, T
  <2> QED BY <1>1, <1>2, Fun_IsBij
<1>4. ExistsBijection(S, T)
  <2> HIDE DEF f, T
  <2> QED BY <1>3 DEF ExistsBijection
<1> HIDE DEF T
<1> QED BY <1>4, FS_Bijection DEF T

-----------------------------------------------------------------------------
(* Places in rings, whosever they are: W has the rings q.                  *)

Fine(W, q) == IsFiniteSet(W) /\ \A s \in W : Len(q[s]) \in 0..MaxDepth

Places(W, q, b) == {p \in W \X (1..MaxDepth) : p[2] <= Len(q[p[1]]) /\ q[p[1]][p[2]].blob = b}

\* A ring q becomes r: what was at gone has left, what is at come is new (0 for nothing),
\* and the rest has moved up by step.
Moves(q, r, gone, come, step) ==
  /\ gone \in 0..Len(q) /\ come \in 0..Len(r) /\ step \in 0..1
  /\ \A i \in 1..Len(q) : i # gone =>
       i - step \in 1..Len(r) /\ i - step # come /\ r[i - step] = q[i]
  /\ \A j \in 1..Len(r) : j # come => j + step \in 1..Len(q) /\ j + step # gone

\* Whose slot that leaves, or comes, carries b.
Carries(W, q, at, b) == {s \in W : at[s] # 0 /\ q[s][at[s]].blob = b}

\* A place of b.
LEMMA PlaceIs ==
  ASSUME NEW W, NEW q, Fine(W, q), NEW b, NEW s, NEW i
  PROVE  <<s, i>> \in Places(W, q, b) <=> s \in W /\ i \in 1..Len(q[s]) /\ q[s][i].blob = b
<1>1. s \in W => Len(q[s]) \in 0..MaxDepth
  BY DEF Fine
<1>2. <<s, i>> \in Places(W, q, b) <=>
        s \in W /\ i \in 1..MaxDepth /\ i <= Len(q[s]) /\ q[s][i].blob = b
  BY DEF Places
<1> QED BY <1>1, <1>2, BusAssumption

\* They are pairs, and finitely many.
LEMMA PlacesSet ==
  ASSUME NEW W, NEW q, Fine(W, q), NEW b
  PROVE  IsFiniteSet(Places(W, q, b)) /\ \A p \in Places(W, q, b) : p = <<p[1], p[2]>>
<1>1. IsFiniteSet(1..MaxDepth)
  BY BusAssumption, FS_Interval
<1>2. IsFiniteSet(W \X (1..MaxDepth))
  BY <1>1, FS_Product DEF Fine
<1>3. Places(W, q, b) \in SUBSET (W \X (1..MaxDepth))
  BY DEF Places
<1> HIDE DEF Places
<1>4. IsFiniteSet(Places(W, q, b))
  BY <1>2, <1>3, FS_Subset
<1> QED BY <1>3, <1>4

\* When every ring moves so, b's places change by those that left and those that came.
LEMMA PlacesMove ==
  ASSUME NEW W, NEW q, NEW r, Fine(W, q), Fine(W, r), NEW b, NEW gone, NEW come, NEW step,
         \A s \in W : Moves(q[s], r[s], gone[s], come[s], step[s])
  PROVE  Cardinality(Places(W, r, b))
           = Cardinality(Places(W, q, b)) - Cardinality(Carries(W, q, gone, b))
               + Cardinality(Carries(W, r, come, b))
<1> DEFINE C == Places(W, q, b)
           D == Places(W, r, b)
           L == {<<s, gone[s]>> : s \in Carries(W, q, gone, b)}
           N == {<<s, come[s]>> : s \in Carries(W, r, come, b)}
           f == [p \in C \ L |-> <<p[1], p[2] - step[p[1]]>>]
<1>1. L \in SUBSET C /\ N \in SUBSET D
  <2>1. ASSUME NEW s \in Carries(W, q, gone, b) PROVE <<s, gone[s]>> \in C
    <3>1. s \in W /\ gone[s] \in 1..Len(q[s]) /\ q[s][gone[s]].blob = b
      BY <2>1 DEF Carries, Moves, Fine
    <3> QED BY <3>1, PlaceIs
  <2>2. ASSUME NEW s \in Carries(W, r, come, b) PROVE <<s, come[s]>> \in D
    <3>1. s \in W /\ come[s] \in 1..Len(r[s]) /\ r[s][come[s]].blob = b
      BY <2>2 DEF Carries, Moves, Fine
    <3> QED BY <3>1, PlaceIs
  <2> QED BY <2>1, <2>2
<1>2. ASSUME NEW p \in C \ L
      PROVE  /\ p = <<p[1], p[2]>> /\ p[1] \in W /\ p[2] \in Int /\ step[p[1]] \in Int
             /\ <<p[1], p[2] - step[p[1]]>> \in D \ N
  <2> DEFINE s == p[1]  i == p[2]
  <2>1. p = <<s, i>>
    BY PlacesSet
  <2>2. s \in W /\ i \in 1..Len(q[s]) /\ q[s][i].blob = b
    BY <2>1, PlaceIs
  <2>3. i # gone[s]
    <3> SUFFICES ASSUME i = gone[s] PROVE FALSE
      OBVIOUS
    <3>1. s \in Carries(W, q, gone, b)
      BY <2>2, 0 \notin 1..Len(q[s]) DEF Carries
    <3> QED BY <2>1, <3>1
  <2>4. Moves(q[s], r[s], gone[s], come[s], step[s])
    BY <2>2
  <2>5. i - step[s] \in 1..Len(r[s]) /\ i - step[s] # come[s] /\ r[s][i - step[s]].blob = b
    BY <2>2, <2>3, <2>4 DEF Moves
  <2>6. <<s, i - step[s]>> \in D
    BY <2>2, <2>5, PlaceIs
  <2>7. <<s, i - step[s]>> \notin N
    BY <2>5
  <2> QED BY <2>1, <2>2, <2>4, <2>6, <2>7 DEF Moves
<1>3. \A p, o \in C \ L : f[p] = f[o] => p = o
  <2> SUFFICES ASSUME NEW p \in C \ L, NEW o \in C \ L, f[p] = f[o] PROVE p = o
    OBVIOUS
  <2>1. p[1] = o[1] /\ p[2] - step[p[1]] = o[2] - step[o[1]]
    OBVIOUS
  <2>2. p[2] = o[2]
    BY <1>2, <2>1
  <2> QED BY <1>2, <2>1, <2>2
<1>4. \A t \in D \ N : \E p \in C \ L : f[p] = t
  <2> SUFFICES ASSUME NEW t \in D \ N PROVE \E p \in C \ L : f[p] = t
    OBVIOUS
  <2> DEFINE s == t[1]  j == t[2]  p == <<s, j + step[s]>>
  <2>1. t = <<s, j>>
    BY PlacesSet
  <2>2. s \in W /\ j \in 1..Len(r[s]) /\ r[s][j].blob = b
    BY <2>1, PlaceIs
  <2>3. j # come[s]
    <3> SUFFICES ASSUME j = come[s] PROVE FALSE
      OBVIOUS
    <3>1. s \in Carries(W, r, come, b)
      BY <2>2, 0 \notin 1..Len(r[s]) DEF Carries
    <3> QED BY <2>1, <3>1
  <2>4. Moves(q[s], r[s], gone[s], come[s], step[s])
    BY <2>2
  <2>5. j + step[s] \in 1..Len(q[s]) /\ j + step[s] # gone[s] /\ step[s] \in Int /\ j \in Int
    BY <2>2, <2>3, <2>4 DEF Moves
  <2>6. q[s][j + step[s]].blob = b
    <3>1. r[s][(j + step[s]) - step[s]] = q[s][j + step[s]]
      BY <2>4, <2>5 DEF Moves
    <3>2. (j + step[s]) - step[s] = j
      BY <2>5
    <3> QED BY <2>2, <3>1, <3>2
  <2>7. p \in C
    BY <2>2, <2>5, <2>6, PlaceIs
  <2>8. p \notin L
    BY <2>5
  <2>9. f[p] = <<s, (j + step[s]) - step[s]>>
    BY <2>7, <2>8
  <2>10. (j + step[s]) - step[s] = j
    BY <2>5
  <2> QED BY <2>1, <2>7, <2>8, <2>9, <2>10
<1>5. f \in [C \ L -> D \ N]
  BY <1>2
<1>6. ExistsBijection(C \ L, D \ N)
  <2> HIDE DEF f, C, D, L, N
  <2>1. f \in Bijection(C \ L, D \ N)
    BY <1>3, <1>4, <1>5, Fun_IsBij
  <2> QED BY <2>1 DEF ExistsBijection
<1>7. IsFiniteSet(C) /\ IsFiniteSet(D)
  BY PlacesSet
<1>8. IsFiniteSet(Carries(W, q, gone, b)) /\ IsFiniteSet(Carries(W, r, come, b))
  <2>1. Carries(W, q, gone, b) \in SUBSET W /\ Carries(W, r, come, b) \in SUBSET W
    BY DEF Carries
  <2> QED BY <2>1, FS_Subset DEF Fine
<1>9. /\ Cardinality(L) = Cardinality(Carries(W, q, gone, b))
      /\ Cardinality(N) = Cardinality(Carries(W, r, come, b))
  BY <1>8, PlacesCount
<1>10. Cardinality(D) = Cardinality(C) - Cardinality(L) + Cardinality(N)
  <2> HIDE DEF C, D, L, N
  <2> QED BY <1>1, <1>6, <1>7, MovedCount
<1> QED BY <1>9, <1>10

-----------------------------------------------------------------------------
(* A publish.                                                              *)

\* No ring is longer than its subscriber's depth.
Bounded == \A s \in Subs : Len(ring[s]) <= Depth[s]

\* The slot that a publish takes an event out of, the one it puts the new one in, and
\* how far the others move up; 0 for none.
GoneAt(e) == [s \in Subs |-> IF s \notin Matching(e) THEN 0
                            ELSE IF Replaces(s, e) THEN Slot(s, e) ELSE IF Evicts(s, e) THEN 1 ELSE 0]
ComeAt(e) == [s \in Subs |-> IF s \notin Matching(e) \/ Refuses(s, e) THEN 0
                            ELSE IF Replaces(s, e) THEN Slot(s, e) ELSE Len(Enqueue(s, e))]
StepOf(e) == [s \in Subs |-> IF s \in Matching(e) /\ Evicts(s, e) THEN 1 ELSE 0]

\* The rings after it.
After(e) == [s \in Subs |-> IF s \in Matching(e) THEN Enqueue(s, e) ELSE ring[s]]

\* What a publish does to one ring moves its events so.
LEMMA PublishMoves ==
  ASSUME TypeOK, NEW e \in Event, NEW s \in Subs
  PROVE  Moves(ring[s], After(e)[s], GoneAt(e)[s], ComeAt(e)[s], StepOf(e)[s])
<1>0. Len(ring[s]) \in Nat
  BY RingFacts
<1>1. CASE s \notin Matching(e)
  BY <1>0, <1>1 DEF Moves, After, GoneAt, ComeAt, StepOf
<1>2. CASE s \in Matching(e)
  <2>0. After(e)[s] = Enqueue(s, e)
    BY <1>2 DEF After
  <2>1. CASE Replaces(s, e)
    <3>1. GoneAt(e)[s] = Slot(s, e) /\ ComeAt(e)[s] = Slot(s, e) /\ StepOf(e)[s] = 0
      BY <1>2, <2>1 DEF GoneAt, ComeAt, StepOf, Refuses, Evicts
    <3>2. Slot(s, e) \in 1..Len(ring[s])
      BY <2>1, SlotFound
    <3>3. /\ Len(Enqueue(s, e)) = Len(ring[s])
          /\ \A i \in 1..Len(ring[s]) : i # Slot(s, e) => Enqueue(s, e)[i] = ring[s][i]
      BY <2>1, EnqueueReplaces
    <3> QED BY <1>0, <2>0, <3>1, <3>2, <3>3 DEF Moves
  <2>2. CASE Refuses(s, e)
    <3>1. GoneAt(e)[s] = 0 /\ ComeAt(e)[s] = 0 /\ StepOf(e)[s] = 0
      BY <1>2, <2>2 DEF GoneAt, ComeAt, StepOf, Refuses, Evicts
    <3>2. Enqueue(s, e) = ring[s]
      BY <2>2, EnqueueRefuses
    <3> QED BY <1>0, <2>0, <3>1, <3>2 DEF Moves
  <2>3. CASE Evicts(s, e)
    <3>1. GoneAt(e)[s] = 1 /\ ComeAt(e)[s] = Len(Enqueue(s, e)) /\ StepOf(e)[s] = 1
      BY <1>2, <2>3 DEF GoneAt, ComeAt, StepOf, Refuses, Evicts
    <3>2. /\ Len(ring[s]) >= 1 /\ Len(Enqueue(s, e)) = Len(ring[s])
          /\ \A i \in 1..(Len(ring[s]) - 1) : Enqueue(s, e)[i] = ring[s][i + 1]
      BY <2>3, EnqueueEvicts
    <3>3. \A i \in 1..Len(ring[s]) : i # 1 => Enqueue(s, e)[i - 1] = ring[s][i]
      <4> SUFFICES ASSUME NEW i \in 1..Len(ring[s]), i # 1
                   PROVE  Enqueue(s, e)[i - 1] = ring[s][i]
        OBVIOUS
      <4>1. i - 1 \in 1..(Len(ring[s]) - 1) /\ (i - 1) + 1 = i
        BY <1>0
      <4> QED BY <3>2, <4>1
    <3> QED BY <1>0, <2>0, <3>1, <3>2, <3>3 DEF Moves
  <2>4. CASE Queues(s, e)
    <3>1. GoneAt(e)[s] = 0 /\ ComeAt(e)[s] = Len(Enqueue(s, e)) /\ StepOf(e)[s] = 0
      BY <1>2, <2>4 DEF GoneAt, ComeAt, StepOf, Refuses, Evicts, Queues
    <3>2. /\ Len(Enqueue(s, e)) = Len(ring[s]) + 1
          /\ \A i \in 1..Len(ring[s]) : Enqueue(s, e)[i] = ring[s][i]
      BY <2>4, EnqueueQueues
    <3> QED BY <1>0, <2>0, <3>1, <3>2 DEF Moves
  <2> QED BY <2>1, <2>2, <2>3, <2>4, EnqueueCases
<1> QED BY <1>1, <1>2

\* What leaves carries what is displaced, and what comes carries what is published.
LEMMA PublishCarries ==
  ASSUME TypeOK, NEW e \in Event, NEW b \in Blobs
  PROVE  /\ Carries(inUse, ring, GoneAt(e), b) = {s \in Matching(e) : Displaced(s, e) = b}
         /\ Carries(inUse, After(e), ComeAt(e), b)
              = IF b = e.blob THEN {s \in Matching(e) : ~Refuses(s, e)} ELSE {}
<1>0. inUse \subseteq Subs /\ Matching(e) \subseteq inUse
  BY DEF TypeOK, Matching
<1>1. ASSUME NEW s \in inUse
      PROVE  /\ GoneAt(e)[s] # 0 /\ ring[s][GoneAt(e)[s]].blob = b
                  <=> s \in Matching(e) /\ Displaced(s, e) = b
             /\ ComeAt(e)[s] # 0 /\ After(e)[s][ComeAt(e)[s]].blob = b
                  <=> s \in Matching(e) /\ ~Refuses(s, e) /\ b = e.blob
  <2>0. s \in Subs
    BY <1>0
  <2>1. CASE s \notin Matching(e)
    BY <2>0, <2>1 DEF GoneAt, ComeAt
  <2>2. CASE s \in Matching(e) /\ Replaces(s, e)
    <3>1. /\ GoneAt(e)[s] = Slot(s, e) /\ ComeAt(e)[s] = Slot(s, e) /\ ~Refuses(s, e)
          /\ Displaced(s, e) = ring[s][Slot(s, e)].blob /\ After(e)[s] = Enqueue(s, e)
      BY <2>0, <2>2 DEF GoneAt, ComeAt, Refuses, Displaced, After
    <3>2. Slot(s, e) \in 1..Len(ring[s]) /\ Len(ring[s]) \in Nat
      BY <2>0, <2>2, SlotFound, RingFacts
    <3>3. Enqueue(s, e)[Slot(s, e)] = e
      BY <2>0, <2>2, <3>2, EnqueueReplaces
    <3> QED BY <2>2, <3>1, <3>2, <3>3
  <2>3. CASE s \in Matching(e) /\ Refuses(s, e)
    <3>1. GoneAt(e)[s] = 0 /\ ComeAt(e)[s] = 0 /\ Displaced(s, e) = NoBlob
      BY <2>0, <2>3 DEF GoneAt, ComeAt, Refuses, Evicts, Displaced
    <3>2. NoBlob # b
      BY BusAssumption
    <3> QED BY <2>3, <3>1, <3>2
  <2>4. CASE s \in Matching(e) /\ Evicts(s, e)
    <3>1. /\ GoneAt(e)[s] = 1 /\ ComeAt(e)[s] = Len(Enqueue(s, e)) /\ ~Refuses(s, e)
          /\ Displaced(s, e) = Head(ring[s]).blob /\ After(e)[s] = Enqueue(s, e)
      BY <2>0, <2>4 DEF GoneAt, ComeAt, Refuses, Evicts, Displaced, After
    <3>2. /\ Len(ring[s]) >= 1 /\ Len(Enqueue(s, e)) = Len(ring[s])
          /\ Enqueue(s, e)[Len(ring[s])] = e
      BY <2>0, <2>4, EnqueueEvicts
    <3>3. Head(ring[s]) = ring[s][1] /\ Len(ring[s]) \in Nat
      BY <2>0, RingFacts, HeadTailProperties, <3>2
    <3> QED BY <2>4, <3>1, <3>2, <3>3
  <2>5. CASE s \in Matching(e) /\ Queues(s, e)
    <3>1. /\ GoneAt(e)[s] = 0 /\ ComeAt(e)[s] = Len(Enqueue(s, e)) /\ ~Refuses(s, e)
          /\ Displaced(s, e) = NoBlob /\ After(e)[s] = Enqueue(s, e)
      BY <2>0, <2>5 DEF GoneAt, ComeAt, Refuses, Evicts, Queues, Displaced, After
    <3>2. Len(Enqueue(s, e)) = Len(ring[s]) + 1 /\ Enqueue(s, e)[Len(ring[s]) + 1] = e
      BY <2>0, <2>5, EnqueueQueues
    <3>3. NoBlob # b /\ Len(ring[s]) \in Nat
      BY <2>0, BusAssumption, RingFacts
    <3> QED BY <2>5, <3>1, <3>2, <3>3
  <2> QED BY <2>0, <2>1, <2>2, <2>3, <2>4, <2>5, EnqueueCases
<1> QED BY <1>0, <1>1 DEF Carries

-----------------------------------------------------------------------------
(* Reference counts.                                                       *)

Owners(b) == {t \in Tasks : owned[t] = b}
Readers(b) == {s \in Subs : hand[s] # NoEvent /\ hand[s].blob = b}

\* Who holds a blob, counted in three natural numbers.
LEMMA HoldersIs ==
  ASSUME TypeOK, Bounded, NEW b \in Blobs
  PROVE  /\ Holders(b) = Cardinality(Owners(b)) + Cardinality(Places(inUse, ring, b))
                            + Cardinality(Readers(b))
         /\ IsFiniteSet(Owners(b)) /\ Cardinality(Owners(b)) \in Nat
         /\ IsFiniteSet(Readers(b)) /\ Cardinality(Readers(b)) \in Nat
         /\ Fine(inUse, ring) /\ Cardinality(Places(inUse, ring, b)) \in Nat
         /\ refs[b] \in Int
<1>1. Holders(b) = Cardinality(Owners(b)) + Cardinality(Places(inUse, ring, b))
                     + Cardinality(Readers(b))
  BY DEF Holders, Owners, Readers, Carrying, Places
<1>2. IsFiniteSet(Owners(b)) /\ IsFiniteSet(Readers(b))
  <2>1. Owners(b) \in SUBSET Tasks /\ Readers(b) \in SUBSET Subs
    BY DEF Owners, Readers
  <2> QED BY <2>1, FS_Subset, BusAssumption
<1>3. Fine(inUse, ring)
  <2>1. IsFiniteSet(inUse)
    BY BusAssumption, FS_Subset DEF TypeOK
  <2>2. ASSUME NEW s \in inUse PROVE Len(ring[s]) \in 0..MaxDepth
    <3>1. s \in Subs
      BY DEF TypeOK
    <3>2. Len(ring[s]) \in Nat /\ Depth[s] \in 1..MaxDepth /\ Len(ring[s]) <= Depth[s]
      BY <3>1, RingFacts, BusAssumption DEF Bounded
    <3> QED BY <3>2, BusAssumption
  <2> QED BY <2>1, <2>2 DEF Fine
<1>4. refs[b] \in Int
  BY DEF TypeOK
<1> QED BY <1>1, <1>2, <1>3, <1>4, PlacesSet, FS_CardinalityType

\* The same of the state after a step: what a publisher owns, what rings carry and what
\* receivers handle.
LEMMA HoldersThen ==
  ASSUME TypeOK', Bounded', NEW b \in Blobs
  PROVE  /\ Holders(b)' = Cardinality(Owners(b)') + Cardinality(Places(inUse', ring', b))
                             + Cardinality(Readers(b)')
         /\ Fine(inUse', ring')
<1>1. Holders(b)' = Cardinality(Owners(b)') + Cardinality(Places(inUse', ring', b))
                     + Cardinality(Readers(b)')
  BY DEF Holders, Owners, Readers, Carrying, Places
<1>2. IsFiniteSet(inUse')
  BY BusAssumption, FS_Subset DEF TypeOK
<1>3. ASSUME NEW s \in inUse' PROVE Len(ring'[s]) \in 0..MaxDepth
  <2>1. s \in Subs /\ ring'[s] \in Seq(Event)
    BY DEF TypeOK
  <2>2. Len(ring'[s]) \in Nat
    BY <2>1, LenProperties
  <2>3. Depth[s] \in 1..MaxDepth /\ Len(ring'[s]) <= Depth[s]
    BY <2>1, BusAssumption DEF Bounded
  <2> QED BY <2>2, <2>3, BusAssumption
<1> QED BY <1>1, <1>2, <1>3 DEF Fine

\* A step that moves no reference.
LEMMA NobodyMoves ==
  ASSUME NEW b \in Blobs, refs[b] = Holders(b), UNCHANGED <<refs, inUse, ring, owned, hand>>
  PROVE  refs'[b] = Holders(b)'
BY DEF Holders, Carrying

\* A publish retains for every delivery and releases for every event displaced, so the
\* counts follow the rings.
LEMMA PublishRefs ==
  ASSUME TypeOK, Bounded, TypeOK', Bounded', NEW b \in Blobs, refs[b] = Holders(b),
         NEW t \in Tasks, Publish(t)
  PROVE  refs'[b] = Holders(b)'
<1>1. PICK e : e = [outbox[t] EXCEPT !.seq = seq + 1]
  OBVIOUS
<1>2. e \in Event
  BY <1>1, StampedType DEF Publish
<1>3. ring' = After(e) /\ refs' = Recounted(e) /\ inUse' = inUse /\ owned' = owned /\ hand' = hand
  BY <1>1 DEF Publish, After, recvVars
<1>4. Owners(b)' = Owners(b) /\ Readers(b)' = Readers(b)
  BY <1>3 DEF Owners, Readers
<1> DEFINE In == IF b = e.blob THEN {s \in Matching(e) : ~Refuses(s, e)} ELSE {}
           Out == {s \in Matching(e) : Displaced(s, e) = b}
<1>5. Cardinality(Places(inUse, After(e), b))
        = Cardinality(Places(inUse, ring, b)) - Cardinality(Out) + Cardinality(In)
  <2>1. \A s \in inUse : Moves(ring[s], After(e)[s], GoneAt(e)[s], ComeAt(e)[s], StepOf(e)[s])
    BY <1>2, PublishMoves DEF TypeOK
  <2>2. Fine(inUse, ring) /\ Fine(inUse, After(e))
    BY <1>3, HoldersIs, HoldersThen
  <2>3. Cardinality(Places(inUse, After(e), b))
          = Cardinality(Places(inUse, ring, b)) - Cardinality(Carries(inUse, ring, GoneAt(e), b))
              + Cardinality(Carries(inUse, After(e), ComeAt(e), b))
    BY <2>1, <2>2, PlacesMove
  <2> QED BY <1>2, <2>3, PublishCarries
<1>6. Cardinality(In) \in Nat /\ Cardinality(Out) \in Nat
  <2>1. IsFiniteSet(Subs) /\ In \in SUBSET Subs /\ Out \in SUBSET Subs
    BY BusAssumption DEF Matching, TypeOK
  <2> HIDE DEF In, Out
  <2> QED BY <2>1, FS_Subset, FS_CardinalityType
<1>7. refs'[b] = (refs[b] + Cardinality(In)) - Cardinality(Out)
  <2>1. CASE b = e.blob
    BY <1>3, <2>1 DEF Recounted
  <2>2. CASE b # e.blob
    BY <1>3, <2>2, FS_EmptySet DEF Recounted
  <2> QED BY <2>1, <2>2
<1> HIDE DEF In, Out
<1> QED BY <1>3, <1>4, <1>5, <1>6, <1>7, HoldersIs, HoldersThen

\* What comes out of a ring goes into its receiver's hand.
LEMMA PopRefs ==
  ASSUME TypeOK, Bounded, TypeOK', Bounded', NEW b \in Blobs, refs[b] = Holders(b),
         NEW s \in Subs, Pop(s), s \in inUse, hand[s] = NoEvent
  PROVE  refs'[b] = Holders(b)'
<1>1. refs' = refs /\ inUse' = inUse /\ owned' = owned
  BY DEF Pop, taskVars
<1>2. CASE ring[s] = <<>>
  BY <1>1, <1>2, NobodyMoves DEF Pop, history
<1>3. CASE ring[s] # <<>>
  <2> DEFINE first == Head(ring[s])
             gone == [q \in Subs |-> IF q = s THEN 1 ELSE 0]
             come == [q \in Subs |-> 0]
             mine == IF first.blob = b THEN {s} ELSE {}
  <2>1. hand' = [hand EXCEPT ![s] = first] /\ ring' = [ring EXCEPT ![s] = Tail(ring[s])]
    BY <1>3 DEF Pop
  <2>2. /\ ring[s] \in Seq(Event) /\ Len(ring[s]) \in Nat /\ Len(ring[s]) >= 1
        /\ first = ring[s][1] /\ first \in Event
        /\ Len(Tail(ring[s])) = Len(ring[s]) - 1
        /\ \A i \in 1..Len(Tail(ring[s])) : Tail(ring[s])[i] = ring[s][i + 1]
    BY <1>3, RingFacts, HeadTailProperties, EmptySeq
  <2>3. ASSUME NEW q \in inUse PROVE Moves(ring[q], ring'[q], gone[q], come[q], gone[q])
    <3>1. q \in Subs /\ Len(ring[q]) \in Nat
      BY RingFacts DEF TypeOK
    <3>2. CASE q # s
      <4>1. ring'[q] = ring[q]
        BY <2>1, <3>1, <3>2 DEF TypeOK
      <4> QED BY <3>1, <3>2, <4>1 DEF Moves
    <3>3. CASE q = s
      <4>1. ring'[s] = Tail(ring[s])
        BY <2>1, <3>1 DEF TypeOK
      <4>2. \A i \in 1..Len(ring[s]) : i # 1 => Tail(ring[s])[i - 1] = ring[s][i]
        <5> SUFFICES ASSUME NEW i \in 1..Len(ring[s]), i # 1
                     PROVE  Tail(ring[s])[i - 1] = ring[s][i]
          OBVIOUS
        <5>1. i - 1 \in 1..Len(Tail(ring[s])) /\ (i - 1) + 1 = i
          BY <2>2
        <5> QED BY <2>2, <5>1
      <4> QED BY <2>2, <3>1, <3>3, <4>1, <4>2 DEF Moves
    <3> QED BY <3>2, <3>3
  <2>4. Cardinality(Places(inUse, ring', b))
          = Cardinality(Places(inUse, ring, b)) - Cardinality(Carries(inUse, ring, gone, b))
              + Cardinality(Carries(inUse, ring', come, b))
    <3>1. Fine(inUse, ring) /\ Fine(inUse, ring')
      BY <1>1, HoldersIs, HoldersThen
    <3> HIDE DEF gone, come
    <3> QED BY <2>3, <3>1, PlacesMove
  <2>5. Carries(inUse, ring, gone, b) = mine /\ Carries(inUse, ring', come, b) = {}
    <3>1. ASSUME NEW q \in inUse
          PROVE  gone[q] # 0 /\ ring[q][gone[q]].blob = b <=> q = s /\ first.blob = b
      <4>1. q \in Subs /\ gone[q] = IF q = s THEN 1 ELSE 0
        BY DEF TypeOK
      <4> HIDE DEF gone, first
      <4> QED BY <2>2, <4>1
    <3>2. \A q \in inUse : come[q] = 0
      BY DEF TypeOK
    <3>3. \A q \in inUse : q \in mine <=> q = s /\ first.blob = b
      <4> HIDE DEF first
      <4> QED OBVIOUS
    <3>4. mine \subseteq inUse
      OBVIOUS
    <3> HIDE DEF gone, come, first, mine
    <3>5. Carries(inUse, ring, gone, b) = mine
      BY <3>1, <3>3, <3>4 DEF Carries
    <3> QED BY <3>2, <3>5 DEF Carries
  <2>6. Readers(b)' = Readers(b) \cup mine /\ s \notin Readers(b) /\ Owners(b)' = Owners(b)
    <3>1. first # NoEvent
      BY <2>2, NoEventAssumption
    <3>2. \A q \in Subs : hand'[q] = IF q = s THEN first ELSE hand[q]
      BY <2>1 DEF TypeOK
    <3> HIDE DEF first
    <3> QED BY <1>1, <3>1, <3>2 DEF Readers, Owners
  <2>7. Cardinality(Readers(b)') = Cardinality(Readers(b)) + Cardinality(mine)
        /\ Cardinality(mine) \in Nat
    <3>0. IsFiniteSet(Readers(b)) /\ Cardinality(Readers(b)) \in Nat
      BY HoldersIs
    <3>1. CASE first.blob = b
      <4>1. mine = {s}
        BY <3>1
      <4>2. Cardinality(mine) = 1
        BY <4>1, FS_Singleton
      <4>3. Readers(b)' = Readers(b) \cup {s} /\ s \notin Readers(b)
        BY <2>6, <4>1
      <4>4. Cardinality(Readers(b) \cup {s}) = Cardinality(Readers(b)) + 1
        BY <3>0, <4>3, FS_AddElement
      <4> HIDE DEF mine
      <4> QED BY <4>2, <4>3, <4>4
    <3>2. CASE first.blob # b
      <4>1. mine = {}
        BY <3>2
      <4>2. Cardinality(mine) = 0
        BY <4>1, FS_EmptySet
      <4>3. Readers(b)' = Readers(b)
        BY <2>6, <4>1
      <4> HIDE DEF mine
      <4> QED BY <3>0, <4>2, <4>3
    <3> QED BY <3>1, <3>2
  <2> HIDE DEF first, gone, come, mine
  <2>8. /\ Cardinality(Places(inUse, ring', b))
             = Cardinality(Places(inUse, ring, b)) - Cardinality(mine) + 0
        /\ Cardinality(Places(inUse, ring, b)) \in Nat
    BY <2>4, <2>5, HoldersIs, FS_EmptySet
  <2>9. Cardinality(Owners(b)) \in Nat /\ Cardinality(Readers(b)) \in Nat
    BY HoldersIs
  <2>10. Holders(b)' = Holders(b)
    <3>1. Holders(b)' = Cardinality(Owners(b)) + Cardinality(Places(inUse, ring', b))
                          + (Cardinality(Readers(b)) + Cardinality(mine))
      BY <1>1, <2>6, <2>7, HoldersThen
    <3>2. Holders(b) = Cardinality(Owners(b)) + Cardinality(Places(inUse, ring, b))
                          + Cardinality(Readers(b))
      BY HoldersIs
    <3> QED BY <2>7, <2>8, <2>9, <3>1, <3>2
  <2> QED BY <1>1, <2>10
<1> QED BY <1>2, <1>3

\* A publisher that composes an event owns the blob it has just allocated.
LEMMA ComposeRefs ==
  ASSUME TypeOK, Bounded, TypeOK', Bounded', NEW b \in Blobs, refs[b] = Holders(b),
         NEW t \in Tasks, NEW u \in Types, Compose(t, u)
  PROVE  refs'[b] = Holders(b)'
<1>1. PICK c \in Blobs \cup {NoBlob} :
        /\ c # NoBlob => refs[c] = 0
        /\ refs' = [d \in Blobs |-> IF d = c THEN 1 ELSE refs[d]]
        /\ owned' = [owned EXCEPT ![t] = c]
  BY DEF Compose
<1>2. inUse' = inUse /\ ring' = ring /\ hand' = hand /\ owned[t] = NoBlob /\ b # NoBlob
  BY BusAssumption DEF Compose, busVars, recvVars, Idle
<1>3. Readers(b)' = Readers(b) /\ \A q \in Tasks : owned'[q] = IF q = t THEN c ELSE owned[q]
  BY <1>1, <1>2 DEF Readers, TypeOK
<1>4. CASE c = b
  <2>1. Owners(b)' = Owners(b) \cup {t} /\ t \notin Owners(b)
    BY <1>2, <1>3, <1>4 DEF Owners
  <2>2. Cardinality(Owners(b)') = Cardinality(Owners(b)) + 1
    BY <2>1, HoldersIs, FS_AddElement
  <2>3. refs[b] = 0 /\ refs'[b] = 1
    BY <1>1, <1>2, <1>4
  <2>4. Holders(b)' = (Cardinality(Owners(b)) + 1) + Cardinality(Places(inUse, ring, b))
                        + Cardinality(Readers(b))
    BY <1>2, <1>3, <2>2, HoldersThen
  <2>5. 0 = Cardinality(Owners(b)) + Cardinality(Places(inUse, ring, b)) + Cardinality(Readers(b))
    BY <2>3, HoldersIs
  <2>6. /\ Cardinality(Owners(b)) \in Nat /\ Cardinality(Readers(b)) \in Nat
        /\ Cardinality(Places(inUse, ring, b)) \in Nat
    BY HoldersIs
  <2> QED BY <2>3, <2>4, <2>5, <2>6
<1>5. CASE c # b
  <2>1. Owners(b)' = Owners(b)
    BY <1>2, <1>3, <1>5 DEF Owners
  <2>2. refs'[b] = refs[b]
    BY <1>1, <1>5
  <2>3. Holders(b)' = Holders(b)
    BY <1>2, <1>3, <2>1, HoldersIs, HoldersThen
  <2> QED BY <2>2, <2>3
<1> QED BY <1>4, <1>5

\* A publisher that releases its own reference takes one off that blob's count.
LEMMA ReleaseRefs ==
  ASSUME TypeOK, Bounded, TypeOK', Bounded', NEW b \in Blobs, refs[b] = Holders(b),
         NEW t \in Tasks, ReleaseOwn(t)
  PROVE  refs'[b] = Holders(b)'
<1>1. /\ inUse' = inUse /\ ring' = ring /\ hand' = hand /\ b # NoBlob
      /\ owned[t] \in Blobs /\ refs' = [refs EXCEPT ![owned[t]] = refs[owned[t]] - 1]
      /\ owned' = [owned EXCEPT ![t] = NoBlob]
  BY BusAssumption DEF ReleaseOwn, busVars, recvVars, TypeOK
<1>2. /\ Readers(b)' = Readers(b)
      /\ \A q \in Tasks : owned'[q] = IF q = t THEN NoBlob ELSE owned[q]
  BY <1>1 DEF Readers, TypeOK
<1>3. CASE owned[t] = b
  <2>1. Owners(b)' = Owners(b) \ {t} /\ t \in Owners(b)
    BY <1>1, <1>2, <1>3 DEF Owners
  <2>2. Cardinality(Owners(b)') = Cardinality(Owners(b)) - 1
    BY <2>1, HoldersIs, FS_RemoveElement
  <2>3. refs'[b] = refs[b] - 1
    BY <1>1, <1>3 DEF TypeOK
  <2>4. Holders(b)' = (Cardinality(Owners(b)) - 1) + Cardinality(Places(inUse, ring, b))
                        + Cardinality(Readers(b))
    BY <1>1, <1>2, <2>2, HoldersThen
  <2>5. refs[b] = Cardinality(Owners(b)) + Cardinality(Places(inUse, ring, b))
                    + Cardinality(Readers(b))
    BY HoldersIs
  <2>6. /\ Cardinality(Owners(b)) \in Nat /\ Cardinality(Readers(b)) \in Nat
        /\ Cardinality(Places(inUse, ring, b)) \in Nat
    BY HoldersIs
  <2> QED BY <2>3, <2>4, <2>5, <2>6
<1>4. CASE owned[t] # b
  <2>1. Owners(b)' = Owners(b)
    BY <1>1, <1>2, <1>4 DEF Owners
  <2>2. refs'[b] = refs[b]
    BY <1>1, <1>4 DEF TypeOK
  <2>3. Holders(b)' = Holders(b)
    BY <1>1, <1>2, <2>1, HoldersIs, HoldersThen
  <2> QED BY <2>2, <2>3
<1> QED BY <1>3, <1>4

\* A receiver that is done with its event releases the blob it carried.
LEMMA HandleRefs ==
  ASSUME TypeOK, Bounded, TypeOK', Bounded', NEW b \in Blobs, refs[b] = Holders(b),
         NEW s \in Subs, Handle(s)
  PROVE  refs'[b] = Holders(b)'
<1>1. /\ inUse' = inUse /\ ring' = ring /\ owned' = owned /\ hand[s] # NoEvent
      /\ refs'[b] = IF b = hand[s].blob THEN refs[b] - 1 ELSE refs[b]
      /\ hand' = [hand EXCEPT ![s] = NoEvent]
  BY DEF Handle, busVars, taskVars
<1>2. Owners(b)' = Owners(b) /\ \A q \in Subs : hand'[q] = IF q = s THEN NoEvent ELSE hand[q]
  BY <1>1 DEF Owners, TypeOK
<1>3. CASE hand[s].blob = b
  <2>1. Readers(b)' = Readers(b) \ {s} /\ s \in Readers(b)
    BY <1>1, <1>2, <1>3 DEF Readers
  <2>2. Cardinality(Readers(b)') = Cardinality(Readers(b)) - 1
    BY <2>1, HoldersIs, FS_RemoveElement
  <2>3. refs'[b] = refs[b] - 1
    BY <1>1, <1>3
  <2>4. Holders(b)' = Cardinality(Owners(b)) + Cardinality(Places(inUse, ring, b))
                        + (Cardinality(Readers(b)) - 1)
    BY <1>1, <1>2, <2>2, HoldersThen
  <2>5. refs[b] = Cardinality(Owners(b)) + Cardinality(Places(inUse, ring, b))
                    + Cardinality(Readers(b))
    BY HoldersIs
  <2>6. /\ Cardinality(Owners(b)) \in Nat /\ Cardinality(Readers(b)) \in Nat
        /\ Cardinality(Places(inUse, ring, b)) \in Nat
    BY HoldersIs
  <2> QED BY <2>3, <2>4, <2>5, <2>6
<1>4. CASE hand[s].blob # b
  <2>1. Readers(b)' = Readers(b)
    BY <1>1, <1>2, <1>4 DEF Readers
  <2>2. refs'[b] = refs[b]
    BY <1>1, <1>4
  <2>3. Holders(b)' = Holders(b)
    BY <1>1, <1>2, <2>1, HoldersIs, HoldersThen
  <2> QED BY <2>2, <2>3
<1> QED BY <1>3, <1>4

\* Shutdown finds no publisher and no receiver with a blob, and flushes the rings.
LEMMA DeinitRefs ==
  ASSUME TypeOK, Bounded, TypeOK', Bounded', NEW b \in Blobs, refs[b] = Holders(b), Deinit
  PROVE  refs'[b] = Holders(b)'
<1>1. Owners(b) = {} /\ Readers(b) = {}
  BY BusAssumption DEF Deinit, Quiet, Idle, Owners, Readers
<1>2. Owners(b)' = {} /\ Readers(b)' = {}
  BY <1>1 DEF Deinit, taskVars, recvVars, Owners, Readers
<1>3. Places(inUse', ring', b) = {}
  BY DEF Deinit, Places
<1>4. refs'[b] = refs[b] - Cardinality(Places(inUse, ring, b))
  BY DEF Deinit, Carrying, Places
<1>5. /\ refs[b] = 0 + Cardinality(Places(inUse, ring, b)) + 0
      /\ Cardinality(Places(inUse, ring, b)) \in Nat
  BY <1>1, HoldersIs, FS_EmptySet
<1>6. Holders(b)' = 0 + 0 + 0
  BY <1>2, <1>3, HoldersThen, FS_EmptySet
<1> QED BY <1>4, <1>5, <1>6

\* A slot that is handed out starts with an empty ring, so it carries nothing.
LEMMA SubscribeRefs ==
  ASSUME TypeOK, Settled, NEW b \in Blobs, refs[b] = Holders(b), NEW s \in Subs, Subscribe(s)
  PROVE  refs'[b] = Holders(b)'
<1>1. /\ refs' = refs /\ owned' = owned /\ hand' = hand /\ inUse' = inUse \cup {s}
      /\ s \in Subs \ inUse /\ ring' = [ring EXCEPT ![s] = <<>>]
  BY DEF Subscribe, taskVars, recvVars
<1>2. ring[s] = <<>>
  BY <1>1 DEF Settled
<1>3. ring' = ring
  BY <1>1, <1>2 DEF TypeOK
<1>4. Places(inUse', ring', b) = Places(inUse, ring, b)
  <2>1. ASSUME NEW i \in 1..MaxDepth, i <= Len(ring[s]) PROVE FALSE
    BY <1>2, <2>1, BusAssumption
  <2> QED BY <1>1, <1>3, <2>1 DEF Places
<1>5. Carrying(b)' = Carrying(b)
  BY <1>4 DEF Carrying, Places
<1> QED BY <1>1, <1>5 DEF Holders

-----------------------------------------------------------------------------
(* A receiver that is about to pop has nothing in its hand: without this a *)
(* pop could overwrite an event whose blob is never released.              *)

HandFree == \A s \in taken : hand[s] = NoEvent

Bound == TypeOK /\ Settled /\ TokensMatchRing /\ HandFree /\ RefsExact

\* A receiver takes a token only with an empty hand, and only a pop fills it.
LEMMA NextHandFree ==
  ASSUME TypeOK, HandFree, [Next]_vars
  PROVE  HandFree'
<1> USE DEF HandFree
<1>1. ASSUME NEW s \in Subs, Subscribe(s) PROVE HandFree'
  BY <1>1 DEF Subscribe, recvVars
<1>2. ASSUME NEW t \in Tasks, NEW u \in Types, Compose(t, u) PROVE HandFree'
  BY <1>2 DEF Compose, recvVars
<1>3. ASSUME NEW t \in Tasks, Publish(t) PROVE HandFree'
  BY <1>3 DEF Publish, recvVars
<1>4. ASSUME NEW t \in Tasks, NEW s \in Subs, Signal(t, s) PROVE HandFree'
  BY <1>4 DEF Signal, recvVars
<1>5. ASSUME NEW t \in Tasks, ReleaseOwn(t) PROVE HandFree'
  BY <1>5 DEF ReleaseOwn, recvVars
<1>6. ASSUME NEW t \in Tasks, Sweep(t) PROVE HandFree'
  BY <1>6 DEF Sweep, recvVars
<1>7. ASSUME NEW t \in Tasks, NEW s \in Subs, Report(t, s) PROVE HandFree'
  BY <1>7 DEF Report, recvVars
<1>8. ASSUME NEW s \in Subs, Take(s) PROVE HandFree'
  BY <1>8 DEF Take
<1>9. ASSUME NEW s \in Subs, Pop(s) PROVE HandFree'
  <2>1. taken' = taken \ {s} /\ \A q \in Subs : q # s => hand'[q] = hand[q]
    BY <1>9 DEF Pop, TypeOK
  <2> QED BY <2>1 DEF TypeOK
<1>10. ASSUME NEW s \in Subs, Handle(s) PROVE HandFree'
  <2>1. taken' = taken /\ \A q \in Subs : hand'[q] = hand[q] \/ hand'[q] = NoEvent
    BY <1>10 DEF Handle, TypeOK
  <2> QED BY <2>1 DEF TypeOK
<1>11. CASE Deinit
  BY <1>11 DEF Deinit, recvVars
<1>12. CASE BusInit
  BY <1>12 DEF BusInit, recvVars
<1>13. CASE UNCHANGED vars
  BY <1>13 DEF vars, recvVars
<1> QED BY <1>1, <1>2, <1>3, <1>4, <1>5, <1>6, <1>7, <1>8, <1>9, <1>10, <1>11,
           <1>12, <1>13 DEF Next

\* The counts stay exact in every step.
LEMMA NextRefs ==
  ASSUME Bound, TypeOK', TokensMatchRing', [Next]_vars
  PROVE  RefsExact'
<1> SUFFICES ASSUME NEW b \in Blobs PROVE refs'[b] = Holders(b)'
  BY DEF RefsExact
<1>0. /\ TypeOK /\ Settled /\ HandFree /\ Bounded /\ Bounded' /\ refs[b] = Holders(b)
  BY DEF Bound, TokensMatchRing, Bounded, RefsExact
<1>1. ASSUME NEW s \in Subs, Subscribe(s) PROVE refs'[b] = Holders(b)'
  BY <1>0, <1>1, SubscribeRefs
<1>2. ASSUME NEW t \in Tasks, NEW u \in Types, Compose(t, u) PROVE refs'[b] = Holders(b)'
  BY <1>0, <1>2, ComposeRefs
<1>3. ASSUME NEW t \in Tasks, Publish(t) PROVE refs'[b] = Holders(b)'
  BY <1>0, <1>3, PublishRefs
<1>4. ASSUME NEW t \in Tasks, NEW s \in Subs, Signal(t, s) PROVE refs'[b] = Holders(b)'
  <2>1. UNCHANGED <<refs, inUse, ring, owned, hand>>
    BY <1>4 DEF Signal, recvVars
  <2> QED BY <1>0, <2>1, NobodyMoves
<1>5. ASSUME NEW t \in Tasks, ReleaseOwn(t) PROVE refs'[b] = Holders(b)'
  BY <1>0, <1>5, ReleaseRefs
<1>6. ASSUME NEW t \in Tasks, Sweep(t) PROVE refs'[b] = Holders(b)'
  <2>1. UNCHANGED <<refs, inUse, ring, owned, hand>>
    BY <1>6 DEF Sweep, recvVars
  <2> QED BY <1>0, <2>1, NobodyMoves
<1>7. ASSUME NEW t \in Tasks, NEW s \in Subs, Report(t, s) PROVE refs'[b] = Holders(b)'
  <2>1. UNCHANGED <<refs, inUse, ring, owned, hand>>
    BY <1>7 DEF Report, recvVars, busVars
  <2> QED BY <1>0, <2>1, NobodyMoves
<1>8. ASSUME NEW s \in Subs, Take(s) PROVE refs'[b] = Holders(b)'
  <2>1. UNCHANGED <<refs, inUse, ring, owned, hand>>
    BY <1>8 DEF Take, taskVars
  <2> QED BY <1>0, <2>1, NobodyMoves
<1>9. ASSUME NEW s \in Subs, Pop(s) PROVE refs'[b] = Holders(b)'
  <2>1. s \in inUse /\ hand[s] = NoEvent
    BY <1>0, <1>9 DEF Pop, Settled, HandFree
  <2> QED BY <1>0, <1>9, <2>1, PopRefs
<1>10. ASSUME NEW s \in Subs, Handle(s) PROVE refs'[b] = Holders(b)'
  BY <1>0, <1>10, HandleRefs
<1>11. CASE Deinit
  BY <1>0, <1>11, DeinitRefs
<1>12. CASE BusInit
  <2>1. UNCHANGED <<refs, inUse, ring, owned, hand>>
    BY <1>12 DEF BusInit, recvVars, taskVars
  <2> QED BY <1>0, <2>1, NobodyMoves
<1>13. CASE UNCHANGED vars
  <2>1. UNCHANGED <<refs, inUse, ring, owned, hand>>
    BY <1>13 DEF vars, recvVars, taskVars, busVars
  <2> QED BY <1>0, <2>1, NobodyMoves
<1> QED BY <1>1, <1>2, <1>3, <1>4, <1>5, <1>6, <1>7, <1>8, <1>9, <1>10, <1>11,
           <1>12, <1>13 DEF Next

\* At first nobody holds anything.
LEMMA InitRefs == Init => HandFree /\ RefsExact
<1> SUFFICES ASSUME Init PROVE HandFree /\ RefsExact
  OBVIOUS
<1>1. HandFree
  BY DEF Init, HandFree
<1>2. ASSUME NEW b \in Blobs PROVE refs[b] = Holders(b)
  <2>1. refs[b] = 0
    BY DEF Init
  <2>2. {t \in Tasks : owned[t] = b} = {}
    BY BusAssumption DEF Init
  <2>3. {s \in Subs : hand[s] # NoEvent /\ hand[s].blob = b} = {}
    BY DEF Init
  <2>4. Carrying(b) = {}
    BY DEF Init, Carrying
  <2>5. Holders(b) = Cardinality({}) + Cardinality({}) + Cardinality({})
    BY <2>2, <2>3, <2>4, Zenon DEF Holders
  <2>6. Cardinality({}) = 0
    BY FS_EmptySet
  <2>7. Holders(b) = 0 + 0 + 0
    BY <2>5, <2>6, Zenon
  <2> QED BY <2>1, <2>7
<1> QED BY <1>1, <1>2 DEF RefsExact

\* All of it together is inductive: the counts need the rings bounded, the bound needs
\* the tokens, and the tokens need the slots settled.
LEMMA BoundHolds == Spec => []Bound
<1>1. Init => Bound
  BY InitTypeOK, InitSettled, InitTokens, InitRefs DEF Bound
<1>2. Bound /\ [Next]_vars => Bound'
  <2> SUFFICES ASSUME Bound, [Next]_vars PROVE Bound'
    OBVIOUS
  <2>1. TypeOK /\ Settled /\ TokensMatchRing /\ HandFree /\ \A s \in Subs : Len(ring[s]) <= Depth[s]
    BY DEF Bound, TokensMatchRing
  <2>2. TypeOK' /\ Settled' /\ TokensMatchRing' /\ HandFree'
    BY <2>1, NextTypeOK, NextSettled, NextTokens, NextHandFree
  <2> QED BY <2>2, NextRefs DEF Bound
<1> QED BY <1>1, <1>2, PTL DEF Spec

\* A blob's count is at every moment the number of publishers, ring slots and receivers
\* that hold it: none leaks, and none is freed under anybody.
THEOREM CountsWhoHolds == Spec => []RefsExact
<1>1. Bound => RefsExact
  BY DEF Bound
<1> QED BY <1>1, BoundHolds, PTL

-----------------------------------------------------------------------------
(* The mailboxes of Mailbox, a ring for a box.                             *)

\* What a publish does to one ring is what posting may do to its box.
LEMMA EnqueuePosts ==
  ASSUME TypeOK, NEW s \in Subs, NEW e \in Event, Len(ring[s]) <= Depth[s]
  PROVE  Enqueue(s, e) \in MB!Posted(s, e)
<1>1. MB!SameType(s, e) = SlotsOfType(s, e)
  BY DEF MB!SameType, SlotsOfType
<1>2. MB!Replaceable(s, e) <=> Replaces(s, e)
  BY <1>1 DEF MB!Replaceable, Replaces
<1>3. CASE Replaces(s, e)
  <2>1. Enqueue(s, e) = [ring[s] EXCEPT ![Slot(s, e)] = e]
    BY <1>3 DEF Enqueue
  <2>2. Slot(s, e) \in SlotsOfType(s, e)
    BY <1>3, SlotFound, RingFacts DEF SlotsOfType
  <2> QED BY <1>1, <1>2, <1>3, <2>1, <2>2 DEF MB!Posted
<1>4. CASE ~Replaces(s, e) /\ ~Full(s)
  <2>1. Enqueue(s, e) = Append(ring[s], e)
    BY <1>4 DEF Enqueue, Refuses, Evicts
  <2>2. Len(ring[s]) < Depth[s]
    BY <1>4, RingFacts DEF Full
  <2> QED BY <1>2, <1>4, <2>1, <2>2 DEF MB!Posted
<1>5. CASE ~Replaces(s, e) /\ Full(s) /\ Policy[s] = "DROP_NEWEST"
  <2>1. Enqueue(s, e) = ring[s]
    BY <1>5, EnqueueRefuses DEF Refuses
  <2>2. ~(Len(ring[s]) < Depth[s]) /\ s \in {q \in Subs : Policy[q] = "DROP_NEWEST"}
    BY <1>5, RingFacts DEF Full
  <2> QED BY <1>2, <1>5, <2>1, <2>2 DEF MB!Posted
<1>6. CASE ~Replaces(s, e) /\ Full(s) /\ Policy[s] # "DROP_NEWEST"
  <2>1. Enqueue(s, e) = Append(Tail(ring[s]), e)
    BY <1>6, RingFacts DEF Enqueue, Refuses, Evicts
  <2>2. ~(Len(ring[s]) < Depth[s]) /\ s \notin {q \in Subs : Policy[q] = "DROP_NEWEST"}
    BY <1>6, RingFacts DEF Full
  <2> QED BY <1>2, <1>6, <2>1, <2>2 DEF MB!Posted
<1> QED BY <1>3, <1>4, <1>5, <1>6

\* A publish posts its event to everyone it matches; one that every ring refused
\* leaves the mailboxes as they were.
LEMMA PublishPosts ==
  ASSUME TypeOK, Bounded, NEW t \in Tasks, Publish(t)
  PROVE  MB!Next \/ UNCHANGED <<ring, hand>>
<1>1. PICK e : e = [outbox[t] EXCEPT !.seq = seq + 1]
  OBVIOUS
<1>2. e \in Event
  BY <1>1, StampedType DEF Publish
<1>3. ring' = After(e) /\ hand' = hand
  BY <1>1 DEF Publish, After, recvVars
<1>4. Matching(e) \in SUBSET Subs
  BY DEF Matching, TypeOK
<1>5. MB!Post(e, Matching(e))
  <2>1. ASSUME NEW s \in Matching(e) PROVE ring'[s] \in MB!Posted(s, e)
    <3>1. s \in Subs /\ ring'[s] = Enqueue(s, e) /\ Len(ring[s]) <= Depth[s]
      BY <1>3, <1>4, <2>1 DEF After, Bounded
    <3> QED BY <1>2, <3>1, EnqueuePosts
  <2>2. \A s \in Subs \ Matching(e) : ring'[s] = ring[s]
    BY <1>3 DEF After
  <2> QED BY <1>3, <2>1, <2>2 DEF MB!Post
<1>6. CASE \A s \in Matching(e) : Refuses(s, e)
  <2>1. \A s \in Subs : ring'[s] = ring[s]
    BY <1>2, <1>3, <1>4, <1>6, EnqueueRefuses DEF After
  <2>2. ring' = [s \in Subs |-> ring'[s]] /\ ring = [s \in Subs |-> ring[s]]
    BY <1>3 DEF After, TypeOK
  <2>3. ring' = ring
    BY <2>1, <2>2
  <2> QED BY <1>3, <2>3
<1>7. CASE \E s \in Matching(e) : ~Refuses(s, e)
  <2>1. PICK s \in Matching(e) : ~Refuses(s, e)
    BY <1>7
  <2>2. s \in Subs /\ ring'[s] = Enqueue(s, e)
    BY <1>3, <1>4, <2>1 DEF After
  <2>3. Len(ring[s]) \in Nat
    BY <2>2, RingFacts
  <2>4. \E i \in 1..Len(Enqueue(s, e)) : Enqueue(s, e)[i] = e
    <3>1. CASE Replaces(s, e)
      <4>1. Slot(s, e) \in 1..Len(ring[s]) /\ Len(Enqueue(s, e)) = Len(ring[s])
        BY <1>2, <2>2, <3>1, SlotFound, EnqueueReplaces
      <4>2. Enqueue(s, e)[Slot(s, e)] = e
        BY <1>2, <2>2, <3>1, <4>1, EnqueueReplaces
      <4> QED BY <4>1, <4>2
    <3>2. CASE Evicts(s, e)
      <4>1. /\ Len(ring[s]) >= 1 /\ Len(Enqueue(s, e)) = Len(ring[s])
            /\ Enqueue(s, e)[Len(ring[s])] = e
        BY <1>2, <2>2, <3>2, EnqueueEvicts
      <4>2. Len(ring[s]) \in 1..Len(Enqueue(s, e))
        BY <2>3, <4>1
      <4> QED BY <4>1, <4>2
    <3>3. CASE Queues(s, e)
      <4>1. Len(Enqueue(s, e)) = Len(ring[s]) + 1 /\ Enqueue(s, e)[Len(ring[s]) + 1] = e
        BY <1>2, <2>2, <3>3, EnqueueQueues
      <4>2. Len(ring[s]) + 1 \in 1..Len(Enqueue(s, e))
        BY <2>3, <4>1
      <4> QED BY <4>1, <4>2
    <3> QED BY <1>2, <2>1, <2>2, <3>1, <3>2, <3>3, EnqueueCases
  <2>5. DOMAIN Enqueue(s, e) = 1..Len(Enqueue(s, e))
    <3>1. Enqueue(s, e) \in Seq(Event)
      BY <1>2, <2>2, EnqueueLength DEF Bounded
    <3> QED BY <3>1, LenProperties
  <2>6. e \in MB!Range(ring'[s])
    BY <2>2, <2>4, <2>5 DEF MB!Range
  <2>7. e \in UNION {MB!Range(ring'[q]) : q \in Subs}
    BY <2>2, <2>6
  <2> QED BY <1>4, <1>5, <2>7 DEF MB!Next
<1> QED BY <1>6, <1>7

\* A pop delivers the head of the ring; the semaphore and the lock that lead to it are
\* no step of the mailbox.
LEMMA PopDelivers ==
  ASSUME TypeOK, HandFree, NEW s \in Subs, Pop(s)
  PROVE  MB!Next \/ UNCHANGED <<ring, hand>>
<1>1. CASE ring[s] = <<>>
  BY <1>1 DEF Pop
<1>2. CASE ring[s] # <<>>
  <2>1. hand[s] = NoEvent
    BY DEF Pop, HandFree
  <2>2. hand' = [hand EXCEPT ![s] = Head(ring[s])] /\ ring' = [ring EXCEPT ![s] = Tail(@)]
    BY <1>2 DEF Pop
  <2>3. MB!Deliver(s)
    BY <1>2, <2>1, <2>2 DEF MB!Deliver
  <2> QED BY <2>3 DEF MB!Next
<1> QED BY <1>1, <1>2

\* Every step of the bus is a step of its mailboxes, or none.
LEMMA StepSimulates ==
  ASSUME Bound, [Next]_vars
  PROVE  [MB!Next]_<<ring, hand>>
<1>0. TypeOK /\ Settled /\ HandFree /\ Bounded
  BY DEF Bound, TokensMatchRing, Bounded
<1> SUFFICES MB!Next \/ UNCHANGED <<ring, hand>>
  OBVIOUS
<1>1. ASSUME NEW s \in Subs, Subscribe(s) PROVE UNCHANGED <<ring, hand>>
  <2>1. s \in Subs \ inUse /\ ring' = [ring EXCEPT ![s] = <<>>] /\ hand' = hand
    BY <1>1 DEF Subscribe, recvVars
  <2>2. ring[s] = <<>>
    BY <1>0, <2>1 DEF Settled
  <2> QED BY <1>0, <2>1, <2>2 DEF TypeOK
<1>2. ASSUME NEW t \in Tasks, NEW u \in Types, Compose(t, u) PROVE UNCHANGED <<ring, hand>>
  BY <1>2 DEF Compose, busVars, recvVars
<1>3. ASSUME NEW t \in Tasks, Publish(t) PROVE MB!Next \/ UNCHANGED <<ring, hand>>
  BY <1>0, <1>3, PublishPosts
<1>4. ASSUME NEW t \in Tasks, NEW s \in Subs, Signal(t, s) PROVE UNCHANGED <<ring, hand>>
  BY <1>4 DEF Signal, recvVars
<1>5. ASSUME NEW t \in Tasks, ReleaseOwn(t) PROVE UNCHANGED <<ring, hand>>
  BY <1>5 DEF ReleaseOwn, busVars, recvVars
<1>6. ASSUME NEW t \in Tasks, Sweep(t) PROVE UNCHANGED <<ring, hand>>
  BY <1>6 DEF Sweep, recvVars
<1>7. ASSUME NEW t \in Tasks, NEW s \in Subs, Report(t, s) PROVE UNCHANGED <<ring, hand>>
  BY <1>7 DEF Report, busVars, recvVars
<1>8. ASSUME NEW s \in Subs, Take(s) PROVE UNCHANGED <<ring, hand>>
  BY <1>8 DEF Take
<1>9. ASSUME NEW s \in Subs, Pop(s) PROVE MB!Next \/ UNCHANGED <<ring, hand>>
  BY <1>0, <1>9, PopDelivers
<1>10. ASSUME NEW s \in Subs, Handle(s) PROVE MB!Next
  <2>1. MB!Handled(s)
    BY <1>10 DEF Handle, busVars, MB!Handled
  <2> QED BY <2>1 DEF MB!Next
<1>11. CASE Deinit
  <2>1. MB!Close
    BY <1>11 DEF Deinit, Quiet, recvVars, MB!Close
  <2> QED BY <2>1 DEF MB!Next
<1>12. CASE BusInit
  BY <1>12 DEF BusInit, recvVars
<1>13. CASE UNCHANGED vars
  BY <1>13 DEF vars, busVars, recvVars
<1> QED BY <1>1, <1>2, <1>3, <1>4, <1>5, <1>6, <1>7, <1>8, <1>9, <1>10, <1>11,
           <1>12, <1>13 DEF Next

\* The bus is a set of lossy mailboxes: what a subscriber's ring holds and what its
\* receiver is handed is what Mailbox allows, step by step.
THEOREM BusIsMailboxes == Spec => MB!Init /\ [][MB!Next]_(MB!vars)
<1>1. Init => MB!Init
  BY DEF Init, MB!Init
<1>2. Bound /\ [Next]_vars => [MB!Next]_(MB!vars)
  BY StepSimulates DEF MB!vars
<1> QED BY <1>1, <1>2, BoundHolds, PTL DEF Spec
=============================================================================
