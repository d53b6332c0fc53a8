---------------------------- MODULE StoreProofs ----------------------------
(***************************************************************************)
(* Proofs about the settings store: its types and its debounce for any     *)
(* tasks; and, when one task does everything, that a change is never       *)
(* forgotten, that a clean store is a saved one, and that a loss of power  *)
(* at any point leaves values that were in use.                            *)
(***************************************************************************)
EXTENDS Store, SequenceTheorems, TLAPS

Pcs == {"idle", "mark", "raise", "save", "clear", "settle", "default", "erase", "wipe"}
Job == [pc : Pcs, at : 1..(Len(KeyOrder) + 1), ok : BOOLEAN, close : BOOLEAN]

\* A call that is about to mark or clear a slot is at a slot.
Placed == \A t \in Tasks : job[t].pc \in {"mark", "clear"} => More(t)

Types == TypeOK /\ Placed /\ IsStored(disk) /\ IsStored(staged)

-----------------------------------------------------------------------------
(* The operators.                                                          *)

\* A value in range is a number, and the default is in range.
LEMMA Ranges ==
  ASSUME NEW k \in Keys
  PROVE  /\ Lo[k] \in Int /\ Hi[k] \in Int /\ Least(k) \in Int /\ Least(k) <= Lo[k]
         /\ Least(k) <= Hi[k] /\ Held(k) = Least(k)..Hi[k]
         /\ Default[k] \in Held(k) /\ Default[k] \in Int
         /\ \A v \in Held(k) : v \in Int /\ (k \in Texts => v \in Nat)
<1>1. Lo[k] \in Int /\ Hi[k] \in Int /\ Default[k] \in Int /\ (k \in Texts => Lo[k] >= 0)
      /\ Lo[k] <= Default[k] /\ Default[k] <= Hi[k]
  BY StoreAssumption DEF StoreAssumption
<1>2. Least(k) \in Int /\ Least(k) <= Lo[k] /\ (k \in Texts => Least(k) = 0)
  BY <1>1 DEF Least
<1>3. Held(k) = Least(k)..Hi[k]
  BY DEF Held
<1> QED BY <1>1, <1>2, <1>3

\* Each place of the order is a setting's, and each setting has a place.
LEMMA Order ==
  /\ Len(KeyOrder) \in Nat /\ DOMAIN KeyOrder = 1..Len(KeyOrder)
  /\ \A i \in 1..Len(KeyOrder) : KeyOrder[i] \in Keys
  /\ \A k \in Keys : \E i \in DOMAIN KeyOrder : KeyOrder[i] = k
  BY StoreAssumption DEF StoreAssumption

\* A value that is within its range is restored as it is.
LEMMA RestoredSame ==
  ASSUME NEW k \in Keys, NEW v \in Held(k) PROVE Restored(k, v) = v
  BY StoreAssumption, Ranges DEF StoreAssumption, Restored, Clamp

\* Whatever is found, what is made of it is within the range.
LEMMA RestoredInRange ==
  ASSUME NEW k \in Keys, NEW r \in Int \cup {Missing}, k \in Texts => r \in Nat \cup {Missing}
  PROVE  Restored(k, r) \in Held(k) /\ Restored(k, r) \in Int
<1>1. r # Missing => Clamp(k, r) \in Held(k)
  BY Ranges DEF Clamp
<1> QED BY <1>1, Ranges DEF Restored

\* So is what a caller may set.
LEMMA SettableInRange ==
  ASSUME NEW k \in Keys, NEW v \in Raw, NEW w \in Settable(k, v) PROVE w \in Held(k)
  BY SMTT(30), StoreAssumption, Ranges DEF StoreAssumption, Settable, Clamp

\* A key found missing has its default.
LEMMA RestoredMissing ==
  ASSUME NEW k \in Keys PROVE Restored(k, Missing) = Default[k]
  BY DEF Restored

\* What the call of a task consists of.
LEMMA JobFields ==
  ASSUME NEW j \in Job
  PROVE  j.pc \in Pcs /\ j.at \in 1..(Len(KeyOrder) + 1) /\ j.ok \in BOOLEAN /\ j.close \in BOOLEAN
  BY DEF Job

\* A task that is in no call.
LEMMA IdleJob == Idle \in Job /\ Idle.pc = "idle" /\ Idle.at = 1 /\ Idle.ok /\ ~Idle.close
<1>1. 1 \in 1..(Len(KeyOrder) + 1) /\ "idle" \in Pcs
  BY Order DEF Pcs
<1> QED BY <1>1 DEF Idle, Job

\* The call of a task, as it begins.
LEMMA JobBegins ==
  ASSUME NEW pc \in Pcs
  PROVE  /\ \A close \in BOOLEAN : [Idle EXCEPT !.pc = pc, !.close = close] \in Job
         /\ \A i \in 1..Len(KeyOrder) : [Idle EXCEPT !.pc = pc, !.at = i] \in Job
<1>1. 1 \in 1..(Len(KeyOrder) + 1) /\ "idle" \in Pcs
  BY Order DEF Pcs
<1>2. \A i \in 1..Len(KeyOrder) : i \in 1..(Len(KeyOrder) + 1)
  BY Order
<1> QED BY <1>1, <1>2 DEF Idle, Job

\* The same, as it goes on.
LEMMA JobMoves ==
  ASSUME NEW j \in Job
  PROVE  /\ \A pc \in Pcs : [j EXCEPT !.pc = pc] \in Job
         /\ \A ok \in BOOLEAN : [j EXCEPT !.pc = "settle", !.ok = ok] \in Job
         /\ j.at <= Len(KeyOrder) =>
              /\ [j EXCEPT !.at = @ + 1] \in Job
              /\ [j EXCEPT !.ok = FALSE, !.at = @ + 1] \in Job
              /\ [j EXCEPT !.pc = "save", !.at = @ + 1] \in Job
<1>1. "settle" \in Pcs /\ "save" \in Pcs
  BY DEF Pcs
<1>2. j.at <= Len(KeyOrder) => j.at + 1 \in 1..(Len(KeyOrder) + 1)
  BY Order DEF Job
<1> QED BY <1>1, <1>2 DEF Job

\* The clock stays a number of milliseconds.
LEMMA ClockType ==
  ASSUME NEW c \in Nat PROVE (c + Period) % Wrap \in Nat
  BY StoreAssumption DEF StoreAssumption

-----------------------------------------------------------------------------
(* The types, for any tasks.                                               *)

\* The program starts with its types.
LEMMA TypesInit == Init => Types
<1> SUFFICES ASSUME Init PROVE Types
  OBVIOUS
<1>1. staged = disk /\ disk \in [Keys -> Int \cup {Missing}] /\ IsStored(disk)
  BY StoreAssumption DEF StoreAssumption, Init
<1>2. \A k \in Keys : disk[k] \in Int \cup {Missing} /\ (k \in Texts => disk[k] \in Nat \cup {Missing})
  BY <1>1 DEF IsStored
<1>3. \A k \in Keys : Restored(k, disk[k]) \in Int
  BY <1>2, RestoredInRange
<1>4. recent \in [Keys -> SUBSET Int]
  BY <1>3 DEF Init
<1>5. job \in [Tasks -> Job] /\ Placed
  BY IdleJob DEF Init, Placed
<1>6. val \in [Keys -> Int] /\ \A k \in Keys : val[k] \in Held(k)
  BY Ranges, StoreAssumption DEF StoreAssumption, Init
<1>7. /\ backend \in Backends /\ ready \in BOOLEAN /\ opened \in BOOLEAN
      /\ dirty \in [Keys -> BOOLEAN] /\ sDirty \in BOOLEAN /\ resetFailed \in BOOLEAN
      /\ since \in Nat /\ clock \in Nat /\ sets \in Nat /\ calm \in 0..2
  <2>1. /\ backend \in Backends /\ ready = FALSE /\ opened = FALSE /\ sDirty = FALSE
        /\ resetFailed = FALSE /\ since = 0 /\ clock = 0 /\ sets = 0 /\ calm = 0
        /\ dirty = [k \in Keys |-> FALSE]
    BY Zenon DEF Init
  <2>2. dirty \in [Keys -> BOOLEAN]
    BY <2>1
  <2>3. since \in Nat /\ clock \in Nat /\ sets \in Nat /\ calm \in 0..2
    BY <2>1
  <2> QED BY <2>1, <2>2, <2>3, Zenon
<1>8. TypeOK
  BY <1>1, <1>4, <1>5, <1>6, <1>7 DEF TypeOK, Job, Pcs
<1> QED BY <1>1, <1>5, <1>8 DEF Types

\* Every step of any task keeps them.
LEMMA TypesStep == Types /\ [Next]_vars => Types'
<1> SUFFICES ASSUME Types, [Next]_vars PROVE Types'
  OBVIOUS
<1> /\ backend \in Backends /\ ready \in BOOLEAN /\ opened \in BOOLEAN
    /\ val \in [Keys -> Int] /\ \A k \in Keys : val[k] \in Held(k)
    /\ dirty \in [Keys -> BOOLEAN] /\ sDirty \in BOOLEAN
    /\ since \in Nat /\ clock \in Nat /\ sets \in Nat /\ calm \in 0..2
    /\ staged \in [Keys -> Int \cup {Missing}] /\ disk \in [Keys -> Int \cup {Missing}]
    /\ job \in [Tasks -> Job] /\ recent \in [Keys -> SUBSET Int] /\ resetFailed \in BOOLEAN
    /\ Placed /\ IsStored(disk) /\ IsStored(staged)
  BY DEF Types, TypeOK, Job, Pcs
<1> DEFINE Values(v) == v \in [Keys -> Int] /\ \A k \in Keys : v[k] \in Held(k)
           Store(d) == d \in [Keys -> Int \cup {Missing}] /\ IsStored(d)
           RamOK == /\ ready \in BOOLEAN /\ opened \in BOOLEAN /\ Values(val)
                    /\ dirty \in [Keys -> BOOLEAN] /\ sDirty \in BOOLEAN /\ since \in Nat
           DiskOK == Store(staged) /\ Store(disk)
           JobOK == job \in [Tasks -> Job] /\ Placed
           RestOK == /\ backend \in Backends /\ clock \in Nat /\ sets \in Nat /\ calm \in 0..2
                     /\ recent \in [Keys -> SUBSET Int] /\ resetFailed \in BOOLEAN
<1>0. ASSUME RamOK', DiskOK', JobOK', RestOK' PROVE Types'
  BY <1>0 DEF Types, TypeOK, Job, Pcs
<1> RamOK /\ DiskOK /\ JobOK /\ RestOK
  OBVIOUS
<1>a. ASSUME NEW t \in Tasks, NEW j \in Job, job' = [job EXCEPT ![t] = j],
             j.pc \in {"mark", "clear"} => j.at <= Len(KeyOrder)
      PROVE  JobOK'
  BY <1>a DEF Placed, More
<1>b. \A t \in Tasks : /\ job[t] \in Job /\ job[t].pc \in Pcs /\ job[t].ok \in BOOLEAN
                       /\ More(t) => Key(t) \in Keys
                       /\ job[t].pc \in {"mark", "clear"} => More(t)
  BY JobFields, Order DEF Placed, More, Key
<1>c. /\ UNCHANGED <<ready, opened, ram>> => RamOK'
      /\ UNCHANGED <<staged, disk>> => DiskOK'
      /\ UNCHANGED job => JobOK'
      /\ UNCHANGED <<backend, clock, history>> => RestOK'
  BY DEF ram, history, Placed, More
<1> HIDE DEF JobOK
<1>e. \A k \in Keys : \A v \in Held(k) : v \in Int
  BY Ranges
<1>d. Store([k \in Keys |-> Missing])
  BY StoreAssumption DEF StoreAssumption, IsStored
<1>1. ASSUME NEW ok \in BOOLEAN, Boot(ok) PROVE Types'
  <2>1. \A k \in Keys : Restored(k, disk[k]) \in Held(k)
    BY RestoredInRange DEF IsStored
  <2>2. Values(val')
    BY <1>1, <2>1, Ranges DEF Boot
  <2>4. RamOK'
    BY <1>1, <2>2 DEF Boot
  <2>3. recent' \in [Keys -> SUBSET Int]
    BY <1>1, <1>e, <2>1, <2>2 DEF Boot
  <2> QED BY <1>0, <1>1, <1>c, <2>4, <2>3 DEF Boot
<1>2. ASSUME NEW t \in Tasks, NEW k \in Keys, NEW v \in Raw, SetValue(t, k, v) PROVE Types'
  <2>1. PICK w \in Settable(k, v) :
          val' = [val EXCEPT ![k] = w] /\ recent' = [recent EXCEPT ![k] = @ \cup {w}]
    BY <1>2 DEF SetValue
  <2>2. w \in Held(k)
    BY SettableInRange
  <2>3. RamOK'
    BY <1>2, <1>e, <2>1, <2>2 DEF SetValue
  <2>4. recent' \in [Keys -> SUBSET Int]
    BY <1>e, <2>1, <2>2
  <2> DEFINE i == CHOOSE i \in DOMAIN KeyOrder : KeyOrder[i] = k
  <2>5. i \in 1..Len(KeyOrder)
    BY Order
  <2>6. job' = [job EXCEPT ![t] = [Idle EXCEPT !.pc = "mark", !.at = i]]
    BY <1>2 DEF SetValue
  <2> HIDE DEF i
  <2>7. "mark" \in Pcs
    BY DEF Pcs
  <2> DEFINE j == [Idle EXCEPT !.pc = "mark", !.at = i]
  <2>8. j \in Job /\ j.at <= Len(KeyOrder)
    <3>1. j \in Job
      BY <2>5, <2>7, JobBegins
    <3>2. j.at = i
      BY DEF Idle
    <3> QED BY <2>5, <3>1, <3>2, Order
  <2>9. JobOK'
    <3> HIDE DEF j
    <3>1. job' = [job EXCEPT ![t] = j]
      BY <2>6 DEF j
    <3> QED BY <1>a, <2>8, <3>1
  <2> QED BY <1>0, <1>2, <1>c, <2>3, <2>4, <2>9 DEF SetValue
<1>3. ASSUME NEW t \in Tasks, NEW pc \in Pcs \ {"mark", "clear"}, Goto(t, pc) PROVE JobOK'
  <2> DEFINE j == [job[t] EXCEPT !.pc = pc]
  <2>1. j \in Job /\ j.pc = pc
    BY ZenonT(40), <1>b, JobMoves DEF Job
  <2>2. job' = [job EXCEPT ![t] = j]
    BY <1>3 DEF Goto
  <2> HIDE DEF j
  <2> QED BY <1>a, <2>1, <2>2
<1>4. ASSUME NEW t \in Tasks, Return(t) PROVE JobOK'
  BY <1>4, <1>a, IdleJob DEF Return
<1>5. ASSUME NEW t \in Tasks, NEW pc \in Pcs \ {"mark", "clear"}, NEW close \in BOOLEAN,
             Begin(t, pc, close)
      PROVE  JobOK'
  BY <1>5, <1>a, JobBegins DEF Begin, Idle
<1>6. {"raise", "save", "settle", "default", "erase", "wipe"} \subseteq Pcs \ {"mark", "clear"}
  BY DEF Pcs
<1>7. ASSUME NEW t \in Tasks, Tick(t) PROVE Types'
  <2>1. clock' \in Nat /\ calm' \in 0..2
    BY <1>7, ClockType DEF Tick
  <2>2. since' \in {since, 0, 1, clock'}
    BY <1>7 DEF Tick
  <2>3. UNCHANGED job \/ Begin(t, "save", FALSE)
    BY <1>7 DEF Tick
  <2>4. JobOK'
    BY <1>5, <1>6, <1>c, <2>3
  <2>5. since' \in Nat
    BY <2>1, <2>2
  <2> QED BY <1>0, <1>7, <2>1, <2>4, <2>5 DEF Tick
<1>8. ASSUME NEW t \in Tasks, NEW close \in BOOLEAN, Commit(t, close) PROVE Types'
  <2>1. JobOK'
    BY <1>5, <1>6, <1>8 DEF Commit
  <2> QED BY <1>0, <1>8, <1>c, <2>1 DEF Commit
<1>9. ASSUME NEW t \in Tasks, FactoryReset(t) PROVE Types'
  <2>1. JobOK'
    BY <1>5, <1>6, <1>9 DEF FactoryReset
  <2>2. RestOK'
    BY <1>9 DEF FactoryReset
  <2> QED BY <1>0, <1>9, <1>c, <2>1, <2>2 DEF FactoryReset
<1>10. CASE Crash
  <2>1. JobOK'
    <3>1. job' \in [Tasks -> Job]
      BY <1>10, IdleJob DEF Crash
    <3>2. \A t \in Tasks : job'[t].pc = "idle"
      BY <1>10 DEF Crash, Idle
    <3> QED BY <3>1, <3>2 DEF JobOK, Placed
  <2>2. Store(disk')
    <3>1. PICK kept \in SUBSET Keys :
            disk' = [k \in Keys |-> IF k \in kept THEN staged[k] ELSE disk[k]]
      BY <1>10 DEF Crash
    <3> QED BY <3>1, StoreAssumption DEF StoreAssumption, IsStored
  <2> QED BY <1>0, <1>10, <1>c, <2>1, <2>2 DEF Crash
<1>11. ASSUME NEW t \in Tasks, Work(t) PROVE Types'
  <2>1. CASE MarkSlot(t)
    <3>1. dirty' \in [Keys -> BOOLEAN] /\ JobOK'
      BY <1>3, <1>6, <2>1 DEF MarkSlot
    <3> QED BY <1>0, <1>c, <2>1, <3>1 DEF MarkSlot
  <2>2. CASE MarkStore(t)
    BY <1>0, <1>4, <1>c, <2>2 DEF MarkStore
  <2>3. CASE SkipClean(t)
    <3>1. JobOK'
      <4>1. [job[t] EXCEPT !.at = @ + 1] \in Job /\ [job[t] EXCEPT !.at = @ + 1].pc = "save"
        BY <1>b, <2>3, JobMoves DEF SkipClean, More, At, Job
      <4> QED BY <1>a, <2>3, <4>1 DEF SkipClean
    <3> QED BY <1>0, <1>c, <2>3, <3>1 DEF SkipClean
  <2>4. CASE ClearSlot(t)
    <3>1. JobOK'
      <4>1. /\ [job[t] EXCEPT !.pc = "save", !.at = @ + 1] \in Job
            /\ [job[t] EXCEPT !.pc = "save", !.at = @ + 1].pc = "save"
        BY <1>b, <2>4, JobMoves DEF ClearSlot, More, At, Job
      <4> QED BY <1>a, <2>4, <4>1 DEF ClearSlot
    <3>2. dirty' \in [Keys -> BOOLEAN]
      BY <2>4 DEF ClearSlot
    <3> QED BY <1>0, <1>c, <2>4, <3>1, <3>2 DEF ClearSlot
  <2>5. CASE Settle(t)
    <3>1. JobOK'
      BY <1>4, <2>5 DEF Settle
    <3>2. ready' \in BOOLEAN /\ opened' \in BOOLEAN /\ sDirty' \in BOOLEAN
          /\ dirty' \in [Keys -> BOOLEAN]
      BY <2>5 DEF Settle, StaysDirty
    <3>3. recent' \in [Keys -> SUBSET Int]
      BY <2>5 DEF Settle
    <3> QED BY <1>0, <1>c, <2>5, <3>1, <3>2, <3>3 DEF Settle
  <2>6. CASE ApplyDefault(t)
    <3>1. Key(t) \in Keys /\ Default[Key(t)] \in Held(Key(t)) /\ Default[Key(t)] \in Int
      BY <1>b, <2>6, Ranges DEF ApplyDefault
    <3>2. RamOK'
      <4>1. Values(val')
        BY <2>6, <3>1 DEF ApplyDefault
      <4> QED BY <2>6, <3>1, <4>1 DEF ApplyDefault
    <3>3. recent' \in [Keys -> SUBSET Int]
      BY <2>6, <3>1 DEF ApplyDefault
    <3>4. JobOK'
      <4>1. [job[t] EXCEPT !.at = @ + 1] \in Job /\ [job[t] EXCEPT !.at = @ + 1].pc = "default"
        BY <1>b, <2>6, JobMoves DEF ApplyDefault, More, At, Job
      <4> QED BY <1>a, <2>6, <4>1 DEF ApplyDefault
    <3> QED BY <1>0, <1>c, <2>6, <3>2, <3>3, <3>4 DEF ApplyDefault
  <2>7. CASE LowerStore(t)
    <3>1. JobOK'
      BY <1>3, <1>6, <2>7 DEF LowerStore
    <3> QED BY <1>0, <1>c, <2>7, <3>1 DEF LowerStore
  <2>8. ASSUME NEW ok \in BOOLEAN, Save(t, ok) PROVE Types'
    <3>1. Key(t) \in Keys /\ More(t)
      BY <1>b, <2>8 DEF Save
    <3>2. Store(staged')
      <4>1. val[Key(t)] \in Int /\ (Key(t) \in Texts => val[Key(t)] \in Nat)
        BY <3>1, Ranges, StoreAssumption DEF StoreAssumption
      <4>2. staged' \in {staged, [staged EXCEPT ![Key(t)] = val[Key(t)]]}
        BY <2>8 DEF Save
      <4> QED BY <3>1, <4>1, <4>2, StoreAssumption DEF StoreAssumption, IsStored
    <3>3. JobOK'
      <4>1. CASE ok
        <5> DEFINE j == [job[t] EXCEPT !.pc = "clear"]
        <5>1. j \in Job /\ j.at = job[t].at
          <6>1. "clear" \in Pcs
            BY DEF Pcs
          <6>2. j \in Job
            BY <1>b, <6>1, JobMoves
          <6> QED BY <1>b, <6>2 DEF Job
        <5>2. job' = [job EXCEPT ![t] = j]
          BY <2>8, <4>1 DEF Save, Goto
        <5> HIDE DEF j
        <5> QED BY <1>a, <3>1, <5>1, <5>2 DEF More
      <4>2. CASE ~ok
        <5>1. /\ [job[t] EXCEPT !.ok = FALSE, !.at = @ + 1] \in Job
              /\ [job[t] EXCEPT !.ok = FALSE, !.at = @ + 1].pc = "save"
          BY <1>b, <2>8, <3>1, JobMoves DEF Save, More, At, Job
        <5>2. job' = [job EXCEPT ![t] = [job[t] EXCEPT !.ok = FALSE, !.at = @ + 1]]
          BY <2>8, <4>2 DEF Save
        <5> QED BY <1>a, <5>1, <5>2
      <4> QED BY <4>1, <4>2
    <3> QED BY <1>0, <1>c, <2>8, <3>2, <3>3 DEF Save
  <2>9. ASSUME NEW ok \in BOOLEAN, Flush(t, ok) PROVE Types'
    <3>1. JobOK'
      <4> DEFINE b == job[t].ok /\ ok
                 j == [job[t] EXCEPT !.pc = "settle", !.ok = b]
      <4>1. job' = [job EXCEPT ![t] = j]
        BY <2>9 DEF Flush
      <4>2. j \in Job /\ j.pc = "settle"
        BY ZenonT(40), <1>b, JobMoves DEF Job
      <4> HIDE DEF j
      <4> QED BY <1>a, <4>1, <4>2
    <3> QED BY <1>0, <1>c, <2>9, <3>1 DEF Flush
  <2>10. ASSUME NEW ok \in BOOLEAN, Erase(t, ok) PROVE Types'
    <3>1. JobOK'
      BY <1>3, <1>4, <1>6, <2>10 DEF Erase
    <3>2. PICK erased \in BOOLEAN, gone \in BOOLEAN :
            /\ staged' = IF erased THEN [k \in Keys |-> Missing] ELSE staged
            /\ disk' = IF gone THEN [k \in Keys |-> Missing] ELSE disk
            /\ recent' = IF gone THEN [k \in Keys |-> {val[k]}] ELSE recent
      BY <2>10 DEF Erase
    <3>3. DiskOK' /\ recent' \in [Keys -> SUBSET Int]
      BY <1>d, <3>2
    <3> QED BY <1>0, <1>c, <2>10, <3>1, <3>3 DEF Erase
  <2>11. ASSUME NEW ok \in BOOLEAN, Wipe(t, ok) PROVE Types'
    <3>1. JobOK'
      BY <1>4, <2>11 DEF Wipe
    <3>2. recent' \in [Keys -> SUBSET Int]
      BY <2>11 DEF Wipe
    <3> QED BY <1>0, <1>c, <2>11, <3>1, <3>2 DEF Wipe
  <2> QED
    BY <1>11, <2>1, <2>2, <2>3, <2>4, <2>5, <2>6, <2>7, <2>8, <2>9, <2>10, <2>11 DEF Work
<1>12. CASE UNCHANGED vars
  BY <1>0, <1>12, <1>c DEF vars
<1> QED BY <1>1, <1>2, <1>7, <1>8, <1>9, <1>10, <1>11, <1>12 DEF Next

-----------------------------------------------------------------------------
(* One task that does everything: the inductive invariant.                 *)

\* The settings that a pass over the order has left behind.
Done(t, k) == \E i \in DOMAIN KeyOrder : i < job[t].at /\ KeyOrder[i] = k

\* The settings changed by a call that has still to mark them, or to erase.
Unmarked(t, k) ==
  \/ At(t, "mark") /\ k = Key(t)
  \/ At(t, "default") /\ Done(t, k)
  \/ At(t, "erase")

\* A dirty slot is noticed, but for the moment before the store is marked.
Noticed(t) ==
  /\ \A k \in Keys : dirty[k] => sDirty \/ At(t, "raise")
  /\ job[t].pc \in {"save", "clear"} => sDirty
  /\ job[t].pc # "idle" => ready

\* What the call has done so far.
Passed(t) ==
  /\ job[t].pc \in {"save", "clear"} /\ job[t].ok => \A k \in Keys : Done(t, k) => ~dirty[k]
  /\ At(t, "default") => \A k \in Keys : Done(t, k) => ~dirty[k] /\ val[k] = Default[k]
  /\ At(t, "clear") => staged[Key(t)] = val[Key(t)]
  /\ At(t, "settle") /\ job[t].ok /\ sDirty =>
       disk = staged /\ opened /\ \A k \in Keys : ~dirty[k]
  /\ job[t].pc \in {"erase", "wipe"} =>
       ~sDirty /\ \A k \in Keys : ~dirty[k] /\ val[k] = Default[k]
  /\ At(t, "wipe") => \A k \in Keys : staged[k] = Missing

\* The backend has been given every slot that is clean.
Given(t) ==
  ready /\ opened /\ ~resetFailed =>
    \A k \in Keys : Restored(k, staged[k]) = val[k] \/ dirty[k] \/ Unmarked(t, k)

\* A store that is clean, between calls or about to close, is saved.
Saved(t) ==
  ready /\ opened /\ ~sDirty /\ ~resetFailed /\ job[t].pc \in {"idle", "settle"} =>
    \A k \in Keys : Restored(k, disk[k]) = val[k]

\* Nothing is held anywhere that was not in use since the last commit.
Recent ==
  ~resetFailed => \A k \in Keys : /\ Restored(k, disk[k]) \in recent[k]
                                  /\ Restored(k, staged[k]) \in recent[k]
                                  /\ ready => val[k] \in recent[k]

Alone(t) == Types /\ Noticed(t) /\ Passed(t) /\ Given(t) /\ Saved(t) /\ Recent

\* A pass that moves on leaves one more setting behind.
LEMMA DoneNext ==
  ASSUME NEW t, NEW k \in Keys, job[t] \in Job
  PROVE  /\ job'[t].at = job[t].at => (Done(t, k)' <=> Done(t, k))
         /\ job'[t].at = job[t].at + 1 => (Done(t, k)' => Done(t, k) \/ k = Key(t))
         /\ job'[t].at = 1 => ~Done(t, k)'
         /\ ~More(t) => Done(t, k)
<1> job[t].at \in Int /\ DOMAIN KeyOrder = 1..Len(KeyOrder) /\ Len(KeyOrder) \in Nat
  BY Order DEF Job
<1>1. ~More(t) => Done(t, k)
  BY Order DEF More, Done
<1>2. job'[t].at = 1 => ~Done(t, k)'
  BY DEF Done
<1>3. ASSUME job'[t].at = job[t].at + 1, Done(t, k)' PROVE Done(t, k) \/ k = Key(t)
  <2>1. PICK i \in 1..Len(KeyOrder) : i < job[t].at + 1 /\ KeyOrder[i] = k
    BY <1>3 DEF Done
  <2>2. i = job[t].at \/ i < job[t].at
    BY <2>1
  <2> QED BY <2>1, <2>2 DEF Done, Key
<1> QED BY <1>1, <1>2, <1>3 DEF Done

\* Every step of the one task keeps the invariant.
LEMMA AloneStep ==
  ASSUME NEW me, Tasks = {me}, Alone(me), [Next]_vars PROVE Alone(me)'
<1> DEFINE j == job[me]
<1> /\ Types' /\ Noticed(me) /\ Passed(me) /\ Given(me) /\ Saved(me) /\ Recent
    /\ val \in [Keys -> Int] /\ \A k \in Keys : val[k] \in Held(k)
    /\ dirty \in [Keys -> BOOLEAN] /\ sDirty \in BOOLEAN /\ ready \in BOOLEAN /\ opened \in BOOLEAN
    /\ staged \in [Keys -> Int \cup {Missing}] /\ disk \in [Keys -> Int \cup {Missing}]
    /\ recent \in [Keys -> SUBSET Int] /\ resetFailed \in BOOLEAN
    /\ job \in [Tasks -> Job] /\ job[me] \in Job /\ me \in Tasks
    /\ j.pc \in {"mark", "clear"} => More(me)
    /\ More(me) => Key(me) \in Keys
  <2>1. Types /\ Types'
    BY TypesStep DEF Alone
  <2>2. job \in [Tasks -> Job] /\ job[me] \in Job
    BY <2>1 DEF Types, TypeOK, Job, Pcs
  <2>3. More(me) => Key(me) \in Keys
    BY <2>2, Order DEF More, Key, Job
  <2> QED BY <2>1, <2>2, <2>3 DEF Alone, Types, TypeOK, Placed
<1>0. ASSUME Noticed(me)', Passed(me)', Given(me)', Saved(me)', Recent' PROVE Alone(me)'
  BY <1>0 DEF Alone
<1> HIDE DEF j
<1>a. ASSUME NEW pc \in Pcs, Goto(me, pc)
      PROVE  job'[me].pc = pc /\ job'[me].at = job[me].at /\ job'[me].ok = job[me].ok
             /\ job'[me].close = job[me].close
  BY <1>a DEF Goto, Job
<1>b. ASSUME Return(me) PROVE job'[me].pc = "idle" /\ job'[me].at = 1
  BY <1>b, IdleJob DEF Return
<1>c. ASSUME NEW pc \in Pcs, NEW close, Begin(me, pc, close)
      PROVE  job'[me].pc = pc /\ job'[me].at = 1 /\ job'[me].ok
  BY <1>c DEF Begin, Idle
<1>d. ASSUME UNCHANGED <<ready, opened, ram, staged, disk, recent, resetFailed>>, job'[me] = job[me]
      PROVE  Alone(me)'
  <2>1. \A k \in Keys : Done(me, k)' <=> Done(me, k)
    BY <1>d DEF Done
  <2>2. /\ ready' = ready /\ opened' = opened /\ val' = val /\ dirty' = dirty /\ sDirty' = sDirty
        /\ staged' = staged /\ disk' = disk /\ recent' = recent /\ resetFailed' = resetFailed
    BY <1>d DEF ram
  <2>3. Noticed(me)' /\ Saved(me)' /\ Recent'
    BY <1>d, <2>2 DEF Noticed, Saved, Recent, At
  <2>4. Passed(me)'
    BY <1>d, <2>1, <2>2 DEF Passed, At, Key
  <2>5. Given(me)'
    BY <1>d, <2>1, <2>2 DEF Given, Unmarked, At, Key
  <2> QED BY <1>0, <2>3, <2>4, <2>5
<1>1. ASSUME NEW ok \in BOOLEAN, Boot(ok) PROVE Alone(me)'
  <2>1. /\ job[me].pc = "idle" /\ job'[me] = job[me]
        /\ ready' /\ opened' = ok /\ ~sDirty' /\ ~resetFailed' /\ staged' = disk /\ disk' = disk
        /\ \A k \in Keys : ~dirty'[k]
        /\ \A k \in Keys : val'[k] = IF ok THEN Restored(k, disk[k]) ELSE Default[k]
        /\ \A k \in Keys : recent'[k] = {Restored(k, disk[k]), val'[k]}
    BY <1>1 DEF Boot, Noticed
  <2>2. Noticed(me)' /\ Passed(me)'
    BY <2>1 DEF Noticed, Passed, At
  <2>3. Given(me)' /\ Saved(me)' /\ Recent'
    BY <2>1 DEF Given, Saved, Recent
  <2> QED BY <1>0, <2>2, <2>3
<1>2. ASSUME NEW k \in Keys, NEW v \in Raw, SetValue(me, k, v) PROVE Alone(me)'
  <2>1. PICK w \in Settable(k, v) :
          val' = [val EXCEPT ![k] = w] /\ recent' = [recent EXCEPT ![k] = @ \cup {w}]
    BY <1>2 DEF SetValue
  <2> DEFINE i == CHOOSE i \in DOMAIN KeyOrder : KeyOrder[i] = k
  <2>2. KeyOrder[i] = k
    BY Order
  <2>3. /\ job[me].pc = "idle" /\ ready
        /\ UNCHANGED <<ready, opened, dirty, sDirty, staged, disk, resetFailed>>
        /\ job' = [job EXCEPT ![me] = [Idle EXCEPT !.pc = "mark", !.at = i]]
    BY <1>2 DEF SetValue, Free, At
  <2>4. job'[me].pc = "mark" /\ Key(me)' = k
    BY <2>2, <2>3 DEF Idle, Key
  <2>5. Noticed(me)' /\ Passed(me)' /\ Saved(me)'
    BY <2>3, <2>4 DEF Noticed, Passed, Saved, At
  <2>6. Recent'
    BY <2>1, <2>3 DEF Recent
  <2>7. Given(me)'
    BY <2>1, <2>3, <2>4 DEF Given, Unmarked, At
  <2> QED BY <1>0, <2>5, <2>6, <2>7
<1>3. ASSUME Tick(me) PROVE Alone(me)'
  <2>1. UNCHANGED <<ready, opened, val, dirty, sDirty, staged, disk, recent, resetFailed>>
    BY <1>3 DEF Tick
  <2>2. CASE job' = job
    <3>1. job'[me] = job[me]
      BY <2>2
    <3>2. \A k \in Keys : Done(me, k)' <=> Done(me, k)
      BY <3>1 DEF Done
    <3>3. Noticed(me)' /\ Saved(me)' /\ Recent'
      BY <2>1, <3>1 DEF Noticed, Saved, Recent, At
    <3>4. Passed(me)' /\ Given(me)'
      BY <2>1, <3>1, <3>2 DEF Passed, Given, Unmarked, At, Key
    <3> QED BY <1>0, <3>3, <3>4
  <2>3. CASE sDirty /\ Begin(me, "save", FALSE)
    <3>1. /\ job[me].pc = "idle" /\ job'[me].pc = "save" /\ ready
          /\ \A k \in Keys : ~Done(me, k)'
      BY <1>3, <1>c, <2>3, DoneNext DEF Tick, Free, At, Pcs
    <3>2. Noticed(me)' /\ Passed(me)' /\ Given(me)' /\ Saved(me)' /\ Recent'
      BY <2>1, <2>3, <3>1 DEF Noticed, Passed, Given, Unmarked, Saved, Recent, At
    <3> QED BY <1>0, <3>2
  <2> QED BY <1>3, <2>2, <2>3 DEF Tick
<1>4. ASSUME NEW close \in BOOLEAN, Commit(me, close) PROVE Alone(me)'
  <2>1. /\ UNCHANGED <<ready, opened, val, dirty, sDirty, staged, disk, recent, resetFailed>>
        /\ job[me].pc = "idle" /\ ready
    BY <1>4 DEF Commit, ram, history, Free, At
  <2>2. /\ job'[me].pc = IF sDirty THEN "save" ELSE "settle"
        /\ \A k \in Keys : ~Done(me, k)'
    BY <1>4, <1>c, DoneNext DEF Commit, Pcs
  <2>3. Noticed(me)' /\ Passed(me)'
    BY <2>1, <2>2 DEF Noticed, Passed, At
  <2>4. Given(me)' /\ Saved(me)' /\ Recent'
    BY <2>1, <2>2 DEF Given, Unmarked, Saved, Recent, At
  <2> QED BY <1>0, <2>3, <2>4
<1>5. ASSUME FactoryReset(me) PROVE Alone(me)'
  <2>1. /\ UNCHANGED <<ready, opened, val, dirty, sDirty, staged, disk, recent, resetFailed>>
        /\ job[me].pc = "idle" /\ ready
    BY <1>5 DEF FactoryReset, ram, Free, At
  <2>2. job'[me].pc = "default" /\ \A k \in Keys : ~Done(me, k)'
    BY <1>5, <1>c, DoneNext DEF FactoryReset, Pcs
  <2>3. Noticed(me)' /\ Passed(me)'
    BY <2>1, <2>2 DEF Noticed, Passed, At
  <2>4. Given(me)' /\ Saved(me)' /\ Recent'
    BY <2>1, <2>2 DEF Given, Unmarked, Saved, Recent, At
  <2> QED BY <1>0, <2>3, <2>4
<1>6. CASE MarkSlot(me)
  <2>1. /\ UNCHANGED <<ready, opened, val, sDirty, staged, disk, recent, resetFailed>>
        /\ job[me].pc = "mark" /\ job'[me].pc = "raise"
        /\ dirty' = [dirty EXCEPT ![Key(me)] = TRUE]
    BY <1>6, <1>a DEF MarkSlot, history, At, Pcs
  <2>2. Noticed(me)' /\ Passed(me)' /\ Saved(me)' /\ Recent'
    BY <2>1 DEF Noticed, Passed, Saved, Recent, At
  <2>3. Given(me)'
    BY <2>1 DEF Given, Unmarked, At
  <2> QED BY <1>0, <2>2, <2>3
<1>7. CASE MarkStore(me)
  <2>1. /\ UNCHANGED <<ready, opened, val, dirty, staged, disk, recent, resetFailed>>
        /\ sDirty' /\ job[me].pc = "raise" /\ job'[me].pc = "idle"
    BY <1>7, <1>b DEF MarkStore, At
  <2>2. Noticed(me)' /\ Passed(me)' /\ Saved(me)' /\ Recent'
    BY <2>1 DEF Noticed, Passed, Saved, Recent, At
  <2>3. Given(me)'
    BY <2>1 DEF Given, Unmarked, At
  <2> QED BY <1>0, <2>2, <2>3
<1>8. CASE SkipClean(me)
  <2>1. /\ UNCHANGED <<ready, opened, val, dirty, sDirty, staged, disk, recent, resetFailed>>
        /\ job[me].pc = "save" /\ More(me) /\ ~dirty[Key(me)]
        /\ job'[me].pc = "save" /\ job'[me].at = job[me].at + 1 /\ job'[me].ok = job[me].ok
    BY <1>8 DEF SkipClean, ram, history, At, Job
  <2>2. \A k \in Keys : Done(me, k)' => Done(me, k) \/ k = Key(me)
    BY <2>1, DoneNext
  <2>3. Noticed(me)' /\ Saved(me)' /\ Recent' /\ Given(me)'
    BY <2>1 DEF Noticed, Saved, Recent, Given, Unmarked, At
  <2>4. Passed(me)'
    BY <2>1, <2>2 DEF Passed, At
  <2> QED BY <1>0, <2>3, <2>4
<1>9. CASE ClearSlot(me)
  <2>1. /\ UNCHANGED <<ready, opened, val, sDirty, staged, disk, recent, resetFailed>>
        /\ job[me].pc = "clear" /\ More(me) /\ Key(me) \in Keys
        /\ dirty' = [dirty EXCEPT ![Key(me)] = FALSE]
        /\ job'[me].pc = "save" /\ job'[me].at = job[me].at + 1 /\ job'[me].ok = job[me].ok
    BY <1>9 DEF ClearSlot, history, At, Job, j
  <2>2. \A k \in Keys : Done(me, k)' => Done(me, k) \/ k = Key(me)
    BY <2>1, DoneNext
  <2>3. Noticed(me)' /\ Saved(me)' /\ Recent'
    BY <2>1 DEF Noticed, Saved, Recent, At
  <2>4. Passed(me)'
    BY <2>1, <2>2 DEF Passed, At
  <2>5. Restored(Key(me), staged[Key(me)]) = val[Key(me)]
    BY <2>1, RestoredSame DEF Passed, At
  <2>6. Given(me)'
    BY <2>1, <2>5 DEF Given, Unmarked, At
  <2> QED BY <1>0, <2>3, <2>4, <2>6
<1>10. CASE Settle(me)
  <2>1. /\ UNCHANGED <<val, staged, disk, resetFailed>>
        /\ job[me].pc = "settle" /\ job'[me].pc = "idle"
        /\ sDirty' = (sDirty /\ ~job[me].ok /\ ~job[me].close)
        /\ ready' = ~job[me].close /\ opened' = (opened /\ ~job[me].close)
        /\ \A k \in Keys : dirty'[k] = (dirty[k] /\ ~job[me].close)
        /\ \A k \in Keys : recent'[k] = IF job[me].ok /\ sDirty THEN {val[k]} ELSE recent[k]
    BY <1>10, <1>b DEF Settle, StaysDirty, At
  <2>2. ready
    BY <2>1 DEF Noticed
  <2>3. ASSUME job[me].ok, sDirty, ~resetFailed, NEW k \in Keys
        PROVE  Restored(k, staged[k]) = val[k] /\ Restored(k, disk[k]) = val[k]
    BY <2>1, <2>2, <2>3 DEF Passed, Given, Unmarked, At
  <2>4. Noticed(me)' /\ Passed(me)'
    BY <2>1 DEF Noticed, Passed, At
  <2>5. Given(me)'
    BY <2>1, <2>2 DEF Given, Unmarked, At
  <2>6. Saved(me)'
    BY <2>1, <2>2, <2>3 DEF Saved
  <2>7. Recent'
    BY <2>1, <2>2, <2>3 DEF Recent
  <2> QED BY <1>0, <2>4, <2>5, <2>6, <2>7
<1>11. CASE ApplyDefault(me)
  <2>1. /\ UNCHANGED <<ready, opened, sDirty, staged, disk, resetFailed>>
        /\ job[me].pc = "default" /\ More(me) /\ Key(me) \in Keys
        /\ val' = [val EXCEPT ![Key(me)] = Default[Key(me)]]
        /\ dirty' = [dirty EXCEPT ![Key(me)] = FALSE]
        /\ recent' = [recent EXCEPT ![Key(me)] = @ \cup {Default[Key(me)]}]
        /\ job'[me].pc = "default" /\ job'[me].at = job[me].at + 1
    BY <1>11 DEF ApplyDefault, At, Job
  <2>2. \A k \in Keys : /\ Done(me, k)' => Done(me, k) \/ k = Key(me)
                        /\ Done(me, k) => Done(me, k)'
                        /\ k = Key(me) => Done(me, k)'
    <3>1. job[me].at \in Int /\ job[me].at \in 1..Len(KeyOrder)
      BY <2>1, Order DEF Job, More
    <3> QED BY <2>1, <3>1, DoneNext, Order DEF Done, Key
  <2>3. Noticed(me)' /\ Saved(me)' /\ Recent'
    BY <2>1 DEF Noticed, Saved, Recent, At
  <2>4. Passed(me)'
    BY <2>1, <2>2 DEF Passed, At
  <2>5. Given(me)'
    BY <2>1, <2>2 DEF Given, Unmarked, At
  <2> QED BY <1>0, <2>3, <2>4, <2>5
<1>12. CASE LowerStore(me)
  <2>1. /\ UNCHANGED <<ready, opened, val, dirty, staged, disk, recent, resetFailed>>
        /\ ~sDirty' /\ job[me].pc = "default" /\ job'[me].pc = "erase" /\ ready
        /\ \A k \in Keys : ~dirty[k] /\ val[k] = Default[k]
    BY <1>12, <1>a, DoneNext DEF LowerStore, history, At, Pcs, Passed, Noticed
  <2>2. Noticed(me)' /\ Saved(me)' /\ Recent'
    BY <2>1 DEF Noticed, Saved, Recent, At
  <2>3. Passed(me)' /\ Given(me)'
    BY <2>1 DEF Passed, Given, Unmarked, At
  <2> QED BY <1>0, <2>2, <2>3
<1>13. ASSUME NEW ok \in BOOLEAN, Save(me, ok) PROVE Alone(me)'
  <2>1. /\ UNCHANGED <<ready, opened, val, dirty, sDirty, disk, recent, resetFailed>>
        /\ job[me].pc = "save" /\ More(me) /\ Key(me) \in Keys /\ ready /\ sDirty
        /\ \A k \in Keys : dirty[k] \/ ~Unmarked(me, k)
    BY <1>13 DEF Save, ram, history, At, Noticed, Unmarked
  <2>2. CASE ok
    <3>1. /\ staged' = [staged EXCEPT ![Key(me)] = val[Key(me)]] /\ dirty[Key(me)]
          /\ job'[me].pc = "clear" /\ job'[me].at = job[me].at /\ job'[me].ok = job[me].ok
          /\ Key(me)' = Key(me)
      BY <1>13, <1>a, <2>2 DEF Save, Pcs, Key
    <3>2. \A k \in Keys : Done(me, k)' <=> Done(me, k)
      BY <3>1, DoneNext
    <3>3. Restored(Key(me), val[Key(me)]) = val[Key(me)]
      BY <2>1, RestoredSame
    <3>4. Noticed(me)' /\ Saved(me)'
      BY <2>1, <3>1 DEF Noticed, Saved, At
    <3>5. Passed(me)'
      BY <2>1, <3>1, <3>2 DEF Passed, At
    <3>6. Given(me)'
      BY <2>1, <3>1 DEF Given, Unmarked, At
    <3>7. Recent'
      BY <2>1, <3>1, <3>3 DEF Recent
    <3> QED BY <1>0, <3>4, <3>5, <3>6, <3>7
  <2>3. CASE ~ok
    <3>1. /\ staged' = staged /\ job'[me].pc = "save" /\ ~job'[me].ok
      BY <1>13, <2>1, <2>3 DEF Save, Job
    <3>2. Noticed(me)' /\ Saved(me)' /\ Recent' /\ Passed(me)' /\ Given(me)'
      BY <2>1, <3>1 DEF Noticed, Saved, Recent, Passed, Given, Unmarked, At
    <3> QED BY <1>0, <3>2
  <2> QED BY <2>2, <2>3
<1>14. ASSUME NEW ok \in BOOLEAN, Flush(me, ok) PROVE Alone(me)'
  <2>1. /\ UNCHANGED <<ready, opened, val, dirty, sDirty, staged, recent, resetFailed>>
        /\ job[me].pc = "save" /\ ~More(me) /\ ready /\ sDirty
        /\ disk' = IF ok THEN staged ELSE disk
        /\ ok => opened
        /\ job'[me].pc = "settle" /\ job'[me].ok = (job[me].ok /\ ok)
    BY <1>14 DEF Flush, ram, history, At, Noticed, Job
  <2>2. job[me].ok => \A k \in Keys : ~dirty[k]
    BY <2>1, DoneNext DEF Passed
  <2>3. Noticed(me)' /\ Saved(me)' /\ Recent'
    BY <2>1 DEF Noticed, Saved, Recent, At
  <2>4. Passed(me)'
    BY <2>1, <2>2 DEF Passed, At
  <2>5. Given(me)'
    BY <2>1 DEF Given, Unmarked, At
  <2> QED BY <1>0, <2>3, <2>4, <2>5
<1>15. ASSUME NEW ok \in BOOLEAN, Erase(me, ok) PROVE Alone(me)'
  <2>1. /\ UNCHANGED <<ready, opened, val, dirty, sDirty>>
        /\ job[me].pc = "erase" /\ ready /\ ~sDirty
        /\ \A k \in Keys : ~dirty[k] /\ val[k] = Default[k] /\ Restored(k, Missing) = val[k]
        /\ resetFailed' = (resetFailed \/ ~ok)
        /\ job'[me].pc = IF ok THEN "wipe" ELSE "idle"
    BY <1>15, <1>a, <1>b, RestoredMissing DEF Erase, ram, At, Noticed, Passed, Pcs
  <2>2. PICK erased \in BOOLEAN, gone \in BOOLEAN :
          /\ ok => erased
          /\ staged' = IF erased THEN [k \in Keys |-> Missing] ELSE staged
          /\ disk' = IF gone THEN [k \in Keys |-> Missing] ELSE disk
          /\ recent' = IF gone THEN [k \in Keys |-> {val[k]}] ELSE recent
    BY <1>15 DEF Erase
  <2>3. ok => \A k \in Keys : staged'[k] = Missing
    BY <2>2
  <2>4. Noticed(me)' /\ Saved(me)'
    BY <2>1 DEF Noticed, Saved, At
  <2>5. Passed(me)'
    BY <2>1, <2>3 DEF Passed, At
  <2>6. Given(me)'
    BY <2>1, <2>3 DEF Given
  <2>7. Recent'
    <3>1. ASSUME NEW k \in Keys, ok, ~resetFailed
          PROVE  /\ Restored(k, disk'[k]) \in recent'[k]
                 /\ Restored(k, staged'[k]) \in recent'[k] /\ val[k] \in recent'[k]
      BY <2>1, <2>2, <2>3, <3>1 DEF Recent
    <3> QED BY <2>1, <3>1 DEF Recent
  <2> QED BY <1>0, <2>4, <2>5, <2>6, <2>7
<1>16. ASSUME NEW ok \in BOOLEAN, Wipe(me, ok) PROVE Alone(me)'
  <2>1. /\ UNCHANGED <<ready, opened, val, dirty, sDirty, staged>>
        /\ job[me].pc = "wipe" /\ ready
        /\ disk' = IF ok THEN staged ELSE disk
        /\ \A k \in Keys : /\ ~dirty[k] /\ staged[k] = Missing /\ Restored(k, Missing) = val[k]
                           /\ recent'[k] = IF ok THEN {val[k]} ELSE recent[k]
        /\ resetFailed' = (resetFailed \/ ~ok)
        /\ job'[me].pc = "idle"
    BY <1>16, <1>b, RestoredMissing DEF Wipe, ram, At, Noticed, Passed
  <2>2. Noticed(me)' /\ Passed(me)'
    BY <2>1 DEF Noticed, Passed, At
  <2>3. ASSUME ~resetFailed', NEW k \in Keys
        PROVE  /\ Restored(k, disk'[k]) = val'[k] /\ Restored(k, staged'[k]) = val'[k]
               /\ val'[k] \in recent'[k]
    <3>1. ok /\ disk' = staged
      BY <2>1, <2>3
    <3> QED BY <2>1, <3>1
  <2>4. Given(me)' /\ Saved(me)' /\ Recent'
    BY <2>3 DEF Given, Saved, Recent
  <2> QED BY <1>0, <2>2, <2>4
<1>17. CASE Crash
  <2>1. /\ ~ready' /\ job'[me].pc = "idle" /\ \A k \in Keys : ~dirty'[k]
        /\ UNCHANGED <<staged, recent, resetFailed>>
        /\ \A k \in Keys : disk'[k] \in {staged[k], disk[k]}
    BY <1>17, IdleJob DEF Crash, history
  <2>2. Noticed(me)' /\ Passed(me)' /\ Given(me)' /\ Saved(me)'
    BY <2>1 DEF Noticed, Passed, Given, Saved, At
  <2>3. Recent'
    BY <2>1 DEF Recent
  <2> QED BY <1>0, <2>2, <2>3
<1>18. CASE UNCHANGED vars
  BY <1>18, <1>d DEF vars, history
<1>19. ASSUME Work(me) PROVE Alone(me)'
  BY <1>6, <1>7, <1>8, <1>9, <1>10, <1>11, <1>12, <1>13, <1>14, <1>15, <1>16, <1>19 DEF Work
<1> QED BY <1>1, <1>2, <1>3, <1>4, <1>5, <1>17, <1>18, <1>19 DEF Next

\* The program starts in it.
LEMMA AloneInit ==
  ASSUME NEW me, Tasks = {me}, Init PROVE Alone(me)
<1>1. Types
  BY TypesInit
<1>2. /\ ~ready /\ job[me].pc = "idle" /\ staged = disk
      /\ \A k \in Keys : ~dirty[k] /\ recent[k] = {Restored(k, disk[k])}
  BY IdleJob DEF Init
<1>3. Noticed(me) /\ Passed(me) /\ Given(me) /\ Saved(me) /\ Recent
  BY <1>2 DEF Noticed, Passed, Given, Saved, Recent, At
<1> QED BY <1>1, <1>3 DEF Alone

-----------------------------------------------------------------------------
(* The properties that the run checks.                                     *)

\* So the types hold for ever.
LEMMA AlwaysTypes == Spec => []Types
  BY TypesInit, TypesStep, PTL DEF Spec

\* Every variable has its type; of the values in use a number is within its declared
\* range and a text no longer than its limit, however many tasks use the store.
THEOREM TypeCorrect == Spec => []TypeOK
<1>1. Types => TypeOK
  BY DEF Types
<1> QED BY <1>1, AlwaysTypes, PTL

\* So does the invariant, with one task.
LEMMA AlwaysAlone ==
  ASSUME NEW me, Tasks = {me} PROVE Spec => []Alone(me)
<1>1. Init => Alone(me)
  BY AloneInit
<1>2. Alone(me) /\ [Next]_vars => Alone(me)'
  BY AloneStep
<1> QED BY <1>1, <1>2, PTL DEF Spec

\* With one task, no change waits unnoticed for a tick that will never look.
THEOREM ChangesAreNoticed ==
  ASSUME NEW me, Tasks = {me} PROVE Spec => []PendingNoticed
<1>1. Alone(me) => PendingNoticed
  BY DEF Alone, Noticed, PendingNoticed, Quiet, At
<1> QED BY <1>1, AlwaysAlone, PTL

\* With one task, a store that is clean between calls is saved.
THEOREM CleanIsSaved ==
  ASSUME NEW me, Tasks = {me} PROVE Spec => []CleanMeansSaved
<1>1. Alone(me) => CleanMeansSaved
  BY DEF Alone, Saved, CleanMeansSaved, Quiet, At
<1> QED BY <1>1, AlwaysAlone, PTL

\* With one task, power lost at any step leaves under every key a value that
\* was in use at the last completed commit or since.
THEOREM PowerLossIsSafe ==
  ASSUME NEW me, Tasks = {me} PROVE Spec => []CommittedSurvives
<1>1. Alone(me) => CommittedSurvives
  BY DEF Alone, Recent, CommittedSurvives
<1> QED BY <1>1, AlwaysAlone, PTL

\* A change whose time has been noted has seen a tick since.
Waited == since # 0 => calm >= 1

\* No tick, of any task, writes back what was changed since the tick before it.
THEOREM SlidersAreOneWrite == Spec => Debounced
<1> DEFINE Waits == \A t \in Tasks : At(t, "idle") /\ clock' # clock /\ job'[t].pc = "save"
                      => calm' >= 2
<1>1. Init => Waited
  BY DEF Init, Waited
<1>2. Types /\ Waited /\ [Next]_vars => Waited'
  <2> SUFFICES ASSUME Types, Waited, [Next]_vars PROVE Waited'
    OBVIOUS
  <2> calm \in 0..2 /\ since \in Nat
    BY DEF Types, TypeOK
  <2>1. CASE since' = 0
    BY <2>1 DEF Waited
  <2>2. CASE since' = since /\ calm' = calm
    BY <2>2 DEF Waited
  <2>3. ASSUME NEW t \in Tasks, Tick(t) PROVE Waited'
    <3>1. calm' >= 1
      BY <2>3 DEF Tick
    <3> QED BY <3>1 DEF Waited
  <2> QED
    BY ZenonT(40), <2>1, <2>2, <2>3
    DEF Next, Boot, SetValue, Commit, FactoryReset, Crash, Work, MarkSlot, MarkStore, SkipClean,
        ClearSlot, Settle, ApplyDefault, LowerStore, Save, Flush, Erase, Wipe, ram, history, vars
<1>3. Types /\ Waited /\ [Next]_vars => [Waits]_vars
  <2> SUFFICES ASSUME Types, Waited, [Next]_vars, NEW t \in Tasks,
                      At(t, "idle"), clock' # clock, job'[t].pc = "save"
               PROVE  calm' >= 2
    OBVIOUS
  <2> calm \in 0..2 /\ job \in [Tasks -> Job]
    BY DEF Types, TypeOK, Job, Pcs
  <2>1. PICK u \in Tasks : Tick(u)
    BY ZenonT(40) DEF Next, Boot, SetValue, Commit, FactoryReset, Crash, Work, MarkSlot, MarkStore,
           SkipClean, ClearSlot, Settle, ApplyDefault, LowerStore, Save, Flush, Erase, Wipe, ram,
           history, vars
  <2>2. since # 0
    BY <2>1 DEF Tick, At
  <2> QED BY <2>1, <2>2 DEF Tick, Waited
<1>4. Spec => [][Waits]_vars
  BY <1>1, <1>2, <1>3, AlwaysTypes, PTL DEF Spec
<1> QED BY <1>4 DEF Debounced
=============================================================================
