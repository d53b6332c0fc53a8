-------------------------------- MODULE Store --------------------------------
(***************************************************************************)
(* The settings store (nev_kernel/nev_store.c) over a backend that stages  *)
(* writes and makes them durable on flush: values live in RAM, a change    *)
(* marks its slot and the store dirty, and a debounced tick, or a caller   *)
(* that wants it now, writes the dirty slots back.  Nothing here is locked *)
(* and nothing has to be as long as one task does it all, which is how the *)
(* host build runs; on the device nev_ui and nev_net both set and commit.  *)
(* Every step that another task could see half done is a step of its own.  *)
(* A value is a number, or the length of a text; what RAM holds while the  *)
(* store is not ready is left as it was.                                   *)
(***************************************************************************)
EXTENDS Integers, Sequences, FiniteSets

CONSTANTS
  Keys,      \* settings
  KeyOrder,  \* their order in kDesc
  Texts,     \* the keys of type STR
  Lo, Hi,    \* [Keys -> Int]: the declared range; for a text, of its length
  Default,   \* [Keys -> Int]
  Raw,       \* what callers pass in and what may be found in the backing store
  Missing,   \* a key the backing store does not hold
  Tasks,     \* tasks that use the store
  Tickers,   \* those whose loop calls nev_store_tick, through sys_service
  Resetters, \* those that may be asked for a factory reset, from the settings
  Backends,  \* the backends considered, of "file" and "nvs"
  Period,    \* time between ticks
  Delay,     \* WRITEBACK_DELAY_MS
  Wrap,      \* 2^32, the modulus of millisecond arithmetic
  MaxSets    \* bound: calls that change a value

ASSUME StoreAssumption ==
  /\ KeyOrder \in Seq(Keys)
  /\ \A k \in Keys : \E i \in DOMAIN KeyOrder : KeyOrder[i] = k
  /\ Texts \subseteq Keys
  /\ Lo \in [Keys -> Int] /\ Hi \in [Keys -> Int] /\ Default \in [Keys -> Int]
  /\ \A k \in Keys : Lo[k] <= Default[k] /\ Default[k] <= Hi[k]
  /\ \A k \in Texts : Lo[k] >= 0
  /\ Raw \subseteq Int /\ Missing \notin Int
  /\ Tickers \subseteq Tasks /\ Resetters \subseteq Tasks
  /\ Backends \subseteq {"file", "nvs"}
  /\ Period \in Nat \ {0} /\ Delay \in Nat /\ Wrap \in Nat \ {0} /\ MaxSets \in Nat

VARIABLES
  backend,     \* nev_store_backend(), fixed by the build
  ready,       \* s_ready
  opened,      \* the backend is open
  val, dirty,  \* s_slot
  sDirty,      \* s_dirty
  since,       \* s_dirty_since_ms; 0 until the next tick notes the time
  staged,      \* [Keys -> Raw or Missing]: the backend's copy, not yet flushed
  disk,        \* [Keys -> Raw or Missing]: what a reboot would find
  job,         \* [Tasks -> the call a task is in]
  clock,       \* the time of the last tick
  sets,        \* history: how often a value was changed
  calm,        \* history: ticks since the last change
  recent,      \* history, [Keys -> set of values]: held since the last commit
  resetFailed  \* history: a factory reset was reported to have failed

ram == <<val, dirty, sDirty, since>>
history == <<sets, calm, recent, resetFailed>>
vars == <<backend, ready, opened, ram, staged, disk, job, clock, history>>

\* The values that a slot can hold: a number in its declared range, a text of at most
\* its declared length.  nev_store.h has min bound the length of a text as well
\* (device_name's is 1), and nothing looks at that.
Least(k) == IF k \in Texts THEN 0 ELSE Lo[k]
Held(k) == Least(k)..Hi[k]

Idle == [pc |-> "idle", at |-> 1, ok |-> TRUE, close |-> FALSE]

\* A number saturates; a text found too long is clipped, in both backends'
\* terms a value like any other.
Clamp(k, v) == IF v < Least(k) THEN Least(k) ELSE IF v > Hi[k] THEN Hi[k] ELSE v

\* Mutant: a stored number is taken as it is found.
RestoredRaw(k, r) == IF r = Missing THEN Default[k] ELSE r

\* What loading a stored value, or the lack of one, makes of a slot.
Restored(k, r) == IF r = Missing THEN Default[k]
                  ELSE Clamp(k, r)

\* The length of a text that is found is the length of a text.
IsStored(found) == \A k \in Texts : found[k] \in Nat \cup {Missing}

\* What setting a key stores: too long a text is refused, not truncated.
Settable(k, v) == IF k \in Texts THEN {v} \cap Held(k) ELSE {Clamp(k, v)}

Init ==
  /\ backend \in Backends
  /\ ready = FALSE
  /\ opened = FALSE
  /\ val = Default
  /\ dirty = [k \in Keys |-> FALSE]
  /\ sDirty = FALSE
  /\ since = 0
  /\ disk \in [Keys -> Raw \cup {Missing}] /\ IsStored(disk)
  /\ staged = disk
  /\ job = [t \in Tasks |-> Idle]
  /\ clock = 0
  /\ sets = 0
  /\ calm = 0
  /\ recent = [k \in Keys |-> {Restored(k, disk[k])}]
  /\ resetFailed = FALSE

At(t, pc) == job[t].pc = pc
More(t) == job[t].at <= Len(KeyOrder)
Key(t) == KeyOrder[job[t].at]
Goto(t, pc) == job' = [job EXCEPT ![t].pc = pc]
Return(t) == job' = [job EXCEPT ![t] = Idle]
Begin(t, pc, close) == job' = [job EXCEPT ![t] = [Idle EXCEPT !.pc = pc, !.close = close]]
Free(t) == ready /\ At(t, "idle")

-----------------------------------------------------------------------------
(* nev_store_init.  A backend that will not open is not an error: the      *)
(* store runs on defaults and every save will fail.                        *)

Boot(ok) ==
  /\ ~ready
  /\ ok \/ backend = "nvs"
  /\ ready' = TRUE
  /\ opened' = ok
  /\ val' = [k \in Keys |-> IF ok THEN Restored(k, disk[k]) ELSE Default[k]]
  /\ dirty' = [k \in Keys |-> FALSE]
  /\ sDirty' = FALSE
  /\ staged' = disk
  /\ recent' = [k \in Keys |-> {Restored(k, disk[k]), val'[k]}]
  /\ resetFailed' = FALSE
  /\ UNCHANGED <<backend, since, disk, job, clock, sets, calm>>

\* nev_store_set_num and nev_store_set_str; setting the same value is free.
SetValue(t, k, v) ==
  /\ Free(t)
  /\ sets < MaxSets
  /\ \E w \in Settable(k, v) :
       /\ w # val[k]
       /\ val' = [val EXCEPT ![k] = w]
       /\ recent' = [recent EXCEPT ![k] = @ \cup {w}]
  /\ job' = [job EXCEPT ![t] = [Idle EXCEPT !.pc = "mark",
                                  !.at = CHOOSE i \in DOMAIN KeyOrder : KeyOrder[i] = k]]
  /\ sets' = sets + 1
  /\ UNCHANGED <<backend, ready, opened, dirty, sDirty, since, staged, disk, clock, calm, resetFailed>>

\* mark_dirty: the slot ...
MarkSlot(t) ==
  /\ At(t, "mark")
  /\ dirty' = [dirty EXCEPT ![Key(t)] = TRUE]
  /\ Goto(t, "raise")
  /\ UNCHANGED <<backend, ready, opened, val, sDirty, since, staged, disk, clock, history>>

\* Mutant: only the first change starts the debounce.
MarkStoreOnce(t) ==
  /\ At(t, "raise")
  /\ sDirty' = TRUE
  /\ since' = IF sDirty THEN since ELSE 0
  /\ calm' = 0
  /\ Return(t)
  /\ UNCHANGED <<backend, ready, opened, val, dirty, staged, disk, clock, sets, recent, resetFailed>>

\* ... and the store, whose debounce starts afresh.
MarkStore(t) ==
  /\ At(t, "raise")
  /\ sDirty' = TRUE
  /\ since' = 0
  /\ calm' = 0
  /\ Return(t)
  /\ UNCHANGED <<backend, ready, opened, val, dirty, staged, disk, clock, sets, recent, resetFailed>>

-----------------------------------------------------------------------------
(* nev_store_tick and nev_store_commit.                                    *)

\* Mutant: the difference is taken in a signed type.
ElapsedSigned(now) == now - since

Elapsed(now) == (now - since) % Wrap

\* The first tick after a change notes the time, a later one commits.
Tick(t) ==
  /\ t \in Tickers
  /\ Free(t)
  /\ clock' = (clock + Period) % Wrap
  /\ calm' = IF calm < 2 THEN calm + 1 ELSE calm
  /\ \/ ~sDirty /\ UNCHANGED <<since, job>>
     \/ /\ sDirty /\ since = 0
        /\ since' = IF clock' = 0 THEN 1 ELSE clock'
        /\ UNCHANGED job
     \/ sDirty /\ since # 0 /\ Elapsed(clock') < Delay /\ UNCHANGED <<since, job>>
     \/ /\ sDirty /\ since # 0 /\ Elapsed(clock') >= Delay
        /\ since' = 0
        /\ Begin(t, "save", FALSE)
  /\ UNCHANGED <<backend, ready, opened, val, dirty, sDirty, staged, disk, sets, recent, resetFailed>>

\* nev_store_commit from a caller that wants it now and, on the host, from
\* nev_store_deinit.
Commit(t, close) ==
  /\ Free(t)
  /\ sDirty \/ close
  /\ close => backend = "file"
  /\ Begin(t, IF sDirty THEN "save" ELSE "settle", close)
  /\ UNCHANGED <<backend, ready, opened, ram, staged, disk, clock, history>>

\* A slot that does not persist stays dirty for the next commit to retry.
Save(t, ok) ==
  /\ At(t, "save") /\ More(t)
  /\ dirty[Key(t)]
  /\ ok => opened
  /\ IF ok THEN /\ staged' = [staged EXCEPT ![Key(t)] = val[Key(t)]]
                /\ Goto(t, "clear")
           ELSE /\ job' = [job EXCEPT ![t].ok = FALSE, ![t].at = @ + 1]
                /\ UNCHANGED staged
  /\ UNCHANGED <<backend, ready, opened, ram, disk, clock, history>>

SkipClean(t) ==
  /\ At(t, "save") /\ More(t)
  /\ ~dirty[Key(t)]
  /\ job' = [job EXCEPT ![t].at = @ + 1]
  /\ UNCHANGED <<backend, ready, opened, ram, staged, disk, clock, history>>

ClearSlot(t) ==
  /\ At(t, "clear")
  /\ dirty' = [dirty EXCEPT ![Key(t)] = FALSE]
  /\ job' = [job EXCEPT ![t].pc = "save", ![t].at = @ + 1]
  /\ UNCHANGED <<backend, ready, opened, val, sDirty, since, staged, disk, clock, history>>

\* Mutant: the file is rewritten in place.
FlushInPlace(t, ok) ==
  /\ At(t, "save") /\ ~More(t)
  /\ ok => opened
  /\ disk' = IF ok THEN staged ELSE [k \in Keys |-> Missing]
  /\ job' = [job EXCEPT ![t].pc = "settle", ![t].ok = @ /\ ok]
  /\ UNCHANGED <<backend, ready, opened, ram, staged, clock, history>>

\* Mutant: only the saves are asked whether they succeeded.
FlushUnchecked(t, ok) ==
  /\ At(t, "save") /\ ~More(t)
  /\ ok => opened
  /\ disk' = IF ok THEN staged ELSE disk
  /\ job' = [job EXCEPT ![t].pc = "settle"]
  /\ UNCHANGED <<backend, ready, opened, ram, staged, clock, history>>

\* Both backends replace what was there in one stroke: a rename, nvs_commit.
Flush(t, ok) ==
  /\ At(t, "save") /\ ~More(t)
  /\ ok => opened
  /\ disk' = IF ok THEN staged ELSE disk
  /\ job' = [job EXCEPT ![t].pc = "settle", ![t].ok = @ /\ ok]
  /\ UNCHANGED <<backend, ready, opened, ram, staged, clock, history>>

\* Mutant: a commit that got to its end has written everything.
StaysDirtyNever(t) == FALSE

\* Only a commit in which nothing failed leaves the store clean.
StaysDirty(t) == sDirty /\ ~job[t].ok /\ ~job[t].close

Settle(t) ==
  /\ At(t, "settle")
  /\ sDirty' = StaysDirty(t)
  /\ recent' = [k \in Keys |-> IF job[t].ok /\ sDirty THEN {val[k]} ELSE recent[k]]
  /\ ready' = ~job[t].close
  /\ opened' = (opened /\ ~job[t].close)
  /\ dirty' = [k \in Keys |-> dirty[k] /\ ~job[t].close]
  /\ Return(t)
  /\ UNCHANGED <<backend, val, since, staged, disk, clock, sets, calm, resetFailed>>

-----------------------------------------------------------------------------
(* nev_store_factory_reset.                                                *)

FactoryReset(t) ==
  /\ t \in Resetters
  /\ Free(t)
  /\ sets < MaxSets
  /\ sets' = sets + 1
  /\ Begin(t, "default", FALSE)
  /\ UNCHANGED <<backend, ready, opened, ram, staged, disk, clock, calm, recent, resetFailed>>

ApplyDefault(t) ==
  /\ At(t, "default") /\ More(t)
  /\ val' = [val EXCEPT ![Key(t)] = Default[Key(t)]]
  /\ dirty' = [dirty EXCEPT ![Key(t)] = FALSE]
  /\ recent' = [recent EXCEPT ![Key(t)] = @ \cup {Default[Key(t)]}]
  /\ job' = [job EXCEPT ![t].at = @ + 1]
  /\ UNCHANGED <<backend, ready, opened, sDirty, since, staged, disk, clock, sets, calm, resetFailed>>

LowerStore(t) ==
  /\ At(t, "default") /\ ~More(t)
  /\ sDirty' = FALSE
  /\ since' = 0
  /\ Goto(t, "erase")
  /\ UNCHANGED <<backend, ready, opened, val, dirty, staged, disk, clock, history>>

\* erase_all.  NVS may refuse, or erase and then fail to commit; the file
\* backend forgets its entries and never asks whether the file was removed.
Erase(t, ok) ==
  /\ At(t, "erase")
  /\ IF ok THEN opened ELSE backend = "nvs"
  /\ \E erased \in BOOLEAN, gone \in BOOLEAN :
       /\ IF ok THEN erased /\ (gone \/ backend = "file")
                ELSE ~gone /\ (erased => opened)
       /\ staged' = IF erased THEN [k \in Keys |-> Missing] ELSE staged
       /\ disk' = IF gone THEN [k \in Keys |-> Missing] ELSE disk
       /\ recent' = IF gone THEN [k \in Keys |-> {val[k]}] ELSE recent
  /\ IF ok THEN Goto(t, "wipe") ELSE Return(t)
  /\ resetFailed' = (resetFailed \/ ~ok)
  /\ UNCHANGED <<backend, ready, opened, ram, clock, sets, calm>>

\* The flush that follows is what empties a file that could not be removed.
Wipe(t, ok) ==
  /\ At(t, "wipe")
  /\ ok => opened
  /\ disk' = IF ok THEN staged ELSE disk
  /\ recent' = [k \in Keys |-> IF ok THEN {val[k]} ELSE recent[k]]
  /\ resetFailed' = (resetFailed \/ ~ok)
  /\ Return(t)
  /\ UNCHANGED <<backend, ready, opened, ram, staged, clock, sets, calm>>

-----------------------------------------------------------------------------
\* Power is lost between any two steps.  RAM is gone, and of the writes that
\* were not flushed NVS may have kept some.
Crash ==
  /\ ready
  /\ ready' = FALSE
  /\ opened' = FALSE
  /\ dirty' = [k \in Keys |-> FALSE]
  /\ sDirty' = FALSE
  /\ since' = 0
  /\ job' = [t \in Tasks |-> Idle]
  /\ \E kept \in SUBSET Keys :
       /\ kept = {} \/ backend = "nvs"
       /\ disk' = [k \in Keys |-> IF k \in kept THEN staged[k] ELSE disk[k]]
  /\ UNCHANGED <<backend, val, staged, clock, history>>

-----------------------------------------------------------------------------
\* The next step of a call that has begun.
Work(t) ==
  \/ MarkSlot(t) \/ MarkStore(t)
  \/ SkipClean(t) \/ ClearSlot(t) \/ Settle(t)
  \/ ApplyDefault(t) \/ LowerStore(t)
  \/ \E ok \in BOOLEAN : Save(t, ok) \/ Flush(t, ok) \/ Erase(t, ok) \/ Wipe(t, ok)

Next ==
  \/ \E ok \in BOOLEAN : Boot(ok)
  \/ \E t \in Tasks, k \in Keys, v \in Raw : SetValue(t, k, v)
  \/ \E t \in Tasks : Tick(t) \/ FactoryReset(t) \/ Work(t)
  \/ \E t \in Tasks, close \in BOOLEAN : Commit(t, close)
  \/ Crash

\* A call runs on, the main loop keeps ticking, and a backend that is asked
\* again and again to take a value, or to flush, does so in the end.
Fairness ==
  /\ \A t \in Tasks : WF_vars(Work(t)) /\ SF_vars(Flush(t, TRUE))
  /\ \A t \in Tickers : WF_vars(Tick(t))
  /\ \A t \in Tasks, k \in Keys : SF_vars(Save(t, TRUE) /\ Key(t) = k)

Spec == Init /\ [][Next]_vars /\ Fairness

-----------------------------------------------------------------------------
\* Every variable has its type, and a value in RAM is one that its slot can hold: a
\* number in its declared range, a text of no more than its declared length.
TypeOK ==
  /\ backend \in Backends
  /\ ready \in BOOLEAN /\ opened \in BOOLEAN
  /\ val \in [Keys -> Int] /\ \A k \in Keys : val[k] \in Held(k)
  /\ dirty \in [Keys -> BOOLEAN]
  /\ sDirty \in BOOLEAN
  /\ since \in Nat /\ clock \in Nat /\ sets \in Nat /\ calm \in 0..2
  /\ staged \in [Keys -> Int \cup {Missing}]
  /\ disk \in [Keys -> Int \cup {Missing}]
  /\ job \in [Tasks -> [pc : {"idle", "mark", "raise", "save", "clear", "settle",
                              "default", "erase", "wipe"},
                        at : 1..(Len(KeyOrder) + 1), ok : BOOLEAN, close : BOOLEAN]]
  /\ recent \in [Keys -> SUBSET Int]
  /\ resetFailed \in BOOLEAN

Quiet == ready /\ \A t \in Tasks : At(t, "idle")

\* nev_store.h: "Write back pending changes once they have settled".  A slot
\* that waits to be written back has the store marked dirty, or no tick will
\* ever look at it.
PendingNoticed == Quiet => \A k \in Keys : dirty[k] => sDirty

\* A store that says it is clean has everything in the backing store: a reboot
\* brings back exactly the values in use.
CleanMeansSaved ==
  Quiet /\ opened /\ ~sDirty /\ ~resetFailed
    => \A k \in Keys : Restored(k, disk[k]) = val[k]

\* Power can go at any point of a commit, a retry or a reset: what a reboot
\* finds under a key is a value it had at the last completed commit or since.
\* A reset that failed has said so to its caller and is not judged.
CommittedSurvives ==
  ~resetFailed => \A k \in Keys : Restored(k, disk[k]) \in recent[k]

\* "Dragging a slider is one write": a tick does not write back what was
\* changed since the tick before it.
Debounced ==
  [][\A t \in Tasks : At(t, "idle") /\ clock' # clock /\ job'[t].pc = "save"
                        => calm' >= 2]_vars

\* A change is written back, however many attempts fail on the way.
WrittenBack == sDirty /\ opened ~> ~sDirty
=============================================================================
