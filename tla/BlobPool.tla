------------------------------ MODULE BlobPool ------------------------------
(***************************************************************************)
(* The blob pool (nev_kernel/nev_blob.c): blocks in size classes, a stack  *)
(* of free indices per class under a lock, and a reference count per block *)
(* that is changed with atomics and no lock.  Who holds a reference        *)
(* (publisher, ring slot, receiver) does not matter to the pool, so a      *)
(* reference is an actor of its own: it comes into being by an allocation  *)
(* or a retain and goes through the steps of a release.  Each load, store  *)
(* or critical section of the code is a step, and the stale sweep of       *)
(* nev_sys, which takes no lock at all, runs between any two of them.      *)
(***************************************************************************)
EXTENDS Integers, Sequences, FiniteSets

CONSTANTS Blobs,    \* block descriptors
          Classes,  \* size classes
          ClassOf,  \* [Blobs -> Classes]
          Refs,     \* names for references; bounds how many exist at once
          Sweepers, \* tasks that call nev_blob_check_stale
          MaxAge,   \* max_age_ms
          Wrap,     \* 2^32, the modulus of millisecond arithmetic
          MaxTime,  \* bound on the clock
          NoBlob    \* no block

ASSUME PoolAssumption ==
  /\ IsFiniteSet(Blobs) /\ IsFiniteSet(Refs)
  /\ ClassOf \in [Blobs -> Classes]
  /\ NoBlob \notin Blobs
  /\ MaxAge \in Nat /\ MaxTime \in Nat /\ Wrap \in Nat \ {0}

VARIABLES free,    \* [Classes -> Seq(Blobs)]: free_list, its top last
          refs,    \* [Blobs -> Nat]: desc.refs
          stamp,   \* [Blobs -> Nat]: desc.alloc_ms
          pc,      \* [Refs -> step]: where each reference is in its life
          blk,     \* [Refs -> Blobs \cup {NoBlob}]: the block it refers to
          clock,   \* nev_now_ms
          sweep,   \* [Sweepers -> the state of a sweep]
          born,    \* history, [Blobs -> Nat or -1]: when the block was handed out
          alarm    \* history: was the last "missing release?" warning true

pool == <<free, refs, stamp>>
vars == <<free, refs, stamp, pc, blk, clock, sweep, born, alarm>>

\* The steps of a reference: outside the pool; popped off the free list; with
\* refs stored; held by a user; and, for the last one, being freed.
Step == {"none", "popped", "stored", "held", "clear", "push"}

\* An enumeration of a finite set of blocks: the order of a free list at boot,
\* and the order of the descriptors a sweep goes through.
Listing(S) == CHOOSE q \in [1..Cardinality(S) -> S] : \A x \in S : \E i \in DOMAIN q : q[i] = x
Descs == Listing(Blobs)

NoSweep == [phase |-> "idle", now |-> 0, i |-> 0]

Init ==
  /\ free = [c \in Classes |-> Listing({b \in Blobs : ClassOf[b] = c})]
  /\ refs = [b \in Blobs |-> 0]
  /\ stamp = [b \in Blobs |-> 0]
  /\ pc = [r \in Refs |-> "none"]
  /\ blk = [r \in Refs |-> NoBlob]
  /\ clock = 0
  /\ sweep = [w \in Sweepers |-> NoSweep]
  /\ born = [b \in Blobs |-> -1]
  /\ alarm = "none"

-----------------------------------------------------------------------------
(* nev_blob_alloc.  The class is the smallest that fits and never a larger *)
(* one; an exhausted class yields NEV_BLOB_NONE and changes nothing.       *)

\* Mutant: reads the top of the free list without taking it off.
AllocPeek(r, c) ==
  /\ pc[r] = "none"
  /\ free[c] # <<>>
  /\ blk' = [blk EXCEPT ![r] = free[c][Len(free[c])]]
  /\ pc' = [pc EXCEPT ![r] = "popped"]
  /\ UNCHANGED <<free, refs, stamp, clock, sweep, born, alarm>>

AllocPop(r, c) ==
  /\ pc[r] = "none"
  /\ free[c] # <<>>
  /\ blk' = [blk EXCEPT ![r] = free[c][Len(free[c])]]
  /\ free' = [free EXCEPT ![c] = SubSeq(@, 1, Len(@) - 1)]
  /\ pc' = [pc EXCEPT ![r] = "popped"]
  /\ UNCHANGED <<refs, stamp, clock, sweep, born, alarm>>

\* Mutant: the count of a fresh block is left at zero.
AllocNoStore(r) ==
  /\ pc[r] = "popped"
  /\ pc' = [pc EXCEPT ![r] = "stored"]
  /\ UNCHANGED <<free, refs, stamp, blk, clock, sweep, born, alarm>>

AllocStore(r) ==
  /\ pc[r] = "popped"
  /\ refs' = [refs EXCEPT ![blk[r]] = 1]
  /\ pc' = [pc EXCEPT ![r] = "stored"]
  /\ UNCHANGED <<free, stamp, blk, clock, sweep, born, alarm>>

AllocStamp(r) ==
  /\ pc[r] = "stored"
  /\ stamp' = [stamp EXCEPT ![blk[r]] = clock]
  /\ born' = [born EXCEPT ![blk[r]] = clock]
  /\ pc' = [pc EXCEPT ![r] = "held"]
  /\ UNCHANGED <<free, refs, blk, clock, sweep, alarm>>

\* Mutant: a retain that computes the count from a stale load.
RetainStale(r, new) ==
  /\ pc[r] = "held"
  /\ pc[new] = "none"
  /\ refs' = [refs EXCEPT ![blk[r]] = 2]
  /\ blk' = [blk EXCEPT ![new] = blk[r]]
  /\ pc' = [pc EXCEPT ![new] = "held"]
  /\ UNCHANGED <<free, stamp, clock, sweep, born, alarm>>

\* nev_blob_retain by somebody who holds a reference.
Retain(r, new) ==
  /\ pc[r] = "held"
  /\ pc[new] = "none"
  /\ refs' = [refs EXCEPT ![blk[r]] = @ + 1]
  /\ blk' = [blk EXCEPT ![new] = blk[r]]
  /\ pc' = [pc EXCEPT ![new] = "held"]
  /\ UNCHANGED <<free, stamp, clock, sweep, born, alarm>>

\* Mutant: the last release does not notice that it is the last.
DecrementOnly(r) ==
  /\ pc[r] = "held"
  /\ refs' = [refs EXCEPT ![blk[r]] = @ - 1]
  /\ born' = [born EXCEPT ![blk[r]] = IF refs'[blk[r]] = 0 THEN -1 ELSE @]
  /\ pc' = [pc EXCEPT ![r] = "none"]
  /\ blk' = [blk EXCEPT ![r] = NoBlob]
  /\ UNCHANGED <<free, stamp, clock, sweep, alarm>>

\* nev_blob_release: the atomic decrement decides who frees the block.
Decrement(r) ==
  /\ pc[r] = "held"
  /\ refs' = [refs EXCEPT ![blk[r]] = @ - 1]
  /\ IF refs'[blk[r]] = 0
     THEN /\ pc' = [pc EXCEPT ![r] = "clear"]
          /\ born' = [born EXCEPT ![blk[r]] = -1]
          /\ UNCHANGED blk
     ELSE /\ pc' = [pc EXCEPT ![r] = "none"]
          /\ blk' = [blk EXCEPT ![r] = NoBlob]
          /\ UNCHANGED born
  /\ UNCHANGED <<free, stamp, clock, sweep, alarm>>

ClearStamp(r) ==
  /\ pc[r] = "clear"
  /\ stamp' = [stamp EXCEPT ![blk[r]] = 0]
  /\ pc' = [pc EXCEPT ![r] = "push"]
  /\ UNCHANGED <<free, refs, blk, clock, sweep, born, alarm>>

Push(r) ==
  /\ pc[r] = "push"
  /\ free' = [free EXCEPT ![ClassOf[blk[r]]] = Append(@, blk[r])]
  /\ pc' = [pc EXCEPT ![r] = "none"]
  /\ blk' = [blk EXCEPT ![r] = NoBlob]
  /\ UNCHANGED <<refs, stamp, clock, sweep, born, alarm>>

-----------------------------------------------------------------------------
(* nev_blob_check_stale: one sample of the clock, then every descriptor,   *)
(* without the lock.                                                       *)

SweepBegin(w) ==
  /\ sweep[w].phase = "idle"
  /\ sweep' = [sweep EXCEPT ![w] = [phase |-> "scan", now |-> clock, i |-> 1]]
  /\ UNCHANGED <<pool, pc, blk, clock, born, alarm>>

At(w) == Descs[sweep[w].i]

NextDesc(w) == [sweep EXCEPT ![w].phase = "scan", ![w].i = @ + 1]

\* A descriptor with no reference is skipped.
SweepLoad(w) ==
  /\ sweep[w].phase = "scan"
  /\ sweep[w].i <= Len(Descs)
  /\ sweep' = IF refs[At(w)] = 0 THEN NextDesc(w) ELSE [sweep EXCEPT ![w].phase = "compare"]
  /\ UNCHANGED <<pool, pc, blk, clock, born, alarm>>

Age(w) == (sweep[w].now - stamp[At(w)]) % Wrap

\* A warning is true if the block has been out for longer than MaxAge.
HeldTooLong(b) == born[b] # -1 /\ clock - born[b] > MaxAge

SweepCompare(w) ==
  /\ sweep[w].phase = "compare"
  /\ IF Age(w) > MaxAge
     THEN /\ sweep' = [sweep EXCEPT ![w].phase = "mark"]
          /\ alarm' = IF HeldTooLong(At(w)) THEN "true" ELSE "false"
     ELSE /\ sweep' = NextDesc(w)
          /\ UNCHANGED alarm
  /\ UNCHANGED <<pool, pc, blk, clock, born>>

\* Warn once per interval: the sampled time becomes the block's stamp.
SweepMark(w) ==
  /\ sweep[w].phase = "mark"
  /\ stamp' = [stamp EXCEPT ![At(w)] = sweep[w].now]
  /\ sweep' = NextDesc(w)
  /\ UNCHANGED <<free, refs, pc, blk, clock, born, alarm>>

SweepEnd(w) ==
  /\ sweep[w].phase = "scan"
  /\ sweep[w].i > Len(Descs)
  /\ sweep' = [sweep EXCEPT ![w] = NoSweep]
  /\ UNCHANGED <<pool, pc, blk, clock, born, alarm>>

Tick ==
  /\ clock < MaxTime
  /\ clock' = clock + 1
  /\ UNCHANGED <<pool, pc, blk, sweep, born, alarm>>

-----------------------------------------------------------------------------
Next ==
  \/ \E r \in Refs, c \in Classes : AllocPop(r, c)
  \/ \E r \in Refs : AllocStore(r) \/ AllocStamp(r)
  \/ \E r, new \in Refs : Retain(r, new)
  \/ \E r \in Refs : Decrement(r) \/ ClearStamp(r) \/ Push(r)
  \/ \E w \in Sweepers : SweepBegin(w) \/ SweepLoad(w) \/ SweepCompare(w)
                           \/ SweepMark(w) \/ SweepEnd(w)
  \/ Tick

\* A task inside nev_blob_alloc or nev_blob_release runs on; nobody has to
\* release at all.
Spec == /\ Init /\ [][Next]_vars
        /\ \A r \in Refs : /\ WF_vars(AllocStore(r))
                          /\ WF_vars(ClearStamp(r)) /\ WF_vars(Push(r))

-----------------------------------------------------------------------------
TypeOK ==
  /\ free \in [Classes -> Seq(Blobs)]
  /\ refs \in [Blobs -> Nat]
  /\ stamp \in [Blobs -> Nat]
  /\ pc \in [Refs -> Step]
  /\ blk \in [Refs -> Blobs \cup {NoBlob}]
  /\ clock \in Nat
  /\ sweep \in [Sweepers -> [phase : {"idle", "scan", "compare", "mark"}, now : Nat,
                             i : Nat]]
  /\ born \in [Blobs -> Int]
  /\ alarm \in {"none", "true", "false"}

\* The references a count stands for.
Counting(b) == {r \in Refs : blk[r] = b /\ pc[r] \in {"stored", "held"}}

\* A block's count is the number of references to it, so that the two asserts
\* of nev_blob.c ("retain after free", "double release") never fail: whoever
\* calls retain or release finds a count above zero.
RefsCounted == \A b \in Blobs : refs[b] = Cardinality(Counting(b))

\* The references that are moving a block into or out of its free list.
Moving(b) == {r \in Refs : blk[r] = b /\ pc[r] \in {"popped", "clear", "push"}}

OnList(b) == \E i \in DOMAIN free[ClassOf[b]] : free[ClassOf[b]][i] = b

\* A block is in exactly one place: on the free list of its own class, once;
\* in the hands of the one task that is allocating or freeing it; or referred
\* to.  So no block is handed out twice, none is pushed twice (the NEV_CHECK
\* in release) and none gets lost between the list and the count.
OnePlace ==
  /\ \A c \in Classes : \A i \in DOMAIN free[c] : ClassOf[free[c][i]] = c
  /\ \A c \in Classes : \A i, j \in DOMAIN free[c] : free[c][i] = free[c][j] => i = j
  /\ \A b \in Blobs : \A r, q \in Moving(b) : r = q
  /\ \A b \in Blobs : \/ OnList(b) /\ Moving(b) = {} /\ Counting(b) = {}
                      \/ ~OnList(b) /\ Moving(b) # {} /\ Counting(b) = {}
                      \/ ~OnList(b) /\ Moving(b) = {} /\ Counting(b) # {}

\* A block whose last reference is gone gets back to the free list or, if it
\* is already on its way out again, into use.
Recycled == \A b \in Blobs : refs[b] = 0 ~> OnList(b) \/ refs[b] > 0

\* nev_blob.h: "Warn about any blob held longer than max_age_ms".
WarnsOnlyIfHeldLonger == alarm # "false"
=============================================================================
