--------------------------------- MODULE Ota ---------------------------------
(***************************************************************************)
(* Firmware updates: the daemon's offer, carried from nev_bridge.c to      *)
(* ota_service.c in a blob over the bus and judged there, and the download *)
(* that ota_core.c checks.  Nothing calls the download yet: here its       *)
(* caller may do anything at any time.                                     *)
(*                                                                         *)
(* A digest is the image it is the digest of.  A version is its numbers    *)
(* and whether text that is no number follows them.                        *)
(***************************************************************************)
EXTENDS Integers, Sequences

CONSTANTS
  Offers,     \* what a daemon may offer: version, size and sha256
  Current,    \* NEVOS_VERSION
  Partition,  \* OTA_PARTITION_BYTES
  Bytes,      \* values of a byte
  NoOffer     \* no offer: also any other event of the BRIDGE domain

\* What is offered has a length and a digest, and no offer is none.
Parameters ==
  /\ Partition \in Nat /\ NoOffer \notin Offers
  /\ \A o \in Offers : o.size \in Nat /\ o.sha256 \in Seq(Bytes)

NoDigest == <<>>   \* the zeroes left for a digest of the wrong length: of no image
Depth == 2         \* of the service's ring

VARIABLES
  ring,      \* s_sub's ring: offers and other events
  core,      \* nev_ota_core_t: state, reject, offer, and the bytes fed and hashed
  told       \* the last of OTA_AVAILABLE and OTA_FAILED that was published

vars == <<ring, core, told>>

\* nev_ota_version_compare: a missing number is zero, and text ends the comparison.
Part(v, i) == IF i <= Len(v.parts) THEN v.parts[i] ELSE 0
Compared(a, b) ==
  {i \in 1..(Len(a.parts) + Len(b.parts)) :
     (a.text => i <= Len(a.parts)) /\ (b.text => i <= Len(b.parts))}
Newer(a, b) ==
  \E i \in Compared(a, b) :
    Part(a, i) > Part(b, i) /\ \A j \in 1..(i - 1) : Part(a, j) = Part(b, j)

Idle == [state |-> "idle", reject |-> "none", offer |-> NoOffer, fed |-> <<>>]
Aborted(why) == [core EXCEPT !.state = "failed", !.reject = why, !.fed = <<>>]

Init == ring = <<>> /\ core = Idle /\ told = "nothing"

-----------------------------------------------------------------------------
(* From the bridge to the service.                                         *)

\* nev_bus_publish into a ring that drops its oldest.
Kept(ev) == IF Len(ring) = Depth THEN Append(Tail(ring), ev) ELSE Append(ring, ev)

\* publish_ota_offer, when there is a blob for it.
Offer(o) == ring' = Kept(o) /\ UNCHANGED <<core, told>>

\* Anything else that the bridge publishes.
Chatter == ring' = Kept(NoOffer) /\ UNCHANGED <<core, told>>

\* nev_ota_core_offer: why an offer is turned down.
Reject(o) ==
  IF o.version.parts = <<>> \/ o.size = 0 THEN "malformed"
  ELSE IF ~Newer(o.version, Current) THEN "not_newer"
  ELSE IF o.size > Partition THEN "too_big"
  ELSE "none"

\* judge(): a fresh core per offer.
Judged(o) == IF Reject(o) = "none" THEN [Idle EXCEPT !.state = "offered", !.offer = o]
             ELSE [Idle EXCEPT !.reject = Reject(o)]

\* ota_service_tick; the news of it may find no blob.
Tick ==
  /\ ring # <<>>
  /\ ring' = Tail(ring)
  /\ IF Head(ring) = NoOffer THEN UNCHANGED <<core, told>>
     ELSE /\ core' = Judged(Head(ring))
          /\ told' \in {told, IF core'.state = "offered" THEN "available" ELSE "failed"}

-----------------------------------------------------------------------------
(* The download.                                                           *)

Begin ==
  /\ core.state = "offered"
  /\ core' = [core EXCEPT !.state = "downloading", !.fed = <<>>]
  /\ UNCHANGED <<ring, told>>

\* nev_ota_core_feed: refused as soon as it overruns.
Feed(data) ==
  /\ core.state = "downloading"
  /\ core' = IF Len(core.fed) + Len(data) > core.offer.size
             THEN Aborted("long") ELSE [core EXCEPT !.fed = @ \o data]
  /\ UNCHANGED <<ring, told>>

\* Mutant: an offer that came without a digest is not held to one.
FinishUnverified ==
  /\ core.state = "downloading"
  /\ core' = IF Len(core.fed) # core.offer.size THEN Aborted("short")
             ELSE IF core.offer.sha256 \notin {NoDigest, core.fed} THEN Aborted("digest")
             ELSE [core EXCEPT !.state = "ready"]
  /\ UNCHANGED <<ring, told>>

\* nev_ota_core_finish: the length, then the digest.
Finish ==
  /\ core.state = "downloading"
  /\ core' = IF Len(core.fed) # core.offer.size THEN Aborted("short")
             ELSE IF core.offer.sha256 # core.fed THEN Aborted("digest")
             ELSE [core EXCEPT !.state = "ready"]
  /\ UNCHANGED <<ring, told>>

\* nev_ota_core_abort, from whoever downloads.
Abort == core.state # "failed" /\ core' = Aborted("short") /\ UNCHANGED <<ring, told>>

Chunks == {<<b>> : b \in Bytes} \union {<<b, c>> : b, c \in Bytes}

Next ==
  \/ \E o \in Offers : Offer(o)
  \/ Chatter
  \/ Tick
  \/ Begin
  \/ \E data \in Chunks : Feed(data)
  \/ Finish
  \/ Abort

-----------------------------------------------------------------------------

Rejections == {"none", "malformed", "not_newer", "too_big", "long", "short", "digest"}

TypeOK ==
  /\ ring \in Seq(Offers \union {NoOffer}) /\ Len(ring) <= Depth
  /\ core \in [state : {"idle", "offered", "downloading", "ready", "failed"},
               reject : Rejections, offer : Offers \union {NoOffer}, fed : Seq(Bytes)]
  /\ told \in {"nothing", "available", "failed"}

\* An image is ready only if it is, to the byte, the one that was offered, newer
\* than the firmware that runs and no larger than the partition: whatever offers
\* came before or after, and in whatever order the download's calls were made.
ReadyIsTheOffer ==
  core.state = "ready" =>
    /\ core.fed = core.offer.sha256
    /\ Newer(core.offer.version, Current)
    /\ core.offer.size <= Partition

\* Not a byte past what was promised is taken, so none is written past the slot.
NeverOverruns ==
  core.state \in {"downloading", "ready"} =>
    Len(core.fed) <= core.offer.size /\ core.offer.size <= Partition

\* A failure has a reason, and nothing else that stands has one.
FailureHasReason ==
  /\ core.state = "failed" => core.reject # "none"
  /\ core.state \in {"offered", "downloading", "ready"} => core.reject = "none"

UpdateIsSound == ReadyIsTheOffer /\ NeverOverruns /\ FailureHasReason
=============================================================================
