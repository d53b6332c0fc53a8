--------------------------- MODULE ServicesProofs ---------------------------
(***************************************************************************)
(* Proofs about the parts of Services, for any values of their parameters: *)
(* an inductive invariant of each part, and from these what the services   *)
(* keep together.                                                          *)
(***************************************************************************)
EXTENDS Services, FiniteSets, SequenceTheorems, FiniteSetTheorems, TLAPS
-----------------------------------------------------------------------------
(* Firmware updates.                                                       *)

\* What stands has been judged, and not a byte more of it is taken than it has.
OtaInv ==
  /\ Ota!TypeOK /\ Ota!UpdateIsSound
  /\ ota.state \in {"offered", "downloading", "ready"} =>
       ota.offer \in Offers /\ Ota!Reject(ota.offer) = "none"

\* An event that is published joins the ring, or takes the place of the oldest.
LEMMA OtaRing ==
  ASSUME Ota!TypeOK, NEW ev \in Offers \union {NoOffer}
  PROVE  Ota!Kept(ev) \in Seq(Offers \union {NoOffer}) /\ Len(Ota!Kept(ev)) <= Ota!Depth
<1> DEFINE E == Offers \union {NoOffer}
<1>1. offers \in Seq(E) /\ Len(offers) \in Nat /\ Len(offers) <= 2
  BY LenProperties DEF Ota!TypeOK, Ota!Depth
<1>e. ev \in E
  OBVIOUS
<1> SUFFICES Ota!Kept(ev) \in Seq(E) /\ Len(Ota!Kept(ev)) <= 2
  BY DEF Ota!Depth
<1> HIDE DEF E
<1>2. CASE Len(offers) = 2
  <2>1. offers # <<>>
    BY <1>2
  <2>2. Tail(offers) \in Seq(E) /\ Len(Tail(offers)) = 1
    BY <1>1, <1>2, <2>1, HeadTailProperties
  <2>3. Ota!Kept(ev) = Append(Tail(offers), ev)
    BY <1>2 DEF Ota!Kept, Ota!Depth
  <2>4. Append(Tail(offers), ev) \in Seq(E) /\ Len(Append(Tail(offers), ev)) = Len(Tail(offers)) + 1
    BY <1>e, <2>2, AppendProperties
  <2>5. Ota!Kept(ev) \in Seq(E) /\ Len(Ota!Kept(ev)) = Len(Tail(offers)) + 1
    BY <2>3, <2>4, Zenon
  <2>6. Len(Tail(offers)) + 1 = 2 /\ 2 <= 2
    BY <2>2
  <2> QED BY <2>5, <2>6, Zenon
<1>3. CASE Len(offers) # 2
  <2>1. Ota!Kept(ev) = Append(offers, ev)
    BY <1>3 DEF Ota!Kept, Ota!Depth
  <2>2. Append(offers, ev) \in Seq(E) /\ Len(Append(offers, ev)) = Len(offers) + 1
    BY <1>1, <1>e, AppendProperties
  <2>3. Ota!Kept(ev) \in Seq(E) /\ Len(Ota!Kept(ev)) = Len(offers) + 1
    BY <2>1, <2>2, Zenon
  <2>4. Len(offers) + 1 <= 2
    <3>1. PICK n : n = Len(offers)
      OBVIOUS
    <3>2. n \in Nat /\ n <= 2 /\ n # 2
      BY <1>1, <1>3, <3>1, Zenon
    <3>3. n + 1 <= 2
      BY <3>2
    <3> QED BY <3>1, <3>3
  <2> QED BY <2>3, <2>4, Zenon
<1> QED BY <1>2, <1>3

\* Every step keeps that: a byte is taken, or refused with a reason, by what was offered.
LEMMA OtaNext ==
  ASSUME Ota!Parameters, OtaInv, [Ota!Next]_(Ota!vars)
  PROVE  OtaInv'
<1> DEFINE Core == [state : {"idle", "offered", "downloading", "ready", "failed"},
                    reject : Ota!Rejections, offer : Offers \union {NoOffer}, fed : Seq(ImageBytes)]
\* The record with its sequences left folded.
<1>f. ASSUME NEW state \in {"idle", "offered", "downloading", "ready", "failed"},
             NEW reject \in Ota!Rejections, NEW fed \in Seq(ImageBytes)
      PROVE  /\ [ota EXCEPT !.state = state] \in Core /\ [ota EXCEPT !.fed = fed] \in Core
             /\ [ota EXCEPT !.state = state, !.fed = fed] \in Core
             /\ [ota EXCEPT !.state = state, !.reject = reject, !.fed = fed] \in Core
  <2>0. PICK S : S = Seq(ImageBytes)
    OBVIOUS
  <2>1. ota \in [state : {"idle", "offered", "downloading", "ready", "failed"},
                 reject : Ota!Rejections, offer : Offers \union {NoOffer}, fed : S]
    BY <2>0 DEF OtaInv, Ota!TypeOK
  <2>2. Core = [state : {"idle", "offered", "downloading", "ready", "failed"},
                reject : Ota!Rejections, offer : Offers \union {NoOffer}, fed : S]
    BY <2>0
  <2>3. fed \in S
    BY <2>0
  <2> HIDE DEF Core
  <2> QED BY <2>1, <2>2, <2>3
<1>g. <<>> \in Seq(ImageBytes)
  BY EmptySeq
<1>0. /\ offers \in Seq(Offers \union {NoOffer}) /\ Len(offers) <= Ota!Depth /\ ota \in Core
      /\ told \in {"nothing", "available", "failed"}
      /\ ota.fed \in Seq(ImageBytes) /\ Len(ota.fed) \in Nat
  BY LenProperties DEF OtaInv, Ota!TypeOK
<1>a. ASSUME ota' = ota, told' = told, offers' \in Seq(Offers \union {NoOffer}),
             Len(offers') <= Ota!Depth
      PROVE  OtaInv'
  BY <1>a DEF OtaInv, Ota!TypeOK, Ota!UpdateIsSound, Ota!ReadyIsTheOffer, Ota!NeverOverruns,
              Ota!FailureHasReason, Ota!Reject, Ota!Newer, Ota!Compared, Ota!Part
<1>1. ASSUME NEW o \in Offers, Ota!Offer(o) PROVE OtaInv'
  <2>1. offers' = Ota!Kept(o) /\ ota' = ota /\ told' = told
    BY <1>1 DEF Ota!Offer
  <2>2. offers' \in Seq(Offers \union {NoOffer}) /\ Len(offers') <= Ota!Depth
    BY <2>1, OtaRing DEF OtaInv
  <2> QED BY <1>a, <2>1, <2>2
<1>2. CASE Ota!Chatter
  <2>1. offers' = Ota!Kept(NoOffer) /\ ota' = ota /\ told' = told
    BY <1>2 DEF Ota!Chatter
  <2>2. offers' \in Seq(Offers \union {NoOffer}) /\ Len(offers') <= Ota!Depth
    BY <2>1, OtaRing DEF OtaInv
  <2> QED BY <1>a, <2>1, <2>2
<1>3. CASE Ota!Tick
  <2>1. /\ offers # <<>> /\ offers' = Tail(offers)
        /\ Head(offers) = NoOffer => ota' = ota /\ told' = told
        /\ Head(offers) # NoOffer =>
             /\ ota' = Ota!Judged(Head(offers))
             /\ told' \in {told, "available", "failed"}
    BY <1>3 DEF Ota!Tick
  <2>2. /\ Head(offers) \in Offers \union {NoOffer}
        /\ offers' \in Seq(Offers \union {NoOffer}) /\ Len(offers') <= Ota!Depth
    <3> DEFINE E == Offers \union {NoOffer}
    <3>1. offers \in Seq(E) /\ Len(offers) \in Nat /\ Len(offers) <= 2
      BY <1>0, LenProperties DEF Ota!Depth
    <3> HIDE DEF E
    <3>2. Head(offers) \in E /\ Tail(offers) \in Seq(E) /\ Len(Tail(offers)) = Len(offers) - 1
      BY <2>1, <3>1, HeadTailProperties
    <3>3. Len(Tail(offers)) <= 2
      BY <3>1, <3>2
    <3> QED BY <2>1, <3>2, <3>3 DEF E, Ota!Depth
  <2>3. CASE Head(offers) = NoOffer
    BY <1>a, <2>1, <2>2, <2>3
  <2>4. CASE Head(offers) # NoOffer
    <3> DEFINE o == Head(offers)
    <3>1. o \in Offers /\ o.size \in Nat /\ o.sha256 \in Seq(ImageBytes) /\ Partition \in Nat
      BY <2>2, <2>4 DEF Ota!Parameters
    <3>2. /\ ota' = Ota!Judged(o) /\ Ota!Reject(o) \in {"none", "malformed", "not_newer", "too_big"}
          /\ <<>> \in Seq(ImageBytes) /\ told' \in {"nothing", "available", "failed"}
      BY <1>0, <2>1, <2>4 DEF Ota!Reject
    <3> HIDE DEF o
    <3>3. CASE Ota!Reject(o) = "none"
      <4>1. ota' = [state |-> "offered", reject |-> "none", offer |-> o, fed |-> <<>>]
        BY <3>2, <3>3 DEF Ota!Judged, Ota!Idle
      <4>2. ota' \in Core
        BY <3>1, <3>2, <4>1 DEF Ota!Rejections
      <4> QED BY <2>2, <3>1, <3>2, <3>3, <4>1, <4>2 DEF OtaInv, Ota!TypeOK, Ota!UpdateIsSound,
                 Ota!ReadyIsTheOffer, Ota!NeverOverruns, Ota!FailureHasReason
    <3>4. CASE Ota!Reject(o) # "none"
      <4>1. ota' = [state |-> "idle", reject |-> Ota!Reject(o), offer |-> NoOffer, fed |-> <<>>]
        BY <3>2, <3>4 DEF Ota!Judged, Ota!Idle
      <4>2. ota' \in Core
        BY <3>1, <3>2, <4>1 DEF Ota!Rejections
      <4> QED BY <2>2, <3>2, <4>1, <4>2 DEF OtaInv, Ota!TypeOK, Ota!UpdateIsSound,
                 Ota!ReadyIsTheOffer, Ota!NeverOverruns, Ota!FailureHasReason
    <3> QED BY <3>3, <3>4
  <2> QED BY <2>3, <2>4
<1>b. ASSUME NEW why \in Ota!Rejections, why # "none", ota' = Ota!Aborted(why),
             offers' = offers, told' = told
      PROVE  OtaInv'
  <2>1. ota' = [ota EXCEPT !.state = "failed", !.reject = why, !.fed = <<>>]
    BY <1>b DEF Ota!Aborted
  <2>2. ota' \in Core
    <3>1. "failed" \in {"idle", "offered", "downloading", "ready", "failed"}
      OBVIOUS
    <3> HIDE DEF Core
    <3>2. [ota EXCEPT !.state = "failed", !.reject = why, !.fed = <<>>] \in Core
      BY <1>f, <1>g, <3>1
    <3> QED BY <2>1, <3>2
  <2>3. ota'.state = "failed" /\ ota'.reject = why
    BY <1>0, <2>1
  <2> QED BY <1>0, <1>b, <2>2, <2>3 DEF OtaInv, Ota!TypeOK, Ota!UpdateIsSound, Ota!ReadyIsTheOffer,
             Ota!NeverOverruns, Ota!FailureHasReason
\* The offer has been judged: what follows from that.
<1>c. ASSUME ota.state \in {"offered", "downloading"}
      PROVE  /\ ota.offer \in Offers /\ Ota!Reject(ota.offer) = "none" /\ ota.reject = "none"
             /\ Ota!Newer(ota.offer.version, Current)
             /\ ota.offer.size \in Nat /\ Partition \in Nat /\ ota.offer.size <= Partition
  <2>1. ota.offer \in Offers /\ Ota!Reject(ota.offer) = "none" /\ ota.reject = "none"
    BY <1>c DEF OtaInv, Ota!UpdateIsSound, Ota!FailureHasReason
  <2>2. ota.offer.size \in Nat /\ Partition \in Nat
    BY <2>1 DEF Ota!Parameters
  <2>3. Ota!Newer(ota.offer.version, Current) /\ ~(ota.offer.size > Partition)
    BY <2>1 DEF Ota!Reject
  <2> QED BY <2>1, <2>2, <2>3
<1>4. CASE Ota!Begin
  <2>1. ota.state = "offered" /\ offers' = offers /\ told' = told
        /\ ota' = [ota EXCEPT !.state = "downloading", !.fed = <<>>]
    BY <1>4 DEF Ota!Begin
  <2>a. ota' \in Core
    <3>1. ota.reject \in Ota!Rejections
      BY <1>0
    <3> HIDE DEF Core
    <3> QED BY <1>f, <1>g, <2>1, <3>1
  <2>2. /\ ota' \in Core /\ ota'.state = "downloading" /\ ota'.reject = ota.reject
        /\ ota'.offer = ota.offer /\ ota'.fed = <<>>
    BY <1>0, <2>1, <2>a
  <2>3. Len(ota'.fed) <= ota'.offer.size /\ ota'.offer.size <= Partition
    BY <1>c, <2>1, <2>2
  <2> QED BY <1>0, <1>c, <2>1, <2>2, <2>3 DEF OtaInv, Ota!TypeOK, Ota!UpdateIsSound,
             Ota!ReadyIsTheOffer, Ota!NeverOverruns, Ota!FailureHasReason
<1>5. ASSUME NEW data \in Ota!Chunks, Ota!Feed(data) PROVE OtaInv'
  <2>1. /\ ota.state = "downloading" /\ offers' = offers /\ told' = told
    BY <1>5 DEF Ota!Feed
  <2>a. data \in Seq(ImageBytes) /\ Len(data) \in Nat
    <3>1. data \in {<<b>> : b \in ImageBytes} \union {<<b, c>> : b, c \in ImageBytes}
      BY <1>5 DEF Ota!Chunks
    <3>2. ASSUME NEW b \in ImageBytes, data = <<b>> PROVE data \in Seq(ImageBytes) /\ Len(data) \in Nat
      BY <3>2
    <3>3. ASSUME NEW b \in ImageBytes, NEW c \in ImageBytes, data = <<b, c>>
          PROVE  data \in Seq(ImageBytes) /\ Len(data) \in Nat
      BY <3>3
    <3> QED BY <3>1, <3>2, <3>3
  <2>2. CASE Len(ota.fed) + Len(data) > ota.offer.size
    <3>1. ota' = Ota!Aborted("long")
      BY <1>5, <2>2 DEF Ota!Feed
    <3> QED BY <1>b, <2>1, <3>1 DEF Ota!Rejections
  <2>3. CASE ~(Len(ota.fed) + Len(data) > ota.offer.size)
    <3>1. ota' = [ota EXCEPT !.fed = ota.fed \o data]
      BY <1>5, <2>3 DEF Ota!Feed
    <3>2. ota.fed \o data \in Seq(ImageBytes) /\ Len(ota.fed \o data) = Len(ota.fed) + Len(data)
      BY <1>0, <2>a, ConcatProperties
    <3>3. /\ ota' \in Core /\ ota'.state = "downloading" /\ ota'.reject = ota.reject
          /\ ota'.offer = ota.offer /\ ota'.fed = ota.fed \o data
      <4>1. ota' \in Core
        <5>1. ota.reject \in Ota!Rejections
          BY <1>0
        <5> HIDE DEF Core
        <5> QED BY <1>f, <3>1, <3>2, <5>1
      <4> QED BY <1>0, <2>1, <3>1, <4>1
    <3>4. Len(ota'.fed) <= ota'.offer.size /\ ota'.offer.size <= Partition
      BY <1>0, <1>c, <2>1, <2>a, <2>3, <3>2, <3>3
    <3> QED BY <1>0, <1>c, <2>1, <3>3, <3>4 DEF OtaInv, Ota!TypeOK, Ota!UpdateIsSound,
               Ota!ReadyIsTheOffer, Ota!NeverOverruns, Ota!FailureHasReason
  <2> QED BY <2>2, <2>3
<1>6. CASE Ota!Finish
  <2>1. ota.state = "downloading" /\ offers' = offers /\ told' = told
    BY <1>6 DEF Ota!Finish
  <2>2. CASE Len(ota.fed) # ota.offer.size
    <3>1. ota' = Ota!Aborted("short")
      BY <1>6, <2>2 DEF Ota!Finish
    <3> QED BY <1>b, <2>1, <3>1 DEF Ota!Rejections
  <2>3. CASE Len(ota.fed) = ota.offer.size /\ ota.offer.sha256 # ota.fed
    <3>1. ota' = Ota!Aborted("digest")
      BY <1>6, <2>3 DEF Ota!Finish
    <3> QED BY <1>b, <2>1, <3>1 DEF Ota!Rejections
  <2>4. CASE Len(ota.fed) = ota.offer.size /\ ota.offer.sha256 = ota.fed
    <3>1. ota' = [ota EXCEPT !.state = "ready"]
      BY <1>6, <2>4 DEF Ota!Finish
    <3>2. /\ ota' \in Core /\ ota'.state = "ready" /\ ota'.reject = ota.reject
          /\ ota'.offer = ota.offer /\ ota'.fed = ota.fed
      BY <1>0, <3>1
    <3>3. Len(ota'.fed) <= ota'.offer.size /\ ota'.offer.size <= Partition
      BY <1>c, <2>1, <2>4, <3>2
    <3> QED BY <1>0, <1>c, <2>1, <2>4, <3>2, <3>3 DEF OtaInv, Ota!TypeOK, Ota!UpdateIsSound,
               Ota!ReadyIsTheOffer, Ota!NeverOverruns, Ota!FailureHasReason
  <2> QED BY <2>2, <2>3, <2>4
<1>7. CASE Ota!Abort
  BY <1>7, <1>b DEF Ota!Abort, Ota!Rejections
<1>8. CASE UNCHANGED Ota!vars
  BY <1>0, <1>8, <1>a DEF Ota!vars
<1> QED BY <1>1, <1>2, <1>3, <1>4, <1>5, <1>6, <1>7, <1>8 DEF Ota!Next

\* Nothing has been offered yet.
LEMMA OtaBegins ==
  ASSUME Ota!Parameters, Ota!Init
  PROVE  OtaInv
<1>1. offers = <<>> /\ ota = Ota!Idle /\ told = "nothing"
  BY DEF Ota!Init
<1>2. ota.state = "idle" /\ ota.fed = <<>> /\ ota.offer = NoOffer /\ ota.reject = "none"
  BY <1>1 DEF Ota!Idle
<1> QED BY <1>1, <1>2 DEF OtaInv, Ota!TypeOK, Ota!UpdateIsSound, Ota!ReadyIsTheOffer,
           Ota!NeverOverruns, Ota!FailureHasReason, Ota!Idle, Ota!Rejections, Ota!Depth
-----------------------------------------------------------------------------
(* The network.                                                            *)

WifiInv == Wifi!TypeOK /\ Wifi!WifiAgrees

\* What the core can be.
Cores == [state : Wifi!States, backoff : 0..(MaxDoubling + 1), have : BOOLEAN]

\* Every step of the user, the radio and the service keeps that.
LEMMA WifiNext ==
  ASSUME MaxDoubling \in Nat, WifiInv, [Wifi!Next]_(Wifi!vars)
  PROVE  WifiInv'
<1> USE DEF WifiInv, Wifi!TypeOK, Wifi!WifiAgrees, Wifi!ShownIsOnline, Wifi!OnlineHasAddress,
            Wifi!BackoffIsEarned, Wifi!SavedIsTried, Wifi!HaveCredentials, Wifi!NoNetwork,
            Wifi!Names, Wifi!States, Wifi!Statuses
<1>l. Wifi!Longer \in 0..(MaxDoubling + 1) /\ Wifi!Longer > 0
  BY DEF Wifi!Longer
<1>b. net \in Cores /\ net.backoff \in 0..(MaxDoubling + 1) /\ 0 \in 0..(MaxDoubling + 1)
      /\ net.have \in BOOLEAN
  BY DEF Cores
\* What is entered is a state of the core's.
<1>e. ASSUME NEW s \in Wifi!States, NEW b \in 0..(MaxDoubling + 1), Wifi!Enter(s, b)
      PROVE  net' \in Cores /\ net'.state = s /\ net'.backoff = b /\ net'.have = net.have
  BY <1>b, <1>e DEF Wifi!Enter, Cores
<1>s. "idle" \in Wifi!States /\ "connecting" \in Wifi!States /\ "waiting" \in Wifi!States
      /\ "online" \in Wifi!States /\ "backoff" \in Wifi!States
  OBVIOUS
<1>r. ASSUME NEW n \in Wifi!Names, radio' = [radio EXCEPT !.on = n]
      PROVE  radio' \in [on : Wifi!Names, status : Wifi!Statuses]
  BY <1>r
<1>w. ASSUME NEW m \in Wifi!Names, NEW n \in Wifi!Names, Wifi!Write(m, n)
      PROVE  /\ saved' \in [ssid : Wifi!Names, pass : Wifi!Names] /\ notice' \in BOOLEAN
             /\ net.have # Wifi!HaveCredentials' => notice'
             /\ net' = net /\ last' = last /\ radio' = radio /\ shown' = shown
             /\ address' = address
  BY <1>w DEF Wifi!Write
<1>1. ASSUME NEW n \in Networks, Wifi!Save(n) PROVE WifiInv'
  <2>1. saved.ssid \in Wifi!Names /\ n \in Wifi!Names /\ Wifi!Write(saved.ssid, n) /\ editing' = n
    BY <1>1 DEF Wifi!Save
  <2> QED BY <1>w, <2>1
<1>2. CASE Wifi!SaveName
  <2>1. PICK n \in {editing, Wifi!NoNetwork, saved.ssid} : Wifi!Write(n, saved.pass)
    BY <1>2 DEF Wifi!SaveName
  <2>2. n \in Wifi!Names /\ saved.pass \in Wifi!Names /\ editing' = Wifi!NoNetwork
    BY <1>2 DEF Wifi!SaveName
  <2> QED BY <1>w, <2>1, <2>2
<1>3. CASE Wifi!Forget
  <2>1. Wifi!Write(Wifi!NoNetwork, Wifi!NoNetwork) /\ editing' = editing
    BY <1>3 DEF Wifi!Forget
  <2> QED BY <1>w, <2>1
<1>9. CASE Wifi!FactoryReset
  BY <1>9 DEF Wifi!FactoryReset
<1>10. CASE Wifi!OtherSetting
  BY <1>10 DEF Wifi!OtherSetting
<1>f. ASSUME Wifi!Fail
      PROVE  /\ net' \in Cores /\ net'.have = net.have
             /\ net'.state = "backoff" /\ net'.backoff > 0
             /\ shown' = FALSE /\ radio' = radio
  <2>1. Wifi!Enter("backoff", Wifi!Longer)
    BY <1>f DEF Wifi!Fail
  <2>2. shown' = FALSE /\ radio' = radio
    BY <1>f DEF Wifi!Fail, Wifi!DoDown, Wifi!DoNothing
  <2> QED BY <1>l, <1>e, <1>s, <2>1, <2>2
<1>4. CASE Wifi!TickSettings
  <2>1. /\ notice' = FALSE /\ saved' = saved /\ editing' = editing /\ last' = last
        /\ address' = address /\ Wifi!Credentials
    BY <1>4 DEF Wifi!TickSettings
  <2>2. CASE ~Wifi!HaveCredentials /\ Wifi!Forgotten
    <3>1. net' = [net EXCEPT !.state = "idle", !.have = FALSE]
      BY <2>2 DEF Wifi!Forgotten
    <3>2. /\ shown' = FALSE
          /\ radio' = radio \/ radio' = [radio EXCEPT !.on = Wifi!NoNetwork]
      BY <2>2 DEF Wifi!Forgotten, Wifi!DoDown, Wifi!DoDisconnect
    <3>3. net' \in Cores /\ net'.state = "idle" /\ net'.have = FALSE
      BY <1>b, <1>s, <3>1 DEF Cores
    <3>4. radio' \in [on : Wifi!Names, status : Wifi!Statuses]
      BY <1>r, <3>2
    <3> HIDE DEF Wifi!States, Wifi!Statuses, Wifi!Names
    <3> QED BY <2>1, <2>2, <3>2, <3>3, <3>4 DEF Cores
  <2>3. CASE /\ Wifi!HaveCredentials /\ net.state = "idle" /\ Wifi!DoConnect
             /\ net' = [state |-> "connecting", backoff |-> 0, have |-> TRUE]
    <3>1. net' \in Cores /\ net'.state = "connecting" /\ net'.have = TRUE
      BY <1>b, <1>s, <2>3 DEF Cores
    <3>2. saved.ssid \in Wifi!Names /\ radio' = [radio EXCEPT !.on = saved.ssid] /\ shown' = shown
      BY <2>3 DEF Wifi!DoConnect
    <3>3. radio' \in [on : Wifi!Names, status : Wifi!Statuses]
      BY <1>r, <3>2
    <3> QED BY <2>1, <2>3, <3>1, <3>2, <3>3 DEF Cores
  <2>4. CASE /\ Wifi!HaveCredentials /\ net.state # "idle" /\ Wifi!DoNothing
             /\ net' = [net EXCEPT !.have = TRUE]
    <3>1. net' \in Cores /\ net'.state = net.state /\ net'.backoff = net.backoff
          /\ net'.have = TRUE
      BY <1>b, <2>4 DEF Cores
    <3> QED BY <2>1, <2>4, <3>1 DEF Wifi!DoNothing, Cores
  <2> QED BY <2>1, <2>2, <2>3, <2>4 DEF Wifi!Credentials
<1>5. CASE Wifi!TickRadio
  <2>1. /\ radio.status # last /\ last' = radio.status
        /\ saved' = saved /\ editing' = editing /\ notice' = notice
        /\ address' = (radio.status = "online" \/ (address /\ radio.status = "associated"))
    BY <1>5 DEF Wifi!TickRadio
  <2>2. CASE Wifi!Associated
    <3>1. radio.status = "associated" /\ radio' = radio /\ shown' = shown
      BY <2>2 DEF Wifi!Associated, Wifi!DoNothing
    <3>2. CASE net.state = "connecting" /\ Wifi!Enter("waiting", net.backoff)
      <4>1. net' \in Cores /\ net'.state = "waiting" /\ net'.backoff = net.backoff
            /\ net'.have = net.have
        BY <1>b, <1>e, <1>s, <3>2
      <4> QED BY <2>1, <3>1, <3>2, <4>1 DEF Cores
    <3>3. CASE net.state # "connecting" /\ net' = net
      BY <2>1, <3>1, <3>3
    <3> QED BY <2>2, <3>2, <3>3 DEF Wifi!Associated
  <2>3. CASE Wifi!GotAddress
    <3>1. CASE net.state = "online" /\ net' = net /\ Wifi!DoNothing
      BY <2>1, <2>3, <3>1 DEF Wifi!DoNothing, Wifi!GotAddress
    <3>2. CASE net.state # "online" /\ Wifi!Enter("online", 0) /\ Wifi!DoUp
      <4>1. net' \in Cores /\ net'.state = "online" /\ net'.backoff = 0 /\ net'.have = net.have
        BY <1>b, <1>e, <1>s, <3>2
      <4>2. radio' = radio /\ shown' = TRUE /\ radio.status = "online"
        BY <2>3, <3>2 DEF Wifi!DoUp, Wifi!GotAddress
      <4> QED BY <2>1, <3>2, <4>1, <4>2 DEF Cores
    <3> QED BY <2>3, <3>1, <3>2 DEF Wifi!GotAddress
  <2>4. CASE Wifi!Lost
    <3>1. CASE net.state = "idle" /\ net' = net /\ Wifi!DoNothing
      BY <2>1, <2>4, <3>1 DEF Wifi!DoNothing, Wifi!Lost
    <3>2. CASE net.state # "idle" /\ Wifi!Fail
      BY <1>f, <2>1, <3>2 DEF Cores
    <3> QED BY <2>4, <3>1, <3>2 DEF Wifi!Lost
  <2> QED BY <1>5, <2>2, <2>3, <2>4 DEF Wifi!TickRadio
<1>6. CASE Wifi!TickCore
  <2>1. saved' = saved /\ editing' = editing /\ notice' = notice /\ last' = last
        /\ address' = address
    BY <1>6 DEF Wifi!TickCore
  <2>2. CASE net.state \in {"connecting", "waiting"} /\ Wifi!Fail
    BY <1>f, <2>1, <2>2 DEF Cores
  <2>4. CASE net.state = "backoff" /\ ~net.have /\ Wifi!Enter("idle", net.backoff)
             /\ Wifi!DoNothing
    <3>1. net' \in Cores /\ net'.state = "idle" /\ net'.have = net.have
      BY <1>b, <1>e, <1>s, <2>4
    <3> QED BY <2>1, <2>4, <3>1 DEF Wifi!DoNothing, Cores
  <2>3. CASE net.state = "backoff" /\ net.have
             /\ Wifi!Enter("connecting", net.backoff) /\ Wifi!DoConnect
    <3>1. net' \in Cores /\ net'.state = "connecting" /\ net'.have = net.have
      BY <1>b, <1>e, <1>s, <2>3
    <3>2. saved.ssid \in Wifi!Names /\ radio' = [radio EXCEPT !.on = saved.ssid] /\ shown' = shown
      BY <2>3 DEF Wifi!DoConnect
    <3>3. radio' \in [on : Wifi!Names, status : Wifi!Statuses]
      BY <1>r, <3>2
    <3> QED BY <2>1, <2>3, <3>1, <3>2, <3>3 DEF Cores
  <2> QED BY <1>6, <2>2, <2>3, <2>4 DEF Wifi!TickCore
<1>7. CASE Wifi!RadioMoves
  BY <1>7 DEF Wifi!RadioMoves
<1>8. CASE UNCHANGED Wifi!vars
  BY <1>8 DEF Wifi!vars
<1> QED BY <1>1, <1>2, <1>3, <1>4, <1>5, <1>6, <1>7, <1>8, <1>9, <1>10 DEF Wifi!Next

\* The core starts to connect, if there is a network.
LEMMA WifiBegins ==
  ASSUME MaxDoubling \in Nat, Wifi!Init
  PROVE  WifiInv
<1>1. PICK n \in Wifi!Names :
        /\ saved = [ssid |-> n, pass |-> n]
        /\ editing = Wifi!NoNetwork
        /\ notice = FALSE
        /\ net = [state |-> IF n = Wifi!NoNetwork THEN "idle" ELSE "connecting",
                  backoff |-> 0, have |-> n # Wifi!NoNetwork]
        /\ last = "down"
        /\ radio = [on |-> n, status |-> "down"]
        /\ shown = FALSE /\ address = FALSE
  BY DEF Wifi!Init, Wifi!Names
<1>2. 0 \in 0..(MaxDoubling + 1) /\ net.backoff = 0 /\ net.have = (n # Wifi!NoNetwork)
      /\ net.state = (IF n = Wifi!NoNetwork THEN "idle" ELSE "connecting")
  BY <1>1
<1> QED BY <1>1, <1>2 DEF Wifi!Init, WifiInv, Wifi!TypeOK, Wifi!WifiAgrees, Wifi!ShownIsOnline, Wifi!OnlineHasAddress,
       Wifi!BackoffIsEarned, Wifi!SavedIsTried, Wifi!HaveCredentials, Wifi!NoNetwork,
       Wifi!Names, Wifi!States, Wifi!Statuses
-----------------------------------------------------------------------------
(* Input and idling.                                                       *)

\* What is swallowed is a finger that is down.
PowerInv == Power!TypeOK /\ Power!InputAgrees /\ (touch.swallowing => touch.down)

\* A press leaves the policy awake, and whoever listens knows.
LEMMA PowerPress ==
  ASSUME Power!Parameters, PowerInv
  PROVE  /\ Power!Activity(power) \in [phase : {"active"}, since : 0..Power!Longest,
              charging : BOOLEAN, low : BOOLEAN, sleep : Timeouts, changed : BOOLEAN]
         /\ Power!Gate(heard, power) \in
              [finger : BOOLEAN, buttons : SUBSET Buttons, dozing : BOOLEAN, lit : BOOLEAN]
         /\ Power!Gate(heard, power).finger = heard.finger
         /\ Power!Gate(heard, power).buttons = heard.buttons
         /\ Power!Gate(heard, power).dozing = FALSE /\ Power!Gate(heard, power).lit = TRUE
<1>0. power \in [phase : Power!Phases, since : 0..Power!Longest, charging : BOOLEAN, low : BOOLEAN,
                 sleep : Timeouts, changed : BOOLEAN]
      /\ heard \in [finger : BOOLEAN, buttons : SUBSET Buttons, dozing : BOOLEAN, lit : BOOLEAN]
  BY DEF PowerInv, Power!TypeOK
<1>1. 0 \in 0..Power!Longest
  <2>1. Power!Longest \in Timeouts
    BY DEF Power!Parameters, Power!Longest
  <2> QED BY <2>1 DEF Power!Parameters
<1> DEFINE c == Power!Activity(power)
<1>2. /\ c \in [phase : {"active"}, since : 0..Power!Longest,
                charging : BOOLEAN, low : BOOLEAN, sleep : Timeouts, changed : BOOLEAN]
      /\ c.changed = (power.changed \/ power.phase # "active")
  <2> DEFINE d == Power!SetPhase(power, "active")
  <2>1. /\ d \in [phase : {"active"}, since : 0..Power!Longest,
                charging : BOOLEAN, low : BOOLEAN, sleep : Timeouts, changed : BOOLEAN]
        /\ d.changed = (power.changed \/ power.phase # "active")
    <3>1. PICK b \in BOOLEAN : b = (power.changed \/ power.phase # "active")
      OBVIOUS
    <3>2. d = [power EXCEPT !.phase = "active", !.changed = power.changed \/ power.phase # "active"]
      BY DEF Power!SetPhase
    <3>3. d = [power EXCEPT !.phase = "active", !.changed = b]
      BY <3>1, <3>2, Zenon
    <3> HIDE DEF d
    <3> QED BY <1>0, <3>1, <3>3
  <2>2. c = [d EXCEPT !.since = 0]
    BY DEF Power!Activity
  <2> HIDE DEF d, c
  <2> QED BY <1>1, <2>1, <2>2
<1>3. Power!Gate(heard, power) = IF c.changed THEN [heard EXCEPT !.lit = TRUE, !.dozing = FALSE]
                                 ELSE heard
  BY DEF Power!Gate
<1> HIDE DEF c
<1>4. CASE c.changed
  <2>1. PICK h : h = [heard EXCEPT !.lit = TRUE, !.dozing = FALSE]
    OBVIOUS
  <2>2. h \in [finger : BOOLEAN, buttons : SUBSET Buttons, dozing : BOOLEAN, lit : BOOLEAN]
        /\ h.finger = heard.finger /\ h.buttons = heard.buttons /\ h.dozing = FALSE /\ h.lit = TRUE
    BY <1>0, <2>1
  <2>3. Power!Gate(heard, power) = h
    BY <1>3, <1>4, <2>1, Zenon
  <2> QED BY <1>2, <2>2, <2>3, Zenon DEF c
<1>5. CASE ~c.changed
  <2>1. power.phase = "active"
    BY <1>2, <1>5
  <2>2. heard.dozing = FALSE /\ heard.lit = TRUE
    BY <1>0, <2>1 DEF PowerInv, Power!InputAgrees, Power!DozesAsleep
  <2>3. Power!Gate(heard, power) = heard
    BY <1>3, <1>5, Zenon
  <2> QED BY <1>0, <1>2, <2>2, <2>3 DEF c
<1> QED BY <1>4, <1>5

\* Every poll and every tick keeps that.
LEMMA PowerNext ==
  ASSUME Power!Parameters, PowerInv, [Power!Next]_(Power!vars)
  PROVE  PowerInv'
<1> DEFINE Heard == [finger : BOOLEAN, buttons : SUBSET Buttons, dozing : BOOLEAN, lit : BOOLEAN]
           Btn == [published : SUBSET Buttons, raw : SUBSET Buttons, held : 0..Debounce]
           Pow == [phase : Power!Phases, since : 0..Power!Longest, charging : BOOLEAN, low : BOOLEAN,
                   sleep : Timeouts, changed : BOOLEAN]
<1>0. /\ power \in Pow /\ heard \in Heard /\ btn \in Btn
      /\ touch \in [down : BOOLEAN, swallowing : BOOLEAN]
      /\ stage \in {"touch", "buttons", "tick", "phase"}
      /\ heard.finger = (touch.down /\ ~touch.swallowing)
      /\ heard.buttons \subseteq btn.published
      /\ heard.dozing = (power.phase = "asleep") /\ heard.lit = (power.phase # "asleep")
      /\ touch.swallowing => touch.down
  BY DEF PowerInv, Power!TypeOK, Power!InputAgrees, Power!TouchesPair, Power!NoStuckButton,
         Power!DozesAsleep
<1>q. ASSUME power' \in Pow, heard' \in Heard, btn' \in Btn,
             touch' \in [down : BOOLEAN, swallowing : BOOLEAN],
             stage' \in {"touch", "buttons", "tick", "phase"},
             heard'.finger = (touch'.down /\ ~touch'.swallowing),
             heard'.buttons \subseteq btn'.published,
             heard'.dozing = (power'.phase = "asleep"), heard'.lit = (power'.phase # "asleep"),
             touch'.swallowing => touch'.down
      PROVE  PowerInv'
  BY <1>q DEF PowerInv, Power!TypeOK, Power!InputAgrees, Power!TouchesPair, Power!NoStuckButton,
         Power!DozesAsleep
<1>a. Power!Phases = {"active", "dim", "asleep"}
  BY DEF Power!Phases
<1>n. Power!Longest \in Nat /\ Debounce \in Nat
  <2>1. Power!Longest \in Timeouts
    BY DEF Power!Parameters, Power!Longest
  <2> QED BY <2>1 DEF Power!Parameters
\* A press: the policy is awake, and the bus has heard of it.
<1>g. ASSUME NEW f \in BOOLEAN, NEW S \in SUBSET Buttons
      PROVE  /\ Power!Activity(power) \in Pow /\ Power!Activity(power).phase = "active"
             /\ Power!Gate(heard, power).finger = heard.finger
             /\ Power!Gate(heard, power).buttons = heard.buttons
             /\ \A h : h = [Power!Gate(heard, power) EXCEPT !.finger = f] =>
                  h \in Heard /\ h.finger = f /\ h.buttons = heard.buttons /\ h.dozing = FALSE /\ h.lit = TRUE
             /\ \A h : h = [Power!Gate(heard, power) EXCEPT !.buttons = S] =>
                  h \in Heard /\ h.finger = heard.finger /\ h.buttons = S /\ h.dozing = FALSE /\ h.lit = TRUE
  <2> DEFINE gate == Power!Gate(heard, power)
  <2>1. gate \in Heard /\ gate.finger = heard.finger /\ gate.buttons = heard.buttons
        /\ gate.dozing = FALSE /\ gate.lit = TRUE
    BY PowerPress
  <2>2. Power!Activity(power) \in Pow /\ Power!Activity(power).phase = "active"
    BY <1>a, PowerPress
  <2> HIDE DEF gate
  <2>3. \A h : h = [gate EXCEPT !.finger = f] =>
          h \in Heard /\ h.finger = f /\ h.buttons = heard.buttons /\ h.dozing = FALSE /\ h.lit = TRUE
    BY <2>1
  <2>4. \A h : h = [gate EXCEPT !.buttons = S] =>
          h \in Heard /\ h.finger = heard.finger /\ h.buttons = S /\ h.dozing = FALSE /\ h.lit = TRUE
    BY <2>1
  <2> HIDE DEF Pow, Heard
  <2> QED BY <2>1, <2>2, <2>3, <2>4, Zenon DEF gate
<1>1. CASE Power!PollTouch
  <2>0. btn' = btn /\ stage' = "buttons"
    BY <1>1 DEF Power!PollTouch
  <2>1. CASE Power!Lands
    <3>0. PICK d \in BOOLEAN : d = Power!Delivers(power)
      BY DEF Power!Delivers
    <3>1. /\ ~touch.down /\ power' = Power!Activity(power)
          /\ touch' = [down |-> TRUE, swallowing |-> touch.swallowing \/ ~d]
          /\ heard' = [Power!Gate(heard, power) EXCEPT
                         !.finger = Power!Gate(heard, power).finger \/ d]
      BY <2>1, <3>0 DEF Power!Lands
    <3>2. PICK f \in BOOLEAN : f = (heard.finger \/ d)
      OBVIOUS
    <3>3. heard' = [Power!Gate(heard, power) EXCEPT !.finger = f]
      BY <1>0, <1>g, <3>1, <3>2, Zenon
    <3>4. /\ heard' \in Heard /\ heard'.finger = f /\ heard'.buttons = heard.buttons
          /\ heard'.dozing = FALSE /\ heard'.lit = TRUE
          /\ power' \in Pow /\ power'.phase = "active"
      <4>1. {} \in SUBSET Buttons
        OBVIOUS
      <4> HIDE DEF Pow, Heard
      <4> QED BY <1>g, <3>1, <3>3, <4>1
    <3>5. PICK s \in BOOLEAN : s = (touch.swallowing \/ ~d)
      OBVIOUS
    <3>6. touch' = [down |-> TRUE, swallowing |-> s]
      BY <3>1, <3>5
    <3>7. touch' \in [down : BOOLEAN, swallowing : BOOLEAN] /\ touch'.down
          /\ heard'.finger = (touch'.down /\ ~touch'.swallowing)
      <4>1. touch'.down /\ touch'.swallowing = s /\ touch' \in [down : BOOLEAN, swallowing : BOOLEAN]
        BY <3>6
      <4>2. ~heard.finger /\ ~touch.swallowing
        BY <1>0, <3>1
      <4>3. f = ~s
        BY <3>2, <3>5, <4>2
      <4> QED BY <3>4, <4>1, <4>3
    <3> HIDE DEF Pow, Heard, Btn
    <3> QED BY <1>0, <1>q, <2>0, <3>4, <3>7
  <2>2. CASE Power!Lifts
    <3>1. power' = power /\ touch.down /\ touch' = [down |-> FALSE, swallowing |-> FALSE]
          /\ heard' = IF touch.swallowing THEN heard ELSE [heard EXCEPT !.finger = FALSE]
      BY <2>2 DEF Power!Lifts
    <3> HIDE DEF Pow
    <3> QED BY <1>0, <1>q, <2>0, <3>1
  <2>3. CASE UNCHANGED <<power, touch, heard>>
    BY <1>0, <1>q, <2>0, <2>3
  <2> QED BY <1>1, <2>1, <2>2, <2>3 DEF Power!PollTouch
<1>2. CASE Power!PollButtons
  <2>0. touch' = touch /\ stage' = "tick"
    BY <1>2 DEF Power!PollButtons
  <2>1. PICK raw \in SUBSET Buttons :
          \/ btn' = [btn EXCEPT !.raw = raw, !.held = 0] /\ UNCHANGED <<power, heard>>
          \/ Power!Publish(raw)
          \/ UNCHANGED <<btn, power, heard>>
    BY <1>2 DEF Power!PollButtons
  <2>2. CASE btn' = [btn EXCEPT !.raw = raw, !.held = 0] /\ UNCHANGED <<power, heard>>
    <3>1. btn' \in Btn /\ btn'.published = btn.published
      <4>1. PICK D : D = 0..Debounce
        OBVIOUS
      <4>2. 0 \in D /\ btn \in [published : SUBSET Buttons, raw : SUBSET Buttons, held : D]
        BY <1>0, <1>n, <4>1
      <4>3. btn' \in [published : SUBSET Buttons, raw : SUBSET Buttons, held : D]
            /\ btn'.published = btn.published
        BY <2>2, <4>2
      <4> QED BY <4>1, <4>3
    <3> HIDE DEF Pow, Btn
    <3> QED BY <1>0, <1>q, <2>0, <2>2, <3>1
  <2>3. CASE Power!Publish(raw)
    <3>1. btn' = [btn EXCEPT !.published = raw]
      BY <2>3 DEF Power!Publish
    <3>2. btn' \in Btn /\ btn'.published = raw
      BY <1>0, <3>1
    <3>3. PICK S \in SUBSET Buttons :
            S = (heard.buttons \intersect raw) \union Power!Delivered(raw) /\ S \subseteq raw
      BY DEF Power!Delivered, Power!Pressed
    <3>4. CASE Power!Pressed(raw) = {}
      <4>1. power' = power
            /\ heard' = [heard EXCEPT !.buttons = (heard.buttons \intersect raw)
                                                     \union Power!Delivered(raw)]
        BY <2>3, <3>4 DEF Power!Publish
      <4>2. heard' = [heard EXCEPT !.buttons = S]
        BY <3>3, <4>1, Zenon
      <4> HIDE DEF Pow, Btn
      <4> QED BY <1>0, <1>q, <2>0, <3>2, <3>3, <4>1, <4>2
    <3>5. CASE Power!Pressed(raw) # {}
      <4>1. power' = Power!Activity(power)
            /\ heard' = [Power!Gate(heard, power) EXCEPT
                  !.buttons = (Power!Gate(heard, power).buttons \intersect raw)
                                 \union Power!Delivered(raw)]
        BY <2>3, <3>5 DEF Power!Publish
      <4>2. heard' = [Power!Gate(heard, power) EXCEPT !.buttons = S]
        <5>1. Power!Gate(heard, power).buttons = heard.buttons
          BY <1>g
        <5> QED BY <3>3, <4>1, <5>1, Zenon
      <4>3. /\ heard' \in Heard /\ heard'.finger = heard.finger /\ heard'.buttons = S
            /\ heard'.dozing = FALSE /\ heard'.lit = TRUE
            /\ power' \in Pow /\ power'.phase = "active"
        <5> HIDE DEF Pow, Heard
        <5>1. \A h : h = [Power!Gate(heard, power) EXCEPT !.buttons = S] =>
                h \in Heard /\ h.finger = heard.finger /\ h.buttons = S
                /\ h.dozing = FALSE /\ h.lit = TRUE
          BY <1>g, Zenon
        <5>2. power' \in Pow /\ power'.phase = "active"
          BY <1>g, <4>1, Zenon
        <5>3. /\ heard' \in Heard /\ heard'.finger = heard.finger /\ heard'.buttons = S
              /\ heard'.dozing = FALSE /\ heard'.lit = TRUE
          BY <4>2, <5>1, Zenon
        <5> QED BY <5>2, <5>3, Zenon
      <4> HIDE DEF Pow, Btn, Heard
      <4> QED BY <1>0, <1>q, <2>0, <3>2, <3>3, <4>3
    <3> QED BY <3>4, <3>5
  <2>4. CASE UNCHANGED <<btn, power, heard>>
    BY <1>0, <1>q, <2>0, <2>4
  <2> QED BY <2>1, <2>2, <2>3, <2>4
<1>3. CASE Power!Settings
  <2>0. touch' = touch /\ stage' = "phase" /\ btn' = btn /\ heard' = heard
    BY <1>3 DEF Power!Settings
  <2>1. PICK c \in Power!Configured(power) : Power!Supplied(c)
    BY <1>3 DEF Power!Settings
  <2>2. c \in Pow /\ c.phase = power.phase
    <3>1. c = power \/ \E t \in Timeouts : c = [power EXCEPT !.sleep = t, !.changed = FALSE]
      BY <2>1 DEF Power!Configured
    <3>2. ASSUME NEW t \in Timeouts, c = [power EXCEPT !.sleep = t, !.changed = FALSE]
          PROVE  c \in Pow /\ c.phase = power.phase
      BY <1>0, <3>2
    <3> HIDE DEF Pow
    <3> QED BY <1>0, <3>1, <3>2
  <2>3. power' \in Pow /\ power'.phase = power.phase
    <3>1. power' = c \/ \E b \in BOOLEAN, l \in BOOLEAN : power' = [c EXCEPT !.charging = b, !.low = l]
      BY <2>1 DEF Power!Supplied
    <3>2. ASSUME NEW b \in BOOLEAN, NEW l \in BOOLEAN, power' = [c EXCEPT !.charging = b, !.low = l]
          PROVE  power' \in Pow /\ power'.phase = power.phase
      BY <2>2, <3>2
    <3> HIDE DEF Pow
    <3> QED BY <2>2, <3>1, <3>2
  <2> HIDE DEF Pow, Btn
  <2> QED BY <1>0, <1>q, <2>0, <2>3
<1>4. CASE Power!Tick
  <2>1. PICK dt \in 0..Power!Longest :
          /\ power' = [Power!SetPhase([power EXCEPT !.changed = FALSE], Power!PhaseNow)
                        EXCEPT !.since = Power!UpTo(@ + dt, Power!Longest)]
          /\ btn' = [btn EXCEPT !.held = Power!UpTo(@ + dt, Debounce)]
    BY <1>4 DEF Power!Tick
  <2>2. /\ touch' = touch /\ stage' = "touch"
        /\ heard' = IF power.phase = Power!PhaseNow THEN heard
                    ELSE [heard EXCEPT !.lit = Power!PhaseNow # "asleep",
                                       !.dozing = Power!PhaseNow = "asleep"]
    BY <1>4 DEF Power!Tick
  <2>3. PICK phase \in Power!Phases : phase = Power!PhaseNow
    BY <1>a DEF Power!PhaseNow
  <2>4. ASSUME NEW n \in Int, NEW top \in Nat, n >= 0
        PROVE  Power!UpTo(n + dt, top) \in 0..top
    BY <1>n, <2>4 DEF Power!UpTo
  <2>5. PICK held \in 0..Debounce : held = Power!UpTo(btn.held + dt, Debounce)
    <3>1. btn.held \in Int /\ btn.held >= 0
      BY <1>0, <1>n
    <3> QED BY <1>n, <2>4, <3>1
  <2>6. PICK since \in 0..Power!Longest : since = Power!UpTo(power.since + dt, Power!Longest)
    <3>1. power.since \in Int /\ power.since >= 0
      BY <1>0, <1>n
    <3> QED BY <1>n, <2>4, <3>1
  <2>7. btn' \in Btn /\ btn'.published = btn.published
    <3>1. btn' = [btn EXCEPT !.held = held]
      BY <2>1, <2>5, Zenon
    <3> QED BY <1>0, <3>1
  <2>8. power' \in Pow /\ power'.phase = phase
    <3> DEFINE c == [power EXCEPT !.changed = FALSE]
               d == Power!SetPhase(c, phase)
    <3>1. c \in Pow /\ c.since = power.since
      BY <1>0
    <3> HIDE DEF c
    <3>2. PICK b \in BOOLEAN : b = (c.changed \/ c.phase # phase)
      OBVIOUS
    <3>3. d = [c EXCEPT !.phase = phase, !.changed = b]
      <4>1. d = [c EXCEPT !.phase = phase, !.changed = c.changed \/ c.phase # phase]
        BY DEF Power!SetPhase
      <4> QED BY <3>2, <4>1, Zenon
    <3> HIDE DEF d
    <3>4. d \in Pow /\ d.since = power.since /\ d.phase = phase
      BY <3>1, <3>3
    <3>5. power' = [d EXCEPT !.since = Power!UpTo(d.since + dt, Power!Longest)]
      BY <2>1, <2>3 DEF c, d
    <3>6. power' = [d EXCEPT !.since = since]
      BY <2>6, <3>4, <3>5, Zenon
    <3> QED BY <3>4, <3>6
  <2>9. heard' = IF power.phase = phase THEN heard
                 ELSE [heard EXCEPT !.lit = phase # "asleep", !.dozing = phase = "asleep"]
    BY <2>2, <2>3, Zenon
  <2>10. /\ heard' \in Heard /\ heard'.dozing = (phase = "asleep") /\ heard'.lit = (phase # "asleep")
         /\ heard'.finger = heard.finger /\ heard'.buttons = heard.buttons
    <3>1. CASE power.phase = phase
      BY <1>0, <2>9, <3>1
    <3>2. CASE power.phase # phase
      <4>1. PICK l \in BOOLEAN, z \in BOOLEAN : l = (phase # "asleep") /\ z = (phase = "asleep")
        OBVIOUS
      <4>2. heard' = [heard EXCEPT !.lit = l, !.dozing = z]
        BY <2>9, <3>2, <4>1, Zenon
      <4> QED BY <1>0, <4>1, <4>2
    <3> QED BY <3>1, <3>2
  <2> HIDE DEF Pow, Btn, Heard
  <2> QED BY <1>0, <1>q, <2>2, <2>7, <2>8, <2>10
<1>5. CASE UNCHANGED Power!vars
  BY <1>0, <1>5, <1>q DEF Power!vars
<1> QED BY <1>1, <1>2, <1>3, <1>4, <1>5 DEF Power!Next

\* Nothing is down, and the screen is lit.
LEMMA PowerBegins ==
  ASSUME Power!Parameters, Power!Init
  PROVE  PowerInv
<1>1. PICK t \in Timeouts :
        /\ power = [phase |-> "active", since |-> 0, charging |-> FALSE, low |-> FALSE,
                    sleep |-> t, changed |-> FALSE]
        /\ touch = [down |-> FALSE, swallowing |-> FALSE]
        /\ btn = [published |-> {}, raw |-> {}, held |-> 0]
        /\ stage = "touch"
        /\ heard = [finger |-> FALSE, buttons |-> {}, dozing |-> FALSE, lit |-> TRUE]
  BY DEF Power!Init
<1>2. 0 \in 0..Power!Longest /\ 0 \in 0..Debounce
  <2>1. Power!Longest \in Timeouts
    BY DEF Power!Parameters, Power!Longest
  <2> QED BY <2>1 DEF Power!Parameters
<1> QED BY <1>1, <1>2 DEF PowerInv, Power!TypeOK, Power!Phases, Power!InputAgrees,
           Power!TouchesPair, Power!NoStuckButton, Power!DozesAsleep
-----------------------------------------------------------------------------
(* The daemon's records.                                                   *)

\* A record is saved once, and deleted after that.
Saved(i) ==
  /\ saving[i] = "todo" => i \notin audio
  /\ saving[i] # "done" => record[i] = "none" /\ deleting[i] = "no" /\ i \notin deleted
  /\ deleting[i] = "record" => i \notin audio \ (raced \union failed)

\* What a purge has yet to do to a record, it does to one that nobody else has touched.
Purged(i) ==
  /\ i \in purge.left => saving[i] = "done"
  /\ purge # Records!NoPurge =>
       /\ i \notin audio \ raced
       /\ deleting[i] # "no" => i \in raced
       /\ i \in purge.left => i \notin deleted \ raced

Kept(i) ==
  /\ i \in audio \ (raced \union failed) => record[i] = "names" \/ saving[i] = "audio"
  /\ i \in deleted \ raced => record[i] = "none"
  /\ i \in deleted \ (raced \union failed) => i \notin audio
  /\ Saved(i) /\ Purged(i)

RecordsInv == Records!TypeOK /\ \A i \in RecordIds : Kept(i)

LEMMA RecordsShow == RecordsInv => Records!RecordsAreKept
BY DEF RecordsInv, Kept, Records!TypeOK, Records!RecordsAreKept, Records!NoOrphanRecording,
       Records!DeletedStaysDeleted

\* Every file operation, and a stop after any of them, keeps that.
LEMMA RecordsNext ==
  ASSUME RecordsInv, [Records!Next]_(Records!vars)
  PROVE  RecordsInv'
<1> USE DEF Records!NoPurge
<1>0. /\ audio \subseteq RecordIds /\ record \in [RecordIds -> {"none", "names", "bare"}]
      /\ saving \in [RecordIds -> {"todo", "audio", "done"}]
      /\ deleting \in [RecordIds -> {"no", "audio", "record"}]
      /\ purge \in [at : {"idle", "read", "rewrite", "records"}, left : SUBSET RecordIds]
      /\ deleted \subseteq RecordIds /\ raced \subseteq RecordIds /\ failed \subseteq RecordIds
  BY DEF RecordsInv, Records!TypeOK
<1>k. ASSUME NEW i \in RecordIds
      PROVE  Kept(i)
  BY DEF RecordsInv
<1>q. ASSUME Records!TypeOK', \A j \in RecordIds : Kept(j)'
      PROVE  RecordsInv'
  BY <1>q DEF RecordsInv
<1>r. ASSUME NEW i \in RecordIds
      PROVE  Records!Racing(i) \subseteq raced \union {i} /\ raced \subseteq Records!Racing(i)
             /\ (purge # Records!NoPurge => i \in Records!Racing(i))
  BY DEF Records!Racing
<1> USE DEF Kept, Saved, Purged
<1>1. ASSUME NEW i \in RecordIds, Records!SaveAudio(i) PROVE RecordsInv'
  <2>1. /\ saving[i] = "todo" /\ saving' = [saving EXCEPT ![i] = "audio"]
        /\ audio' = audio \union {i} /\ raced' = Records!Racing(i)
        /\ record' = record /\ deleting' = deleting /\ purge' = purge /\ deleted' = deleted
        /\ failed' = failed
    BY <1>1 DEF Records!SaveAudio
  <2>2. Records!TypeOK'
    BY <1>0, <1>r, <2>1 DEF Records!TypeOK
  <2>3. ASSUME NEW j \in RecordIds
        PROVE  Kept(j)'
    <3>1. CASE j = i
      BY <1>0, <1>k, <1>r, <2>1, <3>1
    <3>2. CASE j # i
      BY <1>0, <1>k, <1>r, <2>1, <3>2
    <3> QED BY <3>1, <3>2
  <2> QED BY <1>q, <2>2, <2>3
<1>2. ASSUME NEW i \in RecordIds, Records!SaveRecord(i) PROVE RecordsInv'
  <2>1. /\ saving[i] \in {"todo", "audio"} /\ saving' = [saving EXCEPT ![i] = "done"]
        /\ \/ /\ record' = [record EXCEPT ![i] = IF saving[i] = "audio" THEN "names" ELSE "bare"]
              /\ failed' = failed
           \/ failed' = failed \union {i} /\ record' = record
        /\ audio' = audio /\ raced' = Records!Racing(i)
        /\ deleting' = deleting /\ purge' = purge /\ deleted' = deleted
    BY <1>2 DEF Records!SaveRecord
  <2>2. Records!TypeOK'
    BY <1>0, <1>r, <2>1 DEF Records!TypeOK
  <2>3. ASSUME NEW j \in RecordIds
        PROVE  Kept(j)'
    <3>1. CASE j = i
      BY <1>0, <1>k, <1>r, <2>1, <3>1
    <3>2. CASE j # i
      BY <1>0, <1>k, <1>r, <2>1, <3>2
    <3> QED BY <3>1, <3>2
  <2> QED BY <1>q, <2>2, <2>3
<1>3. ASSUME NEW i \in RecordIds, Records!DeleteReads(i) PROVE RecordsInv'
  <2>1. /\ record[i] # "none" /\ deleting[i] = "no"
        /\ \/ /\ deleting' = [deleting EXCEPT ![i] = IF record[i] = "names" THEN "audio"
                                                 ELSE "record"]
              /\ failed' = failed
           \/ deleting' = [deleting EXCEPT ![i] = "record"] /\ failed' = failed \union {i}
        /\ audio' = audio /\ raced' = Records!Racing(i) /\ record' = record
        /\ saving' = saving /\ purge' = purge /\ deleted' = deleted
    BY <1>3 DEF Records!DeleteReads
  <2>2. Records!TypeOK'
    BY <1>0, <1>r, <2>1 DEF Records!TypeOK
  <2>3. ASSUME NEW j \in RecordIds
        PROVE  Kept(j)'
    <3>1. CASE j = i
      BY <1>0, <1>k, <1>r, <2>1, <3>1
    <3>2. CASE j # i
      BY <1>0, <1>k, <1>r, <2>1, <3>2
    <3> QED BY <3>1, <3>2
  <2> QED BY <1>q, <2>2, <2>3
<1>4. ASSUME NEW i \in RecordIds, Records!DeleteAudio(i) PROVE RecordsInv'
  <2>1. /\ deleting[i] = "audio" /\ deleting' = [deleting EXCEPT ![i] = "record"]
        /\ \/ audio' = audio \ {i} /\ failed' = failed
           \/ audio' = audio /\ failed' = failed \union {i}
        /\ raced' = raced /\ record' = record
        /\ saving' = saving /\ purge' = purge /\ deleted' = deleted
    BY <1>4 DEF Records!DeleteAudio
  <2>2. Records!TypeOK'
    BY <1>0, <2>1 DEF Records!TypeOK
  <2>3. ASSUME NEW j \in RecordIds
        PROVE  Kept(j)'
    <3>1. CASE j = i
      BY <1>0, <1>k, <2>1, <3>1
    <3>2. CASE j # i
      BY <1>0, <1>k, <2>1, <3>2
    <3> QED BY <3>1, <3>2
  <2> QED BY <1>q, <2>2, <2>3
<1>5. ASSUME NEW i \in RecordIds, Records!DeleteRecord(i) PROVE RecordsInv'
  <2>1. /\ deleting[i] = "record" /\ deleting' = [deleting EXCEPT ![i] = "no"]
        /\ \/ record' = [record EXCEPT ![i] = "none"] /\ deleted' = deleted \union {i}
           \/ record' = record /\ deleted' = deleted
        /\ audio' = audio /\ failed' = failed /\ raced' = raced /\ saving' = saving /\ purge' = purge
    BY <1>5 DEF Records!DeleteRecord
  <2>2. Records!TypeOK'
    BY <1>0, <2>1 DEF Records!TypeOK
  <2>3. ASSUME NEW j \in RecordIds
        PROVE  Kept(j)'
    <3>1. CASE j = i
      BY <1>0, <1>k, <2>1, <3>1
    <3>2. CASE j # i
      BY <1>0, <1>k, <2>1, <3>2
    <3> QED BY <3>1, <3>2
  <2> QED BY <1>q, <2>2, <2>3
\* A purge begins with what is under way marked, and without a recording; one that fails
\* half way through the recordings leaves the rest of them.
<1>p. ASSUME NEW how \in {"read", "records"}, Records!ClearsAudio(how)
      PROVE  RecordsInv'
  <2>0. record' = record /\ saving' = saving /\ deleting' = deleting /\ deleted' = deleted
        /\ failed' = failed
    BY <1>p DEF Records!ClearsAudio
  <2>1. CASE audio' = {} /\ Records!Purging(how)
    <3>1. purge' = [at |-> how, left |-> {}] /\ raced' = raced \union Records!Busy
      BY <2>1 DEF Records!Purging
    <3>2. raced' \subseteq RecordIds /\ \A j \in RecordIds : deleting[j] # "no" => j \in raced'
      BY <1>0, <3>1 DEF Records!Busy
    <3>3. Records!TypeOK'
      BY <1>0, <2>0, <2>1, <3>1, <3>2 DEF Records!TypeOK
    <3>4. raced \subseteq raced' /\ purge'.left = {}
      BY <3>1
    <3> QED BY <1>0, <1>k, <1>q, <2>0, <2>1, <3>2, <3>3, <3>4
  <2>2. CASE (\E some \in SUBSET audio : audio' = some) /\ UNCHANGED <<purge, raced>>
    <3>1. audio' \subseteq audio /\ purge' = purge /\ raced' = raced
      BY <2>2
    <3>2. Records!TypeOK'
      BY <1>0, <2>0, <3>1 DEF Records!TypeOK
    <3> QED BY <1>0, <1>k, <1>q, <2>0, <3>1, <3>2
  <2> QED BY <1>p, <2>1, <2>2 DEF Records!ClearsAudio
<1>6. CASE Records!PurgeAudio
  BY <1>6, <1>p DEF Records!PurgeAudio
<1>7. CASE Records!PurgeReads
  <2>1. /\ purge.at = "read"
        /\ \E some \in SUBSET {i \in RecordIds : record[i] = "names"} :
             purge' = [at |-> "rewrite", left |-> some]
        /\ failed' = failed /\ audio' = audio /\ record' = record /\ saving' = saving /\ deleting' = deleting
        /\ deleted' = deleted /\ raced' = raced
    BY <1>7 DEF Records!PurgeReads
  <2>2. purge # Records!NoPurge
    BY <2>1
  <2>3. Records!TypeOK'
    BY <1>0, <2>1 DEF Records!TypeOK
  <2>4. \A j \in RecordIds : j \in purge'.left => record[j] = "names"
    BY <2>1
  <2> QED BY <1>0, <1>k, <1>q, <2>1, <2>2, <2>3, <2>4
<1>8. ASSUME NEW i \in RecordIds, Records!PurgeRewrites(i) PROVE RecordsInv'
  <2>1. /\ purge.at = "rewrite" /\ i \in purge.left
        /\ purge' = [purge EXCEPT !.left = purge.left \ {i}]
        /\ record' = [record EXCEPT ![i] = "bare"]
        /\ failed' = failed /\ audio' = audio /\ saving' = saving /\ deleting' = deleting
        /\ deleted' = deleted /\ raced' = raced
    BY <1>8 DEF Records!PurgeRewrites
  <2>2. purge # Records!NoPurge
    BY <2>1
  <2>3. /\ purge' \in [at : {"idle", "read", "rewrite", "records"}, left : SUBSET RecordIds]
        /\ purge'.left = purge.left \ {i}
    BY <1>0, <2>1
  <2>4. Records!TypeOK'
    BY <1>0, <2>1, <2>3 DEF Records!TypeOK
  <2>5. ASSUME NEW j \in RecordIds
        PROVE  Kept(j)'
    <3>1. CASE j = i
      BY <1>0, <1>k, <2>1, <2>2, <2>3, <3>1
    <3>2. CASE j # i
      BY <1>0, <1>k, <2>1, <2>2, <2>3, <3>2
    <3> QED BY <3>1, <3>2
  <2> QED BY <1>q, <2>4, <2>5
<1>9. CASE Records!PurgeAll
  BY <1>9, <1>p DEF Records!PurgeAll
<1>10. CASE Records!PurgeRecords
  <2>1. /\ purge.at = "records" /\ purge' = [at |-> "rewrite", left |-> {}]
        /\ \E some \in SUBSET RecordIds :
             record' = [i \in RecordIds |-> IF i \in some THEN "none" ELSE record[i]]
        /\ failed' = failed /\ audio' = audio /\ saving' = saving /\ deleting' = deleting
        /\ deleted' = deleted /\ raced' = raced
    BY <1>10 DEF Records!PurgeRecords
  <2>2. purge # Records!NoPurge /\ purge'.left = {}
    BY <2>1
  <2>3. Records!TypeOK'
    <3>1. record' \in [RecordIds -> {"none", "names", "bare"}]
      BY <1>0, <2>1
    <3> QED BY <1>0, <2>1, <3>1 DEF Records!TypeOK
  <2>4. \A j \in RecordIds : record'[j] \in {"none", record[j]}
    BY <2>1
  <2>5. ASSUME NEW j \in RecordIds PROVE Kept(j)'
    BY <1>0, <1>k, <2>1, <2>2, <2>4
  <2> QED BY <1>q, <2>3, <2>5
<1>11. CASE Records!PurgeEnds
  <2>1. /\ purge' = Records!NoPurge /\ failed' = failed
        /\ audio' = audio /\ record' = record /\ saving' = saving /\ deleting' = deleting
        /\ deleted' = deleted /\ raced' = raced
    BY <1>11 DEF Records!PurgeEnds
  <2>2. Records!TypeOK' /\ purge'.left = {}
    BY <1>0, <2>1 DEF Records!TypeOK
  <2> QED BY <1>0, <1>k, <1>q, <2>1, <2>2
<1>12. CASE Records!Restart
  <2>1. /\ saving' = [i \in RecordIds |-> IF saving[i] = "audio" THEN "done" ELSE saving[i]]
        /\ deleting' = [i \in RecordIds |-> "no"] /\ purge' = Records!NoPurge
        /\ raced' = raced \union {i \in RecordIds : saving[i] = "audio"}
        /\ audio' = audio /\ record' = record /\ deleted' = deleted /\ failed' = failed
    BY <1>12 DEF Records!Restart
  <2>2. purge'.left = {}
    BY <2>1
  <2>3. Records!TypeOK'
    BY <1>0, <2>1 DEF Records!TypeOK
  <2>4. ASSUME NEW j \in RecordIds
        PROVE  Kept(j)'
    <3>1. CASE saving[j] = "audio"
      BY <1>0, <1>k, <2>1, <2>2, <3>1
    <3>2. CASE saving[j] # "audio"
      BY <1>0, <1>k, <2>1, <2>2, <3>2
    <3> QED BY <3>1, <3>2
  <2> QED BY <1>q, <2>3, <2>4
<1>13. CASE UNCHANGED Records!vars
  <2>1. /\ audio' = audio /\ record' = record /\ saving' = saving /\ deleting' = deleting
        /\ purge' = purge /\ deleted' = deleted /\ raced' = raced /\ failed' = failed
    BY <1>13 DEF Records!vars
  <2>2. Records!TypeOK'
    BY <1>0, <2>1 DEF Records!TypeOK
  <2> QED BY <1>k, <1>q, <2>1, <2>2
<1> QED BY <1>1, <1>2, <1>3, <1>4, <1>5, <1>6, <1>7, <1>8, <1>9, <1>10, <1>11, <1>12, <1>13
        DEF Records!Next

\* Nothing has been saved.
LEMMA RecordsBegins ==
  ASSUME Records!Init
  PROVE  RecordsInv
BY DEF Records!Init, RecordsInv, Records!TypeOK, Kept, Saved, Purged, Records!NoPurge
-----------------------------------------------------------------------------
(* The engine of the games.                                                *)

\* A run's best starts from the one it found, and is its own score once that is higher.
GameInv ==
  /\ Game!TypeOK /\ Game!GameAgrees
  /\ game.state \in {"playing", "over"} => game.best >= start
  /\ game.state = "playing" => highscore = game.best \/ lost \/ game.best = game.score

\* What an update adds to the score, and to the best.
LEMMA GameScored ==
  ASSUME Game!Parameters, GameInv, NEW d \in 0..2, Game!Due, game.score + d <= MaxScore
  PROVE  LET now == Game!Scored(d).now
             times == Game!Scored(d).beats
         IN /\ now \in [state : {"playing"}, score : 0..MaxScore, best : 0..MaxScore,
                        beat : BOOLEAN, accum : 0..(FrameWrap - 1)]
            /\ now.score = game.score + d /\ now.best >= now.score
            /\ now.best = game.best \/ (now.best = now.score /\ now.best > game.best)
            /\ times \in {0, 1} /\ now.beat = (times = 1)
            /\ times = 1 => now.best > start
<1>0. /\ game \in [state : {"closed", "attract", "playing", "over"}, score : 0..MaxScore,
                   best : 0..MaxScore, beat : BOOLEAN, accum : 0..(FrameWrap - 1)]
      /\ game.state = "playing" /\ game.accum >= GameStep
      /\ start \in 0..MaxScore /\ beats \in 0..MaxScore
      /\ beats <= 1 /\ (beats = 1 => game.best > start) /\ game.beat = (beats = 1)
      /\ game.best >= start /\ game.best >= game.score
      /\ GameStep \in Nat \ {0} /\ FrameWrap \in Nat \ {0} /\ MaxScore \in Nat
  BY DEF GameInv, Game!TypeOK, Game!GameAgrees, Game!OneRecordPerRun, Game!BestIsKept, Game!Due,
         Game!Parameters
<1> DEFINE score == game.score + d
           falls == ~game.beat /\ score > game.best /\ game.best > 0
           best == IF score > game.best THEN score ELSE game.best
<1>1. PICK s \in 0..MaxScore : s = score
  BY <1>0
<1>2. PICK b \in 0..MaxScore : b = best /\ b >= s /\ (b = game.best \/ (b = s /\ b > game.best))
                               /\ b >= game.best
  BY <1>0, <1>1
<1>3. PICK r \in BOOLEAN : r = falls
  OBVIOUS
<1>4. PICK bt \in BOOLEAN : bt = (game.beat \/ falls)
  OBVIOUS
<1>5. PICK a \in 0..(FrameWrap - 1) : a = game.accum - GameStep
  BY <1>0
<1>6. Game!Scored(d).now = [game EXCEPT !.score = score, !.best = best,
                              !.beat = game.beat \/ falls, !.accum = game.accum - GameStep]
      /\ Game!Scored(d).beats = IF falls THEN beats + 1 ELSE beats
  BY DEF Game!Scored
<1>7. Game!Scored(d).now = [game EXCEPT !.score = s, !.best = b, !.beat = bt, !.accum = a]
  BY <1>1, <1>2, <1>4, <1>5, <1>6, Zenon
<1>8. PICK t : t = Game!Scored(d).beats
  OBVIOUS
<1>9. t \in {0, 1} /\ bt = (t = 1) /\ (t = 1 => b > start)
  <2>a. beats \in {0, 1}
    <3>1. beats \in Nat /\ beats <= 1
      BY <1>0
    <3> QED BY <3>1
  <2>b. game.beat \in BOOLEAN
    BY <1>0
  <2>0. r = (~game.beat /\ s > game.best /\ game.best > 0) /\ bt = (game.beat \/ r)
    BY <1>1, <1>3, <1>4, Zenon
  <2>1. CASE r
    <3>1. t = beats + 1
      BY <1>3, <1>6, <1>8, <2>1
    <3>2. beats = 0 /\ bt = TRUE
      BY <1>0, <2>0, <2>1, <2>a, <2>b
    <3>3. b > start
      BY <1>0, <1>1, <1>2, <2>0, <2>1
    <3>4. t = 1
      BY <3>1, <3>2
    <3> QED BY <3>2, <3>3, <3>4
  <2>2. CASE ~r
    <3>1. t = beats /\ bt = game.beat
      <4>1. t = beats
        BY <1>3, <1>6, <1>8, <2>2
      <4> QED BY <2>0, <2>2, <2>b, <4>1
    <3>3. b >= game.best
      BY <1>2
    <3>4. beats = 1 => b > start
      <4>1. b \in Nat /\ game.best \in Nat /\ start \in Nat
        BY <1>0, <1>2
      <4> QED BY <1>0, <3>3, <4>1
    <3> QED BY <1>0, <2>a, <3>1, <3>4
  <2> QED BY <2>1, <2>2
<1> HIDE DEF score, falls, best
<1>10. /\ Game!Scored(d).now \in [state : {"playing"}, score : 0..MaxScore, best : 0..MaxScore,
                                 beat : BOOLEAN, accum : 0..(FrameWrap - 1)]
       /\ Game!Scored(d).now.score = s /\ Game!Scored(d).now.best = b
       /\ Game!Scored(d).now.beat = bt
  BY <1>0, <1>7
<1> QED BY <1>1, <1>2, <1>8, <1>9, <1>10 DEF score

\* Every frame, restart and end keeps that.
LEMMA GameNext ==
  ASSUME Game!Parameters, GameInv, [Game!Next]_(Game!vars)
  PROVE  GameInv'
<1> DEFINE States == {"closed", "attract", "playing", "over"}
           G == [state : States, score : 0..MaxScore, best : 0..MaxScore, beat : BOOLEAN,
                 accum : 0..(FrameWrap - 1)]
<1>p. /\ GameStep \in Nat \ {0} /\ FrameWrap \in Nat \ {0} /\ MaxScore \in Nat /\ MaxSteps \in Nat
      /\ FrameTimes \subseteq Nat
  BY DEF Game!Parameters
<1>0. /\ game \in G /\ frame \in {Game!NoFrame} \union 0..MaxSteps
      /\ highscore \in 0..MaxScore /\ start \in 0..MaxScore /\ beats \in 0..MaxScore /\ beats <= 1
      /\ lost \in BOOLEAN
      /\ game.state # "closed" =>
           /\ game.best >= game.score /\ game.best >= highscore
           /\ game.state # "playing" => highscore = game.best \/ lost
      /\ game.state \in {"playing", "over"} =>
           /\ (beats = 1) => game.best > start
           /\ game.beat = (beats = 1) /\ game.best >= start
      /\ (game.state = "playing" /\ frame = Game!NoFrame) => game.accum < GameStep
      /\ game.state = "playing" => highscore = game.best \/ lost \/ game.best = game.score
  BY DEF GameInv, Game!TypeOK, Game!GameAgrees, Game!BestIsKept, Game!OneRecordPerRun,
         Game!NeverSpirals
<1>q. ASSUME game' \in G, frame' \in {Game!NoFrame} \union 0..MaxSteps,
             highscore' \in 0..MaxScore, start' \in 0..MaxScore, beats' \in 0..MaxScore, beats' <= 1,
             lost' \in BOOLEAN,
             game'.state # "closed" =>
               /\ game'.best >= game'.score /\ game'.best >= highscore'
               /\ game'.state # "playing" => highscore' = game'.best \/ lost',
             game'.state \in {"playing", "over"} =>
               /\ (beats' = 1) => game'.best > start'
               /\ game'.beat = (beats' = 1) /\ game'.best >= start',
             (game'.state = "playing" /\ frame' = Game!NoFrame) => game'.accum < GameStep,
             game'.state = "playing" =>
               highscore' = game'.best \/ lost' \/ game'.best = game'.score
      PROVE  GameInv'
  BY <1>q DEF GameInv, Game!TypeOK, Game!GameAgrees, Game!BestIsKept, Game!OneRecordPerRun,
     Game!NeverSpirals
<1>z. 0 \in 0..MaxScore /\ 0 \in 0..(FrameWrap - 1) /\ 0 \in 0..MaxSteps /\ 0 <= 1 /\ 0 # 1
      /\ 0 # Game!NoFrame
  BY <1>p DEF Game!NoFrame
<1>1. CASE Game!Begin
  <2>1. /\ game' = [Game!Closed EXCEPT !.state = "attract", !.best = highscore] /\ lost' = FALSE
        /\ frame' = frame /\ highscore' = highscore /\ start' = start /\ beats' = beats
    BY <1>1 DEF Game!Begin
  <2>2. game' = [state |-> "attract", score |-> 0, best |-> highscore, beat |-> FALSE, accum |-> 0]
    BY <2>1 DEF Game!Closed
  <2>3. game' \in G /\ game'.state = "attract" /\ game'.best = highscore /\ game'.score = 0
    BY <1>0, <1>z, <2>2
  <2>4. highscore >= 0 /\ highscore >= highscore
    BY <1>0, <1>p
  <2> HIDE DEF G
  <2> QED BY <1>0, <1>q, <2>1, <2>3, <2>4
<1>2. CASE Game!End
  <2>1. /\ game' = Game!Closed /\ lost' = (lost \/ Game!BreaksOff)
        /\ frame' = frame /\ highscore' = highscore /\ start' = start /\ beats' = beats
    BY <1>2 DEF Game!End
  <2>2. game' \in G /\ game'.state = "closed"
    BY <1>z, <2>1 DEF Game!Closed
  <2> HIDE DEF G
  <2> QED BY <1>0, <1>q, <2>1, <2>2
<1>3. CASE Game!Restart
  <2>1. /\ game.state # "closed" /\ frame = Game!NoFrame
        /\ game' = [game EXCEPT !.state = "playing", !.score = 0, !.beat = FALSE, !.accum = 0]
        /\ lost' = (lost \/ Game!BreaksOff) /\ start' = game.best /\ beats' = 0
        /\ frame' = frame /\ highscore' = highscore
    BY <1>3 DEF Game!Restart
  <2>2. /\ game' \in G /\ game'.state = "playing" /\ game'.score = 0 /\ game'.beat = FALSE
        /\ game'.accum = 0 /\ game'.best = game.best /\ game.best \in 0..MaxScore
    BY <1>0, <1>z, <2>1
  <2>3. highscore = game.best \/ lost'
    <3>1. CASE game.state = "playing"
      <4>1. game.best > highscore \/ highscore = game.best
        BY <1>0, <1>p, <2>1, <2>2
      <4> QED BY <2>1, <3>1, <4>1 DEF Game!BreaksOff
    <3>2. CASE game.state # "playing"
      BY <1>0, <2>1, <3>2
    <3> QED BY <3>1, <3>2
  <2>4. game.best >= 0 /\ game.best >= game.best /\ 0 < GameStep
    BY <1>p, <2>2
  <2> HIDE DEF G
  <2> QED BY <1>0, <1>q, <1>z, <2>1, <2>2, <2>3, <2>4
<1>4. ASSUME NEW delta \in FrameTimes, Game!Frame(delta) PROVE GameInv'
  <2>1. /\ frame = Game!NoFrame /\ frame' = 0
        /\ game' = IF game.state = "playing"
                   THEN [game EXCEPT !.accum = (game.accum + delta) % FrameWrap] ELSE game
        /\ highscore' = highscore /\ start' = start /\ beats' = beats /\ lost' = lost
    BY <1>4 DEF Game!Frame
  <2>2. PICK a \in 0..(FrameWrap - 1) : a = (game.accum + delta) % FrameWrap
    <3>1. game.accum \in Nat /\ delta \in Nat /\ FrameWrap \in Nat \ {0}
      BY <1>0, <1>p
    <3>2. PICK n \in Nat : n = game.accum + delta
      BY <3>1
    <3>3. n % FrameWrap \in 0..(FrameWrap - 1)
      BY <3>1, <3>2
    <3> QED BY <3>2, <3>3
  <2>3. /\ game' \in G /\ game'.state = game.state /\ game'.score = game.score
        /\ game'.best = game.best /\ game'.beat = game.beat
    <3>1. CASE game.state = "playing"
      <4>1. game' = [game EXCEPT !.accum = a]
        BY <2>1, <2>2, <3>1, Zenon
      <4> QED BY <1>0, <4>1
    <3>2. CASE game.state # "playing"
      BY <1>0, <2>1, <3>2
    <3> QED BY <3>1, <3>2
  <2> HIDE DEF G
  <2> QED BY <1>0, <1>q, <1>z, <2>1, <2>3
\* What follows an update of either kind.
<1>u. ASSUME NEW d \in 0..2, frame # Game!NoFrame, Game!Due, game.score + d <= MaxScore,
             frame' = frame + 1
      PROVE  frame' \in 0..MaxSteps /\ frame' # Game!NoFrame
  <2>1. frame \in 0..MaxSteps /\ frame < MaxSteps
    BY <1>0, <1>u DEF Game!Due
  <2>2. frame + 1 \in 0..MaxSteps /\ frame + 1 # -1
    BY <1>p, <2>1
  <2> QED BY <1>u, <2>2 DEF Game!NoFrame
<1>5. ASSUME NEW d \in 0..2, Game!Update(d) PROVE GameInv'
  <2>1. /\ frame # Game!NoFrame /\ Game!Due /\ game.score + d <= MaxScore /\ frame' = frame + 1
        /\ game' = Game!Scored(d).now /\ beats' = Game!Scored(d).beats
        /\ highscore' = highscore /\ start' = start /\ lost' = lost /\ game.state = "playing"
    BY <1>5 DEF Game!Update, Game!Due
  <2>2. /\ game' \in [state : {"playing"}, score : 0..MaxScore, best : 0..MaxScore,
                      beat : BOOLEAN, accum : 0..(FrameWrap - 1)]
        /\ game'.score = game.score + d /\ game'.best >= game'.score
        /\ game'.best = game.best \/ (game'.best = game'.score /\ game'.best > game.best)
        /\ beats' \in {0, 1} /\ game'.beat = (beats' = 1)
        /\ beats' = 1 => game'.best > start
    BY <2>1, GameScored
  <2>3. /\ game' \in G /\ game'.state = "playing" /\ game'.best \in 0..MaxScore
        /\ game'.score \in 0..MaxScore
    BY <2>2
  <2>4. game.best \in 0..MaxScore /\ game.score \in 0..MaxScore /\ game.best >= game.score
        /\ game.best >= start /\ game.best >= highscore
        /\ (highscore = game.best \/ lost \/ game.best = game.score)
    BY <1>0, <2>1
  <2>5. game'.best >= game.best /\ game'.best >= highscore /\ game'.best >= start
    BY <1>0, <1>p, <2>2, <2>3, <2>4
  <2>6. highscore = game'.best \/ lost \/ game'.best = game'.score
    BY <1>p, <2>2, <2>3, <2>4
  <2>7. beats' \in 0..MaxScore /\ beats' <= 1
    <3>1. CASE beats' = 0
      BY <1>z, <3>1
    <3>2. CASE beats' = 1
      <4>1. game'.best > start
        BY <2>2, <3>2
      <4>2. 1 \in 0..MaxScore
        BY <1>0, <1>p, <2>3, <4>1
      <4> QED BY <3>2, <4>2
    <3> QED BY <2>2, <3>1, <3>2
  <2>8. frame' \in 0..MaxSteps /\ frame' # Game!NoFrame
    BY <1>u, <2>1
  <2> HIDE DEF G
  <2> QED BY <1>0, <1>q, <2>1, <2>2, <2>3, <2>5, <2>6, <2>7, <2>8
<1>6. ASSUME NEW d \in 0..2, Game!Over(d) PROVE GameInv'
  <2> DEFINE now == Game!Scored(d).now
  <2>1. /\ frame # Game!NoFrame /\ Game!Due /\ game.score + d <= MaxScore /\ frame' = frame + 1
        /\ game' = [now EXCEPT !.state = "over"] /\ beats' = Game!Scored(d).beats
        /\ highscore' = IF game'.score >= game'.best THEN game'.score ELSE highscore
        /\ start' = start /\ lost' = lost /\ game.state = "playing"
    BY <1>6 DEF Game!Over, Game!Due
  <2>2. /\ now \in [state : {"playing"}, score : 0..MaxScore, best : 0..MaxScore,
                    beat : BOOLEAN, accum : 0..(FrameWrap - 1)]
        /\ now.score = game.score + d /\ now.best >= now.score
        /\ now.best = game.best \/ (now.best = now.score /\ now.best > game.best)
        /\ beats' \in {0, 1} /\ now.beat = (beats' = 1)
        /\ beats' = 1 => now.best > start
    BY <2>1, GameScored
  <2> HIDE DEF now
  <2>3. /\ game' \in G /\ game'.state = "over" /\ game'.best = now.best
        /\ game'.score = now.score /\ game'.beat = now.beat
        /\ game'.best \in 0..MaxScore /\ game'.score \in 0..MaxScore
    BY <2>1, <2>2
  <2>4. game.best \in 0..MaxScore /\ game.score \in 0..MaxScore /\ game.best >= game.score
        /\ game.best >= start /\ game.best >= highscore
        /\ (highscore = game.best \/ lost \/ game.best = game.score)
    BY <1>0, <2>1
  <2>5. game'.best >= game.best /\ game'.best >= highscore /\ game'.best >= start
    BY <1>0, <1>p, <2>2, <2>3, <2>4
  <2>6. /\ highscore' \in 0..MaxScore /\ game'.best >= highscore'
        /\ (highscore' = game'.best \/ lost)
    <3>1. CASE game'.score >= game'.best
      BY <1>p, <2>1, <2>2, <2>3, <3>1
    <3>2. CASE ~(game'.score >= game'.best)
      <4>1. highscore' = highscore /\ game'.best = game.best /\ game'.best # game.score
        BY <1>p, <2>1, <2>2, <2>3, <2>4, <3>2
      <4> QED BY <1>0, <2>4, <2>5, <4>1
    <3> QED BY <3>1, <3>2
  <2>7. beats' \in 0..MaxScore /\ beats' <= 1
    <3>1. CASE beats' = 0
      BY <1>z, <3>1
    <3>2. CASE beats' = 1
      <4>1. game'.best > start
        BY <2>2, <2>3, <3>2
      <4>2. 1 \in 0..MaxScore
        BY <1>0, <1>p, <2>3, <4>1
      <4> QED BY <3>2, <4>2
    <3> QED BY <2>2, <3>1, <3>2
  <2>8. frame' \in 0..MaxSteps /\ frame' # Game!NoFrame
    BY <1>u, <2>1
  <2>9. game'.best >= game'.score
    BY <2>2, <2>3
  <2> HIDE DEF G
  <2> QED BY <1>0, <1>q, <2>1, <2>2, <2>3, <2>5, <2>6, <2>7, <2>8, <2>9
<1>7. CASE Game!FrameEnds
  <2>1. /\ frame # Game!NoFrame /\ ~Game!Due /\ frame' = Game!NoFrame
        /\ game' = IF frame = MaxSteps /\ game.accum >= GameStep THEN [game EXCEPT !.accum = 0] ELSE game
        /\ highscore' = highscore /\ start' = start /\ beats' = beats /\ lost' = lost
    BY <1>7 DEF Game!FrameEnds
  <2>2. CASE frame = MaxSteps /\ game.accum >= GameStep
    <3>1. /\ game' \in G /\ game'.state = game.state /\ game'.score = game.score
          /\ game'.best = game.best /\ game'.beat = game.beat /\ game'.accum = 0
      BY <1>0, <1>z, <2>1, <2>2
    <3>2. 0 < GameStep
      BY <1>p
    <3> HIDE DEF G
    <3> QED BY <1>0, <1>q, <2>1, <3>1, <3>2
  <2>3. CASE ~(frame = MaxSteps /\ game.accum >= GameStep)
    <3>1. game' = game
      BY <2>1, <2>3
    <3>2. game.state = "playing" => game.accum < GameStep
      <4>1. frame \in 0..MaxSteps /\ game.accum \in 0..(FrameWrap - 1)
        BY <1>0, <2>1
      <4>2. game.state = "playing" => ~(game.accum >= GameStep) \/ ~(frame < MaxSteps)
        BY <2>1 DEF Game!Due
      <4> QED BY <1>p, <2>3, <4>1, <4>2
    <3> HIDE DEF G
    <3> QED BY <1>0, <1>q, <2>1, <3>1, <3>2
  <2> QED BY <2>2, <2>3
<1>8. CASE UNCHANGED Game!vars
  <2>1. game' = game /\ frame' = frame /\ highscore' = highscore /\ start' = start
        /\ beats' = beats /\ lost' = lost
    BY <1>8 DEF Game!vars
  <2> HIDE DEF G
  <2> QED BY <1>0, <1>q, <2>1
<1>9. CASE Game!FactoryReset
  <2>1. /\ game' = game /\ frame' = frame /\ start' = start /\ beats' = beats /\ highscore' = 0
        /\ lost' = (lost \/ game.state # "closed")
    BY <1>9 DEF Game!FactoryReset
  <2>2. game.best \in Nat /\ game.best >= 0
    BY <1>0
  <2> HIDE DEF G
  <2> QED BY <1>0, <1>q, <1>z, <2>1, <2>2
<1> QED BY <1>1, <1>2, <1>3, <1>4, <1>5, <1>6, <1>7, <1>8, <1>9 DEF Game!Next

\* No game is open.
LEMMA GameBegins ==
  ASSUME Game!Parameters, Game!Init
  PROVE  GameInv
<1>1. /\ game = [state |-> "closed", score |-> 0, best |-> 0, beat |-> FALSE, accum |-> 0]
      /\ frame = Game!NoFrame /\ highscore = 0 /\ start = 0 /\ beats = 0 /\ lost = FALSE
  BY DEF Game!Init, Game!Closed
<1>2. 0 \in 0..MaxScore /\ 0 \in 0..(FrameWrap - 1) /\ 0 <= 1
  BY DEF Game!Parameters
<1> QED BY <1>1, <1>2 DEF GameInv, Game!TypeOK, Game!GameAgrees, Game!BestIsKept,
           Game!OneRecordPerRun, Game!NeverSpirals
-----------------------------------------------------------------------------
(* The cues.                                                               *)

\* What waits for the board is what follows what it took, up to what was rendered.
SoundInv ==
  /\ cue \in [active : BOOLEAN, sample : Nat, total : Nat]
  /\ pending \in Seq(Nat) /\ taken \in Nat /\ hole = FALSE
  /\ taken + Len(pending) = cue.sample
  /\ \A i \in 1..Len(pending) : pending[i] = taken + i
  /\ cue.sample <= cue.total /\ cue.total \in Totals \union {0} /\ Len(pending) <= Slice
  /\ ~cue.active => cue.sample = cue.total

\* The board takes samples from the front, and leaves the others as they were.
LEMMA SoundWrite ==
  ASSUME taken \in Nat, hole = FALSE, NEW samples \in Seq(Nat),
         \A i \in 1..Len(samples) : samples[i] = taken + i,
         Room \in Nat, Sound!Write(samples)
  PROVE  /\ pending' \in Seq(Nat) /\ Len(pending') <= Len(samples)
         /\ taken' \in Nat /\ hole' = FALSE
         /\ taken' + Len(pending') = taken + Len(samples)
         /\ \A i \in 1..Len(pending') : pending'[i] = taken' + i
<1>0. PICK n \in 0..Room :
        LET took == IF n < Len(samples) THEN n ELSE Len(samples)
        IN /\ pending' = SubSeq(samples, took + 1, Len(samples))
           /\ taken' = taken + took
           /\ hole' = (hole \/ \E i \in 1..took : samples[i] # taken + i)
  BY DEF Sound!Write
<1> DEFINE took == IF n < Len(samples) THEN n ELSE Len(samples)
<1>1. /\ took = IF n < Len(samples) THEN n ELSE Len(samples)
      /\ pending' = SubSeq(samples, took + 1, Len(samples))
      /\ taken' = taken + took
      /\ hole' = (hole \/ \E i \in 1..took : samples[i] # taken + i)
  BY <1>0
<1> HIDE DEF took
<1>2. PICK len \in Nat : len = Len(samples)
  BY LenProperties
<1>3. took \in Nat /\ took <= len
  BY <1>1, <1>2
<1>4. \A i \in (took + 1)..len : samples[i] \in Nat
  <2> TAKE i \in (took + 1)..len
  <2>1. i \in 1..len
    BY <1>3
  <2> QED BY <1>2, <2>1
<1>5. /\ pending' \in Seq(Nat)
      /\ Len(pending') = IF took + 1 <= len THEN len - (took + 1) + 1 ELSE 0
      /\ \A i \in 1..(len - (took + 1) + 1) : pending'[i] = samples[took + 1 + i - 1]
  <2>1. took + 1 \in Int /\ len \in Int
    BY <1>3
  <2>2. pending' = SubSeq(samples, took + 1, len)
    BY <1>1, <1>2
  <2>3. /\ SubSeq(samples, took + 1, len) \in Seq(Nat)
        /\ Len(SubSeq(samples, took + 1, len)) = IF took + 1 <= len THEN len - (took + 1) + 1 ELSE 0
        /\ \A i \in 1..(len - (took + 1) + 1) :
             SubSeq(samples, took + 1, len)[i] = samples[took + 1 + i - 1]
    BY <1>4, <2>1, SubSeqProperties
  <2> QED BY <2>2, <2>3, Zenon
<1>6. Len(pending') = len - took
  <2>1. PICK m : m = Len(pending')
    OBVIOUS
  <2>2. m = IF took + 1 <= len THEN len - (took + 1) + 1 ELSE 0
    BY <1>5, <2>1, Zenon
  <2>3. m = len - took
    BY <1>3, <2>2
  <2> QED BY <2>1, <2>3
<1>7. taken' \in Nat /\ taken' + Len(pending') = taken + Len(samples)
  <2>1. taken' = taken + took
    BY <1>1
  <2>2. (taken + took) + (len - took) = taken + len /\ taken + took \in Nat
    BY <1>3
  <2> QED BY <1>2, <1>6, <2>1, <2>2, Zenon
<1>l. Len(pending') <= Len(samples)
  <2>1. len - took <= len
    BY <1>3
  <2> QED BY <1>2, <1>6, <2>1, Zenon
<1>8. ASSUME NEW i \in 1..Len(pending') PROVE pending'[i] = taken' + i
  <2>1. i \in 1..(len - took) /\ i \in Int
    BY <1>6, <1>8
  <2>2. i \in 1..(len - (took + 1) + 1) /\ took + 1 + i - 1 = took + i /\ took + i \in 1..len
    BY <1>3, <2>1
  <2>3. pending'[i] = samples[took + i]
    BY <1>5, <2>2
  <2>4. samples[took + i] = taken + (took + i)
    BY <1>2, <2>2
  <2> QED BY <1>1, <1>3, <2>1, <2>3, <2>4
<1>9. hole' = FALSE
  <2>1. \A i \in 1..took : samples[i] = taken + i
    <3> TAKE i \in 1..took
    <3>1. i \in 1..len
      BY <1>3
    <3> QED BY <1>2, <3>1
  <2> QED BY <1>1, <2>1
<1> QED BY <1>5, <1>l, <1>7, <1>8, <1>9

\* Every cue, slice and write keeps that.
LEMMA SoundNext ==
  ASSUME Sound!Parameters, SoundInv, [Sound!Next]_(Sound!vars)
  PROVE  SoundInv'
<1>0. /\ cue \in [active : BOOLEAN, sample : Nat, total : Nat]
      /\ pending \in Seq(Nat) /\ taken \in Nat /\ hole = FALSE
      /\ taken + Len(pending) = cue.sample /\ Len(pending) \in Nat
      /\ \A i \in 1..Len(pending) : pending[i] = taken + i
      /\ cue.sample <= cue.total /\ cue.total \in Totals \union {0} /\ Len(pending) <= Slice
      /\ ~cue.active => cue.sample = cue.total
  BY LenProperties DEF SoundInv
<1>p. Slice \in Nat /\ Totals \subseteq Nat /\ Room \in Nat
  BY DEF Sound!Parameters
<1>1. ASSUME NEW total \in Totals, Sound!Play(total) PROVE SoundInv'
  <2>1. /\ cue' = [active |-> TRUE, sample |-> 0, total |-> total]
        /\ pending' = <<>> /\ taken' = 0 /\ hole' = hole
    BY <1>1 DEF Sound!Play
  <2>2. pending' \in Seq(Nat) /\ Len(pending') = 0
    BY <2>1, EmptySeq
  <2>3. /\ cue' \in [active : BOOLEAN, sample : Nat, total : Nat] /\ cue'.active = TRUE
        /\ cue'.sample = 0 /\ cue'.total = total /\ total \in Nat
    BY <1>p, <2>1
  <2>4. taken' + Len(pending') = cue'.sample /\ cue'.sample <= cue'.total /\ taken' \in Nat
        /\ Len(pending') <= Slice
    BY <1>p, <2>1, <2>2, <2>3
  <2>5. \A i \in 1..Len(pending') : pending'[i] = taken' + i
    BY <2>2
  <2> QED BY <1>0, <2>1, <2>2, <2>3, <2>4, <2>5 DEF SoundInv
<1>2. CASE Sound!Finish
  <2>1. Sound!Write(pending) /\ cue' = cue
    BY <1>2 DEF Sound!Finish
  <2>2. /\ pending' \in Seq(Nat) /\ taken' \in Nat /\ hole' = FALSE
        /\ Len(pending') <= Len(pending)
        /\ taken' + Len(pending') = taken + Len(pending)
        /\ \A i \in 1..Len(pending') : pending'[i] = taken' + i
    BY <1>0, <1>p, <2>1, SoundWrite
  <2>3. Len(pending') <= Slice
    <3>1. Len(pending') \in Nat
      BY <2>2, LenProperties
    <3> QED BY <1>0, <1>p, <2>2, <3>1
  <2> QED BY <1>0, <2>1, <2>2, <2>3 DEF SoundInv
<1>3. CASE Sound!Render
  <2>1. PICK n :
          /\ n = IF cue.sample + Slice < cue.total THEN Slice ELSE cue.total - cue.sample
          /\ cue' = [cue EXCEPT !.sample = cue.sample + n, !.active = cue.sample + n < cue.total]
          /\ Sound!Write([i \in 1..n |-> cue.sample + i])
    BY <1>3 DEF Sound!Render
  <2>2. pending = <<>>
    BY <1>3 DEF Sound!Render
  <2>3. cue.sample \in Nat /\ cue.total \in Nat
    BY <1>0
  <2>4. n \in Nat /\ n <= Slice /\ cue.sample + n <= cue.total
    <3>1. PICK s, t \in Nat : s = cue.sample /\ t = cue.total
      BY <2>3
    <3>2. s <= t /\ n = IF s + Slice < t THEN Slice ELSE t - s
      BY <1>0, <2>1, <3>1, Zenon
    <3>3. n \in Nat /\ n <= Slice /\ s + n <= t
      BY <1>p, <3>2
    <3> QED BY <3>1, <3>3
  <2>5. taken = cue.sample
    <3>1. Len(pending) = 0
      BY <2>2, EmptySeq
    <3> QED BY <1>0, <2>3, <3>1
  <2>6. PICK samples : samples = [i \in 1..n |-> cue.sample + i]
    OBVIOUS
  <2>7. samples \in Seq(Nat) /\ Len(samples) = n
    BY <2>3, <2>4, <2>6
  <2>8. \A i \in 1..Len(samples) : samples[i] = taken + i
    BY <2>5, <2>6, <2>7
  <2>9. /\ pending' \in Seq(Nat) /\ taken' \in Nat /\ hole' = FALSE
        /\ Len(pending') <= Len(samples)
        /\ taken' + Len(pending') = taken + Len(samples)
        /\ \A i \in 1..Len(pending') : pending'[i] = taken' + i
    <3>1. Sound!Write(samples)
      BY <2>1, <2>6
    <3> QED BY <1>0, <1>p, <2>7, <2>8, <3>1, SoundWrite
  <2>10. PICK b \in BOOLEAN : b = (cue.sample + n < cue.total)
                            /\ (b = TRUE <=> cue.sample + n < cue.total)
    <3>1. CASE cue.sample + n < cue.total
      <4> WITNESS TRUE \in BOOLEAN
      <4> QED BY <3>1, Zenon
    <3>2. CASE ~(cue.sample + n < cue.total)
      <4>1. (cue.sample + n < cue.total) = FALSE
        BY <2>3, <2>4, <3>2
      <4> QED BY <4>1, Zenon
    <3> QED BY <3>1, <3>2
  <2>11. PICK s \in Nat : s = cue.sample + n
    BY <2>3, <2>4
  <2>12. cue' = [cue EXCEPT !.sample = s, !.active = b]
    BY <2>1, <2>10, <2>11, Zenon
  <2>13. /\ cue' \in [active : BOOLEAN, sample : Nat, total : Nat]
         /\ cue'.sample = s /\ cue'.active = b /\ cue'.total = cue.total
    BY <1>0, <2>12
  <2>14. s <= cue.total /\ (~b => s = cue.total)
    BY <2>3, <2>4, <2>10, <2>11
  <2>15. taken' + Len(pending') = s
    BY <2>5, <2>7, <2>9, <2>11
  <2>16. Len(pending') <= Slice
    <3>1. Len(pending') \in Nat
      BY <2>9, LenProperties
    <3> QED BY <1>p, <2>4, <2>7, <2>9, <3>1
  <2> QED BY <1>0, <2>9, <2>13, <2>14, <2>15, <2>16 DEF SoundInv
<1>4. CASE UNCHANGED Sound!vars
  BY <1>0, <1>4 DEF SoundInv, Sound!vars
<1> QED BY <1>1, <1>2, <1>3, <1>4 DEF Sound!Next

\* Nothing plays.
LEMMA SoundBegins ==
  ASSUME Sound!Parameters, Sound!Init
  PROVE  SoundInv
<1>1. /\ cue = [active |-> FALSE, sample |-> 0, total |-> 0]
      /\ pending = <<>> /\ taken = 0 /\ hole = FALSE
  BY DEF Sound!Init
<1>2. pending \in Seq(Nat) /\ Len(pending) = 0 /\ 0 <= Slice
  BY <1>1, EmptySeq DEF Sound!Parameters
<1>3. /\ cue \in [active : BOOLEAN, sample : Nat, total : Nat]
      /\ cue.sample = 0 /\ cue.total = 0
  BY <1>1
<1> QED BY <1>1, <1>2, <1>3 DEF SoundInv

\* What the invariant is for.
LEMMA SoundShows ==
  ASSUME SoundInv
  PROVE  Sound!NoHoleInACue /\ Sound!TypeOK
<1>1. /\ cue \in [active : BOOLEAN, sample : Nat, total : Nat]
      /\ taken \in Nat /\ Len(pending) \in Nat /\ taken + Len(pending) = cue.sample
  BY LenProperties DEF SoundInv
<1>2. Sound!NoHoleInACue
  <2> SUFFICES ASSUME ~cue.active, pending = <<>> PROVE taken = cue.total
    BY DEF SoundInv, Sound!NoHoleInACue
  <2>1. Len(pending) = 0
    BY EmptySeq
  <2>2. taken + Len(pending) = cue.sample /\ cue.sample = cue.total
    BY DEF SoundInv
  <2> QED BY <1>1, <2>1, <2>2
<1>3. taken \in 0..cue.sample
  BY <1>1
<1>4. cue \in [active : BOOLEAN, sample : Nat, total : Totals \union {0}]
  BY <1>1 DEF SoundInv
<1> QED BY <1>2, <1>3, <1>4 DEF SoundInv, Sound!TypeOK
-----------------------------------------------------------------------------
(* Speech on its way.                                                      *)

Events == Stream!Chunks \union {Stream!News}
Rings == Seq(Events)
Wires == Seq(Stream!Chunks)
Numbers == Seq(Nat)
ConnState == [up : BOOLEAN, over : BOOLEAN, audio : 0..MaxSession, next : 0..(MaxSeq + 1),
              kind : Stream!Kinds, heard : Numbers, gaps : SUBSET Nat, was : BOOLEAN,
              writes : BOOLEAN, wire : Wires]
States == {"none", "open", "closed", "filed", "gone", "vanished"}
TaskState == [state : States, queued : 0..MaxQueued]
MicState == [on : BOOLEAN, session : 0..MaxSession, seq : 0..(MaxSeq + 1), kind : Stream!Kinds,
             news : BOOLEAN]

\* What a queue holds, and the order in which captures were made.
On(q) == {q[i] : i \in DOMAIN q}
Before(a, b) ==
  a.session # 0 /\ b.session # 0 =>
    a.session <= b.session /\ (a.final => a.session < b.session)
Ordered(q) == \A i, j \in DOMAIN q : i < j => Before(q[i], q[j])

\* The chunk that ends a capture is in a queue.
Ending(s, q) == \E m \in On(q) : m.session = s /\ m.final
\* The captures that a connection has begun, or will once it reads on, and does not end with it.
Begun(k) ==
  {m.session : m \in {n \in On(k.wire) : ~n.final}} \union (IF k.audio # 0 THEN {k.audio} ELSE {})
\* The end of a capture is still to come, or was lost.
ToCome(s) == s \in unended \/ (mic.on /\ mic.session = s)
EndsOn(k, s) == ToCome(s) \/ Ending(s, k.wire) \/ Ending(s, ring)

StreamTypes ==
  /\ mic \in MicState
  /\ mic.on => mic.session # 0 /\ mic.seq <= MaxSeq
  /\ ring \in Rings /\ Len(ring) <= RingDepth /\ unended \subseteq Stream!Sessions
  /\ link \in Conns \union {Stream!NoConn}
  /\ conn \in [Conns -> ConnState]
  /\ tasks \in [Conns -> [Stream!Sessions -> TaskState]]

\* Not after what the microphone says now.
InTime(m) == m.session <= mic.session /\ (m.session # 0 /\ m.final /\ mic.on => m.session < mic.session)

\* The ring: captures in their order, each with its end.
RingInv ==
  /\ Ordered(ring)
  /\ \A m \in On(ring) : InTime(m)
  /\ \A m \in On(ring) : m.session # 0 /\ ~m.final => ToCome(m.session) \/ Ending(m.session, ring)

\* A wire: captures in their order, and none that begins before the one before it has
\* ended, unless the end of that was lost.
WireInv(k) ==
  /\ Ordered(k.wire)
  /\ \A m \in On(k.wire) : k.audio <= m.session
  /\ \A s \in Begun(k), m \in On(k.wire) : m.session > s => s \in unended \/ Ending(s, k.wire)

\* The wire of the link, which what is in the ring will follow.
LinkInv(k) ==
  /\ \A m \in On(k.wire) : InTime(m) /\ \A n \in On(ring) : Before(m, n)
  /\ k.audio <= mic.session /\ \A n \in On(ring) : n.session # 0 => k.audio <= n.session
  /\ \A s \in Begun(k) : EndsOn(k, s)

\* No chunk of this capture is to come over this connection.
Past(c, s) ==
  /\ \A m \in On(conn[c].wire) : m.session > s
  /\ c = link => s < mic.session /\ \A m \in On(ring) : m.session # 0 => m.session > s

\* A meeting is open for the capture that its connection is in, or for one whose end was
\* lost and that is over.
TaskInv(c) ==
  /\ \A s \in Stream!Sessions :
       /\ tasks[c][s].state \in {"open", "gone"} =>
            /\ conn[c].up
            /\ \/ conn[c].audio = s /\ conn[c].kind = "transcript"
               \/ s \in unended /\ Past(c, s)
       /\ tasks[c][s].state \in {"gone", "vanished"} => ~conn[c].writes
  /\ ~conn[c].up /\ ~conn[c].over => \A s \in Stream!Sessions : tasks[c][s].state = "none"

\* What was heard, with the number that is expected next in a capture that is open.
HeardInv(k) ==
  /\ k.heard # <<>> /\ k.audio # 0 => k.next = k.heard[Len(k.heard)] + 1
  /\ \A i \in 1..(Len(k.heard) - 1) :
       k.heard[i + 1] = k.heard[i] + 1 \/ k.heard[i + 1] \in k.gaps
  /\ k.was = (k.audio # 0)

StreamInv ==
  /\ StreamTypes
  /\ RingInv
  /\ \A c \in Conns : WireInv(conn[c]) /\ TaskInv(c) /\ HeardInv(conn[c])
  /\ link # Stream!NoConn => LinkInv(conn[link])
  /\ capturing = Cardinality({c \in Conns : conn[c].was})

\* What a queue holds once something is added to it.
LEMMA QueueAdded ==
  ASSUME NEW S, NEW q \in Seq(S), NEW e \in S
  PROVE  /\ Append(q, e) \in Seq(S) /\ On(Append(q, e)) = On(q) \union {e} /\ On(q) \subseteq S
         /\ Len(Append(q, e)) = Len(q) + 1
         /\ Ordered(q) /\ (\A m \in On(q) : Before(m, e)) => Ordered(Append(q, e))
<1>1. /\ Append(q, e) \in Seq(S) /\ Len(Append(q, e)) = Len(q) + 1
      /\ \A i \in 1..Len(q) : Append(q, e)[i] = q[i]
      /\ Append(q, e)[Len(q) + 1] = e
  BY AppendProperties
<1>2. PICK n \in Nat : n = Len(q)
  BY LenProperties
<1>3. DOMAIN q = 1..n /\ \A i \in 1..n : q[i] \in S
  BY <1>2
<1>4. PICK p : p = Append(q, e)
  OBVIOUS
<1>5. /\ p \in Seq(S) /\ DOMAIN p = 1..(n + 1) /\ (\A i \in 1..n : p[i] = q[i]) /\ p[n + 1] = e
  <2>1. Len(p) = n + 1 /\ p \in Seq(S)
    BY <1>1, <1>2, <1>4, Zenon
  <2>2. DOMAIN p = 1..Len(p)
    BY <2>1, LenProperties
  <2>3. DOMAIN p = 1..(n + 1)
    BY <2>1, <2>2, Zenon
  <2> QED BY <1>1, <1>2, <1>4, <2>1, <2>3, Zenon
<1>6. 1..(n + 1) = (1..n) \union {n + 1}
  BY <1>2
<1>7. On(p) = On(q) \union {e} /\ On(q) \subseteq S
  BY <1>3, <1>5, <1>6 DEF On
<1>8. ASSUME Ordered(q), \A m \in On(q) : Before(m, e) PROVE Ordered(p)
  <2>1. ASSUME NEW i \in DOMAIN p, NEW j \in DOMAIN p, i < j PROVE Before(p[i], p[j])
    <3>1. i \in 1..n /\ j \in Int
      BY <1>2, <1>5, <2>1
    <3>2. p[i] = q[i] /\ q[i] \in On(q)
      BY <1>3, <1>5, <3>1 DEF On
    <3>3. CASE j = n + 1
      <4>1. p[j] = e
        BY <1>5, <3>3
      <4> QED BY <1>8, <3>2, <4>1
    <3>4. CASE j # n + 1
      <4>1. j \in 1..n
        BY <1>5, <1>6, <3>4
      <4>2. p[j] = q[j]
        BY <1>5, <4>1
      <4> QED BY <1>3, <1>8, <2>1, <3>1, <3>2, <4>1, <4>2 DEF Ordered
    <3> QED BY <3>3, <3>4
  <2> QED BY <2>1 DEF Ordered
<1> QED BY <1>1, <1>4, <1>5, <1>7, <1>8, Zenon

\* What a queue holds once its head is taken.
LEMMA QueueTaken ==
  ASSUME NEW S, NEW q \in Seq(S), q # <<>>
  PROVE  /\ Tail(q) \in Seq(S) /\ Head(q) \in S /\ On(q) = On(Tail(q)) \union {Head(q)}
         /\ Len(Tail(q)) = Len(q) - 1
         /\ Ordered(q) => Ordered(Tail(q)) /\ \A m \in On(Tail(q)) : Before(Head(q), m)
<1>1. PICK n \in Nat : n = Len(q)
  BY LenProperties
<1>2. n # 0
  BY <1>1, EmptySeq
<1>3. PICK t : t = Tail(q)
  OBVIOUS
<1>4. /\ Head(q) \in S /\ Tail(q) \in Seq(S) /\ Len(Tail(q)) = Len(q) - 1
      /\ \A i \in 1..Len(Tail(q)) : Tail(q)[i] = q[i + 1]
  BY HeadTailProperties
<1>5. /\ t \in Seq(S) /\ DOMAIN t = 1..(n - 1) /\ \A i \in 1..(n - 1) : t[i] = q[i + 1]
  <2>1. Len(t) = n - 1 /\ t \in Seq(S)
    BY <1>1, <1>3, <1>4, Zenon
  <2>2. DOMAIN t = 1..Len(t)
    BY <2>1, LenProperties
  <2> QED BY <1>3, <1>4, <2>1, <2>2, Zenon
<1>6. Head(q) = q[1] /\ DOMAIN q = 1..n
  BY <1>1
<1>7. On(q) = On(t) \union {Head(q)}
  <2>1. ASSUME NEW i \in 1..n PROVE q[i] \in On(t) \union {Head(q)}
    <3>1. CASE i = 1
      BY <1>6, <3>1
    <3>2. CASE i # 1
      <4>1. i - 1 \in 1..(n - 1) /\ (i - 1) + 1 = i
        BY <1>1, <3>2
      <4>2. t[i - 1] = q[i]
        BY <1>5, <4>1
      <4> QED BY <1>5, <4>1, <4>2 DEF On
    <3> QED BY <3>1, <3>2
  <2>2. ASSUME NEW i \in 1..(n - 1) PROVE t[i] \in On(q)
    <3>1. i + 1 \in 1..n /\ t[i] = q[i + 1]
      BY <1>1, <1>5
    <3> QED BY <1>6, <3>1 DEF On
  <2>3. Head(q) \in On(q)
    <3>1. 1 \in 1..n
      BY <1>1, <1>2
    <3> QED BY <1>6, <3>1 DEF On
  <2> QED BY <1>5, <1>6, <2>1, <2>2, <2>3 DEF On
<1>8. ASSUME Ordered(q) PROVE Ordered(t) /\ \A m \in On(t) : Before(Head(q), m)
  <2>1. ASSUME NEW i \in 1..(n - 1), NEW j \in 1..(n - 1), i < j PROVE Before(t[i], t[j])
    <3>1. i + 1 \in 1..n /\ j + 1 \in 1..n /\ i + 1 < j + 1
      BY <1>1, <2>1
    <3> QED BY <1>5, <1>6, <1>8, <3>1 DEF Ordered
  <2>2. ASSUME NEW i \in 1..(n - 1) PROVE Before(Head(q), t[i])
    <3>1. 1 \in 1..n /\ i + 1 \in 1..n /\ 1 < i + 1
      BY <1>1, <1>2
    <3> QED BY <1>5, <1>6, <1>8, <3>1 DEF Ordered
  <2> QED BY <1>5, <2>1, <2>2 DEF Ordered, On
<1> QED BY <1>3, <1>4, <1>7, <1>8, Zenon

\* What an event is made of.
LEMMA EventTypes ==
  ASSUME Stream!Parameters
  PROVE  /\ \A m \in Events : m.session \in Nat /\ m.session <= MaxSession
         /\ \A m \in Stream!Chunks :
              /\ m \in Events /\ m.session # 0 /\ m.session \in Stream!Sessions
              /\ m.final \in BOOLEAN /\ m.seq \in 0..MaxSeq /\ m.kind \in Stream!Kinds
BY DEF Events, Stream!Parameters, Stream!Chunks, Stream!Sessions, Stream!News, Stream!NoSession

\* What is published is in the ring or lost, and so is what was there before.
LEMMA RingTakes ==
  ASSUME Stream!Parameters, ring \in Rings, Len(ring) <= RingDepth, unended \subseteq Stream!Sessions,
         NEW ev \in Events, Stream!Publish(ev)
  PROVE  /\ ring' \in Rings /\ On(ring') \subseteq On(ring) \union {ev} /\ unended \subseteq unended'
         /\ Len(ring') <= RingDepth /\ unended' \subseteq Stream!Sessions
         /\ \A m \in On(ring) \union {ev} :
              m \in On(ring') \/ (m.session # 0 /\ m.final => m.session \in unended')
         /\ Ordered(ring) /\ (\A m \in On(ring) : Before(m, ev)) => Ordered(ring')
<1> USE DEF Rings
<1>0. PICK n \in Nat : n = Len(ring)
  BY LenProperties
<1>1. CASE Len(ring) = RingDepth
  <2>1. ring' = Append(Tail(ring), ev) /\ unended' = Stream!Loses(Head(ring))
    BY <1>1 DEF Stream!Publish
  <2>2. ring # <<>>
    BY <1>1, EmptySeq DEF Stream!Parameters
  <2>3. /\ Tail(ring) \in Seq(Events) /\ Head(ring) \in Events
        /\ On(ring) = On(Tail(ring)) \union {Head(ring)}
        /\ Ordered(ring) => Ordered(Tail(ring))
        /\ Len(Tail(ring)) = Len(ring) - 1
    BY <2>2, QueueTaken
  <2>4. /\ ring' \in Seq(Events) /\ On(ring') = On(Tail(ring)) \union {ev}
        /\ Len(ring') = Len(Tail(ring)) + 1
        /\ Ordered(Tail(ring)) /\ (\A m \in On(Tail(ring)) : Before(m, ev)) => Ordered(ring')
    <3>1. PICK t \in Seq(Events) : t = Tail(ring)
      BY <2>3
    <3>2. /\ Append(t, ev) \in Seq(Events) /\ On(Append(t, ev)) = On(t) \union {ev}
          /\ Len(Append(t, ev)) = Len(t) + 1
          /\ Ordered(t) /\ (\A m \in On(t) : Before(m, ev)) => Ordered(Append(t, ev))
      BY QueueAdded
    <3> QED BY <2>1, <3>1, <3>2, Zenon
  <2>5. /\ unended \subseteq unended' /\ unended' \subseteq Stream!Sessions
        /\ Head(ring).session # 0 /\ Head(ring).final => Head(ring).session \in unended'
    BY <2>1, <2>3, EventTypes DEF Stream!Loses, Stream!NoSession, Events, Stream!News
  <2>6. Len(ring') <= RingDepth
    BY <1>0, <1>1, <2>3, <2>4
  <2> QED BY <2>3, <2>4, <2>5, <2>6
<1>2. CASE Len(ring) # RingDepth
  <2>1. ring' = Append(ring, ev) /\ unended' = unended
    BY <1>2 DEF Stream!Publish
  <2>2. /\ ring' \in Seq(Events) /\ On(ring') = On(ring) \union {ev}
        /\ Len(ring') = Len(ring) + 1
        /\ Ordered(ring) /\ (\A m \in On(ring) : Before(m, ev)) => Ordered(ring')
    BY <2>1, QueueAdded
  <2>3. Len(ring') <= RingDepth
    BY <1>0, <1>2, <2>2 DEF Stream!Parameters
  <2> QED BY <2>1, <2>2, <2>3
<1> QED BY <1>1, <1>2

\* A chunk is in the ring or lost, as far as its end goes.
LEMMA ChunkSaid ==
  ASSUME Stream!Parameters, ring \in Rings, Len(ring) <= RingDepth, unended \subseteq Stream!Sessions,
         NEW final \in BOOLEAN, Stream!Emit(final), Stream!Chunk(final) \in Events
  PROVE  LET ev == Stream!Chunk(final)
         IN /\ ring' \in Rings /\ On(ring') \subseteq On(ring) \union {ev} /\ unended \subseteq unended'
            /\ Len(ring') <= RingDepth /\ unended' \subseteq Stream!Sessions
            /\ \A m \in On(ring) \union {ev} :
                 m \in On(ring') \/ (m.session # 0 /\ m.final => m.session \in unended')
            /\ Ordered(ring) /\ (\A m \in On(ring) : Before(m, ev)) => Ordered(ring')
<1> DEFINE ev == Stream!Chunk(final)
<1> HIDE DEF ev
<1>1. CASE Stream!Publish(ev)
  BY <1>1, RingTakes DEF ev
<1>2. CASE ring' = ring /\ unended' = Stream!Loses(ev)
  BY <1>2, EventTypes DEF Stream!Loses, Stream!NoSession, Events, Stream!News, ev
<1> QED BY <1>1, <1>2 DEF Stream!Emit, ev

\* What the events of a queue are.
LEMMA OnIn ==
  ASSUME NEW S, NEW q \in Seq(S)
  PROVE  On(q) \subseteq S
<1>1. \A i \in 1..Len(q) : q[i] \in S
  OBVIOUS
<1>2. DOMAIN q = 1..Len(q)
  BY LenProperties
<1> QED BY <1>1, <1>2 DEF On

LEMMA OnNothing == On(<<>>) = {} /\ Ordered(<<>>)
<1>1. DOMAIN <<>> = {}
  OBVIOUS
<1> QED BY <1>1 DEF On, Ordered

\* Nothing that has to do with an end is forgotten when the device says something.
LEMMA Said ==
  ASSUME Stream!Parameters, StreamInv, NEW ev \in Events,
         ring' \in Rings, On(ring') \subseteq On(ring) \union {ev}, unended \subseteq unended',
         Len(ring') <= RingDepth, unended' \subseteq Stream!Sessions,
         \A m \in On(ring) \union {ev} :
           m \in On(ring') \/ (m.session # 0 /\ m.final => m.session \in unended'),
         Ordered(ring) /\ (\A m \in On(ring) : Before(m, ev)) => Ordered(ring'),
         mic' \in MicState,
         mic'.on => mic'.session # 0 /\ mic'.seq <= MaxSeq,
         mic.session <= mic'.session,
         mic'.on => (mic.on /\ mic'.session = mic.session) \/ mic.session < mic'.session,
         ev.session # 0 => /\ mic.on /\ ev.session = mic.session /\ mic'.session = mic.session
                           /\ (ev.final => ~mic'.on) /\ (~ev.final => mic'.on),
         mic.on => /\ mic'.session = mic.session
                   /\ mic'.on \/ (ev.session = mic.session /\ ev.final),
         UNCHANGED <<link, conn, tasks, capturing>>
  PROVE  StreamInv'
<1>0. PICK M \in Nat : mic.session = M
  BY DEF StreamInv, StreamTypes, MicState
<1>1. PICK N \in Nat : mic'.session = N
  BY DEF MicState
<1>a. /\ \A m \in On(ring) : m.session \in Nat
      /\ \A m \in On(ring') : m.session \in Nat
      /\ ev.session \in Nat
  BY OnIn, EventTypes DEF StreamInv, StreamTypes, Rings
<1>b. \A c \in Conns : \A m \in On(conn[c].wire) : m.session \in Nat
  <2>1. ASSUME NEW c \in Conns, NEW m \in On(conn[c].wire) PROVE m.session \in Nat
    <3>1. conn[c].wire \in Seq(Stream!Chunks)
      BY DEF StreamInv, StreamTypes, ConnState, Wires
    <3> QED BY <2>1, <3>1, OnIn, EventTypes
  <2> QED BY <2>1
<1>2. StreamTypes'
  BY DEF StreamInv, StreamTypes
<1>3. \A m \in On(ring) : Before(m, ev)
  BY <1>0, <1>a DEF StreamInv, RingInv, InTime, Before
<1>4. ASSUME NEW m \in On(ring) \union {ev} PROVE InTime(m)'
  BY <1>0, <1>1, <1>4, <1>a DEF StreamInv, RingInv, InTime
<1>5. ASSUME NEW s, ToCome(s) \/ Ending(s, ring), s # 0 PROVE ToCome(s)' \/ Ending(s, ring')
  <2>1. CASE s \in unended
    BY <2>1 DEF ToCome
  <2>2. CASE mic.on /\ mic.session = s /\ mic'.on
    BY <2>2 DEF ToCome
  <2>3. CASE mic.on /\ mic.session = s /\ ~mic'.on
    BY <1>5, <2>3 DEF ToCome, Ending
  <2>4. CASE Ending(s, ring)
    BY <1>5, <2>4 DEF ToCome, Ending
  <2> QED BY <1>5, <2>1, <2>2, <2>3, <2>4 DEF ToCome
<1>6. RingInv'
  <2>1. Ordered(ring')
    BY <1>3 DEF StreamInv, RingInv
  <2>2. ASSUME NEW m \in On(ring'), m.session # 0, ~m.final
        PROVE  ToCome(m.session)' \/ Ending(m.session, ring')
    <3>1. CASE m \in On(ring)
      BY <1>5, <2>2, <3>1 DEF StreamInv, RingInv
    <3>2. CASE m = ev
      BY <2>2, <3>2 DEF ToCome
    <3> QED BY <3>1, <3>2
  <2> QED BY <1>4, <2>1, <2>2 DEF RingInv
<1>7. ASSUME NEW c \in Conns PROVE WireInv(conn[c])' /\ HeardInv(conn[c])'
  BY <1>7 DEF StreamInv, WireInv, HeardInv
<1>8. ASSUME NEW c \in Conns PROVE TaskInv(c)'
  <2>1. ASSUME NEW s \in Stream!Sessions, Past(c, s) PROVE Past(c, s)'
    <3>1. s \in Int
      BY DEF Stream!Sessions, Stream!Parameters
    <3> QED BY <1>0, <1>1, <1>a, <2>1, <3>1 DEF Past
  <2> QED BY <1>8, <2>1 DEF StreamInv, TaskInv
<1>9. ASSUME link' # Stream!NoConn PROVE LinkInv(conn[link])'
  <2>0. link \in Conns /\ conn'[link'] = conn[link]
    BY <1>9 DEF StreamInv, StreamTypes
  <2> DEFINE k == conn[link]
  <2>1. LinkInv(k)
    BY <1>9 DEF StreamInv
  <2>2. PICK a \in Nat : k.audio = a
    BY <2>0 DEF StreamInv, StreamTypes, ConnState
  <2>3. \A m \in On(k.wire) : m.session \in Nat
    BY <1>b, <2>0
  <2> HIDE DEF k
  <2>4. ASSUME NEW m \in On(k.wire) PROVE InTime(m)' /\ \A n \in On(ring') : Before(m, n)
    <3>1. InTime(m) /\ \A n \in On(ring) : Before(m, n)
      BY <2>1, <2>4 DEF LinkInv
    <3>2. InTime(m)'
      BY <1>0, <1>1, <2>3, <2>4, <3>1 DEF InTime
    <3>3. Before(m, ev)
      BY <1>0, <1>1, <1>a, <2>3, <2>4, <3>1 DEF InTime, Before
    <3> QED BY <3>1, <3>2, <3>3
  <2>5. k.audio <= mic'.session /\ \A n \in On(ring') : n.session # 0 => k.audio <= n.session
    BY <1>0, <1>1, <1>a, <2>1, <2>2 DEF LinkInv
  <2>6. ASSUME NEW s \in Begun(k) PROVE ToCome(s)' \/ Ending(s, k.wire) \/ Ending(s, ring')
    <3>1. s # 0
      <4>1. \A m \in On(conn[link].wire) : m.session # 0
        <5>1. conn[link].wire \in Seq(Stream!Chunks)
          BY <2>0 DEF StreamInv, StreamTypes, ConnState, Wires
        <5> QED BY <5>1, OnIn, EventTypes
      <4> QED BY <4>1 DEF Begun, k
    <3>2. ToCome(s) \/ Ending(s, k.wire) \/ Ending(s, ring)
      BY <2>1, <2>6 DEF LinkInv, EndsOn
    <3> QED BY <1>5, <3>1, <3>2
  <2>7. LinkInv(k)'
    <3>1. k' = k
      BY <2>0 DEF k
    <3> QED BY <2>4, <2>5, <2>6, <3>1 DEF LinkInv, EndsOn
  <2> QED BY <2>0, <2>7 DEF k
<1>10. capturing' = Cardinality({c \in Conns : conn'[c].was})
  BY DEF StreamInv
<1> QED BY <1>2, <1>6, <1>7, <1>8, <1>9, <1>10 DEF StreamInv

LEMMA DeviceSpeaks ==
  ASSUME Stream!Parameters, StreamInv,
         (\E kind \in Stream!Kinds : Stream!Start(kind)) \/ Stream!Hear \/ Stream!Stop \/ Stream!Stopped
  PROVE  StreamInv'
<1>0. PICK N \in Nat : mic.session = N
  BY DEF StreamInv, StreamTypes, MicState
<1>q. PICK n \in Nat : mic.seq = n
  BY DEF StreamInv, StreamTypes, MicState
<1>t. /\ ring \in Rings /\ Len(ring) <= RingDepth /\ unended \subseteq Stream!Sessions
      /\ mic \in MicState
      /\ mic.on => mic.session # 0 /\ mic.seq <= MaxSeq
  BY DEF StreamInv, StreamTypes
<1>c. ASSUME NEW final \in BOOLEAN, mic.on
      PROVE  /\ Stream!Chunk(final) \in Stream!Chunks /\ Stream!Chunk(final) \in Events
             /\ Stream!Chunk(final).session = mic.session /\ Stream!Chunk(final).final = final
  <2>1. Stream!Chunk(final) \in Stream!Chunks
    BY <1>0, <1>q, <1>t, <1>c DEF Stream!Chunk, Stream!Chunks, Stream!Sessions, Stream!Parameters, MicState
  <2> QED BY <2>1 DEF Events, Stream!Chunk
<1>1. ASSUME NEW kind \in Stream!Kinds, Stream!Start(kind) PROVE StreamInv'
  <2>1. Stream!News \in Events /\ Stream!News.session = 0
    BY DEF Events, Stream!News, Stream!NoSession
  <2>2. Stream!Publish(Stream!News) /\ ~mic.on
    BY <1>1 DEF Stream!Start
  <2>3. PICK ev \in Events : ev = Stream!News
    BY <2>1
  <2>4. /\ ring' \in Rings /\ On(ring') \subseteq On(ring) \union {ev} /\ unended \subseteq unended'
        /\ Len(ring') <= RingDepth /\ unended' \subseteq Stream!Sessions
        /\ \A m \in On(ring) \union {ev} :
             m \in On(ring') \/ (m.session # 0 /\ m.final => m.session \in unended')
        /\ Ordered(ring) /\ (\A m \in On(ring) : Before(m, ev)) => Ordered(ring')
    BY <1>t, <2>2, <2>3, RingTakes
  <2>5. /\ mic' \in MicState
        /\ mic'.session = N + 1
    BY <1>0, <1>1 DEF Stream!Start, Stream!Parameters, MicState
  <2>6. UNCHANGED <<link, conn, tasks, capturing>>
    BY <1>1 DEF Stream!Start
  <2>7. mic'.seq = 0
    BY <1>1 DEF Stream!Start
  <2>8. /\ mic.session <= mic'.session /\ mic.session < mic'.session /\ mic'.session # 0
        /\ mic'.seq <= MaxSeq
    BY <1>0, <2>5, <2>7 DEF Stream!Parameters
  <2>9. ev.session = 0
    BY <2>1, <2>3
  <2> QED BY <2>2, <2>4, <2>5, <2>6, <2>8, <2>9, Said
<1>2. CASE Stream!Hear
  <2>1. mic.on /\ Stream!Emit(FALSE)
    BY <1>2 DEF Stream!Hear
  <2>2. PICK ev \in Events :
          ev = Stream!Chunk(FALSE) /\ ev.session = mic.session /\ ev.final = FALSE
    BY <1>c, <2>1
  <2>3. /\ ring' \in Rings /\ On(ring') \subseteq On(ring) \union {ev} /\ unended \subseteq unended'
        /\ Len(ring') <= RingDepth /\ unended' \subseteq Stream!Sessions
        /\ \A m \in On(ring) \union {ev} :
             m \in On(ring') \/ (m.session # 0 /\ m.final => m.session \in unended')
        /\ Ordered(ring) /\ (\A m \in On(ring) : Before(m, ev)) => Ordered(ring')
    BY <1>t, <2>1, <2>2, ChunkSaid
  <2>4. /\ mic' \in MicState
        /\ mic'.session = mic.session /\ mic'.on /\ mic'.seq = n + 1 /\ n < MaxSeq
    <3>1. n < MaxSeq /\ n + 1 \in 0..(MaxSeq + 1)
      <4>1. N # 0 /\ n + N <= MaxSeq
        BY <1>2, <1>0, <1>q, <1>t DEF Stream!Hear
      <4> QED BY <4>1 DEF Stream!Parameters
    <3>2. mic' = [mic EXCEPT !.seq = n + 1] /\ mic.on
      BY <1>2, <1>q DEF Stream!Hear
    <3> QED BY <1>t, <3>1, <3>2 DEF MicState
  <2>5. UNCHANGED <<link, conn, tasks, capturing>>
    BY <1>2 DEF Stream!Hear
  <2>6. mic.session <= mic'.session /\ mic'.session # 0 /\ mic'.seq <= MaxSeq
    BY <1>0, <1>t, <2>1, <2>4 DEF Stream!Parameters
  <2> QED BY <2>1, <2>2, <2>3, <2>4, <2>5, <2>6, Said
<1>3. CASE Stream!Stop
  <2>1. mic.on /\ Stream!Emit(TRUE)
    BY <1>3 DEF Stream!Stop
  <2>2. PICK ev \in Events :
          ev = Stream!Chunk(TRUE) /\ ev.session = mic.session /\ ev.final = TRUE
    BY <1>c, <2>1
  <2>3. /\ ring' \in Rings /\ On(ring') \subseteq On(ring) \union {ev} /\ unended \subseteq unended'
        /\ Len(ring') <= RingDepth /\ unended' \subseteq Stream!Sessions
        /\ \A m \in On(ring) \union {ev} :
             m \in On(ring') \/ (m.session # 0 /\ m.final => m.session \in unended')
        /\ Ordered(ring) /\ (\A m \in On(ring) : Before(m, ev)) => Ordered(ring')
    BY <1>t, <2>1, <2>2, ChunkSaid
  <2>4. /\ mic' \in MicState
        /\ mic'.session = mic.session /\ mic'.on = FALSE
    <3>1. n + 1 \in 0..(MaxSeq + 1)
      BY <1>t, <1>q, <2>1 DEF Stream!Parameters
    <3>2. mic' = [mic EXCEPT !.on = FALSE, !.seq = n + 1, !.news = TRUE]
      BY <1>3, <1>q DEF Stream!Stop
    <3> QED BY <1>t, <3>1, <3>2 DEF MicState
  <2>5. UNCHANGED <<link, conn, tasks, capturing>>
    BY <1>3 DEF Stream!Stop
  <2>6. mic.session <= mic'.session
    BY <1>0, <2>4
  <2> QED BY <2>1, <2>2, <2>3, <2>4, <2>5, <2>6, Said
<1>4. CASE Stream!Stopped
  <2>1. Stream!Publish(Stream!News) /\ mic' = [mic EXCEPT !.news = FALSE]
        /\ UNCHANGED <<link, conn, tasks, capturing>>
    BY <1>4 DEF Stream!Stopped
  <2>n. Stream!News \in Events /\ Stream!News.session = 0
    BY DEF Events, Stream!News, Stream!NoSession
  <2>2. PICK ev \in Events : ev = Stream!News /\ ev.session = 0
    BY <2>n
  <2>3. /\ ring' \in Rings /\ On(ring') \subseteq On(ring) \union {ev} /\ unended \subseteq unended'
        /\ Len(ring') <= RingDepth /\ unended' \subseteq Stream!Sessions
        /\ \A m \in On(ring) \union {ev} :
             m \in On(ring') \/ (m.session # 0 /\ m.final => m.session \in unended')
        /\ Ordered(ring) /\ (\A m \in On(ring) : Before(m, ev)) => Ordered(ring')
    BY <1>t, <2>1, <2>2, RingTakes
  <2>4. /\ mic' \in MicState /\ mic'.session = mic.session /\ mic'.on = mic.on /\ mic'.seq = mic.seq
    BY <1>t, <2>1 DEF MicState
  <2>5. mic.session <= mic'.session
    BY <1>0, <2>4
  <2> QED BY <1>t, <2>1, <2>2, <2>3, <2>4, <2>5, Said
<1> QED BY <1>1, <1>2, <1>3, <1>4

LEMMA BridgeDrains ==
  ASSUME Stream!Parameters, StreamInv, Stream!Drain
  PROVE  StreamInv'
<1>t. /\ ring \in Seq(Events) /\ Len(ring) <= RingDepth /\ unended \subseteq Stream!Sessions
      /\ conn \in [Conns -> ConnState] /\ link \in Conns \union {Stream!NoConn}
      /\ tasks \in [Conns -> [Stream!Sessions -> TaskState]]
  BY DEF StreamInv, StreamTypes, Rings
<1>q. ring # <<>> /\ ring' = Tail(ring) /\ UNCHANGED <<mic, link, tasks, capturing>>
  BY DEF Stream!Drain
<1>h. PICK h \in Events : h = Head(ring)
  BY <1>t, <1>q, QueueTaken
<1>r. /\ ring' \in Seq(Events) /\ On(ring) = On(ring') \union {h} /\ Len(ring') <= RingDepth
      /\ Ordered(ring') /\ \A m \in On(ring') : Before(h, m)
  <2>1. Tail(ring) \in Seq(Events) /\ Len(Tail(ring)) = Len(ring) - 1 /\ Ordered(ring)
    BY <1>t, <1>q, QueueTaken DEF StreamInv, RingInv
  <2>2. Len(ring) \in Nat
    BY <1>t, LenProperties
  <2>3. Len(ring') <= RingDepth
    BY <1>t, <1>q, <2>1, <2>2 DEF Stream!Parameters
  <2> QED BY <1>t, <1>q, <1>h, <2>1, <2>3, QueueTaken
<1>n. /\ \A m \in On(ring) : m.session \in Nat
      /\ h.session \in Nat /\ h \in On(ring)
      /\ \A m \in On(ring') : m \in On(ring)
  BY <1>t, <1>r, OnIn, EventTypes
<1>w. ASSUME NEW c \in Conns
      PROVE  /\ conn[c].wire \in Seq(Stream!Chunks) /\ conn[c].audio \in Nat
             /\ \A m \in On(conn[c].wire) : m.session \in Nat /\ m.session # 0
             /\ \A s \in Begun(conn[c]) : s \in Nat /\ s # 0
  <2>1. conn[c].wire \in Seq(Stream!Chunks) /\ conn[c].audio \in Nat
    BY <1>t DEF ConnState, Wires
  <2>2. \A m \in On(conn[c].wire) : m.session \in Nat /\ m.session # 0
    BY <2>1, OnIn, EventTypes
  <2> QED BY <2>1, <2>2 DEF Begun
<1>m. PICK N \in Nat : mic.session = N
  BY DEF StreamInv, StreamTypes, MicState
<1>e. ASSUME NEW s, s # 0, Ending(s, ring), ~Ending(s, ring') PROVE h.session = s /\ h.final
  BY <1>e, <1>r DEF Ending
<1>f. ASSUME NEW m \in On(ring'), m.session # 0, ~m.final
      PROVE  ToCome(m.session) \/ Ending(m.session, ring')
  <2>1. ToCome(m.session) \/ Ending(m.session, ring)
    BY <1>f, <1>r DEF StreamInv, RingInv
  <2>2. ~(h.session = m.session /\ h.final)
    BY <1>f, <1>r, <1>n DEF Before
  <2> QED BY <1>e, <1>f, <2>1, <2>2
<1>1. CASE Stream!Sendable /\ h # Stream!News
  <2>0. link # Stream!NoConn /\ conn[link].up
    BY <1>1 DEF Stream!Sendable
  <2>1. link \in Conns /\ h \in Stream!Chunks
    BY <1>1, <1>t, <2>0 DEF Events
  <2>2. /\ conn' = [conn EXCEPT ![link].wire = Append(@, h)] /\ unended' = unended
    BY <1>1, <1>h DEF Stream!Drain
  <2> DEFINE k == conn[link]
             w == Append(k.wire, h)
  <2>3. LinkInv(k) /\ WireInv(k)
    BY <2>0, <2>1 DEF StreamInv
  <2>4. \A m \in On(k.wire) : Before(m, h)
    BY <1>n, <2>3 DEF LinkInv
  <2>5. w \in Seq(Stream!Chunks) /\ On(w) = On(k.wire) \union {h} /\ Ordered(w)
    <3>1. PICK v \in Seq(Stream!Chunks) : v = k.wire
      BY <1>w, <2>1
    <3>2. /\ Append(v, h) \in Seq(Stream!Chunks) /\ On(Append(v, h)) = On(v) \union {h}
          /\ Ordered(v) /\ (\A m \in On(v) : Before(m, h)) => Ordered(Append(v, h))
      BY <2>1, QueueAdded
    <3>3. Ordered(v) /\ \A m \in On(v) : Before(m, h)
      BY <2>3, <2>4, <3>1 DEF WireInv
    <3> QED BY <3>1, <3>2, <3>3, Zenon
  <2> HIDE DEF w
  <2>6. /\ conn' = [conn EXCEPT ![link] = [k EXCEPT !.wire = w]]
        /\ conn' \in [Conns -> ConnState]
    <3>1. conn' = [conn EXCEPT ![link] = [k EXCEPT !.wire = w]]
      BY <2>2 DEF w
    <3>2. [k EXCEPT !.wire = w] \in ConnState
      BY <1>t, <2>1, <2>5 DEF ConnState, Wires
    <3> QED BY <1>t, <3>1, <3>2
  <2>7. \A c \in Conns : c # link => conn'[c] = conn[c]
    BY <1>t, <2>6
  <2>8. PICK k2 \in ConnState : k2 = conn'[link]
    BY <2>1, <2>6
  <2>9. /\ k2.wire = w /\ k2.up = k.up /\ k2.over = k.over /\ k2.writes = k.writes /\ k2.audio = k.audio /\ k2.next = k.next /\ k2.kind = k.kind
        /\ k2.heard = k.heard /\ k2.gaps = k.gaps /\ k2.was = k.was
    BY <1>t, <2>1, <2>6, <2>8 DEF ConnState
  <2>k. /\ k.audio \in Nat /\ \A m \in On(k.wire) : m.session \in Nat /\ m.session # 0
        /\ \A s \in Begun(k) : s \in Nat /\ s # 0
        /\ h.session # 0 /\ h.final \in BOOLEAN
    BY <1>w, <2>1, EventTypes
  <2> HIDE DEF k
  <2>b. \A s \in Begun(k2) : s \in Begun(k) \/ (s = h.session /\ ~h.final)
    BY <2>5, <2>9 DEF Begun
  <2>10. StreamTypes'
    BY <1>q, <1>r, <1>t, <2>2, <2>6 DEF StreamInv, StreamTypes, Rings
  <2>11. RingInv'
    BY <1>f, <1>n, <1>q, <1>r, <2>2 DEF StreamInv, RingInv, InTime, ToCome
  <2>12. WireInv(k2)
    <3>1. \A m \in On(w) : k2.audio <= m.session
      BY <1>n, <2>3, <2>5, <2>9, <2>k DEF WireInv, LinkInv
    <3>2. ASSUME NEW s \in Begun(k2), NEW m \in On(w), m.session > s
          PROVE  s \in unended \/ Ending(s, w)
      <4>1. CASE s \in Begun(k) /\ m \in On(k.wire)
        BY <2>3, <2>5, <3>2, <4>1 DEF WireInv, Ending
      <4>2. CASE s \in Begun(k) /\ m = h
        <5>1. ToCome(s) \/ Ending(s, k.wire) \/ Ending(s, ring)
          BY <2>3, <4>2 DEF LinkInv, EndsOn
        <5>2. ~(mic.on /\ mic.session = s)
          BY <1>m, <1>n, <2>k, <3>2, <4>2 DEF StreamInv, RingInv, InTime
        <5>3. ~Ending(s, ring)
          BY <1>n, <1>r, <2>k, <3>2, <4>2 DEF Ending, Before
        <5> QED BY <2>5, <5>1, <5>2, <5>3 DEF ToCome, Ending
      <4>3. CASE s = h.session
        BY <1>n, <2>4, <2>5, <2>k, <3>2, <4>3 DEF Before
      <4> QED BY <2>5, <2>b, <3>2, <4>1, <4>2, <4>3
    <3> QED BY <2>5, <2>9, <3>1, <3>2 DEF WireInv
  <2>13. ASSUME NEW c \in Conns PROVE WireInv(conn[c])' /\ HeardInv(conn[c])'
    <3>1. CASE c = link
      BY <2>2, <2>3, <2>8, <2>9, <2>12, <3>1 DEF StreamInv, WireInv, HeardInv, k
    <3>2. CASE c # link
      BY <2>2, <2>7, <3>2 DEF StreamInv, WireInv, HeardInv
    <3> QED BY <3>1, <3>2
  <2>14. ASSUME NEW c \in Conns PROVE TaskInv(c)'
    <3>1. ASSUME NEW s \in Stream!Sessions, Past(c, s) PROVE Past(c, s)'
      <4>1. CASE c = link
        <5>1. h.session > s
          BY <1>n, <2>k, <3>1, <4>1 DEF Past
        <5> QED BY <1>n, <1>q, <2>5, <2>8, <2>9, <3>1, <4>1, <5>1 DEF Past, k
      <4>2. CASE c # link
        BY <1>q, <2>7, <3>1, <4>2 DEF Past
      <4> QED BY <4>1, <4>2
    <3>2. /\ conn'[c].up = conn[c].up /\ conn'[c].over = conn[c].over
          /\ conn'[c].writes = conn[c].writes /\ conn'[c].audio = conn[c].audio
          /\ conn'[c].kind = conn[c].kind
      BY <2>7, <2>8, <2>9 DEF k
    <3> QED BY <1>q, <2>2, <2>14, <3>1, <3>2 DEF StreamInv, TaskInv
  <2>15. LinkInv(k2)'
    <3>1. ASSUME NEW m \in On(w) PROVE InTime(m) /\ \A n \in On(ring') : Before(m, n)
      BY <1>n, <1>r, <2>3, <2>5, <3>1 DEF LinkInv, StreamInv, RingInv
    <3>2. ASSUME NEW s \in Begun(k2) PROVE ToCome(s) \/ Ending(s, w) \/ Ending(s, ring')
      <4>1. CASE s \in Begun(k)
        <5>1. ToCome(s) \/ Ending(s, k.wire) \/ Ending(s, ring)
          BY <2>3, <4>1 DEF LinkInv, EndsOn
        <5>2. Ending(s, k.wire) => Ending(s, w)
          BY <2>5 DEF Ending
        <5>3. Ending(s, ring) => Ending(s, ring') \/ Ending(s, w)
          BY <1>r, <2>5 DEF Ending
        <5> QED BY <5>1, <5>2, <5>3
      <4>2. CASE s = h.session /\ ~h.final
        <5>1. ToCome(s) \/ Ending(s, ring)
          BY <1>n, <2>k, <4>2 DEF StreamInv, RingInv
        <5>2. Ending(s, ring) => Ending(s, ring')
          BY <1>r, <4>2 DEF Ending
        <5> QED BY <5>1, <5>2
      <4> QED BY <2>b, <4>1, <4>2
    <3>3. k2.audio <= mic.session /\ \A n \in On(ring') : n.session # 0 => k2.audio <= n.session
      BY <1>n, <2>3, <2>9 DEF LinkInv
    <3>4. /\ \A m \in On(k2.wire) : InTime(m)' /\ \A n \in On(ring') : Before(m, n)
          /\ \A s \in Begun(k2) : ToCome(s)' \/ Ending(s, k2.wire) \/ Ending(s, ring')
          /\ mic' = mic
      BY <1>q, <2>2, <2>9, <3>1, <3>2 DEF InTime, ToCome
    <3> QED BY <3>3, <3>4 DEF LinkInv, EndsOn
  <2>16. link' # Stream!NoConn => LinkInv(conn[link])'
    BY <1>q, <2>8, <2>15 DEF LinkInv, EndsOn
  <2>17. {c \in Conns : conn'[c].was} = {c \in Conns : conn[c].was}
    BY <2>7, <2>8, <2>9 DEF k
  <2> QED BY <1>q, <2>10, <2>11, <2>13, <2>14, <2>16, <2>17 DEF StreamInv
<1>2. CASE ~(Stream!Sendable /\ h # Stream!News)
  <2>1. unended' = Stream!Loses(h) /\ conn' = conn
    BY <1>2, <1>h DEF Stream!Drain
  <2>2. /\ unended \subseteq unended' /\ unended' \subseteq Stream!Sessions
        /\ h.session # 0 /\ h.final => h.session \in unended'
    BY <1>t, <2>1, EventTypes DEF Stream!Loses, Stream!NoSession, Events, Stream!News
  <2>3. ASSUME NEW s, s # 0, ToCome(s) \/ Ending(s, ring) PROVE ToCome(s)' \/ Ending(s, ring')
    BY <1>e, <1>q, <2>2, <2>3 DEF ToCome
  <2>10. StreamTypes'
    BY <1>q, <1>r, <1>t, <2>1, <2>2 DEF StreamInv, StreamTypes, Rings
  <2>11. RingInv'
    BY <1>f, <1>n, <1>q, <1>r, <2>2 DEF StreamInv, RingInv, InTime, ToCome
  <2>12. ASSUME NEW c \in Conns PROVE WireInv(conn[c])' /\ HeardInv(conn[c])'
    BY <2>1, <2>2 DEF StreamInv, WireInv, HeardInv
  <2>13. ASSUME NEW c \in Conns PROVE TaskInv(c)'
    <3>1. ASSUME NEW s \in Stream!Sessions, Past(c, s) PROVE Past(c, s)'
      BY <1>n, <1>q, <2>1, <3>1 DEF Past
    <3> QED BY <1>q, <2>1, <2>2, <2>13, <3>1 DEF StreamInv, TaskInv
  <2>14. ASSUME link # Stream!NoConn PROVE LinkInv(conn[link])'
    <3>0. link \in Conns
      BY <1>t, <2>14
    <3>1. LinkInv(conn[link])
      BY <2>14 DEF StreamInv
    <3>2. \A s \in Begun(conn[link]) : ToCome(s)' \/ Ending(s, conn[link].wire) \/ Ending(s, ring')
      BY <1>w, <2>3, <3>0, <3>1 DEF LinkInv, EndsOn
    <3>3. conn'[link'] = conn[link]
      BY <1>q, <2>1
    <3> QED BY <1>n, <1>q, <3>1, <3>2, <3>3 DEF LinkInv, EndsOn, InTime
  <2> QED BY <1>q, <2>1, <2>10, <2>11, <2>12, <2>13, <2>14 DEF StreamInv
<1> QED BY <1>1, <1>2

LEMMA LinkMoves ==
  ASSUME Stream!Parameters, StreamInv, (\E c \in Conns : Stream!LinkUp(c)) \/ Stream!LinkDown
  PROVE  StreamInv'
<1>t. /\ conn \in [Conns -> ConnState] /\ link \in Conns \union {Stream!NoConn}
      /\ tasks \in [Conns -> [Stream!Sessions -> TaskState]]
      /\ Stream!NoConn \notin Conns
  BY DEF StreamInv, StreamTypes, Stream!NoConn, Stream!Parameters
<1>1. ASSUME NEW c \in Conns, Stream!LinkUp(c) PROVE StreamInv'
  <2>1. /\ link = Stream!NoConn /\ link' = c /\ conn' = [conn EXCEPT ![c].up = TRUE]
        /\ UNCHANGED <<mic, ring, tasks, capturing, unended>>
    BY <1>1 DEF Stream!LinkUp
  <2>2. conn[c] = Stream!NewConn
    <3>1. c >= c
      BY DEF Stream!Parameters
    <3> QED BY <1>1, <3>1 DEF Stream!LinkUp
  <2>3. PICK k \in ConnState : k = conn'[c] /\ k = [Stream!NewConn EXCEPT !.up = TRUE]
    <3>1. [Stream!NewConn EXCEPT !.up = TRUE] \in ConnState
      BY <1>t, <2>2 DEF ConnState
    <3>2. conn'[c] = [Stream!NewConn EXCEPT !.up = TRUE]
      BY <1>t, <2>1, <2>2
    <3> QED BY <3>1, <3>2
  <2>4. /\ k.wire = <<>> /\ k.audio = 0 /\ k.heard = <<>> /\ k.was = FALSE
    BY <2>3 DEF Stream!NewConn, Stream!NoSession
  <2>5. /\ conn' = [conn EXCEPT ![c] = k] /\ conn' \in [Conns -> ConnState]
        /\ \A d \in Conns : d # c => conn'[d] = conn[d]
    <3>1. conn' = [conn EXCEPT ![c] = k]
      BY <1>t, <2>1, <2>3, <2>2
    <3> QED BY <1>t, <3>1
  <2>6. StreamTypes'
    BY <2>1, <2>5 DEF StreamInv, StreamTypes
  <2>7. RingInv'
    BY <2>1 DEF StreamInv, RingInv, InTime, ToCome
  <2>8. On(k.wire) = {} /\ Ordered(k.wire) /\ Begun(k) = {}
    BY <2>4, OnNothing DEF Begun
  <2>9. ASSUME NEW d \in Conns PROVE WireInv(conn[d])' /\ HeardInv(conn[d])'
    <3>1. CASE d = c
      <4>1. WireInv(k)'
        BY <2>8 DEF WireInv
      <4>2. HeardInv(k)
        <5>1. Len(<<>>) = 0
          BY EmptySeq
        <5>2. \A i \in 1..(0 - 1) : FALSE
          OBVIOUS
        <5> QED BY <2>4, <5>1, <5>2 DEF HeardInv
      <4> QED BY <2>3, <3>1, <4>1, <4>2 DEF WireInv, HeardInv
    <3>2. CASE d # c
      BY <2>1, <2>5, <3>2 DEF StreamInv, WireInv, HeardInv
    <3> QED BY <3>1, <3>2
  <2>10. ASSUME NEW d \in Conns PROVE TaskInv(d)'
    <3>1. CASE d = c
      <4>1. ~conn[c].up /\ ~conn[c].over
        BY <2>2 DEF Stream!NewConn
      <4>2. \A s \in Stream!Sessions : tasks'[c][s].state = "none"
        BY <2>1, <4>1 DEF StreamInv, TaskInv
      <4> QED BY <3>1, <4>2 DEF TaskInv
    <3>2. CASE d # c
      BY <1>t, <2>1, <2>5, <3>2 DEF StreamInv, TaskInv, Past
    <3> QED BY <3>1, <3>2
  <2>11. LinkInv(k)'
    <3>1. 0 <= mic'.session /\ \A n \in On(ring') : n.session # 0 => 0 <= n.session
      <4>1. \A n \in On(ring) : n.session \in Nat
        BY OnIn, EventTypes DEF StreamInv, StreamTypes, Rings
      <4>2. mic.session \in Nat
        BY DEF StreamInv, StreamTypes, MicState
      <4> QED BY <2>1, <4>1, <4>2
    <3> QED BY <2>4, <2>8, <3>1 DEF LinkInv
  <2>12. LinkInv(conn[link])'
    BY <2>1, <2>3, <2>11 DEF LinkInv, EndsOn
  <2>13. {d \in Conns : conn'[d].was} = {d \in Conns : conn[d].was}
    <3>1. conn[c].was = FALSE /\ conn'[c].was = FALSE
      BY <2>2, <2>3, <2>4 DEF Stream!NewConn
    <3> QED BY <2>5, <3>1
  <2> QED BY <2>1, <2>6, <2>7, <2>9, <2>10, <2>12, <2>13 DEF StreamInv
<1>2. CASE Stream!LinkDown
  <2>1. link' = Stream!NoConn /\ UNCHANGED <<mic, ring, conn, tasks, capturing, unended>>
    BY <1>2 DEF Stream!LinkDown
  <2>2. StreamTypes' /\ RingInv'
    BY <2>1 DEF StreamInv, StreamTypes, RingInv, InTime, ToCome
  <2>3. ASSUME NEW d \in Conns PROVE WireInv(conn[d])' /\ HeardInv(conn[d])' /\ TaskInv(d)'
    <3>1. WireInv(conn[d])' /\ HeardInv(conn[d])'
      BY <2>1 DEF StreamInv, WireInv, HeardInv
    <3>2. TaskInv(d)'
      BY <1>t, <2>1 DEF StreamInv, TaskInv, Past
    <3> QED BY <3>1, <3>2
  <2> QED BY <2>1, <2>2, <2>3 DEF StreamInv
<1> QED BY <1>1, <1>2

\* The captures that a connection still has to end, once it has read a chunk.
LEMMA Heard ==
  ASSUME Stream!Parameters, NEW k1 \in ConnState, NEW m \in Stream!Chunks, HeardInv(k1)
  PROVE  LET k == Stream!OnAudio(k1, m)
             k2 == [k EXCEPT !.was = k.audio # Stream!NoSession]
         IN /\ k2 \in ConnState /\ HeardInv(k2) /\ k2.writes = k1.writes
            /\ k2.wire = k1.wire /\ k2.up = k1.up /\ k2.kind = k.kind
            /\ k2.audio = k.audio /\ k2.was = (k.audio # Stream!NoSession)
            /\ k2.audio = 0 \/ (k2.audio = m.session /\ ~m.final)
            /\ k2.kind # k1.kind => k1.audio # m.session
            /\ k2.kind = "transcript" /\ ~m.final => k2.audio = m.session
<1> DEFINE k == Stream!OnAudio(k1, m)
           j == Stream!Continued(k1, m)
           k2 == [k EXCEPT !.was = k.audio # Stream!NoSession]
<1>m. /\ m.session \in 0..MaxSession /\ m.session # 0 /\ m.seq \in 0..MaxSeq
      /\ m.kind \in Stream!Kinds /\ m.final \in BOOLEAN /\ m.seq + 1 \in 0..(MaxSeq + 1)
  BY EventTypes DEF Stream!Sessions, Stream!Parameters
<1>1. /\ j \in ConnState /\ j.audio = m.session /\ j.wire = k1.wire /\ j.up = k1.up
      /\ j.writes = k1.writes
      /\ j.kind # k1.kind => k1.audio # m.session
      /\ Len(j.heard) = 1 \/ k1.gaps \subseteq j.gaps
      /\ j.next = j.heard[Len(j.heard)] + 1
      /\ \A i \in 1..(Len(j.heard) - 1) :
           j.heard[i + 1] = j.heard[i] + 1 \/ j.heard[i + 1] \in j.gaps
  <2>1. CASE k1.audio # m.session
    <3>1. j = [k1 EXCEPT !.audio = m.session, !.kind = m.kind, !.heard = <<m.seq>>, !.gaps = {},
                         !.next = m.seq + 1]
      BY <2>1 DEF Stream!Continued, Stream!AfterChunk
    <3>2. <<m.seq>> \in Numbers /\ Len(<<m.seq>>) = 1 /\ <<m.seq>>[1] = m.seq /\ <<m.seq>> # <<>>
      BY <1>m DEF Numbers
    <3>3. PICK h \in Numbers : h = <<m.seq>>
      BY <3>2
    <3>4. Len(h) = 1 /\ h[1] = m.seq /\ h # <<>>
      BY <3>2, <3>3
    <3>5. j = [k1 EXCEPT !.audio = m.session, !.kind = m.kind, !.heard = h, !.gaps = {},
                         !.next = m.seq + 1]
      BY <3>1, <3>3
    <3>6. /\ j \in ConnState /\ j.audio = m.session /\ j.wire = k1.wire /\ j.up = k1.up
          /\ j.heard = h /\ j.next = m.seq + 1 /\ j.writes = k1.writes
      BY <1>m, <3>5 DEF ConnState
    <3>7. \A i \in 1..(Len(h) - 1) : FALSE
      BY <3>4
    <3> QED BY <2>1, <3>4, <3>6, <3>7
  <2>2. CASE k1.audio = m.session
    <3>1. PICK h \in Numbers : h = k1.heard
      BY DEF ConnState
    <3>2. PICK n \in Nat : n = Len(h)
      BY LenProperties DEF Numbers
    <3>3. /\ Append(h, m.seq) \in Numbers /\ Len(Append(h, m.seq)) = n + 1
          /\ \A i \in 1..n : Append(h, m.seq)[i] = h[i]
          /\ Append(h, m.seq)[n + 1] = m.seq
      BY <1>m, <3>2, AppendProperties DEF Numbers
    <3>4. PICK g \in Numbers : g = Append(h, m.seq)
      BY <3>3
    <3>5. PICK G \in SUBSET Nat :
            G = IF m.seq = k1.next THEN k1.gaps ELSE k1.gaps \union {m.seq}
      <4>1. k1.gaps \in SUBSET Nat
        BY DEF ConnState
      <4>2. m.seq \in Nat
        BY <1>m
      <4> QED BY <4>1, <4>2
    <3>6. j = [k1 EXCEPT !.heard = g, !.next = m.seq + 1, !.gaps = G]
      BY <2>2, <3>1, <3>4, <3>5 DEF Stream!Continued, Stream!AfterChunk
    <3>7. /\ j \in ConnState /\ j.audio = m.session /\ j.wire = k1.wire /\ j.up = k1.up
          /\ j.heard = g /\ j.next = m.seq + 1 /\ j.gaps = G /\ j.kind = k1.kind
          /\ j.writes = k1.writes
      BY <1>m, <2>2, <3>6 DEF ConnState
    <3>8. /\ Len(g) = n + 1 /\ (\A i \in 1..n : g[i] = h[i]) /\ g[n + 1] = m.seq
      BY <3>3, <3>4, Zenon
    <3>9. ASSUME NEW i \in 1..n PROVE g[i + 1] = g[i] + 1 \/ g[i + 1] \in G
      <4>1. CASE i = n
        <5>1. h # <<>>
          BY <3>2, EmptySeq
        <5>2. k1.next = h[n] + 1
          BY <1>m, <2>2, <3>1, <3>2, <5>1 DEF HeardInv
        <5>3. g[i + 1] = m.seq /\ g[i] = h[n]
          BY <3>8, <4>1
        <5> QED BY <3>5, <5>2, <5>3
      <4>2. CASE i # n
        <5>1. i \in 1..(n - 1) /\ i + 1 \in 1..n
          BY <4>2
        <5>2. h[i + 1] = h[i] + 1 \/ h[i + 1] \in k1.gaps
          BY <3>1, <3>2, <5>1 DEF HeardInv
        <5>3. g[i + 1] = h[i + 1] /\ g[i] = h[i]
          BY <3>8, <5>1
        <5> QED BY <3>5, <5>2, <5>3
      <4> QED BY <4>1, <4>2
    <3>10. (n + 1) - 1 = n
      OBVIOUS
    <3>11. k1.gaps \subseteq G
      BY <3>5
    <3> QED BY <2>2, <3>7, <3>8, <3>9, <3>10, <3>11
  <2> QED BY <2>1, <2>2
<1>t. CASE Stream!TooLong(j)
  <2>1. k = [j EXCEPT !.audio = Stream!NoSession, !.heard = k1.heard] /\ j.kind # "transcript"
    BY <1>t DEF Stream!OnAudio, Stream!TooLong
  <2>2. k1.gaps \subseteq j.gaps
    <3>1. Len(j.heard) # 1
      <4>1. MaxUtterance \in Nat \ {0}
        BY DEF Stream!Parameters
      <4>2. Len(j.heard) > MaxUtterance
        BY <1>t DEF Stream!TooLong
      <4>3. ~(1 > MaxUtterance)
        BY <4>1
      <4> HIDE DEF j
      <4> QED BY <4>2, <4>3, Zenon
    <3> QED BY <1>1, <3>1
  <2>3. /\ k \in ConnState /\ k.wire = k1.wire /\ k.up = k1.up /\ k.kind = j.kind
        /\ k.heard = k1.heard /\ k.gaps = j.gaps /\ k.audio = 0 /\ k.writes = k1.writes
    <3>1. 0 \in 0..MaxSession /\ k1.heard \in Numbers
      BY DEF Stream!Parameters, ConnState
    <3> HIDE DEF j, k
    <3> QED BY <1>1, <2>1, <3>1 DEF ConnState, Stream!NoSession
  <2> HIDE DEF j, k
  <2>4. /\ k2 \in ConnState /\ k2.wire = k.wire /\ k2.up = k.up /\ k2.kind = k.kind
        /\ k2.heard = k.heard /\ k2.gaps = k.gaps /\ k2.writes = k.writes
        /\ k2.audio = 0 /\ k2.was = (k.audio # Stream!NoSession)
    BY <2>3 DEF ConnState
  <2> HIDE DEF k2
  <2>5. \A i \in 1..(Len(k2.heard) - 1) :
          k2.heard[i + 1] = k2.heard[i] + 1 \/ k2.heard[i + 1] \in k2.gaps
    <3>1. k2.heard = k1.heard /\ k1.gaps \subseteq k2.gaps
      BY <2>2, <2>3, <2>4
    <3> QED BY <3>1 DEF HeardInv
  <2>6. HeardInv(k2)
    BY <2>3, <2>4, <2>5 DEF HeardInv, Stream!NoSession
  <2>7. /\ k2 \in ConnState /\ HeardInv(k2) /\ k2.writes = k1.writes
        /\ k2.wire = k1.wire /\ k2.up = k1.up /\ k2.kind = k.kind
        /\ k2.audio = k.audio /\ k2.was = (k.audio # Stream!NoSession)
        /\ k2.audio = 0
        /\ k2.kind # k1.kind => k1.audio # m.session
        /\ k2.kind # "transcript"
    BY <1>1, <2>1, <2>3, <2>4, <2>6
  <2> QED BY <2>7 DEF k, k2
<1>e. CASE ~Stream!TooLong(j)
  <2>1. /\ k = j \/ k = [j EXCEPT !.audio = Stream!NoSession]
        /\ m.final => k = [j EXCEPT !.audio = Stream!NoSession]
        /\ ~m.final => k = j
    BY <1>e DEF Stream!OnAudio
  <2> HIDE DEF j, k
  <2>3. /\ k \in ConnState /\ k.wire = k1.wire /\ k.up = k1.up /\ k.kind = j.kind
        /\ k.heard = j.heard /\ k.gaps = j.gaps /\ k.next = j.next /\ k.writes = k1.writes
        /\ k.audio \in {0, m.session} /\ (m.final => k.audio = 0)
        /\ (~m.final => k.audio = m.session)
    <3>0. 0 \in 0..MaxSession
      BY DEF Stream!Parameters
    <3>1. CASE m.final
      BY <1>1, <2>1, <3>0, <3>1 DEF ConnState, Stream!NoSession
    <3>2. CASE ~m.final
      BY <1>1, <2>1, <3>2
    <3> QED BY <1>m, <3>1, <3>2
  <2>4. /\ k2 \in ConnState /\ k2.wire = k.wire /\ k2.up = k.up /\ k2.kind = k.kind
        /\ k2.heard = k.heard /\ k2.gaps = k.gaps /\ k2.next = k.next /\ k2.writes = k.writes
        /\ k2.audio = k.audio /\ k2.was = (k.audio # Stream!NoSession)
    BY <2>3 DEF ConnState
  <2> HIDE DEF k2
  <2>5. HeardInv(k2)
    BY <1>1, <2>3, <2>4 DEF HeardInv, Stream!NoSession
  <2>6. /\ k2 \in ConnState /\ HeardInv(k2) /\ k2.writes = k1.writes
        /\ k2.wire = k1.wire /\ k2.up = k1.up /\ k2.kind = k.kind
        /\ k2.audio = k.audio /\ k2.was = (k.audio # Stream!NoSession)
        /\ k2.audio = 0 \/ (k2.audio = m.session /\ ~m.final)
        /\ k2.kind # k1.kind => k1.audio # m.session
        /\ k2.kind = "transcript" /\ ~m.final => k2.audio = m.session
    BY <1>1, <1>m, <2>3, <2>4, <2>5
  <2> QED BY <2>6 DEF k, k2
<1> QED BY <1>t, <1>e

\* The part counts with the operators that everybody counts with.
LEMMA CountsTheSame ==
  /\ \A S : Stream!Cardinality(S) = Cardinality(S)
  /\ \A S : Stream!IsFiniteSet(S) <=> IsFiniteSet(S)
<1>1. ASSUME NEW S PROVE Stream!Cardinality(S) = Cardinality(S)
  BY DEF Stream!Cardinality, Cardinality
<1>2. ASSUME NEW S PROVE Stream!IsFiniteSet(S) <=> IsFiniteSet(S)
  BY DEF Stream!IsFiniteSet, IsFiniteSet
<1> QED BY <1>1, <1>2

\* The live indicator, when one connection begins or ends a capture.
LEMMA IndicatorFollows ==
  ASSUME Stream!Parameters, StreamInv, NEW c \in Conns, NEW now \in BOOLEAN,
         capturing' = Stream!Follows(conn[c].was, now), conn'[c].was = now,
         \A d \in Conns : d # c => conn'[d] = conn[d]
  PROVE  capturing' = Cardinality({d \in Conns : conn'[d].was})
<1> DEFINE S == {d \in Conns : conn[d].was}
           T == {d \in Conns : conn'[d].was}
<1>1. IsFiniteSet(S) /\ S \subseteq Conns
  <2>1. S \in SUBSET Conns /\ IsFiniteSet(Conns)
    BY CountsTheSame DEF Stream!Parameters
  <2> QED BY <2>1, FS_Subset
<1>2. conn[c].was \in BOOLEAN
  BY DEF StreamInv, StreamTypes, ConnState
<1>3. PICK n \in Nat : n = Cardinality(S) /\ capturing = n
  BY <1>1, FS_CardinalityType DEF StreamInv
<1>4. CASE now /\ ~conn[c].was
  <2>1. T = S \union {c} /\ c \notin S
    BY <1>4
  <2>2. Cardinality(T) = n + 1
    BY <1>1, <1>3, <2>1, FS_AddElement
  <2> QED BY <1>3, <1>4, <2>2 DEF Stream!Follows
<1>5. CASE ~now /\ conn[c].was
  <2>1. T = S \ {c} /\ c \in S
    BY <1>5
  <2>2. Cardinality(T) = n - 1
    BY ZenonT(40), <1>1, <1>3, <2>1, FS_RemoveElement
  <2>3. n # 0
    BY <1>1, <1>3, <2>1, FS_EmptySet
  <2> QED BY <1>3, <1>5, <2>2, <2>3 DEF Stream!Follows
<1>6. CASE now = conn[c].was
  <2>1. T = S
    BY <1>6
  <2> QED BY <1>2, <1>3, <1>6, <2>1 DEF Stream!Follows
<1> QED BY <1>2, <1>4, <1>5, <1>6

\* What becomes of a capture task that loses its sender, and of one that is sent a chunk.
LEMMA SenderDropped ==
  ASSUME NEW t \in TaskState
  PROVE  /\ Stream!Dropped(t) \in TaskState /\ Stream!Dropped(t).state \notin {"open", "gone"}
         /\ Stream!Dropped(t).state = "vanished" => t.state \in {"gone", "vanished"}
         /\ t.state = "none" => Stream!Dropped(t).state = "none"
<1>1. CASE t.state = "open"
  <2>1. Stream!Dropped(t) = [t EXCEPT !.state = "closed"]
    BY <1>1 DEF Stream!Dropped
  <2> QED BY <1>1, <2>1 DEF TaskState, States
<1>2. CASE t.state = "gone"
  <2>1. Stream!Dropped(t) = [t EXCEPT !.state = "vanished"]
    BY <1>2 DEF Stream!Dropped
  <2> QED BY <1>2, <2>1 DEF TaskState, States
<1>3. CASE t.state # "open" /\ t.state # "gone"
  <2>1. Stream!Dropped(t) = t
    BY <1>3 DEF Stream!Dropped
  <2> QED BY <1>3, <2>1
<1> QED BY <1>1, <1>2, <1>3

LEMMA ChunkGiven ==
  ASSUME Stream!Parameters, NEW t \in TaskState, NEW m \in Stream!Chunks, t.queued < MaxQueued
  PROVE  /\ Stream!Given(t, m) \in TaskState
         /\ Stream!Given(t, m).state = "open" => ~m.final
         /\ Stream!Given(t, m).state # "gone"
         /\ Stream!Given(t, m).state = "vanished" => t.state \in {"gone", "vanished"}
<1>1. CASE t.state = "gone"
  <2>1. Stream!Given(t, m) = Stream!Dropped(t)
    BY <1>1 DEF Stream!Given
  <2> QED BY <1>1, <2>1, SenderDropped
<1>2. CASE t.state # "gone"
  <2>1. t.queued + 1 \in 0..MaxQueued
    BY DEF TaskState, Stream!Parameters
  <2>2. Stream!Given(t, m) = [state |-> IF m.final THEN "closed" ELSE "open", queued |-> t.queued + 1]
    BY <1>2 DEF Stream!Given
  <2> QED BY <1>2, <2>1, <2>2 DEF TaskState, States
<1> QED BY <1>1, <1>2

LEMMA DaemonHears ==
  ASSUME Stream!Parameters, StreamInv, NEW c \in Conns, Stream!Receive(c)
  PROVE  StreamInv'
<1>t. /\ conn \in [Conns -> ConnState] /\ link \in Conns \union {Stream!NoConn}
      /\ tasks \in [Conns -> [Stream!Sessions -> TaskState]]
  BY DEF StreamInv, StreamTypes
<1> DEFINE before == conn[c]
           rest == Tail(before.wire)
           m == Head(before.wire)
           k1 == [before EXCEPT !.wire = rest]
           k == Stream!OnAudio(k1, m)
           k2 == [k EXCEPT !.was = k.audio # Stream!NoSession]
<1>1. /\ before.up /\ before.wire # <<>> /\ tasks[c][m.session].queued < MaxQueued
      /\ conn' = [conn EXCEPT ![c] = k2]
      /\ tasks' = IF k.kind = "transcript" THEN [tasks EXCEPT ![c] = Stream!Passed(c, m)] ELSE tasks
      /\ capturing' = Stream!Follows(before.was, k.audio # Stream!NoSession)
      /\ UNCHANGED <<mic, ring, link, unended>>
  BY DEF Stream!Receive
<1>2. before \in ConnState /\ before.wire \in Seq(Stream!Chunks)
  BY <1>t DEF ConnState, Wires
<1>i. WireInv(before) /\ HeardInv(before)
  BY DEF StreamInv
<1> HIDE DEF before
<1>3. /\ rest \in Seq(Stream!Chunks) /\ m \in Stream!Chunks /\ On(before.wire) = On(rest) \union {m}
      /\ Ordered(rest) /\ \A n \in On(rest) : Before(m, n)
  BY <1>1, <1>2, <1>i, QueueTaken DEF WireInv
<1> HIDE DEF rest, m
<1>4. /\ k1 \in ConnState /\ k1.wire = rest /\ k1.audio = before.audio /\ k1.kind = before.kind
      /\ k1.up = before.up /\ k1.writes = before.writes /\ HeardInv(k1)
  BY <1>2, <1>3, <1>i DEF ConnState, HeardInv, Wires
<1> HIDE DEF k1
<1>5. /\ k2 \in ConnState /\ HeardInv(k2) /\ k2.writes = before.writes
      /\ k2.wire = rest /\ k2.up = before.up /\ k2.kind = k.kind
      /\ k2.audio = k.audio /\ k2.was = (k.audio # Stream!NoSession)
      /\ k2.audio = 0 \/ (k2.audio = m.session /\ ~m.final)
      /\ k2.kind # before.kind => before.audio # m.session
      /\ k2.kind = "transcript" /\ ~m.final => k2.audio = m.session
  <2>1. LET kk == Stream!OnAudio(k1, m)
            kk2 == [kk EXCEPT !.was = kk.audio # Stream!NoSession]
        IN /\ kk2 \in ConnState /\ HeardInv(kk2) /\ kk2.writes = k1.writes
           /\ kk2.wire = k1.wire /\ kk2.up = k1.up /\ kk2.kind = kk.kind
           /\ kk2.audio = kk.audio /\ kk2.was = (kk.audio # Stream!NoSession)
           /\ kk2.audio = 0 \/ (kk2.audio = m.session /\ ~m.final)
           /\ kk2.kind # k1.kind => k1.audio # m.session
           /\ kk2.kind = "transcript" /\ ~m.final => kk2.audio = m.session
    BY <1>3, <1>4, Heard
  <2> QED BY <1>4, <2>1
<1> HIDE DEF k2, k
<1>6. conn'[c] = k2 /\ \A d \in Conns : d # c => conn'[d] = conn[d]
  BY <1>1, <1>t
<1>n. /\ m.session \in Nat /\ m.session # 0 /\ m.session \in Stream!Sessions /\ m.final \in BOOLEAN
      /\ m \in On(before.wire)
      /\ \A n \in On(rest) : n.session \in Nat /\ n.session # 0
      /\ \A n \in On(ring) : n.session \in Nat
      /\ before.audio \in Nat /\ k2.audio \in Nat
  <2>1. \A n \in On(rest) : n.session \in Nat /\ n.session # 0
    BY <1>3, OnIn, EventTypes
  <2>2. \A n \in On(ring) : n.session \in Nat
    BY OnIn, EventTypes DEF StreamInv, StreamTypes, Rings
  <2>3. before.audio \in Nat /\ k2.audio \in Nat
    BY <1>2, <1>5 DEF ConnState
  <2> QED BY <1>3, <2>1, <2>2, <2>3, EventTypes
<1>b. ASSUME NEW s \in Begun(k2)
      PROVE  s \in Begun(before) /\ (Ending(s, before.wire) => Ending(s, rest))
  <2>1. CASE \E n \in On(rest) : ~n.final /\ n.session = s
    <3>1. PICK n \in On(rest) : ~n.final /\ n.session = s
      BY <2>1
    <3>2. s \in Begun(before)
      BY <1>3, <3>1 DEF Begun
    <3>3. ~(m.final /\ m.session = s)
      BY <1>3, <1>n, <3>1 DEF Before
    <3> QED BY <1>3, <3>2, <3>3 DEF Ending
  <2>2. CASE k2.audio = s /\ s # 0
    <3>1. m.session = s /\ ~m.final
      BY <1>5, <2>2
    <3>2. s \in Begun(before)
      BY <1>n, <3>1 DEF Begun
    <3> QED BY <1>3, <3>1, <3>2 DEF Ending
  <2> QED BY <1>5, <1>b, <2>1, <2>2 DEF Begun
<1>7. WireInv(k2)
  <2>1. \A n \in On(rest) : k2.audio <= n.session
    BY <1>3, <1>5, <1>n DEF Before
  <2>2. ASSUME NEW s \in Begun(k2), NEW n \in On(rest), n.session > s
        PROVE  s \in unended \/ Ending(s, rest)
    <3>1. s \in unended \/ Ending(s, before.wire)
      BY <1>3, <1>b, <1>i, <2>2 DEF WireInv
    <3> QED BY <1>b, <2>2, <3>1
  <2> QED BY <1>3, <1>5, <2>1, <2>2 DEF WireInv
<1>8. link = c => LinkInv(before)
  <2>1. c # Stream!NoConn
    BY DEF Stream!NoConn, Stream!Parameters
  <2> QED BY <2>1 DEF StreamInv, before
<1>9. link = c => LinkInv(k2)
  <2> SUFFICES ASSUME link = c PROVE LinkInv(k2)
    OBVIOUS
  <2>1. \A n \in On(rest) : InTime(n) /\ \A r \in On(ring) : Before(n, r)
    BY <1>3, <1>8 DEF LinkInv
  <2>2. k2.audio <= mic.session /\ \A n \in On(ring) : n.session # 0 => k2.audio <= n.session
    <3>1. mic.session \in Nat
      BY DEF StreamInv, StreamTypes, MicState
    <3>2. InTime(m) /\ \A r \in On(ring) : Before(m, r)
      BY <1>8, <1>n DEF LinkInv
    <3> QED BY <1>5, <1>n, <3>1, <3>2 DEF InTime, Before
  <2>3. \A s \in Begun(k2) : ToCome(s) \/ Ending(s, rest) \/ Ending(s, ring)
    BY <1>8, <1>b DEF LinkInv, EndsOn
  <2> QED BY <1>5, <2>1, <2>2, <2>3 DEF LinkInv, EndsOn
<1>10. StreamTypes'
  <2>1. conn' \in [Conns -> ConnState]
    BY <1>1, <1>5, <1>t
  <2>2. tasks' \in [Conns -> [Stream!Sessions -> TaskState]]
    <3>1. Stream!Passed(c, m) \in [Stream!Sessions -> TaskState]
      <4>1. ASSUME NEW s \in Stream!Sessions
            PROVE  Stream!Passed(c, m)[s] \in TaskState
        <5>1. CASE s # m.session
          <6>1. Stream!Passed(c, m)[s] = Stream!Dropped(tasks[c][s])
            BY <5>1 DEF Stream!Passed
          <6>2. tasks[c][s] \in TaskState
            BY <1>t
          <6> QED BY <6>1, <6>2, SenderDropped
        <5>2. CASE s = m.session
          <6>1. Stream!Passed(c, m)[s] = Stream!Given(tasks[c][s], m)
            BY <5>2 DEF Stream!Passed
          <6>2. tasks[c][s] \in TaskState /\ tasks[c][s].queued < MaxQueued
            BY <1>1, <1>t, <5>2
          <6> QED BY <1>3, <6>1, <6>2, ChunkGiven
        <5> QED BY <5>1, <5>2
      <4>2. Stream!Passed(c, m) = [s \in Stream!Sessions |-> Stream!Passed(c, m)[s]]
        BY DEF Stream!Passed
      <4> QED BY <4>1, <4>2
    <3> QED BY <1>1, <1>t, <3>1
  <2> QED BY <1>1, <2>1, <2>2 DEF StreamInv, StreamTypes
<1>11. RingInv'
  BY <1>1 DEF StreamInv, RingInv, InTime, ToCome
<1>12. ASSUME NEW d \in Conns PROVE WireInv(conn[d])' /\ HeardInv(conn[d])'
  <2>1. CASE d = c
    BY <1>1, <1>5, <1>6, <1>7, <2>1 DEF WireInv, HeardInv
  <2>2. CASE d # c
    BY <1>1, <1>6, <2>2 DEF StreamInv, WireInv, HeardInv
  <2> QED BY <2>1, <2>2
<1>13. ASSUME NEW d \in Conns PROVE TaskInv(d)'
  <2>1. CASE d # c
    <3>1. tasks'[d] = tasks[d]
      BY <1>1, <1>t, <2>1
    <3> QED BY <1>1, <1>6, <2>1, <3>1 DEF StreamInv, TaskInv, Past
  <2>2. CASE d = c
    <3>t. TaskInv(c)
      BY DEF StreamInv
    <3>1. ASSUME NEW s \in Stream!Sessions, tasks'[c][s].state \in {"open", "gone"}
          PROVE  (k2.audio = s /\ k2.kind = "transcript") \/ (s \in unended /\ Past(c, s)')
      <4>s. s \in Nat /\ s # 0
        BY DEF Stream!Sessions, Stream!Parameters
      <4>1. CASE k.kind = "transcript"
        <5>1. tasks'[c] = Stream!Passed(c, m)
          BY <1>1, <1>t, <4>1
        <5>2. s = m.session /\ ~m.final
          <6>1. CASE s # m.session
            <7>1. tasks'[c][s] = Stream!Dropped(tasks[c][s]) /\ tasks[c][s] \in TaskState
              BY <1>t, <5>1, <6>1 DEF Stream!Passed
            <7> QED BY <3>1, <7>1, SenderDropped
          <6>2. CASE s = m.session
            <7>1. tasks'[c][s] = Stream!Given(tasks[c][s], m) /\ tasks[c][s] \in TaskState
              BY <1>t, <5>1, <6>2 DEF Stream!Passed
            <7>2. tasks[c][s].queued < MaxQueued
              BY <1>1, <6>2
            <7> QED BY <1>3, <3>1, <6>2, <7>1, <7>2, ChunkGiven
          <6> QED BY <6>1, <6>2
        <5> QED BY <1>5, <4>1, <5>2
      <4>2. CASE k.kind # "transcript"
        <5>1. tasks[c][s].state \in {"open", "gone"}
          BY <1>1, <3>1, <4>2
        <5>2. CASE s \in unended /\ Past(c, s)
          BY <1>1, <1>3, <1>5, <1>6, <5>2 DEF Past, before
        <5>3. CASE before.audio = s /\ before.kind = "transcript"
          <6>1. m.session > s
            BY <1>5, <1>i, <1>n, <4>2, <4>s, <5>3 DEF WireInv
          <6>2. s \in Begun(before)
            BY <4>s, <5>3 DEF Begun
          <6>3. ~Ending(s, before.wire)
            BY <1>3, <1>n, <4>s, <6>1 DEF Ending, Before
          <6>4. s \in unended
            BY <1>i, <1>n, <6>1, <6>2, <6>3 DEF WireInv
          <6>5. \A n \in On(rest) : n.session > s
            BY <1>3, <1>n, <4>s, <6>1 DEF Before
          <6>6. c = link => s < mic.session /\ \A n \in On(ring) : n.session # 0 => n.session > s
            <7>1. mic.session \in Nat
              BY DEF StreamInv, StreamTypes, MicState
            <7>2. c = link => InTime(m) /\ \A r \in On(ring) : Before(m, r)
              BY <1>8, <1>n DEF LinkInv
            <7> QED BY <1>n, <4>s, <6>1, <7>1, <7>2 DEF InTime, Before
          <6> QED BY <1>1, <1>5, <1>6, <6>4, <6>5, <6>6 DEF Past
        <5> QED BY <3>t, <5>1, <5>2, <5>3 DEF TaskInv, before
      <4> QED BY <4>1, <4>2
    <3>2. ASSUME NEW s \in Stream!Sessions, tasks'[c][s].state \in {"gone", "vanished"}
          PROVE  ~before.writes
      <4>0. tasks[c][s] \in TaskState
        BY <1>t
      <4>1. tasks[c][s].state \in {"gone", "vanished"}
        <5>1. CASE k.kind # "transcript"
          BY <1>1, <3>2, <5>1
        <5>2. CASE k.kind = "transcript" /\ s # m.session
          <6>1. tasks'[c][s] = Stream!Dropped(tasks[c][s])
            BY <1>1, <1>t, <5>2 DEF Stream!Passed
          <6> QED BY <3>2, <4>0, <6>1, SenderDropped
        <5>3. CASE k.kind = "transcript" /\ s = m.session
          <6>1. tasks'[c][s] = Stream!Given(tasks[c][s], m)
            BY <1>1, <1>t, <5>3 DEF Stream!Passed
          <6>2. tasks[c][s].queued < MaxQueued
            BY <1>1, <5>3
          <6> QED BY <1>3, <3>2, <4>0, <6>1, <6>2, ChunkGiven
        <5> QED BY <5>1, <5>2, <5>3
      <4> QED BY <3>t, <4>1 DEF TaskInv, before
    <3> QED BY <1>1, <1>5, <1>6, <2>2, <3>1, <3>2 DEF TaskInv
  <2> QED BY <2>1, <2>2
<1>14. ASSUME link' # Stream!NoConn PROVE LinkInv(conn[link])'
  <2>1. CASE link = c
    BY <1>1, <1>6, <1>9, <2>1 DEF LinkInv, EndsOn, InTime, ToCome
  <2>2. CASE link # c
    <3>1. link \in Conns /\ link' = link
      BY <1>1, <1>14, <1>t
    <3>2. conn'[link'] = conn[link]
      BY <1>6, <2>2, <3>1
    <3> QED BY <1>1, <1>14, <3>1, <3>2 DEF StreamInv, LinkInv, EndsOn, InTime, ToCome
  <2> QED BY <2>1, <2>2
<1>15. capturing' = Cardinality({d \in Conns : conn'[d].was})
  <2>1. PICK now \in BOOLEAN : now = (k.audio # Stream!NoSession)
    OBVIOUS
  <2>2. capturing' = Stream!Follows(conn[c].was, now) /\ conn'[c].was = now
    BY <1>1, <1>5, <1>6, <2>1 DEF before
  <2> QED BY <1>6, <2>2, IndicatorFollows
<1> QED BY <1>10, <1>11, <1>12, <1>13, <1>14, <1>15 DEF StreamInv

\* A connection that is still to be made.
LEMMA NewConnType ==
  ASSUME Stream!Parameters
  PROVE  Stream!NewConn \in ConnState
<1>1. <<>> \in Wires /\ <<>> \in Numbers /\ 0 \in 0..MaxSession /\ 0 \in 0..(MaxSeq + 1)
  BY DEF Wires, Numbers, Stream!Parameters
<1> QED BY <1>1 DEF Stream!NewConn, ConnState, Stream!NoSession, Stream!Kinds

LEMMA ConnectionEnds ==
  ASSUME Stream!Parameters, StreamInv, NEW c \in Conns, Stream!Ends(c)
  PROVE  StreamInv'
<1>t. /\ conn \in [Conns -> ConnState] /\ link \in Conns \union {Stream!NoConn}
      /\ tasks \in [Conns -> [Stream!Sessions -> TaskState]]
  BY DEF StreamInv, StreamTypes
<1>1. /\ conn[c].up
      /\ conn' = [conn EXCEPT ![c] = Stream!Hung(conn[c])]
      /\ tasks' = [tasks EXCEPT ![c] = Stream!Orphaned(c)]
      /\ capturing' = Stream!Follows(conn[c].was, FALSE)
      /\ UNCHANGED <<mic, ring, link, unended>>
  BY DEF Stream!Ends
<1>2. PICK k \in ConnState : k = Stream!Hung(conn[c])
  <2>1. Stream!NewConn \in ConnState
    BY NewConnType
  <2>2. conn[c].writes \in BOOLEAN
    BY <1>t DEF ConnState
  <2> QED BY <2>1, <2>2 DEF Stream!Hung, ConnState
<1>3. /\ k.wire = <<>> /\ k.audio = 0 /\ k.was = FALSE /\ k.heard = <<>>
      /\ k.over = TRUE /\ k.up = FALSE /\ k.writes = conn[c].writes
  BY <1>2 DEF Stream!Hung, Stream!NewConn, Stream!NoSession
<1>4. /\ conn'[c] = k /\ conn' \in [Conns -> ConnState]
      /\ \A d \in Conns : d # c => conn'[d] = conn[d]
  BY <1>1, <1>2, <1>t
<1>5. /\ Stream!Orphaned(c) \in [Stream!Sessions -> TaskState]
      /\ \A s \in Stream!Sessions :
           /\ Stream!Orphaned(c)[s].state \notin {"open", "gone"}
           /\ Stream!Orphaned(c)[s].state = "vanished" => tasks[c][s].state \in {"gone", "vanished"}
  <2>1. ASSUME NEW s \in Stream!Sessions
        PROVE  /\ Stream!Orphaned(c)[s] \in TaskState
               /\ Stream!Orphaned(c)[s].state \notin {"open", "gone"}
               /\ Stream!Orphaned(c)[s].state = "vanished" => tasks[c][s].state \in {"gone", "vanished"}
    <3>1. Stream!Orphaned(c)[s] = Stream!Dropped(tasks[c][s]) /\ tasks[c][s] \in TaskState
      BY <1>t DEF Stream!Orphaned
    <3> QED BY <3>1, SenderDropped
  <2>2. Stream!Orphaned(c) = [s \in Stream!Sessions |-> Stream!Orphaned(c)[s]]
    BY DEF Stream!Orphaned
  <2> QED BY <2>1, <2>2
<1>6. /\ tasks' \in [Conns -> [Stream!Sessions -> TaskState]] /\ tasks'[c] = Stream!Orphaned(c)
      /\ \A d \in Conns : d # c => tasks'[d] = tasks[d]
  BY <1>1, <1>5, <1>t
<1>7. StreamTypes' /\ RingInv'
  BY <1>1, <1>4, <1>6 DEF StreamInv, StreamTypes, RingInv, InTime, ToCome
<1>8. ASSUME NEW d \in Conns PROVE WireInv(conn[d])' /\ HeardInv(conn[d])'
  <2>1. CASE d = c
    <3>1. On(k.wire) = {} /\ Ordered(k.wire)
      BY <1>3, OnNothing
    <3>2. WireInv(k)'
      <4>1. Begun(k) = {}
        BY <1>3, <3>1 DEF Begun
      <4> QED BY <1>3, <3>1, <4>1 DEF WireInv
    <3>3. HeardInv(k)
      <4>1. Len(<<>>) = 0
        BY EmptySeq
      <4>2. \A i \in 1..(0 - 1) : FALSE
        OBVIOUS
      <4> QED BY <1>3, <4>1, <4>2 DEF HeardInv
    <3> QED BY <1>4, <2>1, <3>2, <3>3 DEF WireInv, HeardInv
  <2>2. CASE d # c
    BY <1>1, <1>4, <2>2 DEF StreamInv, WireInv, HeardInv
  <2> QED BY <2>1, <2>2
<1>9. ASSUME NEW d \in Conns PROVE TaskInv(d)'
  <2>1. CASE d = c
    <3>1. \A s \in Stream!Sessions : tasks'[c][s].state \notin {"open", "gone"}
      BY <1>5, <1>6
    <3>2. ASSUME NEW s \in Stream!Sessions, tasks'[c][s].state \in {"gone", "vanished"}
          PROVE  ~conn'[c].writes
      <4>1. tasks[c][s].state \in {"gone", "vanished"}
        BY <1>5, <1>6, <3>1, <3>2
      <4> QED BY <1>3, <1>4, <4>1 DEF StreamInv, TaskInv
    <3>3. conn'[c].over
      BY <1>3, <1>4
    <3> QED BY <2>1, <3>1, <3>2, <3>3 DEF TaskInv
  <2>2. CASE d # c
    BY <1>1, <1>4, <1>6, <2>2 DEF StreamInv, TaskInv, Past
  <2> QED BY <2>1, <2>2
<1>10. ASSUME link' # Stream!NoConn PROVE LinkInv(conn[link])'
  <2>0. link \in Conns /\ link' = link
    BY <1>1, <1>10, <1>t
  <2>1. CASE link # c
    <3>1. conn'[link'] = conn[link]
      BY <1>4, <2>0, <2>1
    <3> QED BY <1>1, <1>10, <2>0, <3>1 DEF StreamInv, LinkInv, EndsOn, InTime, ToCome
  <2>2. CASE link = c
    <3>1. On(k.wire) = {} /\ Begun(k) = {}
      BY <1>3, OnNothing DEF Begun
    <3>2. 0 <= mic'.session /\ \A n \in On(ring') : n.session # 0 => 0 <= n.session
      <4>1. \A n \in On(ring) : n.session \in Nat
        BY OnIn, EventTypes DEF StreamInv, StreamTypes, Rings
      <4>2. mic.session \in Nat
        BY DEF StreamInv, StreamTypes, MicState
      <4> QED BY <1>1, <4>1, <4>2
    <3>3. LinkInv(k)'
      BY <1>3, <3>1, <3>2 DEF LinkInv
    <3> QED BY <1>4, <2>0, <2>2, <3>3 DEF LinkInv, EndsOn
  <2> QED BY <2>1, <2>2
<1>11. capturing' = Cardinality({d \in Conns : conn'[d].was})
  BY <1>1, <1>3, <1>4, IndicatorFollows
<1> QED BY <1>7, <1>8, <1>9, <1>10, <1>11 DEF StreamInv

LEMMA WriterGoes ==
  ASSUME Stream!Parameters, StreamInv, NEW c \in Conns, Stream!WriterEnds(c)
  PROVE  StreamInv'
<1>t. /\ conn \in [Conns -> ConnState] /\ link \in Conns \union {Stream!NoConn}
  BY DEF StreamInv, StreamTypes
<1>1. /\ conn' = [conn EXCEPT ![c].writes = FALSE]
      /\ UNCHANGED <<mic, ring, link, tasks, capturing, unended>>
  BY DEF Stream!WriterEnds
<1>2. /\ conn' \in [Conns -> ConnState]
      /\ \A d \in Conns :
           /\ conn'[d].up = conn[d].up /\ conn'[d].over = conn[d].over /\ conn'[d].audio = conn[d].audio
           /\ conn'[d].next = conn[d].next /\ conn'[d].kind = conn[d].kind
           /\ conn'[d].heard = conn[d].heard /\ conn'[d].gaps = conn[d].gaps
           /\ conn'[d].was = conn[d].was /\ conn'[d].wire = conn[d].wire
           /\ ~conn[d].writes => ~conn'[d].writes
  <2>1. PICK k \in ConnState : k = [conn[c] EXCEPT !.writes = FALSE]
    BY <1>t DEF ConnState
  <2>2. conn' = [conn EXCEPT ![c] = k]
    BY <1>1, <2>1
  <2>3. /\ k.up = conn[c].up /\ k.over = conn[c].over /\ k.audio = conn[c].audio
        /\ k.next = conn[c].next /\ k.kind = conn[c].kind /\ k.heard = conn[c].heard
        /\ k.gaps = conn[c].gaps /\ k.was = conn[c].was /\ k.wire = conn[c].wire
        /\ k.writes = FALSE
    BY <1>t, <2>1 DEF ConnState
  <2>4. conn'[c] = k /\ \A d \in Conns : d # c => conn'[d] = conn[d]
    BY <1>t, <2>2
  <2> QED BY <1>t, <2>2, <2>3, <2>4
<1>3. StreamTypes' /\ RingInv'
  BY <1>1, <1>2 DEF StreamInv, StreamTypes, RingInv, InTime, ToCome
<1>4. ASSUME NEW d \in Conns PROVE WireInv(conn[d])' /\ HeardInv(conn[d])' /\ TaskInv(d)'
  <2>1. WireInv(conn[d])'
    <3>1. conn'[d].wire = conn[d].wire /\ conn'[d].audio = conn[d].audio /\ unended' = unended
      BY <1>1, <1>2
    <3> QED BY <3>1 DEF StreamInv, WireInv, Begun
  <2>2. HeardInv(conn[d])'
    <3>1. /\ conn'[d].heard = conn[d].heard /\ conn'[d].audio = conn[d].audio
          /\ conn'[d].next = conn[d].next /\ conn'[d].gaps = conn[d].gaps /\ conn'[d].was = conn[d].was
      BY <1>2
    <3> QED BY <3>1 DEF StreamInv, HeardInv
  <2>3. TaskInv(d)'
    BY <1>1, <1>2 DEF StreamInv, TaskInv, Past
  <2> QED BY <2>1, <2>2, <2>3
<1>5. ASSUME link' # Stream!NoConn PROVE LinkInv(conn[link])'
  <2>1. link \in Conns /\ link' = link
    BY <1>1, <1>5, <1>t
  <2>2. conn'[link].wire = conn[link].wire /\ conn'[link].audio = conn[link].audio
    BY <1>2, <2>1
  <2> QED BY <1>1, <1>5, <2>1, <2>2 DEF StreamInv, LinkInv, EndsOn, InTime, ToCome, Begun
<1>6. {d \in Conns : conn'[d].was} = {d \in Conns : conn[d].was}
  BY <1>2
<1> QED BY <1>1, <1>3, <1>4, <1>5, <1>6 DEF StreamInv

LEMMA TasksRun ==
  ASSUME Stream!Parameters, StreamInv, NEW c \in Conns, NEW s \in Stream!Sessions,
         Stream!TakesChunk(c, s) \/ Stream!Files(c, s)
  PROVE  StreamInv'
<1>t. tasks \in [Conns -> [Stream!Sessions -> TaskState]]
  BY DEF StreamInv, StreamTypes
<1>1. PICK st \in States, q \in 0..MaxQueued :
        tasks[c][s] = [state |-> st, queued |-> q]
  BY <1>t DEF TaskState
<1>2. UNCHANGED <<mic, ring, link, conn, capturing, unended>>
  BY DEF Stream!TakesChunk, Stream!Files
<1>3. PICK t \in TaskState :
        /\ tasks' = [tasks EXCEPT ![c][s] = t]
        /\ st \in {"open", "closed"}
        /\ \/ t.state \in {st, "filed"}
           \/ ~conn[c].writes /\ (t.state = "vanished" \/ (t.state = "gone" /\ st = "open"))
  <2>1. CASE Stream!Files(c, s)
    <3>1. [state |-> "filed", queued |-> q] \in TaskState
      BY DEF TaskState, States
    <3>2. tasks' = [tasks EXCEPT ![c][s] = [state |-> "filed", queued |-> q]] /\ st = "closed"
      <4>1. [tasks[c][s] EXCEPT !.state = "filed"] = [state |-> "filed", queued |-> q]
        BY <1>1
      <4>2. tasks' = [tasks EXCEPT ![c][s] = [tasks[c][s] EXCEPT !.state = "filed"]]
        BY <2>1 DEF Stream!Files, Stream!Task
      <4>3. st = "closed"
        BY <1>1, <2>1 DEF Stream!Files
      <4> QED BY <4>1, <4>2, <4>3
    <3> QED BY <3>1, <3>2
  <2>2. CASE Stream!TakesChunk(c, s)
    <3>1. q - 1 \in 0..MaxQueued /\ st \in {"open", "closed"}
      BY <1>1, <2>2 DEF Stream!TakesChunk, Stream!Parameters
    <3>2. /\ [state |-> st, queued |-> q - 1] \in TaskState
          /\ [state |-> "vanished", queued |-> 0] \in TaskState
          /\ [state |-> "gone", queued |-> 0] \in TaskState
      BY <3>1 DEF TaskState, States, Stream!Parameters
    <3>3. \/ tasks' = [tasks EXCEPT ![c][s] = [state |-> st, queued |-> q - 1]]
          \/ ~conn[c].writes /\ tasks' = [tasks EXCEPT ![c][s] = Stream!Returned(tasks[c][s])]
      BY <1>1, <2>2 DEF Stream!TakesChunk, Stream!Task
    <3>4. CASE tasks' = [tasks EXCEPT ![c][s] = [state |-> st, queued |-> q - 1]]
      BY <3>1, <3>2, <3>4
    <3>5. CASE ~conn[c].writes /\ tasks' = [tasks EXCEPT ![c][s] = Stream!Returned(tasks[c][s])]
      <4>1. Stream!Returned(tasks[c][s]) =
              IF st = "open" THEN [state |-> "gone", queued |-> 0] ELSE [state |-> "vanished", queued |-> 0]
        BY <1>1 DEF Stream!Returned
      <4>2. CASE st = "open"
        BY <3>1, <3>2, <3>5, <4>1, <4>2
      <4>3. CASE st # "open"
        BY <3>1, <3>2, <3>5, <4>1, <4>3
      <4> QED BY <4>2, <4>3
    <3> QED BY <3>3, <3>4, <3>5
  <2> QED BY <2>1, <2>2
<1>4. /\ tasks' \in [Conns -> [Stream!Sessions -> TaskState]] /\ tasks'[c][s] = t
      /\ \A d \in Conns : \A r \in Stream!Sessions : d # c \/ r # s => tasks'[d][r] = tasks[d][r]
  BY <1>3, <1>t
<1>5. StreamTypes' /\ RingInv'
  BY <1>2, <1>4 DEF StreamInv, StreamTypes, RingInv, InTime, ToCome
<1>6. ASSUME NEW d \in Conns PROVE WireInv(conn[d])' /\ HeardInv(conn[d])'
  BY <1>2 DEF StreamInv, WireInv, HeardInv
<1>7. ASSUME NEW d \in Conns PROVE TaskInv(d)'
  <2>1. TaskInv(d)
    BY DEF StreamInv
  <2>2. CASE d # c
    BY <1>2, <1>4, <2>1, <2>2 DEF TaskInv, Past
  <2>3. CASE d = c
    <3>1. conn[c].up \/ conn[c].over
      BY <1>1, <1>3, <2>1, <2>3 DEF TaskInv
    <3>2. ASSUME NEW r \in Stream!Sessions
          PROVE  /\ tasks'[c][r].state \in {"open", "gone"} => tasks[c][r].state \in {"open", "gone"}
                 /\ tasks'[c][r].state \in {"gone", "vanished"} =>
                      tasks[c][r].state \in {"gone", "vanished"} \/ ~conn[c].writes
      <4>1. CASE r = s
        BY <1>1, <1>3, <1>4, <4>1
      <4>2. CASE r # s
        BY <1>4, <4>2
      <4> QED BY <4>1, <4>2
    <3> QED BY <1>2, <2>1, <2>3, <3>1, <3>2 DEF TaskInv, Past
  <2> QED BY <2>2, <2>3
<1>8. link' # Stream!NoConn => LinkInv(conn[link])'
  BY <1>2 DEF StreamInv, LinkInv, EndsOn, InTime, ToCome
<1> QED BY <1>2, <1>5, <1>6, <1>7, <1>8 DEF StreamInv

\* What the invariant is for.
LEMMA StreamShows ==
  ASSUME Stream!Parameters, StreamInv
  PROVE  Stream!SpeechArrives /\ Stream!TypeOK
<1>1. Stream!HolesAreReported
  BY DEF StreamInv, HeardInv, Stream!HolesAreReported
<1>2. Stream!IndicatorCounts
  BY CountsTheSame DEF StreamInv, HeardInv, Stream!IndicatorCounts, Stream!NoSession
<1>3. Stream!IndicatorGoesDark
  <2> SUFFICES ASSUME link # Stream!NoConn, ~mic.on, ring = <<>>, conn[link].wire = <<>>,
                      conn[link].audio # 0
               PROVE  conn[link].audio \in unended
    BY DEF Stream!IndicatorGoesDark, Stream!NoSession
  <2>1. conn[link].audio \in Begun(conn[link])
    BY DEF Begun
  <2>2. ToCome(conn[link].audio) \/ Ending(conn[link].audio, <<>>)
    BY <2>1 DEF StreamInv, LinkInv, EndsOn
  <2> QED BY <2>2, OnNothing DEF ToCome, Ending
<1>4. Stream!MeetingsAreKept
  BY DEF StreamInv, TaskInv, Stream!MeetingsAreKept
<1>5. Stream!TypeOK
  <2>1. capturing \in 0..Cardinality(Conns)
    <3>1. {c \in Conns : conn[c].was} \in SUBSET Conns /\ IsFiniteSet(Conns)
      BY CountsTheSame DEF Stream!Parameters
    <3>2. /\ Cardinality({c \in Conns : conn[c].was}) <= Cardinality(Conns)
          /\ IsFiniteSet({c \in Conns : conn[c].was})
      BY <3>1, FS_Subset
    <3>3. Cardinality({c \in Conns : conn[c].was}) \in Nat /\ Cardinality(Conns) \in Nat
      BY <3>1, <3>2, FS_CardinalityType
    <3>4. capturing = Cardinality({c \in Conns : conn[c].was})
      BY DEF StreamInv
    <3> QED BY <3>2, <3>3, <3>4
  <2>2. /\ mic \in MicState
        /\ ring \in Seq(Events) /\ Len(ring) <= RingDepth /\ unended \subseteq Stream!Sessions
        /\ link \in Conns \union {Stream!NoConn}
        /\ tasks \in [Conns -> [Stream!Sessions -> TaskState]]
    BY DEF StreamInv, StreamTypes, Rings
  <2>3. ASSUME NEW c \in Conns
        PROVE  /\ conn[c].audio \in 0..MaxSession /\ conn[c].next \in 0..(MaxSeq + 1)
               /\ conn[c].wire \in Seq(Stream!Chunks)
    BY DEF StreamInv, StreamTypes, ConnState, Wires
  <2> QED BY <2>1, <2>2, <2>3, CountsTheSame DEF Stream!TypeOK, Events, TaskState, States, MicState
<1> QED BY <1>1, <1>2, <1>3, <1>4, <1>5 DEF Stream!SpeechArrives

\* Nothing is open, on its way or in progress.
LEMMA StreamBegins ==
  ASSUME Stream!Parameters, Stream!Init
  PROVE  StreamInv
<1>1. /\ mic.on = FALSE /\ mic.session = 0 /\ ring = <<>> /\ link = Stream!NoConn /\ unended = {}
      /\ conn = [c \in Conns |-> Stream!NewConn] /\ capturing = 0
      /\ tasks = [c \in Conns |-> [s \in Stream!Sessions |-> [state |-> "none", queued |-> 0]]]
      /\ mic \in MicState
  BY DEF Stream!Init, Stream!NoSession, Stream!Kinds, Stream!Parameters, MicState
<1>2. Stream!NewConn \in ConnState
  BY NewConnType
<1>3. On(ring) = {} /\ Ordered(ring) /\ Len(ring) = 0 /\ ring \in Rings
  BY <1>1, OnNothing, EmptySeq DEF Rings
<1>4. [state |-> "none", queued |-> 0] \in TaskState
  BY DEF TaskState, States, Stream!Parameters
<1>5. StreamTypes
  BY <1>1, <1>2, <1>3, <1>4 DEF StreamTypes, Stream!Parameters
<1>6. RingInv
  BY <1>3 DEF RingInv
<1>7. ASSUME NEW c \in Conns PROVE WireInv(conn[c]) /\ TaskInv(c) /\ HeardInv(conn[c])
  <2>1. /\ conn[c].wire = <<>> /\ conn[c].heard = <<>> /\ conn[c].audio = 0 /\ conn[c].was = FALSE
    BY <1>1 DEF Stream!NewConn, Stream!NoSession
  <2>2. WireInv(conn[c])
    BY <2>1, OnNothing DEF WireInv
  <2>3. TaskInv(c)
    BY <1>1 DEF TaskInv
  <2>4. HeardInv(conn[c])
    <3>1. Len(<<>>) = 0
      BY EmptySeq
    <3>2. \A i \in 1..(0 - 1) : FALSE
      OBVIOUS
    <3> QED BY <2>1, <3>1, <3>2 DEF HeardInv
  <2> QED BY <2>2, <2>3, <2>4
<1>8. capturing = Cardinality({c \in Conns : conn[c].was})
  <2>1. {c \in Conns : conn[c].was} = {}
    BY <1>1 DEF Stream!NewConn
  <2> QED BY <1>1, <2>1, FS_EmptySet
<1> QED BY <1>1, <1>5, <1>6, <1>7, <1>8 DEF StreamInv

LEMMA StreamStep ==
  ASSUME Stream!Parameters, StreamInv, [Stream!Next]_(Stream!vars)
  PROVE  StreamInv'
<1>1. CASE UNCHANGED Stream!vars
  <2>1. UNCHANGED <<mic, ring, link, conn, tasks, capturing, unended>>
    BY <1>1 DEF Stream!vars
  <2>2. StreamTypes' /\ RingInv'
    BY <2>1 DEF StreamInv, StreamTypes, RingInv, InTime, ToCome
  <2>3. ASSUME NEW d \in Conns PROVE WireInv(conn[d])' /\ HeardInv(conn[d])' /\ TaskInv(d)'
    BY <2>1 DEF StreamInv, WireInv, HeardInv, TaskInv, Past
  <2>4. link' # Stream!NoConn => LinkInv(conn[link])'
    BY <2>1 DEF StreamInv, LinkInv, EndsOn, InTime, ToCome
  <2> QED BY <2>1, <2>2, <2>3, <2>4 DEF StreamInv
<1>2. CASE Stream!Next
  BY <1>2, DeviceSpeaks, BridgeDrains, LinkMoves, DaemonHears, ConnectionEnds, WriterGoes,
     TasksRun
  DEF Stream!Next
<1> QED BY <1>1, <1>2
-----------------------------------------------------------------------------
(* The daemon's answers.                                                   *)

Messages == [turn : Replies!Turns, piece : 0..MaxPieces, part : 0..MaxParts, parts : 0..MaxParts,
             error : BOOLEAN]
Entries == [turn : Replies!Turns, role : {"user", "assistant"}]
Outs == Seq(Messages)
Talks == Seq(Entries)
Answers == [at : Replies!Places, reply : 0..MaxPieces, part : 0..MaxParts, parts : 0..MaxParts]
Replied == [sent : 0..MaxPieces, end : {"done", "closed", "failed", "open"}]
Channel == [waiting : 0..MaxPieces, result : {"running", "ok", "error"}]

RepliesTypes ==
  /\ live \in 0..MaxTurn
  /\ stream \in [Replies!Turns -> Replied]
  /\ events \in [Replies!Turns -> Channel]
  /\ task \in [Replies!Turns -> Answers]
  /\ out \in Outs
  /\ talk \in Talks /\ Len(talk) <= MaxHistory

\* What was sent of a reply, the latest of it, and what was sent of it before a message.
Of(t) == {i \in DOMAIN out : out[i].turn = t}
Tip(t) == {j \in Of(t) : \A k \in Of(t) : k <= j}
Prev(i) == {j \in Of(out[i].turn) : j < i /\ \A k \in Of(out[i].turn) : k < i => k <= j}
Last(i) == out[i].piece = 0
Entire(i) == out[i].part = out[i].parts

\* What a task has sent: all of what it took, but for the rest of the piece in hand.
Told(t) ==
  /\ \A j \in Of(t) : ~Last(j)
  /\ IF task[t].at = "send" THEN task[t].reply > 0 /\ task[t].part < task[t].parts
                            ELSE task[t].part = task[t].parts
  /\ \A j \in Tip(t) :
       IF task[t].at = "send" /\ task[t].part = 0
       THEN out[j].piece = task[t].reply - 1 /\ Entire(j)
       ELSE /\ out[j].piece = task[t].reply
            /\ out[j].part = task[t].part /\ out[j].parts = task[t].parts
  /\ Tip(t) = {} => task[t].part = 0 /\ task[t].reply = IF task[t].at = "send" THEN 1 ELSE 0

\* A reply under way: what the model sent is taken or waits.
TurnInv(t) ==
  /\ task[t].at = "none" <=> t > live
  /\ events[t].result = "running" <=> stream[t].end = "open"
  /\ events[t].result = "error" <=> stream[t].end = "failed"
  /\ task[t].at # "over" => task[t].reply + events[t].waiting = stream[t].sent /\ Told(t)
  /\ task[t].at \in {"result", "push", "finish"} => events[t].waiting = 0 /\ stream[t].end # "open"
  /\ task[t].at = "push" => events[t].result = "ok"

\* A message follows the one before it, and one that ends a reply follows all of it.
InOrder(i) ==
  /\ \A j \in Prev(i) :
       /\ ~Last(j)
       /\ ~Last(i) => \/ Entire(j) /\ out[i].piece = out[j].piece + 1 /\ out[i].part = 1
                      \/ ~Entire(j) /\ out[i].piece = out[j].piece /\ out[i].part = out[j].part + 1
  /\ Prev(i) = {} /\ ~Last(i) => out[i].piece = 1 /\ out[i].part = 1
Tells(i, sent) ==
  /\ \A j \in Prev(i) : Entire(j) /\ out[j].piece = sent
  /\ Prev(i) = {} => sent = 0

\* A message that was sent: of an older reply only the rest of a piece follows it, or its
\* end, after which the task looks whether it is still the newest.
SentInv(i) ==
  /\ out[i].turn <= live
  /\ InOrder(i)
  /\ Last(i) =>
       /\ task[out[i].turn].at = "over" /\ stream[out[i].turn].end # "open"
       /\ ~out[i].error => Tells(i, stream[out[i].turn].sent)
  /\ \A t \in 1..(out[i].turn - 1) : \A j \in Of(t) : j > i =>
       /\ \A k \in Of(t) : k > i => out[j].piece = out[k].piece
       /\ \/ task[t].at \in {"recv", "over"}
          \/ task[t].at = "send" /\ task[t].reply = out[j].piece

\* An entry of the conversation that may stand there.
Earned(e) ==
  e.role = "assistant" =>
    /\ task[e.turn].at \in {"finish", "over"}
    /\ stream[e.turn].end \notin {"open", "failed"}
    /\ task[e.turn].reply = stream[e.turn].sent

RepliesInv ==
  /\ RepliesTypes
  /\ \A t \in Replies!Turns : TurnInv(t)
  /\ \A i \in DOMAIN out : SentInv(i)
  /\ \A i \in DOMAIN talk : Earned(talk[i])

\* No step takes back what a task, a stream and the newest question have come to.
Goes(t) ==
  /\ task[t].at = "over" => task'[t].at = "over" /\ task'[t].reply = task[t].reply
  /\ task[t].at = "finish" => task'[t].at \in {"finish", "over"} /\ task'[t].reply = task[t].reply
  /\ task[t].at = "recv" /\ t < live => task'[t].at \in {"recv", "over"}
  /\ task[t].at = "send" => task'[t].at \in {"send", "recv", "over"} /\ task'[t].reply = task[t].reply
  /\ task[t].at = "over" \/ stream[t].end # "open" => stream'[t] = stream[t]

\* What was sent is at positions that are numbers.
LEMMA OfNumbers ==
  ASSUME out \in Outs, NEW t
  PROVE  /\ DOMAIN out = 1..Len(out) /\ Len(out) \in Nat
         /\ \A i \in DOMAIN out : out[i] \in Messages
         /\ Of(t) \subseteq 1..Len(out)
<1>1. DOMAIN out = 1..Len(out) /\ Len(out) \in Nat /\ \A i \in DOMAIN out : out[i] \in Messages
  BY LenProperties, ElementOfSeq DEF Outs
<1> QED BY <1>1 DEF Of

\* As long as nothing is sent, what was sent is what it was.
LEMMA NothingSent ==
  ASSUME out' = out
  PROVE  /\ \A t : Of(t)' = Of(t) /\ Tip(t)' = Tip(t)
         /\ \A i : /\ Prev(i)' = Prev(i) /\ (Last(i)' <=> Last(i)) /\ (Entire(i)' <=> Entire(i))
                  /\ (InOrder(i)' <=> InOrder(i))
         /\ \A i, sent : Tells(i, sent)' <=> Tells(i, sent')
<1>1. \A t : Of(t)' = Of(t)
  BY DEF Of
<1>2. \A t : Tip(t)' = Tip(t)
  BY <1>1 DEF Tip
<1>3. \A i : Prev(i)' = Prev(i)
  BY <1>1 DEF Prev
<1>4. \A i : (Last(i)' <=> Last(i)) /\ (Entire(i)' <=> Entire(i))
  BY DEF Last, Entire
<1>5. \A i : InOrder(i)' <=> InOrder(i)
  BY <1>3, <1>4 DEF InOrder
<1>6. \A i, sent : Tells(i, sent)' <=> Tells(i, sent')
  BY <1>3, <1>4 DEF Tells
<1> QED BY <1>1, <1>2, <1>3, <1>4, <1>5, <1>6

\* Nothing is sent: what holds of the turns holds of what was sent.
LEMMA RepliesSettle ==
  ASSUME Replies!Parameters, RepliesInv, RepliesTypes', out' = out, live' >= live,
         \A t \in Replies!Turns : TurnInv(t)' /\ Goes(t),
         \A i \in DOMAIN talk' : Earned(talk[i])'
  PROVE  RepliesInv'
<1>1. /\ live \in Nat /\ live' \in Nat /\ live <= live' /\ live <= MaxTurn /\ Replies!Turns = 1..MaxTurn
      /\ MaxTurn \in Int
  BY DEF RepliesInv, RepliesTypes, Replies!Turns, Replies!Parameters
<1>2. \A i \in DOMAIN out : out[i].turn \in Replies!Turns /\ out[i].turn \in Nat
  <2>1. \A i \in DOMAIN out : out[i] \in Messages
    BY OfNumbers DEF RepliesInv, RepliesTypes
  <2> QED BY <1>1, <2>1 DEF Messages
<1>3. ASSUME NEW i \in DOMAIN out PROVE SentInv(i)'
  <2> DEFINE u == out[i].turn
  <2>1. SentInv(i) /\ u \in Replies!Turns /\ u \in Nat /\ out'[i] = out[i]
    BY <1>2 DEF RepliesInv
  <2>2. \A t : Of(t)' = Of(t)
    BY DEF Of
  <2>3. /\ Last(i)' <=> Last(i)
        /\ InOrder(i)'
        /\ Tells(i, stream[u].sent) /\ stream'[u] = stream[u] => Tells(i, stream[u].sent)'
    BY <2>1, NothingSent DEF SentInv
  <2>4. u <= live'
    BY <1>1, <2>1 DEF SentInv
  <2>5. ASSUME Last(i) PROVE task'[u].at = "over" /\ stream'[u] = stream[u]
    BY <2>1, <2>5 DEF SentInv, Goes
  <2>6. ASSUME NEW t \in 1..(u - 1), NEW j \in Of(t), j > i
        PROVE  /\ \A k \in Of(t) : k > i => out[j].piece = out[k].piece
               /\ \/ task'[t].at \in {"recv", "over"}
                  \/ task'[t].at = "send" /\ task'[t].reply = out[j].piece
    <3>1. t \in Replies!Turns /\ t < live
      BY <1>1, <2>1 DEF SentInv
    <3>2. /\ \A k \in Of(t) : k > i => out[j].piece = out[k].piece
          /\ \/ task[t].at \in {"recv", "over"}
             \/ task[t].at = "send" /\ task[t].reply = out[j].piece
      BY <2>1, <2>6 DEF SentInv
    <3>3. Goes(t)
      BY <3>1
    <3> QED BY <3>1, <3>2, <3>3 DEF Goes
  <2>7. Last(i) /\ ~out[i].error => Tells(i, stream[u].sent)
    BY <2>1 DEF SentInv
  <2>8. Last(i) => stream[u].end # "open"
    BY <2>1 DEF SentInv
  <2> QED BY <2>1, <2>2, <2>3, <2>4, <2>5, <2>6, <2>7, <2>8 DEF SentInv
<1> QED BY <1>3 DEF RepliesInv

\* An entry that was earned stays so.
LEMMA StaysEarned ==
  ASSUME RepliesInv, \A t \in Replies!Turns : Goes(t), NEW e \in Entries, Earned(e)
  PROVE  e.role = "assistant" =>
           /\ task'[e.turn].at \in {"finish", "over"}
           /\ stream'[e.turn].end \notin {"open", "failed"}
           /\ task'[e.turn].reply = stream'[e.turn].sent
<1>1. e.turn \in Replies!Turns
  BY DEF Entries
<1> QED BY <1>1 DEF Earned, Goes

\* Nothing is sent, and the conversation is what it was.
LEMMA RepliesRest ==
  ASSUME Replies!Parameters, RepliesInv, RepliesTypes', out' = out, talk' = talk, live' >= live,
         \A t \in Replies!Turns : TurnInv(t)' /\ Goes(t)
  PROVE  RepliesInv'
<1>1. ASSUME NEW i \in DOMAIN talk' PROVE Earned(talk[i])'
  <2>1. i \in DOMAIN talk /\ talk[i] \in Entries /\ talk'[i] = talk[i] /\ Earned(talk[i])
    <3>1. talk \in Seq(Entries) /\ i \in DOMAIN talk /\ DOMAIN talk = 1..Len(talk)
      BY LenProperties DEF RepliesInv, RepliesTypes, Talks
    <3> QED BY <3>1, ElementOfSeq DEF RepliesInv
  <2> QED BY <2>1, StaysEarned DEF Earned
<1> QED BY <1>1, RepliesSettle

\* Only one turn moves.
LEMMA OneTurn ==
  ASSUME RepliesInv, NEW t \in Replies!Turns, out' = out, live' = live,
         \A u \in Replies!Turns \ {t} :
           task'[u] = task[u] /\ stream'[u] = stream[u] /\ events'[u] = events[u],
         TurnInv(t)', Goes(t)
  PROVE  \A u \in Replies!Turns : TurnInv(u)' /\ Goes(u)
<1>3. ASSUME NEW u \in Replies!Turns, u # t PROVE TurnInv(u)' /\ Goes(u)
  <2>1. TurnInv(u)
    BY DEF RepliesInv
  <2>2. task'[u] = task[u] /\ stream'[u] = stream[u] /\ events'[u] = events[u]
    BY <1>3
  <2>3. Told(u)' <=> Told(u)
    BY <2>2, NothingSent DEF Told
  <2> QED BY <2>1, <2>2, <2>3 DEF TurnInv, Goes
<1> QED BY <1>3

\* The types, turn by turn.
LEMMA TurnTypes ==
  ASSUME Replies!Parameters, RepliesTypes, NEW t \in Replies!Turns
  PROVE  /\ task[t].at \in Replies!Places /\ task[t].reply \in 0..MaxPieces
         /\ task[t].part \in 0..MaxParts /\ task[t].parts \in 0..MaxParts
         /\ task[t].part \in Int /\ task[t].parts \in Int /\ MaxParts \in Int
         /\ events[t].waiting \in 0..MaxPieces /\ events[t].result \in {"running", "ok", "error"}
         /\ stream[t].sent \in 0..MaxPieces /\ stream[t].end \in {"done", "closed", "failed", "open"}
         /\ task[t].reply \in Int /\ events[t].waiting \in Int /\ stream[t].sent \in Int
         /\ MaxPieces \in Int /\ live \in Int /\ MaxTurn \in Int /\ t \in Int
         /\ task[t] \in Answers /\ events[t] \in Channel /\ stream[t] \in Replied
<1>1. task[t] \in Answers /\ events[t] \in Channel /\ stream[t] \in Replied
  BY DEF RepliesTypes
<1>3. /\ t \in Int /\ MaxTurn \in Int /\ live \in Int /\ MaxPieces \in Int
      /\ MaxParts \in Int
  BY DEF Replies!Parameters, RepliesTypes, Replies!Turns
<1> QED BY <1>1, <1>3 DEF Answers, Channel, Replied

\* A new question.
LEMMA AskHolds ==
  ASSUME Replies!Parameters, RepliesInv, Replies!Ask
  PROVE  RepliesInv'
<1>1. /\ live < MaxTurn /\ live' = live + 1
      /\ task' = [task EXCEPT ![live + 1].at = "recv"]
      /\ stream' = stream /\ events' = events /\ out' = out /\ talk' = talk
  BY DEF Replies!Ask, Replies!At
<1>0. RepliesTypes
  BY DEF RepliesInv
<1>2. live \in Nat /\ live + 1 \in Nat /\ MaxTurn \in Nat
  BY <1>0, <1>1 DEF RepliesTypes, Replies!Parameters
<1>3. /\ task' \in [Replies!Turns -> Answers]
      /\ \A t \in Replies!Turns :
           /\ t # live + 1 => task'[t] = task[t]
           /\ t = live + 1 => /\ task'[t].at = "recv" /\ task'[t].reply = task[t].reply
                              /\ task'[t].part = task[t].part /\ task'[t].parts = task[t].parts
  <2>1. live + 1 \in Replies!Turns
    BY <1>1, <1>2 DEF Replies!Turns
  <2>2. task \in [Replies!Turns -> Answers] /\ "recv" \in Replies!Places
    BY <1>0 DEF RepliesTypes, Replies!Places
  <2> QED BY <1>1, <2>1, <2>2 DEF Answers
<1>4. RepliesTypes'
  <2>1. task' \in [Replies!Turns -> Answers]
    BY <1>3
  <2>2. live' \in 0..MaxTurn
    BY <1>1, <1>2
  <2> QED BY <1>0, <1>1, <2>1, <2>2 DEF RepliesTypes
<1>5. ASSUME NEW t \in Replies!Turns PROVE TurnInv(t)' /\ Goes(t)
  <2>1. TurnInv(t) /\ t \in Int
    BY <1>0, TurnTypes DEF RepliesInv
  <2>3. CASE t = live + 1
    <3>1. task[t].at = "none"
      BY <1>2, <2>1, <2>3 DEF TurnInv
    <3>2. /\ task'[t].at = "recv" /\ task'[t].reply = task[t].reply
          /\ task'[t].part = task[t].part /\ task'[t].parts = task[t].parts
      BY <1>3, <2>3
    <3>3. ~(t > live')
      BY <1>1, <1>2, <2>3
    <3>4. Told(t)
      BY <2>1, <3>1 DEF TurnInv
    <3>5. Told(t)'
      BY <1>1, <3>1, <3>2, <3>4, NothingSent DEF Told
    <3> QED BY <1>1, <2>1, <3>1, <3>2, <3>3, <3>5 DEF TurnInv, Goes
  <2>4. CASE t # live + 1
    <3>1. task'[t] = task[t]
      BY <1>3, <2>4
    <3>2. t > live' <=> t > live
      <4>1. t \in Int
        BY <2>1
      <4> QED BY <1>1, <1>2, <2>4, <4>1
    <3>3. Told(t)' <=> Told(t)
      BY <1>1, <3>1, NothingSent DEF Told
    <3> QED BY <1>1, <2>1, <3>1, <3>2, <3>3 DEF TurnInv, Goes
  <2> QED BY <2>3, <2>4
<1>6. live' >= live
  BY <1>1, <1>2
<1> QED BY <1>1, <1>4, <1>5, <1>6, RepliesRest

\* The model streams a piece, or its stream ends.
LEMMA StreamHolds ==
  ASSUME Replies!Parameters, RepliesInv, NEW t \in Replies!Turns, NEW how \in Replies!Ends,
         Replies!Piece(t) \/ Replies!StreamEnds(t, how)
  PROVE  RepliesInv'
<1>0. RepliesTypes /\ TurnInv(t)
  BY DEF RepliesInv
<1>1. /\ task[t].at \notin {"none", "over"} /\ stream[t].end = "open"
      /\ live' = live /\ task' = task /\ out' = out /\ talk' = talk
  BY DEF Replies!Piece, Replies!StreamEnds, Replies!Running
<1>2. Told(t)' <=> Told(t)
  BY <1>1, NothingSent DEF Told
<1>3. task[t].at \notin {"result", "push", "finish"}
  BY <1>0, <1>1 DEF TurnInv
<1>t. /\ stream[t] \in Replied /\ events[t] \in Channel
      /\ stream \in [Replies!Turns -> Replied] /\ events \in [Replies!Turns -> Channel]
  BY <1>0, TurnTypes DEF RepliesTypes
<1>r. /\ task[t].reply + events[t].waiting = stream[t].sent
      /\ task[t].reply \in Int /\ events[t].waiting \in Int /\ stream[t].sent \in Int
      /\ 0 <= task[t].reply /\ 0 <= events[t].waiting /\ MaxPieces \in Int
  <2>1. task[t].reply + events[t].waiting = stream[t].sent
    BY <1>0, <1>1 DEF TurnInv
  <2>2. task[t].reply \in 0..MaxPieces /\ events[t].waiting \in 0..MaxPieces
        /\ stream[t].sent \in 0..MaxPieces /\ MaxPieces \in Int
    BY <1>0, TurnTypes
  <2> QED BY <2>1, <2>2
<1>4. CASE Replies!Piece(t)
  <2>1. PICK m, w : m = stream[t].sent + 1 /\ w = events[t].waiting + 1
    OBVIOUS
  <2>2. /\ stream[t].sent < MaxPieces
        /\ stream' = [stream EXCEPT ![t].sent = m] /\ events' = [events EXCEPT ![t].waiting = w]
    BY <1>4, <2>1 DEF Replies!Piece
  <2>3. m \in 0..MaxPieces /\ w \in 0..MaxPieces /\ task[t].reply + w = m
    BY <1>r, <2>1, <2>2
  <2>4. /\ stream' \in [Replies!Turns -> Replied] /\ stream'[t].sent = m
        /\ stream'[t].end = stream[t].end
    BY <1>t, <2>2, <2>3 DEF Replied
  <2>5. /\ events' \in [Replies!Turns -> Channel] /\ events'[t].waiting = w
        /\ events'[t].result = events[t].result
    BY <1>t, <2>2, <2>3 DEF Channel
  <2>6. RepliesTypes'
    BY <1>0, <1>1, <2>4, <2>5 DEF RepliesTypes
  <2>7. TurnInv(t)' /\ Goes(t)
    BY <1>0, <1>1, <1>2, <1>3, <2>3, <2>4, <2>5 DEF TurnInv, Goes
  <2>8. \A u \in Replies!Turns \ {t} :
          task'[u] = task[u] /\ stream'[u] = stream[u] /\ events'[u] = events[u]
    BY <1>1, <1>t, <2>2
  <2>9. \A u \in Replies!Turns : TurnInv(u)' /\ Goes(u)
    BY <1>1, <2>7, <2>8, OneTurn
  <2>10. live' >= live
    BY <1>0, <1>1, TurnTypes
  <2> QED BY <1>1, <2>6, <2>9, <2>10, RepliesRest
<1>5. CASE Replies!StreamEnds(t, how)
  <2>1. PICK r : r = Replies!Result(how)
    OBVIOUS
  <2>2. /\ stream' = [stream EXCEPT ![t].end = how]
        /\ events' = [events EXCEPT ![t].result = r]
    BY <1>5, <2>1 DEF Replies!StreamEnds
  <2>3. /\ how \in {"done", "closed", "failed"} /\ r \in {"ok", "error"}
        /\ r = "error" <=> how = "failed"
    BY <2>1 DEF Replies!Ends, Replies!Result
  <2>4. /\ stream' \in [Replies!Turns -> Replied] /\ stream'[t].sent = stream[t].sent
        /\ stream'[t].end = how
    BY <1>t, <2>2, <2>3 DEF Replied
  <2>5. /\ events' \in [Replies!Turns -> Channel] /\ events'[t].waiting = events[t].waiting
        /\ events'[t].result = r
    BY <1>t, <2>2, <2>3 DEF Channel
  <2>6. RepliesTypes'
    BY <1>0, <1>1, <2>4, <2>5 DEF RepliesTypes
  <2>7. TurnInv(t)' /\ Goes(t)
    BY <1>0, <1>1, <1>2, <1>3, <2>3, <2>4, <2>5 DEF TurnInv, Goes
  <2>8. \A u \in Replies!Turns \ {t} :
          task'[u] = task[u] /\ stream'[u] = stream[u] /\ events'[u] = events[u]
    BY <1>1, <1>t, <2>2
  <2>9. \A u \in Replies!Turns : TurnInv(u)' /\ Goes(u)
    BY <1>1, <2>7, <2>8, OneTurn
  <2>10. live' >= live
    BY <1>0, <1>1, TurnTypes
  <2> QED BY <1>1, <2>6, <2>9, <2>10, RepliesRest
<1> QED BY <1>4, <1>5

\* The task takes a piece, finds that there are no more, or stops.
LEMMA TaskHolds ==
  ASSUME Replies!Parameters, RepliesInv, NEW t \in Replies!Turns,
         Replies!Take(t) \/ Replies!Drained(t) \/ Replies!Killed(t)
  PROVE  RepliesInv'
<1>0. RepliesTypes /\ TurnInv(t)
  BY DEF RepliesInv
<1>1. live' = live /\ stream' = stream /\ out' = out /\ talk' = talk
  BY DEF Replies!Take, Replies!Drained, Replies!Killed
<1>t. /\ task[t] \in Answers /\ events[t] \in Channel
      /\ task \in [Replies!Turns -> Answers] /\ events \in [Replies!Turns -> Channel]
  BY <1>0, TurnTypes DEF RepliesTypes
<1>r. /\ task[t].reply \in 0..MaxPieces /\ events[t].waiting \in 0..MaxPieces
      /\ stream[t].sent \in 0..MaxPieces /\ MaxPieces \in Int /\ live \in Int /\ t \in Int
      /\ MaxParts \in Int
  BY <1>0, TurnTypes
<1>l. live' >= live
  BY <1>1, <1>r
\* What remains to be shown of a step: this turn.
<1>u. ASSUME task' \in [Replies!Turns -> Answers], events' \in [Replies!Turns -> Channel],
             TurnInv(t)', Goes(t),
             \A u \in Replies!Turns \ {t} : task'[u] = task[u] /\ events'[u] = events[u]
      PROVE  RepliesInv'
  <2>1. RepliesTypes'
    BY <1>0, <1>1, <1>u DEF RepliesTypes
  <2>2. \A u \in Replies!Turns : TurnInv(u)' /\ Goes(u)
    <3>1. \A u \in Replies!Turns \ {t} :
            task'[u] = task[u] /\ stream'[u] = stream[u] /\ events'[u] = events[u]
      BY <1>1, <1>u
    <3> QED BY <1>1, <1>u, <3>1, OneTurn
  <2> QED BY <1>1, <1>l, <2>1, <2>2, RepliesRest
\* The task moves to another place, and takes nothing.
<1>m. ASSUME NEW place \in Replies!Places, task' = [task EXCEPT ![t].at = place], place # "none"
      PROVE  /\ task' \in [Replies!Turns -> Answers]
             /\ task'[t].at = place /\ task'[t].reply = task[t].reply
             /\ task'[t].part = task[t].part /\ task'[t].parts = task[t].parts
             /\ \A u \in Replies!Turns \ {t} : task'[u] = task[u]
  BY <1>t, <1>m DEF Answers
<1>3. CASE Replies!Take(t)
  <2>1. PICK w : w = events[t].waiting - 1
    OBVIOUS
  <2>2. /\ task[t].at = "recv" /\ events[t].waiting > 0
        /\ events' = [events EXCEPT ![t].waiting = w]
    BY <1>3, <2>1 DEF Replies!Take
  <2>3. w \in 0..MaxPieces
    BY <1>r, <2>1, <2>2
  <2>4. /\ events' \in [Replies!Turns -> Channel] /\ events'[t].waiting = w
        /\ events'[t].result = events[t].result
        /\ \A u \in Replies!Turns \ {t} : events'[u] = events[u]
    BY <1>t, <2>2, <2>3 DEF Channel
  <2>5. CASE live # t
    <3>1. task' = [task EXCEPT ![t].at = "over"] /\ "over" \in Replies!Places
      BY <1>3, <2>5 DEF Replies!Take, Replies!At, Replies!Places
    <3>2. /\ task' \in [Replies!Turns -> Answers]
          /\ task'[t].at = "over" /\ task'[t].reply = task[t].reply
          /\ \A u \in Replies!Turns \ {t} : task'[u] = task[u]
      BY <1>m, <3>1
    <3>3. TurnInv(t)' /\ Goes(t)
      BY <1>0, <1>1, <2>2, <2>4, <3>2 DEF TurnInv, Goes
    <3> QED BY <1>u, <2>4, <3>2, <3>3
  <2>6. CASE live = t
    <3>1. PICK r : r = task[t].reply + 1
      OBVIOUS
    <3>2. PICK parts \in 1..MaxParts : Replies!Sends(t, parts)
      BY <1>3, <2>6 DEF Replies!Take
    <3>3. /\ task[t].reply + events[t].waiting = stream[t].sent /\ Told(t)
      BY <1>0, <2>2 DEF TurnInv
    <3>4. r \in 0..MaxPieces /\ r + w = stream[t].sent /\ r > 0 /\ r - 1 = task[t].reply
      BY <1>r, <2>1, <2>2, <3>1, <3>3
    <3>5. PICK a : a = [at |-> "send", reply |-> r, part |-> 0, parts |-> parts]
      OBVIOUS
    <3>6. /\ a \in Answers /\ a.at = "send" /\ a.reply = r /\ a.part = 0 /\ a.parts = parts
          /\ 0 < parts
      BY <1>r, <3>4, <3>5 DEF Answers, Replies!Places
    <3>7. task' = [task EXCEPT ![t] = a]
      BY <3>1, <3>2, <3>5 DEF Replies!Sends
    <3>8. /\ task' \in [Replies!Turns -> Answers] /\ task'[t] = a
          /\ \A u \in Replies!Turns \ {t} : task'[u] = task[u]
      BY <1>t, <3>6, <3>7
    <3>9. Told(t)'
      <4>1. /\ \A j \in Of(t) : ~Last(j)
            /\ task[t].part = task[t].parts
            /\ \A j \in Tip(t) : /\ out[j].piece = task[t].reply /\ out[j].part = task[t].part
                                 /\ out[j].parts = task[t].parts
            /\ Tip(t) = {} => task[t].reply = 0
        BY <2>2, <3>3 DEF Told
      <4>2. \A j \in Tip(t) : out[j].piece = r - 1 /\ Entire(j)
        BY <3>4, <4>1 DEF Entire
      <4>3. Tip(t) = {} => r = 1
        BY <3>1, <4>1
      <4>4. /\ task'[t].at = "send" /\ task'[t].reply = r /\ task'[t].part = 0
            /\ task'[t].parts = parts
        BY <3>6, <3>8
      <4> QED BY <1>1, <3>4, <3>6, <4>1, <4>2, <4>3, <4>4, NothingSent DEF Told
    <3>10. TurnInv(t)' /\ Goes(t)
      BY <1>0, <1>1, <1>r, <2>2, <2>4, <2>6, <3>4, <3>6, <3>8, <3>9 DEF TurnInv, Goes
    <3> QED BY <1>u, <2>4, <3>8, <3>10
  <2> QED BY <2>5, <2>6
<1>4. CASE Replies!Drained(t)
  <2>1. /\ task[t].at = "recv" /\ events[t].waiting = 0 /\ events[t].result # "running"
        /\ events' = events
        /\ task' = [task EXCEPT ![t].at = IF live = t THEN "result" ELSE "over"]
    BY <1>4 DEF Replies!Drained, Replies!At
  <2>2. PICK place : place = IF live = t THEN "result" ELSE "over"
    OBVIOUS
  <2>3. place \in Replies!Places /\ place \in {"result", "over"}
        /\ place # "none" /\ (place = "result" => live = t)
    BY <2>2 DEF Replies!Places
  <2>4. task' = [task EXCEPT ![t].at = place]
    BY <2>1, <2>2
  <2>5. /\ task' \in [Replies!Turns -> Answers]
        /\ task'[t].at = place /\ task'[t].reply = task[t].reply
        /\ task'[t].part = task[t].part /\ task'[t].parts = task[t].parts
        /\ \A u \in Replies!Turns \ {t} : task'[u] = task[u]
    BY <1>m, <2>3, <2>4
  <2>7. Told(t) => Told(t)'
    BY <1>1, <2>1, <2>3, <2>5, NothingSent DEF Told
  <2>6. TurnInv(t)' /\ Goes(t)
    BY <1>0, <1>1, <1>r, <2>1, <2>3, <2>5, <2>7 DEF TurnInv, Goes
  <2> QED BY <1>t, <1>u, <2>1, <2>5, <2>6
<1>5. CASE Replies!Killed(t)
  <2>1. /\ task[t].at \in {"recv", "send", "result", "finish"} /\ events' = events
        /\ task' = [task EXCEPT ![t].at = "over"] /\ "over" \in Replies!Places
    BY <1>5 DEF Replies!Killed, Replies!At, Replies!Places
  <2>2. /\ task' \in [Replies!Turns -> Answers]
        /\ task'[t].at = "over" /\ task'[t].reply = task[t].reply
        /\ \A u \in Replies!Turns \ {t} : task'[u] = task[u]
    BY <1>m, <2>1
  <2>3. TurnInv(t)' /\ Goes(t)
    BY <1>0, <1>1, <2>1, <2>2 DEF TurnInv, Goes
  <2> QED BY <1>t, <1>u, <2>1, <2>2, <2>3
<1> QED BY <1>3, <1>4, <1>5

\* What was sent, once a message is added.
LEMMA OutGrows ==
  ASSUME out \in Outs, NEW e \in Messages, out' = Append(out, e)
  PROVE  \E n \in Nat :
           /\ out' \in Outs /\ DOMAIN out = 1..n /\ DOMAIN out' = (1..n) \union {n + 1}
           /\ out'[n + 1] = e /\ \A i \in 1..n : out'[i] = out[i]
           /\ \A t : Of(t)' = IF t = e.turn THEN Of(t) \union {n + 1} ELSE Of(t)
           /\ \A t : Of(t) \subseteq 1..n
           /\ \A t : Tip(t)' = IF t = e.turn THEN {n + 1} ELSE Tip(t)
           /\ \A i \in 1..n : Prev(i)' = Prev(i) /\ Prev(i) \subseteq 1..n
           /\ Prev(n + 1)' = Tip(e.turn)
<1>1. PICK n \in Nat : n = Len(out)
  BY LenProperties DEF Outs
<1>2. /\ Append(out, e) \in Seq(Messages) /\ Len(Append(out, e)) = Len(out) + 1
      /\ \A i \in 1..Len(out) : Append(out, e)[i] = out[i]
      /\ Append(out, e)[Len(out) + 1] = e
  BY AppendProperties DEF Outs
<1>3. /\ out' \in Outs /\ Len(out') = n + 1 /\ out'[n + 1] = e
      /\ \A i \in 1..n : out'[i] = out[i]
  BY <1>1, <1>2, Zenon DEF Outs
<1>4. DOMAIN out = 1..n
  BY <1>1, OfNumbers
<1>5. DOMAIN out' = (1..n) \union {n + 1}
  <2>1. DOMAIN out' = 1..Len(out')
    BY <1>3, LenProperties DEF Outs
  <2>2. DOMAIN out' = 1..(n + 1)
    BY <1>3, <2>1, Zenon
  <2>3. 1..(n + 1) = (1..n) \union {n + 1}
    OBVIOUS
  <2> QED BY <2>2, <2>3
<1>6. \A t : Of(t) \subseteq 1..n
  BY <1>4 DEF Of
<1>7. n + 1 \notin 1..n
  OBVIOUS
<1>8. ASSUME NEW t PROVE Of(t)' = IF t = e.turn THEN Of(t) \union {n + 1} ELSE Of(t)
  <2>1. Of(t)' = {i \in (1..n) \union {n + 1} : out'[i].turn = t}
    BY <1>5 DEF Of
  <2>2. Of(t) = {i \in 1..n : out[i].turn = t}
    BY <1>4 DEF Of
  <2> QED BY <1>3, <1>7, <2>1, <2>2
<1>c. \A i \in 1..n : i < n + 1 /\ i <= n + 1 /\ ~(n + 1 <= i) /\ ~(n + 1 < i)
  OBVIOUS
<1>d. n + 1 <= n + 1 /\ ~(n + 1 < n + 1)
  OBVIOUS
<1>9. ASSUME NEW t PROVE Tip(t)' = IF t = e.turn THEN {n + 1} ELSE Tip(t)
  <2>1. CASE t = e.turn
    <3>1. Of(t)' = Of(t) \union {n + 1} /\ Of(t) \subseteq 1..n
      BY <1>6, <1>8, <2>1
    <3>2. ASSUME NEW j \in Of(t)', \A k \in Of(t)' : k <= j PROVE j = n + 1
      BY <1>c, <3>1, <3>2
    <3>3. \A k \in Of(t)' : k <= n + 1
      BY <1>c, <1>d, <3>1
    <3> QED BY <2>1, <3>1, <3>2, <3>3 DEF Tip
  <2>2. CASE t # e.turn
    BY <1>8, <2>2 DEF Tip
  <2> QED BY <2>1, <2>2
<1>10. ASSUME NEW i \in 1..n PROVE Prev(i)' = Prev(i) /\ Prev(i) \subseteq 1..n
  <2>1. PICK u : u = out[i].turn /\ u = out'[i].turn
    BY <1>3
  <2>2. Of(u)' \subseteq Of(u) \union {n + 1} /\ Of(u) \subseteq Of(u)' /\ Of(u) \subseteq 1..n
    BY <1>6, <1>8
  <2>3. \A j \in Of(u)' : j < i => j \in Of(u)
    BY <1>c, <2>2
  <2>4. Prev(i) = {j \in Of(u) : j < i /\ \A k \in Of(u) : k < i => k <= j}
    BY <2>1 DEF Prev
  <2>5. Prev(i)' = {j \in Of(u)' : j < i /\ \A k \in Of(u)' : k < i => k <= j}
    BY <2>1 DEF Prev
  <2> QED BY <2>2, <2>3, <2>4, <2>5
<1>11. Prev(n + 1)' = Tip(e.turn)
  <2>1. /\ Of(e.turn)' = Of(e.turn) \union {n + 1} /\ Of(e.turn) \subseteq 1..n
        /\ out'[n + 1].turn = e.turn
    BY <1>3, <1>6, <1>8
  <2>2. Prev(n + 1)' =
          {j \in Of(e.turn)' : j < n + 1 /\ \A k \in Of(e.turn)' : k < n + 1 => k <= j}
    BY <2>1 DEF Prev
  <2>3. \A j \in Of(e.turn)' : j < n + 1 <=> j \in Of(e.turn)
    BY <1>c, <1>d, <1>7, <2>1
  <2> QED BY <2>1, <2>2, <2>3 DEF Tip
<1> WITNESS n \in Nat
<1> QED BY <1>3, <1>4, <1>5, <1>6, <1>8, <1>9, <1>10, <1>11

\* A message of a piece, or the end of a reply, goes out.
SendsPart(t, e) ==
  /\ task[t].at = "send"
  /\ e.piece = task[t].reply /\ e.part = task[t].part + 1 /\ e.parts = task[t].parts
  /\ task'[t].part = task[t].part + 1 /\ task'[t].parts = task[t].parts
  /\ task'[t].at = IF task[t].part + 1 = task[t].parts THEN "recv" ELSE "send"
SendsEnd(t, e) == task[t].at = "finish" /\ e.piece = 0 /\ task'[t].at = "over"

LEMMA WhatIsSent ==
  ASSUME Replies!Parameters, RepliesInv, NEW t \in Replies!Turns,
         Replies!Send(t) \/ Replies!Finish(t)
  PROVE  \E e \in Messages :
           /\ e.turn = t /\ out' = Append(out, e) /\ (SendsPart(t, e) \/ SendsEnd(t, e))
           /\ task' \in [Replies!Turns -> Answers] /\ task'[t].reply = task[t].reply
           /\ \A u \in Replies!Turns \ {t} : task'[u] = task[u]
<1>0. RepliesTypes /\ TurnInv(t)
  BY DEF RepliesInv
<1>r. /\ task[t].reply \in 0..MaxPieces /\ task[t].part \in 0..MaxParts /\ task[t].parts \in 0..MaxParts
      /\ task \in [Replies!Turns -> Answers] /\ task[t] \in Answers /\ 0 \in 0..MaxPieces
      /\ 0 \in 0..MaxParts /\ MaxParts \in Int
  BY <1>0, TurnTypes DEF RepliesTypes, Replies!Parameters
<1>1. CASE Replies!Send(t)
  <2>1. PICK p : p = task[t].part + 1
    OBVIOUS
  <2>2. PICK place : place = IF p = task[t].parts THEN "recv" ELSE "send"
    OBVIOUS
  <2>3. PICK e : e = [turn |-> t, piece |-> task[t].reply, part |-> p, parts |-> task[t].parts,
                      error |-> FALSE]
    OBVIOUS
  <2>4. /\ task[t].at = "send" /\ out' = Append(out, e)
        /\ task' = [task EXCEPT ![t].part = p, ![t].at = place]
    BY <1>1, <2>1, <2>2, <2>3 DEF Replies!Send
  <2>5. p \in 0..MaxParts /\ place \in Replies!Places
    <3>1. task[t].part < task[t].parts
      BY <1>0, <2>4 DEF TurnInv, Told
    <3> QED BY <1>r, <2>1, <2>2, <3>1 DEF Replies!Places
  <2>6. /\ e \in Messages /\ e.turn = t /\ e.piece = task[t].reply /\ e.part = p
        /\ e.parts = task[t].parts
    BY <1>r, <2>3, <2>5 DEF Messages
  <2>7. /\ task' \in [Replies!Turns -> Answers] /\ task'[t].reply = task[t].reply
        /\ task'[t].part = p /\ task'[t].parts = task[t].parts /\ task'[t].at = place
        /\ \A u \in Replies!Turns \ {t} : task'[u] = task[u]
    BY <1>r, <2>4, <2>5 DEF Answers
  <2>8. SendsPart(t, e)
    BY <2>1, <2>2, <2>4, <2>6, <2>7 DEF SendsPart
  <2> QED BY <2>4, <2>6, <2>7, <2>8
<1>2. CASE Replies!Finish(t)
  <2>1. PICK b \in BOOLEAN : b = (events[t].result = "error")
    OBVIOUS
  <2>2. PICK e : e = [turn |-> t, piece |-> 0, part |-> 0, parts |-> 0, error |-> b]
    OBVIOUS
  <2>3. /\ task[t].at = "finish" /\ out' = Append(out, e)
        /\ task' = [task EXCEPT ![t].at = "over"] /\ "over" \in Replies!Places
    BY <1>2, <2>1, <2>2 DEF Replies!Finish, Replies!At, Replies!Places
  <2>4. e \in Messages /\ e.turn = t /\ e.piece = 0
    BY <1>r, <2>2 DEF Messages
  <2>5. /\ task' \in [Replies!Turns -> Answers] /\ task'[t].reply = task[t].reply
        /\ task'[t].at = "over" /\ \A u \in Replies!Turns \ {t} : task'[u] = task[u]
    BY <1>r, <2>3 DEF Answers
  <2>6. SendsEnd(t, e)
    BY <2>3, <2>4, <2>5 DEF SendsEnd
  <2> QED BY <2>3, <2>4, <2>5, <2>6
<1> QED BY <1>1, <1>2

LEMMA SendHolds ==
  ASSUME Replies!Parameters, RepliesInv, NEW t \in Replies!Turns,
         Replies!Send(t) \/ Replies!Finish(t)
  PROVE  RepliesInv'
<1>0. RepliesTypes /\ TurnInv(t)
  BY DEF RepliesInv
<1>1. /\ task[t].at \in {"send", "finish"}
      /\ live' = live /\ stream' = stream /\ events' = events /\ talk' = talk
  BY DEF Replies!Send, Replies!Finish
<1>r. /\ task[t].reply \in 0..MaxPieces /\ events[t].waiting \in 0..MaxPieces
      /\ stream[t].sent \in 0..MaxPieces /\ MaxPieces \in Int /\ live \in Int /\ t \in Int
      /\ MaxTurn \in Int /\ Replies!Turns = 1..MaxTurn
      /\ task[t].part \in Nat /\ task[t].parts \in Nat
  BY <1>0, TurnTypes DEF RepliesTypes, Replies!Turns
<1>3. PICK e \in Messages :
        /\ e.turn = t /\ out' = Append(out, e) /\ (SendsPart(t, e) \/ SendsEnd(t, e))
        /\ task' \in [Replies!Turns -> Answers] /\ task'[t].reply = task[t].reply
        /\ \A u \in Replies!Turns \ {t} : task'[u] = task[u]
  BY WhatIsSent
<1>4. PICK n \in Nat :
        /\ out' \in Outs /\ DOMAIN out = 1..n /\ DOMAIN out' = (1..n) \union {n + 1}
        /\ out'[n + 1] = e /\ \A i \in 1..n : out'[i] = out[i]
        /\ \A u : Of(u)' = IF u = t THEN Of(u) \union {n + 1} ELSE Of(u)
        /\ \A u : Of(u) \subseteq 1..n
        /\ \A u : Tip(u)' = IF u = t THEN {n + 1} ELSE Tip(u)
        /\ \A i \in 1..n : Prev(i)' = Prev(i) /\ Prev(i) \subseteq 1..n
        /\ Prev(n + 1)' = Tip(t)
  <2>1. out \in Outs /\ out' = Append(out, e) /\ e.turn = t
    BY <1>0, <1>3 DEF RepliesTypes
  <2>2. \E n \in Nat :
          /\ out' \in Outs /\ DOMAIN out = 1..n /\ DOMAIN out' = (1..n) \union {n + 1}
          /\ out'[n + 1] = e /\ \A i \in 1..n : out'[i] = out[i]
          /\ \A u : Of(u)' = IF u = e.turn THEN Of(u) \union {n + 1} ELSE Of(u)
          /\ \A u : Of(u) \subseteq 1..n
          /\ \A u : Tip(u)' = IF u = e.turn THEN {n + 1} ELSE Tip(u)
          /\ \A i \in 1..n : Prev(i)' = Prev(i) /\ Prev(i) \subseteq 1..n
          /\ Prev(n + 1)' = Tip(e.turn)
    BY <2>1, OutGrows, Zenon
  <2> QED BY <2>1, <2>2
<1>6. RepliesTypes'
  BY <1>0, <1>1, <1>3, <1>4 DEF RepliesTypes
<1>7. /\ task[t].reply + events[t].waiting = stream[t].sent /\ Told(t)
      /\ ~(t > live) /\ (task[t].at = "finish" => events[t].waiting = 0 /\ stream[t].end # "open")
  BY <1>0, <1>1 DEF TurnInv
<1>8. /\ \A i \in 1..n : (Last(i)' <=> Last(i)) /\ (Entire(i)' <=> Entire(i))
      /\ Last(n + 1)' <=> e.piece = 0
      /\ Tip(t) \subseteq 1..n
  BY <1>4 DEF Last, Entire, Tip
<1>p. SendsPart(t, e) => e.piece # 0
  BY <1>7, <1>r DEF SendsPart, Told
<1>9. ASSUME NEW u \in Replies!Turns PROVE TurnInv(u)' /\ Goes(u)
  <2>1. CASE u = t
    <3>1. Goes(t)
      BY <1>1, <1>3 DEF Goes, SendsPart, SendsEnd
    <3>2. CASE SendsPart(t, e)
      <4>1. task'[t].at \in {"send", "recv"} /\ task[t].at = "send"
        BY <3>2 DEF SendsPart
      <4>2. \A j \in Of(t)' : ~Last(j)'
        BY <1>4, <1>7, <1>8, <1>p, <3>2 DEF Told
      <4>3. Tip(t)' = {n + 1}
        BY <1>4
      <4>4. /\ out'[n + 1].piece = task'[t].reply /\ out'[n + 1].part = task'[t].part
            /\ out'[n + 1].parts = task'[t].parts /\ task'[t].part = task[t].part + 1
            /\ task'[t].parts = task[t].parts
            /\ task'[t].at = IF task[t].part + 1 = task[t].parts THEN "recv" ELSE "send"
        BY <1>3, <1>4, <3>2 DEF SendsPart
      <4>5. task'[t].reply > 0 /\ task[t].part < task[t].parts /\ task'[t].part # 0
        BY <1>3, <1>7, <1>r, <4>1, <4>4 DEF Told
      <4>6. task'[t].at = "send" => task'[t].part < task'[t].parts
        BY <1>r, <4>4, <4>5
      <4>7. task'[t].at # "send" => task'[t].part = task'[t].parts
        BY <4>4
      <4>8. Told(t)'
        BY <4>2, <4>3, <4>4, <4>5, <4>6, <4>7 DEF Told
      <4>9. TurnInv(t)'
        BY <1>0, <1>1, <1>3, <1>7, <4>1, <4>8 DEF TurnInv
      <4> QED BY <2>1, <3>1, <4>9
    <3>3. CASE SendsEnd(t, e)
      <4>1. task'[t].at = "over" /\ task[t].at = "finish"
        BY <3>3 DEF SendsEnd
      <4>2. TurnInv(t)'
        BY <1>0, <1>1, <4>1 DEF TurnInv
      <4> QED BY <2>1, <3>1, <4>2
    <3> QED BY <1>3, <3>2, <3>3
  <2>2. CASE u # t
    <3>1. /\ TurnInv(u) /\ Of(u)' = Of(u) /\ task'[u] = task[u] /\ Of(u) \subseteq 1..n
          /\ Tip(u)' = Tip(u) /\ Tip(u) \subseteq 1..n
      BY <1>3, <1>4, <2>2 DEF RepliesInv, Tip
    <3>2. Told(u)' <=> Told(u)
      BY <1>4, <1>8, <3>1 DEF Told
    <3> QED BY <1>1, <3>1, <3>2 DEF TurnInv, Goes
  <2> QED BY <2>1, <2>2
\* The messages before it.
<1>10. ASSUME NEW i \in 1..n PROVE SentInv(i)'
  <2> DEFINE u == out[i].turn
  <2>1. SentInv(i) /\ out'[i] = out[i] /\ (Last(i)' <=> Last(i)) /\ out[i] \in Messages
    BY <1>0, <1>4, <1>8, OfNumbers DEF RepliesInv, RepliesTypes
  <2>2. u \in Replies!Turns /\ u \in Int
    BY <1>r, <2>1 DEF Messages
  <2>3. Prev(i)' = Prev(i) /\ \A j \in Prev(i) : /\ out'[j] = out[j] /\ (Last(j)' <=> Last(j))
                                                 /\ (Entire(j)' <=> Entire(j))
    BY <1>4, <1>8
  <2>4. InOrder(i)'
    BY <2>1, <2>3 DEF SentInv, InOrder
  <2>5. ASSUME Last(i)
        PROVE  /\ task'[u].at = "over" /\ stream'[u].end # "open"
               /\ ~out[i].error => Tells(i, stream[u].sent)'
    <3>1. task[u].at = "over" /\ stream[u].end # "open" /\ u # t
      BY <1>1, <2>1, <2>5 DEF SentInv
    <3>2. task'[u] = task[u]
      BY <1>3, <2>2, <3>1
    <3>3. Tells(i, stream[u].sent) => Tells(i, stream[u].sent)'
      BY <1>1, <2>1, <2>3 DEF Tells
    <3> QED BY <1>1, <2>1, <2>5, <3>1, <3>2, <3>3 DEF SentInv
  <2>6. ASSUME NEW v \in 1..(u - 1), NEW j \in Of(v)', j > i
        PROVE  /\ \A k \in Of(v)' : k > i => out'[j].piece = out'[k].piece
               /\ \/ task'[v].at \in {"recv", "over"}
                  \/ task'[v].at = "send" /\ task'[v].reply = out'[j].piece
    <3>0. v \in Replies!Turns
      BY <1>r, <2>2
    <3>a. \A m \in Of(v) : out'[m] = out[m]
      BY <1>4
    <3>b. \A m \in Of(v) : m > i =>
            /\ \A k \in Of(v) : k > i => out[m].piece = out[k].piece
            /\ \/ task[v].at \in {"recv", "over"}
               \/ task[v].at = "send" /\ task[v].reply = out[m].piece
      BY <2>1 DEF SentInv
    <3>1. CASE v # t
      <4>1. Of(v)' = Of(v) /\ task'[v] = task[v]
        BY <1>3, <1>4, <3>0, <3>1
      <4> QED BY <2>6, <3>a, <3>b, <4>1
    <3>2. CASE v = t
      <4>1. \A m \in Of(t) : m > i => task[t].at = "send" /\ out[m].piece = task[t].reply
        BY <1>1, <3>2, <3>b
      <4>2. Of(t)' = Of(t) \union {n + 1} /\ out'[n + 1] = e
        BY <1>4
      <4>3. CASE SendsPart(t, e)
        <5>1. \A m \in Of(t)' : m > i => out'[m].piece = task[t].reply
          BY <3>2, <3>a, <4>1, <4>2, <4>3 DEF SendsPart
        <5>2. task'[t].at \in {"send", "recv"} /\ task'[t].reply = task[t].reply
          BY <1>3, <4>3 DEF SendsPart
        <5> QED BY <2>6, <3>2, <5>1, <5>2
      <4>4. CASE SendsEnd(t, e)
        <5>1. task[t].at = "finish" /\ task'[t].at = "over"
          BY <4>4 DEF SendsEnd
        <5>2. \A m \in Of(t)' : m > i => m = n + 1
          BY <4>1, <4>2, <5>1
        <5> QED BY <2>6, <3>2, <5>1, <5>2
      <4> QED BY <1>3, <4>3, <4>4
    <3> QED BY <3>1, <3>2
  <2>7. u <= live'
    BY <1>1, <2>1 DEF SentInv
  <2> QED BY <2>1, <2>4, <2>5, <2>6, <2>7 DEF SentInv
\* The message itself.
<1>11. SentInv(n + 1)'
  <2>1. out'[n + 1] = e /\ out'[n + 1].turn = t /\ t <= live' /\ Prev(n + 1)' = Tip(t)
    BY <1>1, <1>3, <1>4, <1>7, <1>r
  <2>2. \A j \in Tip(t) : /\ out'[j] = out[j] /\ (Last(j)' <=> Last(j)) /\ (Entire(j)' <=> Entire(j))
                          /\ ~Last(j)
    BY <1>4, <1>7, <1>8 DEF Told, Tip
  <2>3. InOrder(n + 1)'
    <3>1. CASE SendsEnd(t, e)
      <4>1. Last(n + 1)'
        BY <1>8, <3>1 DEF SendsEnd
      <4> QED BY <2>1, <2>2, <4>1 DEF InOrder
    <3>2. CASE SendsPart(t, e)
      <4>1. /\ task[t].at = "send" /\ e.piece = task[t].reply /\ e.part = task[t].part + 1
        BY <3>2 DEF SendsPart
      <4>2. CASE task[t].part = 0
        <5>1. \A j \in Tip(t) : out[j].piece = task[t].reply - 1 /\ Entire(j)
          BY <1>7, <4>1, <4>2 DEF Told
        <5>2. Tip(t) = {} => task[t].reply = 1
          BY <1>7, <4>1 DEF Told
        <5>3. (task[t].reply - 1) + 1 = task[t].reply /\ task[t].part + 1 = 1
          BY <1>r, <4>2
        <5>4. \A j \in Tip(t) : Entire(j)' /\ out'[n + 1].piece = out'[j].piece + 1
          BY <2>1, <2>2, <4>1, <5>1, <5>3
        <5>5. out'[n + 1].part = 1 /\ (Tip(t) = {} => out'[n + 1].piece = 1)
          BY <2>1, <4>1, <5>2, <5>3
        <5> QED BY <2>1, <2>2, <5>4, <5>5 DEF InOrder
      <4>3. CASE task[t].part # 0
        <5>1. \A j \in Tip(t) : /\ out[j].piece = task[t].reply /\ out[j].part = task[t].part
                                /\ out[j].parts = task[t].parts
          BY <1>7, <4>1, <4>3 DEF Told
        <5>2. Tip(t) # {} /\ task[t].part # task[t].parts
          BY <1>7, <1>r, <4>1, <4>3 DEF Told
        <5>3. \A j \in Tip(t) : ~Entire(j)
          BY <5>1, <5>2 DEF Entire
        <5>4. \A j \in Tip(t) : /\ ~Entire(j)' /\ out'[n + 1].piece = out'[j].piece
                                /\ out'[n + 1].part = out'[j].part + 1
          BY <2>1, <2>2, <4>1, <5>1, <5>3
        <5> QED BY <2>1, <2>2, <5>2, <5>4 DEF InOrder
      <4> QED BY <4>2, <4>3
    <3> QED BY <1>3, <3>1, <3>2
  <2>5. ASSUME Last(n + 1)'
        PROVE  task'[t].at = "over" /\ stream'[t].end # "open" /\ Tells(n + 1, stream[t].sent)'
    <3>1. SendsEnd(t, e)
      BY <1>3, <1>8, <1>p, <2>5
    <3>2. task[t].at = "finish" /\ task'[t].at = "over"
      BY <3>1 DEF SendsEnd
    <3>3. task[t].reply = stream[t].sent
      BY <1>7, <1>r, <3>2
    <3>4. \A j \in Tip(t) : out[j].piece = stream[t].sent /\ Entire(j)
      BY <1>7, <3>2, <3>3 DEF Told, Entire
    <3>5. Tip(t) = {} => stream[t].sent = 0
      BY <1>7, <3>2, <3>3 DEF Told
    <3> QED BY <1>1, <1>7, <2>1, <2>2, <3>2, <3>4, <3>5 DEF Tells
  <2>6. ASSUME NEW v, NEW j \in Of(v)' PROVE ~(j > n + 1)
    <3>1. j \in (1..n) \union {n + 1}
      BY <1>4
    <3> QED BY <3>1
  <2> QED BY <2>1, <2>3, <2>5, <2>6 DEF SentInv
<1>12. ASSUME NEW i \in DOMAIN talk' PROVE Earned(talk[i])'
  <2>1. i \in DOMAIN talk /\ talk[i] \in Entries /\ talk'[i] = talk[i] /\ Earned(talk[i])
    <3>1. talk \in Seq(Entries) /\ i \in DOMAIN talk /\ DOMAIN talk = 1..Len(talk)
      BY <1>0, <1>1, LenProperties DEF RepliesTypes, Talks
    <3> QED BY <1>1, <3>1, ElementOfSeq DEF RepliesInv
  <2>2. \A u \in Replies!Turns : Goes(u)
    BY <1>9
  <2> QED BY <2>1, <2>2, StaysEarned DEF Earned
<1> QED BY <1>4, <1>6, <1>9, <1>10, <1>11, <1>12 DEF RepliesInv

\* An entry joins the conversation, at the cost of the oldest if that is full.
LEMMA PushedIs ==
  ASSUME Replies!Parameters, RepliesTypes, NEW e \in Entries
  PROVE  /\ Replies!Pushed(e) \in Talks /\ Len(Replies!Pushed(e)) <= MaxHistory
         /\ \A i \in DOMAIN Replies!Pushed(e) :
              Replies!Pushed(e)[i] = e \/ \E j \in DOMAIN talk : Replies!Pushed(e)[i] = talk[j]
<1>1. PICK n \in Nat : n = Len(talk)
  BY LenProperties DEF RepliesTypes, Talks
<1>2. /\ talk \in Seq(Entries) /\ DOMAIN talk = 1..n /\ n <= MaxHistory
      /\ MaxHistory \in Nat /\ MaxHistory # 0
  BY <1>1, LenProperties DEF RepliesTypes, Talks, Replies!Parameters
<1>3. CASE n = MaxHistory
  <2>1. talk # <<>>
    <3>1. Len(<<>>) = 0
      BY EmptySeq
    <3> QED BY <1>1, <1>2, <1>3, <3>1
  <2>2. /\ Tail(talk) \in Seq(Entries) /\ Len(Tail(talk)) = n - 1
        /\ \A i \in 1..Len(Tail(talk)) : Tail(talk)[i] = talk[i + 1]
    BY <1>1, <1>2, <2>1, HeadTailProperties
  <2>3. PICK q : q = Tail(talk)
    OBVIOUS
  <2>4. q \in Seq(Entries) /\ Len(q) = n - 1 /\ \A i \in 1..(n - 1) : q[i] = talk[i + 1]
    BY <2>2, <2>3, Zenon
  <2>5. /\ Append(q, e) \in Seq(Entries) /\ Len(Append(q, e)) = Len(q) + 1
        /\ \A i \in 1..Len(q) : Append(q, e)[i] = q[i]
        /\ Append(q, e)[Len(q) + 1] = e
    BY <2>4, AppendProperties
  <2>6. Replies!Pushed(e) = Append(q, e)
    BY <1>1, <1>3, <2>3 DEF Replies!Pushed
  <2>7. PICK p : p = Append(q, e)
    OBVIOUS
  <2>8. n - 1 + 1 = n
    OBVIOUS
  <2>9. /\ p \in Seq(Entries) /\ Len(p) = n /\ p[n] = e
        /\ \A i \in 1..(n - 1) : p[i] = talk[i + 1]
    BY <2>4, <2>5, <2>7, <2>8, Zenon
  <2>10. DOMAIN p = 1..n
    BY <2>9, LenProperties
  <2>11. ASSUME NEW i \in 1..n PROVE p[i] = e \/ \E j \in DOMAIN talk : p[i] = talk[j]
    <3>1. i = n \/ (i \in 1..(n - 1) /\ i + 1 \in 1..n)
      OBVIOUS
    <3> QED BY <1>2, <2>9, <3>1
  <2> HIDE DEF Talks
  <2> QED BY <1>2, <1>3, <2>6, <2>7, <2>9, <2>10, <2>11, Zenon DEF Talks
<1>4. CASE n # MaxHistory
  <2>1. /\ Append(talk, e) \in Seq(Entries) /\ Len(Append(talk, e)) = Len(talk) + 1
        /\ \A i \in 1..Len(talk) : Append(talk, e)[i] = talk[i]
        /\ Append(talk, e)[Len(talk) + 1] = e
    BY <1>2, AppendProperties
  <2>2. Replies!Pushed(e) = Append(talk, e)
    BY <1>1, <1>4 DEF Replies!Pushed
  <2>3. PICK p : p = Append(talk, e)
    OBVIOUS
  <2>4. /\ p \in Seq(Entries) /\ Len(p) = n + 1 /\ p[n + 1] = e /\ \A i \in 1..n : p[i] = talk[i]
    BY <1>1, <2>1, <2>3, Zenon
  <2>5. DOMAIN p = 1..(n + 1)
    <3>1. DOMAIN p = 1..Len(p)
      BY <2>4, LenProperties
    <3> QED BY <2>4, <3>1, Zenon
  <2>6. n + 1 <= MaxHistory /\ Len(p) <= MaxHistory
    BY <1>2, <1>4, <2>4
  <2>7. ASSUME NEW i \in 1..(n + 1) PROVE p[i] = e \/ \E j \in DOMAIN talk : p[i] = talk[j]
    <3>1. i = n + 1 \/ i \in 1..n
      OBVIOUS
    <3> QED BY <1>2, <2>4, <3>1
  <2> QED BY <2>2, <2>3, <2>4, <2>5, <2>6, <2>7, Zenon DEF Talks
<1> QED BY <1>3, <1>4

\* A reply that is complete joins the conversation, or one that is not does not.
LEMMA PushHolds ==
  ASSUME Replies!Parameters, RepliesInv, NEW t \in Replies!Turns,
         Replies!Completes(t) \/ Replies!PushReply(t)
  PROVE  RepliesInv'
<1>0. RepliesTypes /\ TurnInv(t)
  BY DEF RepliesInv
<1>1. live' = live /\ stream' = stream /\ events' = events /\ out' = out
  BY DEF Replies!Completes, Replies!PushReply
<1>r. /\ task \in [Replies!Turns -> Answers] /\ task[t] \in Answers /\ live \in Int
      /\ stream[t].end \in {"done", "closed", "failed", "open"}
      /\ events[t].result \in {"running", "ok", "error"} /\ t \in Int
      /\ task[t].reply \in Int /\ stream[t].sent \in Int
  BY <1>0, TurnTypes DEF RepliesTypes
<1>3. PICK place \in {"push", "finish"} :
        /\ task' = [task EXCEPT ![t].at = place] /\ task[t].at \in {"result", "push"}
        /\ place = "push" => task[t].at = "result" /\ events[t].result = "ok"
        /\ \/ talk' = talk
           \/ place = "push" /\ talk' = Replies!Pushed([turn |-> t, role |-> "user"])
           \/ /\ place = "finish" /\ task[t].at = "push"
              /\ talk' = Replies!Pushed([turn |-> t, role |-> "assistant"])
  BY DEF Replies!Completes, Replies!PushReply, Replies!At
<1>4. /\ task' \in [Replies!Turns -> Answers]
      /\ task'[t].at = place /\ task'[t].reply = task[t].reply
      /\ task'[t].part = task[t].part /\ task'[t].parts = task[t].parts
      /\ \A u \in Replies!Turns \ {t} : task'[u] = task[u]
  <2>1. place \in Replies!Places
    BY DEF Replies!Places
  <2> QED BY <1>r, <1>3, <2>1 DEF Answers
<1>2. Told(t) => Told(t)'
  BY <1>1, <1>3, <1>4, NothingSent DEF Told
<1>5. TurnInv(t)' /\ Goes(t)
  BY <1>0, <1>1, <1>2, <1>3, <1>4 DEF TurnInv, Goes
<1>6. \A u \in Replies!Turns : TurnInv(u)' /\ Goes(u)
  BY <1>1, <1>4, <1>5, OneTurn
\* What the conversation holds now.
<1>7. ASSUME NEW e \in Entries,
             e.role = "assistant" => e.turn = t /\ place = "finish" /\ task[t].at = "push",
             talk' = talk \/ talk' = Replies!Pushed(e)
      PROVE  RepliesInv'
  <2>1. /\ talk' \in Talks /\ Len(talk') <= MaxHistory
        /\ \A i \in DOMAIN talk' : talk'[i] = e \/ \E j \in DOMAIN talk : talk'[i] = talk[j]
    BY <1>0, <1>7, PushedIs DEF RepliesTypes
  <2>2. RepliesTypes'
    BY <1>0, <1>1, <1>4, <2>1 DEF RepliesTypes
  <2>3. Earned(e)'
    <3> SUFFICES ASSUME e.role = "assistant"
                 PROVE  /\ task'[t].at \in {"finish", "over"}
                        /\ stream'[t].end \notin {"open", "failed"}
                        /\ task'[t].reply = stream'[t].sent
      BY <1>7 DEF Earned
    <3>1. /\ events[t].result = "ok" /\ events[t].waiting = 0
          /\ stream[t].end # "open" /\ stream[t].end # "failed"
          /\ task[t].reply + events[t].waiting = stream[t].sent
      BY <1>0, <1>7 DEF TurnInv
    <3>2. task[t].reply = stream[t].sent
      BY <1>r, <3>1
    <3> QED BY <1>1, <1>4, <1>7, <3>1, <3>2
  <2>4. ASSUME NEW i \in DOMAIN talk' PROVE Earned(talk[i])'
    <3>1. CASE talk'[i] = e
      BY <2>3, <3>1 DEF Earned
    <3>2. CASE \E j \in DOMAIN talk : talk'[i] = talk[j]
      <4>1. PICK j \in DOMAIN talk : talk'[i] = talk[j]
        BY <3>2
      <4>2. talk[j] \in Entries /\ Earned(talk[j])
        <5>1. talk \in Seq(Entries) /\ j \in DOMAIN talk /\ DOMAIN talk = 1..Len(talk)
          BY <1>0, LenProperties DEF RepliesTypes, Talks
        <5> QED BY <5>1, ElementOfSeq DEF RepliesInv
      <4> QED BY <1>6, <4>1, <4>2, StaysEarned DEF Earned
    <3> QED BY <2>1, <3>1, <3>2
  <2>5. live' >= live
    BY <1>1, <1>r
  <2> QED BY <1>1, <1>6, <2>2, <2>4, <2>5, RepliesSettle
<1>8. /\ [turn |-> t, role |-> "user"] \in Entries
      /\ [turn |-> t, role |-> "assistant"] \in Entries
  BY DEF Entries
<1>9. PICK u, a : u = [turn |-> t, role |-> "user"] /\ a = [turn |-> t, role |-> "assistant"]
  OBVIOUS
<1>10. /\ u \in Entries /\ a \in Entries /\ u.role = "user" /\ a.turn = t
       /\ u.role # "assistant"
  BY <1>8, <1>9
<1>11. CASE place = "push" /\ talk' = Replies!Pushed([turn |-> t, role |-> "user"])
  BY <1>7, <1>9, <1>10, <1>11
<1>12. CASE talk' = talk
  BY <1>7, <1>10, <1>12
<1>13. CASE /\ place = "finish" /\ task[t].at = "push"
            /\ talk' = Replies!Pushed([turn |-> t, role |-> "assistant"])
  BY <1>7, <1>9, <1>10, <1>13
<1> QED BY <1>3, <1>11, <1>12, <1>13

\* Every step keeps the invariant.
LEMMA RepliesNext ==
  ASSUME Replies!Parameters, RepliesInv, [Replies!Next]_(Replies!vars)
  PROVE  RepliesInv'
<1>r. live \in Int
  BY TurnTypes DEF RepliesInv, RepliesTypes, Replies!Parameters
<1>1. CASE Replies!Next
  <2>1. CASE Replies!Purge
    <3>1. /\ talk' = <<>> /\ live' = live /\ stream' = stream /\ events' = events /\ task' = task
          /\ out' = out
      BY <2>1 DEF Replies!Purge
    <3>2. talk' \in Talks /\ Len(talk') = 0 /\ DOMAIN talk' = {}
      <4>1. <<>> \in Seq(Entries) /\ Len(<<>>) = 0
        BY EmptySeq
      <4>2. DOMAIN <<>> = {}
        OBVIOUS
      <4> QED BY <3>1, <4>1, <4>2 DEF Talks
    <3>3. RepliesTypes'
      BY <3>1, <3>2 DEF RepliesInv, RepliesTypes, Replies!Parameters
    <3>4. ASSUME NEW t \in Replies!Turns PROVE TurnInv(t)' /\ Goes(t)
      <4>1. (Told(t)' <=> Told(t)) /\ TurnInv(t)
        BY <3>1, NothingSent DEF Told, RepliesInv
      <4> QED BY <3>1, <4>1 DEF TurnInv, Goes
    <3>5. live' >= live
      BY <1>r, <3>1
    <3> QED BY <3>1, <3>2, <3>3, <3>4, <3>5, RepliesSettle
  <2>2. CASE Replies!Ask
    BY <2>2, AskHolds
  <2>3. ASSUME NEW t \in Replies!Turns,
               \/ Replies!Piece(t) \/ (\E how \in Replies!Ends : Replies!StreamEnds(t, how))
        PROVE  RepliesInv'
    <3>1. PICK how \in Replies!Ends : Replies!Piece(t) \/ Replies!StreamEnds(t, how)
      BY <2>3 DEF Replies!Ends
    <3> QED BY <3>1, StreamHolds
  <2>4. ASSUME NEW t \in Replies!Turns, Replies!Take(t) \/ Replies!Drained(t) \/ Replies!Killed(t)
        PROVE  RepliesInv'
    BY <2>4, TaskHolds
  <2>5. ASSUME NEW t \in Replies!Turns, Replies!Send(t) \/ Replies!Finish(t) PROVE RepliesInv'
    BY <2>5, SendHolds
  <2>6. ASSUME NEW t \in Replies!Turns, Replies!Completes(t) \/ Replies!PushReply(t)
        PROVE  RepliesInv'
    BY <2>6, PushHolds
  <2> QED BY <1>1, <2>1, <2>2, <2>3, <2>4, <2>5, <2>6 DEF Replies!Next
<1>2. CASE UNCHANGED Replies!vars
  <2>1. UNCHANGED <<live, stream, events, task, out, talk>>
    BY <1>2 DEF Replies!vars
  <2>2. RepliesTypes'
    BY <2>1 DEF RepliesInv, RepliesTypes
  <2>3. ASSUME NEW t \in Replies!Turns PROVE TurnInv(t)' /\ Goes(t)
    <3>1. (Told(t)' <=> Told(t)) /\ TurnInv(t)
      BY <2>1, NothingSent DEF Told, RepliesInv
    <3> QED BY <2>1, <3>1 DEF TurnInv, Goes
  <2>4. live' >= live
    BY <1>r, <2>1
  <2> QED BY <2>1, <2>2, <2>3, <2>4, RepliesRest
<1> QED BY <1>1, <1>2

\* No question has been asked.
LEMMA RepliesBegins ==
  ASSUME Replies!Parameters, Replies!Init
  PROVE  RepliesInv
<1>1. /\ live = 0 /\ out = <<>> /\ talk = <<>>
      /\ stream = [t \in Replies!Turns |-> [sent |-> 0, end |-> "open"]]
      /\ events = [t \in Replies!Turns |-> [waiting |-> 0, result |-> "running"]]
      /\ task = [t \in Replies!Turns |-> [at |-> "none", reply |-> 0, part |-> 0, parts |-> 0]]
  BY DEF Replies!Init
<1>2. /\ out \in Outs /\ talk \in Talks /\ Len(talk) = 0
      /\ DOMAIN out = {} /\ DOMAIN talk = {}
  <2>1. <<>> \in Seq(Messages) /\ <<>> \in Seq(Entries) /\ Len(<<>>) = 0
    BY EmptySeq
  <2>2. DOMAIN <<>> = {}
    OBVIOUS
  <2> QED BY <1>1, <2>1, <2>2 DEF Outs, Talks
<1>3. 0 \in 0..MaxPieces /\ 0 \in 0..MaxParts /\ 0 \in 0..MaxTurn /\ 0 <= MaxHistory /\ MaxTurn \in Nat
  BY DEF Replies!Parameters
<1>4. RepliesTypes
  BY <1>1, <1>2, <1>3 DEF RepliesTypes, Answers, Channel, Replied, Replies!Places
<1>5. ASSUME NEW t \in Replies!Turns PROVE TurnInv(t)
  <2>1. Of(t) = {}
    BY <1>2 DEF Of
  <2>2. Told(t)
    BY <1>1, <2>1 DEF Told, Tip
  <2>3. t \in Int /\ t > 0
    BY <1>3 DEF Replies!Turns
  <2> QED BY <1>1, <2>1, <2>2, <2>3 DEF TurnInv
<1> QED BY <1>2, <1>4, <1>5 DEF RepliesInv

\* What the invariant is for.
LEMMA RepliesShows ==
  ASSUME Replies!Parameters, RepliesInv
  PROVE  Replies!RepliesAreSound /\ Replies!TypeOK
<1>0. RepliesTypes
  BY DEF RepliesInv
<1>1. /\ \A i \in DOMAIN out : SentInv(i)
      /\ \A t : Replies!Sent(t) = Of(t)
  BY DEF RepliesInv, Replies!Sent, Of
<1>2. /\ \A j : (Replies!IsDone(j) <=> Last(j)) /\ (Replies!Whole(out[j]) <=> Entire(j))
      /\ \A i : Replies!Before(i) = Prev(i)
  BY <1>1 DEF Replies!IsDone, Last, Replies!Whole, Entire, Replies!Before, Prev
<1>3. Replies!PiecesInOrder
  <2>1. \A i \in DOMAIN out : InOrder(i)
    BY <1>1 DEF SentInv
  <2> QED BY <1>2, <2>1 DEF InOrder, Replies!PiecesInOrder
<1>4. Replies!DoneIsAll
  <2>1. ASSUME NEW i \in DOMAIN out, Replies!IsDone(i), ~out[i].error
        PROVE  Tells(i, stream[out[i].turn].sent)
    BY <1>1, <1>2, <2>1 DEF SentInv
  <2>2. \A i \in DOMAIN talk : Earned(talk[i])
    BY DEF RepliesInv
  <2> QED BY <1>2, <2>1, <2>2 DEF Tells, Earned, Replies!DoneIsAll
<1>5. Replies!NewestWins
  <2>1. ASSUME NEW i \in DOMAIN out, NEW t \in 1..(out[i].turn - 1),
               NEW j \in Of(t), NEW k \in Of(t), j > i, k > i
        PROVE  out[j].piece = out[k].piece
    BY <1>1, <2>1 DEF SentInv
  <2> QED BY <1>1, <2>1 DEF Replies!NewestWins
<1>6. Replies!TypeOK
  BY <1>0 DEF RepliesTypes, Replies!TypeOK, Outs, Talks, Messages, Entries, Answers, Channel,
     Replied, Replies!Ends
<1> QED BY <1>3, <1>4, <1>5, <1>6 DEF Replies!RepliesAreSound
-----------------------------------------------------------------------------
(* The focus timer, and first what times that wrap come to.                *)

LEMMA Residue ==
  ASSUME NEW w \in Int, w > 0, NEW a \in Int
  PROVE  a % w \in 0..(w - 1) /\ \E q \in Int : a = w * q + (a % w)
<1>1. a % w \in 0..(w - 1)
  OBVIOUS
<1>2. PICK q \in Int : a % w = a - w * q
  BY Z3
<1>3. PICK r \in Int, m \in Int : r = a % w /\ m = w * q
  BY <1>1
<1>4. r = a - m
  BY <1>2, <1>3, Zenon
<1>5. a = m + r
  BY <1>4
<1>6. a = w * q + (a % w)
  BY <1>3, <1>5, Zenon
<1> QED BY <1>1, <1>6, Zenon

\* What a number leaves is all it leaves.
LEMMA ResidueIs ==
  ASSUME NEW w \in Nat \ {0}, NEW k \in Int, NEW r \in 0..(w - 1), NEW a \in Int, a = w * k + r
  PROVE  a % w = r
<1>1. PICK q \in Int, s \in 0..(w - 1) : a = w * q + s /\ s = a % w
  <2>1. w \in Int /\ w > 0
    OBVIOUS
  <2> QED BY <2>1, Residue
<1>2. PICK d \in Int : d = q - k
  OBVIOUS
<1>3. w * d = r - s
  <2>1. w * (q - k) = w * q - w * k
    OBVIOUS
  <2>2. w * d = w * q - w * k
    BY <1>2, <2>1
  <2>3. PICK m \in Int, n \in Int : m = w * q /\ n = w * k
    OBVIOUS
  <2>4. a = m + s /\ a = n + r
    BY <1>1, <2>3, Zenon
  <2>5. m - n = r - s
    BY <2>4
  <2> QED BY <2>2, <2>3, <2>5
<1>4. d < 1
  <2>1. d >= 1 => w * d >= w
    OBVIOUS
  <2>2. r - s < w
    OBVIOUS
  <2> QED BY <1>3, <2>1, <2>2
<1>5. d > -1
  <2>1. d <= -1 => w * d <= -w
    OBVIOUS
  <2>2. r - s > -w
    OBVIOUS
  <2> QED BY <1>3, <2>1, <2>2
<1>6. d = 0
  BY <1>4, <1>5
<1>7. w * d = 0
  BY <1>6
<1>8. r = s
  BY <1>3, <1>7
<1> QED BY <1>1, <1>8

\* What has passed since a mark, and a time that is so much later.
Since(a, b) == (a - b) % MsWrap
Later(a, d) == (a + d) % MsWrap

\* What has passed since the mark, once some has, and once the mark has followed.
LEMMA TimePasses ==
  ASSUME MsWrap \in Nat \ {0},
         NEW a \in Int, NEW b \in Int, NEW e \in Int, NEW d \in Int, e = Since(a, b)
  PROVE  /\ e + d \in 0..(MsWrap - 1) => Since(Later(a, d), b) = e + d
         /\ e - d \in 0..(MsWrap - 1) => Since(a, Later(b, d)) = e - d
<1>0. PICK w \in Nat \ {0} : w = MsWrap
  OBVIOUS
<1>a. e = (a - b) % w
  BY <1>0 DEF Since
<1>1. PICK q \in Int : a - b = w * q + e
  <2>1. w \in Int /\ w > 0 /\ a - b \in Int
    OBVIOUS
  <2> QED BY <1>a, <2>1, Residue
<1>2. ASSUME e + d \in 0..(w - 1) PROVE (((a + d) % w) - b) % w = e + d
  <2>1. PICK p \in Int, c \in Int : a + d = w * p + c /\ c = (a + d) % w
    <3>1. w \in Int /\ w > 0 /\ a + d \in Int
      OBVIOUS
    <3>2. (a + d) % w \in 0..(w - 1) /\ \E q1 \in Int : a + d = w * q1 + ((a + d) % w)
      BY <3>1, Residue
    <3>3. (a + d) % w \in Int
      BY <3>2
    <3> QED BY <3>2, <3>3, Zenon
  <2>2. PICK k \in Int : k = q - p
    OBVIOUS
  <2>3. c - b = w * k + (e + d)
    <3>1. w * (q - p) = w * q - w * p
      OBVIOUS
    <3>2. w * k = w * q - w * p
      BY <2>2, <3>1
    <3>3. PICK m \in Int, n \in Int : m = w * q /\ n = w * p
      OBVIOUS
    <3>4. c - b = (m - n) + (e + d)
      <4>1. a - b = m + e /\ a + d = n + c
        BY <1>1, <2>1, <3>3, Zenon
      <4> QED BY <4>1
    <3> QED BY <3>2, <3>3, <3>4
  <2>4. (c - b) % w = e + d
    <3>1. PICK r \in 0..(w - 1) : r = e + d
      BY <1>2
    <3>2. PICK x \in Int : x = c - b
      OBVIOUS
    <3>3. x = w * k + r
      BY <2>3, <3>1, <3>2
    <3>4. x % w = r
      BY <3>3, ResidueIs
    <3> QED BY <3>1, <3>2, <3>4, Zenon
  <2> QED BY <2>1, <2>4
<1>3. ASSUME e - d \in 0..(w - 1) PROVE (a - ((b + d) % w)) % w = e - d
  <2>1. PICK p \in Int, c \in Int : b + d = w * p + c /\ c = (b + d) % w
    <3>1. w \in Int /\ w > 0 /\ b + d \in Int
      OBVIOUS
    <3>2. (b + d) % w \in 0..(w - 1) /\ \E q1 \in Int : b + d = w * q1 + ((b + d) % w)
      BY <3>1, Residue
    <3>3. (b + d) % w \in Int
      BY <3>2
    <3> QED BY <3>2, <3>3, Zenon
  <2>2. PICK k \in Int : k = q + p
    OBVIOUS
  <2>3. a - c = w * k + (e - d)
    <3>1. w * (q + p) = w * q + w * p
      OBVIOUS
    <3>2. w * k = w * q + w * p
      BY <2>2, <3>1
    <3>3. PICK m \in Int, n \in Int : m = w * q /\ n = w * p
      OBVIOUS
    <3>4. a - c = (m + n) + (e - d)
      <4>1. a - b = m + e /\ b + d = n + c
        BY <1>1, <2>1, <3>3, Zenon
      <4> QED BY <4>1
    <3> QED BY <3>2, <3>3, <3>4
  <2>4. (a - c) % w = e - d
    <3>1. PICK r \in 0..(w - 1) : r = e - d
      BY <1>3
    <3>2. PICK x \in Int : x = a - c
      OBVIOUS
    <3>3. x = w * k + r
      BY <2>3, <3>1, <3>2
    <3>4. x % w = r
      BY <3>3, ResidueIs
    <3> QED BY <3>1, <3>2, <3>4, Zenon
  <2> QED BY <2>1, <2>4
<1> QED BY <1>0, <1>2, <1>3, Zenon DEF Since, Later

\* A timer in front is one that is open; one that is set has all of its time, one that
\* is done none; and one that runs has run for what it counts off and for what it is
\* about to.
Timed ==
  /\ timer.front => timer.open
  /\ (timer.open /\ timer.state = "idle") => timer.left = Preset
  /\ timer.state = "done" => timer.left = 0
  /\ timer.state = "running" =>
       ran = Focus!Full \/ (Preset - timer.left) * Second + Focus!Elapsed <= ran

\* The timer, which knows nothing of the face.
Timers == [open : BOOLEAN, front : BOOLEAN, state : {"idle", "running", "paused", "done"},
           left : 0..Preset, mark : Focus!Clock]
TimerInv == timer \in Timers /\ ran \in 0..Focus!Full /\ Focus!TimerIsNeverShort /\ Timed

FocusInv == ticks \in Focus!Clock /\ TimerInv

LEMMA FocusShows == FocusInv => Focus!TypeOK /\ Focus!TimerIsNeverShort
BY DEF FocusInv, TimerInv, Timers, Focus!TypeOK

LEMMA TimerFields ==
  ASSUME TimerInv
  PROVE  /\ timer.open \in BOOLEAN /\ timer.front \in BOOLEAN
         /\ timer.state \in {"idle", "running", "paused", "done"}
         /\ timer.left \in 0..Preset /\ timer.mark \in Focus!Clock
BY DEF TimerInv, Timers

\* What of the timer's invariant there is to show: which is all of it for its fields.
LEMMA TimerIs ==
  ASSUME NEW o \in BOOLEAN, NEW f \in BOOLEAN, NEW s \in {"idle", "running", "paused", "done"},
         NEW n \in 0..Preset, NEW m \in Focus!Clock,
         timer' = [open |-> o, front |-> f, state |-> s, left |-> n, mark |-> m],
         ran' \in 0..Focus!Full,
         f => o, (o /\ s = "idle") => n = Preset, s = "done" => n = 0 /\ ran' = Focus!Full,
         s = "running" => ran' = Focus!Full
                          \/ (Preset - n) * Second + ((ticks' - m) % MsWrap) <= ran',
         s \in {"running", "paused"} => (Preset - n) * Second <= ran'
  PROVE  TimerInv'
<1>1. timer' \in Timers
  BY DEF Timers
<1>2. /\ timer'.open = o /\ timer'.front = f /\ timer'.state = s /\ timer'.left = n
      /\ timer'.mark = m
  OBVIOUS
<1>3. Focus!TimerIsNeverShort'
  BY <1>2 DEF Focus!TimerIsNeverShort, Focus!Full
<1>4. Timed'
  <2>0. Focus!Elapsed' = (ticks' - timer'.mark) % MsWrap
    BY DEF Focus!Elapsed
  <2>1. (timer'.state = "running") =>
          ran' = Focus!Full
          \/ (Preset - timer'.left) * Second + ((ticks' - timer'.mark) % MsWrap) <= ran'
    BY <1>2, Zenon
  <2>2. /\ timer'.front => timer'.open
        /\ (timer'.open /\ timer'.state = "idle") => timer'.left = Preset
        /\ timer'.state = "done" => timer'.left = 0
    BY <1>2, Zenon
  <2>3. Focus!Full' = Focus!Full
    BY DEF Focus!Full
  <2> QED BY <2>0, <2>1, <2>2, <2>3, Zenon DEF Timed
<1> QED BY <1>1, <1>3, <1>4 DEF TimerInv, Timers, Focus!Clock, Focus!Full

\* A running timer's mark follows the ticks by whole seconds; what remains is paid for.
LEMMA TickCounts ==
  ASSUME NEW S \in Nat \ {0}, NEW e \in Nat, NEW n \in 0..Preset, NEW t \in Nat, Preset \in Nat,
         t = Preset * S \/ (Preset - n) * S + e <= t, t <= Preset * S
  PROVE  /\ e \div S \in Nat /\ (e \div S) * S \in 0..e
         /\ n <= e \div S => t = Preset * S
         /\ n > e \div S =>
              \/ t = Preset * S
              \/ (Preset - (n - (e \div S))) * S + (e - (e \div S) * S) <= t
<1>1. PICK q \in Int : q = e \div S
  OBVIOUS
<1>2. q \in Nat /\ q * S <= e
  BY <1>1
<1>3. PICK m \in Nat : m = q * S
  BY <1>2
<1>4. PICK k \in Int : k = Preset - n
  OBVIOUS
<1>5. PICK x \in Int, y \in Int : x = k * S /\ y = n * S
  OBVIOUS
<1>6. Preset * S = x + y
  <2>1. (Preset - n) * S = Preset * S - n * S
    OBVIOUS
  <2>2. PICK z \in Int : z = Preset * S
    OBVIOUS
  <2>3. x = z - y
    BY <1>4, <1>5, <2>1, <2>2, Zenon
  <2>4. z = x + y
    BY <2>3
  <2> QED BY <2>2, <2>4
<1>7. t = x + y \/ x + e <= t
  BY <1>4, <1>5, <1>6
<1>8. t <= x + y
  BY <1>6
<1>9. n <= q => t = x + y
  <2>1. SUFFICES ASSUME n <= q PROVE t = x + y
    OBVIOUS
  <2>2. n * S <= q * S
    BY <1>2, <2>1
  <2>3. y <= m
    BY <1>3, <1>5, <2>2
  <2>4. m <= e
    BY <1>2, <1>3
  <2> QED BY <1>7, <1>8, <2>3, <2>4
<1>10. (Preset - (n - q)) * S + (e - m) = x + e
  <2>1. (k + q) * S = k * S + q * S
    BY <1>2
  <2>2. Preset - (n - q) = k + q
    BY <1>2, <1>4
  <2>3. PICK z \in Int : z = (k + q) * S
    BY <1>2
  <2>4. z = x + m
    BY <1>3, <1>5, <2>1, <2>3, Zenon
  <2>5. z + (e - m) = x + e
    BY <2>4
  <2> QED BY <2>2, <2>3, <2>5, Zenon
<1>11. n > q => t = Preset * S \/ (Preset - (n - q)) * S + (e - m) <= t
  <2>1. PICK z \in Int : z = (Preset - (n - q)) * S + (e - m)
    BY <1>2
  <2>2. z = x + e
    BY <1>10, <2>1, Zenon
  <2>3. t = x + y \/ z <= t
    BY <1>7, <2>2
  <2> QED BY <1>6, <2>1, <2>3, Zenon
<1>12. q \in Nat /\ m \in 0..e
  BY <1>2, <1>3
<1> QED BY <1>1, <1>3, <1>6, <1>9, <1>11, <1>12, Zenon

LEMMA ClockRuns ==
  ASSUME Focus!Parameters, FocusInv, [Focus!Next]_(Focus!vars)
  PROVE  ticks' \in Focus!Clock
<1>1. CASE Focus!Pass
  <2>1. PICK dt \in 1..MaxFrame : ticks' = (ticks + dt) % MsWrap
    BY <1>1 DEF Focus!Pass
  <2>2. ticks + dt \in Int /\ MsWrap \in Int /\ MsWrap > 0
    BY DEF Focus!Parameters, FocusInv, Focus!Clock
  <2> QED BY <2>1, <2>2, Residue DEF Focus!Clock
<1>2. CASE UNCHANGED ticks
  BY <1>2 DEF FocusInv, Focus!Clock
<1> QED BY <1>1, <1>2 DEF Focus!Next, Focus!vars, Focus!SetChoice, Focus!Switch, Focus!Ring,
           Focus!FocusTick, Focus!FocusClose

LEMMA FocusNext ==
  ASSUME Focus!Parameters, FocusInv, [Focus!Next]_(Focus!vars)
  PROVE  FocusInv'
<1> SUFFICES TimerInv'
  BY ClockRuns DEF FocusInv
<1>p. MsWrap \in Nat \ {0} /\ Second \in Nat \ {0} /\ Preset \in Nat \ {0} /\ MaxFrame \in Nat
  BY DEF Focus!Parameters
<1>0. TimerInv
  BY DEF FocusInv
<1>c. ticks \in Focus!Clock /\ 0 \in 0..Preset
  BY <1>p DEF FocusInv
<1>f. Focus!Full \in Nat /\ 0 \in 0..Focus!Full /\ Focus!Full = Preset * Second
  <2>1. Preset * Second \in Nat
    BY <1>p
  <2> QED BY <2>1 DEF Focus!Full
<1>r. ran \in 0..Focus!Full
  BY <1>0 DEF TimerInv
<1>t. PICK o \in BOOLEAN, fr \in BOOLEAN, s \in {"idle", "running", "paused", "done"},
           n \in 0..Preset, m \in Focus!Clock :
        timer = [open |-> o, front |-> fr, state |-> s, left |-> n, mark |-> m]
  BY <1>0 DEF TimerInv, Timers
<1>h. /\ fr => o
      /\ (o /\ s = "idle") => n = Preset
      /\ s = "done" => n = 0 /\ ran = Focus!Full
      /\ s = "running" => ran = Focus!Full
                          \/ (Preset - n) * Second + ((ticks - m) % MsWrap) <= ran
      /\ s \in {"running", "paused"} => (Preset - n) * Second <= ran
  BY <1>0, <1>t DEF TimerInv, Timed, Focus!TimerIsNeverShort, Focus!Elapsed
<1>s. timer.state = s
  BY <1>t
<1>1. CASE Focus!SetChoice
  <2>1. /\ s \in {"idle", "done"} /\ ran' = 0
        /\ timer' = [open |-> TRUE, front |-> TRUE, state |-> "idle", left |-> Preset, mark |-> m]
        /\ UNCHANGED ticks
    BY <1>1, <1>t DEF Focus!SetChoice
  <2>4. TimerInv'
    <3>1. TRUE \in BOOLEAN /\ "idle" \in {"idle", "running", "paused", "done"} /\ Preset \in 0..Preset
      BY <1>p
    <3>2. /\ timer' = [open |-> TRUE, front |-> TRUE, state |-> "idle", left |-> Preset, mark |-> m]
          /\ ran' \in 0..Focus!Full
      BY <1>f, <2>1
    <3>3. ~("idle" = "done") /\ ~("idle" = "running") /\ ~("idle" \in {"running", "paused"})
      OBVIOUS
    <3> QED BY <3>1, <3>2, <3>3, TimerIs
  <2> QED BY <2>4
<1>2. CASE Focus!Switch
  <2>1. /\ o /\ timer' = [open |-> o, front |-> ~fr, state |-> s, left |-> n, mark |-> m]
        /\ UNCHANGED <<ticks, ran>>
    BY <1>2, <1>t DEF Focus!Switch
  <2> QED BY ZenonT(40), <1>h, <1>r, <2>1, TimerIs
<1>3. CASE Focus!Ring
  <2>1. fr /\ ticks' = ticks
    BY <1>3, <1>t DEF Focus!Ring
  <2>2. CASE s = "running"
    <3>1. /\ timer' = [open |-> o, front |-> fr, state |-> "paused", left |-> n, mark |-> m]
          /\ ran' = ran
      BY <1>3, <1>t, <2>2 DEF Focus!Ring
    <3>4. TimerInv'
      BY <1>h, <1>r, <2>2, <3>1, TimerIs
    <3> QED BY <3>4
  <2>3. CASE s # "running"
    <3>0. PICK l \in 0..Preset : l = IF n = 0 THEN Preset ELSE n
      BY <1>p
    <3>1. /\ timer' = [open |-> o, front |-> fr, state |-> "running", left |-> l, mark |-> ticks]
          /\ ran' = (IF n = 0 THEN 0 ELSE ran)
      BY <1>3, <1>t, <2>3, <3>0 DEF Focus!Ring
    <3>4. (ticks' - ticks) % MsWrap = 0
      <4>1. ticks \in Int
        BY <1>c, <1>p DEF Focus!Clock
      <4>2. ticks' - ticks = 0
        BY <2>1, <4>1
      <4>3. 0 % MsWrap = 0
        <5>1. 0 = MsWrap * 0 + 0
          BY <1>p
        <5>2. 0 \in 0..(MsWrap - 1)
          BY <1>p
        <5> QED BY <1>p, <5>1, <5>2, ResidueIs
      <4> QED BY <4>2, <4>3
    <3>5. ran' \in 0..Focus!Full /\ (Preset - l) * Second <= ran'
      <4>1. CASE n = 0 \/ s = "idle"
        <5>1. l = Preset
          BY <1>h, <2>1, <3>0, <4>1
        <5>2. (Preset - l) * Second = 0
          BY <1>p, <5>1
        <5> QED BY <1>f, <1>r, <3>1, <5>2
      <4>2. CASE n # 0 /\ s # "idle"
        <5>1. l = n /\ ran' = ran /\ s = "paused"
          BY <1>h, <2>3, <3>0, <3>1, <4>2
        <5> QED BY <1>h, <1>r, <5>1
      <4> QED BY <4>1, <4>2
    <3>6. (Preset - l) * Second + ((ticks' - ticks) % MsWrap) <= ran'
      <4>1. PICK x \in Int : x = (Preset - l) * Second
        BY <1>p
      <4>2. x <= ran' /\ ran' \in Int
        BY <1>f, <3>5, <4>1
      <4>3. x + 0 <= ran'
        BY <4>2
      <4> QED BY <3>4, <4>1, <4>3, Zenon
    <3>7. TimerInv'
      BY <1>c, <1>h, <3>1, <3>5, <3>6, TimerIs
    <3> QED BY <3>7
  <2> QED BY <2>2, <2>3
<1>4. CASE Focus!FocusTick
  <2>1. fr /\ s = "running" /\ Focus!Elapsed >= Second /\ ticks' = ticks /\ ran' = ran
    BY <1>4, <1>t DEF Focus!FocusTick
  <2>2. PICK e \in 0..(MsWrap - 1) : e = (ticks - m) % MsWrap /\ e = Focus!Elapsed
    <3>1. ticks - m \in Int /\ MsWrap \in Int /\ MsWrap > 0
      BY <1>c, <1>p DEF Focus!Clock
    <3>2. (ticks - m) % MsWrap \in 0..(MsWrap - 1)
      BY <3>1, Residue
    <3> QED BY <1>t, <3>2 DEF Focus!Elapsed
  <2>3. /\ e \div Second \in Nat /\ (e \div Second) * Second \in 0..e
        /\ n <= e \div Second => ran = Preset * Second
        /\ n > e \div Second =>
             \/ ran = Preset * Second
             \/ (Preset - (n - (e \div Second))) * Second + (e - (e \div Second) * Second) <= ran
    <3>1. e \in Nat /\ ran \in Nat /\ ran <= Preset * Second /\ Preset \in Nat
      BY <1>f, <1>p, <1>r
    <3>2. ran = Preset * Second \/ (Preset - n) * Second + e <= ran
      BY <1>f, <1>h, <2>1, <2>2
    <3> QED BY <1>p, <3>1, <3>2, TickCounts
  <2>4. PICK q \in Nat, d \in 0..e : q = e \div Second /\ d = q * Second
    BY <2>3
  <2>5. PICK l \in 0..Preset : l = IF n > q THEN n - q ELSE 0
    <3>1. n > q => n - q \in 0..Preset
      BY <1>p
    <3> QED BY <1>c, <3>1
  <2>6. PICK m2 \in Focus!Clock : m2 = (m + d) % MsWrap
    <3>1. m + d \in Int /\ MsWrap \in Int /\ MsWrap > 0
      BY <1>p DEF Focus!Clock
    <3> QED BY <3>1, Residue DEF Focus!Clock
  <2>7. PICK s2 \in {"running", "done"} : s2 = IF l = 0 THEN "done" ELSE "running"
    OBVIOUS
  <2>8. timer' = [open |-> o, front |-> fr, state |-> s2, left |-> l, mark |-> m2]
    <3>1. /\ timer.left > q <=> n > q
          /\ timer.left - q = n - q
          /\ timer.mark + q * Second = m + d
      BY <1>t, <2>4
    <3>2. timer' = [timer EXCEPT !.left = l, !.mark = m2, !.state = IF l = 0 THEN "done" ELSE timer.state]
      BY <1>4, <1>t, <2>2, <2>4, <2>5, <2>6 DEF Focus!FocusTick
    <3> QED BY <1>t, <2>1, <2>7, <3>2
  <2>9. (ticks' - m2) % MsWrap = e - d
    <3>1. e - d \in 0..(MsWrap - 1)
      BY <1>p
    <3>2. ticks \in Int /\ m \in Int /\ e \in Int /\ d \in Int
      BY <1>c, <1>p DEF Focus!Clock
    <3>3. (ticks - ((m + d) % MsWrap)) % MsWrap = e - d
      <4>1. MsWrap \in Nat \ {0} /\ e = Since(ticks, m)
        BY <1>p, <2>2 DEF Since
      <4>2. Since(ticks, Later(m, d)) = e - d
        BY <3>1, <3>2, <4>1, TimePasses
      <4> QED BY <4>2, Zenon DEF Since, Later
    <3> QED BY <2>1, <2>6, <3>3, Zenon
  <2>10. TimerInv'
    <3>0. ran' \in 0..Focus!Full /\ ran \in Int /\ Focus!Full = Preset * Second
      BY <1>f, <1>r, <2>1
    <3>1. CASE n <= q
      <4>1. l = 0 /\ s2 = "done" /\ ran' = Focus!Full
        BY <1>p, <2>1, <2>3, <2>4, <2>5, <2>7, <3>0, <3>1
      <4> QED BY <1>h, <2>8, <3>0, <4>1, TimerIs
    <3>2. CASE n > q
      <4>1. l = n - q /\ l # 0 /\ s2 = "running"
        BY <1>p, <2>5, <2>7, <3>2
      <4>2. ran = Preset * Second \/ (Preset - l) * Second + (e - d) <= ran
        BY <2>3, <2>4, <3>2, <4>1
      <4>3. ran' = Focus!Full
            \/ (Preset - l) * Second + ((ticks' - m2) % MsWrap) <= ran'
        BY <2>1, <2>9, <3>0, <4>2, Zenon
      <4>4. (Preset - l) * Second <= ran'
        <5>1. PICK x \in Int : x = (Preset - l) * Second
          BY <1>p
        <5>2. x <= Preset * Second
          <6>1. Preset - l <= Preset /\ Preset - l \in Int
            BY <1>p
          <6>2. (Preset - l) * Second <= Preset * Second
            BY <1>p, <6>1
          <6> QED BY <5>1, <6>2
        <5>3. ran = Preset * Second \/ x + (e - d) <= ran
          BY <4>2, <5>1, Zenon
        <5>4. e - d >= 0
          BY <1>p
        <5>5. x <= ran
          BY <3>0, <5>2, <5>3, <5>4
        <5> QED BY <2>1, <5>1, <5>5
      <4> QED BY <1>h, <2>8, <3>0, <4>1, <4>3, <4>4, TimerIs
    <3> QED BY <1>p, <3>1, <3>2
  <2> QED BY <2>10
<1>5. CASE Focus!FocusClose
  <2>1. /\ timer' = [open |-> FALSE, front |-> FALSE, state |-> "idle", left |-> n, mark |-> m]
        /\ ticks' = ticks /\ ran' = ran
    BY <1>5, <1>t DEF Focus!FocusClose
  <2> QED BY <1>r, <2>1, TimerIs
<1>6. CASE Focus!Pass
  <2>1. PICK dt \in 1..MaxFrame :
          /\ timer.state = "running" => Focus!Elapsed + dt < MsWrap
          /\ ticks' = (ticks + dt) % MsWrap
          /\ ran' = IF timer.state # "running" THEN ran
                    ELSE IF ran + dt < Focus!Full THEN ran + dt ELSE Focus!Full
          /\ UNCHANGED timer
    BY <1>6 DEF Focus!Pass
  <2>4. timer' = [open |-> o, front |-> fr, state |-> s, left |-> n, mark |-> m]
    BY <1>t, <2>1
  <2>5. CASE s # "running"
    <3>1. ran' = ran
      BY <1>t, <2>1, <2>5
    <3>2. TimerInv'
      BY <1>h, <1>r, <2>4, <2>5, <3>1, TimerIs
    <3> QED BY <3>2
  <2>6. CASE s = "running"
    <3>1. PICK e \in 0..(MsWrap - 1) : e = (ticks - m) % MsWrap /\ e = Focus!Elapsed
      <4>1. ticks - m \in Int /\ MsWrap \in Int /\ MsWrap > 0
        BY <1>c, <1>p DEF Focus!Clock
      <4>2. (ticks - m) % MsWrap \in 0..(MsWrap - 1)
        BY <4>1, Residue
      <4> QED BY <1>t, <4>2 DEF Focus!Elapsed
    <3>2. e + dt \in 0..(MsWrap - 1)
      <4>1. e + dt < MsWrap
        BY <1>s, <2>1, <2>6, <3>1
      <4> QED BY <1>p, <4>1
    <3>3. (ticks' - m) % MsWrap = e + dt
      <4>1. ticks \in Int /\ m \in Int /\ e \in Int /\ dt \in Int
        BY <1>c, <1>p DEF Focus!Clock
      <4>2. (((ticks + dt) % MsWrap) - m) % MsWrap = e + dt
        <5>1. MsWrap \in Nat \ {0} /\ e = Since(ticks, m)
          BY <1>p, <3>1 DEF Since
        <5>2. Since(Later(ticks, dt), m) = e + dt
          BY <3>2, <4>1, <5>1, TimePasses
        <5> QED BY <5>2, Zenon DEF Since, Later
      <4> QED BY <2>1, <4>2, Zenon
    <3>4. PICK x \in Int : x = (Preset - n) * Second
      BY <1>p
    <3>5. x <= ran /\ (ran = Focus!Full \/ x + e <= ran)
      BY <1>h, <2>6, <3>1, <3>4, Zenon
    <3>6. ran' = IF ran + dt < Focus!Full THEN ran + dt ELSE Focus!Full
      BY <1>s, <2>1, <2>6
    <3>7. /\ ran' \in 0..Focus!Full /\ x <= ran'
          /\ (ran' = Focus!Full \/ x + (e + dt) <= ran')
      <4>1. PICK F \in Nat : F = Focus!Full
        BY <1>f
      <4>2. ran \in 0..F /\ x <= ran /\ (ran = F \/ x + e <= ran)
        BY <1>r, <3>5, <4>1
      <4>3. ran' = IF ran + dt < F THEN ran + dt ELSE F
        BY <3>6, <4>1
      <4>4. ran' \in 0..F /\ x <= ran' /\ (ran' = F \/ x + (e + dt) <= ran')
        BY <1>p, <4>2, <4>3
      <4> QED BY <4>1, <4>4
    <3>8. /\ (Preset - n) * Second <= ran'
          /\ ran' = Focus!Full \/ (Preset - n) * Second + ((ticks' - m) % MsWrap) <= ran'
      BY <3>3, <3>4, <3>7, Zenon
    <3>9. TimerInv'
      BY <1>h, <2>4, <2>6, <3>7, <3>8, TimerIs
    <3> QED BY <3>9
  <2> QED BY <2>5, <2>6
<1>7. CASE UNCHANGED Focus!vars
  <2>1. UNCHANGED <<ticks, timer, ran>>
    BY <1>7 DEF Focus!vars
  <2> QED BY <1>0, <2>1 DEF TimerInv, Timers, Timed, Focus!TimerIsNeverShort, Focus!Elapsed, Focus!Clock,
          Focus!Full
<1> QED BY <1>1, <1>2, <1>3, <1>4, <1>5, <1>6, <1>7 DEF Focus!Next

LEMMA FocusBegins ==
  ASSUME Focus!Parameters, Focus!Init
  PROVE  FocusInv
<1>1. /\ ticks \in Focus!Clock /\ ran = 0
      /\ timer = [open |-> FALSE, front |-> FALSE, state |-> "idle", left |-> 0, mark |-> 0]
  BY DEF Focus!Init
<1>2. 0 \in Focus!Clock /\ 0 \in 0..Preset
  BY DEF Focus!Parameters, Focus!Clock
<1>3. 0 \in 0..Focus!Full
  <2>1. Preset * Second \in Nat
    BY DEF Focus!Parameters
  <2> QED BY <2>1 DEF Focus!Full
<1> QED BY <1>1, <1>2, <1>3 DEF FocusInv, TimerInv, Timers, Timed, Focus!TimerIsNeverShort

-----------------------------------------------------------------------------
(* The face.                                                               *)

FaceInv == Persona!TypeOK /\ Persona!HeldMoodEnds

LEMMA MoodIsSet ==
  ASSUME Persona!Parameters, FaceInv, clock' = clock,
         NEW mood \in Persona!Moods, NEW hold \in Holds \union {0}, Persona!SetMood(mood, hold)
  PROVE  FaceInv'
<1>p. MsWrap \in Nat \ {0} /\ Holds \subseteq Nat
  BY DEF Persona!Parameters
<1>1. clock \in 0..(MsWrap - 1) /\ hold \in Nat
  BY <1>p DEF FaceInv, Persona!TypeOK, Persona!Clock
<1>2. Persona!Until(hold) \in Persona!Clock /\ 0 \in Persona!Clock
  <2>1. PICK n \in Nat : n = clock + hold
    BY <1>p, <1>1
  <2>2. n % MsWrap \in 0..(MsWrap - 1)
    BY <1>p, Residue
  <2> QED BY <1>p, <2>1, <2>2 DEF Persona!Until, Persona!Clock
<1>c. clock' \in Persona!Clock
  BY <1>1 DEF Persona!Clock
<1>3. CASE hold = 0
  <2>0. ~(hold > 0)
    BY <1>1, <1>3
  <2>1. face' = [mood |-> mood, rest |-> mood, until |-> 0] /\ zero' = FALSE
    BY Zenon, <2>0 DEF Persona!SetMood
  <2> QED BY <1>2, <1>c, <2>1 DEF FaceInv, Persona!TypeOK, Persona!HeldMoodEnds
<1>4. CASE hold # 0
  <2>1. hold > 0
    BY <1>1, <1>4
  <2>2. PICK u \in Persona!Clock : u = Persona!Until(hold)
    BY <1>2
  <2>3. face' = [face EXCEPT !.mood = mood, !.until = u] /\ zero' = (u = 0)
    BY <2>1, <2>2 DEF Persona!SetMood
  <2>4. /\ face' \in [mood : Persona!Moods, rest : Persona!Moods, until : Persona!Clock]
        /\ face'.until = u
    BY <2>3 DEF FaceInv, Persona!TypeOK
  <2> QED BY <1>c, <2>3, <2>4 DEF FaceInv, Persona!TypeOK, Persona!HeldMoodEnds
<1> QED BY <1>3, <1>4

LEMMA PersonaNext ==
  ASSUME Persona!Parameters, FaceInv, [Persona!Next]_(Persona!vars)
  PROVE  FaceInv'
<1>p. MsWrap \in Nat \ {0} /\ MaxFrame \in Nat /\ Holds \subseteq Nat /\ Hints \subseteq Persona!Moods
  BY DEF Persona!Parameters
<1>1. CASE Persona!React
  <2>1. clock' = clock
    BY <1>1 DEF Persona!React
  <2>2. PICK mood \in Persona!Moods, hold \in Holds \union {0} : Persona!SetMood(mood, hold)
    BY <1>1, <1>p DEF Persona!React, Persona!Held, Persona!Rested, Persona!Moods
  <2> QED BY <2>1, <2>2, MoodIsSet
<1>2. CASE Persona!Expire
  <2>1. /\ clock' = clock /\ Persona!SetMood(face.rest, 0) /\ face.rest \in Persona!Moods
        /\ 0 \in Holds \union {0}
    BY <1>2 DEF Persona!Expire, FaceInv, Persona!TypeOK
  <2> QED BY <2>1, MoodIsSet
<1>3. CASE Persona!Pass
  <2>1. PICK dt \in 1..MaxFrame : clock' = (clock + dt) % MsWrap /\ UNCHANGED <<face, zero>>
    BY <1>3 DEF Persona!Pass
  <2>2. clock + dt \in Int /\ MsWrap \in Int /\ MsWrap > 0
    BY <1>p DEF FaceInv, Persona!TypeOK, Persona!Clock
  <2>3. clock' \in Persona!Clock
    BY <2>1, <2>2, Residue DEF Persona!Clock
  <2> QED BY <2>1, <2>3 DEF FaceInv, Persona!TypeOK, Persona!HeldMoodEnds, Persona!Clock, Persona!Moods
<1>4. CASE UNCHANGED Persona!vars
  BY <1>4 DEF Persona!vars, FaceInv, Persona!TypeOK, Persona!HeldMoodEnds, Persona!Clock, Persona!Moods
<1> QED BY <1>1, <1>2, <1>3, <1>4 DEF Persona!Next

\* The face rests in the mood it was asked to start in.
LEMMA PersonaBegins ==
  ASSUME Persona!Parameters, Persona!Init
  PROVE  FaceInv
<1>1. PICK mood \in Persona!Moods :
        /\ clock \in Persona!Clock /\ zero = FALSE
        /\ face = [mood |-> mood, rest |-> mood, until |-> 0]
  BY DEF Persona!Init
<1>2. 0 \in Persona!Clock
  BY DEF Persona!Parameters, Persona!Clock
<1> QED BY <1>1, <1>2 DEF FaceInv, Persona!TypeOK, Persona!HeldMoodEnds
-----------------------------------------------------------------------------
(* Snake.                                                                  *)

LEMMA SnakeCounts == \A S : Snake!Cardinality(S) = Cardinality(S)
<1>1. ASSUME NEW S PROVE Snake!Cardinality(S) = Cardinality(S)
  BY DEF Snake!Cardinality, Cardinality
<1> QED BY <1>1

\* One cell further, round the edge or off the grid.
Round(w, x, e) == IF w THEN ((x + e) + Grid) % Grid ELSE x + e
Onward(w, p, d) == <<Round(w, p[1], d[1]), Round(w, p[2], d[2])>>

Apart(b) == \A i, j \in 1..Len(b) : i # j => b[i] # b[j]

\* What the snake goes by now, and by the turns that wait.
Going(i) == IF i = 0 THEN dir ELSE turns[i]

BodyInv ==
  /\ body \in Seq(Snake!Cells) /\ Len(body) \in 2..MaxLen /\ Len(body) \in StartLen..MaxLen
  /\ Apart(body)
TurnsInv ==
  /\ dir \in Snake!Directions /\ turns \in Seq(Snake!Directions) /\ Len(turns) \in 0..TurnQueue
  /\ \A i \in 1..Len(turns) : Going(i) # Snake!Back(Going(i - 1))
SnakeInv ==
  /\ BodyInv
  /\ TurnsInv
  /\ food \in Snake!Cells /\ wrap \in BOOLEAN /\ snakeState \in {"playing", "over"}
  /\ snakeState = "playing" => body[1] = Onward(wrap, body[2], dir) /\ food \in Snake!Free(body)

\* There and back again takes a step and its reverse, on a grid of three or more.
LEMMA RoundAndBack ==
  ASSUME Grid \in Nat, 3 <= Grid, NEW w \in BOOLEAN, NEW x \in 0..(Grid - 1),
         NEW e \in {-1, 0, 1}, NEW f \in {-1, 0, 1}, Round(w, Round(w, x, e), f) = x
  PROVE  f = -e
<1>1. CASE ~w
  <2>1. Round(w, x, e) = x + e
    BY <1>1 DEF Round
  <2>2. PICK y \in Int : y = x + e
    OBVIOUS
  <2>3. y + f = x
    BY <1>1, <2>1, <2>2 DEF Round
  <2> QED BY <2>2, <2>3
<1>2. CASE w
  <2>1. ASSUME NEW y \in 0..(Grid - 1), NEW d \in {-1, 0, 1}
        PROVE  Round(w, y, d) = IF y + d = -1 THEN Grid - 1 ELSE IF y + d = Grid THEN 0 ELSE y + d
    <3>0. Round(w, y, d) = ((y + d) + Grid) % Grid /\ Grid \in Nat \ {0}
      BY <1>2 DEF Round
    <3>1. CASE y + d = -1
      <4>1. (y + d) + Grid = Grid * 0 + (Grid - 1) /\ Grid - 1 \in 0..(Grid - 1) /\ 0 \in Int
        BY <3>1
      <4>2. PICK a \in Int : a = (y + d) + Grid
        OBVIOUS
      <4>3. a % Grid = Grid - 1
        BY <3>0, <4>1, <4>2, ResidueIs
      <4> QED BY <3>0, <3>1, <4>2, <4>3
    <3>2. CASE y + d = Grid
      <4>1. (y + d) + Grid = Grid * 2 + 0 /\ 0 \in 0..(Grid - 1) /\ 2 \in Int
        BY <3>2
      <4>2. PICK a \in Int : a = (y + d) + Grid
        OBVIOUS
      <4>3. a % Grid = 0
        BY <3>0, <4>1, <4>2, ResidueIs
      <4> QED BY <3>0, <3>2, <4>2, <4>3
    <3>3. CASE y + d # -1 /\ y + d # Grid
      <4>0. PICK r \in 0..(Grid - 1) : r = y + d
        BY <3>3
      <4>1. (y + d) + Grid = Grid * 1 + r /\ 1 \in Int
        BY <4>0
      <4>2. PICK a \in Int : a = (y + d) + Grid
        OBVIOUS
      <4>3. a % Grid = r
        BY <3>0, <4>1, <4>2, ResidueIs
      <4> QED BY <3>0, <3>3, <4>0, <4>2, <4>3
    <3> QED BY <3>1, <3>2, <3>3
  <2>2. PICK y \in 0..(Grid - 1) : y = Round(w, x, e)
    BY <2>1
  <2>3. y = IF x + e = -1 THEN Grid - 1 ELSE IF x + e = Grid THEN 0 ELSE x + e
    BY <2>1, <2>2
  <2>4. x = IF y + f = -1 THEN Grid - 1 ELSE IF y + f = Grid THEN 0 ELSE y + f
    BY <2>1, <2>2
  <2> QED BY <2>3, <2>4
<1> QED BY <1>1, <1>2

LEMMA NoTurningBack ==
  ASSUME Grid \in Nat, 3 <= Grid, NEW w \in BOOLEAN, NEW p \in Snake!Cells,
         NEW d \in Snake!Directions, NEW t \in Snake!Directions, t # Snake!Back(d)
  PROVE  Onward(w, Onward(w, p, d), t) # p
<1> SUFFICES ASSUME Onward(w, Onward(w, p, d), t) = p PROVE FALSE
  OBVIOUS
<1>1. PICK x \in 0..(Grid - 1), y \in 0..(Grid - 1) : p = <<x, y>>
  BY DEF Snake!Cells
<1>2. PICK d1 \in {-1, 0, 1}, d2 \in {-1, 0, 1} : d = <<d1, d2>>
  BY DEF Snake!Directions
<1>3. PICK t1 \in {-1, 0, 1}, t2 \in {-1, 0, 1} : t = <<t1, t2>>
  BY DEF Snake!Directions
<1>4. Onward(w, p, d) = <<Round(w, x, d1), Round(w, y, d2)>>
  BY <1>1, <1>2 DEF Onward
<1>5. Round(w, Round(w, x, d1), t1) = x /\ Round(w, Round(w, y, d2), t2) = y
  BY <1>1, <1>3, <1>4 DEF Onward
<1>6. t1 = -d1 /\ t2 = -d2
  BY <1>5, RoundAndBack
<1> QED BY <1>2, <1>3, <1>6 DEF Snake!Back

\* A cell put before the first cells of a body.
LEMMA PutAhead ==
  ASSUME NEW S, NEW b \in Seq(S), NEW a \in S, NEW k \in 1..Len(b), NEW m,
         m = <<a>> \o SubSeq(b, 1, k)
  PROVE  /\ m \in Seq(S) /\ Len(m) = k + 1 /\ m[1] = a
         /\ \A i \in 2..(k + 1) : m[i] = b[i - 1]
<1>0. Len(b) \in Nat
  BY LenProperties
<1>1. \A i \in 1..k : b[i] \in S
  BY <1>0, ElementOfSeq
<1>2. PICK t : t = SubSeq(b, 1, k)
  OBVIOUS
<1>3. t \in Seq(S) /\ Len(t) = k /\ \A i \in 1..k : t[i] = b[i]
  <2>1. k \in Int /\ 1 \in Int /\ k >= 1 /\ k - 1 + 1 = k /\ \A i \in 1..k : 1 + i - 1 = i
    BY <1>0
  <2>2. SubSeq(b, 1, k) \in Seq(S) /\ Len(SubSeq(b, 1, k)) = k - 1 + 1
        /\ \A i \in 1..(k - 1 + 1) : SubSeq(b, 1, k)[i] = b[1 + i - 1]
    BY <1>1, <2>1, SubSeqProperties
  <2> QED BY <1>2, <2>1, <2>2
<1>4. PICK h \in Seq(S) : h = <<a>> /\ Len(h) = 1 /\ h[1] = a
  <2>1. <<a>> = Append(<<>>, a) /\ Len(<<a>>) = 1 /\ <<a>>[1] = a
    OBVIOUS
  <2>2. Append(<<>>, a) \in Seq(S)
    BY EmptySeq, AppendProperties
  <2> QED BY <2>1, <2>2, Zenon
<1>5. m \in Seq(S) /\ Len(m) = 1 + k
      /\ \A i \in 1..(1 + k) : m[i] = IF i <= 1 THEN h[i] ELSE t[i - 1]
  <2>1. h \o t \in Seq(S) /\ Len(h \o t) = Len(h) + Len(t)
        /\ \A i \in 1..(Len(h) + Len(t)) : (h \o t)[i] = IF i <= Len(h) THEN h[i] ELSE t[i - Len(h)]
    BY <1>3, <1>4, ConcatProperties
  <2>2. m = h \o t
    BY <1>2, <1>4
  <2> QED BY <1>3, <1>4, <2>1, <2>2
<1>6. m[1] = a
  <2>1. 1 \in 1..(1 + k) /\ 1 <= 1
    BY <1>0
  <2> QED BY <1>4, <1>5, <2>1
<1>7. ASSUME NEW i \in 2..(k + 1) PROVE m[i] = b[i - 1]
  <2>1. i \in 1..(1 + k) /\ ~(i <= 1) /\ i - 1 \in 1..k
    BY <1>0
  <2> QED BY <1>3, <1>5, <2>1
<1> QED BY <1>0, <1>5, <1>6, <1>7

\* A snake that lies apart lies on as many cells as it is long, and leaves one free.
LEMMA ApartCounts ==
  ASSUME NEW S, NEW b \in Seq(S), Apart(b)
  PROVE  IsFiniteSet(Snake!On(b)) /\ Cardinality(Snake!On(b)) = Len(b)
<1>1. Len(b) \in Nat /\ DOMAIN b = 1..Len(b) /\ b \in [1..Len(b) -> S]
  BY LenProperties
<1>2. Snake!On(b) = {b[i] : i \in 1..Len(b)}
  BY <1>1 DEF Snake!On
<1>3. b \in [1..Len(b) -> Snake!On(b)]
  BY <1>1, <1>2
<1>4. b \in Bijection(1..Len(b), Snake!On(b))
  BY <1>2, <1>3 DEF Apart, Bijection, Injection, Surjection, IsInjective
<1>5. ExistsBijection(1..Len(b), Snake!On(b))
  BY <1>4 DEF ExistsBijection
<1> QED BY <1>1, <1>5, FS_CountingElements, FS_NatBijection

LEMMA SomeCellIsFree ==
  ASSUME Snake!Parameters, NEW b \in Seq(Snake!Cells), Apart(b), Len(b) \in 0..MaxLen
  PROVE  Snake!Free(b) # {}
<1> SUFFICES ASSUME Snake!Free(b) = {} PROVE FALSE
  OBVIOUS
<1>1. IsFiniteSet(Snake!On(b)) /\ Cardinality(Snake!On(b)) = Len(b)
  BY ApartCounts
<1>2. Grid \in Nat /\ MaxLen \in Nat /\ MaxLen < Grid * Grid
  BY DEF Snake!Parameters
<1>3. IsFiniteSet(0..(Grid - 1)) /\ Cardinality(0..(Grid - 1)) = Grid
  <2>1. 0 \in Int /\ Grid - 1 \in Int /\ (IF 0 > Grid - 1 THEN 0 ELSE Grid - 1 - 0 + 1) = Grid
    BY <1>2
  <2> QED BY <2>1, FS_Interval
<1>4. Cardinality(Snake!Cells) = Grid * Grid
  <2>1. PICK S : S = 0..(Grid - 1)
    OBVIOUS
  <2>2. Cardinality(S \X S) = Cardinality(S) * Cardinality(S)
    BY <1>3, <2>1, FS_Product
  <2>3. Snake!Cells = S \X S
    BY <2>1 DEF Snake!Cells
  <2> QED BY <1>3, <2>1, <2>2, <2>3, Zenon
<1>5. Snake!Cells \in SUBSET Snake!On(b)
  BY DEF Snake!Free
<1>6. Cardinality(Snake!Cells) <= Cardinality(Snake!On(b))
  BY <1>1, <1>5, FS_Subset
<1>7. PICK g \in Nat : g = Grid * Grid
  BY <1>2
<1>8. g <= Len(b) /\ Len(b) <= MaxLen /\ MaxLen < g /\ Len(b) \in Nat
  BY <1>1, <1>2, <1>4, <1>6, <1>7
<1> QED BY <1>2, <1>7, <1>8

\* The heading is the first of the turns that wait; none of them is a reversal.
LEMMA HeadingIs ==
  ASSUME TurnsInv
  PROVE  /\ Snake!Heading \in Snake!Directions
         /\ turns = <<>> => Snake!Heading = dir
         /\ turns # <<>> => Len(turns) \in 1..TurnQueue /\ Snake!Heading = turns[1]
                            /\ turns[1] # Snake!Back(dir)
<1>1. dir \in Snake!Directions /\ turns \in Seq(Snake!Directions) /\ Len(turns) \in Nat
  BY LenProperties DEF TurnsInv
<1>2. CASE turns = <<>>
  BY <1>1, <1>2 DEF Snake!Heading
<1>3. CASE turns # <<>>
  <2>1. Len(turns) \in Nat \ {0}
    BY <1>1, <1>3, EmptySeq
  <2>2. 1 \in 1..Len(turns) /\ 1 - 1 = 0 /\ 1 # 0
    BY <2>1
  <2>3. Going(1) # Snake!Back(Going(1 - 1))
    BY <2>2, Zenon DEF TurnsInv
  <2>4. Going(1) = turns[1] /\ Going(1 - 1) = dir
    BY <2>2 DEF Going
  <2>5. Snake!Heading = turns[1]
    <3>1. Head(turns) = turns[1]
      OBVIOUS
    <3> QED BY <1>3, <3>1 DEF Snake!Heading
  <2>6. turns[1] \in Snake!Directions
    BY <1>1, <2>2, ElementOfSeq
  <2>7. Len(turns) \in 1..TurnQueue
    BY <2>1 DEF TurnsInv
  <2> QED BY <1>3, <2>3, <2>4, <2>5, <2>6, <2>7
<1> QED BY <1>2, <1>3

LEMMA AheadIs ==
  ASSUME Snake!Parameters, SnakeInv, snakeState = "playing"
  PROVE  Snake!Ahead = Onward(wrap, body[1], Snake!Heading) /\ Snake!Ahead # body[2]
<1>1. Snake!Ahead = Onward(wrap, body[1], Snake!Heading)
  BY DEF Snake!Ahead, Onward, Round
<1>2. Snake!Heading \in Snake!Directions /\ Snake!Heading # Snake!Back(dir)
  <2>1. TurnsInv /\ dir \in Snake!Directions
    BY DEF SnakeInv, TurnsInv
  <2>2. dir # Snake!Back(dir)
    BY <2>1 DEF Snake!Directions, Snake!Back
  <2> QED BY <2>1, <2>2, HeadingIs
<1>3. body[2] \in Snake!Cells
  <2>1. body \in Seq(Snake!Cells) /\ 2 \in 1..Len(body)
    BY DEF SnakeInv, BodyInv
  <2> QED BY <2>1, ElementOfSeq
<1>4. body[1] = Onward(wrap, body[2], dir) /\ wrap \in BOOLEAN /\ dir \in Snake!Directions
  BY DEF SnakeInv, TurnsInv
<1>5. Grid \in Nat /\ 3 <= Grid
  BY DEF Snake!Parameters
<1> QED BY <1>1, <1>2, <1>3, <1>4, <1>5, NoTurningBack

LEMMA SnakeShows ==
  ASSUME Snake!Parameters, SnakeInv
  PROVE  Snake!TypeOK /\ Snake!SnakeIsFair
<1>1. Snake!TypeOK
  <2>1. Len(turns) <= TurnQueue
    BY DEF Snake!Parameters, SnakeInv, TurnsInv
  <2> QED BY <2>1 DEF SnakeInv, BodyInv, TurnsInv, Snake!TypeOK
<1>2. Snake!NeverOverItself
  <2>1. Cardinality(Snake!On(body)) = Len(body)
    BY ApartCounts DEF SnakeInv, BodyInv
  <2> QED BY <2>1, SnakeCounts, Zenon DEF Snake!NeverOverItself
<1>3. Snake!NoReversal
  BY AheadIs DEF Snake!NoReversal
<1>4. Snake!FoodIsFree
  BY DEF SnakeInv, Snake!FoodIsFree
<1> QED BY <1>1, <1>2, <1>3, <1>4 DEF Snake!SnakeIsFair

\* A new snake lies straight, its head before its neck.
LEMMA FreshIs ==
  ASSUME Snake!Parameters
  PROVE  /\ Snake!Fresh \in Seq(Snake!Cells) /\ Len(Snake!Fresh) \in 2..MaxLen
         /\ Len(Snake!Fresh) \in StartLen..MaxLen /\ Apart(Snake!Fresh)
         /\ \A w \in BOOLEAN : Snake!Fresh[1] = Onward(w, Snake!Fresh[2], <<1, 0>>)
<1>1. /\ Grid \in Nat /\ 3 <= Grid /\ StartLen \in 2..MaxLen /\ StartLen <= Grid \div 2 + 1
      /\ MaxLen \in Nat
  BY DEF Snake!Parameters
<1>2. PICK h \in Nat : h = Grid \div 2 /\ h <= Grid - 1 /\ 1 <= h
  BY <1>1
<1>3. Snake!Fresh = [i \in 1..StartLen |-> <<h - (i - 1), h>>]
  BY <1>2 DEF Snake!Fresh
<1>4. ASSUME NEW i \in 1..StartLen PROVE <<h - (i - 1), h>> \in Snake!Cells
  <2>1. h - (i - 1) \in 0..(Grid - 1) /\ h \in 0..(Grid - 1)
    BY <1>1, <1>2
  <2> QED BY <2>1 DEF Snake!Cells
<1>5. Snake!Fresh \in Seq(Snake!Cells) /\ Len(Snake!Fresh) = StartLen
  <2>1. StartLen \in Nat
    BY <1>1
  <2>2. Snake!Fresh \in [1..StartLen -> Snake!Cells]
    BY <1>3, <1>4
  <2>3. Snake!Fresh \in Seq(Snake!Cells)
    BY <2>1, <2>2, SeqDef
  <2>4. DOMAIN Snake!Fresh = 1..Len(Snake!Fresh) /\ Len(Snake!Fresh) \in Nat
    BY <2>3, LenProperties
  <2>5. DOMAIN Snake!Fresh = 1..StartLen
    BY <1>3
  <2>6. 1..Len(Snake!Fresh) = 1..StartLen
    BY <2>4, <2>5
  <2>7. Len(Snake!Fresh) = StartLen
    <3>1. PICK n \in Nat : n = Len(Snake!Fresh) /\ 1..n = 1..StartLen
      BY <2>4, <2>6
    <3>2. StartLen \in 1..n
      BY <1>1, <3>1
    <3>3. n \in 1..n
      BY <3>2
    <3>4. n \in 1..StartLen
      BY <3>1, <3>3, Zenon
    <3> QED BY <1>1, <3>1, <3>2, <3>4
  <2> QED BY <2>3, <2>7
<1>6. Apart(Snake!Fresh)
  <2>1. ASSUME NEW i \in 1..StartLen, NEW j \in 1..StartLen, i # j
        PROVE  Snake!Fresh[i] # Snake!Fresh[j]
    <3>1. Snake!Fresh[i] = <<h - (i - 1), h>> /\ Snake!Fresh[j] = <<h - (j - 1), h>>
      BY <1>3
    <3>2. h - (i - 1) # h - (j - 1)
      BY <1>1, <2>1
    <3> QED BY <3>1, <3>2
  <2> QED BY <1>5, <2>1 DEF Apart
<1>7. ASSUME NEW w \in BOOLEAN PROVE Snake!Fresh[1] = Onward(w, Snake!Fresh[2], <<1, 0>>)
  <2>1. Snake!Fresh[1] = <<h, h>> /\ Snake!Fresh[2] = <<h - 1, h>>
    <3>1. 1 \in 1..StartLen /\ 2 \in 1..StartLen /\ h - (1 - 1) = h /\ h - (2 - 1) = h - 1
      BY <1>1
    <3> QED BY <1>3, <3>1
  <2>2. Round(w, h - 1, 1) = h /\ Round(w, h, 0) = h
    <3>1. CASE ~w
      BY <3>1 DEF Round
    <3>2. CASE w
      <4>1. PICK a \in Int : a = h + Grid
        BY <1>1
      <4>2. ((h - 1) + 1) + Grid = a /\ (h + 0) + Grid = a
        BY <1>1, <4>1
      <4>3. a = Grid * 1 + h /\ 1 \in Int /\ h \in 0..(Grid - 1) /\ Grid \in Nat \ {0}
        BY <1>1, <1>2, <4>1
      <4>4. a % Grid = h
        BY <4>3, ResidueIs
      <4> QED BY <3>2, <4>2, <4>4 DEF Round
    <3> QED BY <3>1, <3>2
  <2> QED BY <2>1, <2>2 DEF Onward
<1> QED BY <1>1, <1>5, <1>6, <1>7

\* A turn waits behind the last, of which it is no reversal.
LEMMA SnakeTurns ==
  ASSUME Snake!Parameters, SnakeInv, NEW d \in Snake!Directions, Snake!Turn(d)
  PROVE  TurnsInv'
<1>1. /\ dir \in Snake!Directions /\ turns \in Seq(Snake!Directions) /\ TurnQueue \in Nat
      /\ \A i \in 1..Len(turns) : Going(i) # Snake!Back(Going(i - 1))
  BY DEF SnakeInv, TurnsInv, Snake!Parameters
<1>2. dir' = dir /\ turns' = Append(turns, d) /\ Len(turns) < TurnQueue
      /\ d # Snake!Back(Snake!Last)
  BY DEF Snake!Turn
<1>3. PICK n \in Nat : n = Len(turns)
  BY <1>1, LenProperties
<1>4. /\ Append(turns, d) \in Seq(Snake!Directions) /\ Len(Append(turns, d)) = n + 1
      /\ \A i \in 1..n : Append(turns, d)[i] = turns[i]
      /\ Append(turns, d)[n + 1] = d
  BY <1>1, <1>3, AppendProperties
<1>5. turns' \in Seq(Snake!Directions) /\ Len(turns') = n + 1 /\ turns'[n + 1] = d
      /\ \A i \in 1..n : turns'[i] = turns[i]
  BY <1>2, <1>4, Zenon
<1>6. Snake!Last = Going(n)
  <2>1. CASE turns = <<>>
    <3>1. n = 0
      BY <1>3, <2>1
    <3> QED BY <2>1, <3>1 DEF Snake!Last, Going
  <2>2. CASE turns # <<>>
    <3>1. n # 0
      BY <1>1, <1>3, <2>2, EmptySeq
    <3> QED BY <1>3, <2>2, <3>1 DEF Snake!Last, Going
  <2> QED BY <2>1, <2>2
<1>7. ASSUME NEW i \in 0..n PROVE (IF i = 0 THEN dir' ELSE turns'[i]) = Going(i)
  <2>1. i = 0 \/ i \in 1..n
    OBVIOUS
  <2> QED BY <1>2, <1>5, <2>1 DEF Going
<1>8. ASSUME NEW i \in 1..(n + 1)
      PROVE  (IF i = 0 THEN dir' ELSE turns'[i])
               # Snake!Back(IF i - 1 = 0 THEN dir' ELSE turns'[i - 1])
  <2>1. i - 1 \in 0..n /\ i # 0
    OBVIOUS
  <2>2. (IF i - 1 = 0 THEN dir' ELSE turns'[i - 1]) = Going(i - 1)
    BY <1>7, <2>1
  <2>3. CASE i \in 1..n
    <3>1. i \in 0..n
      BY <2>3
    <3>2. (IF i = 0 THEN dir' ELSE turns'[i]) = Going(i)
      BY <1>7, <3>1
    <3>3. Going(i) # Snake!Back(Going(i - 1))
      BY <1>1, <1>3, <2>3
    <3> QED BY <2>2, <3>2, <3>3
  <2>4. CASE i = n + 1
    <3>1. turns'[i] = d /\ i - 1 = n
      BY <1>5, <2>4
    <3>2. turns'[i] # Snake!Back(Going(i - 1))
      BY <1>2, <1>6, <3>1
    <3> QED BY <2>1, <2>2, <3>2
  <2> QED BY <2>3, <2>4
<1>9. Len(turns') \in 0..TurnQueue
  BY <1>1, <1>2, <1>3, <1>5
<1>10. \A i \in 1..Len(turns') : Going(i)' # Snake!Back(Going(i - 1)')
  BY <1>5, <1>8 DEF Going
<1> QED BY <1>1, <1>2, <1>5, <1>9, <1>10 DEF TurnsInv, Going, Snake!Directions, Snake!Back

\* The first turn becomes the way it goes, and the rest move up.
LEMMA TurnsMoveUp ==
  ASSUME Snake!Parameters, TurnsInv, dir' = Snake!Heading,
         turns' = IF turns = <<>> THEN turns ELSE Tail(turns)
  PROVE  TurnsInv'
<1>1. /\ dir \in Snake!Directions /\ turns \in Seq(Snake!Directions) /\ Len(turns) \in 0..TurnQueue
      /\ \A i \in 1..Len(turns) : Going(i) # Snake!Back(Going(i - 1))
  BY DEF TurnsInv
<1>2. CASE turns = <<>>
  <2>1. dir' = dir /\ turns' = turns
    BY <1>2, HeadingIs
  <2> QED BY <1>1, <2>1 DEF TurnsInv, Going, Snake!Directions, Snake!Back
<1>3. CASE turns # <<>>
  <2>1. dir' = turns[1] /\ dir' \in Snake!Directions /\ turns' = Tail(turns)
    BY <1>3, HeadingIs
  <2>2. PICK n \in Nat : n = Len(turns) /\ n # 0
    BY <1>1, <1>3, EmptySeq
  <2>3. turns' \in Seq(Snake!Directions) /\ Len(turns') = n - 1
        /\ \A i \in 1..(n - 1) : turns'[i] = turns[i + 1]
    <3>1. /\ Tail(turns) \in Seq(Snake!Directions) /\ Len(Tail(turns)) = Len(turns) - 1
          /\ \A i \in 1..Len(Tail(turns)) : Tail(turns)[i] = turns[i + 1]
      BY <1>1, <1>3, HeadTailProperties
    <3> QED BY <2>1, <2>2, <3>1, Zenon
  <2>4. ASSUME NEW i \in 0..(n - 1)
        PROVE  (IF i = 0 THEN dir' ELSE turns'[i]) = Going(i + 1)
    <3>1. i + 1 # 0 /\ (i = 0 => i + 1 = 1) /\ (i # 0 => i \in 1..(n - 1))
      OBVIOUS
    <3> QED BY <2>1, <2>3, <3>1 DEF Going
  <2>5. ASSUME NEW i \in 1..(n - 1)
        PROVE  (IF i = 0 THEN dir' ELSE turns'[i])
                 # Snake!Back(IF i - 1 = 0 THEN dir' ELSE turns'[i - 1])
    <3>1. i \in 0..(n - 1) /\ i - 1 \in 0..(n - 1) /\ i + 1 \in 1..n /\ i + 1 - 1 = i
          /\ i - 1 + 1 = i
      BY <2>2
    <3>2. Going(i + 1) # Snake!Back(Going(i))
      BY <1>1, <2>2, <3>1
    <3>3. (IF i = 0 THEN dir' ELSE turns'[i]) = Going(i + 1)
      BY <2>4, <3>1
    <3>4. (IF i - 1 = 0 THEN dir' ELSE turns'[i - 1]) = Going(i)
      BY <2>4, <3>1
    <3>5. PICK g, b : g = (IF i = 0 THEN dir' ELSE turns'[i])
                      /\ b = (IF i - 1 = 0 THEN dir' ELSE turns'[i - 1])
      OBVIOUS
    <3>6. g = Going(i + 1) /\ b = Going(i)
      BY <3>3, <3>4, <3>5
    <3>7. g # Snake!Back(b)
      BY <3>2, <3>6
    <3> QED BY <3>5, <3>7, Zenon
  <2>6. Len(turns') \in 0..TurnQueue
    <3>1. TurnQueue \in Nat
      BY DEF Snake!Parameters
    <3> QED BY <1>1, <2>2, <2>3, <3>1
  <2>7. \A i \in 1..Len(turns') : Going(i)' # Snake!Back(Going(i - 1)')
    BY <2>3, <2>5 DEF Going
  <2> QED BY <2>1, <2>3, <2>6, <2>7 DEF TurnsInv, Going, Snake!Directions, Snake!Back
<1> QED BY <1>2, <1>3

\* The head goes where nothing is in the way, and the rest follows.
LEMMA SnakeMoves ==
  ASSUME Snake!Parameters, SnakeInv, snakeState = "playing", ~Snake!Dies
  PROVE  /\ Snake!Moved \in Seq(Snake!Cells) /\ Apart(Snake!Moved)
         /\ Len(Snake!Moved) \in 2..MaxLen /\ Len(Snake!Moved) \in StartLen..MaxLen
         /\ Snake!Moved[1] = Snake!Ahead /\ Snake!Moved[2] = body[1]
         /\ \A c \in Snake!On(Snake!Moved) : c = Snake!Ahead \/ c \in Snake!On(body)
<1>1. /\ body \in Seq(Snake!Cells) /\ Len(body) \in 2..MaxLen /\ Len(body) \in StartLen..MaxLen
      /\ Apart(body) /\ MaxLen \in Nat /\ StartLen \in Nat
  BY DEF SnakeInv, BodyInv, Snake!Parameters
<1>2. PICK n \in Nat : n = Len(body) /\ 2 <= n /\ n <= MaxLen
  BY <1>1
<1>3. Snake!Ahead \in Snake!Cells /\ Snake!Ahead \notin Snake!InTheWay
  BY DEF Snake!Dies
<1>4. PICK k \in 1..n : k = IF Snake!Grows THEN n ELSE n - 1
  BY <1>2
<1>5. /\ Snake!Moved = <<Snake!Ahead>> \o SubSeq(body, 1, k)
      /\ Snake!InTheWay = Snake!On(SubSeq(body, 1, k))
  <2>1. SubSeq(body, 1, n) = body
    BY <1>1, <1>2, SubSeqFull
  <2>2. CASE Snake!Grows
    BY <1>4, <2>1, <2>2 DEF Snake!Moved, Snake!InTheWay
  <2>3. CASE ~Snake!Grows
    BY <1>2, <1>4, <2>3 DEF Snake!Moved, Snake!InTheWay
  <2> QED BY <2>2, <2>3
<1>6. PICK m : m = Snake!Moved
  OBVIOUS
<1>7. /\ m \in Seq(Snake!Cells) /\ Len(m) = k + 1 /\ m[1] = Snake!Ahead
      /\ \A i \in 2..(k + 1) : m[i] = body[i - 1]
  <2>1. k \in 1..Len(body)
    BY <1>2
  <2>2. m = <<Snake!Ahead>> \o SubSeq(body, 1, k)
    BY <1>5, <1>6
  <2> QED BY <1>1, <1>3, <2>1, <2>2, PutAhead
<1>8. ASSUME NEW i \in 1..k PROVE body[i] \in Snake!InTheWay
  <2>1. ASSUME NEW j \in 1..k PROVE body[j] \in Snake!Cells
    <3>1. j \in 1..Len(body)
      BY <1>2
    <3> QED BY <1>1, <3>1, ElementOfSeq
  <2>2. 1 \in Int /\ k \in Int /\ k - 1 + 1 = k /\ 1 <= k /\ 1 + i - 1 = i
    OBVIOUS
  <2>3. PICK t : t = SubSeq(body, 1, k)
    OBVIOUS
  <2>4. t \in Seq(Snake!Cells) /\ Len(t) = k /\ t[i] = body[i]
    <3>1. SubSeq(body, 1, k) \in Seq(Snake!Cells) /\ Len(SubSeq(body, 1, k)) = k - 1 + 1
          /\ \A j \in 1..(k - 1 + 1) : SubSeq(body, 1, k)[j] = body[1 + j - 1]
      BY <2>1, <2>2, SubSeqProperties
    <3>2. t[i] = body[1 + i - 1]
      BY <2>2, <2>3, <3>1, Zenon
    <3> QED BY <2>2, <2>3, <3>1, <3>2
  <2>5. i \in DOMAIN t
    BY <2>4, LenProperties
  <2> QED BY <1>5, <2>3, <2>4, <2>5 DEF Snake!On
<1>9. Apart(m)
  <2>0. Len(m) = k + 1
    BY <1>7
  <2>1. ASSUME NEW i \in 1..(k + 1), NEW j \in 1..(k + 1), i < j PROVE m[i] # m[j]
    <3>1. j \in 2..(k + 1) /\ j - 1 \in 1..k /\ j - 1 \in 1..Len(body)
      BY <1>2, <2>1
    <3>2. m[j] = body[j - 1] /\ body[j - 1] \in Snake!InTheWay
      BY <1>7, <1>8, <3>1
    <3>3. CASE i = 1
      BY <1>3, <1>7, <3>2, <3>3
    <3>4. CASE i # 1
      <4>1. i \in 2..(k + 1) /\ i - 1 \in 1..Len(body) /\ i - 1 # j - 1
        BY <1>2, <2>1, <3>4
      <4>2. m[i] = body[i - 1]
        BY <1>7, <4>1
      <4>3. body[i - 1] # body[j - 1]
        BY <1>1, <3>1, <4>1 DEF Apart
      <4> QED BY <3>2, <4>2, <4>3
    <3> QED BY <3>3, <3>4
  <2>2. ASSUME NEW i \in 1..(k + 1), NEW j \in 1..(k + 1), i # j PROVE m[i] # m[j]
    <3>1. i < j \/ j < i
      BY <2>2
    <3> QED BY <2>1, <3>1
  <2> QED BY <2>0, <2>2 DEF Apart
<1>10. k + 1 \in 2..MaxLen /\ k + 1 \in StartLen..MaxLen
  <2>1. CASE Snake!Grows
    <3>1. n < MaxLen
      BY <1>2, <2>1 DEF Snake!Grows
    <3> QED BY <1>1, <1>2, <1>4, <2>1, <3>1
  <2>2. CASE ~Snake!Grows
    BY <1>1, <1>2, <1>4, <2>2
  <2> QED BY <2>1, <2>2
<1>11. m[2] = body[1]
  <2>1. 2 \in 2..(k + 1) /\ 2 - 1 = 1
    OBVIOUS
  <2> QED BY <1>7, <2>1
<1>12. ASSUME NEW c \in Snake!On(m) PROVE c = Snake!Ahead \/ c \in Snake!On(body)
  <2>1. PICK i \in 1..(k + 1) : c = m[i]
    <3>1. DOMAIN m = 1..(k + 1)
      BY <1>7, LenProperties
    <3> QED BY <3>1 DEF Snake!On
  <2>2. CASE i = 1
    BY <1>7, <2>1, <2>2
  <2>3. CASE i # 1
    <3>1. i \in 2..(k + 1) /\ i - 1 \in 1..Len(body)
      BY <1>2, <2>3
    <3>2. c = body[i - 1] /\ i - 1 \in DOMAIN body
      BY <1>1, <1>7, <2>1, <3>1, LenProperties
    <3> QED BY <3>2 DEF Snake!On
  <2> QED BY <2>2, <2>3
<1> QED BY <1>6, <1>7, <1>9, <1>10, <1>11, <1>12

LEMMA SnakeNext ==
  ASSUME Snake!Parameters, SnakeInv, [Snake!Next]_(Snake!vars)
  PROVE  SnakeInv'
<1>0. /\ BodyInv /\ TurnsInv
      /\ food \in Snake!Cells /\ wrap \in BOOLEAN /\ snakeState \in {"playing", "over"}
      /\ snakeState = "playing" => body[1] = Onward(wrap, body[2], dir) /\ food \in Snake!Free(body)
  BY DEF SnakeInv
<1>1. ASSUME NEW d \in Snake!Directions, Snake!Turn(d) PROVE SnakeInv'
  <2>1. body' = body /\ dir' = dir /\ food' = food /\ wrap' = wrap /\ snakeState' = snakeState
    BY <1>1 DEF Snake!Turn
  <2>2. TurnsInv'
    BY <1>1, SnakeTurns
  <2> QED BY <1>0, <2>1, <2>2 DEF SnakeInv, BodyInv, Apart, Onward, Round, Snake!Cells, Snake!Free,
             Snake!On
<1>2. CASE Snake!Update
  <2>1. /\ snakeState = "playing" /\ wrap' = wrap /\ dir' = Snake!Heading
        /\ turns' = IF turns = <<>> THEN turns ELSE Tail(turns)
        /\ IF Snake!Dies THEN snakeState' = "over" /\ body' = body /\ food' = food
           ELSE /\ body' = Snake!Moved /\ snakeState' = snakeState
                /\ food' \in IF Snake!Eats /\ Snake!Free(Snake!Moved) # {}
                             THEN Snake!Free(Snake!Moved) ELSE {food}
    BY <1>2 DEF Snake!Update
  <2>2. TurnsInv'
    BY <1>0, <2>1, TurnsMoveUp
  <2>3. CASE Snake!Dies
    <3>1. snakeState' = "over" /\ body' = body /\ food' = food
      BY <2>1, <2>3
    <3> QED BY <1>0, <2>1, <2>2, <3>1 DEF SnakeInv, BodyInv, Apart, Snake!Cells
  <2>4. CASE ~Snake!Dies
    <3>1. /\ body' = Snake!Moved /\ snakeState' = snakeState
          /\ food' \in IF Snake!Eats /\ Snake!Free(Snake!Moved) # {}
                       THEN Snake!Free(Snake!Moved) ELSE {food}
      BY <2>1, <2>4
    <3>2. /\ Snake!Moved \in Seq(Snake!Cells) /\ Apart(Snake!Moved)
          /\ Len(Snake!Moved) \in 2..MaxLen /\ Len(Snake!Moved) \in StartLen..MaxLen
          /\ Snake!Moved[1] = Snake!Ahead /\ Snake!Moved[2] = body[1]
          /\ \A c \in Snake!On(Snake!Moved) : c = Snake!Ahead \/ c \in Snake!On(body)
      BY <2>1, <2>4, SnakeMoves
    <3>3. body'[1] = Onward(wrap', body'[2], dir')
      <4>1. Snake!Ahead = Onward(wrap, body[1], Snake!Heading)
        BY <2>1, AheadIs
      <4> QED BY <2>1, <3>1, <3>2, <4>1 DEF Onward, Round
    <3>4. food' \in Snake!Free(Snake!Moved)
      <4>1. CASE Snake!Eats
        <5>1. Len(Snake!Moved) \in 0..MaxLen
          BY <3>2
        <5>2. Snake!Free(Snake!Moved) # {}
          BY <3>2, <5>1, SomeCellIsFree
        <5> QED BY <3>1, <4>1, <5>2
      <4>2. CASE ~Snake!Eats
        <5>1. food' = food /\ food # Snake!Ahead
          BY <3>1, <4>2 DEF Snake!Eats
        <5>2. food \in Snake!Cells /\ food \notin Snake!On(body)
          BY <1>0, <2>1 DEF Snake!Free
        <5> QED BY <3>2, <5>1, <5>2 DEF Snake!Free
      <4> QED BY <4>1, <4>2
    <3>5. food' \in Snake!Cells /\ (food \in Snake!Free(body))'
      BY <3>1, <3>4 DEF Snake!Free, Snake!On, Snake!Cells
    <3>6. BodyInv'
      BY <3>1, <3>2 DEF BodyInv, Apart, Snake!Cells
    <3> QED BY <1>0, <2>1, <2>2, <3>1, <3>3, <3>5, <3>6 DEF SnakeInv, Snake!Cells, Onward, Round
  <2> QED BY <2>3, <2>4
<1>3. CASE Snake!Restart
  <2>1. /\ body' = Snake!Fresh /\ dir' = <<1, 0>> /\ turns' = <<>>
        /\ food' \in Snake!Free(Snake!Fresh) /\ wrap' \in BOOLEAN /\ snakeState' = "playing"
    BY <1>3 DEF Snake!Restart
  <2>2. BodyInv'
    BY <2>1, FreshIs DEF BodyInv, Apart, Snake!Cells
  <2>3. TurnsInv'
    <3>1. <<1, 0>> \in Snake!Directions
      BY DEF Snake!Directions
    <3>2. <<>> \in Seq(Snake!Directions) /\ Len(<<>>) = 0 /\ 1..Len(<<>>) = {}
      BY EmptySeq
    <3>3. 0 \in 0..TurnQueue
      BY DEF Snake!Parameters
    <3> QED BY <2>1, <3>1, <3>2, <3>3 DEF TurnsInv, Snake!Directions
  <2>4. body'[1] = Onward(wrap', body'[2], dir')
    <3>1. Snake!Fresh[1] = Onward(wrap', Snake!Fresh[2], <<1, 0>>)
      BY <2>1, FreshIs
    <3> QED BY <2>1, <3>1
  <2>5. food' \in Snake!Cells /\ (food \in Snake!Free(body))'
    BY <2>1 DEF Snake!Free, Snake!On, Snake!Cells
  <2> QED BY <2>1, <2>2, <2>3, <2>4, <2>5 DEF SnakeInv, Snake!Cells
<1>4. CASE UNCHANGED Snake!vars
  <2>1. /\ body' = body /\ dir' = dir /\ turns' = turns /\ food' = food /\ wrap' = wrap
        /\ snakeState' = snakeState
    BY <1>4 DEF Snake!vars
  <2> QED BY <1>0, <2>1 DEF SnakeInv, BodyInv, TurnsInv, Apart, Onward, Round, Going, Snake!Cells,
             Snake!Free, Snake!On, Snake!Directions, Snake!Back
<1> QED BY <1>1, <1>2, <1>3, <1>4 DEF Snake!Next

LEMMA SnakeBegins ==
  ASSUME Snake!Parameters, Snake!Init
  PROVE  SnakeInv
<1>1. /\ body = Snake!Fresh /\ dir = <<1, 0>> /\ turns = <<>>
      /\ food \in Snake!Free(Snake!Fresh) /\ wrap \in BOOLEAN /\ snakeState = "playing"
  BY DEF Snake!Init
<1>2. BodyInv /\ body[1] = Onward(wrap, body[2], dir)
  BY <1>1, FreshIs DEF BodyInv
<1>3. TurnsInv
  <2>1. <<1, 0>> \in Snake!Directions
    BY DEF Snake!Directions
  <2>2. <<>> \in Seq(Snake!Directions) /\ Len(<<>>) = 0 /\ 1..Len(<<>>) = {}
    BY EmptySeq
  <2>3. 0 \in 0..TurnQueue
    BY DEF Snake!Parameters
  <2> QED BY <1>1, <2>1, <2>2, <2>3 DEF TurnsInv
<1> QED BY <1>1, <1>2, <1>3 DEF SnakeInv, Snake!Free
-----------------------------------------------------------------------------
(* The tile puzzle.                                                        *)

MatchInv == Match!TypeOK /\ Match!NeverADeadBoard

\* What falls and what is drawn make a board again.
LEMMA MatchCollapses ==
  ASSUME tile \in Match!Boards, NEW gone, NEW board \in Match!Collapsed(tile, gone)
  PROVE  board \in Match!Boards
<1> DEFINE from == [q \in Match!Cells \ Match!Empty(gone) |->
                      CHOOSE p \in Match!Cells \ gone : Match!Fallen(p, gone) = q]
<1>1. PICK new \in [Match!Empty(gone) -> Colours] :
        board = [q \in Match!Cells |-> IF q \in Match!Empty(gone) THEN new[q] ELSE tile[from[q]]]
  BY DEF Match!Collapsed
<1>2. ASSUME NEW q \in Match!Cells, q \notin Match!Empty(gone)
      PROVE  from[q] \in Match!Cells
  <2>1. \E p \in Match!Cells \ gone : Match!Fallen(p, gone) = q
    BY <1>2 DEF Match!Empty
  <2>2. from[q] = CHOOSE p \in Match!Cells \ gone : Match!Fallen(p, gone) = q
    BY <1>2
  <2> QED BY <2>1, <2>2
<1> HIDE DEF from
<1>3. ASSUME NEW q \in Match!Cells
      PROVE  (IF q \in Match!Empty(gone) THEN new[q] ELSE tile[from[q]]) \in Colours
  BY <1>2 DEF Match!Boards
<1> QED BY <1>1, <1>3 DEF Match!Boards

LEMMA MatchNext ==
  ASSUME MatchInv, [Match!Next]_(Match!vars)
  PROVE  MatchInv'
<1>0. /\ tile \in Match!Boards /\ selected \in Match!Cells \union {Match!NoCell}
      /\ resolving \in BOOLEAN /\ matchState \in {"playing", "over"}
      /\ matchState = "playing" => IF resolving THEN Match!HasMatch(tile) /\ selected = Match!NoCell
                                   ELSE (~Match!HasMatch(tile) /\ Match!HasMove(tile)) \/ gaveUp
      /\ gaveUp \in BOOLEAN
  BY DEF MatchInv, Match!TypeOK, Match!NeverADeadBoard
<1> SUFFICES /\ tile' \in Match!Boards /\ selected' \in Match!Cells \union {Match!NoCell}
             /\ resolving' \in BOOLEAN /\ matchState' \in {"playing", "over"}
             /\ matchState' = "playing" =>
                  IF resolving' THEN Match!HasMatch(tile') /\ selected' = Match!NoCell
                  ELSE (~Match!HasMatch(tile') /\ Match!HasMove(tile')) \/ gaveUp'
             /\ gaveUp' \in BOOLEAN
  BY DEF MatchInv, Match!TypeOK, Match!NeverADeadBoard, Match!HasMatch, Match!HasMove, Match!Marked,
         Match!Swapped
<1>d. ASSUME Match!Deals
      PROVE  /\ tile' \in Match!Boards /\ gaveUp' \in BOOLEAN
             /\ (~Match!HasMatch(tile') /\ Match!HasMove(tile')) \/ gaveUp'
  <2>1. tile' \in Match!Boards /\ gaveUp' = (tile' \notin Match!Playable)
    BY <1>d DEF Match!Deals
  <2> QED BY <2>1 DEF Match!Playable
<1>1. CASE Match!Pass
  <2>1. PICK board \in Match!Collapsed(tile, Match!Marked(tile)) :
          /\ IF Match!HasMatch(board) \/ Match!HasMove(board)
             THEN tile' = board /\ gaveUp' = FALSE ELSE Match!Deals
          /\ resolving' = Match!HasMatch(board)
    BY <1>1 DEF Match!Pass
  <2>2. board \in Match!Boards
    BY <1>0, MatchCollapses
  <2>3. /\ matchState = "playing" /\ resolving /\ selected' = selected /\ matchState' = matchState
        /\ resolving' \in BOOLEAN
    BY <1>1, <2>1 DEF Match!Pass, Match!HasMatch
  <2>4. CASE Match!HasMatch(board) \/ Match!HasMove(board)
    <3>1. tile' = board /\ gaveUp' = FALSE
      BY <2>1, <2>4
    <3> QED BY <1>0, <2>1, <2>2, <2>3, <2>4, <3>1
  <2>5. CASE ~(Match!HasMatch(board) \/ Match!HasMove(board))
    <3>1. Match!Deals
      BY <2>1, <2>5
    <3> QED BY <1>0, <1>d, <2>1, <2>3, <2>5, <3>1
  <2> QED BY <2>4, <2>5
<1>2. ASSUME NEW p \in Match!Cells, Match!Tap(p)
      PROVE  /\ tile' \in Match!Boards /\ selected' \in Match!Cells \union {Match!NoCell}
             /\ resolving' \in BOOLEAN /\ matchState' \in {"playing", "over"}
             /\ matchState' = "playing" =>
                  IF resolving' THEN Match!HasMatch(tile') /\ selected' = Match!NoCell
                  ELSE (~Match!HasMatch(tile') /\ Match!HasMove(tile')) \/ gaveUp'
             /\ gaveUp' \in BOOLEAN
  <2>1. matchState = "playing" /\ ~resolving /\ matchState' = matchState
    BY <1>2 DEF Match!Tap
  <2>2. CASE /\ selected' = IF selected = p THEN Match!NoCell ELSE p
             /\ tile' = tile /\ resolving' = resolving /\ gaveUp' = gaveUp
    BY <1>0, <2>1, <2>2
  <2>3. CASE /\ selected # Match!NoCell /\ Match!HasMatch(Match!Swapped(tile, selected, p))
             /\ tile' = Match!Swapped(tile, selected, p)
             /\ selected' = Match!NoCell /\ resolving' = TRUE /\ gaveUp' = gaveUp
    <3>1. Match!Swapped(tile, selected, p) \in Match!Boards
      <4>1. selected \in Match!Cells
        BY <1>0, <2>3
      <4> QED BY <1>0, <4>1 DEF Match!Boards, Match!Swapped
    <3> QED BY <1>0, <2>1, <2>3, <3>1
  <2> QED BY <1>2, <2>2, <2>3 DEF Match!Tap
<1>3. CASE Match!TimeUp
  BY <1>0, <1>3 DEF Match!TimeUp
<1>4. CASE Match!Restart
  BY <1>4, <1>d DEF Match!Restart
<1>5. CASE UNCHANGED Match!vars
  BY <1>0, <1>5 DEF Match!vars
<1> QED BY <1>1, <1>2, <1>3, <1>4, <1>5 DEF Match!Next

LEMMA MatchBegins ==
  ASSUME Match!Init
  PROVE  MatchInv
BY DEF Match!Init, MatchInv, Match!TypeOK, Match!NeverADeadBoard, Match!Playable
-----------------------------------------------------------------------------
(* The runner.                                                             *)

RunnerInv == Runner!TypeOK /\ Runner!OneJumpALanding

LEMMA RunnerNext ==
  ASSUME Runner!Parameters, RunnerInv, [Runner!Next]_(Runner!vars)
  PROVE  RunnerInv'
<1> DEFINE Good(p, j) ==
      /\ j.count <= IF j.sprung THEN 2 ELSE 1
      /\ p.ground => j.count = 0
      /\ (~p.ground /\ p.coyote > 0) => j.sprung /\ j.count = 1
<1> DEFINE Players == [ground : BOOLEAN, coyote : 0..Coyote, buffered : 0..Buffer]
           Jumps == [count : 0..2, sprung : BOOLEAN]
<1>0. /\ player \in Players /\ runnerState \in {"playing", "over"} /\ jumps \in Jumps
      /\ Good(player, jumps)
  BY DEF RunnerInv, Runner!TypeOK, Runner!OneJumpALanding
<1> SUFFICES /\ player' \in Players /\ runnerState' \in {"playing", "over"} /\ jumps' \in Jumps
             /\ Good(player', jumps')
  BY DEF RunnerInv, Runner!TypeOK, Runner!OneJumpALanding
<1>p. Coyote \in Nat /\ Buffer \in Nat
  BY DEF Runner!Parameters
<1>1. PICK g \in BOOLEAN, k \in 0..Coyote, b \in 0..Buffer :
        player = [ground |-> g, coyote |-> k, buffered |-> b]
  BY <1>0
<1>2. PICK n \in 0..2, s \in BOOLEAN : jumps = [count |-> n, sprung |-> s]
  BY <1>0
<1>3. /\ n <= IF s THEN 2 ELSE 1
      /\ g => n = 0
      /\ (~g /\ k > 0) => s /\ n = 1
  BY <1>0, <1>1, <1>2
<1>4. CASE Runner!Jump
  <2>1. CASE g \/ k > 0
    <3>1. /\ player' = [ground |-> FALSE, coyote |-> 0, buffered |-> 0]
          /\ jumps' = [jumps EXCEPT !.count = jumps.count + 1] /\ runnerState' = runnerState
      BY <1>1, <1>4, <2>1 DEF Runner!Jump
    <3>2. n + 1 \in 0..2 /\ n + 1 <= IF s THEN 2 ELSE 1
      BY <1>3, <2>1
    <3>3. jumps' = [count |-> n + 1, sprung |-> s]
      BY <1>2, <3>1
    <3> QED BY <1>0, <1>p, <3>1, <3>2, <3>3
  <2>2. CASE ~(g \/ k > 0)
    <3>1. player' = [ground |-> g, coyote |-> k, buffered |-> Buffer] /\ jumps' = jumps
          /\ runnerState' = runnerState
      BY <1>1, <1>4, <2>2 DEF Runner!Jump
    <3> QED BY <1>0, <1>2, <1>3, <1>p, <3>1
  <2> QED BY <2>1, <2>2
<1>5. CASE Runner!Update
  <2>1. PICK lands \in BOOLEAN : Runner!Step(lands)
    BY <1>5 DEF Runner!Update
  <2>2. PICK standing \in BOOLEAN : standing = (g \/ lands)
    OBVIOUS
  <2>3. PICK springs \in BOOLEAN : springs = (b > 0 /\ standing)
    OBVIOUS
  <2>4. PICK less \in 0..Coyote : less = Runner!Less(k) /\ (less > 0 => k > 0)
    <3>1. Runner!Less(k) \in 0..Coyote /\ (Runner!Less(k) > 0 => k > 0)
      BY <1>p DEF Runner!Less
    <3> QED BY <3>1
  <2>5. PICK sooner \in 0..Buffer : sooner = Runner!Less(b)
    <3>1. Runner!Less(b) \in 0..Buffer
      BY <1>p DEF Runner!Less
    <3> QED BY <3>1
  <2>6. /\ player' = [ground |-> standing /\ ~springs,
                      coyote |-> IF standing THEN Coyote ELSE less,
                      buffered |-> IF springs THEN 0 ELSE sooner]
        /\ jumps' = IF springs THEN [count |-> 1, sprung |-> TRUE]
                    ELSE IF standing THEN [count |-> 0, sprung |-> FALSE] ELSE jumps
    BY <1>1, <2>1, <2>2, <2>3, <2>4, <2>5 DEF Runner!Step, Runner!Standing
  <2>7. runnerState' \in {"playing", "over"}
    BY <1>5 DEF Runner!Update
  <2>8. CASE springs
    <3>1. /\ player' = [ground |-> FALSE, coyote |-> Coyote, buffered |-> 0]
          /\ jumps' = [count |-> 1, sprung |-> TRUE]
      BY <2>3, <2>6, <2>8
    <3> QED BY <1>p, <2>7, <3>1
  <2>9. CASE ~springs /\ standing
    <3>1. /\ player' = [ground |-> TRUE, coyote |-> Coyote, buffered |-> sooner]
          /\ jumps' = [count |-> 0, sprung |-> FALSE]
      BY <2>6, <2>9
    <3> QED BY <1>p, <2>7, <3>1
  <2>10. CASE ~springs /\ ~standing
    <3>1. /\ player' = [ground |-> FALSE, coyote |-> less, buffered |-> sooner]
          /\ jumps' = [count |-> n, sprung |-> s]
      BY <1>2, <2>6, <2>10
    <3> QED BY <1>3, <1>p, <2>2, <2>4, <2>7, <2>10, <3>1
  <2> QED BY <2>8, <2>9, <2>10
<1>6. CASE Runner!Restart
  <2>1. /\ player' = [ground |-> TRUE, coyote |-> 0, buffered |-> 0] /\ runnerState' = "playing"
        /\ jumps' = [count |-> 0, sprung |-> FALSE]
    BY <1>6 DEF Runner!Restart, Runner!Fresh, Runner!Standing
  <2> QED BY <1>p, <2>1
<1>7. CASE UNCHANGED Runner!vars
  BY <1>0, <1>7 DEF Runner!vars
<1> QED BY <1>4, <1>5, <1>6, <1>7 DEF Runner!Next

LEMMA RunnerBegins ==
  ASSUME Runner!Parameters, Runner!Init
  PROVE  RunnerInv
<1>1. /\ player = [ground |-> TRUE, coyote |-> 0, buffered |-> 0] /\ runnerState = "playing"
      /\ jumps = [count |-> 0, sprung |-> FALSE]
  BY DEF Runner!Init, Runner!Fresh, Runner!Standing
<1>2. 0 \in 0..Coyote /\ 0 \in 0..Buffer
  BY DEF Runner!Parameters
<1> QED BY <1>1, <1>2 DEF RunnerInv, Runner!TypeOK, Runner!OneJumpALanding
-----------------------------------------------------------------------------
(* The brick game.                                                         *)

LEMMA BricksCount == \A S : Breakout!Cardinality(S) = Cardinality(S)
<1>1. ASSUME NEW S PROVE Breakout!Cardinality(S) = Cardinality(S)
  BY DEF Breakout!Cardinality, Cardinality
<1> QED BY <1>1

LEMMA BricksFinite == Breakout!IsFiniteSet(Bricks) => IsFiniteSet(Bricks)
BY DEF Breakout!IsFiniteSet, IsFiniteSet

\* The bricks of a wall that stand.
Standing(hp) == {b \in Bricks : hp[b] > 0}

WallShape == [lives : 0..MostLives, level : 1..(MaxLevel + 1), left : Nat \ {0},
              stuck : BOOLEAN, slow : BOOLEAN, wide : BOOLEAN, paddle : {"normal", "wide"}]
WallInv ==
  /\ wall \in WallShape
  /\ (wallState = "playing") = (wall.lives > 0)
  /\ (wall.paddle = "wide") = wall.wide
  /\ wallState \in {"playing", "over"}
BricksInv ==
  /\ brick \in [Bricks -> 0..2]
  /\ wall.left = Cardinality(Standing(brick))
DropsInv == drops \in [1..MaxDrops -> Breakout!Kinds \union {"none"}]

BreakoutInv == WallInv /\ BricksInv /\ DropsInv

LEMMA BricksAreFinite ==
  ASSUME Breakout!Parameters
  PROVE  /\ IsFiniteSet(Bricks) /\ Cardinality(Bricks) \in Nat \ {0}
         /\ \A hp : /\ IsFiniteSet(Standing(hp))
                    /\ Cardinality(Standing(hp)) \in 0..Cardinality(Bricks)
<1>1. IsFiniteSet(Bricks) /\ Bricks # {}
  BY BricksFinite DEF Breakout!Parameters
<1>2. Cardinality(Bricks) \in Nat /\ Cardinality(Bricks) # 0
  BY <1>1, FS_CardinalityType, FS_EmptySet
<1>3. ASSUME NEW hp
      PROVE  IsFiniteSet(Standing(hp)) /\ Cardinality(Standing(hp)) \in 0..Cardinality(Bricks)
  <2>1. Standing(hp) \in SUBSET Bricks
    BY DEF Standing
  <2>2. IsFiniteSet(Standing(hp)) /\ Cardinality(Standing(hp)) <= Cardinality(Bricks)
    BY <1>1, <2>1, FS_Subset
  <2>3. Cardinality(Standing(hp)) \in Nat
    BY <2>2, FS_CardinalityType
  <2> QED BY <1>2, <2>2, <2>3
<1> QED BY <1>1, <1>2, <1>3

\* What the invariant says is what the properties do.
LEMMA BreakoutShows ==
  ASSUME Breakout!Parameters, BreakoutInv
  PROVE  Breakout!TypeOK /\ Breakout!BreakoutIsFair
<1>1. wall.left \in Nat \ {0} /\ wall.left = Cardinality(Standing(brick))
  BY DEF BreakoutInv, WallInv, WallShape, BricksInv
<1>2. wall.left \in 0..Cardinality(Bricks)
  BY <1>1, BricksAreFinite
<1>3. wall.left \in 0..Breakout!Cardinality(Bricks)
  BY <1>2, BricksCount, Zenon
<1>4. wall \in [lives : 0..MostLives, level : 1..(MaxLevel + 1),
                left : 0..Breakout!Cardinality(Bricks),
                stuck : BOOLEAN, slow : BOOLEAN, wide : BOOLEAN, paddle : {"normal", "wide"}]
  BY <1>3 DEF BreakoutInv, WallInv, WallShape
<1>5. Breakout!TypeOK
  BY <1>4 DEF BreakoutInv, WallInv, BricksInv, DropsInv, Breakout!TypeOK
<1>6. Breakout!BricksAreCounted
  <2>1. wall.left = Breakout!Cardinality({b \in Bricks : brick[b] > 0})
    BY <1>1, BricksCount, Zenon DEF Standing
  <2>2. wall.left > 0
    BY <1>1
  <2> QED BY <2>1, <2>2 DEF Breakout!BricksAreCounted
<1>7. Breakout!RunEndsWithLives
  BY DEF BreakoutInv, WallInv, Breakout!RunEndsWithLives
<1> QED BY <1>5, <1>6, <1>7 DEF Breakout!BreakoutIsFair

\* A wall that is new stands as a whole.
LEMMA WallIsWhole ==
  ASSUME Breakout!Parameters, NEW n, NEW hp \in Breakout!Walls(n)
  PROVE  hp \in [Bricks -> 0..2] /\ Cardinality(Standing(hp)) = Breakout!Cardinality(Bricks)
<1>1. hp \in [Bricks -> 1..2]
  BY DEF Breakout!Walls
<1>2. Standing(hp) = Bricks
  BY <1>1 DEF Standing
<1>3. hp \in [Bricks -> 0..2]
  BY <1>1
<1> QED BY <1>2, <1>3, BricksCount, Zenon

\* What is parked has a whole wall before it.
LEMMA ParkedIs ==
  ASSUME Breakout!Parameters, NEW n \in 0..MostLives, NEW k \in 1..(MaxLevel + 1)
  PROVE  /\ Breakout!Parked(n, k) \in WallShape
         /\ Breakout!Parked(n, k).lives = n
         /\ Breakout!Parked(n, k).left = Breakout!Cardinality(Bricks)
         /\ Breakout!Parked(n, k).paddle = "normal" /\ Breakout!Parked(n, k).wide = FALSE
         /\ (Breakout!Parked(n, k).paddle = "wide") = Breakout!Parked(n, k).wide
<1>1. Breakout!Cardinality(Bricks) \in Nat \ {0}
  <2>1. Cardinality(Bricks) \in Nat \ {0}
    BY BricksAreFinite
  <2> QED BY <2>1, BricksCount, Zenon
<1> QED BY <1>1 DEF Breakout!Parked, WallShape

\* After a hit or two, those stand that stood and are not gone.
LEMMA BricksBreak ==
  ASSUME Breakout!Parameters, BricksInv, NEW hits
  PROVE  /\ Breakout!Broken(hits) \in [Bricks -> 0..2]
         /\ wall.left - Breakout!Cardinality(Breakout!Gone(Breakout!Broken(hits)))
              = Cardinality(Standing(Breakout!Broken(hits)))
<1> DEFINE now == Breakout!Broken(hits)
           hit(b) == {i \in {1, 2} : hits[i] = b}
<1>1. ASSUME NEW b \in Bricks PROVE Breakout!Cardinality(hit(b)) \in Nat
  <2>1. {1, 2} = 1..2 /\ 1 \in Int /\ 2 \in Int
    OBVIOUS
  <2>2. IsFiniteSet({1, 2})
    BY <2>1, FS_Interval, Zenon
  <2>3. hit(b) \in SUBSET {1, 2}
    OBVIOUS
  <2>4. Cardinality(hit(b)) \in Nat
    BY <2>2, <2>3, FS_Subset, FS_CardinalityType
  <2> QED BY <2>4, BricksCount, Zenon
<1>2. now = [b \in Bricks |->
               LET n == Breakout!Cardinality(hit(b)) IN IF n < brick[b] THEN brick[b] - n ELSE 0]
  BY DEF Breakout!Broken
<1> HIDE DEF now, hit
<1>3. ASSUME NEW b \in Bricks
      PROVE  now[b] \in 0..2 /\ (now[b] > 0 => brick[b] > 0)
  <2>1. PICK n \in Nat : n = Breakout!Cardinality(hit(b))
    BY <1>1
  <2>2. now[b] = IF n < brick[b] THEN brick[b] - n ELSE 0
    BY <1>2, <2>1
  <2>3. brick[b] \in 0..2
    BY DEF BricksInv
  <2> QED BY <2>2, <2>3
<1>4. now \in [Bricks -> 0..2]
  BY <1>2, <1>3
<1>5. Standing(now) = Standing(brick) \ Breakout!Gone(now)
  <2>1. ASSUME NEW b \in Bricks
        PROVE  now[b] > 0 <=> brick[b] > 0 /\ ~(brick[b] > 0 /\ now[b] = 0)
    BY <1>3
  <2> QED BY <2>1 DEF Standing, Breakout!Gone
<1>6. Breakout!Gone(now) \in SUBSET Standing(brick)
  BY DEF Standing, Breakout!Gone
<1>7. /\ IsFiniteSet(Standing(brick)) /\ IsFiniteSet(Breakout!Gone(now))
      /\ Cardinality(Standing(brick)) \in Nat /\ Cardinality(Breakout!Gone(now)) \in Nat
  <2>1. IsFiniteSet(Standing(brick))
    BY BricksAreFinite
  <2>2. IsFiniteSet(Breakout!Gone(now))
    BY <1>6, <2>1, FS_Subset
  <2> QED BY <2>1, <2>2, FS_CardinalityType
<1>8. Cardinality(Standing(brick) \ Breakout!Gone(now))
        = Cardinality(Standing(brick)) - Cardinality(Breakout!Gone(now))
  <2>1. Standing(brick) \cap Breakout!Gone(now) = Breakout!Gone(now)
    BY <1>6
  <2> QED BY <1>7, <2>1, FS_Difference
<1>9. wall.left = Cardinality(Standing(brick))
  BY DEF BricksInv
<1>10. wall.left - Breakout!Cardinality(Breakout!Gone(now)) = Cardinality(Standing(now))
  BY <1>5, <1>8, <1>9, BricksCount, Zenon
<1> QED BY <1>4, <1>10 DEF now

LEMMA BreakoutNext ==
  ASSUME Breakout!Parameters, BreakoutInv, [Breakout!Next]_(Breakout!vars)
  PROVE  BreakoutInv'
<1>p. /\ MostLives \in Nat /\ MaxDrops \in Nat /\ MaxLevel \in Nat /\ Lives \in 1..MostLives
  BY DEF Breakout!Parameters
<1>0. WallInv /\ BricksInv /\ DropsInv
  BY DEF BreakoutInv
<1>n. Breakout!NoDrops \in [1..MaxDrops -> Breakout!Kinds \union {"none"}]
  BY DEF Breakout!NoDrops
<1>w. PICK lives \in 0..MostLives, level \in 1..(MaxLevel + 1), left \in Nat \ {0},
           stuck \in BOOLEAN, slow \in BOOLEAN, wide \in BOOLEAN, paddle \in {"normal", "wide"} :
        /\ wall = [lives |-> lives, level |-> level, left |-> left, stuck |-> stuck,
                   slow |-> slow, wide |-> wide, paddle |-> paddle]
        /\ (wallState = "playing") = (lives > 0)
        /\ (paddle = "wide") = wide
  BY <1>0 DEF WallInv, WallShape
\* What of the wall's invariant there is to show.
<1>i. ASSUME NEW n \in 0..MostLives, NEW k \in 1..(MaxLevel + 1), NEW m \in Nat \ {0},
             NEW s1 \in BOOLEAN, NEW s2 \in BOOLEAN, NEW s3 \in BOOLEAN,
             NEW p \in {"normal", "wide"},
             wall' = [lives |-> n, level |-> k, left |-> m, stuck |-> s1, slow |-> s2,
                      wide |-> s3, paddle |-> p],
             wallState' \in {"playing", "over"}, (wallState' = "playing") = (n > 0),
             (p = "wide") = s3
      PROVE  WallInv' /\ wall'.left = m
  BY <1>i DEF WallInv, WallShape
<1>l. left = Cardinality(Standing(brick))
  BY <1>0, <1>w DEF BricksInv
<1>b. ASSUME brick' = brick, wall'.left = left
      PROVE  BricksInv'
  BY <1>0, <1>b, <1>l DEF BricksInv, Standing
<1>1. CASE Breakout!Restart
  <2>1. /\ wall' = Breakout!Parked(Lives, 1) /\ brick' \in Breakout!Walls(1)
        /\ drops' = Breakout!NoDrops /\ wallState' = "playing"
    BY <1>1 DEF Breakout!Restart
  <2>2. Lives \in 0..MostLives /\ Lives > 0 /\ 1 \in 1..(MaxLevel + 1)
    BY <1>p
  <2>3. WallInv' /\ wall'.left = Breakout!Cardinality(Bricks)
    <3>1. /\ wall' \in WallShape /\ wall'.lives = Lives
          /\ wall'.left = Breakout!Cardinality(Bricks)
          /\ (wall'.paddle = "wide") = wall'.wide
      BY <2>1, <2>2, ParkedIs
    <3>2. wallState' = "playing" /\ (wallState' = "playing") = (wall'.lives > 0)
      BY <2>1, <2>2, <3>1
    <3> QED BY <3>1, <3>2 DEF WallInv, WallShape
  <2>4. BricksInv'
    BY <2>1, <2>3, WallIsWhole DEF BricksInv, Standing
  <2> QED BY <1>n, <2>1, <2>3, <2>4 DEF BreakoutInv, DropsInv, Breakout!Kinds
<1>2. CASE Breakout!Launch
  <2>1. /\ wall' = [lives |-> lives, level |-> level, left |-> left, stuck |-> FALSE,
                    slow |-> slow, wide |-> wide, paddle |-> paddle]
        /\ brick' = brick /\ drops' = drops /\ wallState' = wallState
    BY <1>2, <1>w DEF Breakout!Launch
  <2>2. WallInv' /\ wall'.left = left
    BY <1>0, <1>i, <1>w, <2>1 DEF WallInv
  <2> QED BY <1>0, <1>b, <2>1, <2>2 DEF BreakoutInv, DropsInv, Breakout!Kinds
<1>3. ASSUME NEW which \in {"slow", "wide"}, Breakout!TimeOut(which)
      PROVE  BreakoutInv'
  <2>1. /\ wall' = [wall EXCEPT ![which] = FALSE,
                                !.paddle = IF which = "wide" THEN "normal" ELSE @]
        /\ brick' = brick /\ drops' = drops /\ wallState' = wallState
    BY <1>3 DEF Breakout!TimeOut
  <2>2. WallInv' /\ wall'.left = left
    <3>0. /\ wallState' \in {"playing", "over"} /\ (wallState' = "playing") = (lives > 0)
          /\ FALSE \in BOOLEAN /\ "normal" \in {"normal", "wide"} /\ ("normal" = "wide") = FALSE
      BY <1>0, <1>w, <2>1 DEF WallInv
    <3>1. CASE which = "slow"
      <4>1. wall' = [lives |-> lives, level |-> level, left |-> left, stuck |-> stuck,
                     slow |-> FALSE, wide |-> wide, paddle |-> paddle]
        BY <1>w, <2>1, <3>1
      <4> QED BY <1>i, <1>w, <3>0, <4>1
    <3>2. CASE which = "wide"
      <4>1. wall' = [lives |-> lives, level |-> level, left |-> left, stuck |-> stuck,
                     slow |-> slow, wide |-> FALSE, paddle |-> "normal"]
        BY <1>w, <2>1, <3>2
      <4> QED BY <1>i, <1>w, <3>0, <4>1
    <3> QED BY <3>1, <3>2
  <2> QED BY <1>0, <1>b, <2>1, <2>2 DEF BreakoutInv, DropsInv, Breakout!Kinds
<1>4. ASSUME NEW i \in 1..MaxDrops, Breakout!Falls(i)
      PROVE  BreakoutInv'
  <2>1. /\ drops[i] # "none" /\ wallState = "playing"
        /\ drops' = [drops EXCEPT ![i] = "none"]
        /\ wall' \in {wall, Breakout!Caught(drops[i])}
        /\ brick' = brick /\ wallState' = wallState
    BY <1>4 DEF Breakout!Falls
  <2>2. drops[i] \in {"wide", "slow", "life"}
    BY <1>0, <2>1 DEF DropsInv, Breakout!Kinds
  <2>3. DropsInv'
    BY <1>0, <2>1 DEF DropsInv, Breakout!Kinds
  <2>4. WallInv' /\ wall'.left = left
    <3>0. lives > 0
      BY <1>w, <2>1
    <3>1. CASE wall' = wall
      BY <1>0, <1>i, <1>w, <2>1, <3>1 DEF WallInv
    <3>2. CASE wall' = Breakout!Caught(drops[i]) /\ drops[i] = "wide"
      <4>1. wall' = [lives |-> lives, level |-> level, left |-> left, stuck |-> stuck,
                     slow |-> slow, wide |-> TRUE, paddle |-> "wide"]
        BY <1>w, <3>2 DEF Breakout!Caught
      <4> QED BY <1>0, <1>i, <1>w, <2>1, <4>1 DEF WallInv
    <3>3. CASE wall' = Breakout!Caught(drops[i]) /\ drops[i] = "slow"
      <4>1. wall' = [lives |-> lives, level |-> level, left |-> left, stuck |-> stuck,
                     slow |-> TRUE, wide |-> wide, paddle |-> paddle]
        BY <1>w, <3>3 DEF Breakout!Caught
      <4> QED BY <1>0, <1>i, <1>w, <2>1, <4>1 DEF WallInv
    <3>4. CASE wall' = Breakout!Caught(drops[i]) /\ drops[i] = "life"
      <4>1. PICK n \in 1..MostLives : n = IF lives < MostLives THEN lives + 1 ELSE lives
        BY <1>p, <3>0
      <4>2. wall' = [lives |-> n, level |-> level, left |-> left, stuck |-> stuck,
                     slow |-> slow, wide |-> wide, paddle |-> paddle]
        BY <1>w, <3>4, <4>1 DEF Breakout!Caught
      <4>3. n \in 0..MostLives /\ n > 0
        BY <4>1
      <4> QED BY <1>0, <1>i, <1>w, <2>1, <3>0, <4>2, <4>3 DEF WallInv
    <3> QED BY <2>1, <2>2, <3>1, <3>2, <3>3, <3>4
  <2> QED BY <1>b, <2>1, <2>3, <2>4 DEF BreakoutInv
<1>5. CASE Breakout!Fly
  <2>1. PICK hits \in (Bricks \union {0}) \X (Bricks \union {0}) : Breakout!Flies(hits)
    BY <1>5 DEF Breakout!Fly
  <2>2. wallState = "playing" /\ wallState' = wallState /\ level <= MaxLevel /\ lives > 0
    BY <1>5, <1>w DEF Breakout!Fly
  <2>3. PICK now : now = Breakout!Broken(hits)
    OBVIOUS
  <2>4. /\ now \in [Bricks -> 0..2]
        /\ left - Breakout!Cardinality(Breakout!Gone(now)) = Cardinality(Standing(now))
    <3>1. wall.left = left
      BY <1>w
    <3> QED BY <1>0, <2>3, <3>1, BricksBreak
  <2>5. PICK m \in Nat : m = Cardinality(Standing(now))
    BY BricksAreFinite
  <2>6. IF m > 0
        THEN /\ wall' = [wall EXCEPT !.left = m]
             /\ brick' = now
             /\ \E d \in Breakout!Spawned(drops) :
                  drops' \in IF Breakout!Gone(now) = {} THEN {drops}
                             ELSE IF Breakout!Cardinality(Breakout!Gone(now)) = 1 THEN {d}
                             ELSE Breakout!Spawned(d)
        ELSE /\ wall' = Breakout!Parked(wall.lives, wall.level + 1)
             /\ brick' \in Breakout!Walls(wall.level + 1)
             /\ drops' = Breakout!NoDrops
    <3>1. m = wall.left - Breakout!Cardinality(Breakout!Gone(Breakout!Broken(hits)))
      BY <1>w, <2>3, <2>4, <2>5
    <3> QED BY <2>1, <2>3, <3>1, Zenon DEF Breakout!Flies
  <2>7. CASE m > 0
    <3>1. wall' = [lives |-> lives, level |-> level, left |-> m, stuck |-> stuck,
                   slow |-> slow, wide |-> wide, paddle |-> paddle]
      BY <1>w, <2>6, <2>7
    <3>2. m \in Nat \ {0}
      BY <2>7
    <3>3. WallInv' /\ wall'.left = m
      BY <1>0, <1>i, <1>w, <2>2, <3>1, <3>2 DEF WallInv
    <3>4. BricksInv'
      BY <2>4, <2>5, <2>6, <2>7, <3>3 DEF BricksInv, Standing
    <3>5. ASSUME NEW d \in [1..MaxDrops -> Breakout!Kinds \union {"none"}]
          PROVE  Breakout!Spawned(d) \subseteq [1..MaxDrops -> Breakout!Kinds \union {"none"}]
      BY DEF Breakout!Spawned
    <3>6. DropsInv'
      <4>1. PICK d \in Breakout!Spawned(drops) :
              drops' \in IF Breakout!Gone(now) = {} THEN {drops}
                         ELSE IF Breakout!Cardinality(Breakout!Gone(now)) = 1 THEN {d}
                         ELSE Breakout!Spawned(d)
        BY <2>6, <2>7
      <4>2. drops' = drops \/ drops' = d \/ drops' \in Breakout!Spawned(d)
        BY <4>1
      <4>3. d \in [1..MaxDrops -> Breakout!Kinds \union {"none"}]
        BY <1>0, <3>5 DEF DropsInv
      <4>4. drops' \in [1..MaxDrops -> Breakout!Kinds \union {"none"}]
        BY <1>0, <3>5, <4>2, <4>3 DEF DropsInv
      <4> QED BY <4>4 DEF DropsInv, Breakout!Kinds
    <3> QED BY <3>3, <3>4, <3>6 DEF BreakoutInv
  <2>8. CASE m = 0
    <3>1. /\ wall' = Breakout!Parked(lives, level + 1)
          /\ brick' \in Breakout!Walls(level + 1) /\ drops' = Breakout!NoDrops
      BY <1>w, <2>6, <2>8
    <3>2. level + 1 \in 1..(MaxLevel + 1)
      BY <1>p, <2>2
    <3>3. WallInv' /\ wall'.left = Breakout!Cardinality(Bricks)
      <4>1. /\ wall' \in WallShape /\ wall'.lives = lives
            /\ wall'.left = Breakout!Cardinality(Bricks)
            /\ (wall'.paddle = "wide") = wall'.wide
        BY <3>1, <3>2, ParkedIs
      <4>2. wallState' = "playing" /\ (wallState' = "playing") = (wall'.lives > 0)
        BY <1>5, <1>w, <2>2, <4>1 DEF Breakout!Fly
      <4> QED BY <4>1, <4>2 DEF WallInv, WallShape
    <3>4. BricksInv'
      BY <3>1, <3>3, WallIsWhole DEF BricksInv, Standing
    <3> QED BY <1>n, <3>1, <3>3, <3>4 DEF BreakoutInv, DropsInv, Breakout!Kinds
  <2> QED BY <2>7, <2>8
<1>6. CASE Breakout!Lost
  <2>1. /\ wallState = "playing"
        /\ wall' = IF lives = 1 THEN [wall EXCEPT !.lives = 0]
                   ELSE [Breakout!Parked(lives - 1, level) EXCEPT !.left = left]
        /\ wallState' = IF lives = 1 THEN "over" ELSE wallState
        /\ brick' = brick /\ drops' = drops
    BY <1>6, <1>w DEF Breakout!Lost
  <2>2. lives > 0
    BY <1>w, <2>1
  <2>3. WallInv' /\ wall'.left = left
    <3>1. CASE lives = 1
      <4>1. wall' = [lives |-> 0, level |-> level, left |-> left, stuck |-> stuck,
                     slow |-> slow, wide |-> wide, paddle |-> paddle]
        BY <1>w, <2>1, <3>1
      <4>2. 0 \in 0..MostLives /\ wallState' = "over" /\ ~(0 > 0)
        BY <1>p, <2>1, <3>1
      <4>3. wallState' \in {"playing", "over"} /\ (wallState' = "playing") = (0 > 0)
        BY <4>2
      <4> QED BY <1>i, <1>w, <4>1, <4>2, <4>3
    <3>2. CASE lives # 1
      <4>1. PICK n \in 0..MostLives : n = lives - 1 /\ n > 0
        BY <1>p, <2>2, <3>2
      <4>2. wall' = [lives |-> n, level |-> level, left |-> left, stuck |-> TRUE,
                     slow |-> FALSE, wide |-> FALSE, paddle |-> "normal"]
        BY <2>1, <3>2, <4>1 DEF Breakout!Parked
      <4>3. wallState' = "playing" /\ TRUE \in BOOLEAN /\ FALSE \in BOOLEAN
        BY <2>1, <3>2
      <4>4. ("normal" = "wide") = FALSE /\ "normal" \in {"normal", "wide"}
        OBVIOUS
      <4>5. wallState' \in {"playing", "over"} /\ (wallState' = "playing") = (n > 0)
        BY <4>1, <4>3
      <4> QED BY <1>i, <4>2, <4>3, <4>4, <4>5
    <3> QED BY <3>1, <3>2
  <2> QED BY <1>0, <1>b, <2>1, <2>3 DEF BreakoutInv, DropsInv, Breakout!Kinds
<1>7. CASE UNCHANGED Breakout!vars
  <2>1. wall' = wall /\ brick' = brick /\ drops' = drops /\ wallState' = wallState
    BY <1>7 DEF Breakout!vars
  <2>2. WallInv' /\ DropsInv'
    BY <1>0, <2>1 DEF WallInv, WallShape, DropsInv, Breakout!Kinds
  <2>3. wall'.left = left
    BY <1>w, <2>1
  <2> QED BY <1>b, <2>1, <2>2, <2>3 DEF BreakoutInv
<1> QED BY <1>1, <1>2, <1>3, <1>4, <1>5, <1>6, <1>7 DEF Breakout!Next

LEMMA BreakoutBegins ==
  ASSUME Breakout!Parameters, Breakout!Init
  PROVE  BreakoutInv
<1>1. /\ wall = Breakout!Parked(Lives, 1) /\ brick \in Breakout!Walls(1)
      /\ drops = Breakout!NoDrops /\ wallState = "playing"
  BY DEF Breakout!Init
<1>2. Lives \in 0..MostLives /\ Lives > 0 /\ 1 \in 1..(MaxLevel + 1)
  BY DEF Breakout!Parameters
<1>3. WallInv /\ wall.left = Breakout!Cardinality(Bricks)
  BY <1>1, <1>2, ParkedIs DEF WallInv
<1>4. BricksInv
  BY <1>1, <1>3, WallIsWhole DEF BricksInv
<1> QED BY <1>1, <1>3, <1>4 DEF BreakoutInv, DropsInv, Breakout!NoDrops
-----------------------------------------------------------------------------
(* The reaction trainer.                                                   *)

LEMMA LeastNatural ==
  ASSUME NEW T, T \subseteq Nat, T # {}
  PROVE  \E x \in T : \A y \in T : x <= y
<1> DEFINE R == {p \in Nat \X Nat : p[1] < p[2]}
<1>1. R = OpToRel(<, Nat)
  BY DEF OpToRel
<1>2. IsWellFoundedOn(R, Nat)
  BY <1>1, NatLessThanWellFounded, Zenon
<1>3. \A x, y \in Nat : y < x => <<y, x>> \in R
  OBVIOUS
<1> HIDE DEF R
<1>4. PICK x \in T : \A y \in T : ~ (<<y, x>> \in R)
  BY <1>2, WFMin
<1>5. ASSUME NEW y \in T PROVE x <= y
  <2>1. x \in Nat /\ y \in Nat
    OBVIOUS
  <2>2. ~ (y < x)
    BY <1>3, <1>4, <2>1
  <2> QED BY <2>1, <2>2
<1> QED BY <1>5

\* A function that adds up the first k rounds.
Adds(f, k) == f = [n \in 0..k |-> IF n = 0 THEN 0 ELSE f[n - 1] + Reflex!Worth(result[n])]

LEMMA SumIsThere == \A k \in Nat : \E f : Adds(f, k)
<1> DEFINE T == {k \in Nat : ~ \E f : Adds(f, k)}
<1>1. SUFFICES ASSUME T # {} PROVE FALSE
  OBVIOUS
<1>2. PICK k \in T : \A j \in T : k <= j
  <2>1. T \subseteq Nat
    OBVIOUS
  <2> HIDE DEF T
  <2> QED BY <1>1, <2>1, LeastNatural
<1>3. CASE k = 0
  <2> DEFINE g == [n \in 0..0 |-> 0]
  <2>1. g = [n \in 0..0 |-> IF n = 0 THEN 0 ELSE g[n - 1] + Reflex!Worth(result[n])]
    <3>1. \A n \in 0..0 : n = 0
      OBVIOUS
    <3> QED BY <3>1
  <2>2. Adds(g, 0)
    BY <2>1, Zenon DEF Adds
  <2> QED BY <1>3, <2>2
<1>4. CASE k # 0
  <2>1. k - 1 \in Nat /\ k - 1 \notin T
    BY <1>2, <1>4
  <2>2. PICK f : Adds(f, k - 1)
    BY <2>1
  <2>3. f = [n \in 0..(k - 1) |-> IF n = 0 THEN 0 ELSE f[n - 1] + Reflex!Worth(result[n])]
    BY <2>2, Zenon DEF Adds
  <2> DEFINE g == [n \in 0..k |-> IF n = k THEN f[k - 1] + Reflex!Worth(result[k]) ELSE f[n]]
  <2>4. ASSUME NEW n \in 0..k
        PROVE  g[n] = IF n = 0 THEN 0 ELSE g[n - 1] + Reflex!Worth(result[n])
    <3>1. CASE n = k
      <4>1. n # 0 /\ k - 1 \in 0..k /\ k - 1 # k
        BY <1>4, <3>1
      <4>2. g[k - 1] = f[k - 1]
        BY <4>1
      <4> QED BY <3>1, <4>1, <4>2
    <3>2. CASE n # k
      <4>1. n \in 0..(k - 1) /\ (n # 0 => n - 1 \in 0..k /\ n - 1 # k)
        BY <3>2
      <4>2. g[n] = f[n] /\ (n # 0 => g[n - 1] = f[n - 1])
        BY <3>2, <4>1
      <4>3. f[n] = IF n = 0 THEN 0 ELSE f[n - 1] + Reflex!Worth(result[n])
        BY <2>3, <4>1, Zenon
      <4> QED BY <4>2, <4>3, Zenon
    <3> QED BY <3>1, <3>2
  <2>5. g = [n \in 0..k |-> g[n]]
    OBVIOUS
  <2> HIDE DEF g
  <2>6. g = [n \in 0..k |-> IF n = 0 THEN 0 ELSE g[n - 1] + Reflex!Worth(result[n])]
    BY <2>4, <2>5
  <2>7. Adds(g, k)
    BY <2>6, Zenon DEF Adds
  <2> QED BY <2>7
<1> QED BY <1>3, <1>4

LEMMA SumsUp ==
  ASSUME Rounds \in Nat, NEW most \in Nat,
         \A n \in 1..Rounds : Reflex!Worth(result[n]) \in 0..most
  PROVE  Reflex!Sum[Rounds] \in Nat /\ Reflex!Sum[Rounds] <= Rounds * most
<1>1. Adds(Reflex!Sum, Rounds)
  <2>1. \E f : Adds(f, Rounds)
    BY SumIsThere
  <2>2. Reflex!Sum = CHOOSE f : Adds(f, Rounds)
    BY Zenon DEF Reflex!Sum, Adds
  <2> QED BY <2>1, <2>2, Zenon
<1>2. PICK f : f = Reflex!Sum
  OBVIOUS
<1>3. ASSUME NEW n \in 0..Rounds
      PROVE  f[n] = IF n = 0 THEN 0 ELSE f[n - 1] + Reflex!Worth(result[n])
  BY <1>1, <1>2, Zenon DEF Adds
<1> DEFINE Fits(n) == f[n] \in Nat /\ f[n] <= n * most
           T == {n \in 0..Rounds : ~Fits(n)}
<1>4. T = {}
  <2>1. SUFFICES ASSUME T # {} PROVE FALSE
    OBVIOUS
  <2>2. PICK n \in T : \A j \in T : n <= j
    <3>1. T \subseteq Nat
      OBVIOUS
    <3> HIDE DEF T
    <3> QED BY <2>1, <3>1, LeastNatural
  <2>3. CASE n = 0
    <3>1. f[0] = 0 /\ 0 * most = 0
      BY <1>3, <2>3
    <3> QED BY <2>3, <3>1
  <2>4. CASE n # 0
    <3>1. n - 1 \in 0..Rounds /\ n \in 1..Rounds /\ n - 1 \notin T
      BY <2>2, <2>4
    <3>2. f[n - 1] \in Nat /\ f[n - 1] <= (n - 1) * most
      BY <3>1
    <3>3. f[n] = f[n - 1] + Reflex!Worth(result[n])
      BY <1>3, <2>4
    <3>4. PICK w \in 0..most : w = Reflex!Worth(result[n])
      BY <3>1
    <3>5. PICK x \in Nat, y \in Nat : x = (n - 1) * most /\ y = f[n - 1]
      <4>1. (n - 1) * most \in Nat
        BY <3>1
      <4> QED BY <3>2, <4>1
    <3>6. n * most = x + most
      <4>1. (n - 1) * most = n * most - most
        OBVIOUS
      <4>2. PICK z \in Int : z = n * most
        OBVIOUS
      <4>3. x = z - most
        BY <3>5, <4>1, <4>2, Zenon
      <4>4. z = x + most
        BY <4>3
      <4> QED BY <4>2, <4>4
    <3>7. f[n] = y + w /\ y <= x
      BY <3>2, <3>3, <3>4, <3>5
    <3>8. f[n] \in Nat /\ f[n] <= x + most
      BY <3>7
    <3> QED BY <3>6, <3>8
  <2> QED BY <2>3, <2>4
<1>5. Fits(Rounds)
  <2>1. Rounds \in 0..Rounds
    OBVIOUS
  <2> QED BY <1>4, <2>1
<1> QED BY <1>2, <1>5

\* A round that is over, and one that counts.
Trials == [ms : Nat, voided : BOOLEAN]
Counts(r) == ~r.voided => r.ms >= Floor

ReflexInv ==
  /\ trial \in [state : {"waiting", "armed", "feedback", "finished"}, timer : Nat, hold : Nat]
  /\ seen \in 0..Ceiling
  /\ result \in Seq(Trials) /\ Len(result) \in 0..Rounds
  /\ \A i \in 1..Len(result) : Counts(result[i])
  /\ trial.state \in {"waiting", "armed"} => Len(result) < Rounds
  /\ trial.state = "armed" => trial.timer = seen
  /\ trial.state = "feedback" =>
       /\ 1 <= Len(result)
       /\ ~result[Len(result)].voided => result[Len(result)].ms = seen
  /\ points \in Int
  /\ IF trial.state = "finished"
     THEN Len(result) = Rounds /\ points >= 0 /\ points <= Rounds * (Ceiling - Floor)
     ELSE points = -1

LEMMA ReflexShows ==
  ASSUME Reflex!Parameters, ReflexInv
  PROVE  Reflex!TypeOK /\ Reflex!RoundsAreEarned
<1>1. Reflex!TypeOK
  BY DEF ReflexInv, Reflex!Parameters, Reflex!TypeOK
<1>2. ASSUME trial.state = "feedback", ~result[Len(result)].voided
      PROVE  result[Len(result)].ms = seen /\ seen >= Floor
  <2>1. result[Len(result)].ms = seen /\ 1 <= Len(result) /\ Len(result) \in 0..Rounds
    BY <1>2 DEF ReflexInv
  <2>2. Len(result) \in 1..Len(result)
    BY <2>1
  <2>3. Counts(result[Len(result)])
    BY <2>2 DEF ReflexInv
  <2> QED BY <1>2, <2>1, <2>3 DEF Counts
<1>3. (points # Reflex!Running) = (trial.state = "finished")
  BY DEF ReflexInv, Reflex!Running
<1>4. points # Reflex!Running => Len(result) = Rounds /\ points <= Rounds * (Ceiling - Floor)
  BY DEF ReflexInv, Reflex!Running
<1> QED BY <1>1, <1>2, <1>3, <1>4 DEF Reflex!RoundsAreEarned

LEMMA ReflexNext ==
  ASSUME Reflex!Parameters, ReflexInv, [Reflex!Next]_(Reflex!vars)
  PROVE  ReflexInv'
<1>p. /\ Rounds \in Nat \ {0} /\ Delays \subseteq Nat /\ Feedback \in Nat
      /\ Floor \in Nat /\ Ceiling \in Nat /\ Floor <= Ceiling
  BY DEF Reflex!Parameters
<1>t. PICK s \in {"waiting", "armed", "feedback", "finished"}, t \in Nat, h \in Nat :
        trial = [state |-> s, timer |-> t, hold |-> h]
  BY DEF ReflexInv
<1>r. /\ seen \in 0..Ceiling
      /\ result \in Seq(Trials) /\ Len(result) \in 0..Rounds
      /\ \A i \in 1..Len(result) : Counts(result[i])
      /\ s \in {"waiting", "armed"} => Len(result) < Rounds
      /\ s = "armed" => t = seen
      /\ s = "feedback" =>
           /\ 1 <= Len(result)
           /\ ~result[Len(result)].voided => result[Len(result)].ms = seen
      /\ points \in Int
      /\ IF s = "finished"
         THEN Len(result) = Rounds /\ points >= 0 /\ points <= Rounds * (Ceiling - Floor)
         ELSE points = -1
  BY <1>t DEF ReflexInv
\* What there is to show while the rounds that are over stay what they are.
<1>k. ASSUME result' = result, points' = points, seen' \in 0..Ceiling,
             NEW s1 \in {"waiting", "armed", "feedback"}, NEW t1 \in Nat, NEW h1 \in Nat,
             trial' = [state |-> s1, timer |-> t1, hold |-> h1], s # "finished",
             s1 \in {"waiting", "armed"} => Len(result) < Rounds,
             s1 = "armed" => t1 = seen',
             s1 = "feedback" => s = "feedback" /\ seen' = seen
      PROVE  ReflexInv'
  <2>1. trial'.state = s1 /\ trial'.timer = t1
    BY <1>k
  <2>2. trial' \in [state : {"waiting", "armed", "feedback", "finished"}, timer : Nat, hold : Nat]
    BY <1>k
  <2>3. s1 # "finished"
    OBVIOUS
  <2>4. points' = -1 /\ points' \in Int
    BY <1>k, <1>r
  <2> QED BY <1>k, <1>r, <2>1, <2>2, <2>3, <2>4, Zenon DEF ReflexInv, Trials, Counts
\* A round that begins.
<1>w. ASSUME \E delay \in Delays : trial' = Reflex!Waiting(delay)
      PROVE  \E t1 \in Nat : trial' = [state |-> "waiting", timer |-> t1, hold |-> 0]
  BY <1>p, <1>w DEF Reflex!Waiting
<1>z. 0 \in Nat /\ 0 \in 0..Ceiling
  BY <1>p
<1>1. CASE Reflex!Step
  <2>1. points = -1 /\ result' = result /\ s # "finished"
    BY <1>1, <1>r DEF Reflex!Step, Reflex!Running
  <2>c. trial.state = s /\ trial.timer = t /\ trial.hold = h
    BY <1>t
  <2>2. CASE s = "waiting" /\ t <= 1
    <3>1. /\ trial' = [trial EXCEPT !.state = "armed", !.timer = 0]
          /\ seen' = 0 /\ points' = points
      <4>1. trial.state = "waiting" /\ trial.timer <= 1 /\ ~(trial.timer > 1)
        BY <2>2, <2>c
      <4> QED BY <1>1, <4>1, Zenon DEF Reflex!Step
    <3>2. trial' = [state |-> "armed", timer |-> 0, hold |-> h]
      BY <1>t, <3>1
    <3> QED BY <1>k, <1>r, <1>z, <2>1, <2>2, <3>1, <3>2
  <2>3. CASE s = "waiting" /\ t > 1
    <3>1. /\ trial' = [state |-> "waiting", timer |-> t - 1, hold |-> h]
          /\ seen' = seen /\ points' = points
      BY <1>1, <1>t, <2>3 DEF Reflex!Step
    <3>2. t - 1 \in Nat
      BY <2>3
    <3> QED BY <1>k, <1>r, <2>1, <2>3, <3>1, <3>2
  <2>4. CASE s = "armed"
    <3>1. /\ trial' = [state |-> "armed", timer |-> IF t < Ceiling THEN t + 1 ELSE t, hold |-> h]
          /\ seen' = IF seen < Ceiling THEN seen + 1 ELSE seen
          /\ points' = points
      BY <1>1, <1>t, <2>4 DEF Reflex!Step
    <3>2. PICK t1 \in 0..Ceiling : t1 = IF t < Ceiling THEN t + 1 ELSE t
      BY <1>p, <1>r, <2>4
    <3>3. seen' = t1 /\ t1 \in Nat
      BY <1>r, <2>4, <3>1, <3>2
    <3>4. trial' = [state |-> "armed", timer |-> t1, hold |-> h]
      BY <3>1, <3>2
    <3> QED BY <1>k, <1>r, <2>1, <2>4, <3>1, <3>2, <3>3, <3>4
  <2>5. CASE s = "feedback" /\ h > 1
    <3>0. /\ trial' = [trial EXCEPT !.hold = @ - 1]
          /\ seen' = seen /\ points' = points
      <4>1. trial.state = "feedback" /\ trial.hold > 1 /\ ~(trial.hold <= 1)
        BY <2>5, <2>c
      <4> QED BY <1>1, <4>1, Zenon DEF Reflex!Step
    <3>1. /\ trial' = [state |-> "feedback", timer |-> t, hold |-> h - 1]
          /\ seen' = seen /\ points' = points
      BY <1>t, <2>5, <3>0
    <3>2. h - 1 \in Nat
      BY <2>5
    <3> QED BY <1>k, <1>r, <2>1, <2>5, <3>1, <3>2
  <2>6. CASE s = "feedback" /\ h <= 1 /\ Len(result) < Rounds
    <3>1. /\ \E delay \in Delays : trial' = Reflex!Waiting(delay)
          /\ seen' = 0 /\ points' = points
      <4>1. trial.state = "feedback" /\ trial.hold <= 1 /\ ~(trial.hold > 1)
            /\ Len(result) < Rounds /\ ~(Len(result) = Rounds)
        BY <1>p, <1>r, <2>6, <2>c
      <4> QED BY <1>1, <4>1, Zenon DEF Reflex!Step
    <3>2. PICK t1 \in Nat : trial' = [state |-> "waiting", timer |-> t1, hold |-> 0]
      BY <1>w, <3>1
    <3> QED BY <1>k, <1>z, <2>1, <2>6, <3>1, <3>2
  <2>7. CASE s = "feedback" /\ h <= 1 /\ Len(result) = Rounds
    <3>1. /\ trial' = [state |-> "finished", timer |-> t, hold |-> h]
          /\ points' = Reflex!Sum[Rounds] /\ seen' = seen
      BY <1>1, <1>t, <2>7 DEF Reflex!Step
    <3>2. PICK most \in Nat : most = Ceiling - Floor
      BY <1>p
    <3>3. ASSUME NEW n \in 1..Rounds PROVE Reflex!Worth(result[n]) \in 0..most
      <4>1. n \in 1..Len(result)
        BY <2>7
      <4>2. result[n] \in Trials /\ Counts(result[n])
        BY <1>r, <4>1, ElementOfSeq
      <4> QED BY <1>p, <3>2, <4>2 DEF Trials, Counts, Reflex!Worth
    <3>4. Reflex!Sum[Rounds] \in Nat /\ Reflex!Sum[Rounds] <= Rounds * most
      BY <1>p, <3>2, <3>3, SumsUp
    <3>5. points' \in Int /\ points' >= 0 /\ points' <= Rounds * (Ceiling - Floor)
      <4>1. PICK q \in Nat : q = Reflex!Sum[Rounds]
        BY <3>4
      <4>2. points' = q /\ q <= Rounds * (Ceiling - Floor)
        BY <3>1, <3>2, <3>4, <4>1, Zenon
      <4> QED BY <4>2
    <3>6. trial' \in [state : {"waiting", "armed", "feedback", "finished"}, timer : Nat, hold : Nat]
          /\ trial'.state = "finished"
      BY <3>1
    <3> QED BY <1>r, <2>1, <2>7, <3>1, <3>5, <3>6, Zenon DEF ReflexInv, Trials, Counts
  <2>8. s # "finished" => Len(result) < Rounds \/ Len(result) = Rounds
    BY <1>p, <1>r
  <2>9. t <= 1 \/ t > 1
    OBVIOUS
  <2>10. h <= 1 \/ h > 1
    OBVIOUS
  <2> QED BY <2>1, <2>2, <2>3, <2>4, <2>5, <2>6, <2>7, <2>8, <2>9, <2>10
<1>2. CASE Reflex!Tap
  <2>1. points = -1 /\ s \in {"waiting", "armed"} /\ points' = points /\ seen' = seen
    BY <1>2, <1>r, <1>t DEF Reflex!Tap, Reflex!FinishRound, Reflex!Running
  <2>2. PICK ms \in Nat, v \in BOOLEAN :
          /\ ms = (IF s = "waiting" THEN 0 ELSE t) /\ v = (s = "waiting" \/ t < Floor)
    BY <1>z
  <2>3. /\ trial' = [state |-> "feedback", timer |-> t, hold |-> Feedback]
        /\ result' = Append(result, [ms |-> ms, voided |-> v])
    BY <1>2, <1>t, <2>2 DEF Reflex!Tap, Reflex!FinishRound
  <2>4. PICK n \in Nat : n = Len(result) /\ n < Rounds
    BY <1>r, <2>1
  <2>5. PICK r \in Trials : r = [ms |-> ms, voided |-> v]
    BY DEF Trials
  <2>6. r.ms = ms /\ r.voided = v
    BY <2>5
  <2>7. /\ Append(result, r) \in Seq(Trials) /\ Len(Append(result, r)) = n + 1
        /\ \A i \in 1..n : Append(result, r)[i] = result[i]
        /\ Append(result, r)[n + 1] = r
    BY <1>r, <2>4, AppendProperties
  <2>8. /\ result' \in Seq(Trials) /\ Len(result') = n + 1 /\ result'[n + 1] = r
        /\ \A i \in 1..n : result'[i] = result[i]
    BY <2>3, <2>5, <2>7, Zenon
  <2>9. Counts(r) /\ (~r.voided => r.ms = seen)
    <3>1. ASSUME ~v PROVE ms = seen /\ ms >= Floor
      <4>1. s # "waiting" /\ ~(t < Floor)
        BY <2>2, <3>1, Zenon
      <4>2. ms = t /\ t = seen
        BY <1>r, <2>1, <2>2, <4>1
      <4> QED BY <1>p, <4>1, <4>2
    <3> QED BY <2>6, <3>1 DEF Counts
  <2>10. ASSUME NEW i \in 1..(n + 1) PROVE Counts(result'[i])
    <3>1. CASE i = n + 1
      BY <2>8, <2>9, <3>1
    <3>2. CASE i # n + 1
      <4>1. i \in 1..n
        BY <3>2
      <4> QED BY <1>r, <2>4, <2>8, <4>1
    <3> QED BY <3>1, <3>2
  <2>11. n + 1 \in 0..Rounds /\ 1 <= n + 1
    BY <1>p, <2>4
  <2>12. trial' \in [state : {"waiting", "armed", "feedback", "finished"}, timer : Nat, hold : Nat]
         /\ trial'.state = "feedback"
    BY <1>p, <2>3
  <2>13. /\ ~(trial'.state \in {"waiting", "armed"}) /\ ~(trial'.state = "armed")
         /\ ~(trial'.state = "finished")
    BY <2>12
  <2>14. points' = -1 /\ points' \in Int /\ seen' \in 0..Ceiling
    BY <1>r, <2>1
  <2>15. 1 <= Len(result') /\ Len(result') \in 0..Rounds
         /\ (~result'[Len(result')].voided => result'[Len(result')].ms = seen')
    BY <2>1, <2>8, <2>9, <2>11, Zenon
  <2>16. \A i \in 1..Len(result') : Counts(result'[i])
    BY <2>8, <2>10, Zenon
  <2> QED BY <2>8, <2>12, <2>13, <2>14, <2>15, <2>16, Zenon DEF ReflexInv, Trials, Counts
<1>3. CASE Reflex!Restart
  <2>1. /\ \E delay \in Delays : trial' = Reflex!Waiting(delay)
        /\ result' = <<>> /\ points' = -1 /\ seen' = 0
    BY <1>3 DEF Reflex!Restart, Reflex!Running
  <2>2. PICK t1 \in Nat : trial' = [state |-> "waiting", timer |-> t1, hold |-> 0]
    BY <1>w, <2>1
  <2>3. trial' \in [state : {"waiting", "armed", "feedback", "finished"}, timer : Nat, hold : Nat]
        /\ trial'.state = "waiting"
    BY <1>z, <2>2
  <2>4. result' \in Seq(Trials) /\ Len(result') = 0
    BY <2>1, EmptySeq
  <2>5. 0 \in 0..Rounds /\ 0 < Rounds /\ 1..0 = {} /\ -1 \in Int
    BY <1>p
  <2> QED BY <1>z, <2>1, <2>3, <2>4, <2>5 DEF ReflexInv, Trials
<1>4. CASE UNCHANGED Reflex!vars
  <2>1. trial' = trial /\ result' = result /\ points' = points /\ seen' = seen
    BY <1>4 DEF Reflex!vars
  <2> QED BY <2>1, Zenon DEF ReflexInv, Trials, Counts
<1> QED BY <1>1, <1>2, <1>3, <1>4 DEF Reflex!Next

LEMMA ReflexBegins ==
  ASSUME Reflex!Parameters, Reflex!Init
  PROVE  ReflexInv
<1>1. PICK delay \in Delays : trial = Reflex!Waiting(delay)
  BY DEF Reflex!Init
<1>2. delay \in Nat /\ 0 \in 0..Ceiling /\ 0 \in 0..Rounds /\ 0 < Rounds /\ 1..0 = {} /\ -1 \in Int
  BY DEF Reflex!Parameters
<1>3. trial \in [state : {"waiting", "armed", "feedback", "finished"}, timer : Nat, hold : Nat]
      /\ trial.state = "waiting"
  BY <1>1, <1>2 DEF Reflex!Waiting
<1>4. result = <<>> /\ points = -1 /\ seen = 0
  BY DEF Reflex!Init, Reflex!Running
<1>5. result \in Seq(Trials) /\ Len(result) = 0
  BY <1>4, EmptySeq
<1> QED BY <1>2, <1>3, <1>4, <1>5 DEF ReflexInv, Trials
-----------------------------------------------------------------------------
(* The services together.                                                  *)

\* Of the part that the behaviour is about, its invariant.
ServicesInv ==
  /\ subject = "power" => PowerInv
  /\ subject = "wifi" => WifiInv
  /\ subject = "ota" => OtaInv
  /\ subject = "sound" => SoundInv
  /\ subject = "game" => GameInv
  /\ subject = "stream" => StreamInv
  /\ subject = "records" => RecordsInv
  /\ subject = "replies" => RepliesInv
  /\ subject = "persona" => FaceInv
  /\ subject = "focus" => FocusInv
  /\ subject = "snake" => SnakeInv
  /\ subject = "match" => MatchInv
  /\ subject = "runner" => RunnerInv
  /\ subject = "breakout" => BreakoutInv
  /\ subject = "reflex" => ReflexInv

LEMMA ServicesBegin == Init => ServicesInv
<1> SUFFICES ASSUME Init PROVE ServicesInv
  OBVIOUS
<1>0. Begins
  BY DEF Init
<1>1. subject = "power" => PowerInv
  BY <1>0, PowerBegins, ServicesAssumption DEF Begins
<1>2. subject = "wifi" => WifiInv
  BY <1>0, WifiBegins, ServicesAssumption DEF Begins
<1>3. subject = "ota" => OtaInv
  BY <1>0, OtaBegins, ServicesAssumption DEF Begins
<1>4. subject = "sound" => SoundInv
  BY <1>0, SoundBegins, ServicesAssumption DEF Begins
<1>5. subject = "game" => GameInv
  BY <1>0, GameBegins, ServicesAssumption DEF Begins
<1>6. subject = "stream" => StreamInv
  BY <1>0, StreamBegins, ServicesAssumption DEF Begins
<1>7. subject = "records" => RecordsInv
  BY <1>0, RecordsBegins DEF Begins
<1>8. subject = "replies" => RepliesInv
  BY <1>0, RepliesBegins, ServicesAssumption DEF Begins
<1>9. subject = "persona" => FaceInv
  BY <1>0, PersonaBegins, ServicesAssumption DEF Begins
<1>10. subject = "snake" => SnakeInv
  BY <1>0, SnakeBegins, ServicesAssumption DEF Begins
<1>11. subject = "match" => MatchInv
  BY <1>0, MatchBegins DEF Begins
<1>12. subject = "runner" => RunnerInv
  BY <1>0, RunnerBegins, ServicesAssumption DEF Begins
<1>13. subject = "breakout" => BreakoutInv
  BY <1>0, BreakoutBegins, ServicesAssumption DEF Begins
<1>14. subject = "reflex" => ReflexInv
  BY <1>0, ReflexBegins, ServicesAssumption DEF Begins
<1>15. subject = "focus" => FocusInv
  BY <1>0, FocusBegins, ServicesAssumption DEF Begins
<1> QED BY <1>1, <1>2, <1>3, <1>4, <1>5, <1>6, <1>7, <1>8, <1>9, <1>10, <1>11, <1>12, <1>13, <1>14,
       <1>15 DEF ServicesInv

\* A step is one of the part in question; in the others nothing moves.
LEMMA ServicesStep == ServicesInv /\ [Next]_vars => ServicesInv'
<1> SUFFICES ASSUME ServicesInv, [Next]_vars PROVE ServicesInv'
  OBVIOUS
<1>0. /\ subject' = subject
      /\ subject = "power" => [Power!Next]_(Power!vars)
      /\ subject = "wifi" => [Wifi!Next]_(Wifi!vars)
      /\ subject = "ota" => [Ota!Next]_(Ota!vars)
      /\ subject = "sound" => [Sound!Next]_(Sound!vars)
      /\ subject = "game" => [Game!Next]_(Game!vars)
      /\ subject = "stream" => [Stream!Next]_(Stream!vars)
      /\ subject = "records" => [Records!Next]_(Records!vars)
      /\ subject = "replies" => [Replies!Next]_(Replies!vars)
      /\ subject = "persona" => [Persona!Next]_(Persona!vars)
      /\ subject = "focus" => [Focus!Next]_(Focus!vars)
      /\ subject = "snake" => [Snake!Next]_(Snake!vars)
      /\ subject = "match" => [Match!Next]_(Match!vars)
      /\ subject = "runner" => [Runner!Next]_(Runner!vars)
      /\ subject = "breakout" => [Breakout!Next]_(Breakout!vars)
      /\ subject = "reflex" => [Reflex!Next]_(Reflex!vars)
  <2>1. CASE Next
    BY <2>1 DEF Next
  <2>2. CASE UNCHANGED vars
    BY <2>2 DEF vars, powerVars, wifiVars, otaVars, soundVars, gameVars, streamVars,
       recordsVars, repliesVars, personaVars, focusVars, snakeVars, matchVars, runnerVars, breakoutVars,
       reflexVars, Power!vars, Wifi!vars, Ota!vars, Sound!vars, Game!vars, Stream!vars,
       Records!vars, Replies!vars, Persona!vars, Focus!vars, Snake!vars, Match!vars, Runner!vars,
       Breakout!vars, Reflex!vars
  <2> QED BY <2>1, <2>2
<1>1. subject = "power" => PowerInv'
  BY <1>0, PowerNext, ServicesAssumption DEF ServicesInv
<1>2. subject = "wifi" => WifiInv'
  BY <1>0, WifiNext, ServicesAssumption DEF ServicesInv
<1>3. subject = "ota" => OtaInv'
  BY <1>0, OtaNext, ServicesAssumption DEF ServicesInv
<1>4. subject = "sound" => SoundInv'
  BY <1>0, SoundNext, ServicesAssumption DEF ServicesInv
<1>5. subject = "game" => GameInv'
  BY <1>0, GameNext, ServicesAssumption DEF ServicesInv
<1>6. subject = "stream" => StreamInv'
  BY <1>0, StreamStep, ServicesAssumption DEF ServicesInv
<1>7. subject = "records" => RecordsInv'
  BY <1>0, RecordsNext DEF ServicesInv
<1>8. subject = "replies" => RepliesInv'
  BY <1>0, RepliesNext, ServicesAssumption DEF ServicesInv
<1>9. subject = "persona" => FaceInv'
  BY <1>0, PersonaNext, ServicesAssumption DEF ServicesInv
<1>10. subject = "snake" => SnakeInv'
  BY <1>0, SnakeNext, ServicesAssumption DEF ServicesInv
<1>11. subject = "match" => MatchInv'
  BY <1>0, MatchNext DEF ServicesInv
<1>12. subject = "runner" => RunnerInv'
  BY <1>0, RunnerNext, ServicesAssumption DEF ServicesInv
<1>13. subject = "breakout" => BreakoutInv'
  BY <1>0, BreakoutNext, ServicesAssumption DEF ServicesInv
<1>14. subject = "reflex" => ReflexInv'
  BY <1>0, ReflexNext, ServicesAssumption DEF ServicesInv
<1>15. subject = "focus" => FocusInv'
  BY <1>0, FocusNext, ServicesAssumption DEF ServicesInv
<1> QED BY <1>0, <1>1, <1>2, <1>3, <1>4, <1>5, <1>6, <1>7, <1>8, <1>9, <1>10, <1>11, <1>12, <1>13, <1>14,
       <1>15 DEF ServicesInv

LEMMA ServicesHold == Spec => []ServicesInv
<1>1. Init => ServicesInv
  BY ServicesBegin
<1>2. ServicesInv /\ [Next]_vars => ServicesInv'
  BY ServicesStep
<1> QED BY <1>1, <1>2, PTL DEF Spec

\* Every part's variables keep their types: no cue renders past its end, no backoff
\* doubles past its cap, no ring outgrows its depth, and no timer counts below nothing.
THEOREM TypeCorrect == Spec => []TypeOK
<1>1. ServicesInv => TypeOK
  <2> SUFFICES ASSUME ServicesInv PROVE TypeOK
    OBVIOUS
  <2>1. /\ subject = "power" => Power!TypeOK
        /\ subject = "wifi" => Wifi!TypeOK
        /\ subject = "ota" => Ota!TypeOK
        /\ subject = "game" => Game!TypeOK
        /\ subject = "records" => Records!TypeOK
        /\ subject = "persona" => Persona!TypeOK
        /\ subject = "match" => Match!TypeOK
        /\ subject = "runner" => Runner!TypeOK
    BY DEF ServicesInv, PowerInv, WifiInv, OtaInv, GameInv, RecordsInv, FaceInv, MatchInv, RunnerInv
  <2>2. subject = "sound" => Sound!TypeOK
    BY SoundShows, ServicesAssumption DEF ServicesInv
  <2>3. subject = "stream" => Stream!TypeOK
    BY StreamShows, ServicesAssumption DEF ServicesInv
  <2>4. subject = "replies" => Replies!TypeOK
    BY RepliesShows, ServicesAssumption DEF ServicesInv
  <2>5. subject = "focus" => Focus!TypeOK
    BY FocusShows, ServicesAssumption DEF ServicesInv
  <2>6. subject = "snake" => Snake!TypeOK
    BY SnakeShows, ServicesAssumption DEF ServicesInv
  <2>7. subject = "breakout" => Breakout!TypeOK
    BY BreakoutShows, ServicesAssumption DEF ServicesInv
  <2>8. subject = "reflex" => Reflex!TypeOK
    BY ReflexShows, ServicesAssumption DEF ServicesInv
  <2> QED BY <2>1, <2>2, <2>3, <2>4, <2>5, <2>6, <2>7, <2>8 DEF TypeOK
<1> QED BY <1>1, ServicesHold, PTL

\* Nobody on the bus is left with a finger or a button that is not there, and the device
\* dozes exactly while the policy sleeps (input_service.c, power_service.c); the device is
\* told of the network what the core makes of the radio, which was online last when it had
\* an address, and a network that was saved is tried (net_core.c, net_service.c); an image
\* is ready only if it is, to the byte, the newer one that was offered (ota_core.c); a cue
\* arrives whole (sound_service.c); the best score is the stored one between runs but for a
\* run broken off or a factory reset, and a record is told once a run (game.c).
THEOREM DeviceIsAgreed == Spec => []DeviceAgrees
<1>1. ServicesInv => DeviceAgrees
  BY SoundShows DEF ServicesInv, PowerInv, WifiInv, OtaInv, GameInv, DeviceAgrees
<1> QED BY <1>1, ServicesHold, PTL

\* A hole within what the daemon joins is reported, the indicator counts what is open and
\* goes dark unless the end of a capture was lost, and a meeting is left unfiled only when
\* the daemon can no longer write to its device: wherever on the way a chunk is lost and
\* however connections and their writers end, for any connections, captures and rings
\* (audio_service.c, nev_bridge.c, session.rs, server.rs).
THEOREM SpeechIsKept == Spec => []SpeechArrives
<1>1. ServicesInv => SpeechArrives
  BY StreamShows, ServicesAssumption DEF ServicesInv, SpeechArrives
<1> QED BY <1>1, ServicesHold, PTL

\* No recording is left where the user cannot see it, and none comes back that was
\* deleted, whatever is saved, deleted and purged at once and wherever the daemon stops,
\* but for those that a purge ran into, a stop cut off, or whose file could not be written,
\* read or removed (nevos-store).  The device gets the messages of a reply in their order,
\* a reply reported done without an error is all that came of it, which is not always all
\* there was of it, and of an older reply at most the rest of one piece follows a newer one
\* (server.rs, nevos-agent): for any records, questions and pieces.
THEOREM DaemonKeepsFaith == Spec => []DaemonAgrees
<1>1. ServicesInv => DaemonAgrees
  BY RepliesShows, RecordsShow, ServicesAssumption DEF ServicesInv, DaemonAgrees
<1> QED BY <1>1, ServicesHold, PTL

\* A reaction of the face has an end, and the focus timer is never short (persona_core.c,
\* focus_app.c); the snake is never turned into its neck or fed where it lies, a board is
\* dead only where drawing one was given up, no jump is a second one, bricks and lives add
\* up, and no round counts that was not earned (the games' cores): on a grid of any size,
\* any board, and any times.
THEOREM DeskIsAgreed == Spec => []DeskAgrees
<1>1. ServicesInv => DeskAgrees
  <2> SUFFICES ASSUME ServicesInv PROVE DeskAgrees
    OBVIOUS
  <2>1. subject = "focus" => Focus!TimerIsNeverShort
    BY FocusShows, ServicesAssumption DEF ServicesInv
  <2>2. subject = "snake" => Snake!SnakeIsFair
    BY SnakeShows, ServicesAssumption DEF ServicesInv
  <2>3. /\ subject = "persona" => Persona!HeldMoodEnds
        /\ subject = "match" => Match!NeverADeadBoard
        /\ subject = "runner" => Runner!OneJumpALanding
    BY DEF ServicesInv, FaceInv, MatchInv, RunnerInv
  <2>4. subject = "breakout" => Breakout!BreakoutIsFair
    BY BreakoutShows, ServicesAssumption DEF ServicesInv
  <2>5. subject = "reflex" => Reflex!RoundsAreEarned
    BY ReflexShows, ServicesAssumption DEF ServicesInv
  <2> QED BY <2>1, <2>2, <2>3, <2>4, <2>5 DEF DeskAgrees
<1> QED BY <1>1, ServicesHold, PTL
=============================================================================
