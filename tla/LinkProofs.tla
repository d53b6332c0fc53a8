----------------------------- MODULE LinkProofs -----------------------------
(***************************************************************************)
(* Proofs about the link: a device that shows itself connected was let in, *)
(* the token it shows is on flash, and nothing that an older connection    *)
(* brings takes its pairing away, for any number of connections, codes,    *)
(* tokens and faults.                                                      *)
(***************************************************************************)
EXTENDS Link, SequenceTheorems, TLAPS

USE LinkAssumption DEF LinkAssumption, NoSlot, NoToken

States == {"offline", "searching", "connecting", "pairing", "keeping", "ready"}
Tokens0 == Tokens \cup {NoToken}
Codes0 == Codes \cup {NoCode}
UpMessage == [t : {"hello"}, token : Tokens0] \cup [t : {"pair"}, code : Codes]
DownMessage == [t : {"accepted", "needs_pairing"}] \cup [t : {"result"}, token : Tokens0]
Ups == Seq(UpMessage)
Downs == Seq(DownMessage)
Grants == Seq(Tokens)
Wires == [open : BOOLEAN, cut : BOOLEAN, up : Ups, down : Downs]
Devices == [state : States, slot : Slots \cup {NoSlot}, token : Tokens0, code : Codes0,
            asked : 0..MaxQueries, answered : BOOLEAN]
Flashes == [set : Tokens0, saved : Tokens0, missed : BOOLEAN]
Sessions == [state : {"none", "new", "awaiting", "ready"}, since : BOOLEAN, grants : Grants]

\* What TypeOK says, with the domains of the functions.
Shape ==
  /\ dev \in Devices
  /\ flash \in Flashes
  /\ wire \in [Slots -> Wires]
  /\ ses \in [Slots -> Sessions]
  /\ touching \in [Slots -> Tokens0]
  /\ known \in Tokens0 /\ issued \in Tokens0 /\ running \in BOOLEAN
  /\ pending \in Codes0 /\ noted \in Codes0
  /\ failed \in 0..(MaxFailed - 1) /\ locked \in BOOLEAN /\ listed \in BOOLEAN
  /\ gone \in [unpaired : SUBSET Tokens, replaced : SUBSET Tokens]
  /\ upset \in 0..MaxUpset

\* The shape is the type that the run checks.
LEMMA ShapeIsType == Shape => TypeOK
<1>1. Messages({"hello", "pair"}) = UpMessage
  BY DEF Messages, UpMessage, Tokens0
<1>2. Messages({"accepted", "needs_pairing", "result"}) = DownMessage
  BY DEF Messages, DownMessage, Tokens0
<1> QED BY <1>1, <1>2 DEF Shape, TypeOK, Devices, Flashes, Wires, Ups, Downs, Grants, Sessions, Tokens0, Codes0, States, Tokens


-----------------------------------------------------------------------------
(* The types of what the steps do to a connection.                         *)

\* A queue keeps its type when it is read from or written to.
LEMMA QueueTypes ==
  ASSUME NEW S, NEW q \in Seq(S)
  PROVE  /\ q # <<>> => Head(q) \in S /\ Tail(q) \in Seq(S)
         /\ \A e \in S : Append(q, e) \in Seq(S)
  BY HeadTailProperties, AppendProperties

\* The same for the queues of a connection.
LEMMA Queues ==
  /\ <<>> \in Ups /\ <<>> \in Downs /\ <<>> \in Grants
  /\ \A q \in Ups : q # <<>> => Head(q) \in UpMessage /\ Tail(q) \in Ups
  /\ \A q \in Downs : q # <<>> => Head(q) \in DownMessage /\ Tail(q) \in Downs
  /\ \A q \in Grants : q # <<>> => Head(q) \in Tokens /\ Tail(q) \in Grants
  /\ \A q \in Ups, e \in UpMessage : Append(q, e) \in Ups
  /\ \A q \in Downs, e \in DownMessage : Append(q, e) \in Downs
  /\ \A q \in Grants, e \in Tokens : Append(q, e) \in Grants
  BY QueueTypes DEF Ups, Downs, Grants

\* What is left of a queue of one message.
LEMMA TailOfOne ==
  ASSUME NEW S, NEW q \in Seq(S), Len(q) = 1
  PROVE  Tail(q) = <<>>
<1>1. q # <<>>
  OBVIOUS
<1>2. Tail(q) \in Seq(S) /\ Len(Tail(q)) = 0
  BY <1>1, HeadTailProperties
<1> QED BY <1>2, EmptySeq

\* What a queue holds after it is read from.
LEMMA QueueFacts ==
  ASSUME NEW q \in Ups \cup Downs \cup Grants
  PROVE  /\ Len(q) \in Nat /\ (q = <<>> <=> Len(q) = 0)
         /\ q # <<>> => /\ 1 \in 1..Len(q) /\ Head(q) = q[1] /\ Len(Tail(q)) = Len(q) - 1
                        /\ \A i \in 1..Len(Tail(q)) : i + 1 \in 1..Len(q) /\ Tail(q)[i] = q[i + 1]
         /\ Len(q) = 1 => Tail(q) = <<>>
<1>1. Len(q) = 1 => Tail(q) = <<>>
  BY TailOfOne DEF Ups, Downs, Grants
<1> QED BY <1>1 DEF Ups, Downs, Grants

\* What it holds after it is written to.
LEMMA QueueGrows ==
  ASSUME NEW S, NEW q \in Seq(S), NEW e \in S
  PROVE  /\ Len(Append(q, e)) = Len(q) + 1 /\ Append(q, e)[Len(q) + 1] = e
         /\ \A i \in 1..Len(q) : Append(q, e)[i] = q[i]
  OBVIOUS

\* The session of a slot that nobody uses.
LEMMA NoSessionType == NoSession \in Sessions
  BY Queues DEF NoSession, Sessions

\* One field of a connection changed.
LEMMA Edits ==
  /\ \A w \in Wires : /\ [w EXCEPT !.up = <<>>] \in Wires
                      /\ [w EXCEPT !.cut = TRUE, !.up = <<>>, !.down = <<>>] \in Wires
  /\ \A x \in Sessions, b \in BOOLEAN, g \in Grants, c \in {"none", "new", "awaiting", "ready"} :
       /\ [x EXCEPT !.since = b] \in Sessions
       /\ [x EXCEPT !.state = c] \in Sessions
       /\ [x EXCEPT !.grants = g] \in Sessions
       /\ [NoSession EXCEPT !.state = c, !.grants = g, !.since = b] \in Sessions
  /\ \A x \in Sessions : x.grants \in Grants /\ x.since \in BOOLEAN /\
        x.state \in {"none", "new", "awaiting", "ready"}
  BY ZenonT(40), Queues DEF Wires, Sessions, NoSession

\* Such a slot, and one whose device lost power.
LEMMA UnusedType == Unused \in Wires /\ [Unused EXCEPT !.cut = TRUE] \in Wires
  BY Queues DEF Unused, Wires

\* disconnect().
LEMMA ClosedType ==
  ASSUME Shape
  PROVE  /\ Closed \in [Slots -> Wires]
         /\ Offline \in Devices
<1>1. Unused \in Wires /\ \A w \in Wires : [w EXCEPT !.open = FALSE, !.down = <<>>] \in Wires
  BY Queues DEF Unused, Wires
<1>2. Closed \in [Slots -> Wires]
  <2> HIDE DEF Wires
  <2> QED BY <1>1 DEF Shape, Closed
<1>3. Offline \in Devices
  <2>1. "offline" \in States /\ NoCode \in Codes0 /\ 0 \in 0..MaxQueries
    BY DEF States, Codes0
  <2> QED BY <2>1 DEF Shape, Offline, Devices
<1> QED BY <1>2, <1>3

\* A query of the search.
LEMMA Queried ==
  ASSUME Shape, NEW n \in 1..MaxQueries, Query(n)
  PROVE  /\ dev' \in Devices /\ dev'.state = "searching"
         /\ dev'.slot = dev.slot /\ dev'.token = dev.token /\ dev'.code = dev.code
         /\ upset' \in 0..MaxUpset
<1>1. PICK answered \in BOOLEAN :
        dev' = [dev EXCEPT !.state = "searching", !.asked = n, !.answered = answered]
  BY DEF Query
<1>2. "searching" \in States /\ n \in 0..MaxQueries /\ dev \in Devices
  BY DEF States, Shape
<1>3. upset' \in 0..MaxUpset
  BY DEF Query, Upset, Shape
<1> QED BY <1>1, <1>2, <1>3 DEF Devices

\* The token, set in the store; and the outcomes of a commit.
LEMMA SetFacts ==
  ASSUME Shape, NEW token \in Tokens0
  PROVE  Sets(token) \in Flashes /\ Sets(token).set = token /\ Sets(token).saved = flash.saved
  BY DEF Sets, Shape, Flashes

LEMMA CommitFacts ==
  ASSUME NEW f \in Flashes, NEW g \in Commits(f)
  PROVE  /\ g \in Flashes /\ g.set = f.set /\ g.saved \in {f.saved, f.set}
         /\ g.saved = g.set \/ g.missed
<1>1. CASE g = [f EXCEPT !.saved = f.set, !.missed = FALSE]
  BY <1>1 DEF Flashes
<1>2. CASE g = [f EXCEPT !.missed = (f.saved # f.set)]
  <2>1. (f.saved # f.set) \in BOOLEAN
    OBVIOUS
  <2>2. g.set = f.set /\ g.saved = f.saved /\ g.missed = (f.saved # f.set)
    BY <1>2 DEF Flashes
  <2>3. g \in Flashes
    BY <1>2, <2>1 DEF Flashes
  <2> QED BY <2>2, <2>3
<1> QED BY <1>1, <1>2 DEF Commits

\* The bridge goes on after the commit.
LEMMA ShownFacts ==
  ASSUME Shape
  PROVE  /\ Shown \in Devices /\ Shown.state = "ready"
         /\ Shown.slot = dev.slot /\ Shown.token = dev.token
  BY DEF Shown, Shape, Devices, States, Codes0

\* The device reads a message.
LEMMA ConsumedType ==
  ASSUME Shape, NEW kind, Hears(kind)
  PROVE  /\ dev.slot \in Slots
         /\ Head(wire[dev.slot].down) \in DownMessage
         /\ Consumed \in [Slots -> Wires]
<1>1. dev.slot \in Slots /\ wire[dev.slot] \in Wires
  BY DEF Shape, Devices, Hears
<1>2. /\ Head(wire[dev.slot].down) \in DownMessage
      /\ Tail(wire[dev.slot].down) \in Downs
  BY <1>1, Queues DEF Hears, Wires
<1>3. [wire[dev.slot] EXCEPT !.down = Tail(@)] \in Wires
  BY <1>1, <1>2 DEF Wires
<1> QED BY <1>1, <1>2, <1>3 DEF Shape, Consumed

\* The daemon sends one.
LEMMA ReplyType ==
  ASSUME Shape, NEW s \in Slots, NEW msg \in DownMessage
  PROVE  Reply(s, msg) \in [Slots -> Wires]
<1> wire[s] \in Wires
  BY DEF Shape
<1>1. Append(wire[s].down, msg) \in Downs
  BY Queues DEF Wires
<1>2. [wire[s] EXCEPT !.down = Append(@, msg)] \in Wires
  BY <1>1 DEF Wires
<1> QED BY <1>2 DEF Shape, Reply

\* The daemon reads one.
LEMMA ReadType ==
  ASSUME Shape, NEW s \in Slots, NEW kind, Hear(s, kind)
  PROVE  /\ Head(wire[s].up) \in UpMessage
         /\ \A wires \in [Slots -> Wires] : wires[s].up = wire[s].up =>
              [wires EXCEPT ![s].up = Tail(@)] \in [Slots -> Wires]
<1>1. Head(wire[s].up) \in UpMessage /\ Tail(wire[s].up) \in Ups
  BY Queues DEF Shape, Hear, Wires
<1>2. ASSUME NEW wires \in [Slots -> Wires], wires[s].up = wire[s].up
      PROVE  [wires EXCEPT ![s].up = Tail(@)] \in [Slots -> Wires]
  <2>1. [wires[s] EXCEPT !.up = Tail(@)] \in Wires
    BY <1>1, <1>2 DEF Wires
  <2> QED BY <2>1
<1> QED BY <1>1, <1>2

\* Every step keeps the shape, whichever end takes it.
LEMMA ShapeStep == Shape /\ [Next]_vars => Shape'
<1> SUFFICES ASSUME Shape, [Next]_vars PROVE Shape'
  OBVIOUS
<1> USE DEF Shape
<1>0. 1 \in 1..MaxQueries /\ (dev.state = "searching" /\ dev.asked < MaxQueries =>
                               dev.asked + 1 \in 1..MaxQueries)
  BY DEF Devices
<1>1. CASE Search \/ AsksAgain
  <2>1. dev' \in Devices /\ upset' \in 0..MaxUpset
    BY <1>0, <1>1, Queried DEF Search, AsksAgain
  <2> QED BY <1>1, <2>1 DEF Search, AsksAgain, daemon
<1>28. CASE Overhears
  BY <1>28 DEF Overhears, Devices, daemon, user
<1>29. CASE FoundGone
  BY <1>29, ClosedType DEF FoundGone, Disconnect, daemon, user
<1>30. CASE Keeps
  BY <1>30, CommitFacts, ShownFacts DEF Keeps, daemon, user
<1>31. CASE Starts
  BY <1>31 DEF Starts, device, user
<1>2. ASSUME NEW s \in Slots, Found(s) PROVE Shape'
  <2>1. Greeting \in UpMessage
    BY DEF Greeting, UpMessage, Devices
  <2>2. <<Greeting>> \in Ups
    BY <2>1 DEF Ups
  <2>3. Opened(Greeting) \in Wires
    BY <2>2, UnusedType DEF Opened, Wires
  <2>4. [NoSession EXCEPT !.state = "new"] \in Sessions
    BY NoSessionType DEF Sessions
  <2>5. dev' \in Devices
    <3>1. "connecting" \in States /\ 0 \in 0..MaxQueries /\ s \in Slots \cup {NoSlot}
      BY DEF States
    <3>2. dev' = [dev EXCEPT !.state = "connecting", !.slot = s, !.asked = 0, !.answered = FALSE]
      BY <1>2 DEF Found
    <3> QED BY <3>1, <3>2 DEF Devices
  <2> QED BY <1>2, <2>3, <2>4, <2>5 DEF Found, user
<1>3. CASE OnAccepted
  BY <1>3, ConsumedType DEF OnAccepted, Devices, States, daemon, user
<1>4. CASE OnNeedsPairing
  <2>1. PICK code \in Codes :
          /\ dev' = [Shows(code) EXCEPT !.token = NoToken]
          /\ wire' = [Consumed EXCEPT ![dev.slot].up = Append(@, [t |-> "pair", code |-> code])]
    BY <1>4 DEF OnNeedsPairing
  <2>2. /\ dev.slot \in Slots /\ Consumed[dev.slot] \in Wires
        /\ Consumed \in [Slots -> Wires]
    BY <1>4, ConsumedType DEF OnNeedsPairing
  <2>3. Append(Consumed[dev.slot].up, [t |-> "pair", code |-> code]) \in Ups
    BY <2>2, Queues DEF Wires, UpMessage
  <2>4. wire' \in [Slots -> Wires]
    BY <2>1, <2>2, <2>3 DEF Wires
  <2>5. dev' \in Devices
    BY <2>1 DEF Shows, Devices, States, Codes0, Tokens0
  <2>6. flash' \in Flashes
    BY <1>4, SetFacts DEF OnNeedsPairing, Tokens0
  <2> QED BY <1>4, <2>4, <2>5, <2>6 DEF OnNeedsPairing, daemon, user
<1>5. CASE OnPairResult
  <2>1. /\ Head(wire[dev.slot].down) \in DownMessage
        /\ Head(wire[dev.slot].down).t = "result"
        /\ Consumed \in [Slots -> Wires]
    BY <1>5, ConsumedType DEF OnPairResult, Hears
  <2>2. Head(wire[dev.slot].down).token \in Tokens0
    BY <2>1 DEF DownMessage
  <2>3. CASE Head(wire[dev.slot].down).token = NoToken
    BY <1>5, <2>3, ClosedType DEF OnPairResult, Disconnect, daemon, user
  <2>4. CASE Head(wire[dev.slot].down).token # NoToken
    <3> DEFINE token == Head(wire[dev.slot].down).token
    <3>1. /\ dev' = [dev EXCEPT !.state = "keeping", !.token = token]
          /\ flash' = Sets(token)
          /\ wire' = Consumed
      BY <1>5, <2>4 DEF OnPairResult
    <3>2. token \in Tokens0
      BY <2>2
    <3> HIDE DEF token
    <3>3. dev' \in Devices
      BY <3>1, <3>2 DEF Devices, States
    <3>4. flash' \in Flashes
      BY <3>1, <3>2, SetFacts
    <3> QED BY <1>5, <2>1, <3>1, <3>3, <3>4 DEF OnPairResult, daemon, user
  <2> QED BY <2>3, <2>4
<1>6. CASE HearsClose
  BY <1>6, ClosedType DEF HearsClose, Disconnect, daemon, user
<1>7. CASE Silence
  BY <1>7, ClosedType DEF Silence, Disconnect, daemon, user
<1>8. CASE CommitTick
  BY <1>8, CommitFacts DEF CommitTick, daemon, user
<1>9. ASSUME NEW s \in Slots, OnHello(s) PROVE Shape'
  <2> DEFINE ok == Lookup(Head(wire[s].up).token)
             msg == [t |-> IF ok THEN "accepted" ELSE "needs_pairing"]
  <2>1. msg \in DownMessage
    BY DEF DownMessage
  <2>2. Reply(s, msg) \in [Slots -> Wires] /\ Reply(s, msg)[s].up = wire[s].up
    BY ZenonT(40), <2>1, ReplyType DEF Reply, Wires
  <2>3. wire' \in [Slots -> Wires]
    BY <1>9, <2>2, ReadType DEF OnHello
  <2>4. ses' \in [Slots -> Sessions]
    BY <1>9, Edits DEF OnHello
  <2> QED BY <1>9, <2>3, <2>4 DEF OnHello, Announces, device, user
<1>10. ASSUME NEW s \in Slots, OnPair(s) PROVE Shape'
  <2>1. Head(wire[s].up) \in UpMessage /\ Head(wire[s].up).t = "pair" /\ Read(s) \in [Slots -> Wires]
    BY <1>10, ReadType DEF OnPair, Read, Hear
  <2>2. Head(wire[s].up).code \in Codes
    BY <2>1 DEF UpMessage
  <2>3. CASE ses[s].state = "awaiting"
    <3>1. ses' = [ses EXCEPT ![s].since = TRUE]
      BY <1>10, <2>3 DEF OnPair
    <3>2. ses' \in [Slots -> Sessions]
      BY <3>1, Edits
    <3> QED BY <1>10, <2>1, <2>2, <2>3, <3>2 DEF OnPair, Codes0, device, user
  <2>4. CASE ses[s].state # "awaiting"
    <3>1. Ended(s) /\ wire' = Read(s) /\ UNCHANGED <<device, user>>
      BY <1>10, <2>4 DEF OnPair
    <3> QED BY <2>1, <3>1, NoSessionType DEF Ended, Codes0, device, user
  <2> QED BY <2>3, <2>4
<1>11. ASSUME NEW s \in Slots, OnGrant(s) PROVE Shape'
  <2>1. Head(ses[s].grants) \in Tokens /\ Tail(ses[s].grants) \in Grants
    BY <1>11, Queues DEF OnGrant, Sessions
  <2>2. ses' \in [Slots -> Sessions]
    BY <1>11, <2>1 DEF OnGrant, Sessions, NoSession
  <2>3. Paired(Head(ses[s].grants)) \in DownMessage
    BY <2>1 DEF Paired, DownMessage, Tokens0
  <2>4. wire' \in [Slots -> Wires]
    BY <1>11, <2>3, ReplyType DEF OnGrant
  <2> QED BY <1>11, <2>2, <2>4 DEF OnGrant, Announces, device, user
<1>12. ASSUME NEW s \in Slots, PairTimeout(s) PROVE Shape'
  <2>1. Refused \in DownMessage
    BY DEF Refused, Paired, DownMessage, Tokens0
  <2>2. ses' \in [Slots -> Sessions]
    BY ZenonT(40), <1>12, Edits DEF PairTimeout
  <2> QED BY <1>12, <2>1, <2>2, ReplyType DEF PairTimeout, Codes0, device, user
<1>13. ASSUME NEW s \in Slots, Ends(s) PROVE Shape'
  <2>1. wire' \in [Slots -> Wires]
    BY <1>13, UnusedType DEF Ends
  <2> QED BY <1>13, <2>1, NoSessionType DEF Ends, Ended, Codes0, device, user
<1>14. ASSUME NEW s \in Slots, TouchRead(s) PROVE Shape'
  BY <1>14 DEF TouchRead, device, user
<1>15. ASSUME NEW token \in Tokens0, Records(token) PROVE known' \in Tokens0 /\ gone' \in [unpaired : SUBSET Tokens, replaced : SUBSET Tokens]
  BY <1>15 DEF Records, Tokens0
<1>16. ASSUME NEW s \in Slots, TouchWrite(s) PROVE Shape'
  BY <1>15, <1>16 DEF TouchWrite, Tokens0, device
<1>17. CASE Expire
  BY <1>17 DEF Expire, Codes0, device, user
<1>18. CASE Unlock
  BY <1>18 DEF Unlock, device, user
<1>19. CASE ReadsCode
  BY <1>19 DEF ReadsCode, Devices, device, daemon
<1>20. ASSUME NEW code, EntersCode(code) PROVE Shape'
  <2>1. issued + 1 \in Tokens /\ issued + 1 \in Tokens0
    BY <1>20 DEF EntersCode, Tokens, Tokens0
  <2>2. CASE code = pending
    <3>1. \A s \in Slots : [ses[s] EXCEPT !.grants = Append(@, issued + 1)] \in Sessions
      BY <2>1, Queues, Edits
    <3>2. Granted
      BY <1>20, <2>2 DEF EntersCode
    <3>3. ses' \in [Slots -> Sessions]
      BY <3>1, <3>2 DEF Granted
    <3> QED BY <1>15, <1>20, <2>1, <2>2, <3>3 DEF EntersCode, Codes0, device
  <2>3. CASE code # pending
    BY <1>20, <2>3 DEF EntersCode, device
  <2> QED BY <2>2, <2>3
<1>21. CASE Forget
  <2>1. flash' \in Flashes
    BY <1>21, SetFacts, CommitFacts DEF Forget, Tokens0
  <2>2. dev' \in Devices
    BY <1>21, ClosedType DEF Forget, Devices, Tokens0
  <2> QED BY <1>21, <2>1, <2>2, ClosedType DEF Forget, Upset, daemon
<1>22. CASE Unpair
  BY <1>22 DEF Unpair, Upset, Tokens0, device
<1>23. CASE Gives
  BY <1>23, ClosedType DEF Gives, Upset, Disconnect, daemon
<1>24. CASE Reboot
  <2>1. wire' \in [Slots -> Wires]
    BY <1>24, UnusedType DEF Reboot
  <2>2. dev' \in Devices
    BY <1>24, ClosedType DEF Reboot, Devices, Flashes
  <2>3. flash' \in Flashes
    BY <1>24 DEF Reboot, Flashes
  <2> QED BY <1>24, <2>1, <2>2, <2>3 DEF Reboot, Upset, daemon
<1>25. CASE Stops
  <2>1. \A s \in Slots : [wire[s] EXCEPT !.up = <<>>] \in Wires
    BY Edits
  <2>2. wire' \in [Slots -> Wires] /\ ses' \in [Slots -> Sessions]
    BY <1>25, <2>1, UnusedType, NoSessionType DEF Stops
  <2>3. touching' \in [Slots -> Tokens0]
    BY <1>25 DEF Stops, Tokens0
  <2>4. /\ failed' \in 0..(MaxFailed - 1) /\ pending' \in Codes0
        /\ upset' \in 0..MaxUpset /\ running' = FALSE /\ locked' = FALSE /\ listed' = FALSE
        /\ UNCHANGED <<dev, flash, known, issued, noted, gone>>
    BY <1>25 DEF Stops, Upset, Codes0, device
  <2> QED BY <2>2, <2>3, <2>4
<1>26. ASSUME NEW s \in Slots, Cut(s) PROVE Shape'
  <2>1. [wire[s] EXCEPT !.cut = TRUE, !.up = <<>>, !.down = <<>>] \in Wires
    BY Edits
  <2> QED BY <1>26, <2>1 DEF Cut, Dead, Upset, device, daemon
<1>27. CASE UNCHANGED vars
  BY <1>27 DEF vars, device, daemon, user
<1> QED
  BY <1>1, <1>2, <1>3, <1>4, <1>5, <1>6, <1>7, <1>8, <1>9, <1>10, <1>11, <1>12, <1>13, <1>14,
     <1>16, <1>17, <1>18, <1>19, <1>20, <1>21, <1>22, <1>23, <1>24, <1>25, <1>26, <1>27,
     <1>28, <1>29, <1>30, <1>31
  DEF Next, Bridge, Connection, UserEnters

-----------------------------------------------------------------------------
(* The inductive invariant.                                                *)

Gone == gone.unpaired \cup gone.replaced
Lost == dev.token = NoToken \/ dev.token \in Gone
Has(q, kind) == \E i \in 1..Len(q) : q[i].t = kind

\* The device holds one socket, while it is neither offline nor searching.
OneSocket ==
  /\ dev.slot = NoSlot <=> dev.state \in {"offline", "searching"}
  /\ \A s \in Slots : wire[s].open <=> dev.slot = s

\* The store's RAM follows the bridge; what is not on flash is a dropped token, one
\* that is about to be committed, or one whose last commit missed it.
Written == flash.saved = flash.set \/ flash.missed
Stored ==
  /\ flash.set = dev.token
  /\ Written \/ flash.set = NoToken \/ dev.state = "keeping"

\* What is on its way: to a device that listens, over a wire that is whole.
Delivers(s) ==
  /\ wire[s].down # <<>> => wire[s].open
  /\ wire[s].cut => wire[s].up = <<>>

\* A session is new until it has read the one greeting, which names the token
\* the device has.
GreetedOnce(s) ==
  /\ Has(wire[s].up, "hello") =>
       /\ Len(wire[s].up) = 1 /\ ses[s].state = "new"
       /\ dev.slot = s => wire[s].up[1].token = dev.token
  /\ ses[s].state = "new" => wire[s].down = <<>>

\* A session that accepts a device says nothing more, and accepts a token that
\* was committed.
AcceptedAlone(s) ==
  Has(wire[s].down, "accepted") =>
    /\ Len(wire[s].down) = 1 /\ ses[s].state \in {"ready", "none"}
    /\ Written

\* A device that is asked to pair has no token that would do; the answers come
\* after that, and a token comes last.
AsksFirst(s) == wire[s].down # <<>> /\ wire[s].down[1].t = "needs_pairing"
InOrder(s) ==
  \A i \in 1..Len(wire[s].down) :
    /\ wire[s].down[i].t = "needs_pairing" => i = 1 /\ Lost
    /\ wire[s].down[i].t = "result" =>
         /\ dev.token = NoToken \/ AsksFirst(s)
         /\ wire[s].down[i].token # NoToken =>
              /\ i = Len(wire[s].down) /\ ses[s].state \in {"ready", "none"}
              /\ wire[s].down[i].token <= issued
Agrees(s) ==
  dev.slot = s =>
    /\ ses[s].state = "awaiting" => dev.token = NoToken \/ AsksFirst(s)
    /\ dev.state \in {"keeping", "ready"} => ses[s].state \in {"ready", "none"}

Line(s) ==
  /\ Delivers(s) /\ GreetedOnce(s) /\ AcceptedAlone(s)
  /\ ~wire[s].cut => InOrder(s) /\ Agrees(s)

\* Every token there has been is in devices.json or was there.
Accounted ==
  /\ \A t \in 1..issued : t = known \/ t \in Gone
  /\ dev.token <= issued /\ flash.saved <= issued
  /\ \A s \in Slots : \A i \in 1..Len(ses[s].grants) : ses[s].grants[i] <= issued

IInv ==
  /\ Shape /\ OneSocket /\ Stored /\ Accounted
  /\ \A s \in Slots : Line(s)
  /\ SurvivesReboot /\ ListedIsLive

\* on_pair_result: refused, or granted a token.
Takes(token) == /\ dev' = [dev EXCEPT !.state = "keeping", !.token = token]
                /\ flash' = Sets(token)
LEMMA Answered ==
  ASSUME Shape, OnPairResult
  PROVE  \E token \in Tokens0 :
           /\ Hears("result") /\ token = Head(wire[dev.slot].down).token
           /\ \/ token = NoToken /\ Disconnect /\ UNCHANGED flash
              \/ token # NoToken /\ wire' = Consumed /\ Takes(token)
           /\ UNCHANGED <<daemon, user>>
<1> DEFINE token == Head(wire[dev.slot].down).token
<1>1. token \in Tokens0
  BY ConsumedType DEF OnPairResult, Hears, DownMessage
<1>2. Hears("result") /\ UNCHANGED <<daemon, user>>
  BY DEF OnPairResult
<1>3. IF token = NoToken
      THEN Disconnect /\ UNCHANGED flash
      ELSE Takes(token) /\ wire' = Consumed
  BY DEF OnPairResult, Takes
<1> QED BY <1>1, <1>2, <1>3

\* The token it takes.
LEMMA TakesFacts ==
  ASSUME Shape, NEW token \in Tokens0, Takes(token)
  PROVE  /\ dev'.state = "keeping" /\ dev'.token = token /\ dev'.slot = dev.slot
         /\ flash'.set = token /\ flash'.saved = flash.saved
  BY SetFacts DEF Takes, Shape, Devices

\* The device's socket.
LEMMA SocketStep == IInv /\ [Next]_vars => OneSocket'
<1> SUFFICES ASSUME IInv, [Next]_vars PROVE OneSocket'
  OBVIOUS
<1> USE DEF IInv, Shape, OneSocket
<1>1. ASSUME dev'.slot = NoSlot, dev'.state = "offline", \A s \in Slots : ~wire'[s].open
      PROVE  OneSocket'
  BY <1>1
<1>2. \A s \in Slots : ~Closed[s].open
  BY DEF Closed, Unused, Wires
<1>3. CASE UNCHANGED dev /\ \A s \in Slots : wire'[s].open = wire[s].open
  BY <1>3
<1>4. ASSUME NEW s \in Slots, NEW msg PROVE \A t \in Slots : Reply(s, msg)[t].open = wire[t].open
  BY DEF Reply, Wires
<1>5. CASE Search \/ AsksAgain
  <2>1. 1 \in 1..MaxQueries /\ (AsksAgain => dev.asked + 1 \in 1..MaxQueries)
    BY DEF AsksAgain, Devices
  <2>2. dev'.slot = dev.slot /\ dev'.state = "searching" /\ wire' = wire
    BY <1>5, <2>1, Queried DEF Search, AsksAgain
  <2> QED BY <1>5, <2>2 DEF Search, AsksAgain
<1>24. CASE Overhears
  BY <1>24 DEF Overhears, Devices
<1>25. CASE Keeps
  BY <1>25, ShownFacts DEF Keeps
<1>26. CASE Starts
  BY <1>26 DEF Starts, device
<1>6. ASSUME NEW s \in Slots, Found(s) PROVE OneSocket'
  BY <1>6 DEF Found, Opened, Unused, Wires, Devices
<1>7. CASE OnAccepted
  BY <1>7 DEF OnAccepted, Hears, Consumed, Wires, Devices
<1>8. CASE OnNeedsPairing
  BY <1>8 DEF OnNeedsPairing, Hears, Consumed, Shows, Wires, Devices
<1>9. CASE OnPairResult
  <2>1. CASE Disconnect
    BY <1>1, <1>2, <2>1 DEF Disconnect, Offline, Devices
  <2>2. CASE dev'.slot = dev.slot /\ dev'.state = "keeping" /\ wire' = Consumed
    BY <1>9, <2>2 DEF OnPairResult, Hears, Consumed, Wires
  <2> QED BY <1>9, <2>1, <2>2, Answered, TakesFacts
<1>10. CASE Disconnect
  BY <1>1, <1>2, <1>10 DEF Disconnect, Offline, Devices
<1>11. CASE CommitTick
  BY <1>11 DEF CommitTick
<1>12. ASSUME NEW s \in Slots, OnHello(s) PROVE OneSocket'
  <2>1. \A t \in Slots : wire'[t].open = wire[t].open
    BY <1>12, <1>4 DEF OnHello, Reply, Wires
  <2> QED BY <1>3, <1>12, <2>1 DEF OnHello, device
<1>13. ASSUME NEW s \in Slots, OnPair(s) PROVE OneSocket'
  BY <1>3, <1>13 DEF OnPair, Read, device, Wires
<1>14. ASSUME NEW s \in Slots, OnGrant(s) PROVE OneSocket'
  BY <1>3, <1>4, <1>14 DEF OnGrant, device
<1>15. ASSUME NEW s \in Slots, PairTimeout(s) PROVE OneSocket'
  BY <1>3, <1>4, <1>15 DEF PairTimeout, device
<1>16. ASSUME NEW s \in Slots, Ends(s) PROVE OneSocket'
  BY <1>3, <1>16 DEF Ends, device, Unused
<1>17. ASSUME NEW s \in Slots, TouchRead(s) \/ TouchWrite(s) PROVE OneSocket'
  BY <1>17 DEF TouchRead, TouchWrite, device
<1>18. CASE Expire \/ Unlock \/ ReadsCode \/ UserEnters \/ Unpair
  BY <1>18 DEF Expire, Unlock, ReadsCode, UserEnters, EntersCode, Unpair, device
<1>19. CASE Forget
  BY <1>1, <1>2, <1>19 DEF Forget, Offline, Devices
<1>20. CASE Reboot
  BY <1>1, <1>20 DEF Reboot, Offline, Unused, Devices
<1>21. CASE Stops
  BY <1>3, <1>21 DEF Stops, Unused, device
<1>22. ASSUME NEW s \in Slots, Cut(s) PROVE OneSocket'
  BY <1>3, <1>22 DEF Cut, Dead, device, Wires
<1>23. CASE UNCHANGED vars
  BY <1>23 DEF vars, device
<1> QED
  BY <1>5, <1>6, <1>7, <1>8, <1>9, <1>10, <1>11, <1>12, <1>13, <1>14, <1>15, <1>16, <1>17,
     <1>18, <1>19, <1>20, <1>21, <1>22, <1>23, <1>24, <1>25, <1>26
  DEF Next, Bridge, Connection, HearsClose, Silence, Gives, FoundGone

\* The token, in the bridge, in the store's RAM and on flash.
LEMMA StoredStep == IInv /\ [Next]_vars => Stored'
<1> SUFFICES ASSUME IInv, [Next]_vars PROVE Stored'
  OBVIOUS
<1> /\ Shape /\ Stored /\ dev \in Devices /\ flash \in Flashes
  BY DEF IInv, Shape
<1> USE DEF Stored, Written
<1>1. CASE flash' = flash /\ dev'.token = dev.token /\ (Free \/ dev'.state = dev.state)
  BY <1>1 DEF Free
<1>2. Offline.token = dev.token /\ Offline.state = "offline"
  BY DEF Offline, Devices
<1>3. CASE Disconnect /\ flash' = flash /\ Free
  BY <1>1, <1>2, <1>3 DEF Disconnect
<1>4. CASE Search \/ AsksAgain
  <2>1. 1 \in 1..MaxQueries /\ (AsksAgain => dev.asked + 1 \in 1..MaxQueries)
    BY DEF AsksAgain, Devices
  <2>2. dev'.token = dev.token
    BY <1>4, <2>1, Queried DEF Search, AsksAgain
  <2> QED BY <1>1, <1>4, <2>2 DEF Search, AsksAgain, Free
<1>5. ASSUME NEW s \in Slots, Found(s) PROVE Stored'
  BY <1>1, <1>5 DEF Found, Devices, Free
<1>6. CASE OnAccepted \/ Overhears
  BY <1>1, <1>6 DEF OnAccepted, Overhears, Hears, Devices, Free
<1>7. CASE OnNeedsPairing
  <2>1. dev'.token = NoToken /\ flash' = Sets(NoToken) /\ NoToken \in Tokens0
    BY <1>7 DEF OnNeedsPairing, Shows, Devices, Tokens0
  <2>2. flash'.set = NoToken
    BY <2>1, SetFacts
  <2> QED BY <2>1, <2>2
<1>8. CASE OnPairResult
  <2>1. PICK token \in Tokens0 : Hears("result") /\ ((Disconnect /\ UNCHANGED flash) \/ Takes(token))
    BY <1>8, Answered
  <2>2. CASE Takes(token)
    BY <2>2, TakesFacts
  <2> QED BY <1>3, <2>1, <2>2 DEF Hears
<1>9. CASE CommitTick
  <2>1. flash'.set = flash.set /\ (flash'.saved = flash'.set \/ flash'.missed) /\ dev' = dev
    BY <1>9, CommitFacts DEF CommitTick
  <2> QED BY <2>1
<1>13. CASE Keeps
  <2>1. flash'.set = flash.set /\ (flash'.saved = flash'.set \/ flash'.missed) /\ dev' = Shown
    BY <1>13, CommitFacts DEF Keeps
  <2> QED BY <2>1, ShownFacts
<1>10. CASE Forget
  <2>1. dev'.token = NoToken /\ flash' \in Commits(Sets(NoToken)) /\ NoToken \in Tokens0
    BY <1>10 DEF Forget, Offline, Devices, Tokens0
  <2>2. flash'.set = NoToken
    BY <2>1, SetFacts, CommitFacts
  <2> QED BY <2>1, <2>2
<1>11. CASE Reboot
  <2>1. dev'.token = flash.saved /\ flash'.set = flash.saved /\ flash'.saved = flash.saved
    BY <1>11 DEF Reboot, Offline, Devices, Flashes
  <2> QED BY <2>1
<1>12. CASE UNCHANGED device
  BY <1>12 DEF device
<1> QED
  BY <1>3, <1>4, <1>5, <1>6, <1>7, <1>8, <1>9, <1>10, <1>11, <1>12, <1>13
  DEF Next, Bridge, Connection, HearsClose, Silence, Gives, FoundGone, Free, OnHello, OnPair,
      OnGrant, PairTimeout, Ends, TouchRead, TouchWrite, Expire, Unlock, ReadsCode, UserEnters,
      EntersCode, Unpair, Stops, Starts, Cut, vars

\* Tokens are issued in order, each recorded, and none that was recorded is
\* forgotten without a trace.
LEMMA RecordsAll ==
  ASSUME Shape, NEW token \in Tokens0, Records(token)
  PROVE  /\ known' = token
         /\ Gone \subseteq Gone'
         /\ known # NoToken => known = token \/ known \in Gone'
  BY DEF Shape, Records, Gone

\* Every step keeps the account of the tokens; what is gone stays gone.
LEMMA AccountedStep == IInv /\ [Next]_vars => Accounted' /\ Gone \subseteq Gone' /\ issued <= issued'
<1> SUFFICES ASSUME IInv, [Next]_vars
             PROVE  Accounted' /\ Gone \subseteq Gone' /\ issued <= issued'
  OBVIOUS
<1> DEFINE A == Accounted' /\ Gone \subseteq Gone' /\ issued <= issued'
<1> Shape /\ flash.set = dev.token
  BY DEF IInv, Stored
<1> /\ dev \in Devices
    /\ flash \in Flashes
    /\ wire \in [Slots -> Wires] /\ ses \in [Slots -> Sessions] /\ touching \in [Slots -> Tokens0]
    /\ issued \in Int /\ \A t \in Tokens0 : t \in Int
  BY DEF IInv, Shape, Tokens0, Tokens
<1> /\ \A t \in 1..issued : t = known \/ t \in Gone
    /\ dev.token <= issued /\ flash.saved <= issued /\ 0 <= issued
    /\ \A s \in Slots : \A i \in 1..Len(ses[s].grants) : ses[s].grants[i] <= issued
  BY DEF IInv, Shape, Accounted, Tokens0, Tokens
<1> USE DEF Accounted
<1>1. ASSUME NEW g \in Grants, NEW h \in {g, <<>>}, \A i \in 1..Len(g) : g[i] <= issued
      PROVE  \A i \in 1..Len(h) : h[i] <= issued
  BY <1>1
<1>2. ASSUME UNCHANGED <<known, gone, issued>>,
             dev'.token <= issued, flash'.saved <= issued,
             \A s \in Slots : ses'[s].grants \in {ses[s].grants, <<>>}
      PROVE  A
  <2>1. \A s \in Slots : \A i \in 1..Len(ses'[s].grants) : ses'[s].grants[i] <= issued
    BY <1>1, <1>2, Edits
  <2> QED BY <1>2, <2>1 DEF Gone
<1>3. UNCHANGED device => dev'.token <= issued /\ flash'.saved <= issued
  BY DEF device
<1>4. Offline.token = dev.token
  BY DEF Offline, Devices
<1>5. CASE Disconnect /\ UNCHANGED <<flash, daemon, gone>>
  BY <1>2, <1>4, <1>5 DEF Disconnect, daemon
<1>6. CASE OnAccepted \/ Overhears
  BY <1>2, <1>6 DEF OnAccepted, Overhears, Devices, daemon, user
<1>21. CASE Search \/ AsksAgain
  <2>1. 1 \in 1..MaxQueries /\ (AsksAgain => dev.asked + 1 \in 1..MaxQueries)
    BY DEF AsksAgain, Devices
  <2>2. dev'.token = dev.token
    BY <1>21, <2>1, Queried DEF Search, AsksAgain
  <2> QED BY <1>2, <1>21, <2>2 DEF Search, AsksAgain, daemon
<1>22. CASE Keeps
  <2>1. flash'.saved \in {flash.saved, flash.set} /\ dev'.token = dev.token
    BY <1>22, CommitFacts, ShownFacts DEF Keeps
  <2> QED BY <1>2, <1>22, <2>1 DEF Keeps, daemon, user
<1>23. CASE Starts
  BY <1>2, <1>3, <1>23 DEF Starts, user
<1>7. ASSUME NEW s \in Slots, Found(s) PROVE A
  BY <1>2, <1>7 DEF Found, NoSession, Devices, user
<1>8. CASE OnNeedsPairing
  <2>1. dev'.token = NoToken /\ flash' = Sets(NoToken) /\ NoToken \in Tokens0
    BY <1>8 DEF OnNeedsPairing, Shows, Devices, Tokens0
  <2>2. flash'.saved = flash.saved
    BY <2>1, SetFacts
  <2> QED BY <1>2, <1>8, <2>1, <2>2 DEF OnNeedsPairing, daemon, user
<1>9. CASE OnPairResult
  <2>1. PICK token \in Tokens0 :
          /\ Hears("result") /\ token = Head(wire[dev.slot].down).token
          /\ \/ Disconnect /\ UNCHANGED flash
             \/ token # NoToken /\ Takes(token)
          /\ UNCHANGED <<daemon, user>>
    BY <1>9, Answered
  <2>2. CASE Disconnect /\ UNCHANGED flash
    BY <1>5, <2>1, <2>2 DEF user
  <2>3. CASE token # NoToken /\ Takes(token)
    <3>1. dev.slot \in Slots /\ ~wire[dev.slot].cut /\ wire[dev.slot].down \in Downs
          /\ wire[dev.slot].down # <<>> /\ Head(wire[dev.slot].down).t = "result"
      BY <2>1 DEF Hears, Devices, Wires
    <3>2. 1 \in 1..Len(wire[dev.slot].down) /\ Head(wire[dev.slot].down) = wire[dev.slot].down[1]
      BY <3>1, QueueFacts
    <3>3. token <= issued
      BY <2>1, <2>3, <3>1, <3>2 DEF IInv, Line, InOrder
    <3>4. dev'.token = token /\ flash'.saved = flash.saved
      BY <2>3, TakesFacts
    <3> QED BY <1>2, <2>1, <3>3, <3>4 DEF daemon, user
  <2> QED BY <2>1, <2>2, <2>3
<1>10. CASE CommitTick
  <2>1. flash'.saved \in {flash.saved, flash.set} /\ dev' = dev
    BY <1>10, CommitFacts DEF CommitTick
  <2> QED BY <1>2, <1>10, <2>1 DEF CommitTick, daemon, user
<1>11. ASSUME \A t \in Slots : ses'[t].grants \in {ses[t].grants, <<>>},
              UNCHANGED <<device, known, gone, issued>>
       PROVE  A
  BY <1>2, <1>3, <1>11
<1>12. ASSUME NEW s \in Slots,
              OnHello(s) \/ OnPair(s) \/ PairTimeout(s) \/ Ends(s) \/ TouchRead(s) \/ Cut(s)
       PROVE  A
  <2>1. UNCHANGED <<device, known, gone, issued>>
    BY <1>12 DEF OnHello, OnPair, PairTimeout, Ends, Ended, TouchRead, Cut, daemon, user
  <2>2. CASE OnHello(s)
    <3>1. \A t \in Slots : ses'[t].grants = ses[t].grants
      BY <2>2 DEF OnHello, Sessions
    <3> QED BY <1>11, <2>1, <3>1
  <2>3. CASE OnPair(s)
    <3>1. ses' \in {[ses EXCEPT ![s].since = TRUE], [ses EXCEPT ![s] = NoSession]}
      BY <2>3 DEF OnPair, Ended
    <3>2. CASE ses' = [ses EXCEPT ![s].since = TRUE]
      BY <1>11, <2>1, <3>2 DEF Sessions
    <3>3. CASE ses' = [ses EXCEPT ![s] = NoSession]
      BY <1>11, <2>1, <3>3 DEF NoSession
    <3> QED BY <3>1, <3>2, <3>3
  <2>4. CASE PairTimeout(s)
    <3>1. \A t \in Slots : ses'[t].grants = ses[t].grants
      BY <2>4 DEF PairTimeout, Sessions
    <3> QED BY <1>11, <2>1, <3>1
  <2>5. CASE Ends(s)
    <3>1. \A t \in Slots : ses'[t].grants \in {ses[t].grants, <<>>}
      BY <2>5 DEF Ends, Ended, NoSession
    <3> QED BY <1>11, <2>1, <3>1
  <2>6. CASE TouchRead(s) \/ Cut(s)
    BY <1>2, <1>3, <2>1, <2>6 DEF TouchRead, Cut, daemon
  <2> QED BY <1>12, <2>2, <2>3, <2>4, <2>5, <2>6
<1>13. ASSUME NEW s \in Slots, OnGrant(s) PROVE A
  <2>1. ses[s].grants \in Grants /\ ses[s].grants # <<>>
    BY <1>13 DEF OnGrant, Sessions
  <2>2. \A i \in 1..Len(Tail(ses[s].grants)) : Tail(ses[s].grants)[i] <= issued
    BY <2>1, QueueFacts
  <2>3. \A t \in Slots : ses'[t].grants = IF t = s THEN Tail(ses[s].grants) ELSE ses[t].grants
    BY <1>13 DEF OnGrant, NoSession
  <2>4. \A t \in Slots : \A i \in 1..Len(ses'[t].grants) : ses'[t].grants[i] <= issued
    BY <2>2, <2>3
  <2> QED BY SMTT(30), <1>3, <1>13, <2>4 DEF OnGrant, device, user, Gone
<1>14. ASSUME NEW s \in Slots, TouchWrite(s) PROVE A
  <2>1. /\ known' = touching[s] /\ Gone \subseteq Gone'
        /\ known # NoToken => known = touching[s] \/ known \in Gone'
    BY <1>14, RecordsAll DEF TouchWrite
  <2> QED BY <1>3, <1>14, <2>1 DEF TouchWrite, device
<1>15. CASE UserEnters
  <2>1. PICK code : EntersCode(code)
    BY <1>15 DEF UserEnters
  <2>2. CASE code = pending
    <3>1. /\ issued' = issued + 1 /\ Records(issued + 1) /\ Granted
          /\ UNCHANGED device /\ issued + 1 \in Tokens
      BY <2>1, <2>2 DEF EntersCode, Tokens, Shape, Tokens0
    <3>2. /\ known' = issued + 1 /\ Gone \subseteq Gone'
          /\ known # NoToken => known = issued + 1 \/ known \in Gone'
      BY <3>1, RecordsAll DEF Tokens0
    <3>3. \A s \in Slots : \A i \in 1..Len(ses'[s].grants) : ses'[s].grants[i] <= issued'
      <4>1. ASSUME NEW s \in Slots
            PROVE  ses'[s].grants \in {ses[s].grants, Append(ses[s].grants, issued + 1)}
        BY <3>1 DEF Granted, Sessions
      <4>2. ASSUME NEW g \in Grants, \A i \in 1..Len(g) : g[i] <= issued
            PROVE  \A i \in 1..Len(Append(g, issued + 1)) : Append(g, issued + 1)[i] <= issued + 1
        <5>1. /\ Len(g) \in Nat /\ Len(Append(g, issued + 1)) = Len(g) + 1
              /\ Append(g, issued + 1)[Len(g) + 1] = issued + 1
              /\ \A i \in 1..Len(g) : Append(g, issued + 1)[i] = g[i]
          BY <3>1, QueueFacts, QueueGrows DEF Grants
        <5>2. \A i \in 1..Len(g) : g[i] \in Int
          BY DEF Grants, Tokens
        <5>3. ASSUME NEW i \in 1..(Len(g) + 1)
              PROVE  Append(g, issued + 1)[i] <= issued + 1
          BY <4>2, <5>1, <5>2
        <5> QED BY <5>1, <5>3
      <4>3. ASSUME NEW g \in Grants, \A i \in 1..Len(g) : g[i] <= issued
            PROVE  \A i \in 1..Len(g) : g[i] <= issued + 1
        <5>1. \A i \in 1..Len(g) : g[i] \in Int
          BY DEF Grants, Tokens
        <5> QED BY <4>3, <5>1
      <4> QED BY <3>1, <4>1, <4>2, <4>3, Edits
    <3>4. \A t \in 1..issued' : t = known' \/ t \in Gone'
      BY <3>1, <3>2
    <3>5. dev'.token <= issued' /\ flash'.saved <= issued'
      <4>1. dev.token \in Int /\ flash.saved \in Int
        BY DEF Devices, Flashes
      <4> QED BY <3>1, <4>1 DEF device
    <3> QED BY <3>1, <3>2, <3>3, <3>4, <3>5
  <2>3. CASE code # pending
    BY <1>2, <1>3, <2>1, <2>3 DEF EntersCode, device
  <2> QED BY <2>2, <2>3
<1>16. CASE Expire \/ Unlock \/ ReadsCode
  BY <1>2, <1>3, <1>16 DEF Expire, Unlock, ReadsCode, device, daemon, user
<1>17. CASE Unpair
  BY <1>3, <1>17 DEF Unpair, device, Gone
<1>18. CASE Forget \/ Reboot
  <2>1. CASE Forget
    <3>0. dev'.token = NoToken /\ flash' \in Commits(Sets(NoToken)) /\ NoToken \in Tokens0
      BY <2>1 DEF Forget, Offline, Devices, Tokens0
    <3>1. dev'.token = NoToken /\ flash'.saved \in {NoToken, flash.saved}
      BY <3>0, SetFacts, CommitFacts
    <3> QED BY <1>2, <2>1, <3>1 DEF Forget, daemon
  <2>2. CASE Reboot
    <3>1. dev'.token = flash.saved /\ flash'.saved = flash.saved
      BY <2>2 DEF Reboot, Offline, Devices, Flashes
    <3> QED BY <1>2, <2>2, <3>1 DEF Reboot, daemon
  <2> QED BY <1>18, <2>1, <2>2
<1>19. CASE Stops
  BY <1>2, <1>3, <1>19 DEF Stops, NoSession, device
<1>20. CASE UNCHANGED vars
  BY <1>2, <1>3, <1>20 DEF vars, daemon, user
<1> QED
  BY <1>5, <1>6, <1>7, <1>8, <1>9, <1>10, <1>12, <1>13, <1>14, <1>15, <1>16, <1>17,
     <1>18, <1>19, <1>20, <1>21, <1>22, <1>23
  DEF Next, Bridge, Connection, HearsClose, Silence, Gives, FoundGone, user

-----------------------------------------------------------------------------
(* What is said over a connection.                                         *)

\* A connection that the device has let go of: nothing more comes down.
LEMMA Apart ==
  ASSUME NEW s \in Slots, dev'.slot # s, wire'[s].down = <<>>,
         wire'[s].cut => wire'[s].up = <<>>,
         Has(wire'[s].up, "hello") => Len(wire'[s].up) = 1 /\ ses'[s].state = "new"
  PROVE  Line(s)'
  BY DEF Line, Delivers, GreetedOnce, AcceptedAlone, InOrder, Agrees, Has

\* One of the device's older connections, or a slot nobody uses.
LEMMA Elsewhere ==
  ASSUME IInv, NEW s \in Slots, dev.slot # s
  PROVE  wire[s].down = <<>> /\ ~wire[s].open
  BY DEF IInv, OneSocket, Line, Delivers

\* It stays so, whatever the device does with its new connection.
LEMMA ElsewhereStays ==
  ASSUME IInv, NEW s \in Slots, dev.slot # s, dev'.slot # s,
         wire'[s] = wire[s], ses'[s].state = ses[s].state
  PROVE  Line(s)'
<1>1. wire[s].down = <<>>
  BY Elsewhere
<1>2. Line(s)
  BY DEF IInv
<1> QED BY <1>1, <1>2, Apart DEF Line, Delivers, GreetedOnce

\* A step that leaves a connection and the device's view of it alone.
LEMMA LineKept ==
  ASSUME IInv, NEW s \in Slots, wire'[s] = wire[s], ses'[s].state = ses[s].state,
         dev' = dev, Written => Written',
         Gone \subseteq Gone', issued <= issued', issued' \in Int
  PROVE  Line(s)'
<1> Line(s) /\ Shape
  BY DEF IInv
<1> wire[s] \in Wires
  BY DEF Shape
<1> issued \in Int
  BY DEF Shape, Tokens0, Tokens
<1>1. (Delivers(s) /\ GreetedOnce(s) /\ AcceptedAlone(s) /\ Agrees(s))'
       \/ (wire[s].cut /\ (Delivers(s) /\ GreetedOnce(s) /\ AcceptedAlone(s))')
  BY DEF Line, Delivers, GreetedOnce, AcceptedAlone, Agrees, AsksFirst, Has
<1>2. ASSUME ~wire[s].cut PROVE InOrder(s)'
  <2>1. InOrder(s) /\ (Lost => Lost') /\ (AsksFirst(s)' <=> AsksFirst(s))
    BY <1>2 DEF Line, Lost, AsksFirst
  <2>2. \A i \in 1..Len(wire[s].down) : wire[s].down[i].t = "result" => wire[s].down[i].token \in Int
    BY DEF Wires, Downs, DownMessage, Tokens0, Tokens
  <2> QED BY <2>1, <2>2 DEF InOrder
<1> QED BY <1>1, <1>2 DEF Line

\* disconnect(), and what else ends the device's connection.
LEMMA HungUp ==
  ASSUME IInv, dev'.slot = NoSlot, ses' = ses, wire' = Closed, NEW s \in Slots
  PROVE  Line(s)'
<1> Line(s) /\ wire[s] \in Wires /\ wire \in [Slots -> Wires] /\ dev.slot \in Slots \cup {NoSlot}
  BY DEF IInv, Shape, Devices
<1>1. CASE dev.slot # s
  <2>1. wire'[s] = wire[s]
    BY <1>1 DEF Closed
  <2> QED BY <1>1, <2>1, ElsewhereStays
<1>2. CASE dev.slot = s /\ ses[s].state = "none"
  <2>1. wire'[s] = Unused
    BY <1>2 DEF Closed
  <2> QED BY <2>1, Apart DEF Unused, Has
<1>3. CASE dev.slot = s /\ ses[s].state # "none"
  <2>1. wire'[s] = [wire[s] EXCEPT !.open = FALSE, !.down = <<>>]
    BY <1>3 DEF Closed
  <2>2. /\ wire'[s].down = <<>> /\ wire'[s].up = wire[s].up /\ wire'[s].cut = wire[s].cut
    BY <2>1 DEF Wires
  <2> QED BY <2>2, Apart DEF Line, Delivers, GreetedOnce
<1> QED BY <1>1, <1>2, <1>3

\* The device's steps.
LEMMA LineDevice ==
  ASSUME IInv, Bridge, NEW s \in Slots PROVE Line(s)'
<1> /\ Shape /\ OneSocket /\ Stored /\ Accounted /\ Line(s)
    /\ wire[s] \in Wires /\ wire \in [Slots -> Wires] /\ ses \in [Slots -> Sessions]
    /\ dev \in Devices
    /\ issued \in Int
  BY DEF IInv, Shape, Tokens0, Tokens
<1> wire[s].up \in Ups /\ wire[s].down \in Downs
  BY DEF Wires
<1>1. ASSUME NEW kind, Hears(kind), dev.slot = s
      PROVE  /\ ~wire[s].cut /\ wire[s].down # <<>> /\ 1 \in 1..Len(wire[s].down)
             /\ wire[s].down[1].t = kind /\ ses[s].state # "new"
             /\ ~Has(wire[s].up, "hello")
             /\ Consumed = [wire EXCEPT ![s].down = Tail(@)]
  BY <1>1, QueueFacts DEF Hears, Consumed, Line, GreetedOnce
<1>2. ASSUME dev.slot # s, dev'.slot = dev.slot, ses' = ses, wire' = Consumed \/ wire'[s] = wire[s]
      PROVE  Line(s)'
  BY <1>2, ElsewhereStays DEF Consumed
<1>3. CASE Search \/ AsksAgain
  <2>1. 1 \in 1..MaxQueries /\ (AsksAgain => dev.asked + 1 \in 1..MaxQueries)
    BY DEF AsksAgain, Devices
  <2>2. dev'.slot = dev.slot /\ dev.slot = NoSlot /\ wire' = wire /\ ses' = ses
    BY <1>3, <2>1, Queried DEF Search, AsksAgain, OneSocket, daemon
  <2> QED BY <2>2, ElsewhereStays
<1>4. ASSUME NEW t \in Slots, Found(t) PROVE Line(s)'
  <2>1. dev.slot = NoSlot /\ dev'.slot = t
    BY <1>4 DEF Found, OneSocket
  <2>2. CASE t # s
    <3>1. wire'[s] = wire[s] /\ ses'[s] = ses[s]
      BY <1>4, <2>2 DEF Found
    <3> QED BY <2>1, <2>2, <3>1, ElsewhereStays
  <2>3. CASE t = s
    <3>1. /\ wire'[s].up = <<Greeting>> /\ wire'[s].down = <<>>
          /\ wire'[s].open /\ ~wire'[s].cut
          /\ ses'[s].state = "new" /\ dev'.token = dev.token /\ dev'.state = "connecting"
      BY <1>4, <2>3 DEF Found, Opened, Unused, NoSession, Devices
    <3> QED BY <3>1 DEF Line, Delivers, GreetedOnce, AcceptedAlone, InOrder, Agrees, Has, Greeting
  <2> QED BY <2>2, <2>3
<1>5. CASE OnAccepted
  <2>1. /\ Hears("accepted") /\ dev' = [dev EXCEPT !.state = "ready"] /\ wire' = Consumed
        /\ UNCHANGED <<flash, ses, gone, issued>>
        /\ dev'.slot = dev.slot /\ dev'.token = dev.token
    BY <1>5 DEF OnAccepted, daemon, user, Devices
  <2>2. CASE dev.slot = s
    <3>1. /\ Has(wire[s].down, "accepted") /\ ~wire[s].cut /\ ~Has(wire[s].up, "hello")
          /\ wire' = [wire EXCEPT ![s].down = Tail(@)] /\ ses[s].state # "new"
          /\ wire[s].down # <<>>
      BY <1>1, <2>1, <2>2 DEF Has
    <3>2. Len(wire[s].down) = 1 /\ ses[s].state \in {"ready", "none"}
      BY <3>1 DEF Line, AcceptedAlone
    <3>3. Tail(wire[s].down) = <<>>
      BY <3>2, QueueFacts
    <3>4. wire'[s].down = <<>> /\ wire'[s].up = wire[s].up /\ ~wire'[s].cut
      BY <3>1, <3>3 DEF Wires
    <3> QED BY <2>1, <3>1, <3>2, <3>4
            DEF Line, Delivers, GreetedOnce, AcceptedAlone, InOrder, Agrees, Has
  <2> QED BY <1>2, <2>1, <2>2
<1>6. CASE OnNeedsPairing
  <2>1. PICK code \in Codes :
          /\ Hears("needs_pairing") /\ dev' = [Shows(code) EXCEPT !.token = NoToken]
          /\ wire' = [Consumed EXCEPT ![dev.slot].up = Append(@, [t |-> "pair", code |-> code])]
          /\ UNCHANGED <<ses, gone, issued>>
    BY <1>6 DEF OnNeedsPairing, daemon, user
  <2>2. dev'.slot = dev.slot /\ dev'.token = NoToken /\ dev'.state = "pairing"
    BY <2>1 DEF Shows, Devices
  <2>3. CASE dev.slot = s
    <3>1. /\ ~wire[s].cut /\ wire[s].down # <<>> /\ 1 \in 1..Len(wire[s].down)
          /\ wire[s].down[1].t = "needs_pairing" /\ ses[s].state # "new"
          /\ ~Has(wire[s].up, "hello")
          /\ Consumed = [wire EXCEPT ![s].down = Tail(@)]
      BY <1>1, <2>1, <2>3
    <3>2. /\ wire'[s].down = Tail(wire[s].down) /\ ~wire'[s].cut /\ wire'[s].open = wire[s].open
          /\ wire'[s].up = Append(wire[s].up, [t |-> "pair", code |-> code])
      BY <2>1, <2>3, <3>1 DEF Wires
    <3>3. ~Has(wire'[s].up, "hello")
      <4> DEFINE e == [t |-> "pair", code |-> code]
      <4>1. e \in UpMessage /\ e.t = "pair"
        BY DEF UpMessage
      <4>2. /\ Len(wire'[s].up) = Len(wire[s].up) + 1 /\ wire'[s].up[Len(wire[s].up) + 1] = e
            /\ \A i \in 1..Len(wire[s].up) : wire'[s].up[i] = wire[s].up[i]
            /\ Len(wire[s].up) \in Nat
        BY <3>2, <4>1, QueueGrows, QueueFacts DEF Ups
      <4> HIDE DEF e
      <4>3. ASSUME NEW i \in 1..(Len(wire[s].up) + 1) PROVE wire'[s].up[i].t # "hello"
        <5>1. CASE i = Len(wire[s].up) + 1
          BY <4>1, <4>2, <5>1
        <5>2. CASE i # Len(wire[s].up) + 1
          <6>1. i \in 1..Len(wire[s].up)
            BY <4>2, <5>2
          <6> QED BY <3>1, <4>2, <6>1 DEF Has
        <5> QED BY <5>1, <5>2
      <4> QED BY <4>2, <4>3 DEF Has
    <3>4. ~Has(wire[s].down, "accepted")
      <4>1. \A i \in 1..Len(wire[s].down) : Len(wire[s].down) = 1 => i = 1
        BY QueueFacts
      <4> QED BY <3>1, <4>1 DEF Line, AcceptedAlone, Has
    <3>5. \A i \in 1..Len(wire'[s].down) :
             i + 1 \in 1..Len(wire[s].down) /\ wire'[s].down[i] = wire[s].down[i + 1]
      BY <3>1, <3>2, QueueFacts
    <3>6. ~Has(wire'[s].down, "accepted")
      BY <3>4, <3>5 DEF Has
    <3>7. Len(wire'[s].down) = Len(wire[s].down) - 1
      BY <3>1, <3>2, QueueFacts
    <3>8. InOrder(s)'
      <4>1. ASSUME NEW i \in 1..Len(wire'[s].down)
            PROVE  /\ wire'[s].down[i].t # "needs_pairing"
                   /\ wire'[s].down[i].t = "result" /\ wire'[s].down[i].token # NoToken =>
                        /\ i = Len(wire'[s].down) /\ ses[s].state \in {"ready", "none"}
                        /\ wire'[s].down[i].token <= issued
        <5>1. i + 1 \in 1..Len(wire[s].down) /\ i + 1 # 1 /\ Len(wire[s].down) \in Nat
              /\ wire'[s].down[i] = wire[s].down[i + 1]
          BY <3>5, QueueFacts
        <5>2. InOrder(s)
          BY <3>1 DEF Line
        <5> HIDE DEF IInv
        <5> QED BY <3>7, <5>1, <5>2 DEF InOrder
      <4> QED BY <2>1, <2>2, <4>1 DEF InOrder
    <3> QED BY <2>1, <2>2, <3>1, <3>2, <3>3, <3>6, <3>8
            DEF Line, Delivers, GreetedOnce, AcceptedAlone, Agrees
  <2>4. CASE dev.slot # s
    <3>1. wire'[s] = wire[s]
      BY <2>1, <2>4 DEF Consumed
    <3> QED BY <1>2, <2>1, <2>2, <2>4, <3>1
  <2> QED BY <2>3, <2>4
<1>7. CASE OnPairResult
  <2>1. PICK token \in Tokens0 :
          /\ Hears("result") /\ token = Head(wire[dev.slot].down).token
          /\ Disconnect \/ (token # NoToken /\ wire' = Consumed /\ Takes(token))
          /\ UNCHANGED <<ses, gone, issued>>
    BY <1>7, Answered DEF daemon, user
  <2>2. CASE Disconnect
    BY <2>1, <2>2, HungUp DEF Disconnect, Offline
  <2>3. CASE token # NoToken /\ wire' = Consumed /\ Takes(token) /\ dev.slot = s
    <3>1. /\ ~wire[s].cut /\ wire[s].down # <<>> /\ 1 \in 1..Len(wire[s].down)
          /\ wire[s].down[1].t = "result" /\ ses[s].state # "new"
          /\ ~Has(wire[s].up, "hello")
          /\ wire' = [wire EXCEPT ![s].down = Tail(@)]
      BY <1>1, <2>1, <2>3
    <3>2. token = wire[s].down[1].token
      BY <2>1, <2>3, <3>1, QueueFacts
    <3>3. Len(wire[s].down) = 1 /\ ses[s].state \in {"ready", "none"}
      BY <2>3, <3>1, <3>2 DEF Line, InOrder
    <3>4. Tail(wire[s].down) = <<>>
      BY <3>3, QueueFacts
    <3>5. wire'[s].down = <<>> /\ wire'[s].up = wire[s].up /\ ~wire'[s].cut
      BY <3>1, <3>4 DEF Wires
    <3>6. dev'.slot = s
      BY <2>3, TakesFacts
    <3> QED BY SMTT(30), <2>1, <3>1, <3>3, <3>5, <3>6
            DEF Line, Delivers, GreetedOnce, AcceptedAlone, InOrder, Agrees, Has
  <2>4. CASE wire' = Consumed /\ Takes(token) /\ dev.slot # s
    BY <1>2, <2>1, <2>4, TakesFacts
  <2> QED BY <2>1, <2>2, <2>3, <2>4
<1>8. CASE HearsClose \/ Silence \/ FoundGone
  <2>1. Disconnect /\ ses' = ses
    BY <1>8 DEF HearsClose, Silence, FoundGone, daemon
  <2>2. dev'.slot = NoSlot /\ wire' = Closed
    BY <2>1 DEF Disconnect, Offline, Devices
  <2> QED BY <2>1, <2>2, HungUp
<1>9. CASE Keeps
  <2>1. /\ dev.state = "keeping" /\ dev'.state = "ready"
        /\ dev'.slot = dev.slot /\ dev'.token = dev.token
        /\ flash'.saved = flash'.set \/ flash'.missed
        /\ UNCHANGED <<wire, ses, gone, issued>>
    BY <1>9, CommitFacts, ShownFacts DEF Keeps, daemon, user, IInv, Shape
  <2>2. CASE dev.slot # s
    BY <2>1, <2>2, ElsewhereStays
  <2>3. CASE dev.slot = s
    <3>1. (Delivers(s) /\ GreetedOnce(s) /\ AcceptedAlone(s))'
      BY <2>1, <2>3 DEF Line, Delivers, GreetedOnce, AcceptedAlone, Written
    <3>2. (~wire[s].cut => InOrder(s) /\ Agrees(s))'
      BY <2>1, <2>3 DEF Line, InOrder, Agrees, Lost, Gone, AsksFirst
    <3> QED BY <3>1, <3>2 DEF Line
  <2> QED BY <2>2, <2>3
<1> QED BY <1>3, <1>4, <1>5, <1>6, <1>7, <1>8, <1>9 DEF Bridge

\* The daemon's steps.
LEMMA LineDaemon ==
  ASSUME IInv, Accounted', Gone \subseteq Gone', issued <= issued', issued' \in Int,
         NEW t \in Slots, Connection(t), NEW s \in Slots
  PROVE  Line(s)'
<1> /\ Shape /\ OneSocket /\ Stored /\ Accounted /\ Line(s)
    /\ wire[s] \in Wires /\ wire \in [Slots -> Wires] /\ ses \in [Slots -> Sessions]
    /\ issued \in Int /\ flash.set = dev.token /\ dev.token <= issued
  <2>1. Shape /\ OneSocket /\ Stored /\ Accounted /\ Line(s)
    BY DEF IInv
  <2>2. /\ wire[s] \in Wires /\ wire \in [Slots -> Wires] /\ ses \in [Slots -> Sessions]
        /\ issued \in Int
    BY <2>1 DEF Shape, Tokens0, Tokens
  <2> QED BY <2>1, <2>2 DEF Accounted, Stored
<1> wire[s].up \in Ups /\ wire[s].down \in Downs
  BY DEF Wires
<1>1. UNCHANGED device
  BY DEF Connection, OnHello, OnPair, OnGrant, PairTimeout, Ends, TouchRead, TouchWrite
<1>2. dev' = dev /\ flash' = flash
  BY <1>1 DEF device
<1>3. CASE wire'[s] = wire[s] /\ ses'[s].state = ses[s].state
  BY <1>2, <1>3, LineKept DEF Written
<1>4. CASE TouchRead(t) \/ TouchWrite(t)
  BY <1>3, <1>4 DEF TouchRead, TouchWrite
<1>5. CASE t # s
  BY <1>3, <1>5 DEF Connection, OnHello, OnPair, OnGrant, PairTimeout, Ends, Ended, TouchRead, TouchWrite, Reply, Read
<1>6. CASE t = s /\ OnHello(s)
  <2> DEFINE token == Head(wire[s].up).token
             msg == [t |-> IF Lookup(token) THEN "accepted" ELSE "needs_pairing"]
  <2>1. /\ wire[s].up # <<>> /\ Head(wire[s].up).t = "hello" /\ ~wire[s].cut
        /\ ses'[s].state = IF Lookup(token) THEN "ready" ELSE "awaiting"
        /\ wire' = [Reply(s, msg) EXCEPT ![s].up = Tail(@)]
    BY <1>6 DEF OnHello, Hear, Sessions
  <2>2. 1 \in 1..Len(wire[s].up) /\ Head(wire[s].up) = wire[s].up[1]
    BY <2>1, QueueFacts
  <2>3. /\ Len(wire[s].up) = 1 /\ ses[s].state = "new" /\ wire[s].down = <<>>
        /\ dev.slot = s => token = dev.token
    BY <2>1, <2>2 DEF Line, GreetedOnce, Has
  <2>4. Tail(wire[s].up) = <<>>
    BY <2>3, QueueFacts
  <2>5. /\ wire'[s].up = <<>> /\ ~wire'[s].cut /\ wire'[s].open = wire[s].open
        /\ wire'[s].down = IF wire[s].open THEN <<msg>> ELSE <<>>
    BY <2>1, <2>3, <2>4 DEF Reply, Wires
  <2> HIDE DEF token, msg
  <2>6. CASE ~wire[s].open
    <3>1. dev'.slot # s /\ wire'[s].down = <<>> /\ ~Has(wire'[s].up, "hello")
      <4>1. ~Has(<<>>, "hello")
        BY DEF Has
      <4> QED BY <1>2, <2>5, <2>6, <4>1 DEF OneSocket
    <3> QED BY <2>5, <3>1, Apart
  <2>7. CASE wire[s].open
    <3>1. dev.slot = s /\ token = dev.token /\ wire'[s].down = <<msg>>
      BY <2>3, <2>5, <2>7 DEF OneSocket
    <3>2. Len(wire'[s].down) = 1 /\ wire'[s].down[1] = msg
      BY <3>1
    <3>3. (Delivers(s) /\ GreetedOnce(s))'
      <4>1. ses'[s].state # "new" /\ ~Has(wire'[s].up, "hello")
        BY <2>1, <2>5 DEF Has
      <4> QED BY <2>5, <2>7, <4>1 DEF Delivers, GreetedOnce
    <3>4. CASE Lookup(token)
      <4>1. msg.t = "accepted" /\ ses'[s].state = "ready"
        BY <2>1, <3>4 DEF msg
      <4>2. Written'
        <5>1. dev.state # "keeping" /\ dev.token # NoToken
          BY <2>3, <2>1, <3>1, <3>4 DEF Line, Agrees, Lookup
        <5> QED BY <1>2, <5>1 DEF Stored, Written
      <4>3. (AcceptedAlone(s) /\ InOrder(s) /\ Agrees(s))'
        BY <3>2, <4>1, <4>2 DEF AcceptedAlone, InOrder, Agrees, Has
      <4> QED BY <3>3, <4>3 DEF Line
    <3>5. CASE ~Lookup(token)
      <4>1. Lost'
        <5>1. dev.token \in Tokens0 /\ (dev.token = NoToken \/ dev.token # known)
          BY <3>1, <3>5 DEF Lookup, Shape, Devices
        <5>2. dev.token \in 1..issued \/ dev.token = NoToken
          BY <5>1 DEF Tokens0, Tokens
        <5> QED BY <1>2, <5>1, <5>2 DEF Lost, Accounted
      <4>2. msg.t = "needs_pairing" /\ ses'[s].state = "awaiting"
        BY <2>1, <3>5 DEF msg
      <4>3. (InOrder(s) /\ AcceptedAlone(s))'
        BY <3>2, <4>1, <4>2 DEF InOrder, AcceptedAlone, Has
      <4>4. AsksFirst(s)' /\ dev'.state \notin {"keeping", "ready"}
        <5>1. dev.state \notin {"keeping", "ready"}
          BY <2>1, <2>3, <3>1 DEF Line, Agrees
        <5> QED BY <1>2, <3>2, <4>2, <5>1 DEF AsksFirst
      <4> QED BY <3>3, <4>2, <4>3, <4>4 DEF Line, Agrees
    <3> QED BY <3>4, <3>5
  <2> QED BY <2>6, <2>7
<1>7. CASE t = s /\ OnPair(s)
  <2>1. /\ wire[s].up # <<>> /\ Head(wire[s].up).t = "pair" /\ ~wire[s].cut
        /\ wire' = [wire EXCEPT ![s].up = Tail(@)]
        /\ ses'[s].state = IF ses[s].state = "awaiting" THEN "awaiting" ELSE "none"
    BY <1>7 DEF OnPair, Hear, Read, Ended, NoSession, Sessions
  <2>2. wire'[s].up = Tail(wire[s].up) /\ wire'[s].down = wire[s].down
        /\ wire'[s].open = wire[s].open /\ ~wire'[s].cut
    BY <2>1 DEF Wires
  <2>3. ~Has(wire[s].up, "hello")
    <3>1. 1 \in 1..Len(wire[s].up) /\ Head(wire[s].up) = wire[s].up[1] /\ Len(wire[s].up) \in Nat
      BY <2>1, QueueFacts
    <3>2. SUFFICES ASSUME Has(wire[s].up, "hello") PROVE FALSE
      OBVIOUS
    <3>3. Len(wire[s].up) = 1
      BY <3>2 DEF Line, GreetedOnce
    <3> QED BY <2>1, <3>1, <3>2, <3>3 DEF Has
  <2>4. ~Has(wire'[s].up, "hello")
    BY <2>1, <2>2, <2>3, QueueFacts DEF Has
  <2>5. (Delivers(s) /\ GreetedOnce(s) /\ AcceptedAlone(s))'
    BY <1>2, <2>1, <2>2, <2>4 DEF Line, Delivers, GreetedOnce, AcceptedAlone, Written
  <2>6. Lost => Lost'
    BY <1>2 DEF Lost
  <2>7. InOrder(s)'
    <3>1. \A i \in 1..Len(wire[s].down) :
            wire[s].down[i].t = "result" => wire[s].down[i].token \in Int
      BY DEF Downs, DownMessage, Tokens0, Tokens
    <3> QED BY <1>2, <2>1, <2>2, <2>6, <3>1 DEF Line, InOrder, AsksFirst
  <2>8. Agrees(s)'
    BY <1>2, <2>1, <2>2 DEF Line, Agrees, AsksFirst
  <2> QED BY <2>5, <2>7, <2>8 DEF Line
<1>8. ASSUME NEW msg \in DownMessage, t = s, ses[s].state = "awaiting", msg.t = "result",
             wire' = Reply(s, msg),
             IF msg.token = NoToken THEN ses'[s].state = "awaiting"
             ELSE ses'[s].state = "ready" /\ msg.token <= issued'
      PROVE  Line(s)'
  <2>1. /\ wire'[s].up = wire[s].up /\ wire'[s].cut = wire[s].cut
        /\ wire'[s].open = wire[s].open
        /\ wire'[s].down = IF wire[s].open THEN Append(wire[s].down, msg) ELSE wire[s].down
    BY <1>8 DEF Reply, Wires
  <2>2. ~Has(wire'[s].up, "hello") /\ ses'[s].state \in {"awaiting", "ready"}
    BY <1>8, <2>1 DEF Line, GreetedOnce
  <2>3. CASE ~wire[s].open
    BY <1>2, <2>1, <2>2, <2>3, Apart DEF OneSocket, Line, Delivers
  <2>4. CASE wire[s].open
    <3> DEFINE q == wire[s].down
    <3>1. /\ wire'[s].down = Append(q, msg) /\ dev.slot = s
          /\ Len(wire'[s].down) = Len(q) + 1 /\ wire'[s].down[Len(q) + 1] = msg
          /\ \A i \in 1..Len(q) : wire'[s].down[i] = q[i]
          /\ Len(q) \in Nat
      BY <2>1, <2>4, QueueGrows, QueueFacts DEF Downs, OneSocket
    <3>2. ~Has(q, "accepted")
      BY <1>8 DEF Line, AcceptedAlone
    <3>3. ~Has(wire'[s].down, "accepted")
      BY <1>8, <3>1, <3>2 DEF Has
    <3>4. (Delivers(s) /\ GreetedOnce(s) /\ AcceptedAlone(s))'
      BY <2>1, <2>2, <2>4, <3>3 DEF Line, Delivers, GreetedOnce, AcceptedAlone
    <3>5. ASSUME ~wire[s].cut PROVE (InOrder(s) /\ Agrees(s))'
      <4>1. InOrder(s) /\ Agrees(s)
        BY <3>5 DEF Line
      <4>2. dev.token = NoToken \/ AsksFirst(s)
        BY <1>8, <3>1, <4>1 DEF Agrees
      <4>3. dev'.token = NoToken \/ AsksFirst(s)'
        BY <1>2, <3>1, <4>2, QueueFacts DEF AsksFirst
      <4>4. Lost => Lost'
        BY <1>2 DEF Lost
      <4>5. ASSUME NEW i \in 1..Len(q)
            PROVE  /\ q[i].t = "needs_pairing" => i = 1 /\ Lost'
                   /\ q[i].t = "result" => q[i].token = NoToken
        BY <1>8, <4>1, <4>4 DEF InOrder
      <4>6. InOrder(s)'
        <5>1. ASSUME NEW i \in 1..(Len(q) + 1) PROVE
                /\ wire'[s].down[i].t = "needs_pairing" => i = 1 /\ Lost'
                /\ wire'[s].down[i].t = "result" /\ wire'[s].down[i].token # NoToken =>
                     i = Len(q) + 1 /\ ses'[s].state = "ready" /\ wire'[s].down[i].token <= issued'
          <6>1. CASE i = Len(q) + 1
            BY <1>8, <3>1, <6>1
          <6>2. CASE i # Len(q) + 1
            <7>1. i \in 1..Len(q)
              BY <3>1, <6>2
            <7> QED BY <3>1, <4>5, <7>1
          <6> QED BY <6>1, <6>2
        <5> QED BY <3>1, <4>3, <5>1 DEF InOrder
      <4>7. dev.state \notin {"keeping", "ready"}
        BY <1>8, <3>1, <4>1 DEF Agrees
      <4> QED BY <1>2, <4>3, <4>6, <4>7 DEF Agrees
    <3> QED BY <2>1, <3>4, <3>5 DEF Line
  <2> QED BY <2>3, <2>4
<1>9. CASE t = s /\ OnGrant(s)
  <2>1. CASE ses[s].state = "awaiting"
    <3> DEFINE token == Head(ses[s].grants)
    <3>1. token \in Tokens /\ token <= issued
      <4>1. ses[s].grants \in Grants /\ ses[s].grants # <<>>
        BY <1>9 DEF OnGrant, Sessions
      <4>2. token \in Tokens /\ 1 \in 1..Len(ses[s].grants) /\ token = ses[s].grants[1]
        BY <4>1, Queues, QueueFacts
      <4> QED BY <4>2 DEF Accounted
    <3>2. /\ wire' = Reply(s, Paired(token)) /\ ses'[s].state = "ready"
      BY <1>9, <2>1 DEF OnGrant, NoSession
    <3>3. Paired(token) \in DownMessage /\ Paired(token).t = "result" /\ Paired(token).token = token
      BY <3>1 DEF Paired, DownMessage, Tokens0
    <3> HIDE DEF token
    <3>4. token # NoToken /\ token <= issued'
      BY <3>1 DEF Tokens
    <3> QED BY <1>8, <1>9, <2>1, <3>2, <3>3, <3>4
  <2>2. CASE ses[s].state # "awaiting"
    BY <1>3, <1>9, <2>2 DEF OnGrant, NoSession
  <2> QED BY <2>1, <2>2
<1>10. CASE t = s /\ PairTimeout(s)
  <2>1. Refused \in DownMessage /\ Refused.t = "result" /\ Refused.token = NoToken
    BY DEF Refused, Paired, DownMessage, Tokens0
  <2>2. /\ ses[s].state = "awaiting" /\ ses'[s].state = "awaiting"
        /\ wire' = Reply(s, Refused)
    BY <1>10 DEF PairTimeout, Sessions
  <2> QED BY <1>8, <1>10, <2>1, <2>2
<1>11. CASE t = s /\ Ends(s)
  <2>1. /\ wire[s].up = <<>> /\ ses'[s].state = "none"
        /\ wire'[s] = IF wire[s].open THEN wire[s] ELSE Unused
    BY <1>11 DEF Ends, Ended, NoSession, Line, Delivers
  <2>2. CASE ~wire[s].open
    <3>1. dev'.slot # s
      BY <1>2, <2>2 DEF OneSocket
    <3>2. wire'[s].down = <<>> /\ wire'[s].up = <<>> /\ ~Has(wire'[s].up, "hello")
      BY <2>1, <2>2 DEF Unused, Has
    <3> QED BY <3>1, <3>2, Apart
  <2>3. CASE wire[s].open
    <3>1. Lost => Lost'
      BY <1>2 DEF Lost
    <3>2. \A i \in 1..Len(wire[s].down) :
            wire[s].down[i].t = "result" => wire[s].down[i].token \in Int
      BY DEF Downs, DownMessage, Tokens0, Tokens
    <3>3. ~wire[s].cut => InOrder(s)'
      BY <1>2, <2>1, <2>3, <3>1, <3>2 DEF Line, InOrder, AsksFirst
    <3> QED BY <1>2, <2>1, <2>3, <3>3
        DEF Line, Delivers, GreetedOnce, AcceptedAlone, Agrees, Has, Written, AsksFirst
  <2> QED BY <2>2, <2>3
<1> QED BY <1>4, <1>5, <1>6, <1>7, <1>9, <1>10, <1>11 DEF Connection

\* The user's steps and the faults.
LEMMA LineStep ==
  ASSUME IInv, [Next]_vars, NEW s \in Slots PROVE Line(s)'
<1>1. Accounted' /\ Gone \subseteq Gone' /\ issued <= issued'
  BY AccountedStep
<1>2. issued \in Int /\ issued' \in Int
  BY ShapeStep DEF IInv, Shape, Tokens0, Tokens
<1> wire[s] \in Wires /\ Line(s) /\ OneSocket /\ Shape
  BY DEF IInv, Shape
<1>3. CASE Bridge
  BY <1>3, LineDevice
<1>4. ASSUME NEW t \in Slots, Connection(t) PROVE Line(s)'
  BY <1>1, <1>2, <1>4, LineDaemon
<1>5. CASE dev' = dev /\ flash' = flash /\ wire' = wire /\ ses'[s].state = ses[s].state
  BY <1>1, <1>2, <1>5, LineKept DEF Written
<1>6. CASE Expire \/ Unlock \/ ReadsCode \/ Unpair \/ Starts \/ UNCHANGED vars
  BY <1>5, <1>6 DEF Expire, Unlock, ReadsCode, Unpair, Starts, device, daemon, vars
<1>12. CASE CommitTick
  <2>1. /\ UNCHANGED <<dev, wire, ses, gone, issued>>
        /\ flash'.saved = flash'.set \/ flash'.missed
    BY <1>12, CommitFacts DEF CommitTick, daemon, user, Shape
  <2> QED BY <1>1, <1>2, <2>1, LineKept DEF Written
<1>13. CASE Overhears
  <2>1. dev.slot = NoSlot /\ dev'.slot = dev.slot /\ wire' = wire /\ ses' = ses
    BY <1>13 DEF Overhears, OneSocket, Shape, Devices, daemon
  <2> QED BY <2>1, ElsewhereStays
<1>7. CASE UserEnters
  <2>1. PICK code : EntersCode(code)
    BY <1>7 DEF UserEnters
  <2>2. dev' = dev /\ flash' = flash /\ wire' = wire
    BY <2>1 DEF EntersCode, device
  <2>3. ses'[s].state = ses[s].state
    <3>1. Granted \/ ses' = ses
      BY <2>1 DEF EntersCode
    <3> QED BY SMTT(30), <3>1 DEF Granted, Shape, Sessions
  <2> QED BY <1>5, <2>2, <2>3
<1>8. CASE Forget \/ Gives
  <2>1. dev'.slot = NoSlot /\ ses' = ses /\ wire' = Closed
    <3>1. CASE Forget
      BY <3>1 DEF Forget, Offline, daemon
    <3>2. CASE Gives
      BY <3>2 DEF Gives, Disconnect, Offline, daemon
    <3> QED BY <1>8, <3>1, <3>2
  <2> QED BY <2>1, HungUp
<1>9. CASE Reboot
  <2>1. dev'.slot = NoSlot /\ ses' = ses
    BY <1>9 DEF Reboot, Offline, daemon
  <2>2. CASE dev.slot # s
    <3>1. wire'[s] = wire[s]
      BY <1>9, <2>2 DEF Reboot
    <3> QED BY <2>1, <2>2, <3>1, ElsewhereStays
  <2>3. CASE dev.slot = s
    <3>1. wire'[s].up = <<>> /\ wire'[s].down = <<>> /\ ~Has(wire'[s].up, "hello")
      BY <1>9, <2>3 DEF Reboot, Unused, Shape, Has
    <3> QED BY <2>1, <3>1, Apart
  <2> QED BY <2>2, <2>3
<1>10. CASE Stops
  <2>1. /\ dev' = dev /\ flash' = flash /\ gone' = gone /\ issued' = issued
        /\ ses'[s].state = "none"
        /\ wire'[s] = IF wire[s].open THEN [wire[s] EXCEPT !.up = <<>>] ELSE Unused
    BY <1>10 DEF Stops, device, NoSession
  <2>2. CASE ~wire[s].open
    <3>1. dev'.slot # s /\ wire'[s].down = <<>> /\ ~wire'[s].cut /\ ~Has(wire'[s].up, "hello")
      BY <2>1, <2>2 DEF OneSocket, Unused, Has
    <3> QED BY <3>1, Apart
  <2>3. CASE wire[s].open
    <3>1. /\ wire'[s].up = <<>> /\ wire'[s].down = wire[s].down /\ wire'[s].open
          /\ wire'[s].cut = wire[s].cut /\ ~Has(wire'[s].up, "hello")
      BY <2>1, <2>3 DEF Wires, Has
    <3>2. Lost => Lost'
      BY <1>1, <2>1 DEF Lost
    <3>3. ~wire[s].cut => InOrder(s)'
      BY <2>1, <3>1, <3>2 DEF Line, InOrder, AsksFirst
    <3> QED BY <2>1, <3>1, <3>3
            DEF Line, Delivers, GreetedOnce, AcceptedAlone, Agrees, AsksFirst, Written
  <2> QED BY <2>2, <2>3
<1>11. ASSUME NEW t \in Slots, Cut(t) PROVE Line(s)'
  <2>1. dev' = dev /\ flash' = flash /\ ses' = ses
    BY <1>11 DEF Cut, device, daemon
  <2>2. CASE t # s
    <3>1. wire'[s] = wire[s]
      BY <1>11, <2>2 DEF Cut, Dead, Shape
    <3> QED BY <1>1, <1>2, <2>1, <3>1, LineKept DEF Written
  <2>3. CASE t = s
    <3>1. wire'[s].cut /\ wire'[s].up = <<>> /\ wire'[s].down = <<>>
      BY <1>11, <2>3 DEF Cut, Dead, Shape, Wires
    <3> QED BY <3>1 DEF Line, Delivers, GreetedOnce, AcceptedAlone, Has
  <2> QED BY <2>2, <2>3
<1> QED
  BY <1>3, <1>4, <1>6, <1>7, <1>8, <1>9, <1>10, <1>11, <1>12, <1>13 DEF Next

-----------------------------------------------------------------------------
(* What the device shows, and what the daemon lists.                       *)

\* A device becomes ready by an accepted greeting, whose token is committed, or
\* by a grant, which on_pair_result commits: or the commit missed it.
LEMMA CommittedStep == IInv /\ [Next]_vars => SurvivesReboot'
<1> SUFFICES ASSUME IInv, [Next]_vars PROVE SurvivesReboot'
  OBVIOUS
<1> USE DEF SurvivesReboot
<1> /\ SurvivesReboot /\ flash.set = dev.token
    /\ dev \in Devices
    /\ flash \in Flashes
  BY DEF IInv, Stored, Shape
<1>0. Offline.state = "offline"
  BY DEF Offline, Devices
<1>1. CASE dev'.state # "ready"
  BY <1>1
<1>2. CASE Disconnect
  BY <1>0, <1>1, <1>2 DEF Disconnect
<1>3. CASE Search \/ AsksAgain
  <2>1. 1 \in 1..MaxQueries /\ (AsksAgain => dev.asked + 1 \in 1..MaxQueries)
    BY DEF AsksAgain, Devices
  <2>2. dev'.state = "searching"
    BY <1>3, <2>1, Queried DEF Search, AsksAgain, IInv
  <2> QED BY <1>1, <2>2
<1>4. ASSUME NEW s \in Slots, Found(s) PROVE SurvivesReboot'
  BY <1>1, <1>4 DEF Found, Devices
<1>5. CASE OnAccepted
  <2>1. /\ dev'.token = dev.token /\ flash' = flash /\ Hears("accepted")
    BY <1>5 DEF OnAccepted, Devices
  <2>2. dev.slot \in Slots /\ wire[dev.slot].down \in Downs /\ Line(dev.slot)
    BY <2>1 DEF Hears, IInv, Shape, Devices, Wires
  <2>3. Has(wire[dev.slot].down, "accepted")
    BY <2>1, <2>2, QueueFacts DEF Hears, Has
  <2>4. Written
    BY <2>2, <2>3 DEF Line, AcceptedAlone
  <2> QED BY <2>1, <2>4 DEF Written
<1>6. CASE OnNeedsPairing
  BY <1>1, <1>6 DEF OnNeedsPairing, Shows, Devices
<1>7. CASE OnPairResult
  <2>1. PICK token \in Tokens0 : Disconnect \/ Takes(token)
    BY <1>7, Answered DEF IInv
  <2>2. CASE Takes(token)
    BY <1>1, <2>2, TakesFacts DEF IInv
  <2> QED BY <1>2, <2>1, <2>2
<1>8. CASE CommitTick \/ Keeps
  <2>1. flash'.set = flash.set /\ (flash'.saved = flash'.set \/ flash'.missed)
    BY <1>8, CommitFacts DEF CommitTick, Keeps
  <2>2. dev'.token = dev.token
    BY <1>8, ShownFacts DEF CommitTick, Keeps, IInv
  <2> QED BY <2>1, <2>2
<1>9. CASE Forget \/ Reboot
  BY <1>1, <1>9 DEF Forget, Reboot, Offline, Devices
<1>10. CASE UNCHANGED device
  BY <1>10 DEF device
<1>11. CASE Overhears
  BY <1>1, <1>11 DEF Overhears, Devices
<1> QED
  BY <1>2, <1>3, <1>4, <1>5, <1>6, <1>7, <1>8, <1>9, <1>10, <1>11
  DEF Next, Bridge, Connection, HearsClose, Silence, Gives, FoundGone, OnHello, OnPair, OnGrant,
      PairTimeout, Ends, TouchRead, TouchWrite, Expire, Unlock, ReadsCode, UserEnters, EntersCode,
      Unpair, Stops, Starts, Cut, vars

\* A session leaves "ready" only when it ends, and then its device is unlisted;
\* one that reads a greeting has not been let in before.
LEMMA ListedStep == IInv /\ [Next]_vars => ListedIsLive'
<1> SUFFICES ASSUME IInv, [Next]_vars PROVE ListedIsLive'
  OBVIOUS
<1> USE DEF ListedIsLive
<1> ListedIsLive /\ ses \in [Slots -> Sessions] /\ listed \in BOOLEAN
  BY DEF IInv, Shape
<1>1. ASSUME listed' => listed, \A s \in Slots : ses[s].state = "ready" => ses'[s].state = "ready"
      PROVE  ListedIsLive'
  BY <1>1
<1>2. ASSUME NEW s \in Slots, ses'[s].state = "ready" PROVE ListedIsLive'
  BY <1>2
<1>3. ASSUME NEW s \in Slots, Ended(s) PROVE ListedIsLive'
  <2>1. CASE ses[s].state = "ready"
    BY <1>3, <2>1 DEF Ended
  <2>2. CASE ses[s].state # "ready"
    <3>1. listed' => listed
      BY <1>3 DEF Ended
    <3>2. \A t \in Slots : ses[t].state = "ready" => ses'[t].state = "ready"
      BY <1>3, <2>2 DEF Ended
    <3> QED BY <1>1, <3>1, <3>2
  <2> QED BY <2>1, <2>2
<1>4. ASSUME NEW s \in Slots, Found(s) PROVE ListedIsLive'
  <2>1. listed' = listed /\ \A t \in Slots : ses[t].state = "ready" => ses'[t].state = "ready"
    BY <1>4 DEF Found
  <2> QED BY <1>1, <2>1
<1>5. ASSUME NEW s \in Slots, OnHello(s) PROVE ListedIsLive'
  <2>1. ses[s].state = "new"
    <3>1. wire[s].up \in Ups /\ wire[s].up # <<>> /\ Head(wire[s].up).t = "hello"
      BY <1>5 DEF OnHello, Hear, IInv, Shape, Wires
    <3>2. Has(wire[s].up, "hello")
      BY <3>1, QueueFacts DEF Has
    <3> QED BY <3>2 DEF IInv, Line, GreetedOnce
  <2> DEFINE ok == Lookup(Head(wire[s].up).token)
  <2>2. /\ ses' = [ses EXCEPT ![s].state = IF ok THEN "ready" ELSE "awaiting"]
        /\ listed' = (listed \/ ok)
    BY <1>5 DEF OnHello, Announces
  <2> HIDE DEF ok
  <2>3. CASE ok
    <3>1. ses'[s].state = "ready"
      BY <2>2, <2>3 DEF Sessions
    <3> QED BY <1>2, <3>1
  <2>4. CASE ~ok
    <3>1. listed' = listed
      BY <2>2, <2>4
    <3>2. \A t \in Slots : ses[t].state = "ready" => ses'[t].state = "ready"
      BY <2>1, <2>2
    <3> QED BY <1>1, <3>1, <3>2
  <2> QED BY <2>3, <2>4
<1>6. ASSUME NEW s \in Slots, OnPair(s) PROVE ListedIsLive'
  <2>1. CASE Ended(s)
    BY <1>3, <2>1
  <2>2. CASE ses' = [ses EXCEPT ![s].since = TRUE] /\ listed' = listed
    <3>1. \A t \in Slots : ses'[t].state = ses[t].state
      BY <2>2 DEF Sessions
    <3> QED BY <1>1, <2>2, <3>1
  <2> QED BY <1>6, <2>1, <2>2 DEF OnPair
<1>7. ASSUME NEW s \in Slots, OnGrant(s) PROVE ListedIsLive'
  <2>1. CASE ses[s].state = "awaiting"
    <3>1. ses'[s].state = "ready"
      BY <1>7, <2>1 DEF OnGrant, NoSession
    <3> QED BY <1>2, <3>1
  <2>2. CASE ses[s].state # "awaiting"
    <3>1. listed' = listed /\ \A t \in Slots : ses'[t].state = ses[t].state
      BY <1>7, <2>2 DEF OnGrant, NoSession, Announces
    <3> QED BY <1>1, <3>1
  <2> QED BY <2>1, <2>2
<1>8. ASSUME NEW s \in Slots, PairTimeout(s) PROVE ListedIsLive'
  <2>1. listed' = listed /\ \A t \in Slots : ses'[t].state = ses[t].state
    BY <1>8 DEF PairTimeout, Sessions
  <2> QED BY <1>1, <2>1
<1>9. ASSUME NEW s \in Slots, Ends(s) PROVE ListedIsLive'
  BY <1>3, <1>9 DEF Ends
<1>10. CASE UserEnters
  <2>1. PICK code : EntersCode(code)
    BY <1>10 DEF UserEnters
  <2>2. listed' = listed /\ (Granted \/ ses' = ses)
    BY <2>1 DEF EntersCode
  <2>3. \A t \in Slots : ses'[t].state = ses[t].state
    BY <2>2 DEF Granted, Sessions
  <2> QED BY <1>1, <2>2, <2>3
<1>11. CASE Stops
  BY <1>11 DEF Stops
<1>12. CASE UNCHANGED <<ses, listed>>
  BY <1>1, <1>12
<1> QED
  BY <1>4, <1>5, <1>6, <1>7, <1>8, <1>9, <1>10, <1>11, <1>12
  DEF Next, Bridge, Connection, Search, AsksAgain, Overhears, FoundGone, Keeps, Starts, OnAccepted,
      OnNeedsPairing, OnPairResult, HearsClose, Silence, CommitTick, TouchRead, TouchWrite, Expire, Unlock, ReadsCode, Forget, Unpair,
      Gives, Reboot, Cut, daemon, vars

\* The program starts in the invariant.
LEMMA IInvInit == Init => IInv
<1> SUFFICES ASSUME Init PROVE IInv
  OBVIOUS
<1> USE DEF Init
<1>1. Shape
  <2>1. wire \in [Slots -> Wires] /\ ses \in [Slots -> Sessions]
    BY NoSessionType, UnusedType
  <2>2. dev \in Devices
    BY DEF Devices, States, Tokens0, Codes0
  <2>3. flash \in Flashes /\ touching \in [Slots -> Tokens0]
    BY DEF Flashes, Tokens0
  <2>4. failed \in 0..(MaxFailed - 1) /\ upset \in 0..MaxUpset
    OBVIOUS
  <2>5. /\ known \in Tokens0 /\ issued \in Tokens0 /\ pending \in Codes0 /\ noted \in Codes0
        /\ locked \in BOOLEAN /\ listed \in BOOLEAN /\ running \in BOOLEAN
        /\ gone \in [unpaired : SUBSET Tokens, replaced : SUBSET Tokens]
    BY DEF Tokens0, Codes0
  <2> QED BY <2>1, <2>2, <2>3, <2>4, <2>5 DEF Shape
<1>2. OneSocket /\ Stored /\ Accounted
  BY DEF OneSocket, Stored, Written, Accounted, Unused, NoSession
<1>3. ASSUME NEW s \in Slots PROVE Line(s)
  BY DEF Line, Delivers, GreetedOnce, AcceptedAlone, InOrder, Agrees, Has, Unused, NoSession
<1>4. SurvivesReboot /\ ListedIsLive
  BY DEF SurvivesReboot, ListedIsLive
<1> QED BY <1>1, <1>2, <1>3, <1>4 DEF IInv

\* Every step keeps it.
LEMMA IInvStep == IInv /\ [Next]_vars => IInv'
<1> SUFFICES ASSUME IInv, [Next]_vars PROVE IInv'
  OBVIOUS
<1>1. Shape'
  BY ShapeStep DEF IInv
<1>2. OneSocket' /\ Stored' /\ Accounted'
  BY SocketStep, StoredStep, AccountedStep
<1>3. \A s \in Slots : Line(s)'
  BY LineStep
<1> QED BY <1>1, <1>2, <1>3, CommittedStep, ListedStep DEF IInv

\* So it holds for ever.
LEMMA SpecIInv == Spec => []IInv
  BY IInvInit, IInvStep, PTL DEF Spec

-----------------------------------------------------------------------------
(* The properties that the run checks.                                     *)

\* Every variable has its type, whatever the two ends and the user do.
THEOREM TypeCorrect == Spec => []TypeOK
<1>1. IInv => TypeOK
  BY ShapeIsType DEF IInv
<1> QED BY <1>1, SpecIInv, PTL

\* A device that shows itself connected over a link that delivers was let in by
\* the session at the other end.
THEOREM LetIn == Spec => []ReadyAgrees
<1>1. IInv => ReadyAgrees
  <2> SUFFICES ASSUME IInv, dev.state = "ready", ~wire[dev.slot].cut
               PROVE  ses[dev.slot].state \in {"ready", "none"}
    BY DEF ReadyAgrees
  <2>1. dev.slot \in Slots
    BY DEF IInv, Shape, Devices, OneSocket
  <2> QED BY <2>1 DEF IInv, Line, Agrees
<1> QED BY <1>1, SpecIInv, PTL

\* From the moment a device shows itself connected, the token it would start
\* with is the token it has, unless the last commit missed it (on_pair_result
\* commits before it says so, and does not look at what the commit returns).
THEOREM TokenIsOnFlash == Spec => []SurvivesReboot
<1>1. IInv => SurvivesReboot
  BY DEF IInv
<1> QED BY <1>1, SpecIInv, PTL

\* A device that the daemon lists as present has a session that was let in,
\* however many stale sessions of it the daemon still holds.
THEOREM PresenceIsTrue == Spec => []ListedIsLive
<1>1. IInv => ListedIsLive
  BY DEF IInv
<1> QED BY <1>1, SpecIInv, PTL

\* The token that a device has changes only when the device is asked to pair, is
\* granted one, restarts or is told to forget.
LEMMA TokenChanges ==
  ASSUME IInv, [Next]_vars, dev'.token # dev.token
  PROVE  OnNeedsPairing \/ OnPairResult \/ Forget \/ Reboot
<1> dev \in Devices /\ Shape
  BY DEF IInv, Shape
<1>1. dev' # dev /\ ~Disconnect
  <2>1. Offline.token = dev.token
    BY DEF Offline, Devices
  <2> QED BY <2>1 DEF Disconnect
<1>2. ~OnAccepted /\ ~Overhears /\ \A s \in Slots : ~Found(s)
  BY DEF OnAccepted, Overhears, Found, Devices
<1>3. ~Search /\ ~AsksAgain
  <2>1. 1 \in 1..MaxQueries /\ (AsksAgain => dev.asked + 1 \in 1..MaxQueries)
    BY DEF AsksAgain, Devices
  <2> QED BY <2>1, Queried DEF Search, AsksAgain
<1>4. ~Keeps
  BY ShownFacts DEF Keeps
<1> QED
  BY <1>1, <1>2, <1>3, <1>4
  DEF Next, Bridge, Connection, HearsClose, Silence, Gives, FoundGone, CommitTick, OnHello, OnPair,
      OnGrant, PairTimeout, Ends, TouchRead, TouchWrite, Expire, Unlock, ReadsCode, UserEnters,
      EntersCode, Unpair, Stops, Starts, Cut, device, vars

\* A device whose token the daemon still has, neither unpaired nor replaced,
\* loses it only by its user's own forget, or with the power when no commit has
\* brought it to flash.
THEOREM PairingHolds == Spec => PairingSticks
<1> DEFINE Sticks ==
      dev'.token # dev.token /\ dev.token \notin gone.unpaired \cup gone.replaced \cup {NoToken} =>
        dev'.state = "offline" /\ (Forgotten \/ NotKept)
<1>1. IInv /\ [Next]_vars => [Sticks]_vars
  <2> SUFFICES ASSUME IInv, [Next]_vars, dev'.token # dev.token, ~Lost
               PROVE  dev'.state = "offline" /\ (Forgotten \/ NotKept)
    BY DEF Lost, Gone
  <2> dev \in Devices /\ flash \in Flashes /\ Shape /\ flash.set = dev.token
    BY DEF IInv, Shape, Stored
  <2>1. ASSUME NEW kind, Hears(kind)
        PROVE  /\ dev.slot \in Slots /\ 1 \in 1..Len(wire[dev.slot].down)
               /\ Head(wire[dev.slot].down) = wire[dev.slot].down[1]
               /\ wire[dev.slot].down[1].t = kind /\ InOrder(dev.slot)
    <3>1. dev.slot \in Slots /\ wire[dev.slot].down \in Downs /\ Line(dev.slot)
      BY <2>1 DEF Hears, IInv, Shape, Devices, Wires
    <3> QED BY <2>1, <3>1, QueueFacts DEF Hears, Line
  <2>2. CASE OnNeedsPairing
    <3>1. Hears("needs_pairing")
      BY <2>2 DEF OnNeedsPairing
    <3> QED BY <2>1, <3>1 DEF InOrder
  <2>3. CASE OnPairResult
    <3>1. Hears("result")
      BY <2>3 DEF OnPairResult
    <3> QED BY <2>1, <3>1 DEF InOrder, AsksFirst, Lost
  <2>4. CASE Forget
    <3>1. /\ dev'.token = NoToken /\ dev'.state = "offline" /\ NoToken \in Tokens0
          /\ flash' \in Commits(Sets(NoToken))
      BY <2>4 DEF Forget, Offline, Devices, Tokens0
    <3>2. flash'.set = NoToken /\ (flash'.saved = flash'.set \/ flash'.missed)
      BY <3>1, SetFacts, CommitFacts
    <3> QED BY <3>1, <3>2 DEF Forgotten
  <2>5. CASE Reboot
    <3>1. dev'.token = flash.saved /\ dev'.state = "offline"
      BY <2>5 DEF Reboot, Offline, Devices
    <3>2. dev.state = "keeping" \/ flash.missed
      BY <3>1 DEF IInv, Stored, Written, Lost
    <3> QED BY <3>1, <3>2 DEF NotKept
  <2> QED BY <2>2, <2>3, <2>4, <2>5, TokenChanges
<1>2. Spec => [][Sticks]_vars
  BY <1>1, SpecIInv, PTL DEF Spec
<1> QED BY <1>2 DEF PairingSticks
=============================================================================
