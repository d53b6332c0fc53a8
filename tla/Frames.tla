-------------------------------- MODULE Frames --------------------------------
(***************************************************************************)
(* The device's end of a WebSocket, nev_ws.c: from the upgrade on, frames  *)
(* that TCP cuts anywhere on the way in, and one frame at a time on the    *)
(* way out, which the socket may take piece by piece.  One nev_ws_poll is  *)
(* its beginning and a step for every frame it looks at.                   *)
(*                                                                         *)
(* A byte is a number.  A frame is its opcode, its length in one byte or   *)
(* in an extended one, and its payload; masks, and the text of the upgrade *)
(* beyond what decides about it, are left out.                             *)
(***************************************************************************)
EXTENDS Integers, Sequences

CONSTANTS FlattenSeq(_), IsPrefix(_, _)   \* those of SequencesExt, which Bytes extends

CONSTANTS
  Responses,  \* what the peer may answer the upgrade with
  Inbound,    \* frames that the peer may send: opcode and payload
  Outbound,   \* payloads that the bridge sends
  Short,      \* 125, the longest length in one byte
  RxCap,      \* NEV_WS_RX_CAP, and the size of rx
  MaxIn,      \* bound: frames that the peer sends
  MaxOut      \* bound: frames that the device queues

Request == <<0, 0>>       \* the upgrade request
Accepted == <<101, 13>>   \* 101 with the accept value for our key, and the empty line
HeadEnd == 13
Bin == 2  Close == 8  Ping == 9  Pong == 10   Fragment == 0
Extended == 126

\* Bytes are numbers; an answer that accepts the upgrade ends with its empty line.
Parameters ==
  /\ Responses \subseteq Seq(Nat) /\ Outbound \subseteq Seq(Nat)
  /\ \A r \in Responses : IsPrefix(Accepted, r) => r = Accepted
  /\ Inbound \subseteq [op : Nat, payload : Seq(Nat)]
  /\ Short \in Nat /\ Short < Extended
  /\ RxCap \in Nat

VARIABLES
  ws,      \* nev_ws_t: state, rx, pending_consume
  tx,      \* the part of tx from tx_sent on
  polling, \* nev_ws_poll is among its frames
  wire,    \* what the peer has sent and the device has not read; and: it has closed
  sent,    \* history: frames that the peer has sent
  got,     \* history: messages handed to the bridge
  queued,  \* history: frames that the device has queued
  out      \* what the peer has received

vars == <<ws, tx, polling, wire, sent, got, queued, out>>

\* nev_ws_frame_write, and what the peer does likewise.
Encoded(op, payload) ==
  <<op>> \o (IF Len(payload) <= Short THEN <<Len(payload)>> ELSE <<Extended, Len(payload)>>)
  \o payload

\* nev_ws_open.
Init ==
  /\ ws = [state |-> "connecting", rx |-> <<>>, pending |-> 0]
  /\ tx = Request
  /\ polling = FALSE
  /\ wire = [bytes |-> <<>>, closed |-> FALSE]
  /\ sent = <<>> /\ got = <<>> /\ queued = <<>> /\ out = <<>>

-----------------------------------------------------------------------------
(* The peer.                                                               *)

PeerAnswers(response) ==
  /\ Len(out) = Len(Request) /\ ws.state = "upgrading" /\ ws.rx = <<>> /\ wire.bytes = <<>>
  /\ ~wire.closed
  /\ wire' = [wire EXCEPT !.bytes = response]
  /\ UNCHANGED <<ws, tx, polling, sent, got, queued, out>>

\* It answers a whole request, sends frames once it has accepted it, and stops.
PeerSends(f) ==
  /\ ~wire.closed /\ Len(sent) < MaxIn
  /\ ws.state = "open" \/ (ws.state = "upgrading" /\ IsPrefix(Accepted, ws.rx \o wire.bytes))
  /\ wire' = [wire EXCEPT !.bytes = @ \o Encoded(f.op, f.payload)]
  /\ sent' = Append(sent, f)
  /\ UNCHANGED <<ws, tx, polling, got, queued, out>>

PeerCloses ==
  /\ ~wire.closed
  /\ wire' = [wire EXCEPT !.closed = TRUE]
  /\ UNCHANGED <<ws, tx, polling, sent, got, queued, out>>

-----------------------------------------------------------------------------
(* Sending.                                                                *)

\* flush_tx: as much of t as the socket takes.
Flushed(t, keeps) ==
  \E k \in 0..Len(t) :
    /\ tx' = SubSeq(t, k + 1, Len(t))
    /\ out' = out \o SubSeq(t, 1, k)
    /\ keeps

Queue(op, payload, keeps) ==
  /\ queued' = Append(queued, Encoded(op, payload))
  /\ Flushed(Encoded(op, payload), keeps)

Fail == ws' = [ws EXCEPT !.state = "closed"]

\* nev_ws_send: refused while a frame is still going out.
Send(payload) ==
  /\ ~polling /\ ws.state = "open" /\ tx = <<>> /\ Len(queued) < MaxOut
  /\ Queue(Bin, payload, UNCHANGED ws) \/ (Fail /\ UNCHANGED <<tx, queued, out>>)
  /\ UNCHANGED <<polling, wire, sent, got>>

\* Mutant: a pong does not wait for the frame that is going out.
SendControlOver(op, payload) == Queue(op, payload, TRUE)

\* send_control: a frame that cannot go out now is not sent at all.
SendControl(op, payload) ==
  IF tx # <<>> THEN UNCHANGED <<tx, queued, out>> ELSE Queue(op, payload, TRUE)

\* nev_ws_close, with a frame to say so when it can.
CloseIt ==
  /\ ~polling /\ ws.state # "closed"
  /\ IF ws.state = "open" THEN SendControl(Close, <<>>) ELSE UNCHANGED <<tx, queued, out>>
  /\ ws' = [state |-> "closed", rx |-> <<>>, pending |-> 0]
  /\ UNCHANGED <<polling, wire, sent, got>>

-----------------------------------------------------------------------------
(* nev_ws_poll.                                                            *)

\* nev_net_recv of at most room bytes: -1 once the peer has closed and all it sent
\* has been read.
Received(room) ==
  0..(IF Len(wire.bytes) < room THEN Len(wire.bytes) ELSE room)
    \union IF wire.closed /\ wire.bytes = <<>> THEN {-1} ELSE {}
Reads(n) == SubSeq(wire.bytes, 1, n)
LeavesOnWire(n) == wire' = [wire EXCEPT !.bytes = SubSeq(@, n + 1, Len(@))]

Connects ==
  /\ ws.state = "connecting"
  /\ ws' \in {[ws EXCEPT !.state = s] : s \in {"upgrading", "closed"}}
  /\ UNCHANGED <<tx, polling, wire, sent, got, queued, out>>

\* poll_upgrade: up to the empty line; what follows it is frames already.
Upgraded(rx) ==
  IF ~\E i \in DOMAIN rx : rx[i] = HeadEnd
  THEN IF Len(rx) + 2 >= RxCap THEN [ws EXCEPT !.state = "closed"] ELSE [ws EXCEPT !.rx = rx]
  ELSE IF IsPrefix(Accepted, rx)
       THEN [ws EXCEPT !.state = "open", !.rx = SubSeq(rx, Len(Accepted) + 1, Len(rx))]
       ELSE [ws EXCEPT !.state = "closed"]

PollUpgrade ==
  /\ ws.state = "upgrading"
  /\ Flushed(tx, IF tx' # <<>> THEN UNCHANGED <<ws, wire>>
                 ELSE \E n \in Received(RxCap - Len(ws.rx) - 1) :
                        IF n < 0 THEN Fail /\ UNCHANGED wire
                        ELSE ws' = Upgraded(ws.rx \o Reads(n)) /\ LeavesOnWire(n))
  /\ UNCHANGED <<polling, sent, got, queued>>

\* The flush fails: the link is dead.
LinkIsDead ==
  /\ ws.state \in {"upgrading", "open"} /\ ~polling /\ tx # <<>>
  /\ Fail
  /\ UNCHANGED <<tx, polling, wire, sent, got, queued, out>>

\* The message handed out last is dropped, and whatever has arrived is read.
PollOpen ==
  /\ ws.state = "open" /\ ~polling
  /\ LET kept == SubSeq(ws.rx, ws.pending + 1, Len(ws.rx))
     IN Flushed(tx, \E n \in Received(RxCap - Len(kept)) :
          IF n < 0 THEN Fail /\ UNCHANGED <<wire, polling>>
          ELSE /\ ws' = [ws EXCEPT !.rx = kept \o Reads(n), !.pending = 0]
               /\ LeavesOnWire(n)
               /\ polling' = TRUE)
  /\ UNCHANGED <<sent, got, queued>>

\* nev_ws_frame_read: a frame that is there, one that is not all there, or no frame.
HeadLen(b) == IF b[2] = Extended THEN 3 ELSE 2
HasHead(b) == Len(b) >= 2 /\ Len(b) >= HeadLen(b)
PayloadLen(b) == b[HeadLen(b)]
Malformed(b) ==
  \/ Len(b) >= 2 /\ b[1] = Fragment
  \/ HasHead(b) /\ PayloadLen(b) > RxCap
  \/ HasHead(b) /\ b[2] = Extended /\ PayloadLen(b) <= Short
FrameLen(b) == HeadLen(b) + PayloadLen(b)
Whole(b) == HasHead(b) /\ Len(b) >= FrameLen(b)
Payload(b) == SubSeq(b, HeadLen(b) + 1, FrameLen(b))
AfterFrame(b) == [ws EXCEPT !.rx = SubSeq(b, FrameLen(b) + 1, Len(b))]

\* A message is handed out where it lies; it is dropped by the next poll.
Message ==
  /\ Whole(ws.rx) /\ ws.rx[1] = Bin
  /\ got' = Append(got, Payload(ws.rx))
  /\ ws' = [ws EXCEPT !.pending = FrameLen(ws.rx)]
  /\ polling' = FALSE
  /\ UNCHANGED <<tx, queued, out>>

Control ==
  /\ Whole(ws.rx) /\ ws.rx[1] \in {Ping, Pong}
  /\ ws' = AfterFrame(ws.rx)
  /\ IF ws.rx[1] = Ping THEN SendControl(Pong, Payload(ws.rx)) ELSE UNCHANGED <<tx, queued, out>>
  /\ UNCHANGED <<polling, got>>

\* Not all there: none of it counts, and no more of it will fit a full buffer.
NeedsMore ==
  /\ ~Whole(ws.rx)
  /\ polling' = FALSE
  /\ IF Len(ws.rx) = RxCap THEN Fail ELSE UNCHANGED ws
  /\ UNCHANGED <<tx, got, queued, out>>

\* Close, text, and what is not known.
Refuses ==
  /\ Whole(ws.rx) /\ ws.rx[1] \notin {Bin, Ping, Pong}
  /\ Fail /\ polling' = FALSE
  /\ UNCHANGED <<tx, got, queued, out>>

PollFrame ==
  /\ polling
  /\ IF Malformed(ws.rx) THEN Fail /\ polling' = FALSE /\ UNCHANGED <<tx, got, queued, out>>
     ELSE Message \/ Control \/ NeedsMore \/ Refuses
  /\ UNCHANGED <<wire, sent>>

Next ==
  \/ \E r \in Responses : PeerAnswers(r)
  \/ \E f \in Inbound : PeerSends(f)
  \/ PeerCloses
  \/ \E p \in Outbound : Send(p)
  \/ CloseIt
  \/ Connects
  \/ PollUpgrade
  \/ LinkIsDead
  \/ PollOpen
  \/ PollFrame

-----------------------------------------------------------------------------

TypeOK ==
  /\ ws.state \in {"connecting", "upgrading", "open", "closed"}
  /\ ws.rx \in Seq(Nat) /\ Len(ws.rx) <= RxCap /\ ws.pending \in 0..Len(ws.rx)
  /\ tx \in Seq(Nat) /\ out \in Seq(Nat)
  /\ polling \in BOOLEAN
  /\ sent \in Seq(Inbound) /\ Len(got) <= Len(sent)

Messages(frames) ==
  FlattenSeq([i \in DOMAIN frames |->
                IF frames[i].op = Bin THEN <<frames[i].payload>> ELSE <<>>])

\* The bridge gets the messages of the daemon, whole, in their order and each once,
\* wherever TCP cut them and whatever control frames lay between; and while the
\* socket is open it has them all once all is read.
MessagesArriveWhole ==
  /\ IsPrefix(got, Messages(sent))
  /\ (ws.state = "open" /\ ~polling /\ wire.bytes = <<>> /\ Len(ws.rx) = ws.pending)
       => got = Messages(sent)

\* What the peer receives is frame after whole frame: a pong never lands inside a
\* frame of audio that the socket has not taken all of.
FramesLeaveWhole ==
  LET all == FlattenSeq(<<Request>> \o queued)
  IN IsPrefix(out, all) /\ (ws.state # "closed" => out \o tx = all)

FramesArrive == MessagesArriveWhole /\ FramesLeaveWhole
=============================================================================
