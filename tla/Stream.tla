------------------------------- MODULE Stream -------------------------------
(***************************************************************************)
(* Speech on its way from the microphone to the daemon: audio_service.c    *)
(* cuts it into numbered chunks (nev_ui), the bus keeps a few of them for  *)
(* the bridge, nev_bridge.c sends them while its link is up (nev_net), and *)
(* session.rs and server.rs make utterances and meetings of them.          *)
(*                                                                         *)
(* A chunk that finds no blob, or that the ring drops, or that finds the   *)
(* link down, is lost; so may be the one that ends the capture.  What the  *)
(* samples say is left out, as is what becomes of a finished utterance.    *)
(***************************************************************************)
EXTENDS Integers, Sequences, FiniteSets

CONSTANTS
  Conns,         \* bound: connections, one after the other
  Depth,         \* of the bridge's ring, 12
  MaxUtterance,  \* MAX_UTTERANCE_SAMPLES, in chunks
  MaxQueued,     \* bound of the channel to a capture task, 64
  MaxSession,    \* bound: captures
  MaxSeq         \* bound: full chunks of the first capture, one fewer of the next

\* Connections are numbered, and a ring holds something.
Parameters ==
  /\ Conns \subseteq Nat \ {0} /\ IsFiniteSet(Conns)
  /\ Depth \in Nat \ {0} /\ MaxUtterance \in Nat \ {0}
  /\ MaxQueued \in Nat /\ MaxSession \in Nat /\ MaxSeq \in Nat

VARIABLES
  mic,       \* audio_service: capturing, session, seq and kind; and whether the event
             \* that it has stopped is still to be published
  ring,      \* the bridge's subscriber
  link,      \* the connection over which the bridge is READY, or NoConn
  conn,      \* the daemon's end of every connection
  tasks,     \* [Conns -> [sessions -> a capture_task: its state and its channel]]
  capturing, \* Daemon.capturing, behind the live indicator
  unended    \* history: connections whose open capture lost its final chunk

vars == <<mic, ring, link, conn, tasks, capturing, unended>>

NoConn == 0
NoSession == 0
Sessions == 1..MaxSession
Kinds == {"utterance", "transcript"}   \* a note and a question are utterances

\* Any other event of the AUDIO domain; the bridge passes over it.
News == [session |-> NoSession]
Chunk(final) == [session |-> mic.session, seq |-> mic.seq, kind |-> mic.kind, final |-> final]

\* A connection: audio_session, next_seq and kind of its Session, the chunks of
\* the open utterance and the gaps reported in it, was_capturing, the writer task, and
\* the wire; and whether its loop runs, or has ended.
NewConn == [up |-> FALSE, over |-> FALSE, audio |-> NoSession, next |-> 0, kind |-> "utterance",
            heard |-> <<>>, gaps |-> {}, was |-> FALSE, writes |-> TRUE, wire |-> <<>>]

Init ==
  /\ mic = [on |-> FALSE, session |-> NoSession, seq |-> 0, kind |-> "utterance", news |-> FALSE]
  /\ ring = <<>>
  /\ link = NoConn
  /\ conn = [c \in Conns |-> NewConn]
  /\ tasks = [c \in Conns |-> [s \in Sessions |-> [state |-> "none", queued |-> 0]]]
  /\ capturing = 0
  /\ unended = {}

-----------------------------------------------------------------------------
(* The device.                                                             *)

\* A connection loses the final chunk of the capture it has, or may yet, open.
Loses(ev) == IF ev.session # NoSession /\ ev.final THEN unended \union {ev.session} ELSE unended

\* nev_bus_publish into the ring, which drops its oldest.
Publish(ev) ==
  IF Len(ring) = Depth
  THEN ring' = Append(Tail(ring), ev) /\ unended' = Loses(Head(ring))
  ELSE ring' = Append(ring, ev) /\ UNCHANGED unended

\* audio_service_start: any capture before it has been stopped.
Start(kind) ==
  /\ ~mic.on /\ ~mic.news /\ mic.session < MaxSession
  /\ mic' = [on |-> TRUE, session |-> mic.session + 1, seq |-> 0, kind |-> kind, news |-> FALSE]
  /\ Publish(News)
  /\ UNCHANGED <<link, conn, tasks, capturing>>

\* emit(): the number is taken whether or not there is a blob for the chunk.
Emit(final) ==
  \/ Publish(Chunk(final))
  \/ ring' = ring /\ unended' = Loses(Chunk(final))

\* audio_service_poll: a chunk is full.
Hear ==
  /\ mic.on /\ mic.seq + mic.session <= MaxSeq
  /\ mic' = [mic EXCEPT !.seq = @ + 1]
  /\ Emit(FALSE)
  /\ UNCHANGED <<link, conn, tasks, capturing>>

\* audio_service_stop: whatever is in hand, if only nothing, goes out marked final; and
\* then the event that it has stopped, which takes a place of the ring as well.
Stop ==
  /\ mic.on
  /\ mic' = [mic EXCEPT !.on = FALSE, !.seq = @ + 1, !.news = TRUE]
  /\ Emit(TRUE)
  /\ UNCHANGED <<link, conn, tasks, capturing>>

Stopped ==
  /\ mic.news
  /\ mic' = [mic EXCEPT !.news = FALSE]
  /\ Publish(News)
  /\ UNCHANGED <<link, conn, tasks, capturing>>

\* drain_audio, one event of it; what cannot be sent now is dropped, and what is sent over
\* a connection that the daemon has ended is lost.
Sendable == link # NoConn /\ conn[link].up
Drain ==
  /\ ring # <<>>
  /\ ring' = Tail(ring)
  /\ IF Sendable /\ Head(ring) # News
     THEN conn' = [conn EXCEPT ![link].wire = Append(@, Head(ring))] /\ UNCHANGED unended
     ELSE unended' = Loses(Head(ring)) /\ UNCHANGED conn
  /\ UNCHANGED <<mic, link, tasks, capturing>>

\* The link comes up, over a connection of its own, and goes down.
LinkUp(c) ==
  /\ link = NoConn /\ \A d \in Conns : d >= c => conn[d] = NewConn
  /\ link' = c
  /\ conn' = [conn EXCEPT ![c].up = TRUE]
  /\ UNCHANGED <<mic, ring, tasks, capturing, unended>>

LinkDown ==
  /\ link # NoConn
  /\ link' = NoConn
  /\ UNCHANGED <<mic, ring, conn, tasks, capturing, unended>>

-----------------------------------------------------------------------------
(* The daemon: a connection's loop.                                        *)

\* next_seq, once a chunk has been taken.
AfterChunk(k, m) == m.seq + 1

\* on_audio: a chunk of a new session starts a new utterance; otherwise one that
\* is not the next is a gap.
Continued(k, m) ==
  IF k.audio # m.session
  THEN [k EXCEPT !.audio = m.session, !.kind = m.kind, !.heard = <<m.seq>>, !.gaps = {},
                 !.next = AfterChunk(k, m)]
  ELSE [k EXCEPT !.heard = Append(@, m.seq), !.next = AfterChunk(k, m),
                 !.gaps = IF m.seq = k.next THEN @ ELSE @ \union {m.seq}]

\* A meeting ends with its final chunk; an utterance also with one too many, whose
\* samples are dropped: what comes after it is taken for an utterance of its own.
TooLong(k) == k.kind # "transcript" /\ Len(k.heard) > MaxUtterance
OnAudio(k, m) ==
  LET j == Continued(k, m)
  IN IF TooLong(j) THEN [j EXCEPT !.audio = NoSession, !.heard = k.heard]
     ELSE IF m.final THEN [j EXCEPT !.audio = NoSession]
     ELSE j

\* The tail of the loop: the live indicator follows the audio.
Follows(before, now) ==
  IF now /\ ~before THEN capturing + 1
  ELSE IF before /\ ~now THEN IF capturing > 0 THEN capturing - 1 ELSE 0
  ELSE capturing

\* The sender of a capture task is dropped: a task that still runs will file what it has.
Dropped(t) == CASE t.state = "open" -> [t EXCEPT !.state = "closed"]
                [] t.state = "gone" -> [t EXCEPT !.state = "vanished"]
                [] OTHER -> t

\* CaptureChunk: to the capture task of this session, started when there is no sender to
\* one, whereupon that of another session is dropped.  A task that has returned takes
\* nothing: the chunk is lost, and the next one starts another task.
Given(t, m) ==
  IF t.state = "gone" THEN Dropped(t)
  ELSE [state |-> IF m.final THEN "closed" ELSE "open", queued |-> t.queued + 1]
Passed(c, m) ==
  [s \in Sessions |-> IF s = m.session THEN Given(tasks[c][s], m) ELSE Dropped(tasks[c][s])]

\* One chunk off the wire; a full channel keeps the loop waiting.
Receive(c) ==
  /\ conn[c].up /\ conn[c].wire # <<>>
  /\ LET m == Head(conn[c].wire)
         k == OnAudio([conn[c] EXCEPT !.wire = Tail(@)], m)
     IN /\ tasks[c][m.session].queued < MaxQueued
        /\ conn' = [conn EXCEPT ![c] = [k EXCEPT !.was = k.audio # NoSession]]
        /\ tasks' = IF k.kind = "transcript" THEN [tasks EXCEPT ![c] = Passed(c, m)] ELSE tasks
        /\ capturing' = Follows(conn[c].was, k.audio # NoSession)
  /\ UNCHANGED <<mic, ring, link, unended>>

Hung(k) == [NewConn EXCEPT !.over = TRUE, !.writes = k.writes]
Orphaned(c) == [s \in Sessions |-> Dropped(tasks[c][s])]

\* Mutant: a connection that ends in the middle of a capture goes on counting.
EndsLit(c) ==
  /\ conn[c].up
  /\ conn' = [conn EXCEPT ![c] = Hung(conn[c])]
  /\ tasks' = [tasks EXCEPT ![c] = Orphaned(c)]
  /\ UNCHANGED <<mic, ring, link, capturing, unended>>

\* The end of a connection's loop, with what it had not read, whether or not the device
\* has let it go: its capture loses its sender, and the indicator no longer counts it.
Ends(c) ==
  /\ conn[c].up
  /\ conn' = [conn EXCEPT ![c] = Hung(conn[c])]
  /\ tasks' = [tasks EXCEPT ![c] = Orphaned(c)]
  /\ capturing' = Follows(conn[c].was, FALSE)
  /\ UNCHANGED <<mic, ring, link, unended>>

-----------------------------------------------------------------------------
(* The daemon: the writer of a connection, and capture_task.               *)

\* A send fails, and the writer ends: the loop may go on reading for a while, and tasks
\* that hold a sender for longer than that.  Only to such tasks does it make a difference.
WriterEnds(c) ==
  /\ \E s \in Sessions : tasks[c][s].state \in {"open", "closed"}
  /\ conn' = [conn EXCEPT ![c].writes = FALSE]
  /\ UNCHANGED <<mic, ring, link, tasks, capturing, unended>>

Task(c, s, t) == tasks' = [tasks EXCEPT ![c][s] = t]

\* A chunk is added to the segment, and a full segment is transcribed and shown: that
\* fails once the writer has ended, and the task returns with nothing filed.
Returned(t) == [state |-> IF t.state = "open" THEN "gone" ELSE "vanished", queued |-> 0]
TakesChunk(c, s) ==
  /\ tasks[c][s].state \in {"open", "closed"} /\ tasks[c][s].queued > 0
  /\ \/ Task(c, s, [tasks[c][s] EXCEPT !.queued = @ - 1])
     \/ ~conn[c].writes /\ Task(c, s, Returned(tasks[c][s]))
  /\ UNCHANGED <<mic, ring, link, conn, capturing, unended>>

\* After End, or when the sender has gone: what there is gets filed.
Files(c, s) ==
  /\ tasks[c][s].state = "closed" /\ tasks[c][s].queued = 0
  /\ Task(c, s, [tasks[c][s] EXCEPT !.state = "filed"])
  /\ UNCHANGED <<mic, ring, link, conn, capturing, unended>>

Next ==
  \/ \E kind \in Kinds : Start(kind)
  \/ Hear
  \/ Stop
  \/ Stopped
  \/ Drain
  \/ \E c \in Conns : LinkUp(c)
  \/ LinkDown
  \/ \E c \in Conns : Receive(c)
  \/ \E c \in Conns : Ends(c)
  \/ \E c \in Conns : WriterEnds(c)
  \/ \E c \in Conns, s \in Sessions : TakesChunk(c, s)
  \/ \E c \in Conns, s \in Sessions : Files(c, s)

-----------------------------------------------------------------------------

Chunks == [session : Sessions, seq : 0..MaxSeq, kind : Kinds, final : BOOLEAN]

TypeOK ==
  /\ mic \in [on : BOOLEAN, session : 0..MaxSession, seq : 0..(MaxSeq + 1), kind : Kinds,
             news : BOOLEAN]
  /\ ring \in Seq(Chunks \union {News}) /\ Len(ring) <= Depth
  /\ link \in Conns \union {NoConn}
  /\ \A c \in Conns :
       /\ conn[c].audio \in 0..MaxSession /\ conn[c].next \in 0..(MaxSeq + 1)
       /\ conn[c].wire \in Seq(Chunks)
  /\ tasks \in [Conns -> [Sessions ->
       [state : {"none", "open", "closed", "filed", "gone", "vanished"}, queued : 0..MaxQueued]]]
  /\ capturing \in 0..Cardinality(Conns)
  /\ unended \subseteq Sessions

\* Two chunks that the daemon puts one after the other in an utterance or a meeting were
\* cut one after the other, or it has reported the gap between them: wherever on the way
\* a chunk was lost.  What is lost before the first chunk that arrives, or where a long
\* utterance is cut, is no gap to it.
HolesAreReported ==
  \A c \in Conns :
    LET h == conn[c].heard
    IN \A i \in 1..(Len(h) - 1) : h[i + 1] = h[i] + 1 \/ h[i + 1] \in conn[c].gaps

\* The live indicator counts the connections with a capture open, no matter how
\* many of them are stale or how they ended; so it goes out with the last.
IndicatorCounts ==
  /\ capturing = Cardinality({c \in Conns : conn[c].was})
  /\ \A c \in Conns : conn[c].was = (conn[c].audio # NoSession)

\* Once the microphone is closed and all it said has arrived, the connection the
\* device talks over has no capture open, unless the chunk that ends it was lost.
IndicatorGoesDark ==
  (link # NoConn /\ ~mic.on /\ ring = <<>> /\ conn[link].wire = <<>>) =>
    conn[link].audio \in unended \union {NoSession}

\* A meeting is left unfiled only when the daemon can no longer write to its device,
\* though it may still be reading from it; and one is left open only while its connection
\* goes on with it, or still waits for its lost final chunk.
MeetingsAreKept ==
  \A c \in Conns : \A s \in Sessions :
    /\ tasks[c][s].state \in {"gone", "vanished"} => ~conn[c].writes
    /\ tasks[c][s].state \in {"open", "gone"} =>
         conn[c].up /\ (conn[c].audio = s \/ s \in unended)

SpeechArrives == HolesAreReported /\ IndicatorCounts /\ IndicatorGoesDark /\ MeetingsAreKept
=============================================================================
