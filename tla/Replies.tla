------------------------------- MODULE Replies -------------------------------
(***************************************************************************)
(* One device's questions to the agent: the task that answers each of them *)
(* (server.rs, answer), the worker that reads the model's stream for it    *)
(* (nevos-agent, ollama.rs over http.rs), the messages that go out, and    *)
(* the conversation the next question is asked in (state.rs, lib.rs).      *)
(*                                                                         *)
(* The newest question wins: it aborts the task before it, which stops at  *)
(* its next await and may run on until then on another thread.  What is    *)
(* said is left out: a piece of a reply is its number, and how many        *)
(* messages it takes.  Moods are left out.                                 *)
(***************************************************************************)
EXTENDS Integers, Sequences, FiniteSets

CONSTANTS
  MaxTurn,     \* bound: questions
  MaxPieces,   \* bound: pieces that the model streams for one of them
  MaxParts,    \* bound: messages of TOKEN_CHUNK_BYTES that a piece takes
  MaxHistory   \* turns that a Conversation keeps, 8

\* Numbers, and a conversation that keeps something.
Parameters ==
  /\ MaxTurn \in Nat /\ MaxPieces \in Nat
  /\ MaxParts \in Nat \ {0} /\ MaxHistory \in Nat \ {0}

VARIABLES
  live,    \* live_turn: the newest question
  stream,  \* [Turns -> the model's reply: pieces sent, how it ended if it has]
  events,  \* [Turns -> the worker's channel: pieces waiting, and its result]
  task,    \* [Turns -> answer(): where it is, the pieces it took, and of the last of
           \*           them the messages sent and the messages it takes]
  out,     \* what was sent to the device
  talk     \* the device's Conversation

vars == <<live, stream, events, task, out, talk>>

Turns == 1..MaxTurn
Ends == {"done", "closed", "failed"}

Init ==
  /\ live = 0
  /\ stream = [t \in Turns |-> [sent |-> 0, end |-> "open"]]
  /\ events = [t \in Turns |-> [waiting |-> 0, result |-> "running"]]
  /\ task = [t \in Turns |-> [at |-> "none", reply |-> 0, part |-> 0, parts |-> 0]]
  /\ out = <<>>
  /\ talk = <<>>

At(t, place) == task' = [task EXCEPT ![t].at = place]
Running(t) == task[t].at \notin {"none", "over"}

\* Action::Ask: the task before is aborted, see Killed, and a new one begins.
Ask ==
  /\ live < MaxTurn
  /\ live' = live + 1
  /\ At(live + 1, "recv")
  /\ UNCHANGED <<stream, events, out, talk>>

-----------------------------------------------------------------------------
(* The model and the worker.                                               *)

\* A line of the stream: parsed, and passed on as a token.
Piece(t) ==
  /\ Running(t) /\ stream[t].end = "open" /\ stream[t].sent < MaxPieces
  /\ stream' = [stream EXCEPT ![t].sent = @ + 1]
  /\ events' = [events EXCEPT ![t].waiting = @ + 1]
  /\ UNCHANGED <<live, task, out, talk>>

\* What respond() returns: a line that says done and a connection that closes
\* both end the body; anything else is an error.
Result(how) == IF how = "failed" THEN "error" ELSE "ok"

\* The stream ends: with done, because the server has gone, or with an error.
StreamEnds(t, how) ==
  /\ Running(t) /\ stream[t].end = "open"
  /\ stream' = [stream EXCEPT ![t].end = how]
  /\ events' = [events EXCEPT ![t].result = Result(how)]
  /\ UNCHANGED <<live, task, out, talk>>

-----------------------------------------------------------------------------
(* answer().                                                               *)

Sends(t, parts) ==
  task' = [task EXCEPT ![t] = [at |-> "send", reply |-> @.reply + 1, part |-> 0, parts |-> parts]]

\* Mutant: the abort is trusted to stop a task that has been superseded.
TakeUnchecked(t) ==
  /\ task[t].at = "recv" /\ events[t].waiting > 0
  /\ events' = [events EXCEPT ![t].waiting = @ - 1]
  /\ \E parts \in 1..MaxParts : Sends(t, parts)
  /\ UNCHANGED <<live, stream, out, talk>>

\* The next token, unless the turn was superseded while it was in flight.
Take(t) ==
  /\ task[t].at = "recv" /\ events[t].waiting > 0
  /\ events' = [events EXCEPT ![t].waiting = @ - 1]
  /\ IF live # t THEN At(t, "over") ELSE \E parts \in 1..MaxParts : Sends(t, parts)
  /\ UNCHANGED <<live, stream, out, talk>>

\* One message of the piece; there is no other look at live_turn before the next.
Send(t) ==
  /\ task[t].at = "send"
  /\ LET part == task[t].part + 1
     IN /\ out' = Append(out, [turn |-> t, piece |-> task[t].reply, part |-> part,
                              parts |-> task[t].parts, error |-> FALSE])
        /\ task' = [task EXCEPT ![t].part = part,
                               ![t].at = IF part = task[t].parts THEN "recv" ELSE "send"]
  /\ UNCHANGED <<live, stream, events, talk>>

\* No more events, and the turn is still the newest.
Drained(t) ==
  /\ task[t].at = "recv" /\ events[t].waiting = 0 /\ events[t].result # "running"
  /\ At(t, IF live = t THEN "result" ELSE "over")
  /\ UNCHANGED <<live, stream, events, out, talk>>

\* Mutant: the answer is added without another look at the bound.
PushedUntrimmed(entry) ==
  IF Len(talk) = MaxHistory /\ entry.role = "user" THEN Append(Tail(talk), entry)
  ELSE Append(talk, entry)

\* Conversation::push, which keeps the newest.
Pushed(entry) ==
  IF Len(talk) = MaxHistory THEN Append(Tail(talk), entry) ELSE Append(talk, entry)

\* The worker's result: a reply that is complete joins the conversation, the
\* question and the answer under a lock each.
Completes(t) ==
  /\ task[t].at = "result"
  /\ IF events[t].result = "ok" /\ task[t].reply > 0
     THEN At(t, "push") /\ talk' = Pushed([turn |-> t, role |-> "user"])
     ELSE At(t, "finish") /\ UNCHANGED talk
  /\ UNCHANGED <<live, stream, events, out>>

PushReply(t) ==
  /\ task[t].at = "push"
  /\ At(t, "finish")
  /\ talk' = Pushed([turn |-> t, role |-> "assistant"])
  /\ UNCHANGED <<live, stream, events, out>>

\* AgentDone, with the error if there was one.
Finish(t) ==
  /\ task[t].at = "finish"
  /\ At(t, "over")
  /\ out' = Append(out, [turn |-> t, piece |-> 0, part |-> 0, parts |-> 0,
                        error |-> events[t].result = "error"])
  /\ UNCHANGED <<live, stream, events, talk>>

\* A task stops at an await when the next question or the end of the connection has
\* aborted it, or when it cannot send; it is left open here which, and whether.
Killed(t) ==
  /\ task[t].at \in {"recv", "send", "result", "finish"}
  /\ At(t, "over")
  /\ UNCHANGED <<live, stream, events, out, talk>>

\* purge_all, and forgetting the device: the conversation goes.
Purge == talk # <<>> /\ talk' = <<>> /\ UNCHANGED <<live, stream, events, task, out>>

Next ==
  \/ Ask
  \/ \E t \in Turns : Piece(t)
  \/ \E t \in Turns, how \in Ends : StreamEnds(t, how)
  \/ \E t \in Turns : Take(t)
  \/ \E t \in Turns : Send(t)
  \/ \E t \in Turns : Drained(t)
  \/ \E t \in Turns : Completes(t)
  \/ \E t \in Turns : PushReply(t)
  \/ \E t \in Turns : Finish(t)
  \/ \E t \in Turns : Killed(t)
  \/ Purge

-----------------------------------------------------------------------------

Places == {"none", "recv", "send", "result", "push", "finish", "over"}

TypeOK ==
  /\ live \in 0..MaxTurn
  /\ stream \in [Turns -> [sent : 0..MaxPieces, end : Ends \union {"open"}]]
  /\ events \in [Turns -> [waiting : 0..MaxPieces, result : {"running", "ok", "error"}]]
  /\ task \in [Turns -> [at : Places, reply : 0..MaxPieces, part : 0..MaxParts,
                       parts : 0..MaxParts]]
  /\ out \in Seq([turn : Turns, piece : 0..MaxPieces, part : 0..MaxParts, parts : 0..MaxParts,
                  error : BOOLEAN])
  /\ talk \in Seq([turn : Turns, role : {"user", "assistant"}]) /\ Len(talk) <= MaxHistory

Sent(t) == {i \in DOMAIN out : out[i].turn = t}
IsDone(i) == out[i].piece = 0

\* The message before i of the same turn, if there is one.
Before(i) == {j \in Sent(out[i].turn) : j < i /\ \A k \in Sent(out[i].turn) : k < i => k <= j}
Whole(m) == m.part = m.parts

\* The device gets the messages of a reply in the order of the text, none left out, and
\* after them at most one AgentDone, which nothing follows.
PiecesInOrder ==
  \A i \in DOMAIN out :
    /\ \A j \in Before(i) :
         /\ ~IsDone(j)
         /\ ~IsDone(i) => \/ /\ Whole(out[j])
                             /\ out[i].piece = out[j].piece + 1 /\ out[i].part = 1
                          \/ /\ ~Whole(out[j]) /\ out[i].piece = out[j].piece
                             /\ out[i].part = out[j].part + 1
    /\ (Before(i) = {} /\ ~IsDone(i)) => out[i].piece = 1 /\ out[i].part = 1

\* A reply reported done without an error, or remembered as one, is all of what the
\* model's server sent for it, to the last message of the last piece; whether that is
\* all of the reply is another question, see CutIsNotDone.
DoneIsAll ==
  /\ \A i \in DOMAIN out : (IsDone(i) /\ ~out[i].error) =>
       /\ \A j \in Before(i) : Whole(out[j]) /\ out[j].piece = stream[out[i].turn].sent
       /\ Before(i) = {} => stream[out[i].turn].sent = 0
  /\ \A i \in DOMAIN talk : talk[i].role = "assistant" =>
       /\ stream[talk[i].turn].end \notin {"open", "failed"}
       /\ task[talk[i].turn].reply = stream[talk[i].turn].sent

\* Two replies do not race onto one screen: once a newer one has begun, an older one sends
\* at most what is left of the one piece it was at, or its AgentDone.
NewestWins ==
  \A i \in DOMAIN out : \A t \in 1..(out[i].turn - 1) :
    \A j, k \in {n \in Sent(t) : n > i} : out[j].piece = out[k].piece

RepliesAreSound == PiecesInOrder /\ DoneIsAll /\ NewestWins

\* What ollama.rs says: "a reply cut off by a dead server should not look complete".
CutIsNotDone ==
  \A i \in DOMAIN out : (IsDone(i) /\ stream[out[i].turn].end # "done") => out[i].error
=============================================================================
