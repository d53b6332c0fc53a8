-------------------------------- MODULE Link --------------------------------
(***************************************************************************)
(* One device and the companion daemon: how the bridge (nev_bridge.c over  *)
(* nev_ws.c and nev_mdns.c) finds the daemon, greets it, pairs and comes   *)
(* back, and what the daemon's connections (server.rs, session.rs,         *)
(* pairing.rs, state.rs) make of it.                                       *)
(*                                                                         *)
(* A connection that stops delivering may tell neither end, so that the    *)
(* daemon can hold a stale session of the device beside its new one: the   *)
(* slots are the connections either end still believes in, used again once *)
(* both have let go.  The daemon is one process of several threads; each   *)
(* turn of a connection's select loop is one step, but for the refresh of  *)
(* last_seen, which reads devices.json and writes it back without a lock.  *)
(*                                                                         *)
(* The protocol has one version here: neither end refuses the other's.  On *)
(* the device nev_ui may forget the pairing while nev_net is in a poll, with *)
(* nothing locked: a step of either is whole here, and granting a token is *)
(* two, since power may be lost between them.                              *)
(***************************************************************************)
EXTENDS Integers, Sequences

CONSTANTS
  Slots,       \* bound: connections that either end believes in at once
  Codes,       \* six-digit codes that the device can draw
  MaxFailed,   \* MAX_FAILED_ENTRIES
  MaxQueries,  \* MAX_QUERIES
  MaxToken,    \* bound: tokens issued
  MaxUpset     \* bound: faults, and times the user unpairs

NoCode == "none"
NoSlot == 0
NoToken == 0   \* "", which never authenticates

ASSUME LinkAssumption ==
  /\ Slots \subseteq Nat \ {NoSlot}
  /\ NoCode \notin Codes
  /\ MaxFailed \in Nat \ {0} /\ MaxQueries \in Nat \ {0}
  /\ MaxToken \in Nat /\ MaxUpset \in Nat

VARIABLES
  dev,       \* the bridge: state, slot of its socket, token, code on screen; while it
             \* searches, the queries it has asked and whether an answer is there
  flash,     \* NEV_SET_PAIR_TOKEN: set in the store's RAM, saved on flash; missed:
             \* the last commit did not bring it there (its return is not looked at)
  wire,      \* [Slots -> open: the device holds it; cut: nothing arrives; up, down]
  ses,       \* [Slots -> state: Session's, or "none"; since: pairing_since; grants]
  known,     \* the token devices.json has for the device
  pending,   \* the code of the device's open request in Pairing
  failed, locked, \* wrong entries, and the lockout
  listed,    \* the device is in Daemon.connected
  touching,  \* touch() between its read and its write: by slot, the token read
  issued,    \* tokens issued
  running,   \* the daemon runs
  gone,      \* history: tokens that devices.json has had and lost, how
  noted,     \* the code the user has read off the screen
  upset      \* faults and unpairings so far

device == <<dev, flash>>
daemon == <<ses, known, pending, failed, locked, listed, touching, issued, running>>
user == <<noted, gone, upset>>
vars == <<device, wire, daemon, user>>

Tokens == 1..MaxToken
Unused == [open |-> FALSE, cut |-> FALSE, up |-> <<>>, down |-> <<>>]
NoSession == [state |-> "none", since |-> FALSE, grants |-> <<>>]

Init ==
  /\ dev = [state |-> "offline", slot |-> NoSlot, token |-> NoToken, code |-> NoCode,
            asked |-> 0, answered |-> FALSE]
  /\ flash = [set |-> NoToken, saved |-> NoToken, missed |-> FALSE]
  /\ wire = [s \in Slots |-> Unused]
  /\ ses = [s \in Slots |-> NoSession]
  /\ known = NoToken
  /\ pending = NoCode
  /\ failed = 0 /\ locked = FALSE
  /\ listed = FALSE
  /\ touching = [s \in Slots |-> NoToken]
  /\ issued = 0
  /\ running = TRUE
  /\ gone = [unpaired |-> {}, replaced |-> {}]
  /\ noted = NoCode
  /\ upset = 0

Reply(s, msg) == IF wire[s].open THEN [wire EXCEPT ![s].down = Append(@, msg)] ELSE wire
Paired(tok) == [t |-> "result", token |-> tok]
Refused == Paired(NoToken)

-----------------------------------------------------------------------------
(* The device.                                                             *)

\* Mutant: a link that is gone takes the token with it.
OfflineForgets ==
  [dev EXCEPT !.state = "offline", !.slot = NoSlot, !.code = NoCode, !.token = NoToken,
              !.asked = 0, !.answered = FALSE]

\* disconnect(): the socket closes and a retry is due; the token stays.
Offline ==
  [dev EXCEPT !.state = "offline", !.slot = NoSlot, !.code = NoCode,
              !.asked = 0, !.answered = FALSE]
Closed ==
  IF dev.slot = NoSlot THEN wire
  ELSE [wire EXCEPT ![dev.slot] =
          IF ses[dev.slot].state = "none" THEN Unused
                                          ELSE [@ EXCEPT !.open = FALSE, !.down = <<>>]]
Disconnect == dev' = Offline /\ wire' = Closed

\* nev_net is between two polls, or in one that has no token in its hands.
Free == dev.state # "keeping"

\* nev_store_set_str, of the token; nev_store_commit, which may miss it, and then
\* leaves it to be done.
Sets(token) == [flash EXCEPT !.set = token, !.missed = @ /\ flash.saved # token]
Commits(f) == {[f EXCEPT !.saved = f.set, !.missed = FALSE],
               [f EXCEPT !.missed = (f.saved # f.set)]}

\* A fault, or a wish of the user's.
Upset == upset < MaxUpset /\ upset' = upset + 1

\* nev_ws_open and the upgrade: the socket, and a first frame sent over it.
Opened(frame) == [Unused EXCEPT !.open = TRUE, !.up = <<frame>>]
Greeting == [t |-> "hello", token |-> dev.token]

\* The n-th query: a daemon that runs answers it, but for what the network loses.
Query(n) ==
  \E answered \in BOOLEAN :
    /\ answered => running
    /\ IF running /\ ~answered THEN Upset ELSE UNCHANGED upset
    /\ dev' = [dev EXCEPT !.state = "searching", !.asked = n, !.answered = answered]

\* A search starts when the backoff has passed, with its first query.
Search ==
  /\ dev.state = "offline"
  /\ Query(1)
  /\ UNCHANGED <<flash, wire, daemon, noted, gone>>

\* It asks again when nothing came, so often and no more; then it waits.
AsksAgain ==
  /\ dev.state = "searching" /\ ~dev.answered
  /\ dev.asked < MaxQueries
  /\ Query(dev.asked + 1)
  /\ UNCHANGED <<flash, wire, daemon, noted, gone>>

\* What the daemon says to others, or to all when it starts, is an answer too.
Overhears ==
  /\ dev.state = "searching" /\ ~dev.answered
  /\ running
  /\ dev' = [dev EXCEPT !.answered = TRUE]
  /\ UNCHANGED <<flash, wire, daemon, user>>

\* The daemon has answered and takes the connection; the device greets it with
\* the token it has.
Found(s) ==
  /\ dev.state = "searching" /\ dev.answered
  /\ running
  /\ ~wire[s].open /\ ses[s].state = "none"
  /\ dev' = [dev EXCEPT !.state = "connecting", !.slot = s, !.asked = 0, !.answered = FALSE]
  /\ wire' = [wire EXCEPT ![s] = Opened(Greeting)]
  /\ ses' = [ses EXCEPT ![s] = [NoSession EXCEPT !.state = "new"]]
  /\ UNCHANGED <<flash, known, pending, failed, locked, listed, touching, issued, running, user>>

\* It has answered, and is there no more.
FoundGone ==
  /\ dev.state = "searching" /\ dev.answered
  /\ ~running
  /\ Disconnect
  /\ UNCHANGED <<flash, daemon, user>>

\* The next message of the daemon, of the kind named.
Hears(kind) ==
  /\ Free /\ dev.slot # NoSlot
  /\ ~wire[dev.slot].cut /\ wire[dev.slot].down # <<>>
  /\ Head(wire[dev.slot].down).t = kind

Consumed == [wire EXCEPT ![dev.slot].down = Tail(@)]

\* on_hello_ack, accepted.
OnAccepted ==
  /\ Hears("accepted")
  /\ dev' = [dev EXCEPT !.state = "ready"]
  /\ wire' = Consumed
  /\ UNCHANGED <<flash, daemon, user>>

\* send_pair: a code is drawn, shown, and sent.
Shows(code) == [dev EXCEPT !.state = "pairing", !.code = code]

\* on_hello_ack, not known: the token is dropped, in RAM and in the store but
\* not committed, and a code is drawn, shown and sent.
OnNeedsPairing ==
  /\ Hears("needs_pairing")
  /\ \E code \in Codes :
       /\ dev' = [Shows(code) EXCEPT !.token = NoToken]
       /\ wire' = [Consumed EXCEPT ![dev.slot].up = Append(@, [t |-> "pair", code |-> code])]
  /\ flash' = Sets(NoToken)
  /\ UNCHANGED <<daemon, user>>

\* on_pair_result, so far as the commit: a refusal disconnects, a grant is noted in
\* RAM and set in the store.
OnPairResult ==
  /\ Hears("result")
  /\ LET token == Head(wire[dev.slot].down).token IN
     IF token = NoToken
     THEN Disconnect /\ UNCHANGED flash
     ELSE /\ dev' = [dev EXCEPT !.state = "keeping", !.token = token]
          /\ flash' = Sets(token)
          /\ wire' = Consumed
  /\ UNCHANGED <<daemon, user>>

\* The code is gone, and the device shows itself connected.
Shown == [dev EXCEPT !.state = "ready", !.code = NoCode]

\* Mutant: the commit is left to the store's next tick.
KeepsLater ==
  /\ dev.state = "keeping"
  /\ dev' = Shown
  /\ UNCHANGED <<flash, wire, daemon, user>>

\* The rest of it: the commit, at once, and whatever came of it the link is up.
Keeps ==
  /\ dev.state = "keeping"
  /\ dev' = Shown
  /\ flash' \in Commits(flash)
  /\ UNCHANGED <<wire, daemon, user>>

\* The daemon has closed, and what it sent before has been read.
HearsClose ==
  /\ Free /\ dev.slot # NoSlot
  /\ ~wire[dev.slot].cut /\ wire[dev.slot].down = <<>> /\ ses[dev.slot].state = "none"
  /\ Disconnect
  /\ UNCHANGED <<flash, daemon, user>>

\* Mutant: the silence limit only counts while a ping can be sent.
SilenceNever ==
  /\ dev.state = "ready"
  /\ ~wire[dev.slot].cut /\ ses[dev.slot].state = "none"
  /\ Disconnect
  /\ UNCHANGED <<flash, daemon, user>>

\* SILENCE_LIMIT_MS: a dead link is noticed in READY, where pings go out.
Silence ==
  /\ dev.state = "ready"
  /\ wire[dev.slot].cut
  /\ Disconnect
  /\ UNCHANGED <<flash, daemon, user>>

\* The store's tick, which tries what is not on flash until it is.
CommitTick ==
  /\ flash.saved # flash.set
  /\ flash' \in Commits(flash)
  /\ UNCHANGED <<dev, wire, daemon, user>>

-----------------------------------------------------------------------------
(* The daemon.                                                             *)

Hear(s, kind) ==
  /\ ses[s].state # "none"
  /\ ~wire[s].cut /\ wire[s].up # <<>>
  /\ Head(wire[s].up).t = kind

Read(s) == [wire EXCEPT ![s].up = Tail(@)]

\* Mutant: an announced device stays in the list.
EndedListed(s) ==
  /\ ses' = [ses EXCEPT ![s] = NoSession]
  /\ pending' = IF ses[s].state = "awaiting" THEN NoCode ELSE pending
  /\ UNCHANGED <<listed, known, failed, locked, touching, issued, running>>

\* The end of a connection: a code that was waiting is withdrawn, a device that
\* had been announced is no longer listed, by its id in both cases.
Ended(s) ==
  /\ ses' = [ses EXCEPT ![s] = NoSession]
  /\ pending' = IF ses[s].state = "awaiting" THEN NoCode ELSE pending
  /\ listed' = (listed /\ ses[s].state # "ready")
  /\ UNCHANGED <<known, failed, locked, touching, issued, running>>

Lookup(token) == token # NoToken /\ token = known

\* A device is listed from the turn its session became ready in.
Announces(ready) == listed' = (listed \/ ready)

\* on_hello, and the announcement of a device that is known.
OnHello(s) ==
  /\ Hear(s, "hello") /\ touching[s] = NoToken
  /\ LET ok == Lookup(Head(wire[s].up).token) IN
     /\ ses' = [ses EXCEPT ![s].state = IF ok THEN "ready" ELSE "awaiting"]
     /\ Announces(ok)
     /\ wire' = [Reply(s, [t |-> IF ok THEN "accepted" ELSE "needs_pairing"])
                   EXCEPT ![s].up = Tail(@)]
  /\ UNCHANGED <<device, known, pending, failed, locked, touching, issued, running, user>>

\* Mutant: a session that has been granted may ask again.
OnPairAgain(s) ==
  /\ Hear(s, "pair") /\ touching[s] = NoToken
  /\ wire' = Read(s)
  /\ pending' = Head(wire[s].up).code
  /\ ses' = [ses EXCEPT ![s].since = TRUE, ![s].state = "awaiting"]
  /\ UNCHANGED <<device, known, failed, locked, listed, touching, issued, running, user>>

\* on_pair: the request is the device's only one, for as long as it is not
\* entered; in any other state the connection closes.
OnPair(s) ==
  /\ Hear(s, "pair") /\ touching[s] = NoToken
  /\ wire' = Read(s)
  /\ IF ses[s].state = "awaiting"
     THEN /\ pending' = Head(wire[s].up).code
          /\ ses' = [ses EXCEPT ![s].since = TRUE]
          /\ UNCHANGED <<known, failed, locked, listed, touching, issued, running>>
     ELSE Ended(s)
  /\ UNCHANGED <<device, user>>

\* A grant for this device: pair_granted when the session waits, else nothing.
OnGrant(s) ==
  /\ ses[s].state # "none" /\ touching[s] = NoToken
  /\ ses[s].grants # <<>>
  /\ LET waits == ses[s].state = "awaiting" IN
     /\ ses' = [ses EXCEPT ![s] =
                  [NoSession EXCEPT !.state = IF waits THEN "ready" ELSE ses[s].state,
                                   !.grants = Tail(ses[s].grants),
                                   !.since = ses[s].since /\ ~waits]]
     /\ Announces(waits)
     /\ wire' = IF waits THEN Reply(s, Paired(Head(ses[s].grants))) ELSE wire
  /\ UNCHANGED <<device, known, pending, failed, locked, touching, issued, running, user>>

\* PAIRING_TIMEOUT: nobody entered the code, and the device is told.
PairTimeout(s) ==
  /\ ses[s].since /\ ses[s].state = "awaiting"
  /\ ses' = [ses EXCEPT ![s].since = FALSE]
  /\ pending' = NoCode
  /\ wire' = Reply(s, Refused)
  /\ UNCHANGED <<device, known, failed, locked, listed, touching, issued, running, user>>

\* The connection ends: its socket reports it, or IDLE_TIMEOUT passes.  A device
\* that is ready pings, one that waits for its code says nothing at all.
Ends(s) ==
  /\ ses[s].state # "none" /\ touching[s] = NoToken
  /\ \/ wire[s].cut
     \/ ~wire[s].open /\ wire[s].up = <<>>
     \/ ses[s].state = "awaiting" /\ wire[s].up = <<>>
  /\ Ended(s)
  /\ wire' = [wire EXCEPT ![s] = IF wire[s].open THEN @ ELSE Unused]
  /\ UNCHANGED <<device, user>>

\* touch(), when a message comes of a device that is ready (a ping will do): its
\* record is read, and written back as it was but for last_seen.
TouchRead(s) ==
  /\ ses[s].state = "ready" /\ touching[s] = NoToken
  /\ wire[s].open /\ ~wire[s].cut
  /\ touching' = [touching EXCEPT ![s] = known]
  /\ known # NoToken
  /\ UNCHANGED <<device, wire, ses, known, pending, failed, locked, listed, issued, running, user>>

\* devices.json gets this token for the device.
Records(token) ==
  /\ known' = token
  /\ gone' = IF known \in {NoToken, token} THEN gone
             ELSE [gone EXCEPT !.replaced = @ \cup {known}]

TouchWrite(s) ==
  /\ touching[s] # NoToken
  /\ Records(touching[s])
  /\ touching' = [touching EXCEPT ![s] = NoToken]
  /\ UNCHANGED <<device, wire, ses, pending, failed, locked, listed, issued, running, noted, upset>>

\* REQUEST_TTL_SECS and LOCKOUT_SECS.
Expire ==
  /\ pending # NoCode
  /\ pending' = NoCode
  /\ UNCHANGED <<device, wire, ses, known, failed, locked, listed, touching, issued, running, user>>

Unlock ==
  /\ locked
  /\ locked' = FALSE
  /\ UNCHANGED <<device, wire, ses, known, pending, failed, listed, touching, issued, running,
                 user>>
-----------------------------------------------------------------------------
(* The user, and what goes wrong.                                          *)

ReadsCode ==
  /\ dev.state \in {"pairing", "keeping"}
  /\ noted' = dev.code
  /\ UNCHANGED <<device, wire, daemon, gone, upset>>

\* The grant goes to every connection there is, and to none if there is none.
Granted ==
  ses' = [s \in Slots |-> IF ses[s].state = "none" THEN ses[s]
            ELSE [ses[s] EXCEPT !.grants = Append(@, issued + 1)]]

\* Mutant: an entry is counted but never locks the door.
EntersCodeEver(code) ==
  /\ running /\ issued < MaxToken
  /\ IF code = pending
     THEN /\ pending' = NoCode /\ failed' = 0
          /\ issued' = issued + 1 /\ Records(issued + 1)
          /\ Granted
     ELSE /\ failed' = failed + 1
          /\ UNCHANGED <<pending, issued, known, ses, gone>>
  /\ UNCHANGED <<device, wire, locked, listed, touching, running, noted, upset>>

\* complete_pairing: user_entered, and on a hit a token, stored and announced to
\* every connection.
EntersCode(code) ==
  /\ running /\ ~locked /\ issued < MaxToken
  /\ IF code = pending
     THEN /\ pending' = NoCode /\ failed' = 0
          /\ issued' = issued + 1 /\ Records(issued + 1)
          /\ Granted
          /\ UNCHANGED locked
     ELSE /\ failed' = (failed + 1) % MaxFailed
          /\ locked' = (failed + 1 = MaxFailed)
          /\ UNCHANGED <<pending, issued, known, ses, gone>>
  /\ UNCHANGED <<device, wire, listed, touching, running, noted, upset>>

\* The code as it was read, or a slip of the finger.
UserEnters == \E code \in {noted, "mistyped"} : noted # NoCode /\ EntersCode(code)

\* nev_bridge_forget, at the device; its commit may be missed as well.
Forget ==
  /\ Free
  /\ Upset
  /\ dev' = [Offline EXCEPT !.token = NoToken]
  /\ wire' = Closed
  /\ flash' \in Commits(Sets(NoToken))
  /\ UNCHANGED <<daemon, noted, gone>>

\* /api/forget, at the daemon: the record goes; a session that is ready stays.
Unpair ==
  /\ Upset
  /\ running /\ known # NoToken
  /\ known' = NoToken
  /\ gone' = [gone EXCEPT !.unpaired = @ \cup {known}]
  /\ UNCHANGED <<device, wire, ses, pending, failed, locked, listed, touching, issued, running,
                 noted>>

Dead(s) == [wire EXCEPT ![s].cut = TRUE, ![s].up = <<>>, ![s].down = <<>>]

\* A connection stops delivering.
Cut(s) ==
  /\ Upset
  /\ wire[s].open /\ ~wire[s].cut
  /\ wire' = Dead(s)
  /\ UNCHANGED <<device, daemon, noted, gone>>

\* The device notices all the same (its socket fails, or the network goes), or
\* cannot open a socket or reach what answered its search.
Gives ==
  /\ Free /\ dev.state # "offline"
  /\ IF dev.slot = NoSlot THEN Upset ELSE wire[dev.slot].cut /\ UNCHANGED upset
  /\ Disconnect
  /\ UNCHANGED <<flash, daemon, noted, gone>>

\* The device loses power: what was not committed is lost, and nobody is told.
Reboot ==
  /\ Upset
  /\ dev' = [Offline EXCEPT !.token = flash.saved]
  /\ flash' = [flash EXCEPT !.set = flash.saved, !.missed = FALSE]
  /\ wire' = IF dev.slot = NoSlot THEN wire
             ELSE [wire EXCEPT ![dev.slot] =
                     IF ses[dev.slot].state = "none" THEN Unused ELSE [Unused EXCEPT !.cut = TRUE]]
  /\ UNCHANGED <<daemon, noted, gone>>

\* The daemon stops: devices.json is all that is left.
Stops ==
  /\ Upset
  /\ running /\ running' = FALSE
  /\ ses' = [s \in Slots |-> NoSession]
  /\ wire' = [s \in Slots |-> IF wire[s].open THEN [wire[s] EXCEPT !.up = <<>>] ELSE Unused]
  /\ pending' = NoCode /\ failed' = 0 /\ locked' = FALSE /\ listed' = FALSE
  /\ touching' = [s \in Slots |-> NoToken]
  /\ UNCHANGED <<device, known, issued, noted, gone>>

\* It is started, by whoever starts it.
Starts ==
  /\ ~running /\ running' = TRUE
  /\ UNCHANGED <<device, wire, ses, known, pending, failed, locked, listed, touching, issued, user>>

Bridge ==
  Search \/ AsksAgain \/ (\E s \in Slots : Found(s)) \/ FoundGone
  \/ OnAccepted \/ OnNeedsPairing \/ OnPairResult \/ Keeps \/ HearsClose \/ Silence

Connection(s) ==
  OnHello(s) \/ OnPair(s) \/ OnGrant(s) \/ PairTimeout(s) \/ Ends(s)
  \/ TouchRead(s) \/ TouchWrite(s)

Next ==
  \/ Bridge \/ Overhears \/ CommitTick
  \/ \E s \in Slots : Connection(s)
  \/ Expire \/ Unlock
  \/ ReadsCode \/ UserEnters
  \/ Forget \/ Unpair \/ Gives \/ Reboot \/ Stops \/ Starts
  \/ \E s \in Slots : Cut(s)

\* nev_net polls every 20 ms, asks while it has queries left and hears what answers
\* them, but nothing has to come to it unasked; a connection's task runs when its
\* socket, a grant or a timer wakes it, so it reads what came and ends when it is over.
Fairness ==
  /\ WF_vars(Bridge)
  /\ \A s \in Slots :
       /\ WF_vars(OnHello(s)) /\ WF_vars(OnPair(s)) /\ WF_vars(OnGrant(s))
       /\ WF_vars(Ends(s)) /\ WF_vars(TouchWrite(s))

Spec == Init /\ [][Next]_vars /\ Fairness

-----------------------------------------------------------------------------
(* Properties.                                                             *)

Messages(kinds) == UNION {CASE k = "hello"  -> [t : {k}, token : Tokens \cup {NoToken}]
                            [] k = "pair"   -> [t : {k}, code : Codes]
                            [] k = "result" -> [t : {k}, token : Tokens \cup {NoToken}]
                            [] OTHER        -> [t : {k}] : k \in kinds}

\* Every variable has its type.
TypeOK ==
  /\ dev \in [state : {"offline", "searching", "connecting", "pairing", "keeping", "ready"},
              slot : Slots \cup {NoSlot}, token : Tokens \cup {NoToken},
              code : Codes \cup {NoCode}, asked : 0..MaxQueries, answered : BOOLEAN]
  /\ flash \in [set : Tokens \cup {NoToken}, saved : Tokens \cup {NoToken}, missed : BOOLEAN]
  /\ \A s \in Slots :
       /\ wire[s].open \in BOOLEAN /\ wire[s].cut \in BOOLEAN
       /\ wire[s].up \in Seq(Messages({"hello", "pair"}))
       /\ wire[s].down \in Seq(Messages({"accepted", "needs_pairing", "result"}))
       /\ ses[s].state \in {"none", "new", "awaiting", "ready"}
       /\ ses[s].since \in BOOLEAN /\ ses[s].grants \in Seq(Tokens)
       /\ touching[s] \in Tokens \cup {NoToken}
  /\ known \in Tokens \cup {NoToken} /\ issued \in Tokens \cup {0} /\ running \in BOOLEAN
  /\ pending \in Codes \cup {NoCode} /\ noted \in Codes \cup {NoCode}
  /\ failed \in 0..(MaxFailed - 1) /\ locked \in BOOLEAN /\ listed \in BOOLEAN
  /\ gone.unpaired \subseteq Tokens /\ gone.replaced \subseteq Tokens /\ upset \in 0..MaxUpset

\* A device that shows itself connected, over a link that delivers, has been
\* let in by the session at the other end: it never streams to a connection
\* that waits for its code (session.rs closes on audio before pairing).
ReadyAgrees ==
  dev.state = "ready" /\ ~wire[dev.slot].cut =>
    ses[dev.slot].state \in {"ready", "none"}

\* "The most likely moment for a user to unplug the device is right after the
\* screen says it worked" (nev_bridge.c): from the moment a device shows itself
\* connected, the token it would start with is the token it has, unless the last
\* commit there was did not bring it to flash: nobody looks at what it returns.
SurvivesReboot == dev.state = "ready" => flash.saved = dev.token \/ flash.missed

\* IDLE_TIMEOUT is there so that a half-open connection does not keep a device
\* listed as present (server.rs): a device that is listed has a session that
\* was let in, at every interleaving of old connections and new ones.
ListedIsLive == listed => \E s \in Slots : ses[s].state = "ready"

\* The token goes by the user's forget at the device, or with the power when no
\* commit has brought it to flash yet.
Forgotten == /\ dev'.token = NoToken /\ flash'.set = NoToken
             /\ flash'.saved = NoToken \/ flash'.missed
NotKept == /\ dev.token # flash.saved /\ dev'.token = flash.saved
           /\ dev.state = "keeping" \/ flash.missed

\* A device whose token is in devices.json for good, neither unpaired nor
\* replaced there, never loses it in any other way, whatever answers of older
\* connections, grants for older codes and restarts come between.
PairingSticks ==
  [][ dev'.token # dev.token /\ dev.token \notin gone.unpaired \cup gone.replaced \cup {NoToken} =>
        dev'.state = "offline" /\ (Forgotten \/ NotKept) ]_vars

\* Once faults have stopped and the daemon runs, a device that is between attempts,
\* that has queries left to ask, or that believes itself connected over a link that
\* is dead, is before long connected or shows its code over a link that works,
\* though the daemon holds stale sessions of it.  (A search that has asked its last
\* query may go on for good, as may a device that was CONNECTING or PAIRING when
\* its link died.)
Seeks == dev.state = "searching" /\ (dev.answered \/ dev.asked < MaxQueries)
ComesBack ==
  (upset = MaxUpset /\ running /\ (Seeks \/ dev.state \in {"offline", "ready"})) ~>
    (dev.state \in {"pairing", "ready"} /\ ~wire[dev.slot].cut)

\* nev_mdns.c:17 has it ask for "a minute of trying, then the caller decides": a
\* search that has asked all its queries in vain does not stay a search.  (It does:
\* nev_bridge_poll returns, time after time, and asks nothing.)
CallerDecides ==
  (dev.state = "searching" /\ dev.asked = MaxQueries) ~> (dev.state # "searching")
=============================================================================
