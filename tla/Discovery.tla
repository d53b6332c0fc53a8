------------------------------ MODULE Discovery ------------------------------
(***************************************************************************)
(* Finding the daemon, nev_mdns.c: the query that is asked again and again *)
(* and the answers that come, of any service on the network.  A packet is  *)
(* parsed a record at a time; how its names are encoded is module Names.   *)
(***************************************************************************)
EXTENDS Integers, Sequences

CONSTANTS
  Packets,    \* what may arrive: sequences of records
  Instances,  \* names of instances of our service
  MaxQueries  \* MAX_QUERIES

Service == "service"   \* NEV_MDNS_SERVICE
NoName == ""

\* No instance has an empty name, and it is asked for at least once.
Parameters ==
  /\ MaxQueries \in Nat \ {0}
  /\ NoName \notin Instances
  /\ \A p \in Packets : p \in Seq({p[i] : i \in DOMAIN p})

VARIABLES
  asked,   \* queries_sent; 0 while the socket is closed
  packet,  \* the packet being parsed, or <<>>
  next,    \* the record of it that comes next
  seen,    \* instance, port, target, ip and a_name, as parsed so far
  found    \* the daemon, or nothing: port 0

vars == <<asked, packet, next, seen, found>>

Blank == [instance |-> NoName, port |-> 0, target |-> NoName, ip |-> 0, aname |-> NoName]
Nothing == [port |-> 0, ip |-> 0, name |-> NoName]

Init ==
  /\ asked = 0
  /\ packet = <<>> /\ next = 1
  /\ seen = Blank
  /\ found = Nothing

Idle == packet = <<>>

\* nev_mdns_start: the socket opens and the query goes out, or neither.
Start ==
  /\ asked = 0 /\ Idle
  /\ asked' = 1
  /\ found' = Nothing
  /\ UNCHANGED <<packet, next, seen>>

\* The interval has passed and nothing came that was for us.
AskAgain ==
  /\ asked \in 1..(MaxQueries - 1) /\ Idle /\ found = Nothing
  /\ asked' = asked + 1
  /\ UNCHANGED <<packet, next, seen, found>>

Receive ==
  /\ asked > 0 /\ Idle /\ found = Nothing
  /\ packet' \in Packets
  /\ next' = 1 /\ seen' = Blank
  /\ UNCHANGED <<asked, found>>

Drops == packet' = <<>> /\ next' = 1 /\ seen' = Blank /\ UNCHANGED found

-----------------------------------------------------------------------------
(* nev_mdns_parse, a record at a time.                                     *)

Pointed(rec) ==
  IF rec.name = Service /\ seen.instance = NoName
  THEN [seen EXCEPT !.instance = rec.data] ELSE seen

\* Mutant: any service of the network will do.
ServedAny(rec) ==
  IF seen.instance # NoName /\ rec.name # seen.instance THEN seen
  ELSE [seen EXCEPT !.port = rec.port, !.target = rec.data,
          !.instance = IF @ = NoName THEN rec.name ELSE @]

\* Of an instance of ours, and of the one that was pointed to if one was.
Served(rec) ==
  IF rec.name \notin Instances \/ (seen.instance # NoName /\ rec.name # seen.instance) THEN seen
  ELSE [seen EXCEPT !.port = rec.port, !.target = rec.data,
          !.instance = IF @ = NoName THEN rec.name ELSE @]

\* The first address counts, whose ever it is.
Addressed(rec) ==
  IF seen.ip = 0 THEN [seen EXCEPT !.ip = rec.data, !.aname = rec.name] ELSE seen

Record ==
  /\ next <= Len(packet)
  /\ LET rec == packet[next]
     IN IF rec.type = "cut" THEN Drops
        ELSE /\ seen' = CASE rec.type = "ptr" -> Pointed(rec)
                          [] rec.type = "srv" -> Served(rec)
                          [] rec.type = "a" -> Addressed(rec)
                          [] OTHER -> seen
             /\ next' = next + 1
             /\ UNCHANGED <<packet, found>>
  /\ UNCHANGED asked

\* A service, an address, and no disagreement about whose it is.
Complete == /\ seen.port # 0 /\ seen.ip # 0
            /\ seen.target # NoName /\ seen.aname # NoName => seen.target = seen.aname

Conclude ==
  /\ packet # <<>> /\ next > Len(packet)
  /\ IF Complete
     THEN /\ found' = [port |-> seen.port, ip |-> seen.ip, name |-> seen.instance]
          /\ UNCHANGED <<packet, next, seen>>
     ELSE Drops
  /\ UNCHANGED asked

\* nev_mdns_stop: the bridge has what it wanted, or has waited long enough.
Stop ==
  /\ asked > 0 /\ (Idle \/ found # Nothing)
  /\ asked' = 0
  /\ packet' = <<>> /\ next' = 1 /\ seen' = Blank
  /\ UNCHANGED found

Next == Start \/ AskAgain \/ Receive \/ Record \/ Conclude \/ Stop

-----------------------------------------------------------------------------
(* Properties.                                                             *)

\* Every variable has its type.
TypeOK ==
  /\ asked \in 0..MaxQueries
  /\ packet \in Packets \union {<<>>} /\ next \in 1..(Len(packet) + 1)
  /\ found # Nothing => found.port # 0 /\ found.ip # 0

Of(type) == {i \in DOMAIN packet : packet[i].type = type}
\* What of a packet is about one daemon, at one address.
Answers(daemon) ==
  /\ Of("cut") = {}
  /\ \E i \in Of("srv") : packet[i].name = daemon /\ packet[i].port # 0
  /\ \A i \in Of("srv") : packet[i].name \in Instances => packet[i].name = daemon /\ packet[i].port # 0
  /\ \A i \in Of("ptr") : packet[i].name = Service => packet[i].data = daemon
  /\ \E i \in Of("a") : packet[i].data # 0
  /\ \A i \in Of("srv") : \A j \in Of("a") : packet[i].name = daemon => packet[j].name = packet[i].data

\* The device goes to a daemon, at the port that daemon serves and at an address of the
\* host it serves on; never to a printer that shares the packet or the network.
GoesToADaemon ==
  (found # Nothing /\ packet # <<>>) =>
    /\ found.name \in Instances
    /\ \E i \in Of("srv") : \E j \in Of("a") :
         /\ packet[i].name = found.name /\ packet[i].port = found.port
         /\ packet[j].data = found.ip
         /\ packet[i].data # NoName /\ packet[j].name # NoName => packet[i].data = packet[j].name

\* An answer about one daemon is understood whatever order its records come in, with or
\* without a pointer, whatever else the packet says of others.
AnyOrderWillDo ==
  (packet # <<>> /\ next > Len(packet)) => \A d \in Instances : Answers(d) => Complete

DaemonIsFound == GoesToADaemon /\ AnyOrderWillDo
=============================================================================
