--------------------------------- MODULE Bytes ---------------------------------
(***************************************************************************)
(* The five formats in which bytes come and go: frames of the link, bodies *)
(* of the model server, messages of the bridge protocol, names and packets *)
(* of mDNS.  They share no state: as in Services a behaviour is one of one *)
(* of them, the format, and the variables of the others stay Absent.       *)
(***************************************************************************)
EXTENDS Integers, Sequences, SequencesExt

CONSTANT Absent
VARIABLE format

CONSTANTS Responses, Inbound, Outbound, Short, RxCap, MaxIn, MaxOut
VARIABLES ws, tx, polling, wire, sent, got, queued, received
Frames == INSTANCE Frames WITH out <- received

CONSTANTS Streams, MaxLine
VARIABLES response, unread, dec, split, counted, lines, bodyState
Body == INSTANCE Body WITH
  stream <- response, raw <- unread, total <- counted,
  state <- bodyState

CONSTANTS Radix, Widths, Ais, Inline, EncodeCap, SentOf(_), NewFields, Caps, FrameLimit, Strange
VARIABLES ends, writer, message, reader, fields, codecState
Codec == INSTANCE Codec WITH
  Messages <- SentOf, Newer <- NewFields, MaxFrame <- FrameLimit,
  w <- writer, frame <- message, r <- reader, out <- fields, state <- codecState

CONSTANTS Packets, MaxJumps, OutCap, WrittenNames
VARIABLES pkt, nameAt, offset, hops, nameEnd, dotted, nameState
Names == INSTANCE Names WITH
  Known <- WrittenNames, at <- nameAt, here <- offset, jumps <- hops,
  end <- nameEnd, name <- dotted, state <- nameState

CONSTANTS Answered, Instances, MaxQueries
VARIABLES asked, packet, next, parsed, found
Discovery == INSTANCE Discovery WITH Packets <- Answered, seen <- parsed

framesVars == <<ws, tx, polling, wire, sent, got, queued, received>>
bodyVars == <<response, unread, dec, split, counted, lines, bodyState>>
codecVars == <<ends, writer, message, reader, fields, codecState>>
namesVars == <<pkt, nameAt, offset, hops, nameEnd, dotted, nameState>>
discoveryVars == <<asked, packet, next, parsed, found>>

bytesVars == <<format, framesVars, bodyVars, codecVars, namesVars, discoveryVars>>

\* The parameters are such as each format says.
ASSUME BytesAssumption ==
  Frames!Parameters /\ Body!Parameters /\ Names!Parameters /\ Discovery!Parameters

Formats == {"frames", "body", "codec", "names", "discovery"}

\* The format begins; nothing else does.
Opens ==
  /\ IF format = "frames" THEN Frames!Init ELSE
       /\ ws = Absent /\ tx = Absent /\ polling = Absent /\ wire = Absent /\ sent = Absent
       /\ got = Absent /\ queued = Absent /\ received = Absent
  /\ IF format = "body" THEN Body!Init ELSE
       /\ response = Absent /\ unread = Absent /\ dec = Absent /\ split = Absent
       /\ counted = Absent /\ lines = Absent /\ bodyState = Absent
  /\ IF format = "codec" THEN Codec!Init ELSE
       /\ ends = Absent /\ writer = Absent /\ message = Absent /\ reader = Absent
       /\ fields = Absent /\ codecState = Absent
  /\ IF format = "names" THEN Names!Init ELSE
       /\ pkt = Absent /\ nameAt = Absent /\ offset = Absent /\ hops = Absent
       /\ nameEnd = Absent /\ dotted = Absent /\ nameState = Absent
  /\ IF format = "discovery" THEN Discovery!Init ELSE
       /\ asked = Absent /\ packet = Absent /\ next = Absent /\ parsed = Absent
       /\ found = Absent

BytesInit == format \in Formats /\ Opens

BytesNext ==
  /\ UNCHANGED format
  /\ IF format = "frames" THEN Frames!Next ELSE UNCHANGED framesVars
  /\ IF format = "body" THEN Body!Next ELSE UNCHANGED bodyVars
  /\ IF format = "codec" THEN Codec!Next ELSE UNCHANGED codecVars
  /\ IF format = "names" THEN Names!Next ELSE UNCHANGED namesVars
  /\ IF format = "discovery" THEN Discovery!Next ELSE UNCHANGED discoveryVars

BytesSpec == BytesInit /\ [][BytesNext]_bytesVars

-----------------------------------------------------------------------------

\* Messages and lines arrive whole, in their order and once, wherever TCP cuts them,
\* whatever control frames, chunks and trailers lie between, and however slowly the
\* socket takes what is sent; a name ends where its own bytes do and leads to a daemon,
\* not to what shares the packet; and no buffer outgrows its limit on the way (nev_ws.c,
\* http.rs, nev_mdns.c).
BytesArrive ==
  /\ format = "frames" => Frames!TypeOK /\ Frames!FramesArrive
  /\ format = "body" => Body!TypeOK /\ Body!BodyArrives
  /\ format = "names" => Names!TypeOK /\ Names!NamesAreRead
  /\ format = "discovery" => Discovery!TypeOK /\ Discovery!DaemonIsFound

\* A message means the same at both ends, whichever has the newer schema: what both
\* know arrives, what only one does is left out, and nothing is read past its end
\* (nev_proto.c, nev_cbor.c, generated.rs, cbor.rs).
MessagesAgree == format = "codec" => Codec!TypeOK /\ Codec!CodecAgrees
=============================================================================
