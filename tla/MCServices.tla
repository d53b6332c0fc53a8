------------------------------ MODULE MCServices ------------------------------
(***************************************************************************)
(* A small instance of Services and of Bytes: the lengths, times and names *)
(* that each part needs to reach its limits.  A behaviour is one of one    *)
(* part of either.                                                         *)
(***************************************************************************)
EXTENDS Services, Bytes

\* The offers of firmware: newer, without a digest, newer by name only, larger than
\* the partition, and malformed.  The firmware that runs is 1.1.0.
Version(parts, text) == [parts |-> parts, text |-> text]
MCOffers == {
  [version |-> Version(<<1, 2>>, FALSE), size |-> 2, sha256 |-> <<"a", "b">>],
  [version |-> Version(<<1, 2>>, FALSE), size |-> 1, sha256 |-> <<>>],
  [version |-> Version(<<1, 1>>, TRUE), size |-> 1, sha256 |-> <<"a">>],
  [version |-> Version(<<2>>, TRUE), size |-> 3, sha256 |-> <<"a", "a", "a">>],
  [version |-> Version(<<2>>, FALSE), size |-> 0, sha256 |-> <<>>]}
MCCurrent == Version(<<1, 1, 0>>, FALSE)

\* Frames of the daemon: messages, one as long as the extended length needs and one
\* longer than the buffer, control frames, a fragment and a text; and what answers.
Binary(payload) == [op |-> 2, payload |-> payload]
MCInbound == {
  Binary(<<50>>), Binary(<<51, 52>>), Binary(<<60, 60, 60, 60, 60>>),
  [op |-> 9, payload |-> <<53>>], [op |-> 10, payload |-> <<>>], [op |-> 8, payload |-> <<>>],
  [op |-> 0, payload |-> <<>>], [op |-> 1, payload |-> <<54>>]}
MCOutbound == {<<70, 71>>}
MCResponses == {<<101, 13>>, <<200, 13>>, <<101, 5, 5, 5, 5, 5>>}

\* Bodies of the model server: in chunks, with trailers, cut off, with a line too long,
\* with a size or a chunk's end that is none, of a length, and to the end.
Meant == <<20, 21, 11, 11, 22>>
InChunks == <<1, 0, 10, 11>> \o <<20, 21>> \o <<10, 11>> \o <<1, 1, 10, 11>> \o <<11, 11, 22>>
              \o <<10, 11>> \o <<0, 10, 11>>
MCStreams ==
  [framing : {"chunked"}, length : {0}, bytes : {
     InChunks, InChunks \o <<40, 10, 11>>, SubSeq(InChunks, 1, 13),
     <<20, 21, 22, 22, 22, 10, 11>>, <<1, 10, 11, 20, 21, 22>>}]
  \union [framing : {"length"}, length : {5}, bytes : {Meant, SubSeq(Meant, 1, 4)}]
  \union [framing : {"eof"}, length : {0}, bytes : {Meant, <<20, 21, 22, 11>>}]

\* Of every message of the protocol the least and the most that each field takes, and the
\* most with one string too long; two fields that no receiver knows; and frames of a
\* stranger, with every body of four bytes of an alphabet under four ids, cut off, too
\* long, or of no message.
Least(field) == CASE field.kind = "uint" -> 3 [] field.kind = "bool" -> FALSE
                  [] field.kind = "f32" -> <<1, 2, 3>> [] OTHER -> <<>>
Filled(n) == [i \in 1..n |-> 7]
Most(field) == CASE field.kind = "uint" -> field.max [] field.kind = "bool" -> TRUE
                 [] field.kind = "f32" -> <<79, 0, 79>> [] OTHER -> Filled(field.max)
MessagesOf(types) ==
  LET most == [i \in DOMAIN types |-> Most(types[i])]
      strings == {i \in DOMAIN types : types[i].kind \in {"text", "bytes"}}
  IN {[i \in DOMAIN types |-> Least(types[i])], most}
       \union {[most EXCEPT ![i] = Filled(types[i].max + 1)] : i \in strings}
MCWidths == <<1, 2, 3, 4>>
MCMessages(id) == MessagesOf(Codec!Fields(id))
MCNewer == <<[kind |-> "list", value |-> <<<<5>>, <<>>>>], [kind |-> "int", value |-> -5]>>
Headed == {<<0, 0, 4 + Len(head)>> \o head \o <<a, b, c, d>> :
             a, b, c, d \in {2, 4, 31, 42, 71, 76, 78},
             head \in {<<43, 2>>, <<43, 4, 19>>, <<43, 4, 48>>, <<43, 4, 49>>}}
MCStrange == Headed \union {<<0, 0>>, <<0, 1, 0>>, <<0, 0, 5, 43, 1>>, <<0, 0, 2, 43, 0>>, <<0, 0, 0>>,
                         <<0, 0, 1, 40>>, <<1, 22, 33, 43, 1>>}

\* Packets of five bytes, and a few that are long enough for three jumps.
MCPackets == [1..5 -> {0, 1, 2, 5, 64, 192}] \union
  {<<0, 192, 0, 192, 1, 192, 3>>, <<1, 5, 0, 192, 0, 192, 3>>, <<1, 5, 192, 1, 1, 2, 192, 0>>}

MCKnown == {<<>>, <<<<5>>>>, <<<<5>>, <<2>>>>}

\* Answers about two daemons and a printer, in any order.
Rec(type, name, data, port) == [type |-> type, name |-> name, data |-> data, port |-> port]
Recs == {
  Rec("ptr", "service", "i1", 0), Rec("ptr", "service", "i2", 0), Rec("ptr", "printers", "p1", 0),
  Rec("srv", "i1", "h1", 1), Rec("srv", "i2", "h2", 2), Rec("srv", "p1", "h3", 3),
  Rec("a", "h1", 11, 0), Rec("a", "h2", 12, 0), Rec("a", "h3", 13, 0), Rec("txt", "h1", "", 0)}
MCAnswered == UNION {[1..n -> Recs] : n \in 1..3}
              \union {<<a, b, Rec("cut", "", "", 0)>> : a, b \in Recs}

-----------------------------------------------------------------------------

MCInit == \/ Init /\ format = Absent /\ Opens
          \/ BytesInit /\ subject = Unused /\ Begins

MCNext == \/ subject \in Parts /\ Next /\ UNCHANGED bytesVars
          \/ format \in Formats /\ BytesNext /\ UNCHANGED vars

MCSpec == MCInit /\ [][MCNext]_<<vars, bytesVars>>
=============================================================================
