--------------------------------- MODULE Codec ---------------------------------
(***************************************************************************)
(* A message of the bridge protocol from one end to the other: the encoder *)
(* and decoder generated for it on both sides (nev_proto.c, generated.rs)  *)
(* over the CBOR subset both hand-write (nev_cbor.c, cbor.rs), and the     *)
(* length prefix around it.  The two ends may be built from different      *)
(* versions of the schema, to which fields are only ever appended: of each *)
(* of the sixteen messages one end may have fewer fields, or more.         *)
(*                                                                         *)
(* A byte is a number below Radix: a major type times Ais and an argument, *)
(* or a digit.  A text is its bytes and holds no NUL; UTF-8 is left out.   *)
(* The two ends differ in one thing: the device writes into a buffer, and  *)
(* its strings cannot be longer than their fields.                         *)
(***************************************************************************)
EXTENDS Integers, Sequences

CONSTANT FlattenSeq(_)   \* that of SequencesExt, which Bytes extends

CONSTANTS
  Radix, Widths,   \* 256, <<1, 2, 4, 8>>
  Ais, Inline,  \* 32, 24
  EncodeCap,    \* ENCODE_CAP: the size of the device's buffer
  Messages(_), \* bound: the values that are sent of a message, one for each field
  Newer,    \* fields that no receiver knows yet: kind and value
  Caps,     \* sizes of the device's buffer that are considered
  MaxFrame, \* NEV_PROTO_MAX_FRAME
  Strange   \* frames from no encoder of this schema

VARIABLES
  ends,    \* who sends, from: "device", "daemon", or "stranger"; the id and values, msg; and
           \* how many of the fields either end's version has: sends, knows
  w,       \* the writer: cap, buf, over, and the next item; cap is 0 for none
  frame,   \* what was sent
  r,       \* the reader: its message's id, payload, pos, how many fields are present, how many were read
  out,     \* what it has read
  state

vars == <<ends, w, frame, r, out, state>>

Uint == 0
Nint == 1
Bytes == 2
Text == 3
Array == 4
Simple == 7
Float == Inline + 2   \* AI_U32: a float of four bytes
False == Inline - 4   \* SIMPLE_FALSE, and SIMPLE_TRUE after it
Word == Widths[3]     \* four bytes: a float, or the length before a frame

Code(major, ai) == major * Ais + ai
Digits(v, n) == [i \in 1..n |-> (v \div Radix^(n - i)) % Radix]
Number(digits) ==
  LET n[i \in 0..Len(digits)] == IF i = 0 THEN 0 ELSE n[i - 1] * Radix + digits[i]
  IN n[Len(digits)]

-----------------------------------------------------------------------------
(* The messages, as nev_proto.c writes and reads them: the fields in their *)
(* order, and the largest number or the longest string that each takes.    *)
(* generated.rs, made from the same schema/nevos.toml, has the same.       *)

U8 == [kind |-> "uint", max |-> Radix^Widths[1] - 1]
U16 == [kind |-> "uint", max |-> Radix^Widths[2] - 1]
U32 == [kind |-> "uint", max |-> Radix^Widths[3] - 1]
U64 == [kind |-> "uint", max |-> Radix^Widths[4] - 1]
Flag == [kind |-> "bool", max |-> 1]
F32 == [kind |-> "f32", max |-> 0]
Str(max) == [kind |-> "text", max |-> max]
Blob(max) == [kind |-> "bytes", max |-> max]

Hello == <<U16, Str(32), Str(24), Str(64)>>     \* protocol, device_id, firmware, token
HelloAck == <<Flag, Flag, Str(48), U64>>        \* accepted, needs_pairing, daemon_name, unix_time
Pair == <<Str(12)>>                             \* code
PairResult == <<Flag, Str(64), Str(64)>>        \* granted, token, reason
Ping == <<U32>>                                 \* nonce
Pong == <<U32>>
AudioChunk == <<U32, U32, Flag, Blob(4096), U8>>   \* seq, session, final, pcm, kind
CaptureMarker == <<U32, F32>>                   \* session, at_seconds
TranscriptPartial == <<U32, Str(512)>>          \* session, text
TranscriptFinal == <<U32, Str(512), F32>>       \* session, text, confidence
AgentRequest == <<U32, Str(512), Str(16)>>      \* turn, text, app
AgentToken == <<U32, Str(512)>>                 \* turn, text
AgentDone == <<U32, Str(128)>>                  \* turn, error
MoodHint == <<U8, U8, U16>>                     \* mood, intensity, duration_ms
Notification == <<Str(48), Str(160), Flag>>     \* title, body, urgent
OtaAvailable == <<Str(24), Str(256), U32, Blob(32)>>   \* version, url, size_bytes, sha256

\* nev_msg_id_t, and the fields that go with each.
Ids == {1, 2, 3, 4, 5, 6, 16, 17, 18, 19, 32, 33, 34, 48, 49, 50}

Fields(id) ==
  CASE id = 1 -> Hello
    [] id = 2 -> HelloAck
    [] id = 3 -> Pair
    [] id = 4 -> PairResult
    [] id = 5 -> Ping
    [] id = 6 -> Pong
    [] id = 16 -> AudioChunk
    [] id = 17 -> TranscriptPartial
    [] id = 18 -> TranscriptFinal
    [] id = 19 -> CaptureMarker
    [] id = 32 -> AgentRequest
    [] id = 33 -> AgentToken
    [] id = 34 -> AgentDone
    [] id = 48 -> MoodHint
    [] id = 49 -> Notification
    [] id = 50 -> OtaAvailable

-----------------------------------------------------------------------------
(* Writing.                                                                *)

\* put_head: the shortest argument that holds v.
WriteHead(major, v) ==
  IF v < Inline THEN <<Code(major, v)>>
  ELSE LET i == CHOOSE k \in 1..4 : v < Radix^Widths[k] /\ \A j \in 1..(k - 1) : v >= Radix^Widths[j]
       IN <<Code(major, Inline + i - 1)>> \o Digits(v, Widths[i])

Item(kind, v) ==
  CASE kind = "uint"  -> WriteHead(Uint, v)
    [] kind = "int"   -> IF v < 0 THEN WriteHead(Nint, -(v + 1)) ELSE WriteHead(Uint, v)
    [] kind = "bool"  -> <<Code(Simple, IF v THEN False + 1 ELSE False)>>
    [] kind = "f32"   -> <<Code(Simple, Float)>> \o v
    [] kind = "bytes" -> WriteHead(Bytes, Len(v)) \o v
    [] kind = "text"  -> WriteHead(Text, Len(v)) \o v
    [] kind = "list"  -> WriteHead(Array, Len(v)) \o FlattenSeq([i \in DOMAIN v |-> WriteHead(Text, Len(v[i])) \o v[i]])

\* Mutant: what does not fit is left out, and the rest is written.
PutLoose(bytes) ==
  IF w.cap # 0 /\ Len(w.buf) + Len(bytes) > w.cap THEN [w EXCEPT !.next = @ + 1]
  ELSE [w EXCEPT !.buf = @ \o bytes, !.next = @ + 1]

\* put and put_n: once something has not fitted nothing more is written.
Put(bytes) ==
  IF w.over \/ (w.cap # 0 /\ Len(w.buf) + Len(bytes) > w.cap)
  THEN [w EXCEPT !.over = TRUE, !.next = @ + 1]
  ELSE [w EXCEPT !.buf = @ \o bytes, !.next = @ + 1]

\* Every field the sender has: those of the schema, then newer ones.
Schema == Fields(ends.id)
KindOf(i) == IF i <= Len(Schema) THEN Schema[i].kind ELSE Newer[i - Len(Schema)].kind
ValueOf(i) == IF i <= Len(Schema) THEN ends.msg[i] ELSE Newer[i - Len(Schema)].value

\* The fields fit the device's structs; byte fields are checked as they are written.
TooLong(i) == ends.from = "device" /\ KindOf(i) = "bytes" /\ i <= Len(Schema)
              /\ Len(ValueOf(i)) > Schema[i].max

WriteItem ==
  /\ state = "writing" /\ w.next <= ends.sends + 1
  /\ IF w.next >= 2 /\ TooLong(w.next - 1)
     THEN state' = "unsent" /\ UNCHANGED w
     ELSE /\ w' = Put(CASE w.next = 0 -> WriteHead(Array, ends.sends + 1)
                        [] w.next = 1 -> Item("uint", ends.id)
                        [] OTHER -> Item(KindOf(w.next - 1), ValueOf(w.next - 1)))
          /\ UNCHANGED state
  /\ UNCHANGED <<ends, frame, r, out>>

\* The whole message was written or nothing is sent; then frame_wrap.
Wrap(payload) == Digits(Len(payload), Word) \o payload
Send ==
  /\ state = "writing" /\ w.next = ends.sends + 2
  /\ IF w.over \/ Len(w.buf) > MaxFrame THEN state' = "unsent" /\ UNCHANGED frame
     ELSE state' = "sent" /\ frame' = Wrap(w.buf)
  /\ UNCHANGED <<ends, w, r, out>>

-----------------------------------------------------------------------------
(* Reading.                                                                *)

Left(buf, pos) == Len(buf) - pos + 1
Bad == [ok |-> FALSE]

\* read_head: 28 to 31 are refused.
ReadHead(buf, pos) ==
  IF Left(buf, pos) < 1 THEN Bad
  ELSE LET ai == buf[pos] % Ais  major == buf[pos] \div Ais
       IN IF ai < Inline THEN [ok |-> TRUE, major |-> major, arg |-> ai, pos |-> pos + 1]
          ELSE IF ai >= Inline + 4 \/ Left(buf, pos) < 1 + Widths[ai - Inline + 1] THEN Bad
          ELSE LET n == Widths[ai - Inline + 1]
               IN [ok |-> TRUE, major |-> major, arg |-> Number(SubSeq(buf, pos + 1, pos + n)),
                   pos |-> pos + 1 + n]

\* A declared length is held against what is there before it is trusted.
Fits(buf, h) == h.arg <= Left(buf, h.pos)

Good(value, pos) == [ok |-> TRUE, value |-> value, pos |-> pos]

\* r_u64, r_u32 and the check of the field's width; r_bool; r_f32; r_text, r_bytes.
ReadField(type, buf, pos) ==
  LET h == ReadHead(buf, pos) IN
  CASE type.kind = "uint" ->
         IF h.ok /\ h.major = Uint /\ h.arg <= type.max THEN Good(h.arg, h.pos) ELSE Bad
    [] type.kind = "bool" ->
         IF Left(buf, pos) >= 1 /\ buf[pos] \in {Code(Simple, False), Code(Simple, False + 1)}
         THEN Good(buf[pos] = Code(Simple, False + 1), pos + 1) ELSE Bad
    [] type.kind = "f32" ->
         IF Left(buf, pos) >= 1 + Word /\ buf[pos] = Code(Simple, Float)
         THEN Good(SubSeq(buf, pos + 1, pos + Word), pos + 1 + Word) ELSE Bad
    [] type.kind \in {"bytes", "text"} ->
         IF h.ok /\ h.major = (IF type.kind = "text" THEN Text ELSE Bytes)
            /\ Fits(buf, h) /\ h.arg <= type.max
         THEN Good(SubSeq(buf, h.pos, h.pos + h.arg - 1), h.pos + h.arg) ELSE Bad

\* One element of a list that is stepped over: a list in a list is refused.
SkipElement(buf, acc) ==
  LET h == ReadHead(buf, acc.pos)
  IN IF ~acc.ok \/ ~h.ok \/ h.major = Array THEN [acc EXCEPT !.ok = FALSE]
     ELSE IF h.major \in {Bytes, Text}
          THEN IF Fits(buf, h) THEN [acc EXCEPT !.pos = h.pos + h.arg] ELSE [acc EXCEPT !.ok = FALSE]
          ELSE [acc EXCEPT !.pos = h.pos]

\* r_skip.  Each element is a byte or more: a list of more than there are bytes fails.
Skip(buf, pos) ==
  LET h == ReadHead(buf, pos)
      elements == IF h.arg > Left(buf, h.pos) THEN Left(buf, h.pos) + 1 ELSE h.arg
      list[i \in 0..elements] == IF i = 0 THEN Good(0, h.pos) ELSE SkipElement(buf, list[i - 1])
  IN CASE ~h.ok -> Bad
       [] h.ok /\ h.major \in {Uint, Nint, Simple} -> Good(0, h.pos)
       [] h.ok /\ h.major \in {Bytes, Text} -> IF Fits(buf, h) THEN Good(0, h.pos + h.arg) ELSE Bad
       [] h.ok /\ h.major = Array ->
            list[elements]
       [] OTHER -> Bad

Refuses == state' = "refused" /\ UNCHANGED <<r, out>>

Acceptable(type, v) == type.kind \in {"text", "bytes"} => Len(v) <= type.max

ZeroOf(kind) == CASE kind = "uint" -> 0 [] kind = "bool" -> FALSE
                  [] kind = "f32" -> Digits(0, Word) [] OTHER -> <<>>
Zero(fields) == [i \in DOMAIN fields |-> ZeroOf(fields[i].kind)]

\* frame_split: less than was declared is waited for; then the array and the id, which
\* peek_id reads first, so that an unknown message is ignored.
Arrives ==
  /\ state = "sent"
  /\ LET declared == Number(SubSeq(frame, 1, Word))
         buf == SubSeq(frame, Word + 1, Word + declared)
         array == ReadHead(buf, 1)
         id == ReadHead(buf, array.pos)
     IN IF Len(frame) < Word THEN state' = "waiting" /\ UNCHANGED <<r, out>>
        ELSE IF declared > MaxFrame THEN Refuses
        ELSE IF Len(frame) - Word < declared THEN state' = "waiting" /\ UNCHANGED <<r, out>>
        ELSE IF ~array.ok \/ array.major # Array \/ ~Fits(buf, array) \/ array.arg < 1 THEN Refuses
        ELSE IF ~id.ok \/ id.major # Uint \/ id.arg >= Radix^Widths[2] THEN Refuses
        ELSE IF id.arg \notin Ids THEN state' = "ignored" /\ UNCHANGED <<r, out>>
        ELSE /\ state' = "reading"
             /\ r' = [id |-> id.arg, buf |-> buf, pos |-> id.pos, present |-> array.arg - 1, read |-> 0]
             /\ out' = Zero(Fields(id.arg))
  /\ UNCHANGED <<ends, w, frame>>

\* How many fields the receiver's version of the message has.
Known == IF ends.id = r.id THEN ends.knows ELSE Len(Fields(r.id))

\* A field that is present and known.
Reads ==
  /\ state = "reading" /\ r.read < r.present /\ r.read < Known
  /\ LET f == ReadField(Fields(r.id)[r.read + 1], r.buf, r.pos)
     IN IF f.ok THEN /\ r' = [r EXCEPT !.pos = f.pos, !.read = @ + 1]
                     /\ out' = [out EXCEPT ![r.read + 1] = f.value]
                     /\ UNCHANGED state
        ELSE Refuses
  /\ UNCHANGED <<ends, w, frame>>

\* A field of a newer peer.
Skips ==
  /\ state = "reading" /\ r.read < r.present /\ r.read >= Known
  /\ LET s == Skip(r.buf, r.pos)
     IN IF s.ok THEN r' = [r EXCEPT !.pos = s.pos, !.read = @ + 1] /\ UNCHANGED <<state, out>>
        ELSE Refuses
  /\ UNCHANGED <<ends, w, frame>>

\* What is missing stays at its zero; bytes left over are not looked at.
Decoded ==
  /\ state = "reading" /\ r.read = r.present
  /\ state' = "decoded"
  /\ UNCHANGED <<ends, w, frame, r, out>>

Init ==
  /\ r = [id |-> 0, buf |-> <<>>, pos |-> 1, present |-> 0, read |-> 0]
  /\ out = <<>>
  /\ \/ /\ state = "writing"
        /\ \E id \in Ids : ends \in [from : {"device", "daemon"}, id : {id}, msg : Messages(id),
             sends : 1..(Len(Fields(id)) + Len(Newer)), knows : 1..Len(Fields(id))]
        /\ ends.from = "device" => \A i \in DOMAIN Schema :
             Schema[i].kind = "text" => Acceptable(Schema[i], ends.msg[i])
        /\ w \in [cap : IF ends.from = "device" THEN Caps ELSE {0},
                  buf : {<<>>}, over : {FALSE}, next : {0}]
        /\ frame = <<>>
     \/ /\ state = "sent"
        /\ ends = [from |-> "stranger", id |-> 0, msg |-> <<>>, sends |-> 0, knows |-> 0]
        /\ w = [cap |-> 0, buf |-> <<>>, over |-> FALSE, next |-> 0]
        /\ frame \in Strange

Next == WriteItem \/ Send \/ Arrives \/ Reads \/ Skips \/ Decoded

-----------------------------------------------------------------------------
(* Properties.                                                             *)

\* Every variable has its type.
TypeOK ==
  /\ ends.id \in Ids \union {0} /\ r.id \in Ids \union {0}
  /\ ends.from # "stranger" => /\ ends.sends \in 1..(Len(Schema) + Len(Newer))
                              /\ ends.knows \in 1..Len(Schema)
  /\ w.next \in 0..(ends.sends + 2)
  /\ w.cap # 0 => Len(w.buf) <= w.cap
  /\ frame \in Seq(0..(Radix - 1))
  /\ state \in {"writing", "unsent", "sent", "waiting", "refused", "ignored", "reading", "decoded"}
  /\ r.read <= r.present

\* Between any two versions, whichever sends: what both know arrives as it was sent,
\* what the sender does not know is zero, what the receiver does not know is stepped
\* over; a message is refused only for a string longer than its field, never cut.
VersionsAgree ==
  LET common == {i \in DOMAIN Schema : i <= ends.sends /\ i <= ends.knows}
  IN ends.from # "stranger" =>
       /\ state = "decoded" =>
            /\ r.id = ends.id
            /\ out = [i \in DOMAIN Schema |-> IF i \in common THEN ends.msg[i] ELSE Zero(Schema)[i]]
       /\ state = "refused" => \E i \in common : ~Acceptable(Schema[i], ends.msg[i])
       /\ state \notin {"waiting", "ignored"}

\* The device's buffer and the frame's limit leave room for every message: one that is
\* not sent has bytes too long for their field, or the buffer is smaller than it is.
RoomToSend ==
  state = "unsent" => \/ w.cap # 0 /\ w.cap < EncodeCap
                      \/ \E i \in DOMAIN Schema : TooLong(i)

\* Whatever arrives, nothing is read past its end, and nothing that is kept is wider
\* or longer than its field.
StaysInside ==
  /\ r.pos <= Len(r.buf) + 1
  /\ \A i \in DOMAIN out :
       /\ Acceptable(Fields(r.id)[i], out[i])
       /\ Fields(r.id)[i].kind = "uint" => out[i] <= Fields(r.id)[i].max

CodecAgrees == VersionsAgree /\ RoomToSend /\ StaysInside
=============================================================================
