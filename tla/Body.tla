--------------------------------- MODULE Body ---------------------------------
(***************************************************************************)
(* A response of the model server, http.rs: request_lines reads it as it   *)
(* comes, ChunkedDecoder takes the chunks apart and LineSplitter makes     *)
(* lines of what was in them, which respond() gets one by one.  TCP cuts   *)
(* the bytes anywhere and the server may die after any of them.            *)
(*                                                                         *)
(* A byte is a number; a size is written in digits 0 and 1.  What follows  *)
(* the headers is a choice; lines hold no blanks at their ends.            *)
(***************************************************************************)
EXTENDS Integers, Sequences

CONSTANTS FlattenSeq(_), IsPrefix(_, _)   \* those of SequencesExt, which Bytes extends

CONSTANTS
  Streams,   \* what a server may send: the framing it announced, its length, and bytes
  MaxLine    \* the limit of the splitter

CR == 10
LF == 11
SizeLine == -1   \* remaining: None, a size line is being read
MaxSize == 3     \* 64, the longest that a size line without an end may get

\* A server sends no more than it has announced.
Parameters ==
  /\ MaxLine \in Nat
  /\ Streams \subseteq [framing : {"chunked", "length", "eof"}, length : Nat, bytes : Seq(Nat)]
  /\ \A s \in Streams : s.framing = "length" => Len(s.bytes) <= s.length

VARIABLES
  stream,   \* what the server sends, and the framing it announced
  raw,      \* what it has yet to send
  dec,      \* ChunkedDecoder: buf, remaining, done; and what this push has decoded, out
  split,    \* LineSplitter.buf
  total,    \* read_total
  lines,    \* what the caller was sent
  state     \* reading, decoding, or how request_lines returned: "ok", "error", or
            \* "broken" for an error of the connection

vars == <<stream, raw, dec, split, total, lines, state>>

Init ==
  /\ stream \in Streams
  /\ raw = stream.bytes
  /\ dec = [buf |-> <<>>, remaining |-> SizeLine, done |-> FALSE, out |-> <<>>]
  /\ split = <<>>
  /\ total = 0
  /\ lines = <<>>
  /\ state = "reading"

-----------------------------------------------------------------------------
(* Lines.                                                                  *)

\* LineSplitter::push, a byte at a time: an empty line is none.
Take(acc, b) ==
  IF b # LF THEN [acc EXCEPT !.buf = Append(@, b)]
  ELSE [buf |-> <<>>, lines |-> IF acc.buf = <<>> THEN acc.lines ELSE Append(acc.lines, acc.buf)]
Split(bytes) ==
  LET s[i \in 0..Len(bytes)] ==
        IF i = 0 THEN [buf |-> split, lines |-> lines] ELSE Take(s[i - 1], bytes[i])
  IN s[Len(bytes)]

\* The lines that some bytes of the body complete go to the caller, unless what is
\* left of one is too long.
Emit(bytes) ==
  LET s == Split(bytes)
  IN IF Len(s.buf) > MaxLine THEN state' = "error" /\ UNCHANGED <<split, lines>>
     ELSE state' = "reading" /\ split' = s.buf /\ lines' = s.lines

-----------------------------------------------------------------------------
(* Reading.                                                                *)

Ended == \/ stream.framing = "chunked" /\ dec.done
         \/ stream.framing = "length" /\ total >= stream.length

\* The body is over: what is left of a line is one.
Flushed == IF split = <<>> THEN lines ELSE Append(lines, split)
Flushes ==
  /\ state' = "ok"
  /\ lines' = Flushed
  /\ split' = <<>>
  /\ UNCHANGED <<stream, raw, dec, total>>

\* A read, of any of what is there; without chunks it is body as it is.
Read(n) ==
  /\ state = "reading" /\ ~Ended /\ n <= Len(raw)
  /\ raw' = SubSeq(raw, n + 1, Len(raw))
  /\ total' = total + n
  /\ IF stream.framing = "chunked"
     THEN /\ dec' = [dec EXCEPT !.buf = @ \o SubSeq(raw, 1, n)]
          /\ state' = "decoding"
          /\ UNCHANGED <<split, lines>>
     ELSE Emit(SubSeq(raw, 1, n)) /\ UNCHANGED dec
  /\ UNCHANGED stream

\* The end of the body, or of the connection, of which nothing is thought amiss.
Eof == state = "reading" /\ Flushes

\* A connection that breaks is an error.
Breaks ==
  /\ state = "reading" /\ state' = "broken"
  /\ UNCHANGED <<stream, raw, dec, split, total, lines>>

\* The caller has gone, which the next line finds out; nothing more is read.
CallerLeaves ==
  /\ state = "reading" /\ state' = "ok"
  /\ UNCHANGED <<stream, raw, dec, split, total, lines>>

-----------------------------------------------------------------------------
(* ChunkedDecoder::push, one turn of its loop at a time.                   *)

Decodes(d) == dec' = d /\ UNCHANGED <<split, lines, state>>
Returns(d) == dec' = [d EXCEPT !.out = <<>>] /\ Emit(d.out)
Refuses == state' = "error" /\ UNCHANGED <<dec, split, lines>>

\* find_crlf.
LineEnds(buf) == {i \in 1..(Len(buf) - 1) : buf[i] = CR /\ buf[i + 1] = LF}
Eol(buf) == CHOOSE i \in LineEnds(buf) : \A j \in LineEnds(buf) : i <= j
Size(digits) ==
  LET n[i \in 0..Len(digits)] == IF i = 0 THEN 0 ELSE 2 * n[i - 1] + digits[i]
  IN n[Len(digits)]
IsSize(digits) == digits # <<>> /\ \A i \in DOMAIN digits : digits[i] \in {0, 1}
From(buf, i) == SubSeq(buf, i, Len(buf))

\* A size line, once it is all there.
ReadsSize ==
  /\ dec.remaining = SizeLine /\ ~dec.done
  /\ IF LineEnds(dec.buf) = {} THEN IF Len(dec.buf) > MaxSize THEN Refuses ELSE Returns(dec)
     ELSE LET digits == SubSeq(dec.buf, 1, Eol(dec.buf) - 1)
          IN IF ~IsSize(digits) THEN Refuses
             ELSE Decodes([dec EXCEPT !.buf = From(@, Eol(dec.buf) + 2),
                             !.remaining = IF Size(digits) = 0 THEN SizeLine ELSE Size(digits),
                             !.done = Size(digits) = 0])

\* Trailers are dropped.
DropsTrailers == dec.remaining = SizeLine /\ dec.done /\ Returns([dec EXCEPT !.buf = <<>>])

\* As much of a chunk as is there.
ReadsChunk ==
  /\ dec.remaining > 0
  /\ LET n == IF dec.remaining < Len(dec.buf) THEN dec.remaining ELSE Len(dec.buf)
     IN IF n = 0 THEN Returns(dec)
        ELSE Decodes([dec EXCEPT !.buf = From(@, n + 1), !.remaining = @ - n,
                                 !.out = @ \o SubSeq(dec.buf, 1, n)])

\* Mutant: a CRLF of which half has come is taken to be over.
EndsChunkEarly ==
  /\ dec.remaining = 0
  /\ IF Len(dec.buf) < 2 THEN Returns([dec EXCEPT !.buf = <<>>, !.remaining = SizeLine])
     ELSE IF SubSeq(dec.buf, 1, 2) # <<CR, LF>> THEN Refuses
     ELSE Decodes([dec EXCEPT !.buf = From(@, 3), !.remaining = SizeLine])

\* Then its CRLF, of which half may be missing yet.
EndsChunk ==
  /\ dec.remaining = 0
  /\ IF Len(dec.buf) < 2 THEN Returns(dec)
     ELSE IF SubSeq(dec.buf, 1, 2) # <<CR, LF>> THEN Refuses
     ELSE Decodes([dec EXCEPT !.buf = From(@, 3), !.remaining = SizeLine])

Decode ==
  /\ state = "decoding"
  /\ ReadsSize \/ DropsTrailers \/ ReadsChunk \/ EndsChunk
  /\ UNCHANGED <<stream, raw, total>>

Next == \/ \E n \in 1..Len(raw) : Read(n)
        \/ Eof
        \/ Breaks
        \/ CallerLeaves
        \/ Decode

-----------------------------------------------------------------------------

(* What is meant, read at once from bytes that are all there.              *)

\* Where p begins a size line: its digits, and where what follows it begins.
Digits(bytes, p) == SubSeq(From(bytes, p), 1, Eol(From(bytes, p)) - 1)
Data(bytes, p) == p + Eol(From(bytes, p)) + 1
HasSize(bytes, p) == LineEnds(From(bytes, p)) # {} /\ IsSize(Digits(bytes, p))
Begins(bytes, p) == HasSize(bytes, p) /\ Size(Digits(bytes, p)) # 0

\* A size line is short enough wherever it is cut.
IsShort(bytes, p) ==
  IF LineEnds(From(bytes, p)) = {} THEN Len(From(bytes, p)) <= MaxSize
  ELSE HasSize(bytes, p) /\ Eol(From(bytes, p)) <= MaxSize

CrlfAt(bytes, p) == p + 1 <= Len(bytes) /\ bytes[p] = CR /\ bytes[p + 1] = LF

\* As many of n bytes from p on as there are.
Piece(bytes, p, n) == SubSeq(bytes, p, IF p + n - 1 <= Len(bytes) THEN p + n - 1 ELSE Len(bytes))

\* The body of the chunks from each place on, and whether they are well formed.
Chunks(bytes) ==
  LET c[p \in 1..(Len(bytes) + 1)] ==
        LET end == Data(bytes, p) + Size(Digits(bytes, p))
        IN IF ~Begins(bytes, p) THEN [body |-> <<>>, sound |-> IsShort(bytes, p)]
           ELSE IF ~CrlfAt(bytes, end)
           THEN [body |-> Piece(bytes, Data(bytes, p), Size(Digits(bytes, p))),
                 sound |-> IsShort(bytes, p) /\ end >= Len(bytes)]
           ELSE [body |-> Piece(bytes, Data(bytes, p), Size(Digits(bytes, p))) \o c[end + 2].body,
                 sound |-> IsShort(bytes, p) /\ c[end + 2].sound]
  IN c

Meant(s) == IF s.framing = "chunked" THEN Chunks(s.bytes)[1].body ELSE s.bytes

\* The lines of a body, by where its line ends are.
Ends(body) == {0} \union {i \in DOMAIN body : body[i] = LF}
LineAfter(body, i) ==
  SubSeq(body, i + 1, CHOOSE j \in i..Len(body) :
    (j = Len(body) \/ j + 1 \in Ends(body)) /\ \A k \in (i + 1)..j : k \notin Ends(body))
LinesOf(body) ==
  FlattenSeq([n \in 1..(Len(body) + 1) |->
    IF n - 1 \in Ends(body) /\ LineAfter(body, n - 1) # <<>> THEN <<LineAfter(body, n - 1)>>
    ELSE <<>>])

Sound(s) ==
  /\ s.framing = "chunked" => Chunks(s.bytes)[1].sound
  /\ \A i \in Ends(Meant(s)) : Len(LineAfter(Meant(s), i)) <= MaxLine

-----------------------------------------------------------------------------

TypeOK ==
  /\ stream \in Streams /\ raw = From(stream.bytes, total + 1)
  /\ dec.buf \in Seq(Nat) /\ dec.remaining \in Nat \union {SizeLine} /\ dec.done \in BOOLEAN
  /\ dec.out \in Seq(Nat) /\ (state = "reading" => dec.out = <<>>)
  /\ split \in Seq(Nat) /\ total = Len(stream.bytes) - Len(raw)
  /\ state \in {"reading", "decoding", "ok", "error", "broken"}

\* However the bytes are cut, the caller gets the lines of the body, whole, in order
\* and none twice; only a connection that ends early may cut the last of them short,
\* and of a body that has ended none is missing.
LinesAreWhole ==
  LET meant == LinesOf(Meant(stream))
  IN /\ state \in {"reading", "decoding"} => IsPrefix(lines, meant)
     /\ \A i \in DOMAIN lines : i < Len(lines) => lines[i] = meant[i]
     /\ lines # <<>> => IsPrefix(lines[Len(lines)], meant[Len(lines)])
     /\ state = "reading" /\ (Ended \/ (stream.framing = "eof" /\ raw = <<>>)) => Flushed = meant

\* A line never grows past its limit, nor what is kept of a size line past its own.
KeepsLittle ==
  state = "reading" => Len(split) <= MaxLine /\ (dec.remaining = SizeLine => Len(dec.buf) <= MaxSize)

\* A body that is well formed is never refused for where it was cut.
NeverRefused == Sound(stream) => state # "error"

BodyArrives == LinesAreWhole /\ KeepsLittle /\ NeverRefused
=============================================================================
