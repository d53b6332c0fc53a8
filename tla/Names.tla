--------------------------------- MODULE Names ---------------------------------
(***************************************************************************)
(* A name in an mDNS packet, as nev_mdns.c reads it (read_name) and writes *)
(* it (write_name): labels up to an empty one, or up to a pointer to an    *)
(* earlier place where the name goes on.  One turn of the loop is a step.  *)
(*                                                                         *)
(* A packet is a sequence of bytes, its first at offset 0.                 *)
(***************************************************************************)
EXTENDS Integers, Sequences

CONSTANTS FlattenSeq(_), IsPrefix(_, _)   \* those of SequencesExt, which Bytes extends

CONSTANTS
  Packets,  \* what may arrive
  MaxJumps, \* 8
  OutCap,   \* the room for the dotted name
  Known     \* names that are written, each by its labels

Pointer == 192
Reserved == 64
Dot == 46
None == 0   \* end_of_name: not known yet
Octets == 0..255

\* What write_name takes for a name has no empty label and none that is too long.
Parameters ==
  /\ MaxJumps \in Nat /\ OutCap \in Nat \ {0}
  /\ Packets \subseteq Seq(Octets)
  /\ Known \subseteq Seq(Seq(Octets))
  /\ \A labels \in Known : \A i \in DOMAIN labels : labels[i] # <<>> /\ Len(labels[i]) < Reserved

VARIABLES
  pkt, at, \* the packet, and where the name begins in it
  here,    \* the offset that is read
  jumps,
  end,     \* end_of_name
  name,    \* the dotted name so far
  state    \* "reading", "bad" or "read"

vars == <<pkt, at, here, jumps, end, name, state>>

Byte(i) == pkt[i + 1]
Size == Len(pkt)

\* Where the pointer at i leads.
Target(i) == (Byte(i) - Pointer) * 256 + Byte(i + 1)

Init ==
  /\ pkt \in Packets
  /\ at \in 0..(Size - 1)
  /\ here = at
  /\ jumps = 0
  /\ end = None
  /\ name = <<>>
  /\ state = "reading"

Fails == state' = "bad" /\ UNCHANGED <<here, jumps, end, name>>

\* Mutant: the name ends after the last pointer that was followed.
FollowLast ==
  IF here + 1 >= Size \/ jumps + 1 > MaxJumps \/ Target(here) >= here THEN Fails
  ELSE /\ here' = Target(here)
       /\ jumps' = jumps + 1
       /\ end' = here + 2
       /\ UNCHANGED <<name, state>>

\* A pointer leads backwards, and not too many of them are followed; the name ends
\* after the first.
Follow ==
  IF here + 1 >= Size \/ jumps + 1 > MaxJumps \/ Target(here) >= here THEN Fails
  ELSE /\ here' = Target(here)
       /\ jumps' = jumps + 1
       /\ end' = IF end = None THEN here + 2 ELSE end
       /\ UNCHANGED <<name, state>>

Stop ==
  /\ state' = "read"
  /\ end' = IF end = None THEN here + 1 ELSE end
  /\ UNCHANGED <<here, jumps, name>>

Label(i) == SubSeq(pkt, i + 2, i + 1 + Byte(i))

\* Mutant: the room for the dot and the end is not looked at.
TakeLabelTight ==
  LET longer == (IF name = <<>> THEN <<>> ELSE Append(name, Dot)) \o Label(here)
  IN IF here + 1 + Byte(here) > Size \/ Len(name) + Byte(here) > OutCap THEN Fails
     ELSE /\ name' = longer
          /\ here' = here + 1 + Byte(here)
          /\ UNCHANGED <<jumps, end, state>>

\* A label that is all there and fits, with a dot before it.
TakeLabel ==
  LET longer == (IF name = <<>> THEN <<>> ELSE Append(name, Dot)) \o Label(here)
  IN IF here + 1 + Byte(here) > Size \/ Len(longer) >= OutCap THEN Fails
     ELSE /\ name' = longer
          /\ here' = here + 1 + Byte(here)
          /\ UNCHANGED <<jumps, end, state>>

Turn ==
  /\ state = "reading"
  /\ IF here >= Size THEN Fails
     ELSE CASE Byte(here) >= Pointer -> Follow
            [] Byte(here) = 0 -> Stop
            [] Byte(here) \in Reserved..(Pointer - 1) -> Fails
            [] OTHER -> TakeLabel
  /\ UNCHANGED <<pkt, at>>

Next == Turn

\* write_name: the labels of a name, each after its length, and the empty one.
Labelled(labels) == [i \in DOMAIN labels |-> <<Len(labels[i])>> \o labels[i]]
Written(labels) == FlattenSeq(Labelled(labels)) \o <<0>>

-----------------------------------------------------------------------------
(* Properties.                                                             *)

\* Every variable has its type.
TypeOK ==
  /\ at \in 0..(Size - 1) /\ here \in 0..Size
  /\ jumps \in 0..MaxJumps /\ end \in 0..Size
  /\ Len(name) < OutCap
  /\ state \in {"reading", "bad", "read"}

\* Where a name ends, by its own bytes alone: a pointer or an empty label.
Next1(i) == IF i >= Size \/ Byte(i) = 0 \/ Byte(i) >= Pointer THEN i ELSE i + 1 + Byte(i)
Reached[k \in 0..Size] == IF k = 0 THEN at ELSE Next1(Reached[k - 1])
EndOf == IF Byte(Reached[Size]) = 0 THEN Reached[Size] + 1 ELSE Reached[Size] + 2

\* Wherever its pointers lead, a name that was read ends where its own bytes do: the
\* record after it is found, and each record begins after the one before it.
EndsInPlace == state = "read" => end = EndOf /\ end > at

\* A name that was written is read back, wherever it lies in a packet, if there is room.
Dotted(labels) ==
  FlattenSeq([i \in DOMAIN labels |-> IF i = 1 THEN labels[i] ELSE <<Dot>> \o labels[i]])
ReadsWritten ==
  \A labels \in Known :
    /\ IsPrefix(Written(labels), SubSeq(pkt, at + 1, Size))
    /\ Len(Dotted(labels)) < OutCap
    => state # "bad" /\ (state = "read" => name = Dotted(labels))

NamesAreRead == EndsInPlace /\ ReadsWritten
=============================================================================
