------------------------------- MODULE MCDecoder -------------------------------
(* Constants for model checking Decoder: streams made of records and debris. *)
EXTENDS Decoder, SequencesExt

\* A checksum that notices every change of a single byte below 7.
SumChecksum(b) == FoldLeft(+, 0, b) % 7

\* JSON text: one object, nothing after it, no control byte in it.
ObjectText(b) ==
    b # <<>> /\ b[1] = Open /\ Closing(b) # {} /\ ObjectEnd(b) = Len(b) /\ \A i \in DOMAIN b : b[i] # One

Frame(payload) ==
    LET b == <<One, One, 0, Len(payload)>> \o payload
    IN  Append(b, SumChecksum(b))

EmptyObject == <<Open, Close>>
Member == <<Open, 0, Close>>
Nested == <<Open, Open, Close, Close>>

\* The records, whole and damaged, and the debris between them.
Parts ==
    { Frame(EmptyObject), Frame(Member), Frame(<<>>),
      <<One, One, 0, 3, Open, 0, Close, 0>>,           \* wrong checksum
      <<One, One, 0, 6, Open, Close, 3>>,              \* length beyond the limit
      <<One, One, 0, 4, Open, Close, 0>>,              \* length swallows what follows
      EmptyObject, Nested,
      <<Open, Quote, Close, Backslash, Quote, Quote, Close>>,  \* braces and quotes in a string
      <<Open>>, <<One>>, <<0, One>>, <<Close, Quote>> }

\* A stream goes on after them with a record, or with the beginning of one.
MixedStreams == {p \o q \o r : p \in Parts, q \in Parts, r \in {Frame(Member), <<Open>>}}

\* Debris as long as the buffer limit and longer, before and after a record.
LongStreams ==
    {p \o [i \in 1 .. n |-> 0] \o q :
        p \in {<<Open>>, <<0>>, EmptyObject, <<One>>}, n \in {21, 23, 25},
        q \in {<<Open>>, <<0, 0>>, <<Close>>, <<Open, 0, 0, Open, 0>>, Frame(Member)}}

AllStreams == MixedStreams \cup LongStreams
=============================================================================
