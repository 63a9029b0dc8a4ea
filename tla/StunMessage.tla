----------------------------- MODULE StunMessage ----------------------------
(***************************************************************************)
(* Reading the answer to a Binding Request (network/stun.cpp).  A datagram *)
(* is its header, the 4-byte words after it, each as its two 16-bit halves,*)
(* and 0 to 3 bytes that do not fill a word.  The exclusive-or of port and *)
(* address with the cookie is a bijection and is left out.                 *)
(***************************************************************************)
EXTENDS Integers, FiniteSets, Sequences, SequencesExt

HeaderSize == 20
XorMapped  == 32    \* attribute 0x0020
Ipv4       == 1     \* address family

Size(d) == IF d.header THEN HeaderSize + 4 * Len(d.words) + d.rest ELSE d.rest

\* peek_transaction_id: enough of a header to look the transaction up.
Peeked(d) == Size(d) >= HeaderSize /\ d.stun /\ d.cookie

PaddedWords(length) == (length + 3) \div 4

\* decode_mapped_address on the words v of a value of the given length.
MappedError(v, length) ==
    IF length < 2 THEN "mapped_malformed"
    ELSE IF v[1][1] # Ipv4 THEN "mapped_family"
    ELSE IF length # 8 THEN "mapped_malformed" ELSE "none"

\* Steps 6 and 7: the length field.
LengthError(d) ==
    IF d.declared % 4 # 0 THEN "not_aligned"
    ELSE IF HeaderSize + d.declared # Size(d) THEN "length_mismatch" ELSE "none"

HeaderError(d) ==
    IF Size(d) < HeaderSize THEN "too_short"
    ELSE IF ~d.stun THEN "not_stun"
    ELSE IF ~d.cookie THEN "bad_cookie"
    ELSE IF ~d.own THEN "transaction"
    ELSE IF d.type \notin {"success", "error"} THEN "unknown_type"
    ELSE LengthError(d)

Nowhere == [at |-> 1, error |-> "none", seen |-> FALSE, twice |-> FALSE, mapped |-> <<>>]

FaultyAttribute(d, s) ==
    LET left   == Size(d) - (HeaderSize + 4 * (s.at - 1))
        length == d.words[s.at][2]
        value  == SubSeq(d.words, s.at + 1, s.at + PaddedWords(length))
        error  == MappedError(value, length)
        ours   == d.type = "success" /\ d.words[s.at][1] = XorMapped
    IN  IF left < 4 THEN [s EXCEPT !.error = "boundary"]
        ELSE IF left - 4 < 4 * PaddedWords(length) THEN [s EXCEPT !.error = "truncated"]
        ELSE IF ours /\ ~s.seen /\ error # "none" THEN [s EXCEPT !.error = error]
        ELSE [s EXCEPT !.at = @ + 1 + PaddedWords(length), !.seen = @ \/ ours,
                       !.mapped = IF ours THEN value ELSE @]

\* One turn of the loop of parse_binding_response, at attribute s.at.
Attribute(d, s) ==
    LET left   == Size(d) - (HeaderSize + 4 * (s.at - 1))
        length == d.words[s.at][2]
        value  == SubSeq(d.words, s.at + 1, s.at + PaddedWords(length))
        error  == MappedError(value, length)
        ours   == d.type = "success" /\ d.words[s.at][1] = XorMapped
    IN  IF left < 4 THEN [s EXCEPT !.error = "boundary"]
        ELSE IF left - 4 < 4 * PaddedWords(length) THEN [s EXCEPT !.error = "truncated"]
        ELSE IF ours /\ ~s.seen /\ error # "none" THEN [s EXCEPT !.error = error]
        ELSE [s EXCEPT !.at = @ + 1 + PaddedWords(length), !.seen = @ \/ ours,
                       !.twice = @ \/ (ours /\ s.seen),
                       !.mapped = IF ours /\ ~s.seen THEN value ELSE @]

\* parse_binding_response; on success its error is "none".
Parse(d) ==
    LET walked == FoldLeft(LAMBDA s, i :
                      IF s.error # "none" \/ i < s.at \/ HeaderSize + 4 * (s.at - 1) >= Size(d) THEN s
                      ELSE Attribute(d, s),
                      Nowhere, [i \in 1..Len(d.words) + 1 |-> i])
    IN  IF HeaderError(d) # "none" THEN [Nowhere EXCEPT !.error = HeaderError(d)]
        ELSE IF walked.error # "none" THEN walked
        ELSE IF d.type = "success" /\ walked.mapped = <<>> THEN [walked EXCEPT !.error = "missing"]
        ELSE IF walked.twice THEN [walked EXCEPT !.error = "duplicate"]
        ELSE walked

\* What on_datagram makes of it.
Kind(d) == IF Parse(d).error # "none" THEN "malformed"
           ELSE IF d.type = "success" THEN "mapped" ELSE "error"

-----------------------------------------------------------------------------
(* What an answer is, said without a walk: the attributes cover the words  *)
(* from the first to the last, and a success has one address.              *)

AttributeEnd(w, i) == i + 1 + PaddedWords(w[i][2])
Tiles(w, P) ==
    /\ \A i \in P : AttributeEnd(w, i) <= Len(w) + 1
    /\ \A i \in 1..Len(w) + 1 :
         i \in P \union {Len(w) + 1} <=> i = 1 \/ \E j \in P : AttributeEnd(w, j) = i

Answers(d) ==
    /\ Peeked(d) /\ d.own /\ d.rest = 0 /\ d.declared = 4 * Len(d.words)
    /\ \E P \in SUBSET (1..Len(d.words)) :
         /\ Tiles(d.words, P)
         /\ \/ d.type = "error"
            \/ d.type = "success" /\ \E i \in P :
                 /\ {j \in P : d.words[j][1] = XorMapped} = {i}
                 /\ d.words[i][2] = 8 /\ d.words[i + 1][1] = Ipv4
                 /\ Parse(d).mapped = SubSeq(d.words, i + 1, i + 2)

\* A small world of datagrams: every sequence of words up to the length of two
\* addresses, and every header with few.
Words == {<<XorMapped, 8>>, <<XorMapped, 3>>, <<9, 0>>, <<Ipv4, 8>>}
Whole(w, t) == [header |-> TRUE, stun |-> TRUE, cookie |-> TRUE, own |-> TRUE, type |-> t,
                declared |-> 4 * Len(w), words |-> w, rest |-> 0]
Datagrams ==
    {Whole(w, t) : w \in BoundedSeq(Words, 6), t \in {"success", "error"}}
    \union [header : BOOLEAN, stun : BOOLEAN, cookie : BOOLEAN, own : BOOLEAN,
            type : {"success", "error", "request"}, declared : 0..9,
            words : BoundedSeq({<<9, 0>>, <<9, 3>>}, 2), rest : 0..3]

\* The parser's verdict on each of them, and what it was asked for.
Misread == {d \in Datagrams : (Parse(d).error = "none") # Answers(d)}
AtBoundary == {d \in Datagrams : Parse(d).error = "boundary"}
Kinds == {Kind(d) : d \in {d \in Datagrams : Peeked(d) /\ d.own}}

=============================================================================
