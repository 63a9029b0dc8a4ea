---------------------------- MODULE PacketFormat ----------------------------
(***************************************************************************)
(* The datagrams of the tunnel (tunnel/packet.cpp): the checks every one   *)
(* of them passes first, and the one payload that is a list, ROSTER.  A    *)
(* payload is a sequence of cells, one for each field and one for each     *)
(* byte of a name; a member's address goes with its id.                    *)
(***************************************************************************)
EXTENDS Integers, FiniteSets, Sequences, SequencesExt

CONSTANTS
    MaxPeers,    \* MAX_PEERS
    MaxNameLen   \* MAX_NAME_LEN

HeadSize   == 2    \* generation, count
MemberSize == 3    \* peer_id, flags, name_len; then the name
NameBytes  == {97, 98}
Flags      == 0..1 \* what flags may be: bit 0 is connected

\* payload_length_ok
Lengths == [hello |-> {2}, hello_ack |-> {2}, keepalive |-> {0}, ping |-> {1}, pong |-> {1},
            close |-> {1}, data |-> 1..8,
            roster |-> HeadSize + MemberSize + 1..HeadSize + MaxPeers * (MemberSize + MaxNameLen)]

Header == [magic |-> TRUE, version |-> 1, type |-> "roster", length |-> 0]

\* build_packet: nothing when the payload has not the length of its type.
BuildPacket(type, payload) ==
    IF Len(payload) \notin Lengths[type] THEN <<>>
    ELSE <<[Header EXCEPT !.type = type, !.length = Len(payload)]>> \o payload

\* check_common, steps 1 to 6.
CheckCommon(d) ==
    IF d = <<>> THEN "short"
    ELSE IF ~d[1].magic THEN "magic"
    ELSE IF d[1].version # 1 THEN "version"
    ELSE IF d[1].type \notin DOMAIN Lengths THEN "unknown_type"
    ELSE IF d[1].length # Len(d) - 1 THEN "length"
    ELSE IF Len(d) - 1 \notin Lengths[d[1].type] THEN "type_length" ELSE "none"

ValidName(n) == Len(n) \in 1..MaxNameLen /\ ToSet(n) \subseteq NameBytes

\* encode_roster: nothing rather than half a roster.
EncodeRoster(r) ==
    IF Len(r.members) \notin 1..MaxPeers \/ \E i \in DOMAIN r.members : ~ValidName(r.members[i].name)
    THEN <<>>
    ELSE <<r.gen, Len(r.members)>> \o FlattenSeq([i \in DOMAIN r.members |->
             LET m == r.members[i] IN <<m.id, IF m.up THEN 1 ELSE 0, Len(m.name)>> \o m.name])

\* One member at s.at, when all of it is there.
Member(payload, s) ==
    LET left == Len(payload) - s.at + 1
        size == payload[s.at + 2]
    IN  IF left < MemberSize THEN [s EXCEPT !.ok = FALSE]
        ELSE IF size \notin 1..MaxNameLen \/ left - MemberSize < size THEN [s EXCEPT !.ok = FALSE]
        ELSE [s EXCEPT !.at = @ + MemberSize + size,
                       !.flags = Append(@, payload[s.at + 1]),
                       !.members = Append(@, [id |-> payload[s.at], up |-> (payload[s.at + 1] % 2) = 1,
                          name |-> SubSeq(payload, s.at + MemberSize, s.at + MemberSize + size - 1)])]

\* Step 2: the head, as many members as it counts, and no cell more.
Structure(payload) ==
    LET start == [ok |-> Len(payload) >= HeadSize /\ payload[2] \in 1..MaxPeers,
                  at |-> HeadSize + 1, flags |-> <<>>, members |-> <<>>]
        end   == FoldLeft(LAMBDA s, i : IF s.ok THEN Member(payload, s) ELSE s,
                          start, [i \in 1..payload[2] |-> i])
    IN  IF ~start.ok THEN start ELSE [end EXCEPT !.ok = @ /\ end.at = Len(payload) + 1]

FaultyDecodeRoster(payload, fromHost, last) ==
    LET s == Structure(payload)
        error == IF ~fromHost THEN "direction"
                 ELSE IF ~s.ok THEN "type_length"
                 ELSE IF ~(ToSet(s.flags) \subseteq Flags) THEN "flags"
                 ELSE IF \E i \in DOMAIN s.members : ~ValidName(s.members[i].name) THEN "name"
                 ELSE "none"
    IN  [error |-> error,
         value |-> IF error = "none" THEN [gen |-> payload[1], members |-> s.members]
                   ELSE [gen |-> 0, members |-> <<>>]]

\* decode_roster; last is the generation taken last, -1 when there is none.
DecodeRoster(payload, fromHost, last) ==
    LET s == Structure(payload)
        error == IF ~fromHost THEN "direction"
                 ELSE IF ~s.ok THEN "type_length"
                 ELSE IF payload[1] < last THEN "stale"
                 ELSE IF ~(ToSet(s.flags) \subseteq Flags) THEN "flags"
                 ELSE IF \E i \in DOMAIN s.members : ~ValidName(s.members[i].name) THEN "name"
                 ELSE "none"
    IN  [error |-> error,
         value |-> IF error = "none" THEN [gen |-> payload[1], members |-> s.members]
                   ELSE [gen |-> 0, members |-> <<>>]]

\* What one packet may look like when it is not as it was built: another
\* header, another count, cells cut from its end or added, and another value
\* in one cell.
Damaged(d) ==
    {<<h>> \o Tail(d) : h \in {[d[1] EXCEPT !.magic = FALSE], [d[1] EXCEPT !.version = 2],
                               [d[1] EXCEPT !.type = "unknown"], [d[1] EXCEPT !.length = @ - 1]}}
    \union {[d EXCEPT ![3] = @ + k] : k \in {-1, 1}}
    \union {<<[d[1] EXCEPT !.length = n - 1]>> \o SubSeq(Tail(d), 1, n - 1) : n \in 1..Len(d) - 1}
    \union {<<[d[1] EXCEPT !.length = @ + 1]>> \o Tail(d) \o <<97>>}
    \union {[d EXCEPT ![k] = IF d[k] \in NameBytes THEN 45 ELSE 2 + @] :
              k \in {j \in 5..Len(d) : d[j] \in NameBytes \/ (j = 5 /\ d[j] \in Flags)}}

=============================================================================
