-------------------------- MODULE ControlExchange --------------------------
(***************************************************************************)
(* One request of the control thread: connect, send, receive and frame the *)
(* answer (control/exchange.cpp, platform/win32/tcp.cpp, frame_response of *)
(* control/http.cpp), against a server that answers what it likes, as      *)
(* slowly as it likes, and a shutdown event that may be set at any moment. *)
(*                                                                         *)
(* One tick is the slice kAbortPollMs in which select is called.  An       *)
(* answer is a sequence of tokens, each counted as one byte: the status    *)
(* line, a header line, a header line the grammar refuses, Content-Length  *)
(* 0 or 1, the empty line, and bytes of the body.                          *)
(***************************************************************************)
EXTENDS Integers, Sequences, SequencesExt

CONSTANTS
    MaxHead,       \* kMaxHeaderBytes
    Chunk,         \* kChunkBytes
    ConnectTicks,  \* timeouts.connect_ms
    IoTicks,       \* timeouts.io_ms
    MaxSends       \* bound: the pieces in which a request goes out

ASSUME ExchangeAssumption ==
    {MaxHead, Chunk, ConnectTicks, IoTicks, MaxSends} \subseteq Nat \ {0}

VARIABLES
    stream,    \* what the server sends before it closes
    received,  \* received
    pc,        \* where exchange is
    status,    \* its result
    now,       \* monotonic_ms
    start,     \* start of the stage's deadline
    slice,     \* when the present select or send gives up
    sends,     \* calls of send made
    abortAt    \* when the shutdown event was set, -1 before

vars == <<stream, received, pc, status, now, start, slice, sends, abortAt>>
answer == <<stream, received>>

Length(t) == IF t = "len0" THEN 0 ELSE 1

\* frame_response: nothing is decided before the head is complete; a head must
\* fit, begin with a status line and have one Content-Length; then its body.
FaultyFrame(s) ==
    LET ends  == {i \in 1..Len(s) : s[i] = "end"}
        head  == CHOOSE i \in ends : \A j \in ends : i <= j
        sizes == {i \in 2..head - 1 : s[i] \in {"len0", "len1"}}
        total == head + Length(s[CHOOSE i \in sizes : TRUE])
        Is(state, needed) == [state |-> state, needed |-> needed]
    IN  IF Len(s) >= MaxHead THEN Is("invalid", 0)
        ELSE IF ends = {} THEN Is("more", 0)
        ELSE IF \/ s[1] # "status" \/ \E i \in 2..head - 1 : s[i] = "bad"
                \/ sizes = {} \/ \E i, j \in sizes : i # j
        THEN Is("invalid", 0)
        ELSE IF Len(s) >= total THEN Is("complete", total) ELSE Is("more", total - Len(s))

Frame(s) ==
    LET ends  == {i \in 1..Len(s) : i <= MaxHead /\ s[i] = "end"}
        head  == CHOOSE i \in ends : \A j \in ends : i <= j
        sizes == {i \in 2..head - 1 : s[i] \in {"len0", "len1"}}
        total == head + Length(s[CHOOSE i \in sizes : TRUE])
        Is(state, needed) == [state |-> state, needed |-> needed]
    IN  IF ends = {} THEN Is(IF Len(s) >= MaxHead THEN "invalid" ELSE "more", 0)
        ELSE IF \/ s[1] # "status" \/ \E i \in 2..head - 1 : s[i] = "bad"
                \/ sizes = {} \/ \E i, j \in sizes : i # j
        THEN Is("invalid", 0)
        ELSE IF Len(s) >= total THEN Is("complete", total) ELSE Is("more", total - Len(s))

\* What may be read next: the rest of the body, or of the longest head.
Want == IF Frame(received).needed # 0 THEN Frame(received).needed
        ELSE IF Len(received) < MaxHead THEN MaxHead - Len(received) ELSE 0

-----------------------------------------------------------------------------
End(result) == pc' = "done" /\ status' = result /\ UNCHANGED <<start, slice>>
Go(next)    == pc' = next /\ UNCHANGED status

Streams ==
    LET Grow(S) == S \union {Append(h, t) : h \in S, t \in {"line", "bad", "len0", "len1"}}
        heads == Grow(Grow(Grow({<<"status">>}))) \union {<<"line", "len0">>}
    IN  {h \o e \o b : h \in heads, e \in {<<>>, <<"end">>}, b \in {<<>>, <<"b">>, <<"b", "b">>}}

Init ==
    /\ stream \in Streams /\ received = <<>>
    /\ pc = "connect" /\ status = "none"
    /\ now = 0 /\ start = 0 /\ slice = 0 /\ sends = 0 /\ abortAt = -1

DeafAwait(timeout, select) ==
    \/ abortAt # -1 /\ End("aborted")
    \/ abortAt = -1 /\ Go(select) /\ slice' = now + 1 /\ UNCHANGED start

\* wait_socket, the head of its loop: the event, the deadline, then a slice.
Await(timeout, select) ==
    \/ abortAt # -1 /\ End("aborted")
    \/ abortAt = -1 /\ now - start >= timeout /\ End("timeout")
    \/ /\ abortAt = -1 /\ now - start < timeout
       /\ Go(select) /\ slice' = now + 1 /\ UNCHANGED start

\* A call of send waits up to SO_SNDTIMEO.
StartSend == Go("send") /\ slice' = now + IoTicks /\ UNCHANGED start

Connect ==
    /\ pc = "connect"
    /\ \/ Await(ConnectTicks, "connecting")
       \/ now = 0 /\ (End("failed") \/ StartSend)    \* connect returns at once
    /\ UNCHANGED <<answer, now, sends, abortAt>>

Connecting ==
    /\ pc = "connecting"
    /\ \/ StartSend
       \/ now = slice /\ Go("connect") /\ UNCHANGED <<start, slice>>
       \/ End("failed")                              \* refused, or an option fails
    /\ UNCHANGED <<answer, now, sends, abortAt>>

\* send_all: no call of send sees the event.
Send ==
    /\ pc = "send"
    /\ \/ sends + 1 < MaxSends /\ StartSend
       \/ Go("frame") /\ start' = now /\ UNCHANGED slice
       \/ now = slice /\ End("timeout")
       \/ End("failed")
    /\ sends' = sends + 1
    /\ UNCHANGED <<answer, now, abortAt>>

\* The head of the receive loop. With nothing left to want it would be over; it
\* is a state exchange.cpp says cannot come.
Receive ==
    /\ pc = "frame"
    /\ LET f == Frame(received) IN
         \/ /\ f.state = "complete" /\ End("complete")
            /\ received' = SubSeq(received, 1, f.needed)
         \/ f.state = "invalid" /\ End("invalid") /\ UNCHANGED received
         \/ /\ f.state = "more" /\ UNCHANGED received
            /\ IF Want = 0 THEN End("nothing_wanted")
               ELSE IF now - start >= IoTicks THEN End("timeout")
               ELSE Go("wait") /\ UNCHANGED <<start, slice>>
    /\ UNCHANGED <<stream, now, sends, abortAt>>

Wait ==
    /\ pc = "wait" /\ Await(IoTicks, "reading")
    /\ UNCHANGED <<answer, now, sends, abortAt>>

FaultyReading ==
    /\ pc = "reading"
    /\ \/ \E n \in 1..Chunk :
            /\ n <= Want /\ Len(received) + n <= Len(stream)
            /\ received' = SubSeq(stream, 1, Len(received) + n)
            /\ Go("frame") /\ start' = now /\ UNCHANGED slice
       \/ /\ Len(received) = Len(stream) /\ End("closed") /\ UNCHANGED received
       \/ now = slice /\ Go("wait") /\ UNCHANGED <<start, slice, received>>
       \/ End("failed") /\ UNCHANGED received
    /\ UNCHANGED <<stream, now, sends, abortAt>>

\* recv_some takes what has arrived by now, no more than is wanted and than a
\* chunk; the server closes after the last byte.
Reading ==
    /\ pc = "reading"
    /\ \/ \E n \in 1..Chunk :
            /\ n <= Want /\ Len(received) + n <= Len(stream)
            /\ received' = SubSeq(stream, 1, Len(received) + n)
            /\ Go("frame") /\ UNCHANGED <<start, slice>>
       \/ /\ Len(received) = Len(stream) /\ End("closed") /\ UNCHANGED received
       \/ now = slice /\ Go("wait") /\ UNCHANGED <<start, slice, received>>
       \/ End("failed") /\ UNCHANGED received
    /\ UNCHANGED <<stream, now, sends, abortAt>>

\* The shutdown event is set once and stays.
Abort ==
    /\ abortAt = -1 /\ pc # "done" /\ abortAt' = now
    /\ UNCHANGED <<answer, pc, status, now, start, slice, sends>>

\* Time passes only inside a call that waits. Horizon is the bound on it; a
\* request that reached it would wait for good.
Horizon == ConnectTicks + IoTicks * (MaxSends + 1) + 1

Tick ==
    /\ pc \in {"connecting", "send", "reading"} /\ now < slice /\ now < Horizon
    /\ now' = now + 1
    /\ UNCHANGED <<answer, pc, status, start, slice, sends, abortAt>>

Next == Connect \/ Connecting \/ Send \/ Receive \/ Wait \/ Reading \/ Abort \/ Tick

Spec == Init /\ [][Next]_vars

\* The thread runs and time passes; the server need not do anything.
FairSpec == Spec /\ WF_vars(Connect \/ Receive \/ Wait \/ Tick)
                 /\ WF_vars(now = slice /\ (Connecting \/ Send \/ Reading))

-----------------------------------------------------------------------------
(* Properties.                                                             *)

\* Every variable keeps its type (exchange.cpp, the loop's variables), and no
\* more is held than a head and its body.
TypeOK ==
    /\ stream \in Streams
    /\ received = SubSeq(stream, 1, Len(received))
    /\ Len(received) <= MaxHead + (IF "end" \in ToSet(received) THEN 1 ELSE 0)
    /\ pc \in {"connect", "connecting", "send", "frame", "wait", "reading", "done"}
    /\ status \in {"none", "complete", "invalid", "closed", "timeout", "failed", "aborted"}
    /\ sends \in 0..MaxSends

\* An answer is one however it was cut into pieces: what is complete is exactly
\* one head with its body, what is refused has no such beginning, and what was
\* closed early could have become one (http.cpp frame_response, 3.5).
OutcomeOfStream ==
    LET Whole(n) == /\ n <= Len(stream) /\ \E h \in 1..n :
                         /\ h <= MaxHead /\ stream[h] = "end" /\ stream[1] = "status"
                         /\ \A i \in 1..h - 1 : stream[i] \notin {"end", "bad"}
                         /\ \E k \in 2..h - 1 :
                              /\ stream[k] \in {"len0", "len1"} /\ n = h + Length(stream[k])
                              /\ \A i \in 2..h - 1 : i # k => stream[i] \notin {"len0", "len1"}
    IN  /\ status = "complete" => Whole(Len(received))
        /\ status \in {"invalid", "closed"} => \A n \in 1..Len(stream) : ~Whole(n)
        /\ status = "closed" => Frame(stream).state = "more"

\* A request takes no longer than the deadlines of its stages, whatever drips in
\* from the server; only the pieces of the send add up (exchange.hpp, 8.2).
EndsInTime == now <= ConnectTicks + IoTicks * sends + IoTicks
                     + (IF pc = "send" THEN IoTicks ELSE 0)

\* The shutdown event is seen within a slice of a wait; a send alone delays it
\* (tcp.hpp, exchange.hpp: 1 and 3 end with kAborted).
AbortIsHeard ==
    abortAt # -1 /\ pc \in {"connecting", "reading"} => now <= abortAt + 1

\* A request ends, whatever the server does (exchange.cpp exchange).
ExchangeEnds == <>(pc = "done")

\* The deadlines of the stages and the shutdown event bound every wait.
WaitsAreBounded == TypeOK /\ EndsInTime /\ AbortIsHeard
=============================================================================
