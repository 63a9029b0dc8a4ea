---------------------------- MODULE ClientThreads ---------------------------
(***************************************************************************)
(* The threads of one client process and the events they wake each other   *)
(* with: the loop (the main thread: start-up, the event loop, shutdown),   *)
(* the control thread that resolves the server and exchanges one request   *)
(* at a time, and the console reader.                                      *)
(*                                                                         *)
(* The rings between threads are queues here; SpscRing shows that a ring   *)
(* is one.  Putting an item in and signalling the other side's event are   *)
(* two steps, as in the code.  A datagram, a packet and a console line are *)
(* counted and not told apart; requests are numbered in the order they are *)
(* submitted.  What a handler does is whether it submits a request: at any *)
(* item, because the channel does not enforce the lobby's rule of one      *)
(* outstanding request.  A submission to a full ring is dropped, which     *)
(* leaves this state as no submission does.                                *)
(*                                                                         *)
(* External, from how the code uses it: FD_READ is posted once and posted  *)
(* again only after a receive call, at once if data is left (armed);       *)
(* WSAEnumNetworkEvents resets the socket's event; the adapter's driver    *)
(* signals its auto-reset event with every packet.                         *)
(*                                                                         *)
(* An operator whose name begins with Faulty is the definition after it    *)
(* with one plausible mistake; no action uses it.                          *)
(***************************************************************************)
EXTENDS Naturals, Sequences

CONSTANTS
    RequestCap,   \* kControlQueueCapacity, of the ring of requests
    ResponseCap,  \* the same, of the ring of responses
    ConsoleCap,   \* kConsoleQueueCapacity
    MaxDrain,     \* kMaxDrain
    SockCap,      \* datagrams the socket buffer holds
    AdapterCap,   \* packets the adapter's ring holds; 0 is --no-adapter
    MaxRequests,  \* bound: requests submitted
    MaxLines      \* bound: lines typed

ASSUME ThreadsAssumption ==
    /\ RequestCap \in Nat \ {0} /\ ResponseCap \in Nat \ {0}
    /\ ConsoleCap \in Nat \ {0} /\ MaxDrain \in Nat \ {0} /\ SockCap \in Nat \ {0}
    /\ AdapterCap \in Nat /\ MaxRequests \in Nat /\ MaxLines \in Nat

VARIABLES
    signalled,  \* the events that are set
    loop,       \* where the main thread stands
    back,       \* where it goes on once it has signalled a request
    left,       \* what is left of the budget of the drain it is in
    busy,       \* busy_
    sock,       \* datagrams in the socket buffer
    armed,      \* the next datagram posts FD_READ
    packets,    \* packets in the adapter's ring
    unread,     \* history: the last adapter read failed, and packets may wait
    timerDue,   \* the earliest deadline has passed
    lines,      \* lines in the console queue
    typed,      \* lines read from standard input; MaxLines once no more come
    reader,     \* where the console reader stands
    requests,   \* the request ring
    responses,  \* the response ring
    submitted,  \* requests put in the request ring so far
    answered,   \* the last response handled
    control,    \* where the control thread stands
    current,    \* the request it has taken and not yet delivered, or 0
    resolved,   \* the promise of wait_resolved
    blind       \* history: a look at the shutdown event failed

turn     == <<loop, back, left, busy>>
udp      == <<sock, armed>>
adapter  == <<packets, unread>>
console  == <<lines, typed, reader>>
outgoing == <<requests, submitted>>
incoming == <<responses, answered>>
serving  == <<control, current, resolved, blind>>
vars == <<signalled, turn, udp, adapter, timerDue, console, outgoing, incoming,
          serving>>

\* The handles of the loop's wait, in the order of the array.
FaultyRank    == <<"udp", "adapter", "console", "response", "shutdown">>
FaultyHandles == <<"shutdown", "udp", "adapter", "console">>

Rank == <<"shutdown", "udp", "adapter", "console", "response">>

\* Events that stay set until they are reset: WSAEnumNetworkEvents resets the
\* socket's, nothing resets the shutdown event.
Manual == {"shutdown", "udp"}
Events == {Rank[k] : k \in DOMAIN Rank} \cup {"request"}

ShutdownAsked == "shutdown" \in signalled

\* No process is left.
Over == loop \in {"returned", "cut", "failed"}

Init ==
    /\ signalled = {}
    /\ loop = "starting" /\ back = "none" /\ left = MaxDrain /\ busy = FALSE
    /\ sock = 0 /\ armed = TRUE
    /\ packets = 0 /\ unread = FALSE
    /\ timerDue = FALSE
    /\ lines = 0 /\ typed = 0 /\ reader = "reading"
    /\ requests = <<>> /\ submitted = 0
    /\ responses = <<>> /\ answered = 0
    /\ control = "resolving" /\ current = 0 /\ resolved = "pending" /\ blind = FALSE
-----------------------------------------------------------------------------
(***************************************************************************)
(* The loop.  Handled(stage) ends the handling of one item: the loop goes  *)
(* on with the stage, or first signals a request it has just put in.       *)
(***************************************************************************)
Handled(stage) ==
    \/ loop' = stage /\ UNCHANGED <<back, outgoing>>
    \/ /\ submitted < MaxRequests
       /\ Len(requests) < RequestCap
       /\ requests' = Append(requests, submitted + 1)
       /\ submitted' = submitted + 1
       /\ loop' = "signal" /\ back' = stage

\* The second half of submit().
SignalRequest ==
    /\ loop = "signal"
    /\ signalled' = signalled \cup {"request"}
    /\ loop' = back /\ back' = "none"
    /\ UNCHANGED <<left, busy, udp, adapter, timerDue, console, outgoing,
                   incoming, serving>>

\* wait_any returns the set event of the lowest rank, and resets that one
\* only; with none set it returns when its timeout has passed.
WaitReturns(event) ==
    \/ /\ \A k \in DOMAIN Rank : Rank[k] \notin signalled
       /\ busy \/ timerDue
       /\ event = "timeout"
    \/ \E k \in DOMAIN Rank : /\ Rank[k] \in signalled
                              /\ \A j \in 1..(k - 1) : Rank[j] \notin signalled
                              /\ event = Rank[k]

Wake ==
    /\ loop = "wait"
    /\ \E event \in Events \cup {"timeout"} :
          /\ WaitReturns(event)
          /\ signalled' = signalled \ ({event} \ Manual)
          /\ loop' = IF event = "shutdown" THEN "cleanup" ELSE "enumerate"
    /\ UNCHANGED <<back, left, busy, udp, adapter, timerDue, console, outgoing,
                   incoming, serving>>

\* WAIT_FAILED: the event is signalled for the other threads.
LoopWaitFails ==
    /\ loop = "wait"
    /\ signalled' = signalled \cup {"shutdown"}
    /\ loop' = "cleanup"
    /\ UNCHANGED <<back, left, busy, udp, adapter, timerDue, console, outgoing,
                   incoming, serving>>

\* enumerate_events(), before the drains.  busy_ is only read in the wait: it
\* is cleared here and set again by the drains and the work of this turn.
Enumerate ==
    /\ loop = "enumerate"
    /\ signalled' = signalled \ {"udp"}
    /\ busy' = FALSE
    /\ loop' = "udp"
    /\ UNCHANGED <<back, left, udp, adapter, timerDue, console, outgoing,
                   incoming, serving>>

\* A drain that has spent its budget leaves the rest to the next turn.
Spent(stage, next) ==
    /\ loop = stage
    /\ left = 0
    /\ busy' = TRUE
    /\ loop' = next /\ left' = MaxDrain
    /\ UNCHANGED <<signalled, back, udp, adapter, timerDue, console, outgoing,
                   incoming, serving>>

\* A receive call posts FD_READ again if it leaves data.
Rearm(rest) == IF rest > 0
               THEN armed' = FALSE /\ signalled' = signalled \cup {"udp"}
               ELSE armed' = TRUE  /\ UNCHANGED signalled

\* recv_from gave a datagram, too large or not: the drain goes on.
FaultyRecvUdp ==
    /\ loop = "udp" /\ sock > 0
    /\ sock' = sock - 1 /\ Rearm(sock - 1)
    /\ Handled("udp")
    /\ UNCHANGED <<left, busy, adapter, timerDue, console, incoming, serving>>

RecvUdp ==
    /\ loop = "udp" /\ left > 0 /\ sock > 0
    /\ sock' = sock - 1 /\ Rearm(sock - 1)
    /\ left' = left - 1
    /\ Handled("udp")
    /\ UNCHANGED <<busy, adapter, timerDue, console, incoming, serving>>

\* WouldBlock or an error ends the drain.
RecvUdpStops ==
    /\ loop = "udp" /\ left > 0
    /\ UNCHANGED sock /\ Rearm(sock)
    /\ loop' = "adapter" /\ left' = MaxDrain
    /\ UNCHANGED <<back, busy, adapter, timerDue, console, outgoing, incoming,
                   serving>>

ReadAdapter ==
    /\ loop = "adapter" /\ left > 0 /\ packets > 0
    /\ packets' = packets - 1 /\ unread' = FALSE
    /\ left' = left - 1
    /\ Handled("adapter")
    /\ UNCHANGED <<signalled, busy, udp, timerDue, console, incoming, serving>>

\* Empty, or a failed read, which leaves what the ring holds.
ReadAdapterStops ==
    /\ loop = "adapter" /\ left > 0
    /\ unread' = (packets > 0)
    /\ loop' = "console" /\ left' = MaxDrain
    /\ UNCHANGED <<signalled, back, busy, udp, packets, timerDue, console, outgoing,
                   incoming, serving>>

\* End of the adapter, or a corrupt ring: a new session has an empty ring and
\* an event of its own; without one the loop shuts down.
AdapterBreaks ==
    /\ loop = "adapter" /\ left > 0 /\ AdapterCap > 0
    /\ \/ signalled' = signalled \cup {"shutdown"} /\ UNCHANGED adapter
       \/ /\ signalled' \in {signalled \ {"adapter"},
                             (signalled \ {"adapter"}) \cup {"shutdown"}}
          /\ packets' = 0 /\ unread' = FALSE
    /\ loop' = "console" /\ left' = MaxDrain
    /\ UNCHANGED <<back, busy, udp, timerDue, console, outgoing, incoming, serving>>

\* drain_console() goes on until the queue is empty; quit asks for shutdown.
HandleLine ==
    /\ loop = "console" /\ lines > 0
    /\ lines' = lines - 1
    /\ \/ Handled("console") /\ UNCHANGED signalled
       \/ /\ signalled' = signalled \cup {"shutdown"}
          /\ UNCHANGED <<loop, back, outgoing>>
    /\ UNCHANGED <<left, busy, udp, adapter, timerDue, typed, reader, incoming,
                   serving>>

ConsoleEmpty ==
    /\ loop = "console" /\ lines = 0
    /\ loop' = "control"
    /\ UNCHANGED <<signalled, back, left, busy, udp, adapter, timerDue, console,
                   outgoing, incoming, serving>>

\* drain_control(), until the response ring is empty.
HandleResponse ==
    /\ loop = "control" /\ responses # <<>>
    /\ responses' = Tail(responses) /\ answered' = Head(responses)
    /\ Handled("control")
    /\ UNCHANGED <<signalled, left, busy, udp, adapter, timerDue, console, serving>>

ControlEmpty ==
    /\ loop = "control" /\ responses = <<>>
    /\ loop' = "timers"
    /\ UNCHANGED <<signalled, back, left, busy, udp, adapter, timerDue, console,
                   outgoing, incoming, serving>>

\* Timers of the set and of the sessions, then the console's send backlog,
\* which counts toward busy_ when some of it is left.
RunTimers ==
    /\ loop = "timers"
    /\ timerDue' = FALSE
    /\ busy' \in {busy, TRUE}
    /\ Handled("wait")
    /\ UNCHANGED <<signalled, left, udp, adapter, console, incoming, serving>>

Turn == \/ SignalRequest \/ Wake \/ Enumerate
        \/ Spent("udp", "adapter") \/ RecvUdp \/ RecvUdpStops
        \/ Spent("adapter", "console") \/ ReadAdapter \/ ReadAdapterStops
        \/ AdapterBreaks
        \/ HandleLine \/ ConsoleEmpty \/ HandleResponse \/ ControlEmpty
        \/ RunTimers
-----------------------------------------------------------------------------
(***************************************************************************)
(* Start-up and shutdown.                                                  *)
(***************************************************************************)
\* wait_resolved() gave an address: the loop begins, perhaps with the request
\* of a role argument, unless shutdown was asked for meanwhile.
Start ==
    /\ loop = "starting" /\ resolved = "address"
    /\ IF ShutdownAsked THEN loop' = "cleanup" /\ UNCHANGED <<back, outgoing>>
                        ELSE Handled("wait")
    /\ UNCHANGED <<signalled, left, busy, udp, adapter, timerDue, console, incoming,
                   serving>>

\* No address, or the adapter or the socket cannot be opened: run_main returns
\* and the channel's destructor asks for shutdown and joins without a limit.
StartFails ==
    /\ loop = "starting"
    /\ resolved = "none" \/ (resolved = "address" /\ ~ShutdownAsked)
    /\ signalled' = signalled \cup {"shutdown"}
    /\ loop' = "failing"
    /\ UNCHANGED <<back, left, busy, udp, adapter, timerDue, console, outgoing,
                   incoming, serving>>

\* Sessions closed, counters out, adapter closed, cleanup event signalled.
CleanUp ==
    /\ loop = "cleanup"
    /\ loop' = "joining"
    /\ UNCHANGED <<signalled, back, left, busy, udp, adapter, timerDue, console,
                   outgoing, incoming, serving>>

\* The control thread signals its done event last, and is joined after it.
Join ==
    /\ control = "ended"
    /\ \/ loop = "joining" /\ loop' = "returned"
       \/ loop = "failing" /\ loop' = "failed"
    /\ UNCHANGED <<signalled, back, left, busy, udp, adapter, timerDue, console,
                   outgoing, incoming, serving>>

\* join_for(2 s) is over: _Exit.
CutOff ==
    /\ loop = "joining"
    /\ loop' = "cut"
    /\ UNCHANGED <<signalled, back, left, busy, udp, adapter, timerDue, console,
                   outgoing, incoming, serving>>

Main == Start \/ StartFails \/ CleanUp \/ Join \/ CutOff
-----------------------------------------------------------------------------
(***************************************************************************)
(* The control thread.                                                     *)
(***************************************************************************)
Serve(next) == control' = next /\ UNCHANGED <<resolved, blind>>

\* A look at the shutdown event on the way fails, WAIT_FAILED: it is taken for
\* shutdown, and the thread ends without signalling that event.
TakenForShutdown == control' = "finish" /\ blind' = TRUE /\ UNCHANGED resolved

\* getaddrinfo, once; an exception asks for shutdown and keeps the promise.
Resolve ==
    /\ control = "resolving"
    /\ \/ control' = "wait" /\ resolved' = "address" /\ UNCHANGED signalled
       \/ /\ control' = "finish" /\ resolved' = "none"
          /\ signalled' \in {signalled, signalled \cup {"shutdown"}}
    /\ UNCHANGED <<turn, udp, adapter, timerDue, console, outgoing, incoming, current, blind>>

\* The shutdown event is first here too.
ControlWait ==
    /\ control = "wait"
    /\ \/ /\ ShutdownAsked
          /\ Serve("finish") /\ UNCHANGED signalled
       \/ /\ ~ShutdownAsked /\ "request" \in signalled
          /\ Serve("pop") /\ signalled' = signalled \ {"request"}
    /\ UNCHANGED <<turn, udp, adapter, timerDue, console, outgoing, incoming, current>>

\* WAIT_FAILED here: shutdown is asked for, and the thread ends.
ControlWaitFails ==
    /\ control = "wait"
    /\ Serve("finish") /\ signalled' = signalled \cup {"shutdown"}
    /\ UNCHANGED <<turn, udp, adapter, timerDue, console, outgoing, incoming, current>>

\* try_pop of the request ring, until it is empty.
PopRequest ==
    /\ control = "pop"
    /\ IF requests = <<>>
       THEN Serve("wait") /\ UNCHANGED <<outgoing, current>>
       ELSE /\ requests' = Tail(requests) /\ current' = Head(requests)
            /\ Serve("check")
            /\ UNCHANGED submitted
    /\ UNCHANGED <<signalled, turn, udp, adapter, timerDue, console, incoming>>

\* shutdown_signaled() before the exchange.
CheckShutdown ==
    /\ control = "check"
    /\ \/ Serve(IF ShutdownAsked THEN "finish" ELSE "exchange")
       \/ TakenForShutdown
    /\ UNCHANGED <<signalled, turn, udp, adapter, timerDue, console, outgoing,
                   incoming, current>>

\* A response or a transport error; aborted when it sees the shutdown event or
\* cannot look at it; an exception ends the thread and asks for shutdown.
Exchange ==
    /\ control = "exchange"
    /\ \/ Serve("push") /\ UNCHANGED signalled
       \/ ShutdownAsked /\ Serve("finish") /\ UNCHANGED signalled
       \/ TakenForShutdown /\ UNCHANGED signalled
       \/ Serve("finish") /\ signalled' = signalled \cup {"shutdown"}
    /\ UNCHANGED <<turn, udp, adapter, timerDue, console, outgoing, incoming, current>>

\* deliver(): a full ring is waited for, and shutdown or a failing wait ends that.
FaultyDeliver ==
    /\ control = "push"
    /\ Serve("signal") /\ current' = 0
    /\ responses' = IF Len(responses) < ResponseCap THEN Append(responses, current)
                    ELSE responses
    /\ UNCHANGED <<signalled, turn, udp, adapter, timerDue, console, outgoing, answered>>

Deliver ==
    /\ control = "push"
    /\ \/ /\ Len(responses) < ResponseCap
          /\ responses' = Append(responses, current) /\ current' = 0
          /\ Serve("signal")
       \/ /\ Len(responses) = ResponseCap
          /\ (ShutdownAsked /\ Serve("finish")) \/ TakenForShutdown
          /\ UNCHANGED <<responses, current>>
    /\ UNCHANGED <<signalled, turn, udp, adapter, timerDue, console, outgoing, answered>>

FaultySignalResponse ==
    /\ control = "signal"
    /\ signalled' = signalled \cup {"response"}
    /\ Serve("wait")
    /\ UNCHANGED <<turn, udp, adapter, timerDue, console, outgoing, incoming, current>>

SignalResponse ==
    /\ control = "signal"
    /\ signalled' = signalled \cup {"response"}
    /\ Serve("pop")
    /\ UNCHANGED <<turn, udp, adapter, timerDue, console, outgoing, incoming, current>>

\* The done event, the last thing the thread does.
Finish ==
    /\ control = "finish"
    /\ Serve("ended")
    /\ UNCHANGED <<signalled, turn, udp, adapter, timerDue, console, outgoing,
                   incoming, current>>

Control == \/ Resolve \/ ControlWait \/ PopRequest \/ CheckShutdown \/ Exchange
           \/ Deliver \/ SignalResponse \/ Finish

\* A wait that fails is no progress of its thread: fairness leaves these out.
Failures == LoopWaitFails \/ ControlWaitFails
-----------------------------------------------------------------------------
(***************************************************************************)
(* The console reader, and what comes from outside: time, datagrams,       *)
(* packets, Ctrl+C.  A line is pushed if the queue has room; the event is  *)
(* signalled either way.  The reader ends at end of input, or when it sees *)
(* that the loop has stopped; nobody waits for it.                         *)
(***************************************************************************)
ReadLine ==
    /\ reader = "reading" /\ typed < MaxLines
    /\ loop \notin {"starting", "failing"}
    /\ typed' = typed + 1
    /\ lines' = IF lines < ConsoleCap THEN lines + 1 ELSE lines
    /\ reader' = "signal"
    /\ UNCHANGED <<signalled, turn, udp, adapter, timerDue, outgoing, incoming, serving>>

SignalLine ==
    /\ reader = "signal"
    /\ signalled' = signalled \cup {"console"}
    /\ reader' = "reading"
    /\ UNCHANGED <<turn, udp, adapter, timerDue, lines, typed, outgoing, incoming,
                   serving>>

EndOfInput ==
    /\ reader = "reading" /\ typed < MaxLines
    /\ loop \notin {"starting", "failing"}
    /\ typed' = MaxLines
    /\ UNCHANGED <<signalled, turn, udp, adapter, timerDue, lines, reader, outgoing,
                   incoming, serving>>

Datagram ==
    /\ sock < SockCap /\ loop \notin {"starting", "failing", "cleanup", "joining"}
    /\ sock' = sock + 1
    /\ IF armed THEN armed' = FALSE /\ signalled' = signalled \cup {"udp"}
                ELSE UNCHANGED <<armed, signalled>>
    /\ UNCHANGED <<turn, adapter, timerDue, console, outgoing, incoming, serving>>

Packet ==
    /\ packets < AdapterCap /\ loop \notin {"starting", "failing", "cleanup", "joining"}
    /\ packets' = packets + 1
    /\ signalled' = signalled \cup {"adapter"}
    /\ UNCHANGED <<turn, udp, unread, timerDue, console, outgoing, incoming, serving>>

TimerPasses ==
    /\ ~timerDue /\ loop \notin {"starting", "failing", "cleanup", "joining"}
    /\ timerDue' = TRUE
    /\ UNCHANGED <<signalled, turn, udp, adapter, console, outgoing, incoming, serving>>

\* run_ctrl_handler: the handler touches the shutdown event and nothing else.
Interrupt ==
    /\ ~ShutdownAsked
    /\ signalled' = signalled \cup {"shutdown"}
    /\ UNCHANGED <<turn, udp, adapter, timerDue, console, outgoing, incoming, serving>>

Outside == \/ ReadLine \/ SignalLine \/ EndOfInput \/ Datagram \/ Packet
           \/ TimerPasses \/ Interrupt

Next == ~Over /\ (Turn \/ Main \/ Control \/ Failures \/ Outside)

Spec == Init /\ [][Next]_vars

(***************************************************************************)
(* Each thread runs, and the cap on the join is kept.  A step of the       *)
(* control thread whose wait fails is no progress of it.  Nothing is       *)
(* assumed of the outside or of a failing read, nor that an exchange ends: *)
(* a server that takes the request a few bytes at a time makes the send    *)
(* stage as long as it likes.                                              *)
(***************************************************************************)
FairSpec ==
    /\ Spec
    /\ WF_vars(~Over /\ (Turn \/ Main))
    /\ WF_vars(/\ ~Over /\ UNCHANGED blind
               /\ \/ Resolve \/ ControlWait \/ PopRequest \/ CheckShutdown
                  \/ Deliver \/ SignalResponse \/ Finish)
    /\ WF_vars(~Over /\ SignalLine)
-----------------------------------------------------------------------------
(***************************************************************************)
(* Properties.                                                             *)
(***************************************************************************)
\* Variables hold values of their kind, and no queue exceeds its capacity:
\* the rings, the console queue and the drain budget of the client.
TypeOK ==
    /\ signalled \subseteq Events
    /\ loop \in {"starting", "wait", "enumerate", "udp", "adapter", "console",
                 "control", "timers", "signal", "cleanup", "joining", "failing",
                 "returned", "cut", "failed"}
    /\ back \in {"none", "udp", "adapter", "console", "control", "wait"}
    /\ left \in 0..MaxDrain /\ busy \in BOOLEAN
    /\ sock \in 0..SockCap /\ armed \in BOOLEAN
    /\ packets \in 0..AdapterCap /\ unread \in BOOLEAN
    /\ timerDue \in BOOLEAN
    /\ lines \in 0..ConsoleCap /\ typed \in 0..MaxLines
    /\ reader \in {"reading", "signal"}
    /\ submitted \in 0..MaxRequests /\ answered \in 0..MaxRequests
    /\ requests \in Seq(1..MaxRequests) /\ Len(requests) <= RequestCap
    /\ responses \in Seq(1..MaxRequests) /\ Len(responses) <= ResponseCap
    /\ control \in {"resolving", "wait", "pop", "check", "exchange", "push",
                    "signal", "finish", "ended"}
    /\ current \in 0..MaxRequests
    /\ resolved \in {"pending", "address", "none"} /\ blind \in BOOLEAN

\* When the loop is about to block with no event set, no work is waiting for
\* it that nobody is about to announce: the drains leave no source half read,
\* and events of lower rank survive the turns of higher ones (loop.cpp
\* run_once).  A failed adapter read is the exception the code accepts.
NoLostWakeUp ==
    loop = "wait" /\ ~busy /\ ~timerDue /\ (\A k \in DOMAIN Rank : Rank[k] \notin signalled)
    => /\ sock = 0
       /\ packets = 0 \/ unread
       /\ lines = 0 \/ reader = "signal"
       /\ responses = <<>> \/ control = "signal"

\* When the control thread is about to block, every request in its ring is
\* announced or about to be (channel.cpp submit and serve): the auto-reset
\* event may stand for several requests.
ControlNoLostWakeUp ==
    control = "wait" /\ "request" \notin signalled /\ requests # <<>>
    => loop = "signal"

\* Until the control thread gives up, every request submitted and not yet
\* answered is in exactly one place, and they are answered in the order they
\* were submitted (channel.cpp serve, deliver).
Held == IF current = 0 THEN <<>> ELSE <<current>>

AnsweredInOrder ==
    control \notin {"finish", "ended"}
    => responses \o Held \o requests = [k \in 1..(submitted - answered) |-> answered + k]

\* A deadline that has passed is served, however many datagrams and packets
\* keep coming, or the loop stops (loop.cpp kMaxDrain).
TimersRun == []<>(~timerDue \/ ShutdownAsked)

\* A submitted request is answered, unless shutdown is asked for, an exchange
\* never ends, or the control thread could not look at the shutdown event and
\* has ended for that (channel.cpp shutdown_signaled, deliver; tcp.cpp aborted).
EveryRequestAnswered ==
    []<>(answered = submitted \/ ShutdownAsked \/ blind) \/ <>[](control = "exchange")

\* Once shutdown is asked for, by whichever thread, the process ends: the
\* shutdown event has rank 0, and the join has a cap (concurrency.md 7).
StopsWhenAsked == []<>(~ShutdownAsked \/ Over)

\* Neither thread blocks on work that nobody is about to announce.
EveryWakeUpHeard == NoLostWakeUp /\ ControlNoLostWakeUp

\* Nothing exceeds its ring or its budget, and no request is lost, repeated or
\* overtaken on its way through the rings.
RingsInOrder == TypeOK /\ AnsweredInOrder
=============================================================================
