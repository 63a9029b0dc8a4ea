------------------------- MODULE ClientThreadsProofs ------------------------
(***************************************************************************)
(* Proofs about ClientThreads, for every capacity and budget: no wake-up   *)
(* of the loop or of the control thread is lost, nothing exceeds its ring, *)
(* and no request is lost, repeated or overtaken on its way through them.  *)
(* And about SpscRing, the ring itself: its threads never share a slot,    *)
(* however stale the index they load, and it implements BoundedQueue.      *)
(***************************************************************************)
EXTENDS ClientThreads, SpscRing, Integers, Sequences, TLAPS

-----------------------------------------------------------------------------
(* The inductive invariant: for each source, work that waits while its     *)
(* event is not set will be seen by the turn under way, or is about to be  *)
(* announced.                                                              *)

\* The loop is at one of the stages, or signalling before it goes on with one.
At(stages) == loop \in stages \/ (loop = "signal" /\ back \in stages)

\* The loop has still to come to one of the stages this turn, or will wait no
\* more.
Ahead(stages) == \/ At(stages)
                 \/ loop \in {"cleanup", "joining", "failing", "returned", "cut",
                              "failed"}

\* What the steps below need of TypeOK.
Counts ==
    /\ sock \in Nat /\ packets \in Nat /\ lines \in Nat
    /\ left \in Nat /\ left <= MaxDrain /\ busy \in BOOLEAN
    /\ requests \in Seq(Nat) /\ responses \in Seq(Nat)
    /\ submitted \in Nat /\ current \in Nat
    /\ loop = "signal" => back \in {"udp", "adapter", "console", "control", "wait"}

\* While the process starts there is nothing to see yet.
StartKnown ==
    /\ loop = "starting" =>
          /\ sock = 0 /\ packets = 0 /\ lines = 0 /\ left = MaxDrain
          /\ requests = <<>> /\ responses = <<>>
          /\ control \notin {"check", "exchange", "push", "signal"}
    /\ control = "resolving" => resolved = "pending"
    /\ resolved = "pending" => loop = "starting"

\* A datagram posts FD_READ or was left by a receive call that did; only the
\* first receive call of a turn comes after a reset.
SocketKnown ==
    /\ armed <=> sock = 0
    /\ sock > 0 /\ "udp" \notin signalled => loop = "udp" /\ left = MaxDrain
    /\ At({"wait", "enumerate", "console", "control", "timers"}) => left = MaxDrain

AdapterKnown ==
    packets > 0 /\ "adapter" \notin signalled
    => \/ unread \/ busy \/ ShutdownAsked
       \/ Ahead({"enumerate", "udp", "adapter"})

ConsoleKnown ==
    lines > 0 /\ "console" \notin signalled
    => reader = "signal" \/ Ahead({"enumerate", "udp", "adapter", "console"})

ResponseKnown ==
    responses # <<>> /\ "response" \notin signalled
    => control = "signal" \/ Ahead({"enumerate", "udp", "adapter", "console", "control"})

RequestKnown ==
    requests # <<>> /\ "request" \notin signalled
    => loop = "signal" \/ control # "wait"

IInv == /\ Counts /\ StartKnown /\ SocketKnown /\ AdapterKnown
        /\ ConsoleKnown /\ ResponseKnown /\ RequestKnown

LEMMA InitInv == Init => IInv
<1> SUFFICES ASSUME Init
             PROVE  IInv
  OBVIOUS
<1>1. Counts
  <2>1. MaxDrain \in Nat
    BY ThreadsAssumption DEF ThreadsAssumption
  <2>2. left \in Nat /\ left <= MaxDrain
    <3>1. left = MaxDrain
      BY DEF Init
    <3> QED
      BY ONLY <2>1, <3>1
  <2>3. requests \in Seq(Nat) /\ responses \in Seq(Nat)
    BY DEF Init
  <2>4. /\ sock \in Nat /\ packets \in Nat /\ lines \in Nat
        /\ submitted \in Nat /\ current \in Nat /\ loop # "signal"
    BY DEF Init
  <2>5. busy \in BOOLEAN
    BY DEF Init
  <2> QED
    BY <2>2, <2>3, <2>4, <2>5 DEF Counts
<1>2. StartKnown /\ SocketKnown
  BY DEF Init, StartKnown, SocketKnown, At
<1>3. AdapterKnown /\ ConsoleKnown /\ ResponseKnown /\ RequestKnown
  BY DEF Init, AdapterKnown, ConsoleKnown, ResponseKnown, RequestKnown
<1> QED
  BY <1>1, <1>2, <1>3 DEF IInv

\* What handling an item does to the loop and the request ring.
Moves(stage) ==
    /\ \/ loop' = stage /\ UNCHANGED <<back, outgoing>>
       \/ loop' = "signal" /\ back' = stage
    /\ requests' \in Seq(Nat) /\ submitted' \in Nat
    /\ requests' # <<>> => requests # <<>> \/ loop' = "signal"

LEMMA HandledMoves ==
    ASSUME NEW stage, Counts, Handled(stage)
    PROVE  Moves(stage)
<1>1. CASE loop' = stage /\ UNCHANGED <<back, outgoing>>
  BY <1>1 DEF Counts, Moves, outgoing
<1>2. CASE /\ requests' = Append(requests, submitted + 1)
           /\ submitted' = submitted + 1
           /\ loop' = "signal" /\ back' = stage
  <2>1. submitted + 1 \in Nat
    BY DEF Counts
  <2>2. requests' \in Seq(Nat)
    BY <1>2, <2>1 DEF Counts
  <2> QED
    BY <1>2, <2>1, <2>2 DEF Moves
<1> QED
  BY <1>1, <1>2 DEF Handled

LEMMA TurnKeeps == IInv /\ Turn => IInv'
<1> SUFFICES ASSUME IInv, Turn
             PROVE  IInv'
    OBVIOUS
<1> USE ThreadsAssumption
       DEF ThreadsAssumption, IInv, At, Ahead, ShutdownAsked, turn, udp, adapter,
           console, outgoing, incoming, serving
<1>1. CASE SignalRequest
  <2>1. Counts'
    BY <1>1 DEF SignalRequest, Counts
  <2>2. SocketKnown'
    BY <1>1 DEF SignalRequest, Counts, StartKnown, SocketKnown
  <2>3. AdapterKnown'
    BY <1>1 DEF SignalRequest, Counts, StartKnown, AdapterKnown
  <2>4. ConsoleKnown'
    BY <1>1 DEF SignalRequest, Counts, StartKnown, ConsoleKnown
  <2>5. ResponseKnown'
    BY <1>1 DEF SignalRequest, Counts, StartKnown, ResponseKnown
  <2>6. RequestKnown'
    BY <1>1 DEF SignalRequest, Counts, StartKnown, RequestKnown
  <2>7. StartKnown'
    BY <1>1 DEF SignalRequest, Counts, StartKnown
  <2> QED
    BY <2>1, <2>2, <2>3, <2>4, <2>5, <2>6, <2>7
<1>2. CASE Wake
  <2>1. Counts'
    BY <1>2 DEF Wake, WaitReturns, Rank, Manual, Events, Counts
  <2>2. SocketKnown'
    BY <1>2 DEF Wake, WaitReturns, Rank, Manual, Events, Counts, StartKnown, SocketKnown
  <2>3. AdapterKnown'
    BY <1>2 DEF Wake, WaitReturns, Rank, Manual, Events, Counts, StartKnown, AdapterKnown
  <2>4. ConsoleKnown'
    BY <1>2 DEF Wake, WaitReturns, Rank, Manual, Events, Counts, StartKnown, ConsoleKnown
  <2>5. ResponseKnown'
    BY <1>2 DEF Wake, WaitReturns, Rank, Manual, Events, Counts, StartKnown, ResponseKnown
  <2>6. RequestKnown'
    BY <1>2 DEF Wake, WaitReturns, Rank, Manual, Events, Counts, StartKnown, RequestKnown
  <2>7. StartKnown'
    BY <1>2 DEF Wake, WaitReturns, Rank, Manual, Events, Counts, StartKnown
  <2> QED
    BY <2>1, <2>2, <2>3, <2>4, <2>5, <2>6, <2>7
<1>3. CASE Enumerate
  BY <1>3 DEF Enumerate, Counts, StartKnown, SocketKnown,
     AdapterKnown, ConsoleKnown, ResponseKnown, RequestKnown
<1>4. CASE Spent("udp", "adapter")
  BY <1>4 DEF Spent, Counts, StartKnown, SocketKnown,
     AdapterKnown, ConsoleKnown, ResponseKnown, RequestKnown
<1>5. CASE RecvUdp
  <2>h. Moves("udp")
    BY <1>5, HandledMoves DEF RecvUdp
  <2>1. Counts'
    BY <2>h, <1>5 DEF RecvUdp, Rearm, Moves, Counts
  <2>2. SocketKnown'
    BY <2>h, <1>5 DEF RecvUdp, Rearm, Moves, Counts, StartKnown, SocketKnown
  <2>3. AdapterKnown'
    BY <2>h, <1>5 DEF RecvUdp, Rearm, Moves, Counts, StartKnown, AdapterKnown
  <2>4. ConsoleKnown'
    BY <2>h, <1>5 DEF RecvUdp, Rearm, Moves, Counts, StartKnown, ConsoleKnown
  <2>5. ResponseKnown'
    BY <2>h, <1>5 DEF RecvUdp, Rearm, Moves, Counts, StartKnown, ResponseKnown
  <2>6. RequestKnown'
    BY <2>h, <1>5 DEF RecvUdp, Rearm, Moves, Counts, StartKnown, RequestKnown
  <2>7. StartKnown'
    BY <2>h, <1>5 DEF RecvUdp, Rearm, Moves, Counts, StartKnown
  <2> QED
    BY <2>1, <2>2, <2>3, <2>4, <2>5, <2>6, <2>7
<1>6. CASE RecvUdpStops
  BY <1>6 DEF RecvUdpStops, Rearm, Counts, StartKnown, SocketKnown,
     AdapterKnown, ConsoleKnown, ResponseKnown, RequestKnown
<1>7. CASE Spent("adapter", "console")
  BY <1>7 DEF Spent, Counts, StartKnown, SocketKnown,
     AdapterKnown, ConsoleKnown, ResponseKnown, RequestKnown
<1>8. CASE ReadAdapter
  <2>h. Moves("adapter")
    BY <1>8, HandledMoves DEF ReadAdapter
  <2>n. /\ left' \in Nat /\ left' <= MaxDrain /\ packets' \in Nat
        /\ sock' \in Nat /\ lines' \in Nat /\ busy' \in BOOLEAN /\ current' \in Nat
    BY <1>8 DEF ReadAdapter, Counts
  <2>1. Counts'
    BY <2>h, <2>n, <1>8 DEF ReadAdapter, Moves, Counts
  <2>2. SocketKnown'
    BY <2>h, <1>8 DEF ReadAdapter, Moves, Counts, StartKnown, SocketKnown
  <2>3. AdapterKnown'
    BY <2>h, <1>8 DEF ReadAdapter, Moves, Counts, StartKnown, AdapterKnown
  <2>4. ConsoleKnown'
    BY <2>h, <1>8 DEF ReadAdapter, Moves, Counts, StartKnown, ConsoleKnown
  <2>5. ResponseKnown'
    BY <2>h, <1>8 DEF ReadAdapter, Moves, Counts, StartKnown, ResponseKnown
  <2>6. RequestKnown'
    BY <2>h, <1>8 DEF ReadAdapter, Moves, Counts, StartKnown, RequestKnown
  <2>7. StartKnown'
    BY <2>h, <1>8 DEF ReadAdapter, Moves, Counts, StartKnown
  <2> QED
    BY <2>1, <2>2, <2>3, <2>4, <2>5, <2>6, <2>7
<1>9. CASE ReadAdapterStops
  <2>1. Counts'
    BY <1>9 DEF ReadAdapterStops, Counts
  <2>2. SocketKnown'
    BY <1>9 DEF ReadAdapterStops, Counts, StartKnown, SocketKnown
  <2>3. AdapterKnown'
    BY <1>9 DEF ReadAdapterStops, Counts, StartKnown, AdapterKnown
  <2>4. ConsoleKnown'
    BY <1>9 DEF ReadAdapterStops, Counts, StartKnown, ConsoleKnown
  <2>5. ResponseKnown'
    BY <1>9 DEF ReadAdapterStops, Counts, StartKnown, ResponseKnown
  <2>6. RequestKnown'
    BY <1>9 DEF ReadAdapterStops, Counts, StartKnown, RequestKnown
  <2>7. StartKnown'
    BY <1>9 DEF ReadAdapterStops, Counts, StartKnown
  <2> QED
    BY <2>1, <2>2, <2>3, <2>4, <2>5, <2>6, <2>7
<1>10. CASE AdapterBreaks
  BY <1>10 DEF AdapterBreaks, Counts, StartKnown, SocketKnown,
     AdapterKnown, ConsoleKnown, ResponseKnown, RequestKnown
<1>11. CASE HandleLine
  <2>h. \/ Moves("console")
        \/ UNCHANGED <<loop, back, outgoing>>
    BY <1>11, HandledMoves DEF HandleLine
  <2>1. Counts'
    BY <2>h, <1>11 DEF HandleLine, Moves, Counts
  <2>2. SocketKnown'
    BY <2>h, <1>11 DEF HandleLine, Moves, Counts, StartKnown, SocketKnown
  <2>3. AdapterKnown'
    BY <2>h, <1>11 DEF HandleLine, Moves, Counts, StartKnown, AdapterKnown
  <2>4. ConsoleKnown'
    BY <2>h, <1>11 DEF HandleLine, Moves, Counts, StartKnown, ConsoleKnown
  <2>5. ResponseKnown'
    BY <2>h, <1>11 DEF HandleLine, Moves, Counts, StartKnown, ResponseKnown
  <2>6. RequestKnown'
    BY <2>h, <1>11 DEF HandleLine, Moves, Counts, StartKnown, RequestKnown
  <2>7. StartKnown'
    BY <2>h, <1>11 DEF HandleLine, Moves, Counts, StartKnown
  <2> QED
    BY <2>1, <2>2, <2>3, <2>4, <2>5, <2>6, <2>7
<1>12. CASE ConsoleEmpty
  BY <1>12 DEF ConsoleEmpty, Counts, StartKnown, SocketKnown,
     AdapterKnown, ConsoleKnown, ResponseKnown, RequestKnown
<1>13. CASE HandleResponse
  <2>h. Moves("control")
    BY <1>13, HandledMoves DEF HandleResponse
  <2>1. Counts'
    BY <2>h, <1>13 DEF HandleResponse, Moves, Counts
  <2>2. SocketKnown'
    BY <2>h, <1>13 DEF HandleResponse, Moves, Counts, StartKnown, SocketKnown
  <2>3. AdapterKnown'
    BY <2>h, <1>13 DEF HandleResponse, Moves, Counts, StartKnown, AdapterKnown
  <2>4. ConsoleKnown'
    BY <2>h, <1>13 DEF HandleResponse, Moves, Counts, StartKnown, ConsoleKnown
  <2>5. ResponseKnown'
    BY <2>h, <1>13 DEF HandleResponse, Moves, Counts, StartKnown, ResponseKnown
  <2>6. RequestKnown'
    BY <2>h, <1>13 DEF HandleResponse, Moves, Counts, StartKnown, RequestKnown
  <2>7. StartKnown'
    BY <2>h, <1>13 DEF HandleResponse, Moves, Counts, StartKnown
  <2> QED
    BY <2>1, <2>2, <2>3, <2>4, <2>5, <2>6, <2>7
<1>14. CASE ControlEmpty
  BY <1>14 DEF ControlEmpty, Counts, StartKnown, SocketKnown,
     AdapterKnown, ConsoleKnown, ResponseKnown, RequestKnown
<1>15. CASE RunTimers
  <2>h. Moves("wait")
    BY <1>15, HandledMoves DEF RunTimers
  <2>1. Counts'
    BY <2>h, <1>15 DEF RunTimers, Moves, Counts
  <2>2. SocketKnown'
    BY <2>h, <1>15 DEF RunTimers, Moves, Counts, StartKnown, SocketKnown
  <2>3. AdapterKnown'
    <3>1. busy => busy'
      BY <1>15, Zenon DEF RunTimers
    <3> QED
      BY <2>h, <3>1, <1>15 DEF RunTimers, Moves, AdapterKnown
  <2>4. ConsoleKnown'
    BY <2>h, <1>15 DEF RunTimers, Moves, Counts, StartKnown, ConsoleKnown
  <2>5. ResponseKnown'
    BY <2>h, <1>15 DEF RunTimers, Moves, Counts, StartKnown, ResponseKnown
  <2>6. RequestKnown'
    BY <2>h, <1>15 DEF RunTimers, Moves, Counts, StartKnown, RequestKnown
  <2>7. StartKnown'
    BY <2>h, <1>15 DEF RunTimers, Moves, Counts, StartKnown
  <2> QED
    BY <2>1, <2>2, <2>3, <2>4, <2>5, <2>6, <2>7
<1> QED
  BY <1>1, <1>2, <1>3, <1>4, <1>5, <1>6, <1>7, <1>8, <1>9, <1>10, <1>11,
     <1>12, <1>13, <1>14, <1>15 DEF Turn

LEMMA MainKeeps == IInv /\ Main => IInv'
<1> SUFFICES ASSUME IInv, Main
             PROVE  IInv'
    OBVIOUS
<1> USE ThreadsAssumption
       DEF ThreadsAssumption, IInv, At, Ahead, ShutdownAsked, turn, udp, adapter,
           console, outgoing, incoming, serving
<1>1. CASE Start
  <2>h. \/ Moves("wait")
        \/ loop' = "cleanup" /\ UNCHANGED <<back, outgoing>>
    BY <1>1, HandledMoves DEF Start
  <2>1. Counts'
    BY <2>h, <1>1 DEF Start, Moves, Counts
  <2>2. SocketKnown'
    BY <2>h, <1>1 DEF Start, Moves, Counts, StartKnown, SocketKnown
  <2>3. AdapterKnown'
    BY <2>h, <1>1 DEF Start, Moves, Counts, StartKnown, AdapterKnown
  <2>4. ConsoleKnown'
    BY <2>h, <1>1 DEF Start, Moves, Counts, StartKnown, ConsoleKnown
  <2>5. ResponseKnown'
    BY <2>h, <1>1 DEF Start, Moves, Counts, StartKnown, ResponseKnown
  <2>6. RequestKnown'
    BY <2>h, <1>1 DEF Start, Moves, Counts, StartKnown, RequestKnown
  <2>7. StartKnown'
    BY <2>h, <1>1 DEF Start, Moves, Counts, StartKnown
  <2> QED
    BY <2>1, <2>2, <2>3, <2>4, <2>5, <2>6, <2>7
<1>2. CASE StartFails
  BY <1>2 DEF StartFails, Counts, StartKnown, SocketKnown,
     AdapterKnown, ConsoleKnown, ResponseKnown, RequestKnown
<1>3. CASE CleanUp
  BY <1>3 DEF CleanUp, Counts, StartKnown, SocketKnown,
     AdapterKnown, ConsoleKnown, ResponseKnown, RequestKnown
<1>4. CASE Join
  BY <1>4 DEF Join, Counts, StartKnown, SocketKnown,
     AdapterKnown, ConsoleKnown, ResponseKnown, RequestKnown
<1>5. CASE CutOff
  BY <1>5 DEF CutOff, Counts, StartKnown, SocketKnown,
     AdapterKnown, ConsoleKnown, ResponseKnown, RequestKnown
<1> QED
  BY <1>1, <1>2, <1>3, <1>4, <1>5 DEF Main

LEMMA ControlKeeps == IInv /\ Control => IInv'
<1> SUFFICES ASSUME IInv, Control
             PROVE  IInv'
    OBVIOUS
<1> USE ThreadsAssumption
       DEF ThreadsAssumption, IInv, At, Ahead, ShutdownAsked, turn, udp, adapter,
           console, outgoing, incoming, serving
<1>1. CASE Resolve
  BY <1>1 DEF Resolve, Counts, StartKnown, SocketKnown,
     AdapterKnown, ConsoleKnown, ResponseKnown, RequestKnown
<1>2. CASE ControlWait
  BY <1>2 DEF ControlWait, Serve, Counts, StartKnown, SocketKnown,
     AdapterKnown, ConsoleKnown, ResponseKnown, RequestKnown
<1>3. CASE PopRequest
  <2>1. Counts'
    <3>1. CASE requests = <<>>
      BY <1>3, <3>1 DEF PopRequest, Serve, Counts
    <3>2. CASE requests # <<>>
      <4>1. Head(requests) \in Nat /\ Tail(requests) \in Seq(Nat)
        BY <3>2 DEF Counts
      <4> QED
        BY <1>3, <3>2, <4>1 DEF PopRequest, Serve, Counts
    <3> QED
      BY <3>1, <3>2
  <2>2. SocketKnown'
    BY <1>3 DEF PopRequest, Serve, Counts, StartKnown, SocketKnown
  <2>3. AdapterKnown'
    BY <1>3 DEF PopRequest, Serve, Counts, StartKnown, AdapterKnown
  <2>4. ConsoleKnown'
    BY <1>3 DEF PopRequest, Serve, Counts, StartKnown, ConsoleKnown
  <2>5. ResponseKnown'
    BY <1>3 DEF PopRequest, Serve, Counts, StartKnown, ResponseKnown
  <2>6. RequestKnown'
    BY <1>3 DEF PopRequest, Serve, Counts, StartKnown, RequestKnown
  <2>7. StartKnown'
    BY <1>3 DEF PopRequest, Serve, Counts, StartKnown
  <2> QED
    BY <2>1, <2>2, <2>3, <2>4, <2>5, <2>6, <2>7
<1>4. CASE CheckShutdown
  BY <1>4 DEF CheckShutdown, TakenForShutdown, Serve, Counts, StartKnown, SocketKnown,
     AdapterKnown, ConsoleKnown, ResponseKnown, RequestKnown
<1>5. CASE Exchange
  BY <1>5 DEF Exchange, TakenForShutdown, Serve, Counts, StartKnown, SocketKnown,
     AdapterKnown, ConsoleKnown, ResponseKnown, RequestKnown
<1>6. CASE Deliver
  <2>1. Counts'
    <3>1. Append(responses, current) \in Seq(Nat)
      BY DEF Counts
    <3>2. \/ responses' = responses /\ current' = current
          \/ responses' = Append(responses, current) /\ current' = 0
      BY <1>6 DEF Deliver
    <3>3. responses \in Seq(Nat) /\ current \in Nat /\ 0 \in Nat
      BY DEF Counts
    <3>4. responses' \in Seq(Nat) /\ current' \in Nat
      BY ONLY <3>1, <3>2, <3>3
    <3> QED
      BY <1>6, <3>4 DEF Deliver, TakenForShutdown, Serve, Counts
  <2>2. SocketKnown'
    BY <1>6 DEF Deliver, TakenForShutdown, Serve, Counts, StartKnown, SocketKnown
  <2>3. AdapterKnown'
    BY <1>6 DEF Deliver, TakenForShutdown, Serve, Counts, StartKnown, AdapterKnown
  <2>4. ConsoleKnown'
    BY <1>6 DEF Deliver, TakenForShutdown, Serve, Counts, StartKnown, ConsoleKnown
  <2>5. ResponseKnown'
    BY <1>6 DEF Deliver, TakenForShutdown, Serve, Counts, StartKnown, ResponseKnown
  <2>6. RequestKnown'
    BY <1>6 DEF Deliver, TakenForShutdown, Serve, Counts, StartKnown, RequestKnown
  <2>7. StartKnown'
    BY <1>6 DEF Deliver, TakenForShutdown, Serve, Counts, StartKnown
  <2> QED
    BY <2>1, <2>2, <2>3, <2>4, <2>5, <2>6, <2>7
<1>7. CASE SignalResponse
  BY <1>7 DEF SignalResponse, Serve, Counts, StartKnown, SocketKnown,
     AdapterKnown, ConsoleKnown, ResponseKnown, RequestKnown
<1>8. CASE Finish
  BY <1>8 DEF Finish, Serve, Counts, StartKnown, SocketKnown,
     AdapterKnown, ConsoleKnown, ResponseKnown, RequestKnown
<1> QED
  BY <1>1, <1>2, <1>3, <1>4, <1>5, <1>6, <1>7, <1>8 DEF Control

LEMMA OutsideKeeps == IInv /\ Outside => IInv'
<1> SUFFICES ASSUME IInv, Outside
             PROVE  IInv'
    OBVIOUS
<1> USE ThreadsAssumption
       DEF ThreadsAssumption, IInv, At, Ahead, ShutdownAsked, turn, udp, adapter,
           console, outgoing, incoming, serving
<1>1. CASE ReadLine
  BY <1>1 DEF ReadLine, Counts, StartKnown, SocketKnown,
     AdapterKnown, ConsoleKnown, ResponseKnown, RequestKnown
<1>2. CASE SignalLine
  BY <1>2 DEF SignalLine, Counts, StartKnown, SocketKnown,
     AdapterKnown, ConsoleKnown, ResponseKnown, RequestKnown
<1>3. CASE EndOfInput
  BY <1>3 DEF EndOfInput, Counts, StartKnown, SocketKnown,
     AdapterKnown, ConsoleKnown, ResponseKnown, RequestKnown
<1>4. CASE Datagram
  <2>1. Counts'
    BY <1>4 DEF Datagram, Counts
  <2>2. SocketKnown'
    BY <1>4 DEF Datagram, Counts, StartKnown, SocketKnown
  <2>3. AdapterKnown'
    BY <1>4 DEF Datagram, Counts, StartKnown, AdapterKnown
  <2>4. ConsoleKnown'
    BY <1>4 DEF Datagram, Counts, StartKnown, ConsoleKnown
  <2>5. ResponseKnown'
    BY <1>4 DEF Datagram, Counts, StartKnown, ResponseKnown
  <2>6. RequestKnown'
    BY <1>4 DEF Datagram, Counts, StartKnown, RequestKnown
  <2>7. StartKnown'
    BY <1>4 DEF Datagram, Counts, StartKnown
  <2> QED
    BY <2>1, <2>2, <2>3, <2>4, <2>5, <2>6, <2>7
<1>5. CASE Packet
  BY <1>5 DEF Packet, Counts, StartKnown, SocketKnown,
     AdapterKnown, ConsoleKnown, ResponseKnown, RequestKnown
<1>6. CASE TimerPasses
  BY <1>6 DEF TimerPasses, Counts, StartKnown, SocketKnown,
     AdapterKnown, ConsoleKnown, ResponseKnown, RequestKnown
<1>7. CASE Interrupt
  BY <1>7 DEF Interrupt, Counts, StartKnown, SocketKnown,
     AdapterKnown, ConsoleKnown, ResponseKnown, RequestKnown
<1> QED
  BY <1>1, <1>2, <1>3, <1>4, <1>5, <1>6, <1>7 DEF Outside

LEMMA FailuresKeep == IInv /\ Failures => IInv'
<1> SUFFICES ASSUME IInv, Failures
             PROVE  IInv'
    OBVIOUS
<1> USE ThreadsAssumption
       DEF ThreadsAssumption, IInv, At, Ahead, ShutdownAsked, turn, udp, adapter,
           console, outgoing, incoming, serving
<1>1. CASE LoopWaitFails
  BY <1>1 DEF LoopWaitFails, Counts, StartKnown, SocketKnown,
     AdapterKnown, ConsoleKnown, ResponseKnown, RequestKnown
<1>2. CASE ControlWaitFails
  BY <1>2 DEF ControlWaitFails, Serve, Counts, StartKnown, SocketKnown,
     AdapterKnown, ConsoleKnown, ResponseKnown, RequestKnown
<1> QED
  BY <1>1, <1>2 DEF Failures

-----------------------------------------------------------------------------
LEMMA Invariance == Spec => []IInv
<1>1. IInv /\ [Next]_vars => IInv'
  <2> SUFFICES ASSUME IInv, [Next]_vars
               PROVE  IInv'
    OBVIOUS
  <2>1. CASE Next
    BY <2>1, TurnKeeps, MainKeeps, ControlKeeps, FailuresKeep,
       OutsideKeeps DEF Next
  <2>2. CASE UNCHANGED vars
    BY <2>2 DEF vars, turn, udp, adapter, console, outgoing, incoming, serving, IInv,
       Counts, StartKnown, SocketKnown, AdapterKnown, ConsoleKnown, ResponseKnown,
       RequestKnown, At, Ahead, ShutdownAsked
  <2> QED
    BY <2>1, <2>2
<1> QED
  BY <1>1, InitInv, PTL DEF Spec

LEMMA KnownMeansHeard == IInv => NoLostWakeUp /\ ControlNoLostWakeUp
<1> SUFFICES ASSUME IInv
             PROVE  NoLostWakeUp /\ ControlNoLostWakeUp
  OBVIOUS
<1>1. ControlNoLostWakeUp
  BY DEF IInv, RequestKnown, ControlNoLostWakeUp
<1>2. SUFFICES ASSUME loop = "wait", ~busy,
                      \A k \in DOMAIN Rank : Rank[k] \notin signalled
               PROVE  /\ sock = 0 /\ (packets = 0 \/ unread)
                      /\ (lines = 0 \/ reader = "signal")
                      /\ (responses = <<>> \/ control = "signal")
  BY <1>1 DEF NoLostWakeUp
<1>3. signalled \cap {"shutdown", "udp", "adapter", "console", "response"} = {}
  BY <1>2 DEF Rank
<1>4. ~ShutdownAsked /\ (\A stages \in SUBSET {"enumerate", "udp", "adapter", "console",
                                              "control"} : ~Ahead(stages))
  BY <1>2, <1>3 DEF ShutdownAsked, At, Ahead
<1>5. sock = 0
  BY <1>2, <1>3 DEF IInv, Counts, SocketKnown
<1>6. packets = 0 \/ unread
  BY <1>2, <1>3, <1>4 DEF IInv, Counts, AdapterKnown
<1>7. lines = 0 \/ reader = "signal"
  BY <1>2, <1>3, <1>4 DEF IInv, Counts, ConsoleKnown
<1>8. responses = <<>> \/ control = "signal"
  BY <1>2, <1>3, <1>4 DEF IInv, ResponseKnown
<1> QED
  BY <1>5, <1>6, <1>7, <1>8

(* With any budget, any capacities and any interleaving of the threads, the  *)
(* loop never blocks on work that nobody is about to announce: loop.cpp      *)
(* run_once and its drains, and the threads that signal it.                  *)
THEOREM LoopNeverSleepsOnWork == Spec => []NoLostWakeUp
BY Invariance, KnownMeansHeard, PTL

(* The control thread never blocks on a request that nobody is about to      *)
(* announce, though its event is reset once for several of them:             *)
(* channel.cpp submit() and serve().                                         *)
THEOREM ControlNeverSleepsOnRequests == Spec => []ControlNoLostWakeUp
BY Invariance, KnownMeansHeard, PTL

\* No interleaving of the threads makes either of them sleep on work.
THEOREM NothingSleepsOnWork == Spec => []EveryWakeUpHeard
BY LoopNeverSleepsOnWork, ControlNeverSleepsOnRequests, PTL DEF EveryWakeUpHeard

-----------------------------------------------------------------------------
(* The rings.  TypeOK and AnsweredInOrder are proved together with where   *)
(* the control thread holds a request: it takes one when it holds none.    *)

Stages == {"starting", "wait", "enumerate", "udp", "adapter", "console", "control", "timers",
           "cleanup", "joining", "failing", "returned", "cut", "failed"}

Backs == {"udp", "adapter", "console", "control", "wait"}

LoopType ==
    /\ \/ loop \in Stages
       \/ loop = "signal" /\ back \in Backs
    /\ back \in Backs \cup {"none"}

BudgetType ==
    /\ signalled \subseteq {"shutdown", "udp", "adapter", "console", "response", "request"}
    /\ left \in 0..MaxDrain /\ busy \in BOOLEAN

SourcesType ==
    /\ sock \in 0..SockCap /\ armed \in BOOLEAN
    /\ packets \in 0..AdapterCap /\ unread \in BOOLEAN
    /\ timerDue \in BOOLEAN
    /\ lines \in 0..ConsoleCap /\ typed \in 0..MaxLines
    /\ reader \in {"reading", "signal"}

RingsType ==
    /\ submitted \in 0..MaxRequests /\ answered \in 0..MaxRequests
    /\ requests \in Seq(1..MaxRequests) /\ Len(requests) <= RequestCap
    /\ responses \in Seq(1..MaxRequests) /\ Len(responses) <= ResponseCap
    /\ control \in {"resolving", "wait", "pop", "check", "exchange", "push",
                    "signal", "finish", "ended"}
    /\ current \in 0..MaxRequests
    /\ resolved \in {"pending", "address", "none"} /\ blind \in BOOLEAN

GivenUp == control \in {"finish", "ended"}

HeldCount(cur) == IF cur = 0 THEN 0 ELSE 1

\* AnsweredInOrder, item by item: the responses rs, the request held cur and
\* the requests rq are the numbers after the last one answered.
Line(rq, sub, rs, ans, cur) ==
    /\ ans + Len(rs) + HeldCount(cur) + Len(rq) = sub
    /\ \A k \in 1..Len(rs) : rs[k] = ans + k
    /\ cur # 0 => cur = ans + Len(rs) + 1
    /\ \A k \in 1..Len(rq) : rq[k] = ans + Len(rs) + HeldCount(cur) + k

InLine ==
    ~GivenUp => /\ current # 0 <=> control \in {"check", "exchange", "push"}
                /\ Line(requests, submitted, responses, answered, current)

RingInv == LoopType /\ BudgetType /\ SourcesType /\ RingsType /\ InLine

LEMMA EventsAre == Events = {"shutdown", "udp", "adapter", "console", "response", "request"}
<1>1. DOMAIN Rank = {1, 2, 3, 4, 5}
  BY DEF Rank
<1>2. /\ Rank[1] = "shutdown" /\ Rank[2] = "udp" /\ Rank[3] = "adapter" /\ Rank[4] = "console"
      /\ Rank[5] = "response"
  BY DEF Rank
<1> QED
  BY <1>1, <1>2 DEF Events

LEMMA TypesAre == LoopType /\ BudgetType /\ SourcesType /\ RingsType => TypeOK
BY EventsAre DEF LoopType, BudgetType, Backs, SourcesType, RingsType, Stages, TypeOK

LEMMA InitRing == Init => RingInv
<1> SUFFICES ASSUME Init
             PROVE  RingInv
  OBVIOUS
<1>c. MaxDrain \in Nat /\ SockCap \in Nat /\ AdapterCap \in Nat /\ ConsoleCap \in Nat /\ MaxLines \in Nat
  BY ThreadsAssumption DEF ThreadsAssumption
<1>d. busy \in BOOLEAN /\ armed \in BOOLEAN /\ unread \in BOOLEAN /\ timerDue \in BOOLEAN
  BY DEF Init
<1>e. left = MaxDrain /\ sock = 0 /\ packets = 0 /\ lines = 0 /\ typed = 0
  BY DEF Init
<1>1. LoopType /\ BudgetType
  <2>1. left \in 0..MaxDrain
    BY ONLY <1>c, <1>e
  <2>2. signalled = {} /\ loop = "starting" /\ back = "none"
    BY DEF Init
  <2> QED
    BY <1>d, <2>1, <2>2 DEF LoopType, BudgetType, Backs, Stages
<1>4. SourcesType
  <2>1. sock \in 0..SockCap /\ packets \in 0..AdapterCap /\ lines \in 0..ConsoleCap /\ typed \in 0..MaxLines
    BY ONLY <1>c, <1>e
  <2>2. reader = "reading"
    BY DEF Init
  <2> QED
    BY <1>d, <2>1, <2>2 DEF SourcesType
<1>2. RingsType
  <2>1. blind \in BOOLEAN
    BY DEF Init
  <2>2. /\ submitted \in 0..MaxRequests /\ answered \in 0..MaxRequests /\ current \in 0..MaxRequests
        /\ requests \in Seq(1..MaxRequests) /\ Len(requests) <= RequestCap
        /\ responses \in Seq(1..MaxRequests) /\ Len(responses) <= ResponseCap
    BY ThreadsAssumption DEF ThreadsAssumption, Init
  <2>3. control = "resolving" /\ resolved = "pending"
    BY DEF Init
  <2> QED
    BY <2>1, <2>2, <2>3 DEF RingsType
<1>3. InLine
  BY DEF Init, InLine, Line, HeldCount, GivenUp
<1> QED
  BY <1>1, <1>2, <1>3, <1>4 DEF RingInv

\* A line of items is kept by each of its moves: a request submitted.
LEMMA LineGrows ==
    ASSUME NEW N \in Nat, NEW rq \in Seq(1..N), NEW rs \in Seq(1..N),
           NEW sub \in Nat, NEW ans \in Nat, NEW cur \in Nat,
           Line(rq, sub, rs, ans, cur)
    PROVE  Line(Append(rq, sub + 1), sub + 1, rs, ans, cur)
<1> DEFINE a == Append(rq, sub + 1)
<1>1. /\ Len(a) = Len(rq) + 1 /\ a[Len(rq) + 1] = sub + 1
      /\ \A k \in 1..Len(rq) : a[k] = rq[k]
  OBVIOUS
<1>2. Len(rq) \in Nat /\ Len(rs) \in Nat /\ HeldCount(cur) \in Nat
  BY DEF HeldCount
<1> HIDE DEF a
<1>3. ASSUME NEW k \in 1..Len(a)
      PROVE  a[k] = ans + Len(rs) + HeldCount(cur) + k
  <2>1. CASE k \in 1..Len(rq)
    BY <1>1, <2>1 DEF Line
  <2>2. CASE k = Len(rq) + 1
    BY <1>1, <1>2, <2>2 DEF Line
  <2> QED
    BY <1>1, <1>2, <2>1, <2>2
<1>4. ans + Len(rs) + HeldCount(cur) + Len(a) = sub + 1
  BY <1>1, <1>2 DEF Line
<1>5. Line(a, sub + 1, rs, ans, cur)
  BY <1>3, <1>4 DEF Line
<1> QED
  BY <1>5 DEF a

\* The first response handled.
LEMMA LineAnswered ==
    ASSUME NEW N \in Nat, NEW rq \in Seq(1..N), NEW rs \in Seq(1..N),
           NEW sub \in Nat, NEW ans \in Nat, NEW cur \in Nat,
           Line(rq, sub, rs, ans, cur), rs # <<>>
    PROVE  Line(rq, sub, Tail(rs), Head(rs), cur)
<1> DEFINE b == Tail(rs)
<1>1. /\ Len(rs) \in Nat \ {0} /\ Len(b) = Len(rs) - 1 /\ Head(rs) = rs[1]
      /\ \A k \in 1..Len(b) : b[k] = rs[k + 1]
  OBVIOUS
<1>2. Len(rq) \in Nat /\ HeldCount(cur) \in Nat
  BY DEF HeldCount
<1>3. Head(rs) = ans + 1
  <2>1. 1 \in 1..Len(rs)
    BY <1>1
  <2> QED
    BY <1>1, <2>1 DEF Line
<1> HIDE DEF b
<1>4. ASSUME NEW k \in 1..Len(b)
      PROVE  b[k] = ans + 1 + k
  <2>1. k + 1 \in 1..Len(rs)
    BY <1>1
  <2>2. rs[k + 1] = ans + (k + 1)
    BY <2>1 DEF Line
  <2> QED
    BY <1>1, <2>2
<1>5. ans + 1 + Len(b) = ans + Len(rs)
  BY <1>1
<1>6. Line(rq, sub, b, ans + 1, cur)
  BY <1>1, <1>2, <1>4, <1>5 DEF Line
<1> QED
  BY <1>3, <1>6 DEF b

\* The first request taken.
LEMMA LineTaken ==
    ASSUME NEW N \in Nat, NEW rq \in Seq(1..N), NEW rs \in Seq(1..N),
           NEW sub \in Nat, NEW ans \in Nat,
           Line(rq, sub, rs, ans, 0), rq # <<>>
    PROVE  Line(Tail(rq), sub, rs, ans, Head(rq))
<1> DEFINE b == Tail(rq)
           c == Head(rq)
<1>1. /\ Len(rq) \in Nat \ {0} /\ Len(b) = Len(rq) - 1 /\ c = rq[1] /\ c \in 1..N
      /\ \A k \in 1..Len(b) : b[k] = rq[k + 1]
  OBVIOUS
<1>2. Len(rs) \in Nat /\ HeldCount(0) = 0
  BY DEF HeldCount
<1>3. c = ans + Len(rs) + 1
  <2>1. 1 \in 1..Len(rq)
    BY <1>1
  <2> QED
    BY <1>1, <1>2, <2>1 DEF Line
<1> HIDE DEF b, c
<1>4. HeldCount(c) = 1
  BY <1>1 DEF HeldCount
<1>5. ASSUME NEW k \in 1..Len(b)
      PROVE  b[k] = ans + Len(rs) + HeldCount(c) + k
  <2>1. k + 1 \in 1..Len(rq)
    BY <1>1
  <2>2. rq[k + 1] = ans + Len(rs) + HeldCount(0) + (k + 1)
    BY <2>1 DEF Line
  <2> QED
    BY <1>1, <1>2, <1>4, <2>2
<1>6. ans + Len(rs) + HeldCount(c) + Len(b) = sub
  <2>1. ans + Len(rs) + 0 + Len(rq) = sub
    BY <1>2 DEF Line
  <2>2. Len(b) \in Nat /\ Len(rq) = Len(b) + 1
    BY <1>1
  <2> QED
    BY <1>2, <1>4, <2>1, <2>2
<1>7. Line(b, sub, rs, ans, c)
  BY <1>3, <1>5, <1>6 DEF Line
<1> QED
  BY <1>7 DEF b, c

\* The response delivered.
LEMMA LineDelivered ==
    ASSUME NEW N \in Nat, NEW rq \in Seq(1..N), NEW rs \in Seq(1..N),
           NEW sub \in Nat, NEW ans \in Nat, NEW cur \in Nat \ {0},
           Line(rq, sub, rs, ans, cur)
    PROVE  Line(rq, sub, Append(rs, cur), ans, 0)
<1> DEFINE a == Append(rs, cur)
<1>1. /\ Len(a) = Len(rs) + 1 /\ a[Len(rs) + 1] = cur
      /\ \A k \in 1..Len(rs) : a[k] = rs[k]
  OBVIOUS
<1>2. /\ Len(rq) \in Nat /\ Len(rs) \in Nat /\ HeldCount(cur) = 1 /\ HeldCount(0) = 0
      /\ cur = ans + Len(rs) + 1
  BY DEF HeldCount, Line
<1> HIDE DEF a
<1>3. ASSUME NEW k \in 1..Len(a)
      PROVE  a[k] = ans + k
  <2>1. CASE k \in 1..Len(rs)
    BY <1>1, <2>1 DEF Line
  <2>2. CASE k = Len(rs) + 1
    BY <1>1, <1>2, <2>2
  <2>3. k \in Nat /\ 1 <= k /\ k <= Len(rs) + 1
    BY <1>1, <1>2
  <2>4. k \in 1..Len(rs) \/ k = Len(rs) + 1
    <3>1. Len(rs) \in Nat
      BY <1>2
    <3> QED
      BY ONLY <2>3, <3>1
  <2> QED
    BY <2>1, <2>2, <2>4
<1>4. ans + Len(a) + HeldCount(0) = ans + Len(rs) + HeldCount(cur)
  BY <1>1, <1>2
<1>5. Line(rq, sub, a, ans, 0)
  BY <1>3, <1>4 DEF Line
<1> QED
  BY <1>5 DEF a

\* The order of the rings says what AnsweredInOrder says.
LEMMA JoinedIs ==
    ASSUME NEW S, NEW a \in Seq(S), NEW b \in Seq(S)
    PROVE  /\ a \o b \in Seq(S) /\ Len(a \o b) = Len(a) + Len(b)
           /\ \A k \in 1..Len(a \o b) : (a \o b)[k] = IF k <= Len(a) THEN a[k] ELSE b[k - Len(a)]
OBVIOUS

LEMMA LineIsOrder == RingsType /\ InLine => AnsweredInOrder
<1> SUFFICES ASSUME RingsType, InLine, ~GivenUp
             PROVE  responses \o Held \o requests = [k \in 1..(submitted - answered) |-> answered + k]
  BY DEF AnsweredInOrder, GivenUp
<1> DEFINE h == Held
           a == responses \o h
           s == a \o requests
<1>0. Line(requests, submitted, responses, answered, current)
  BY DEF InLine
<1>1. h \in Seq(1..MaxRequests) /\ Len(h) = HeldCount(current) /\ (current # 0 => h[1] = current)
  <2>1. CASE current = 0
    BY <2>1 DEF Held, HeldCount
  <2>2. CASE current # 0
    <3>1. current \in 1..MaxRequests
      BY <2>2 DEF RingsType
    <3> QED
      BY <2>2, <3>1 DEF Held, HeldCount
  <2> QED
    BY <2>1, <2>2
<1> HIDE DEF h
<1>n. /\ responses \in Seq(1..MaxRequests) /\ requests \in Seq(1..MaxRequests)
      /\ Len(responses) \in Nat /\ Len(requests) \in Nat /\ HeldCount(current) \in {0, 1}
      /\ answered \in Nat /\ submitted \in Nat /\ (HeldCount(current) = 1 <=> current # 0)
  BY DEF RingsType, HeldCount
<1>2. /\ a \in Seq(1..MaxRequests) /\ Len(a) = Len(responses) + HeldCount(current)
      /\ \A k \in 1..Len(a) : a[k] = IF k <= Len(responses) THEN responses[k]
                                     ELSE h[k - Len(responses)]
  <2>1. responses \in Seq(1..MaxRequests) /\ h \in Seq(1..MaxRequests)
    BY <1>1, <1>n
  <2>2. /\ a \in Seq(1..MaxRequests) /\ Len(a) = Len(responses) + Len(h)
        /\ \A k \in 1..Len(a) : a[k] = IF k <= Len(responses) THEN responses[k]
                                       ELSE h[k - Len(responses)]
    BY ONLY <2>1, JoinedIs DEF a
  <2> HIDE DEF a
  <2> QED
    BY <1>1, <2>2
<1> HIDE DEF a
<1>3. ASSUME NEW k \in 1..Len(a)
      PROVE  a[k] = answered + k
  <2>1. CASE k <= Len(responses)
    <3>1. k \in 1..Len(responses)
      BY <2>1, <1>n
    <3> QED
      BY <1>0, <1>2, <2>1, <3>1 DEF Line
  <2>2. CASE ~(k <= Len(responses))
    <3>1. current # 0 /\ k = Len(responses) + 1 /\ k - Len(responses) = 1
      BY <1>2, <2>2, <1>n
    <3>2. a[k] = h[k - Len(responses)]
      BY <1>2, <2>2
    <3>3. a[k] = current
      BY <1>1, <3>1, <3>2
    <3> QED
      BY <1>0, <1>n, <3>1, <3>3 DEF Line
  <2> QED
    BY <2>1, <2>2
<1>4. /\ s \in Seq(1..MaxRequests) /\ Len(s) = Len(a) + Len(requests)
      /\ \A k \in 1..Len(s) : s[k] = IF k <= Len(a) THEN a[k] ELSE requests[k - Len(a)]
  <2>1. a \in Seq(1..MaxRequests) /\ requests \in Seq(1..MaxRequests)
    BY <1>2, <1>n
  <2> QED
    BY ONLY <2>1, JoinedIs DEF s
<1> HIDE DEF s
<1>5. ASSUME NEW k \in 1..Len(s)
      PROVE  s[k] = answered + k
  <2>1. CASE k <= Len(a)
    <3>1. k \in 1..Len(a)
      BY <1>2, <1>n, <2>1
    <3> QED
      BY <1>3, <1>4, <2>1, <3>1
  <2>2. CASE ~(k <= Len(a))
    <3>4. Len(a) \in Nat
      BY <1>2
    <3>1. k - Len(a) \in 1..Len(requests)
      BY <3>4, <1>4, <1>n, <2>2
    <3>2. requests[k - Len(a)] = answered + Len(responses) + HeldCount(current) + (k - Len(a))
      BY <1>0, <3>1 DEF Line
    <3>3. s[k] = requests[k - Len(a)]
      BY <1>4, <2>2
    <3>5. Len(a) = Len(responses) + HeldCount(current) /\ k \in Nat /\ HeldCount(current) \in Nat
      BY <1>2, <1>n
    <3> QED
      BY ONLY <1>n, <3>2, <3>3, <3>4, <3>5
  <2> QED
    BY <2>1, <2>2
<1>6. Len(s) = submitted - answered /\ Len(s) \in Nat
  <2>1. answered + Len(responses) + HeldCount(current) + Len(requests) = submitted
    BY <1>0 DEF Line
  <2>2. Len(s) = Len(responses) + HeldCount(current) + Len(requests) /\ HeldCount(current) \in Nat
    BY <1>2, <1>4, <1>n
  <2>3. /\ Len(responses) \in Nat /\ Len(requests) \in Nat
        /\ answered \in Nat /\ submitted \in Nat
    BY <1>n
  <2> QED
    BY ONLY <2>1, <2>2, <2>3
<1>7. s = [k \in 1..Len(s) |-> s[k]]
  BY <1>4
<1>8. s = [k \in 1..(submitted - answered) |-> answered + k]
  BY <1>5, <1>6, <1>7
<1> QED
  BY <1>8 DEF s, a, h

\* What the steps below preserve of the rings.
LEMMA RingsKept ==
    RingsType /\ InLine /\ UNCHANGED <<outgoing, incoming, serving>> => RingsType' /\ InLine'
BY DEF RingsType, InLine, GivenUp, Line, HeldCount, outgoing, incoming, serving

LEMMA SubmitKeeps ==
    ASSUME RingsType, InLine,
           submitted < MaxRequests, Len(requests) < RequestCap,
           requests' = Append(requests, submitted + 1), submitted' = submitted + 1,
           UNCHANGED <<incoming, serving>>
    PROVE  RingsType' /\ InLine'
<1>1. /\ requests \in Seq(1..MaxRequests) /\ submitted \in Nat /\ MaxRequests \in Nat
      /\ Len(requests) \in Nat /\ RequestCap \in Nat
  BY ThreadsAssumption DEF ThreadsAssumption, RingsType
<1>2. submitted + 1 \in 1..MaxRequests
  BY <1>1
<1>3. /\ requests' \in Seq(1..MaxRequests) /\ Len(requests') <= RequestCap
  BY <1>1, <1>2
<1>4. RingsType'
  BY <1>2, <1>3 DEF RingsType, incoming, serving
<1>5. ASSUME ~GivenUp
      PROVE  Line(requests', submitted', responses, answered, current)
  <2>1. Line(requests, submitted, responses, answered, current)
    BY <1>5 DEF InLine
  <2>2. responses \in Seq(1..MaxRequests) /\ answered \in Nat /\ current \in Nat
    BY <1>1 DEF RingsType
  <2> QED
    BY <1>1, <2>1, <2>2, LineGrows
<1>6. InLine'
  <2> SUFFICES ASSUME ~GivenUp'
               PROVE  /\ current' # 0 <=> control' \in {"check", "exchange", "push"}
                      /\ Line(requests', submitted', responses', answered', current')
    BY DEF InLine
  <2>1. responses' = responses /\ answered' = answered /\ control' = control /\ current' = current
    BY DEF incoming, serving
  <2>2. ~GivenUp
    BY <2>1 DEF GivenUp
  <2> QED
    BY <1>5, <2>1, <2>2 DEF InLine
<1> QED
  BY <1>4, <1>6

LEMMA HandledKeeps ==
    ASSUME RingsType, InLine, NEW stage, Handled(stage), UNCHANGED <<incoming, serving>>
    PROVE  RingsType' /\ InLine'
<1>1. CASE UNCHANGED outgoing
  BY <1>1, RingsKept
<1>2. CASE ~UNCHANGED outgoing
  BY <1>2, SubmitKeeps DEF Handled
<1> QED
  BY <1>1, <1>2

LEMMA HandledGoesOn ==
    ASSUME LoopType, NEW stage \in Backs, Handled(stage)
    PROVE  LoopType'
BY DEF LoopType, Backs, Stages, Handled

LEMMA LoopTypeKept ==
    LoopType /\ loop' \in Stages /\ UNCHANGED back => LoopType'
BY DEF LoopType

LEMMA SourcesKept ==
    SourcesType /\ UNCHANGED <<udp, adapter, timerDue, console>> => SourcesType'
BY DEF SourcesType, udp, adapter, console

\* A receive call leaves the events events.
LEMMA RearmTypes ==
    ASSUME NEW rest, signalled \subseteq Events, Rearm(rest)
    PROVE  signalled' \subseteq Events /\ armed' \in BOOLEAN
<1>1. CASE rest > 0
  BY <1>1, EventsAre DEF Rearm
<1>2. CASE ~(rest > 0)
  BY <1>2, EventsAre DEF Rearm
<1> QED
  BY <1>1, <1>2

LEMMA TurnKeepsRings == RingInv /\ Turn => RingInv'
<1> SUFFICES ASSUME RingInv, Turn
             PROVE  RingInv'
  OBVIOUS
<1> USE DEF RingInv
<1>c. MaxDrain \in Nat /\ SockCap \in Nat /\ AdapterCap \in Nat /\ ConsoleCap \in Nat /\ MaxLines \in Nat
      /\ MaxDrain \in 0..MaxDrain
  BY ThreadsAssumption DEF ThreadsAssumption
<1>1. CASE SignalRequest
  <2>1. LoopType'
    BY <1>1 DEF SignalRequest, LoopType, Backs, Stages
  <2>2. BudgetType'
    BY <1>1 DEF SignalRequest, BudgetType
  <2>3. SourcesType'
    BY <1>1, SourcesKept DEF SignalRequest
  <2>4. RingsType' /\ InLine'
    BY <1>1, RingsKept DEF SignalRequest
  <2> QED
    BY <2>1, <2>2, <2>3, <2>4
<1>2. CASE Wake
  <2>1. LoopType'
    BY <1>2, LoopTypeKept DEF Wake, Stages
  <2>2. BudgetType'
    BY <1>2 DEF Wake, BudgetType
  <2>3. SourcesType'
    BY <1>2, SourcesKept DEF Wake
  <2>4. RingsType' /\ InLine'
    BY <1>2, RingsKept DEF Wake
  <2> QED
    BY <2>1, <2>2, <2>3, <2>4
<1>3. CASE Enumerate
  <2>1. LoopType'
    BY <1>3, LoopTypeKept DEF Enumerate, Stages
  <2>2. BudgetType'
    BY <1>3 DEF Enumerate, BudgetType
  <2>3. SourcesType'
    BY <1>3, SourcesKept DEF Enumerate
  <2>4. RingsType' /\ InLine'
    BY <1>3, RingsKept DEF Enumerate
  <2> QED
    BY <2>1, <2>2, <2>3, <2>4
<1>4. ASSUME NEW stage, NEW next \in Stages, Spent(stage, next)
      PROVE  RingInv'
  <2>1. LoopType'
    BY <1>4, LoopTypeKept DEF Spent
  <2>2. BudgetType'
    BY <1>4, <1>c DEF Spent, BudgetType
  <2>3. SourcesType'
    BY <1>4, SourcesKept DEF Spent
  <2>4. RingsType' /\ InLine'
    BY <1>4, RingsKept DEF Spent
  <2> QED
    BY <2>1, <2>2, <2>3, <2>4
<1>5. CASE RecvUdp
  <2>1. LoopType'
    BY <1>5, HandledGoesOn DEF RecvUdp, Backs
  <2>e. signalled' \subseteq Events /\ armed' \in BOOLEAN
    BY <1>5, RearmTypes, EventsAre DEF RecvUdp, BudgetType
  <2>2. BudgetType'
    <3>1. left' \in 0..MaxDrain
      BY <1>5, <1>c DEF RecvUdp, BudgetType
    <3> QED
      BY <1>5, <2>e, <3>1, EventsAre DEF RecvUdp, BudgetType
  <2>3. SourcesType'
    <3>1. sock' \in 0..SockCap
      BY <1>5, <1>c DEF RecvUdp, SourcesType
    <3> QED
      BY <1>5, <2>e, <3>1 DEF RecvUdp, SourcesType, adapter, console
  <2>4. RingsType' /\ InLine'
    BY <1>5, HandledKeeps DEF RecvUdp
  <2> QED
    BY <2>1, <2>2, <2>3, <2>4
<1>6. CASE RecvUdpStops
  <2>1. LoopType'
    BY <1>6, LoopTypeKept DEF RecvUdpStops, Stages
  <2>e. signalled' \subseteq Events /\ armed' \in BOOLEAN
    BY <1>6, RearmTypes, EventsAre DEF RecvUdpStops, BudgetType
  <2>2. BudgetType'
    BY <1>6, <1>c, <2>e, EventsAre DEF RecvUdpStops, BudgetType
  <2>3. SourcesType'
    BY <1>6, <2>e DEF RecvUdpStops, SourcesType, adapter, console
  <2>4. RingsType' /\ InLine'
    BY <1>6, RingsKept DEF RecvUdpStops
  <2> QED
    BY <2>1, <2>2, <2>3, <2>4
<1>7. CASE ReadAdapter
  <2>1. LoopType'
    BY <1>7, HandledGoesOn DEF ReadAdapter, Backs
  <2>2. BudgetType'
    <3>1. left' \in 0..MaxDrain
      BY <1>7, <1>c DEF ReadAdapter, BudgetType
    <3> QED
      BY <1>7, <3>1 DEF ReadAdapter, BudgetType
  <2>3. SourcesType'
    <3>1. packets' \in 0..AdapterCap
      BY <1>7, <1>c DEF ReadAdapter, SourcesType
    <3> QED
      BY <1>7, <3>1 DEF ReadAdapter, SourcesType, udp, console
  <2>4. RingsType' /\ InLine'
    BY <1>7, HandledKeeps DEF ReadAdapter
  <2> QED
    BY <2>1, <2>2, <2>3, <2>4
<1>8. CASE ReadAdapterStops
  <2>1. LoopType'
    BY <1>8, LoopTypeKept DEF ReadAdapterStops, Stages
  <2>2. BudgetType'
    BY <1>8, <1>c DEF ReadAdapterStops, BudgetType
  <2>3. SourcesType'
    <3>1. unread' \in BOOLEAN
      BY <1>8 DEF ReadAdapterStops
    <3> QED
      BY <1>8, <3>1 DEF ReadAdapterStops, SourcesType, udp, console
  <2>4. RingsType' /\ InLine'
    BY <1>8, RingsKept DEF ReadAdapterStops
  <2> QED
    BY <2>1, <2>2, <2>3, <2>4
<1>9. CASE AdapterBreaks
  <2>1. LoopType'
    BY <1>9, LoopTypeKept DEF AdapterBreaks, Stages
  <2>2. BudgetType'
    <3>1. signalled' \subseteq Events
      BY <1>9, EventsAre DEF AdapterBreaks, BudgetType
    <3> QED
      BY <1>9, <1>c, <3>1, EventsAre DEF AdapterBreaks, BudgetType
  <2>3. SourcesType'
    <3>1. packets' \in 0..AdapterCap
      BY <1>9, <1>c DEF AdapterBreaks, SourcesType, adapter
    <3>2. unread' \in BOOLEAN
      BY <1>9 DEF AdapterBreaks, SourcesType, adapter
    <3> QED
      BY <1>9, <3>1, <3>2 DEF AdapterBreaks, SourcesType, udp, console
  <2>4. RingsType' /\ InLine'
    BY <1>9, RingsKept DEF AdapterBreaks
  <2> QED
    BY <2>1, <2>2, <2>3, <2>4
<1>10. CASE HandleLine
  <2>1. LoopType'
    <3>1. CASE Handled("console")
      BY <3>1, HandledGoesOn DEF Backs
    <3>2. CASE UNCHANGED <<loop, back>>
      BY <3>2 DEF LoopType
    <3> QED
      BY <1>10, <3>1, <3>2 DEF HandleLine
  <2>2. BudgetType'
    BY <1>10 DEF HandleLine, BudgetType
  <2>3. SourcesType'
    <3>1. lines' \in 0..ConsoleCap
      BY <1>10, <1>c DEF HandleLine, SourcesType
    <3> QED
      BY <1>10, <3>1 DEF HandleLine, SourcesType, udp, adapter
  <2>4. RingsType' /\ InLine'
    BY <1>10, HandledKeeps, RingsKept DEF HandleLine
  <2> QED
    BY <2>1, <2>2, <2>3, <2>4
<1>11. CASE ConsoleEmpty
  <2>1. LoopType'
    BY <1>11, LoopTypeKept DEF ConsoleEmpty, Stages
  <2>2. BudgetType'
    BY <1>11 DEF ConsoleEmpty, BudgetType
  <2>3. SourcesType'
    BY <1>11, SourcesKept DEF ConsoleEmpty
  <2>4. RingsType' /\ InLine'
    BY <1>11, RingsKept DEF ConsoleEmpty
  <2> QED
    BY <2>1, <2>2, <2>3, <2>4
<1>12. CASE HandleResponse
  <2>1. LoopType'
    BY <1>12, HandledGoesOn DEF HandleResponse, Backs
  <2>2. BudgetType'
    BY <1>12 DEF HandleResponse, BudgetType
  <2>3. SourcesType'
    BY <1>12, SourcesKept DEF HandleResponse
  <2>a. /\ responses \in Seq(1..MaxRequests) /\ requests \in Seq(1..MaxRequests)
        /\ submitted \in Nat /\ answered \in Nat /\ current \in Nat /\ MaxRequests \in Nat
        /\ Len(responses) \in Nat /\ ResponseCap \in Nat /\ Len(requests) \in Nat /\ RequestCap \in Nat
    BY ThreadsAssumption DEF ThreadsAssumption, RingsType
  <2>b. /\ responses # <<>> /\ responses' = Tail(responses) /\ answered' = Head(responses)
        /\ control' = control /\ current' = current /\ resolved' = resolved /\ blind' = blind
    BY <1>12 DEF HandleResponse, serving
  <2>c. /\ responses' \in Seq(1..MaxRequests) /\ Len(responses') <= ResponseCap
        /\ answered' \in 0..MaxRequests
    <3>1. /\ Tail(responses) \in Seq(1..MaxRequests) /\ Len(Tail(responses)) = Len(responses) - 1
          /\ Head(responses) \in 1..MaxRequests
      BY <2>a, <2>b
    <3>2. Len(responses) <= ResponseCap
      BY DEF RingsType
    <3> QED
      BY <2>a, <2>b, <3>1, <3>2
  <2>d. \/ requests' = requests /\ submitted' = submitted
        \/ /\ submitted < MaxRequests /\ Len(requests) < RequestCap
           /\ requests' = Append(requests, submitted + 1) /\ submitted' = submitted + 1
    BY <1>12 DEF HandleResponse, Handled, outgoing
  <2>e. /\ submitted' \in 0..MaxRequests /\ requests' \in Seq(1..MaxRequests)
        /\ Len(requests') <= RequestCap
    <3>1. CASE requests' = requests /\ submitted' = submitted
      BY <3>1 DEF RingsType
    <3>2. CASE /\ submitted < MaxRequests /\ Len(requests) < RequestCap
               /\ requests' = Append(requests, submitted + 1) /\ submitted' = submitted + 1
      <4>1. submitted + 1 \in 1..MaxRequests
        BY <2>a, <3>2
      <4> QED
        BY <2>a, <3>2, <4>1
    <3> QED
      BY <2>d, <3>1, <3>2
  <2>4. RingsType'
    BY <2>b, <2>c, <2>e DEF RingsType
  <2>5. InLine'
    <3> SUFFICES ASSUME ~GivenUp'
                 PROVE  /\ current' # 0 <=> control' \in {"check", "exchange", "push"}
                        /\ Line(requests', submitted', responses', answered', current')
      BY DEF InLine
    <3>1. ~GivenUp
      BY <2>b DEF GivenUp
    <3>2. Line(requests, submitted, Tail(responses), Head(responses), current)
      BY <2>a, <2>b, <3>1, LineAnswered DEF InLine
    <3>3. Line(requests', submitted', responses', answered', current)
      <4>1. CASE requests' = requests /\ submitted' = submitted
        BY <2>b, <3>2, <4>1
      <4>2. CASE requests' = Append(requests, submitted + 1) /\ submitted' = submitted + 1
        <5>1. Tail(responses) \in Seq(1..MaxRequests) /\ Head(responses) \in Nat
          BY <2>b, <2>c
        <5> QED
          BY <2>a, <2>b, <3>2, <4>2, <5>1, LineGrows
      <4> QED
        BY <2>d, <4>1, <4>2
    <3> QED
      BY <2>b, <3>1, <3>3 DEF InLine
  <2> QED
    BY <2>1, <2>2, <2>3, <2>4, <2>5
<1>13. CASE ControlEmpty
  <2>1. LoopType'
    BY <1>13, LoopTypeKept DEF ControlEmpty, Stages
  <2>2. BudgetType'
    BY <1>13 DEF ControlEmpty, BudgetType
  <2>3. SourcesType'
    BY <1>13, SourcesKept DEF ControlEmpty
  <2>4. RingsType' /\ InLine'
    BY <1>13, RingsKept DEF ControlEmpty
  <2> QED
    BY <2>1, <2>2, <2>3, <2>4
<1>14. CASE RunTimers
  <2>1. LoopType'
    BY <1>14, HandledGoesOn DEF RunTimers, Backs
  <2>2. BudgetType'
    <3>1. busy' \in BOOLEAN
      BY <1>14 DEF RunTimers, BudgetType
    <3> QED
      BY <1>14, <3>1 DEF RunTimers, BudgetType
  <2>3. SourcesType'
    <3>1. timerDue' \in BOOLEAN
      BY <1>14 DEF RunTimers
    <3> QED
      BY <1>14, <3>1 DEF RunTimers, SourcesType, udp, adapter, console
  <2>4. RingsType' /\ InLine'
    BY <1>14, HandledKeeps DEF RunTimers
  <2> QED
    BY <2>1, <2>2, <2>3, <2>4
<1> QED
  BY <1>1, <1>2, <1>3, <1>4, <1>5, <1>6, <1>7, <1>8, <1>9, <1>10, <1>11, <1>12, <1>13,
     <1>14 DEF Turn, Stages

LEMMA MainKeepsRings == RingInv /\ (Main \/ LoopWaitFails) => RingInv'
<1> SUFFICES ASSUME RingInv, Main \/ LoopWaitFails
             PROVE  RingInv'
  OBVIOUS
<1> USE DEF RingInv
<1>1. CASE Start
  <2>1. LoopType'
    <3>1. CASE Handled("wait")
      BY <3>1, HandledGoesOn DEF Backs
    <3>2. CASE loop' = "cleanup" /\ UNCHANGED <<back, outgoing>>
      BY <3>2 DEF LoopType, Stages
    <3> QED
      BY <1>1, <3>1, <3>2 DEF Start
  <2>2. BudgetType'
    BY <1>1 DEF Start, BudgetType
  <2>3. SourcesType'
    BY <1>1, SourcesKept DEF Start
  <2>4. RingsType' /\ InLine'
    BY <1>1, HandledKeeps, RingsKept DEF Start
  <2> QED
    BY <2>1, <2>2, <2>3, <2>4
<1>2. CASE StartFails \/ LoopWaitFails
  <2>1. LoopType'
    BY <1>2, LoopTypeKept DEF StartFails, LoopWaitFails, Stages
  <2>2. BudgetType'
    BY <1>2 DEF StartFails, LoopWaitFails, BudgetType
  <2>3. SourcesType'
    BY <1>2, SourcesKept DEF StartFails, LoopWaitFails
  <2>4. RingsType' /\ InLine'
    BY <1>2, RingsKept DEF StartFails, LoopWaitFails
  <2> QED
    BY <2>1, <2>2, <2>3, <2>4
<1>3. CASE CleanUp \/ Join \/ CutOff
  <2>1. LoopType'
    BY <1>3, LoopTypeKept DEF CleanUp, Join, CutOff, Stages
  <2>2. BudgetType'
    BY <1>3 DEF CleanUp, Join, CutOff, BudgetType
  <2>3. SourcesType'
    BY <1>3, SourcesKept DEF CleanUp, Join, CutOff
  <2>4. RingsType' /\ InLine'
    BY <1>3, RingsKept DEF CleanUp, Join, CutOff
  <2> QED
    BY <2>1, <2>2, <2>3, <2>4
<1> QED
  BY <1>1, <1>2, <1>3 DEF Main

LEMMA TurnTypeKept ==
    LoopType /\ BudgetType /\ signalled' \subseteq Events /\ UNCHANGED turn
    => LoopType' /\ BudgetType'
BY EventsAre DEF LoopType, BudgetType, turn

LEMMA ControlKeepsRings == RingInv /\ (Control \/ ControlWaitFails) => RingInv'
<1> SUFFICES ASSUME RingInv, Control \/ ControlWaitFails
             PROVE  RingInv'
  OBVIOUS
<1> USE DEF RingInv
<1>1. LoopType' /\ BudgetType'
  <2>1. UNCHANGED turn
    BY DEF Control, ControlWaitFails, Resolve, ControlWait, PopRequest, CheckShutdown,
       Exchange, Deliver, SignalResponse, Finish
  <2>2. signalled' \subseteq Events
    <3>1. signalled \subseteq Events
      BY EventsAre DEF BudgetType
    <3>2. \/ signalled' = signalled \/ signalled' = signalled \ {"request"}
          \/ signalled' = signalled \cup {"shutdown"} \/ signalled' = signalled \cup {"response"}
      BY DEF Control, ControlWaitFails, Resolve, ControlWait, PopRequest, CheckShutdown,
         Exchange, Deliver, SignalResponse, Finish
    <3> QED
      BY <3>1, <3>2, EventsAre
  <2> QED
    BY <2>1, <2>2, TurnTypeKept
<1>2. SourcesType'
  BY SourcesKept DEF Control, ControlWaitFails, Resolve, ControlWait, PopRequest, CheckShutdown,
     Exchange, Deliver, SignalResponse, Finish
<1>a. /\ responses \in Seq(1..MaxRequests) /\ requests \in Seq(1..MaxRequests)
      /\ submitted \in Nat /\ answered \in Nat /\ current \in 0..MaxRequests /\ MaxRequests \in Nat
      /\ Len(responses) \in Nat /\ ResponseCap \in Nat /\ Len(requests) \in Nat /\ RequestCap \in Nat
      /\ Len(requests) <= RequestCap /\ Len(responses) <= ResponseCap
  BY ThreadsAssumption DEF ThreadsAssumption, RingsType
\* The steps that move no request.
<1>3. ASSUME UNCHANGED <<outgoing, incoming, current>>,
             \/ control' \in {"finish", "ended"}
             \/ control' \in {"wait", "pop", "signal"} /\ control \in {"resolving", "wait", "pop", "signal"}
             \/ control' \in {"exchange", "push"} /\ control \in {"check", "exchange"},
             resolved' \in {"pending", "address", "none"}, blind' \in BOOLEAN
      PROVE  RingsType' /\ InLine'
  <2>1. RingsType'
    BY <1>3 DEF RingsType, outgoing, incoming
  <2>2. InLine'
    <3>1. control \in {"finish", "ended"} => control' \in {"finish", "ended"}
      BY <1>3
    <3>2. CASE GivenUp'
      BY <3>2 DEF InLine
    <3>3. CASE ~GivenUp'
      <4>1. ~GivenUp
        BY <3>1, <3>3 DEF GivenUp
      <4>2. /\ requests' = requests /\ submitted' = submitted /\ responses' = responses
            /\ answered' = answered /\ current' = current
        BY <1>3 DEF outgoing, incoming
      <4>3. Line(requests', submitted', responses', answered', current')
        BY <4>1, <4>2 DEF InLine
      <4>4. current' # 0 <=> control' \in {"check", "exchange", "push"}
        BY <1>3, <3>3, <4>1, <4>2 DEF InLine, GivenUp
      <4> QED
        BY <4>3, <4>4 DEF InLine
    <3> QED
      BY <3>2, <3>3
  <2> QED
    BY <2>1, <2>2
<1>r. resolved \in {"pending", "address", "none"} /\ blind \in BOOLEAN
  BY DEF RingsType
<1>4. CASE Resolve
  BY <1>1, <1>2, <1>3, <1>4, <1>r DEF Resolve
<1>5. CASE ControlWait \/ ControlWaitFails
  BY <1>1, <1>2, <1>3, <1>5, <1>r DEF ControlWait, ControlWaitFails, Serve
<1>6. CASE PopRequest
  <2>1. CASE requests = <<>>
    BY <1>1, <1>2, <1>3, <1>6, <1>r, <2>1 DEF PopRequest, Serve
  <2>2. CASE requests # <<>>
    <3>1. /\ control = "pop" /\ control' = "check" /\ requests' = Tail(requests)
          /\ current' = Head(requests) /\ submitted' = submitted /\ resolved' = resolved /\ blind' = blind
          /\ responses' = responses /\ answered' = answered
      BY <1>6, <2>2 DEF PopRequest, Serve, incoming
    <3>2. /\ Tail(requests) \in Seq(1..MaxRequests) /\ Len(Tail(requests)) = Len(requests) - 1
          /\ Head(requests) \in 1..MaxRequests
      BY <1>a, <2>2
    <3>3. RingsType'
      <4>1. Len(requests') <= RequestCap /\ current' \in 0..MaxRequests /\ current' # 0
        BY <1>a, <3>1, <3>2
      <4> QED
        BY <3>1, <3>2, <4>1 DEF RingsType
    <3>4. InLine'
      <4>1. ~GivenUp /\ current = 0
        BY <3>1 DEF InLine, GivenUp
      <4>2. Line(requests, submitted, responses, answered, 0)
        BY <4>1 DEF InLine
      <4>3. Line(requests', submitted', responses', answered', current')
        BY <1>a, <2>2, <3>1, <4>2, LineTaken
      <4>4. current' # 0
        BY <3>1, <3>2
      <4> QED
        BY <3>1, <4>3, <4>4 DEF InLine
    <3> QED
      BY <1>1, <1>2, <3>3, <3>4
  <2> QED
    BY <1>1, <1>2, <2>1, <2>2
<1>7. CASE CheckShutdown
  BY <1>1, <1>2, <1>3, <1>7, <1>r DEF CheckShutdown, TakenForShutdown, Serve
<1>8. CASE Exchange
  BY <1>1, <1>2, <1>3, <1>8, <1>r DEF Exchange, TakenForShutdown, Serve
<1>9. CASE Deliver
  <2>1. CASE control' = "finish"
    BY <1>1, <1>2, <1>3, <1>9, <1>r, <2>1 DEF Deliver, TakenForShutdown, Serve, incoming
  <2>2. CASE control' # "finish"
    <3>1. /\ control = "push" /\ control' = "signal" /\ Len(responses) < ResponseCap
          /\ responses' = Append(responses, current) /\ current' = 0 /\ resolved' = resolved /\ blind' = blind
          /\ requests' = requests /\ submitted' = submitted /\ answered' = answered
      BY <1>9, <2>2 DEF Deliver, TakenForShutdown, Serve, outgoing
    <3>2. /\ ~GivenUp /\ current # 0
      BY <3>1 DEF InLine, GivenUp
    <3>3. RingsType'
      <4>1. current \in 1..MaxRequests
        BY <1>a, <3>2
      <4>2. responses' \in Seq(1..MaxRequests) /\ Len(responses') <= ResponseCap
        BY <1>a, <3>1, <4>1
      <4>3. current' \in 0..MaxRequests
        BY <1>a, <3>1
      <4> QED
        BY <3>1, <4>2, <4>3 DEF RingsType
    <3>4. InLine'
      <4>1. Line(requests, submitted, responses, answered, current)
        BY <3>2 DEF InLine
      <4>2. Line(requests, submitted, Append(responses, current), answered, 0)
        BY <1>a, <3>2, <4>1, LineDelivered
      <4>3. Line(requests', submitted', responses', answered', current')
        BY <3>1, <4>2
      <4> QED
        BY <3>1, <4>3 DEF InLine
    <3> QED
      BY <1>1, <1>2, <3>3, <3>4
  <2> QED
    BY <2>1, <2>2
<1>10. CASE SignalResponse
  BY <1>1, <1>2, <1>3, <1>10, <1>r DEF SignalResponse, Serve
<1>11. CASE Finish
  BY <1>1, <1>2, <1>3, <1>11, <1>r DEF Finish, Serve
<1> QED
  BY <1>1, <1>2, <1>4, <1>5, <1>6, <1>7, <1>8, <1>9, <1>10, <1>11 DEF Control

LEMMA OutsideKeepsRings == RingInv /\ Outside => RingInv'
<1> SUFFICES ASSUME RingInv, Outside
             PROVE  RingInv'
  OBVIOUS
<1> USE DEF RingInv
<1>c. SockCap \in Nat /\ AdapterCap \in Nat /\ ConsoleCap \in Nat /\ MaxLines \in Nat
  BY ThreadsAssumption DEF ThreadsAssumption
<1>1. LoopType' /\ BudgetType'
  <2>1. UNCHANGED turn
    BY DEF Outside, ReadLine, SignalLine, EndOfInput, Datagram, Packet, TimerPasses, Interrupt
  <2>2. signalled' \subseteq Events
    <3>1. signalled \subseteq Events
      BY EventsAre DEF BudgetType
    <3>2. \/ signalled' = signalled
          \/ \E e \in {"console", "udp", "adapter", "shutdown"} : signalled' = signalled \cup {e}
      BY DEF Outside, ReadLine, SignalLine, EndOfInput, Datagram, Packet, TimerPasses, Interrupt
    <3> QED
      BY <3>1, <3>2, EventsAre
  <2> QED
    BY <2>1, <2>2, TurnTypeKept
<1>2. RingsType' /\ InLine'
  BY RingsKept DEF Outside, ReadLine, SignalLine, EndOfInput, Datagram, Packet, TimerPasses, Interrupt
<1>3. SourcesType'
  <2>1. CASE ReadLine
    <3>1. typed' \in 0..MaxLines /\ lines' \in 0..ConsoleCap
      BY <1>c, <2>1 DEF ReadLine, SourcesType
    <3> QED
      BY <2>1, <3>1 DEF ReadLine, SourcesType, udp, adapter
  <2>2. CASE SignalLine
    BY <2>2 DEF SignalLine, SourcesType, udp, adapter
  <2>7. CASE EndOfInput
    <3>1. typed' \in 0..MaxLines
      BY <1>c, <2>7 DEF EndOfInput
    <3> QED
      BY <2>7, <3>1 DEF EndOfInput, SourcesType, udp, adapter
  <2>3. CASE Datagram
    <3>1. sock' \in 0..SockCap
      BY <1>c, <2>3 DEF Datagram, SourcesType
    <3>2. armed' \in BOOLEAN
      BY <2>3 DEF Datagram, SourcesType
    <3> QED
      BY <2>3, <3>1, <3>2 DEF Datagram, SourcesType, adapter, console
  <2>4. CASE Packet
    <3>1. packets' \in 0..AdapterCap
      BY <1>c, <2>4 DEF Packet, SourcesType
    <3> QED
      BY <2>4, <3>1 DEF Packet, SourcesType, udp, console
  <2>5. CASE TimerPasses
    BY <2>5 DEF TimerPasses, SourcesType, udp, adapter, console
  <2>6. CASE Interrupt
    BY <2>6, SourcesKept DEF Interrupt
  <2> QED
    BY <2>1, <2>2, <2>3, <2>4, <2>5, <2>6, <2>7 DEF Outside
<1> QED
  BY <1>1, <1>2, <1>3

LEMMA RingsInvariance == Spec => []RingInv
<1>1. Init => RingInv
  BY InitRing
<1>2. RingInv /\ [Next]_vars => RingInv'
  <2>1. RingInv /\ UNCHANGED vars => RingInv'
    <3> SUFFICES ASSUME RingInv, UNCHANGED vars
                 PROVE  RingInv'
      OBVIOUS
    <3>1. LoopType' /\ BudgetType'
      BY DEF RingInv, LoopType, BudgetType, vars, turn
    <3>2. SourcesType' /\ RingsType' /\ InLine'
      BY SourcesKept, RingsKept DEF RingInv, vars
    <3> QED
      BY <3>1, <3>2 DEF RingInv
  <2> QED
    BY <2>1, TurnKeepsRings, MainKeepsRings, ControlKeepsRings, OutsideKeepsRings DEF Next, Failures
<1> QED
  BY <1>1, <1>2, PTL DEF Spec

(* No ring, queue or budget of the client is exceeded, for any capacities:   *)
(* spsc_ring.hpp, console.cpp, loop.cpp.                                     *)
THEOREM TypesHold == Spec => []TypeOK
BY RingsInvariance, TypesAre, PTL DEF RingInv

(* Until the control thread gives up, the requests submitted and not yet     *)
(* answered are in the rings or in its hands, each once, in the order in     *)
(* which they were submitted, and the last of the responses handled is the   *)
(* one before them: channel.cpp submit, serve, deliver, and loop.cpp         *)
(* drain_control.                                                            *)
THEOREM RequestsStayInOrder == Spec => []RingsInOrder
<1>1. RingInv => RingsInOrder
  BY TypesAre, LineIsOrder DEF RingInv, RingsInOrder
<1> QED
  BY <1>1, RingsInvariance, PTL

-----------------------------------------------------------------------------
(* Slots of places less than a turn apart.                                 *)

\* Division with remainder, for the number of slots.
LEMMA Remainder ==
    ASSUME NEW n \in Nat
    PROVE  /\ Slot(n) \in 0..Capacity
           /\ \E q \in Int : n = Slots * q + Slot(n)
  <1>1. Slots \in Nat /\ Slots > 0 /\ Slots - 1 = Capacity
    BY RingAssumption DEF Slots
  <1>2. n % Slots \in 0..(Slots - 1) /\ n \div Slots \in Int
        /\ n = Slots * (n \div Slots) + (n % Slots)
    BY <1>1
  <1>3. QED
    BY <1>1, <1>2 DEF Slot

\* Different places that fit in the ring together have different slots.
LEMMA OwnSlots ==
    ASSUME NEW m \in Nat, NEW n \in Nat, m < n, n - m <= Capacity
    PROVE  Slot(m) # Slot(n)
  <1>1. Slots \in Nat /\ Slots > 0 /\ Slots - 1 = Capacity
    BY RingAssumption DEF Slots
  <1> SUFFICES ASSUME Slot(m) = Slot(n) PROVE FALSE
    OBVIOUS
  <1>2. PICK a \in Int : m = Slots * a + Slot(m)
    BY Remainder
  <1>3. PICK b \in Int : n = Slots * b + Slot(n)
    BY Remainder
  <1>4. Slot(m) \in Int
    BY Remainder
  <1>5. n - m = Slots * (b - a)
    BY <1>1, <1>2, <1>3, <1>4
  <1>6. PICK k \in Int : k = b - a /\ n - m = Slots * k
    BY <1>5
  <1>7. CASE k > 0
    <2>1. Slots * k >= Slots
      BY <1>1, <1>7
    <2>2. QED
      BY <2>1, <1>1, <1>6
  <1>8. CASE k <= 0
    <2>1. Slots * k <= 0
      BY <1>1, <1>8
    <2>2. QED
      BY <2>1, <1>1, <1>6
  <1>9. QED
    BY <1>7, <1>8

\* The next tail meets a head at most a ring behind exactly when it is full.
LEMMA FullMeans ==
    ASSUME NEW m \in Nat, NEW n \in Nat, m <= n, n <= m + Capacity,
           Slot(n + 1) # Slot(m)
    PROVE  n < m + Capacity
  <1>1. Slots \in Nat /\ Slots > 0 /\ Slots = Capacity + 1 /\ Capacity \in Nat
    BY RingAssumption DEF Slots
  <1> SUFFICES ASSUME n = m + Capacity PROVE FALSE
    BY <1>1
  <1>2. n + 1 = m + Slots
    BY <1>1
  <1>3. (m + Slots) % Slots = m % Slots
    <2>1. /\ m % Slots \in 0..(Slots - 1) /\ m \div Slots \in Int
          /\ m = Slots * (m \div Slots) + (m % Slots)
      BY <1>1
    <2>2. /\ (m + Slots) % Slots \in 0..(Slots - 1) /\ (m + Slots) \div Slots \in Int
          /\ m + Slots = Slots * ((m + Slots) \div Slots) + ((m + Slots) % Slots)
      BY <1>1
    <2>3. PICK r \in Int, q \in Int, s \in Int, p \in Int :
             /\ r = m % Slots /\ q = m \div Slots
             /\ s = (m + Slots) % Slots /\ p = (m + Slots) \div Slots
      BY <2>1, <2>2, <1>1
    <2>4. s - r = Slots * (q + 1 - p)
      BY <2>1, <2>2, <2>3, <1>1
    <2>5. PICK k \in Int : k = q + 1 - p /\ s - r = Slots * k
      BY <2>4
    <2>6. k = 0
      <3>1. -Slots < Slots * k /\ Slots * k < Slots
        BY <2>1, <2>2, <2>3, <2>5, <1>1
      <3>2. CASE k > 0
        <4>1. Slots * k >= Slots
          BY <1>1, <3>2
        <4>2. QED
          BY <4>1, <3>1, <1>1
      <3>3. CASE k < 0
        <4>1. Slots * k <= -Slots
          BY <1>1, <3>3
        <4>2. QED
          BY <4>1, <3>1, <1>1
      <3>4. QED
        BY <3>2, <3>3
    <2>7. QED
      BY <2>3, <2>5, <2>6, <1>1
  <1>4. QED
    BY <1>2, <1>3 DEF Slot

-----------------------------------------------------------------------------
(* The inductive invariant: what each thread has seen still allows what it *)
(* is doing, and an item written and not yet published is in its slot.     *)

Underway ==
    /\ pushing # "idle" => put < seenTaken + Capacity /\ item \in Items
    /\ pushing = "publish" => slots[Slot(put)] = item
    /\ popping # "idle" => taken < seenPut

SlotsInv == RingTypeOK /\ Underway

LEMMA SlotsInitInv == RingInit => SlotsInv
  BY RingAssumption DEF RingInit, SlotsInv, RingTypeOK, Underway

LEMMA SlotsNextInv == SlotsInv /\ [RingNext]_ringVars => SlotsInv'
  <1> SUFFICES ASSUME SlotsInv, [RingNext]_ringVars PROVE SlotsInv'
    OBVIOUS
  <1> USE RingAssumption
  <1>1. ASSUME NEW v \in Items, PushBegin(v) PROVE SlotsInv'
    <2>1. PICK head \in seenTaken..taken :
             /\ seenTaken' = head
             /\ IF Slot(put + 1) = Slot(head) THEN UNCHANGED <<pushing, item>>
                ELSE pushing' = "write" /\ item' = v
      BY <1>1 DEF PushBegin
    <2>2. head \in 0..taken /\ put \in Nat /\ head <= put /\ put <= head + Capacity
      BY <2>1 DEF SlotsInv, RingTypeOK
    <2>3. pushing' = "write" /\ Slot(put + 1) # Slot(head) => put < head + Capacity
      BY <2>2, FullMeans
    <2>4. UNCHANGED <<slots, put, taken, popping, seenPut, out>> /\ pushing = "idle"
      BY <1>1 DEF PushBegin, consumer
    <2>5. QED
      BY <2>1, <2>2, <2>3, <2>4 DEF SlotsInv, RingTypeOK, Underway, Slot
  <1>2. CASE PushWrite
    <2>1. Slot(put) \in 0..Capacity
      BY Remainder DEF SlotsInv, RingTypeOK
    <2>2. QED
      BY <1>2, <2>1 DEF PushWrite, SlotsInv, RingTypeOK, Underway, consumer, Slot
  <1>3. CASE PushPublish
    BY <1>3 DEF PushPublish, SlotsInv, RingTypeOK, Underway, consumer
  <1>4. CASE PopBegin
    <2>1. PICK tail \in seenPut..put :
             /\ seenPut' = tail
             /\ popping' = IF Slot(taken) = Slot(tail) THEN "idle" ELSE "move"
      BY <1>4 DEF PopBegin
    <2>2. tail \in taken..put /\ (popping' # "idle" => taken # tail)
      BY <2>1 DEF SlotsInv, RingTypeOK
    <2>3. UNCHANGED <<slots, put, taken, pushing, item, seenTaken, out>>
      BY <1>4 DEF PopBegin, producer
    <2>4. QED
      BY <2>1, <2>2, <2>3 DEF SlotsInv, RingTypeOK, Underway, Slot
  <1>5. CASE PopMove
    <2>1. Slot(taken) \in 0..Capacity /\ Slot(put) \in 0..Capacity
      BY Remainder DEF SlotsInv, RingTypeOK
    <2>2. pushing = "publish" => Slot(taken) # Slot(put)
      BY <1>5, OwnSlots DEF PopMove, SlotsInv, RingTypeOK, Underway
    <2>3. QED
      BY <1>5, <2>1, <2>2 DEF PopMove, SlotsInv, RingTypeOK, Underway, producer, Slot
  <1>6. CASE PopRelease
    BY <1>6 DEF PopRelease, SlotsInv, RingTypeOK, Underway, producer
  <1>7. CASE UNCHANGED ringVars
    BY <1>7 DEF SlotsInv, RingTypeOK, Underway, ringVars, producer, consumer, Slot
  <1>8. QED
    BY <1>1, <1>2, <1>3, <1>4, <1>5, <1>6, <1>7 DEF RingNext

LEMMA SlotsInvImplies == SlotsInv => RingTypeOK /\ NoSharedSlot
  <1> SUFFICES ASSUME SlotsInv PROVE NoSharedSlot
    BY DEF SlotsInv
  <1>1. pushing = "write" /\ popping = "move" => Slot(put) # Slot(taken)
    BY OwnSlots, RingAssumption DEF SlotsInv, RingTypeOK, Underway
  <1>2. QED
    BY <1>1 DEF SlotsInv, RingTypeOK, Underway, NoSharedSlot

\* The indices and what the threads have seen of them stay in step, and no
\* more than Capacity items wait.
THEOREM RingTypeCorrect == RingSpec => []RingTypeOK
  BY SlotsInitInv, SlotsNextInv, SlotsInvImplies, PTL DEF RingSpec

\* No slot is written by the producer while the consumer reads it, for every
\* capacity and every staleness of the loads (spsc_ring.hpp).
THEOREM SlotsNeverShared == RingSpec => []NoSharedSlot
  BY SlotsInitInv, SlotsNextInv, SlotsInvImplies, PTL DEF RingSpec

-----------------------------------------------------------------------------
(* The ring implements BoundedQueue.                                       *)

\* The places between the head and the tail, and their slots.
QueueOK ==
    /\ First \in Nat /\ First <= put /\ put - First <= Capacity
    /\ Waiting \in Seq(Items \cup {Nothing})
    /\ Len(Waiting) = put - First
    /\ \A k \in 1..(put - First) : Waiting[k] = slots[Slot(First + k - 1)]

LEMMA WaitingFacts == SlotsInv => QueueOK
  <1> SUFFICES ASSUME SlotsInv PROVE QueueOK
    OBVIOUS
  <1>1. First \in Nat /\ First <= put /\ put - First <= Capacity
    BY RingAssumption DEF SlotsInv, RingTypeOK, Underway, First
  <1>2. put \in Nat /\ put - First \in Nat
    BY <1>1 DEF SlotsInv, RingTypeOK
  <1>3. ASSUME NEW k \in 1..(put - First)
        PROVE  /\ First + k - 1 \in Nat
               /\ slots[Slot(First + k - 1)] \in Items \cup {Nothing}
    <2>1. First + k - 1 \in Nat
      BY <1>1, <1>2
    <2>2. Slot(First + k - 1) \in 0..Capacity
      BY <2>1, Remainder
    <2>3. QED
      BY <2>1, <2>2 DEF SlotsInv, RingTypeOK
  <1>4. Waiting \in [1..(put - First) -> Items \cup {Nothing}]
    BY <1>3 DEF Waiting
  <1>5. PICK n \in Nat : n = put - First
    BY <1>2
  <1>6. Waiting \in Seq(Items \cup {Nothing}) /\ Len(Waiting) = n
    <2> DEFINE S == Items \cup {Nothing}
    <2>1. Waiting \in [1..n -> S]
      BY <1>4, <1>5
    <2> HIDE DEF S
    <2>2. Waiting \in Seq(S) /\ Len(Waiting) = n
      BY <2>1, <1>5
    <2>3. QED
      BY <2>2 DEF S
  <1>7. \A k \in 1..(put - First) : Waiting[k] = slots[Slot(First + k - 1)]
    BY DEF Waiting
  <1>8. QED
    BY <1>1, <1>5, <1>6, <1>7 DEF QueueOK

LEMMA WaitingFactsNext == SlotsInv' => QueueOK'
  BY WaitingFacts, PTL

\* The queue is where RingInit leaves it.
LEMMA RingInitRefines == RingInit => BQ!Init
  <1> SUFFICES ASSUME RingInit PROVE BQ!Init
    OBVIOUS
  <1>1. put - First = 0 /\ out = Nothing
    BY DEF RingInit, First
  <1>2. Waiting = <<>>
    BY <1>1, SlotsInitInv, WaitingFacts DEF QueueOK
  <1>3. QED
    BY <1>1, <1>2 DEF BQ!Init

\* Two rings with the same places waiting and the same slots under them hold
\* the same queue.
LEMMA SameQueue ==
    ASSUME SlotsInv, SlotsInv', put' = put, First' = First,
           \A n \in Nat : First <= n /\ n < put => slots'[Slot(n)] = slots[Slot(n)]
    PROVE  Waiting' = Waiting
  <1>1. ASSUME NEW k \in 1..(put - First)
        PROVE  slots'[Slot(First + k - 1)] = slots[Slot(First + k - 1)]
    <2>1. First + k - 1 \in Nat /\ First <= First + k - 1 /\ First + k - 1 < put
      BY WaitingFacts DEF QueueOK, SlotsInv, RingTypeOK
    <2>2. QED
      BY <2>1
  <1>2. QED
    BY <1>1 DEF Waiting, Slot

\* What one thread does to its own side leaves the queue as it is.
LEMMA PushWriteStep == SlotsInv /\ SlotsInv' /\ PushWrite => UNCHANGED <<Waiting, out>>
  <1> SUFFICES ASSUME SlotsInv, SlotsInv', PushWrite PROVE UNCHANGED <<Waiting, out>>
    OBVIOUS
  <1>1. put' = put /\ First' = First /\ out' = out
    BY DEF PushWrite, consumer, First
  <1>2. ASSUME NEW n \in Nat, First <= n, n < put
        PROVE  slots'[Slot(n)] = slots[Slot(n)]
    <2>1. put \in Nat /\ First \in Nat /\ put - n <= Capacity
      BY <1>2, WaitingFacts, RingAssumption DEF QueueOK, SlotsInv, RingTypeOK
    <2>2. Slot(n) # Slot(put)
      BY <2>1, <1>2, OwnSlots
    <2>3. QED
      BY <2>2, Remainder DEF PushWrite, SlotsInv, RingTypeOK
  <1>3. QED
    BY <1>1, <1>2, SameQueue

\* Publishing an item puts it at the end of the queue.
LEMMA PushPublishStep == SlotsInv /\ SlotsInv' /\ PushPublish => BQ!Put
  <1> SUFFICES ASSUME SlotsInv, SlotsInv', PushPublish PROVE BQ!Put
    OBVIOUS
  <1> DEFINE S == Items \cup {Nothing}
  <1>1. /\ put' = put + 1 /\ First' = First /\ out' = out /\ slots' = slots
        /\ slots[Slot(put)] = item /\ item \in Items
    BY DEF PushPublish, consumer, First, SlotsInv, Underway
  <1>2. PICK n \in Nat : n = put - First
    BY WaitingFacts DEF QueueOK, SlotsInv, RingTypeOK
  <1>3. put - First < Capacity
    BY RingAssumption DEF First, PushPublish, SlotsInv, RingTypeOK, Underway
  <1>4. /\ Waiting \in Seq(S) /\ Len(Waiting) = n
        /\ Waiting' \in Seq(S) /\ Len(Waiting') = n + 1
    BY <1>1, <1>2, WaitingFacts, WaitingFactsNext DEF QueueOK, SlotsInv, RingTypeOK
  <1>5. \A k \in 1..n : Waiting'[k] = Waiting[k]
    <2>1. \A k \in 1..n : Waiting[k] = slots[Slot(First + k - 1)]
      BY <1>2 DEF Waiting
    <2>2. \A k \in 1..(n + 1) : Waiting'[k] = slots[Slot(First + k - 1)]
      BY <1>1, <1>2, WaitingFacts DEF Waiting, Slot, QueueOK, SlotsInv, RingTypeOK
    <2>3. QED
      BY <2>1, <2>2
  <1>6. Waiting'[n + 1] = item
    <2>1. Waiting'[n + 1] = slots[Slot(First + (n + 1) - 1)]
      BY <1>1, <1>2, WaitingFacts DEF Waiting, Slot, QueueOK, SlotsInv, RingTypeOK
    <2>2. First + (n + 1) - 1 = put
      BY <1>2, WaitingFacts DEF QueueOK, SlotsInv, RingTypeOK
    <2>3. QED
      BY <2>1, <2>2, <1>1
  <1>7. Waiting' = Append(Waiting, item)
    <2> HIDE DEF S
    <2>1. item \in S
      BY <1>1 DEF S
    <2>2. Append(Waiting, item) \in Seq(S) /\ Len(Append(Waiting, item)) = n + 1
      BY <1>4, <2>1
    <2>3. \A k \in 1..(n + 1) : Append(Waiting, item)[k] = Waiting'[k]
      BY <1>4, <1>5, <1>6, <2>1
    <2>4. QED
      BY <1>4, <2>2, <2>3
  <1>8. QED
    BY <1>1, <1>2, <1>3, <1>4, <1>7 DEF BQ!Put

\* Moving an item out takes the head of the queue.
LEMMA PopMoveStep == SlotsInv /\ SlotsInv' /\ PopMove => BQ!Get
  <1> SUFFICES ASSUME SlotsInv, SlotsInv', PopMove PROVE BQ!Get
    OBVIOUS
  <1> DEFINE S == Items \cup {Nothing}
  <1>1. /\ put' = put /\ First = taken /\ First' = taken + 1
        /\ out' = slots[Slot(taken)] /\ taken \in Nat /\ put \in Nat /\ taken < put
    BY DEF PopMove, producer, First, SlotsInv, RingTypeOK, Underway
  <1>2. PICK n \in Nat : n = put - taken /\ n > 0
    BY <1>1
  <1>3. /\ Waiting \in Seq(S) /\ Len(Waiting) = n
        /\ Waiting' \in Seq(S) /\ Len(Waiting') = n - 1
    BY <1>1, <1>2, WaitingFacts, WaitingFactsNext DEF QueueOK
  <1>4. out' = Head(Waiting)
    <2>1. Waiting[1] = slots[Slot(First + 1 - 1)]
      BY <1>1, <1>2 DEF Waiting
    <2>2. First + 1 - 1 = taken
      BY <1>1
    <2>3. Head(Waiting) = Waiting[1]
      BY <1>3
    <2>4. QED
      BY <2>1, <2>2, <2>3, <1>1
  <1>5. ASSUME NEW k \in 1..(n - 1)
        PROVE  Waiting'[k] = Waiting[k + 1]
    <2>1. Waiting[k + 1] = slots[Slot(taken + (k + 1) - 1)]
      BY <1>1, <1>2, k + 1 \in 1..(put - First) DEF Waiting
    <2>2. Waiting'[k] = slots'[Slot((taken + 1) + k - 1)]
      BY <1>1, <1>2 DEF Waiting, Slot
    <2>3. taken + (k + 1) - 1 = taken + k /\ (taken + 1) + k - 1 = taken + k
      BY <1>1
    <2>4. k <= Capacity
      BY <1>1, <1>2, WaitingFacts, RingAssumption DEF QueueOK
    <2>5. Slot(taken) # Slot(taken + k)
      BY <1>1, <2>4, OwnSlots
    <2>6. slots'[Slot(taken + k)] = slots[Slot(taken + k)]
      BY <1>1, <2>5, Remainder DEF PopMove, SlotsInv, RingTypeOK
    <2>7. QED
      BY <2>1, <2>2, <2>3, <2>6
  <1>6. Waiting' = Tail(Waiting)
    <2> HIDE DEF S
    <2>1. Tail(Waiting) \in Seq(S) /\ Len(Tail(Waiting)) = n - 1
          /\ \A k \in 1..(n - 1) : Tail(Waiting)[k] = Waiting[k + 1]
      BY <1>2, <1>3
    <2>2. QED
      BY <1>3, <1>5, <2>1
  <1>7. QED
    BY <1>2, <1>3, <1>4, <1>6 DEF BQ!Get

LEMMA RingNextRefines ==
    SlotsInv /\ SlotsInv' /\ [RingNext]_ringVars => [BQ!Next]_<<Waiting, out>>
  <1> SUFFICES ASSUME SlotsInv, SlotsInv', [RingNext]_ringVars PROVE [BQ!Next]_<<Waiting, out>>
    OBVIOUS
  <1>1. CASE \/ \E v \in Items : PushBegin(v)
             \/ PopBegin \/ PopRelease \/ UNCHANGED ringVars
    <2>1. slots' = slots /\ put' = put /\ out' = out /\ First' = First
      BY <1>1 DEF PushBegin, PopBegin, PopRelease, ringVars, consumer, producer, First
    <2>2. Waiting' = Waiting
      BY <2>1, SameQueue
    <2>3. QED
      BY <2>1, <2>2
  <1>2. CASE PushWrite
    BY <1>2, PushWriteStep
  <1>3. CASE PushPublish
    BY <1>3, PushPublishStep DEF BQ!Next
  <1>4. CASE PopMove
    BY <1>4, PopMoveStep DEF BQ!Next
  <1>5. QED
    BY <1>1, <1>2, <1>3, <1>4 DEF RingNext

\* The ring is a bounded queue: for every capacity, whatever stale index its
\* threads load, what it accepts comes out once, in order (spsc_ring.hpp).
THEOREM ImplementsQueue == RingSpec => IsBoundedQueue
  <1>1. SlotsInv /\ [RingNext]_ringVars => SlotsInv'
    BY SlotsNextInv
  <1>2. RingSpec => []SlotsInv
    BY SlotsInitInv, SlotsNextInv, PTL DEF RingSpec
  <1>3. QED
    BY RingInitRefines, RingNextRefines, SlotsNextInv, <1>2, PTL DEF RingSpec, IsBoundedQueue, BQ!Spec
=============================================================================
