# Sangtachi: specifications and proofs

Sangtachi is a small virtual LAN for games. Up to five Windows machines share a
room: one is the host, the others are participants, and each participant has a
plain UDP tunnel to the host only. A Python control server hands out
rooms, addresses and candidate lists, and is not on the data path. This directory
holds TLA+ models of the parts whose correctness depends on order, overlap,
failure or arithmetic at a boundary, the TLC runs that check them, and TLAPS
proofs for every size of the constants.

Paths below are relative to the repository: `controlplane/` is
`control-server/controlplane/`, `client/` is `client/src` and `client/include`.

## 1. The system

| Part | State it keeps | Operations | Talks to | Modelled in |
|---|---|---|---|---|
| Operations and store (`ops.py`, `store.py`) | items ROOM, PEER#, VIP#, NAME#, PAIR#, NONCE# in one DynamoDB table | create_room, join_room, register_candidate, get_peers, host_report | server threads; DynamoDB | `ControlPlane` |
| Admission (`server.py`) | token bucket per source address, counts of connections being answered and refused | accept, admit, refuse, finish | one asyncio loop, a pool of dispatch threads | not modelled |
| Ids, clock, candidates (`ids.py`, `clock.py`, `candidates.py`) | none | draw ids, normalise codes and names, sanitise candidate lists | operations | as draws and choices |
| Event loop (`loop.cpp`) | busy flag, events, shutdown event | one turn: wait, drain UDP, adapter, console, control; timers; work | every client part, on one thread | `ClientThreads` |
| Control thread (`control/channel.cpp`, `spsc_ring.hpp`) | two rings, four events | submit, serve, deliver, join_for | the loop on one side, TCP on the other | `ClientThreads`, `SpscRing` |
| Exchange (`control/exchange.cpp`, `http.cpp`, `win32/tcp.cpp`) | the bytes received, the deadline of the stage | resolve, connect, send, receive, frame | control thread, a server | `ControlExchange` |
| Lobby (`control/lobby.cpp`) | stage of the attempt, pairs, departed peers, the one outstanding request, armed timers | commands, replies, timers, session events | runner | `Lobby` |
| Runner (`control/runner.cpp`) | a queue of actions, a queue of session events, tracks | execute, deliver, flush | loop timers, channel, STUN, tunnel, adapter | `ControlRunner` |
| Timer set (`timer.cpp`) | named timers in order | add, cancel, run_expired | loop, every owner of a timer | `TimerSet` |
| STUN (`network/stun_client.cpp`, `stun.cpp`) | two slots, mappings, answered transactions | start, datagram, retry, deadline | loop timers, servers | `StunDiscovery`, `StunMessage` |
| Session (`peer/session.cpp`, `epoch.cpp`) | evidence, pinned epoch, endpoint, timers, probes, retired epochs | every message type, every timer, close | the peer's session over UDP | `Session` |
| Numbering and receive window (`tunnel/replay.cpp`, `session.cpp`) | newest number, 64-bit mask, loss counters | check, commit, reset, renegotiate | session | `PacketNumbering` |
| Tunnel and router (`tunnel/tunnel.cpp`, `router.cpp`) | sessions, ended ones, slots, nonces given up | create, end, retain, leave, turn of the timers | loop, sessions, adapter | `Tunnel` |
| Packets (`tunnel/packet.cpp`) | none | build, check, encode and decode ROSTER | session, roster | `PacketFormat` |
| Roster (`tunnel/roster_publisher.cpp`) | generation, members, resends | notice, refresh, run | tunnel | `Tunnel` |
| Data sender (`tunnel/data_sender.cpp`) | one job, the echoes that wait | command, enqueue, pump | loop, tunnel | `Tunnel` |
| Adapter (`platform/win32/tun.cpp`) | address, route, Wintun session | open, assign, clear, restart, close | Windows | `ClientProcess`; its ring in `ClientThreads` |
| Start-up and shutdown (`main.cpp`, `console_ctrl.cpp`) | what is constructed, exit code | start, run, stop | everything | `ClientProcess`; its threads in `ClientThreads` |
| JSON and messages (`json.cpp`, `ops.cpp`), arguments, log, counters, record files | none that others depend on | parse, print | lobby, main | not modelled |

Request threads of the control server share nothing but the table. A request is a
few reads followed by conditional writes; each store call is atomic, nothing
between two calls is. The client has three threads: `[loop]` owns all tunnel and
lobby state, `[control]` does one TCP exchange at a time, `[console]` reads lines.
They meet only in single-producer rings and operating-system events.

What is hard, and what makes each part correct:

* **Operations and store.** Requests for one room interleave at every store call;
  a report acts on a Query that may be stale; any call may fail; clients repeat
  requests. The four items of a seat never part, the host is never removed, a
  pair is ready only between registered peers, one nonce leads to one seat, a
  registered peer leaves only by its host's word, every request ends.
* **Threads.** No request or answer is lost between a ring and an auto-reset
  event; a flood of datagrams starves neither timers nor shutdown; the process ends
  once it is asked to, whatever the control thread does.
* **Exchange.** A server may cut its answer anywhere and send at any pace: the
  verdict depends on the bytes alone, and deadlines and shutdown hold.
* **Lobby and runner.** One outstanding request; a late answer of an abandoned
  attempt acts on nothing; an event that arises while actions are executed is
  handled after them; every attempt gets somewhere and leaves one record.
* **Timers and STUN.** A callback cancels the timer that fires, or starts over
  with timers of the same names, while the round goes on.
* **Session.** Attempts of both sides overlap, packets are lost, late and
  repeated and come from unknown addresses: evidence belongs to the pinned
  attempt, a retired epoch is never pinned, a session always has a deadline.
* **Numbering.** Nothing is accepted twice, nothing new in the window is refused,
  across the wrap; loss figures survive renegotiation.
* **Tunnel and roster.** A slot never leads to an ended session, no nonce comes
  back, a guest ends with the newest roster and never goes back to an older one.
* **Process.** Start-up may stop at any stage, deletions may fail, the process may
  die: no address is forgotten, and everything is released before the clean-up
  is signalled.

## 2. Plan

| Step | Modules | State |
|---|---|---|
| 1. The table and its requests | `RoomMembership` (abstract), `ControlPlane`, `MCControlPlane`, `ControlPlaneProofs` | done, proved |
| 2. Numbering of packets | `ReplayWindow`, `SlidingWindow` (abstract), `PacketNumbering`, `MCPacketNumbering`, `PacketNumberingProofs` | done, proved |
| 3. Threads of the client | `ClientThreads`, `ClientThreadsProofs`; `BoundedQueue` (abstract), `SpscRing` | done, proved |
| 4. Handshake | `Session`, `SessionProofs` | done, proved |
| 5. Tunnel, roster, data sender | `PacketFormat`, `Tunnel`, `TunnelProofs` | done, proved |
| 6. Lobby and runner | `Lobby`, `ControlRunner`, `ControlRunnerInvariant`, `ControlRunnerProofs` | done, proved |
| 7. HTTP exchange | `ControlExchange`, `ControlExchangeProofs` | done, proved |
| 8. Timers and STUN | `TimerSet`, `StunMessage`, `StunDiscovery` | done |
| 9. Process and adapter | `ClientProcess`, `ClientProcessProofs` | done, proved |
| 10. Further proofs | `QueriesAgree` of `StunDiscovery`, over its `TimerSet` | left |
| 11. Further models | admission of the control server, the JSON reader | left |

## 3. The modules

Names follow the source. An operator whose name begins with `Faulty`, `Deaf` or
`Forgetful` is the definition after it with one plausible mistake. No action uses
it; replacing the definition by it makes a property fail, which shows that the
property watches that code.

A run's properties are often conjunctions of named parts, each a property of its
own with its comment; a component's type invariant is one of those parts. Where
this text names a conjunction, the parts are in parentheses.

### RoomMembership and ControlPlane

`ControlPlane` has one variable per kind of item (`room`, `peer`, `vip`, `name`,
`pair`, `nonce`), the clock, and one record per request thread (`req[s]`) that
holds what the request has read so far and where it stands. Every store call is
one action. `CreateArrives` to `ReportArrives` are the arrival of a request with
any arguments, repeated nonces and stale ids among them; `ReadNonce`, `ReadRoom`,
`CreateRoom`, `ClaimSeat`, `RereadNonce`, `RereadRoom` and `Replay` are
`create_room` and `join_room`; `QueryRoom` is the first Query of the other three;
`RegisterCandidates` is the conditional update; `ReleaseDeparted`, `ReclaimPeers`,
`ConfirmPairs`, `RenewRoom` and `Respond` are the report. Between two actions of
one request any action of another may come. `Fail` ends a request at any point: a
store error, a timeout, or the death of the process between two calls.

`RoomMembership` says what all this is for: seats with distinct addresses, names
and nonces, ready pairs, leases. It knows no items, no requests and no retries.

Properties: `ItemsAgree` (addresses, names, nonces), `RoomsStand` (`HostSeated`,
`PairsRegistered`), `AnswersAgree` (`OneSeatPerNonce`, `ReportAnswersAgree`),
`SeatSteps` (`MembershipSteps`, `RegisteredLeavesByHost`), `ImplementsMembership`,
`EveryRequestAnswered`.

* Ids are drawn inside the transaction that stores them. An id that was used and
  given up is not drawn again (`Drawable`); ids have 32 random bits in the code.
* A token is a flag that says whether the request carries the right one.
* A Query is one atomic read. In the code it may span pages, but a room has at
  most fourteen items and fits in one.
* Items of a report's list are handled in any order; the code's order is one.
* Damaged items and the clock fields of `PAIR#` are left out. The table's TTL
  deletes a room a day after its lease, long after every request for it.

### ReplayWindow, SlidingWindow and PacketNumbering

`ReplayWindow` holds `check`, `commit`, `accept` and `reset` as operators over
`[initialized, highest, position, seen]`, with numbers modulo `2 * Half` and a set
of `Window` distances for the 64-bit mask. `PacketNumbering` runs them where the
code does, in `Session::receive`: the peer sends packets whose numbers wrap
(`Send`), the network delivers any of them any number of times in any order
(`Receive`), the session counts what its loss figures need (`Counted`, `Loss`) and
renegotiates when the peer comes with a new epoch (`Renegotiate`). `SlidingWindow`
is the abstract promise: each packet of the current attempt is taken at most once,
never below the window, never from a retired attempt.

Properties: `VerdictsTellTheTruth`, `FiguresAreTrue` (`LossIsTheGaps`,
`NeverBelowZero`), `NothingTwiceNothingForgotten` (the refinement `Sliding`, and
`LossNeverFalls`).

A packet may be at most half the circle away from the newest one taken
(`InReach`): with 32-bit numbers that is two thousand million packets, and further
apart the numbers cannot tell old from new. The position is unwrapped to 64 bits
in the code and a natural number here. Retired epochs are kept for good here; the
table's cap and lifetime are in `Session`. That renegotiations are a second apart
is left out, their number (8) is not. `RunLength` bounds what each attempt sends.

### ClientThreads

One action is one step of one of three threads between two points where another
can see it.

* `loop` walks through start-up, `wait` (`Wake`, `LoopWaitFails`), `enumerate`
  (`WSAEnumNetworkEvents`), the drains (`RecvUdp`, `ReadAdapter`, `HandleLine`,
  `HandleResponse` and what ends them), `timers`, and shutdown (`CleanUp`, `Join`,
  `CutOff`). `left` is the budget of the drain it is in, `busy` is `busy_`.
* `control` walks through resolving, waiting, popping, checking for shutdown,
  exchanging, pushing and signalling, as `ControlChannel::run` and `serve` do.
  Every wait of both threads can fail; fairness never makes one do so. Where the loop or
  `serve` waits, a failure signals the shutdown event (`LoopWaitFails`,
  `ControlWaitFails`). Where the control thread looks at the shutdown event on its way, before an
  exchange, in one, or for room in a full ring of responses, a failure is taken for
  shutdown and ends the thread without signalling it (`TakenForShutdown`); `blind` remembers
  that, `EveryRequestAnswered` claims nothing after it, and section 7 has what the
  documents say of it.
* `reader` is the console reader, which nobody joins. After the end of its input it
  reads no more, as if the lines had run out (`EndOfInput`).
* `signalled` is the set of events that are set. A wait takes the set event of the
  lowest rank and resets that one, unless it is a manual one.

Handling an item either submits a request or does not (`Handled`); submitting is
two steps, the push and the signal, because the other thread may run in between.
This is more than the lobby does, which keeps one request outstanding, and it is
what the channel itself promises. The rings of requests and responses have one
capacity in the code; here `RequestCap` and `ResponseCap` are chosen apart. A broken
adapter ring is replaced, or the loop goes to shutdown (`AdapterBreaks`). When the
replacement fails the code also leaves a null handle in the next wait, which
fails: the same cleanup, so it is not told apart. A read that fails without
breaking the ring leaves packets unannounced until the next one arrives; `unread`
records this, and the wake-up property excepts it, for the code accepts it.

Properties: `EveryWakeUpHeard` (`NoLostWakeUp`, `ControlNoLostWakeUp`),
`RingsInOrder` (types, `AnsweredInOrder`), `TimersRun`,
`EveryRequestAnswered`, `StopsWhenAsked`.

External behaviour, known only from how the code uses it: FD_READ is posted with
the first datagram and again by a receive call that leaves data (`Rearm`); the
driver sets the adapter's event with each packet (`Packet`); datagrams, packets
and deadlines come whenever they like.

### SpscRing and BoundedQueue

`try_push` and `try_pop`, split at their accesses to shared memory: load of the
other side's index, use of the slot, store of the own index. The indices are kept
as counts, and the slot is the count modulo `Capacity + 1`, which is what the code
stores. An acquire load may return any value stored since the one it returned
last. `BoundedQueue` is a sequence with `Put` and `Get`. `ConsoleQueue` is the same
design, written before the template.

### Session

Two sides, `"a"` and `"b"`, each with the session object it has with the other, the
table of epochs it has given up, and the set of packets ever sent, any of which
may arrive, again and late. An attempt is a number that stands for its epoch and
its nonce. One action per message type (`ReceiveHello`, `Renegotiate`,
`ReceiveAck`, `ProbeAnswered`, `ReceiveTraffic`, `ReceiveClose`), per deadline
(`PunchDeadline`, `IdleDeadline`), for the repeats of `poll` (`Repeat`), for the
user (`CreateSession`, `StartPunch`, `CloseByUser`) and for the clock as a session
sees it (`Age` of a probe, `Cool`, the second after a renegotiation, `Refill` of
the budget for addresses that are not verified, `Lapse` of a retired epoch).

A packet shows the announced address, one a NAT gave (`Mapped`) or one at which
nobody listens (`Stray`). Whether it moved the receive window, and whether an
answer could be sent, are choices. A source that is not verified may be probed
with a nonce of its own, and is learned only when the echo comes from it.

Properties: `EpochsAgree` (types, `EvidenceOfPinnedAttempt`,
`ConnectedIsAnswered`, `PinnedIsNotRetired`), `DeadlineArmed`, `EndpointListens`,
`HandshakeCompletes`; and `RetryIsHeard`, which does not hold (section 7).

The table of outstanding PINGs with its round-trip times and the counters are left
out. `Lapse` assumes what the two minutes of the code are for: no packet of an
epoch is under way when its entry goes. The cap evicts without that assumption.

### PacketFormat and Tunnel

`PacketFormat` has the checks every datagram passes (`CheckCommon`) and ROSTER, the
one payload that is a list (`EncodeRoster`, `Structure`, `DecodeRoster`). A payload is
a sequence of cells, one per field and one per byte of a name. `Damaged` is what
the network may make of a packet: cut, lengthened, a field changed.

`Tunnel` is a host's. `sess`, `kept`, `route` and `given` are the table of sessions, the
order of the ended ones, the slots and the nonces given up. `CreateSession`,
`CreateFails`, `Connects`, `Renegotiates`, `PeerCloses`, `RunTimers`, `CloseAll` and
`LeaveRoom` are the handlers with everything they call: an end empties the slot,
keeps the session, enforces the cap and tells the publisher. `roster` is the
publisher; `Run` is its part of a turn, after the deadlines. `RosterArrives` is the
guest's side, over links that lose, repeat and damage: `net` holds every sheet sent to a guest,
and any of them may come late, again, damaged or not at all. `onWay` are the guests a copy of the
roster in force is on its way to right now; `Lose` loses it, and only another send
(`Run`, at a resend or at the period) puts one there again. A host's session is
renegotiated because its guest runs a new session, which has taken no ROSTER yet:
`Renegotiates` empties what that guest has `seen`, while what was sent to it before
may still arrive, for the host keeps its epoch.

`SendCommand` and `Pump` are the send command with its budget per turn. `Enqueue` is an
echo that data of a peer asked for, in the test build without an adapter; `Pump` serves
the echoes that wait first, out of the same budget, so that a turn may have nothing
left for the job. In the product build no echo is ever asked for (`MaxEchoes` 0).

Properties: `SessionsSound` (types, `RoutesAreLive`, `KeptWithinCap`,
`NonceNotReused`), `RosterSound` (`PacketsReadRight`, `PublishedIsCurrent`,
`OneContentPerGeneration`, `SeenWasSent`), `GuestNeverGoesBack`, `RosterReachesGuest`, `SendCommandEnds`.

A session is open, connected or ended here; what happens inside is `Session`.
Random nonces of two live sessions never coincide. A send command and a published
roster do not overlap in the model, nor do echoes and a roster; they share nothing but the sessions. What an
inner IPv4 packet holds is left out.

### Lobby and ControlRunner

The lobby of the code is a state machine without effects: an event gives a new
state and a list of actions. `Lobby` keeps that shape; its operators take a batch,
the state with the actions pushed so far, and return a batch. `ControlRunner` has the
runner's queue of actions and queue of session events, and executes one action
per step (`ExecSubmit`, `ExecStun`, `ExecTimer`, `ExecOpen`, `ExecLeave`, `ExecRoom`,
`ExecRecord`, `Deliver`). An action that fails where it is executed (a request that
cannot be queued, a session that cannot be created, STUN that ends where it
starts) calls the lobby at once, and what that pushes goes to the back of the
queue. Events of the loop come only when both queues are empty: commands,
`Reply`, `StunEnds`, `Fire`, `SessionConnects`, `SessionEnds`, `Shutdown`, `CloseAll`.
`guests` is the server as its answers can show it: players come, get ready, and
leave when a report carries them.

Properties: `LobbyInStep` (types, `TimersAgree`, `RoomMatchesTunnel`, `OneLineEach`,
`OpenedOnce`, `DepartedHasRoom`), `AnswerIsOfThisAttempt`, `NeverStuck`,
`DepartedIsReported`, `AttemptsMoveOn` (`AttemptResolves`, `DeferredIsSent`).

Left out: answers that do not match the operation asked for (the channel cannot
give one), bodies of requests that cannot be built, the texts and times of
records, the `name` and `help` commands, and time itself: any armed timer may fire.

### ControlExchange

One request of the control thread. `pc` walks through connect, send and receive,
with `Await` the head of `wait_socket`'s loop: shutdown event, deadline, then a
slice of `select`. The server's answer is a sequence of tokens of one byte each
(status line, header lines, the empty line, body), of which `Reading` takes any
piece that is wanted; `Frame` judges what has come so far. The ticks of the clock
are slices. `Abort` sets the shutdown event at any moment.

Properties: `OutcomeOfStream` (compared with the stream as a whole, however it was
cut), `WaitsAreBounded` (types, `EndsInTime`, `AbortIsHeard`), `ExchangeEnds`.

The name lookup is in `ClientThreads` (`Resolve`). Fields other than the framing ones
and the bytes of a request are left out.

### TimerSet, StunMessage and StunDiscovery

`TimerSet` is the loop's set of timers as operators: names, cancellation from inside
a callback, periodic timers. `StunDiscovery` composes it with the STUN client and
with a periodic timer of another owner whose callback may do anything, the start
of a new attempt included. A round of `run_expired` is a sequence of steps: `Round`
collects what is due, `FireStun`, `FireOther` and `Skip` take the entries. `OnDatagram`
is an answer to any transaction of this attempt, in any order and again.
`StunMessage` is the parser's walk over the attributes of an answer, checked on
every small datagram. `over` and `dry` remember the servers whose deadline passed and
whether a draw of a transaction failed, so that `TwoEndpoints` can say what a
discovery that failed had run out of: servers, a list that was too short from the
start, or randomness.

Properties: `QueriesAgree` (types, `TimersMatchSlots`, `TwoEndpoints`,
`GoodAnswerNotDropped`, `StageCap`), `AnswersReadRight`, `PatienceKept`.

The exclusive-or with the cookie is a bijection and left out, as are the text of
an error code and `next_timeout_ms`, which only says how long the loop may sleep;
that it may serve a timer late is `MaxLag`.

### ClientProcess

The process from `Launch` to its end, twice. `Stages` are the steps of `run_main` and
`TunDevice::open` in their order, each of which may fail (`FailStage`); `held` is what
was constructed and is released newest first (`Release`, `CloseAdapter`). In the
loop, `Join` and `Leave` stand for the lobby's rooms, and `assign_address` and
`clear_address` are split at their calls of Windows, each of which may fail
(`AssignClears` to `LeaveClears`). `os` is what Windows holds. `Signal`, `Joined` and
`CutOff` are the clean-up event and the capped join; `Closed` is the handler of a
closing console; `Crash` may come at any step and may leave an address stored for
the adapter's GUID, which the next start removes.

Properties: `AddressKept` (types, `Remembered`, `RoomHasAddress`), `EndIsClean`
(`NothingLeftBehind`, `SignalledIsClean`), `StopEnds`.

A failed start waits for Enter in `main` after `run_main` returned; nothing is held
then, and the wait is left out.

## 4. Runs

| Run | Instance | Asks | Distinct states |
|---|---|---|---|
| `cp_seats` | `ControlPlane` from an empty table, fair threads: 2 threads, 3 requests, 1 room, 1 participant address, 3 ids, 3 nonces, 3 names | `TypeOK`, `ImplementsMembership`, `EveryRequestAnswered` | 496,000 |
| `cp_reports` | from a room with a registered host and a joined player, a second room free: 2 threads, 3 requests, 3 ids, clock to 2, grace 1, lease 2 | `ItemsAgree`, `RoomsStand`, `AnswersAgree`, `SeatSteps` | 2,153,000 |
| `numbering` | modulus 8, window 2, 3 attempts of 9, 3 and 3 packets | `VerdictsTellTheTruth`, `FiguresAreTrue`, `NothingTwiceNothingForgotten` | 803,000 |
| `threads` | all three threads and every source: 2 requests, rings of 2 and 1, budget 1 | `EveryWakeUpHeard`, `RingsInOrder`, `TimersRun`, `EveryRequestAnswered`, `StopsWhenAsked` | 1,381,000 |
| `ring` | 7 items through a ring of 2 | `NoSharedSlot`, `IsBoundedQueue` | 801 |
| `session` | two sides, one of which may start a second attempt and shows addresses that were not announced; 2 renegotiations, 1 probe, 2 retired epochs kept | `EpochsAgree`, `DeadlineArmed`, `EndpointListens`, `HandshakeCompletes` | 156,000 |
| `session_retry` | the same | `RetryIsHeard`, a sentence of the documents the code does not keep (section 7) | violation |
| `tunnel` | 2 peers, 2 slots, 2 nonces, 1 ended session kept, 1 resend, budget 2 of 3 packets, up to 2 echoes waiting | `SessionsSound`, `RosterSound`, `GuestNeverGoesBack`, `RosterReachesGuest`, `SendCommandEnds` | 126,000 |
| `lobby` | 3 others of whom a room holds 2, 2 attempts, 2 tries of a request | `LobbyInStep`, `AnswerIsOfThisAttempt`, `NeverStuck`, `DepartedIsReported`, `AttemptsMoveOn` | 75,000 |
| `exchange` | 516 answers, head of 4, chunks of 2, limits of 2 slices, 2 sends | `OutcomeOfStream`, `WaitsAreBounded`, `ExchangeEnds` | 1,506,000 |
| `stun` | 3 names with 3 endpoints (they may coincide or not resolve), 3 sends each, 2 attempts, a periodic timer, served up to 1 late | `QueriesAgree`, `AnswersReadRight`, `PatienceKept` | 1,364,000 |
| `process` | 2 starts, with and without adapter, 2 rooms | `AddressKept`, `EndIsClean`, `StopEnds` | 8,100 |

Why the bounds are enough:

* Table: the hazards are between two requests for one room, and a third that
  changed what they saw. Two threads and three requests give every overlap of
  two with anything before and between; one participant address makes a room both
  free and full; `MaxDraws` 2 has the redraw and its end; in `cp_reports` the clock
  passes the grace period and the lease while requests run.
* Numbering: nine packets pass the wrap at 8; window 2 has shifts below, at and
  above the width of the mask. Three attempts have a pinned, a retired and a new
  epoch at once, and short attempts interrupt each other.
* Threads: two requests fill the ring of responses with another on its way to it,
  and share one auto-reset event; a budget of 1 is spent while more datagrams
  arrive, and their number is not bounded; lines are, because the console drain
  has no budget and a reader that never paused would hold it.
* Ring: seven items pass the end of an array of three twice, full and empty at
  each position.
* Session: a second attempt of one side has an old and a new epoch on both
  sides, every packet of the first still under way; two renegotiations reach
  the limit; one probe and one token run out.
* Tunnel: two peers contend for one kept place and for each other's slot; two
  nonces are soon all given up, so a draw can fail. `MaxGeneration` stops changes
  by new guests, and sessions that leave still raise the generation past it. One resend is
  used up, so that only the period is left to send again; two echoes fill the budget
  of a turn.
* Lobby: an abandoned attempt and the next; three guests, of whom two fit, so
  that a seat given up is taken by another while its report is on the way.
* Exchange: the empty line falls before, at and past the limit of the head, and
  a body shorter than, as long as and longer than announced follows.
* STUN: three servers make a slot change hands; the second attempt is started
  from inside a round that still holds the first one's entries.
* Process: the second start meets what the first one left.

`CHECK_DEADLOCK FALSE` is set where the system or its bounded inputs stop:
requests, packets or attempts run out, the exchange or the process ends.

## 5. Fairness

* `ControlPlane`: each thread that is in the middle of a request takes its next
  step. Store calls time out after a second, and an expired call is an error,
  which is a step (`Fail`). Nothing is assumed of arrivals or of the clock.
* `ClientThreads`: the main thread and the control thread run when they can, and a
  line that was read is announced. The cap of two seconds on the join is part of
  the first. Nothing is assumed of the network, of input, or of a failing call,
  nor that an exchange ends: its send stage has a limit per call and does not watch
  the shutdown event. `EveryRequestAnswered` says what remains true then.
* `Session`: the loop runs what is due (`StartPunch`, `Repeat`, `Cool`), and a HELLO
  or HELLO_ACK that is sent again and again to an announced address gets through
  some time (strong fairness). Deadlines need not fire. `HandshakeCompletes` claims
  nothing once a side ends, starts anew, has been given up by the other or has
  used up its renegotiations.
* `Tunnel`: every turn runs the timers, in which the period of a guest comes round, and pumps
  what waits. Any copy of a ROSTER may be lost; if again and again there is a copy on
  its way to a guest, one gets through whole (strong fairness of `GetsThrough`). One
  send is not enough for that, nor are the resends: the copy may be lost and nothing is on
  its way until the next. Nothing is assumed of echoes: `SendCommandEnds` claims nothing
  if there is a budget full of them again and again.
* `ControlRunner`: the runner empties its queues before it returns to the loop;
  requests are answered (a lost answer is a failure of the exchange, which ends),
  STUN ends, and a retry or deadline that stays armed falls due. `exchange` and
  `stun` show the first two for their parts, except for a stalled send.
* `ControlExchange`: the thread runs and time passes. Nothing is assumed of the server.
* `ClientProcess`: its own steps are taken, for every wait they stand for has a cap; the
  control thread's end (`Joined`) is not relied on. The prompt for Enter after a failed start
  has no cap; it comes when the steps are over (section 3).

## 6. Proofs

Checked by TLAPS for every value of the constants that meets the named
assumptions.

**ControlPlaneProofs** (assumption `ConstantsOK`): `TypeCorrect`, `ItemsNeverPart`,
`HostNeverLost`, `ReadyMeansRegistered`, `RoomsAlwaysStand`. `ItemsAgree` is not
inductive by itself: a report deletes items by the address, names and nonce its
first Query saw. The invariant therefore adds `SeenAgrees`: what a running report
remembers of a peer is still true of it while it is seated, and if it is gone its
id was given up for good. The other parts are the type and that only rooms that
exist have seats. One lemma per action; the release and the claim, which touch
four items at once, have lemmas of their own.

The second half of the module shows `AnswersAlwaysAgree`, `RefinesMembership`,
`SeatsMoveInSteps`, and two of their parts, `OneSeatForOneNonce` and
`RegisteredStays`. The refinement maps the tables to the rooms of
`RoomMembership`; a step of a thread that only reads, draws or answers stutters,
and each conditional write is one abstract step, for which the first invariant
supplies the guard (that a released peer was seated with that
nonce, that both ends of a confirmed pair are registered). That alone does not
show that an answer is true, for it depends on what the thread has read. The
invariant adds `KnowledgeOK`: what a running create or join knows of its nonce is
the seat the nonce leads to, or one that was given up since, and what a report is
about to say of departures and pairs is what it has done.

**PacketNumberingProofs** (`WindowAssumption`: `0 < Window < Half`;
`NumberingAssumption`): `TypeCorrect`, `WindowIsRight`, `LossIsRight`, `LossInRange`,
`LossIsKept` and `ImplementsSliding`, the refinement of `SlidingWindow` with its
initial state and every step; `FiguresAlwaysTrue` and `NumberingIsSafe` put them
together as the run states them. The invariant is `Tracking`, that the window's
position, wrapped number and mask are those of the set of packets taken, and
`LossInv`, that the counters are the cardinalities of parts of that set. The
arithmetic of the circle is in lemmas about `Past` and `IsNewer`.

**ClientThreadsProofs** (`ThreadsAssumption`): `LoopNeverSleepsOnWork`,
`ControlNeverSleepsOnRequests` and both as `NothingSleepsOnWork`, `TypesHold`,
`RequestsStayInOrder`. The invariant of the first three has
a part for each source: work whose event is not set will be seen by the turn
under way (`Ahead`), or is about to be announced. `SocketKnown` is the delicate one:
after the reset at `enumerate` the socket may hold datagrams without an event
until the first receive call of the same turn, and at no other time. `StartKnown`
says that nothing waits while the process starts, so that the first wait needs no
drain before it. `RequestsStayInOrder` has an invariant of its own, `RingInv`: the
budgets and the ranges of every ring and queue, and `InLine`, that the requests under
way are one run of consecutive numbers, laid out from the ring of responses over
the one in the control thread's hands to the ring of requests. The order of
answers alone says nothing of the ring of requests, so it is not inductive.

The second half of the module is about `SpscRing` (`RingAssumption`): `RingTypeCorrect`,
`SlotsNeverShared` and `ImplementsQueue`, the refinement of `BoundedQueue`. The
invariant says which slots hold an item and which are empty, and that what each
side has seen of the other's count lies between the two counts.

**ControlExchangeProofs** (`ExchangeAssumption`): `WaitsStayBounded` and
`OutcomeIsOfTheStream`. The second compares a verdict on the bytes that had come
with the whole stream, so it rests on lemmas about `Frame` on the prefixes of a
stream: where the head ends does not move as more arrives, a body that is complete
stays complete, and what is refused as too long or malformed is so in the whole.
The invariant is that the bytes held are a prefix of the stream (`AnswerInv`), that
a wait begins only undecided and a verdict is true of the stream (`ResultInv`), and
where each stage stands between its start and its deadline (`ClockInv`).

**ClientProcessProofs** (`ProcessAssumption`): `AddressStaysKept` and
`EveryEndIsClean`. The properties speak of the loop and of the end, the invariant of
every stage between: from which stage of start-up on the adapter is held and the
addresses of earlier runs are gone (`AdapterInv`, `AddressInv`), and what each call
of `assign_address` has done at each of its steps (`CallInv`). `ClearedIs` says what
`clear_address` leaves for each outcome of its two deletions, `LeavingLast` that a
resource goes only when nothing declared behind it is held.

**SessionProofs** (`SessionAssumption`): `AlwaysOnADeadline`, `LearnsOnlyListeners`,
`NeverWaitsForTheRetired`, `EvidenceIsOfThePinned`, `EpochsAlwaysAgree`. Two parts of the
first invariant, `IInv`, are not inductive alone. That a probed address is learned only if somebody listens
there needs `Silent`: no packet carries the nonce of a probe that went to a stray
address. That in turn needs every nonce in a probe or a packet to have been drawn
by its side before (`OwnProbes`, `Drawn`), so that the next one is new. The evidence
survives `Lapse`, which takes packets away, because a session never runs on an
epoch that is given up. Every handler changes one side, so the actions share one
lemma, `OneSide`: a step that advances a side (`Advance`) keeps the invariant.
`EpochsAlwaysAgree` has a second invariant, `AInv`. `ConnectedIsAnswered` speaks of the
attempts that are pinned now; the HELLO_ACK that made a side CONNECTED may be of a
HELLO that the other has since given up, in another attempt of either. `Answered`
says what every HELLO_ACK ever sent still means: its sender has the attempt it
answered pinned and remembers the answer, or refuses that attempt, or the attempt
is over and nothing of it is under way (`Past`), so it can never be pinned again.
`Lapse` turns the second into the third. A renegotiation drops the evidence for one
epoch and takes up another while a third may be refused; with the two attempts a
side has in this model (`Attempts`) there is no third, and the result holds for every
size of the table from one entry up. With more attempts it would need a table that
holds them for as long as their packets live. `OneSpeaks` plays the part of `OneSide`.

**ControlRunnerProofs** (`LobbyAssumption`): `LobbyInStepAlways`,
`AnswersAreOfTheirAttempt`, `NeverStuckAlways` and `DepartedIsReportedAlways`, from
`InvariantAlways`. All but the last are about moments when the runner has nothing left
to execute, or hold only then; in between the lobby has already decided what its
runner has still to do, so none is inductive. The invariant, `IInv` of
`ControlRunnerInvariant`, speaks of every step instead: what is there, once the rest
of the queue is executed, is what the lobby believes. `LInv` is what the lobby's state
says of itself, stage by stage: whose the outstanding request is, what may be
deferred, what will move the attempt on. Then there is one clause for each thing the
actions of the queue move: the timers (`Leads`: after the queue the timers armed are
the lobby's, and it never arms one that is armed), the request and STUN
(`RequestOf`: one request, queued or with the control thread), the address and the
roster (`RoomOf`), the tracks and sessions (`TracksOf`, `EventsOf`, `HomeOf`), the
lines owed (`OwedOf`), and the guests and their seats (`GuestOf`: a
session is opened at most once, counting what is queued). `OrderOf` is the clause the
others need of the order of actions: a session is never opened behind a request or
behind the start of STUN, which could fail where they are executed and end the
attempt it belongs to. `IInv` holds in each of the 75,000 states of `lobby`, too (its
constants, `ControlRunnerInvariant` and `IInv` as the invariant); no run of its own
repeats what the theorem says.

The proof has three layers. A batch of the lobby is known by the state it leaves, by
its request, by how its actions lead from timers to timers, and by a tally of the
other actions (`Made`); every operator of `Lobby` has a lemma of that shape. Every
event of the lobby, command, timer, answer and end of a session, is then a *turn*
(`Turns`, `InRooms`): it leaves `LInv`, sends at most one request and none while one is
out, and its tally agrees with the change of stage, role and pairs. What a turn does
to each clause of the invariant, when its actions go to the back of the queue, is one
lemma per clause (`TurnLeads` to `TurnOwed`), and what executing the action at the head
does is another (`HeadLeads` to `HeadOwed`). The runner's steps combine the two; those in
which an action fails where it is executed (`ExecSubmit`, `ExecStun`, `ExecOpen`)
take the head and make a turn at once. `OpenPairs` is a fold over the peers of an
answer; that it opens the pairs of all that are named is shown by induction on the
length of the list, stated for the set of lengths at which it holds (`Induction`,
`FoldIs`).

**TunnelProofs** (`TunnelAssumption`): `InvariantAlways`, and from it
`SessionsAlwaysSound` and `PublishedAlwaysCurrent`; `RosterAlwaysSound` and
`GuestNeverTakenBack`. That no nonce comes back is not inductive: the invariant adds that
every nonce of an ended attempt is held somewhere, retired, waiting to be, or still
that of an ended session (`Taken`), whichever way it left the table, and that no
live session has such a nonce or another's. `Lists` says that the order of retention
names each ended session once; it is kept when sessions are appended by id
(`InOrderLists`), dropped from the front (`ListsRest`) and taken out of the middle by a
new attempt (`ListsWithout`). `Current` is `PublishedIsCurrent` of any roster and any set of
connected sessions; a turn notices before it runs, so a roster that is not dirty has
seen every session there is.

`RosterInv` is about what is under way: the sheets of a generation are alike, none is
ahead of the roster, those of its generation hold what it holds, and a guest holds
what was sent to it. `GenBound` shows that the generation stays within `Generations`,
for which `Whole` and `Spoiled` are worked out: each session that is up can raise it once
more when it leaves. These two theorems have one condition, `PacketsReadRight`: no packet of a
sheet, whole or damaged, is read as another sheet. It speaks of constants only and is the
first part of `RosterSound`, so the run evaluates it; it is what the fold of `Structure`
over a payload computes, out of reach here for the reason given below. That a stale
sheet is refused needs no condition of its own: a sheet that was read had its
generation compared (`NoneStale`). TLC finds `IInv` and `RosterInv` true in the 126,000 states of
`tunnel` as well.

Only model-checked: the safety properties of `StunDiscovery`, `PacketsReadRight`, and every
liveness property. Liveness under fairness and ENABLED are beyond the prover.
`QueriesAgree` is left for step 10. `AnswersReadRight`, what a STUN answer is read as, and
`PacketsReadRight` are about walks over the bytes. No module uses a RECURSIVE operator;
walks over sequences are folds, whose results the provers derive only where the
induction can be stated for a set, so what the parsers return stays with TLC.

## 7. Where the code and its documents differ

`session_retry`: `create_session` retires the epoch that the ended session had pinned
(`client/tunnel/tunnel.cpp` 149-163). A peer that is still in its own attempt goes
on using that epoch, for it meets the new HELLO by renegotiating, which keeps its
own epoch. Until the peer's attempt ends, every packet it sends is dropped as a
retired epoch's, and the retry cannot connect. `docs/eng/protocol.md` 1108-1109 says
that a normal retry on the same socket "is delayed by at most 1 second and does
not fail".

`docs/eng/concurrency.md` 688-689 says "If a wait in `[control]` fails or the
thread ends with an exception, it emits one `ERROR` line and signals the shutdown event."
Of the waits of that thread only the one in `serve` does (`control/channel.cpp` 146-156). In
`shutdown_signaled` (103-108), `deliver` (184-188) and `aborted` (`win32/tcp.cpp` 87-94) a wait that
fails is read as shutdown: the control thread ends without a line and without the
signal, and the loop goes on taking requests for it (`TakenForShutdown`). Without its
exemption for `blind`, `EveryRequestAnswered` fails in `threads`: a request is never
answered and nobody asks for shutdown.

The lease of a room is looser than three sentences of
`docs/eng/control_plane.md` (lines 1035, 1043 and 1298) suggest. An operation reads
the clock once, before its first call to the store, and its conditional writes
compare the lease with that reading. So of two overlapping reports the one that
began first may write last and pull `expires_at_ms` back; a report that is running
when the lease ends renews the room after the end; and a join may take a seat in a
room that ended between its read and its write. Each needs a request that takes
longer than what is left of a lease, and does no more harm than a lease that is
wrong by the duration of a request. No property here promises more.

## 8. Not modelled

* **Admission of the control server** (`server.py`): the token of a source, the
  limits on connections, time limits of reading. Nothing of the rooms depends on
  it: `ControlPlane` takes every interleaving of requests that it lets through.
* **Ids, candidates, clock, errors, log of the server**: pure functions, seen as
  draws from finite sets and as answers.
* **JSON, messages, arguments, log lines, counters, record files, console
  texts**: pure conversions without state that others depend on; `Lobby` takes the
  results of parsing, an error among them, as its inputs.
* **The bytes of HTTP**: header fields other than the status line, Content-Length
  and the empty line, and the text of a request.
* **Win32 and Winsock** below what the client calls: the operating system's. What
  is assumed of them is in the external definitions (`Rearm`, `Datagram`, `Packet`,
  `TimerPasses`, `Damaged`).
* **Rates**: times stand for order. Periods, round-trip times and the two-minute
  lifetimes appear as choices of what is due.
* **Field tests, tools, scripts, telemetry**: support development; the telemetry
  server has no code yet.
