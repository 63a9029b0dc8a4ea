--------------------------- MODULE ClientProcess ---------------------------
(***************************************************************************)
(* The life of the client's process and of what it takes from Windows      *)
(* (main.cpp, platform/win32/tun.cpp): the stages of start-up, each of     *)
(* which may fail, the adapter's address and route while rooms come and    *)
(* go, the Wintun session, and the way out, on which destructors and the   *)
(* steps of main give everything back in order.                            *)
(*                                                                         *)
(* The process may die at any step, and be started again.  Windows removes *)
(* the adapter with its last handle, but may keep an address stored for    *)
(* the adapter's GUID; a console that is being closed ends the process as  *)
(* soon as it signals that it has cleaned up, or after a time.             *)
(***************************************************************************)
EXTENDS Integers, Sequences, FiniteSetsExt, SequencesExt

CONSTANTS
    Addresses,   \* virtual addresses of rooms
    NoAdapter,   \* the values of --no-adapter tried
    MaxStarts,   \* bound: how often the process is started
    MaxRooms     \* bound: rooms entered in one process

ASSUME ProcessAssumption ==
    /\ NoAdapter \subseteq BOOLEAN /\ MaxStarts \in Nat \ {0} /\ MaxRooms \in Nat
    /\ "none" \notin Addresses

VARIABLES
    os,          \* what Windows holds: the adapter, its addresses, its route
    stained,     \* history: Windows may hold an address of an earlier run
    phase,       \* off, start, loop, unwind
    stage,       \* the stage of start-up
    code,        \* exit code
    held,        \* resources the process holds
    device,      \* TunDevice: address_, route_created_, and the call in progress
    room,        \* the address of the lobby's room
    stop,        \* the shutdown event
    cleaned,     \* the event signal_cleanup_done sets
    closing,     \* a console handler waits for it
    without,     \* --no-adapter
    starts, rooms

vars == <<os, stained, phase, stage, code, held, device, room, stop, cleaned, closing,
          without, starts, rooms>>
counted == <<without, starts, rooms>>
events  == <<stop, cleaned, closing>>

Off == [adapter |-> FALSE, addrs |-> {}, route |-> "none"]
NoDevice == [address |-> "none", made |-> FALSE, call |-> "idle"]

-----------------------------------------------------------------------------
(* Start-up.                                                               *)

\* Resources in the order of their declaration; they go in the opposite one.
Order == <<"record", "control", "winsock", "event", "library", "adapter", "session",
           "socket", "console", "loop">>

MainStages    == <<"args", "record", "log", "name", "winsock", "event", "handler",
                   "control", "resolve">>
AdapterStages == <<"files", "elevated", "subnet">>
DeviceStages  == <<"library", "adapter", "guid", "interface", "addresses", "session">>
ClientStages  == <<"socket", "console", "loop", "control_event", "adapter_event">>

AdapterOnly == ToSet(AdapterStages) \union ToSet(DeviceStages) \union {"firewall", "adapter_event"}
Stages == MainStages \o AdapterStages \o DeviceStages \o <<"firewall">> \o ClientStages
            \o <<"host_header">>

\* run_script: whether it ran to its end, and the exit code it ended with.
Outcomes == [ran : BOOLEAN, exit : 0..2]
Verdict(o) == IF ~o.ran \/ o.exit > 1 THEN "unknown" ELSE IF o.exit = 1 THEN "fail" ELSE "pass"

Taken(s) == IF s \in ToSet(Order) THEN {s} ELSE {}

Launch ==
    /\ phase = "off" /\ starts < MaxStarts /\ starts' = starts + 1
    /\ without' \in NoAdapter
    /\ phase' = "start" /\ stage' = 1 /\ code' = 0 /\ held' = {} /\ device' = NoDevice
    /\ room' = "none" /\ stop' = FALSE /\ cleaned' = FALSE /\ closing' = FALSE /\ rooms' = 0
    /\ UNCHANGED <<os, stained>>

\* run_main looks at the shutdown event once, before the adapter.
StopBefore(s) == s = "files" /\ stop

FaultyPass(s) ==
    /\ held' = held \union Taken(s)
    /\ os' = CASE s = "adapter" -> [os EXCEPT !.adapter = TRUE] [] OTHER -> os
    /\ stained' = (stained /\ s # "addresses")

\* What a stage does to Windows when it passes.
Pass(s) ==
    /\ held' = held \union Taken(s)
    /\ os' = CASE s = "adapter"   -> [os EXCEPT !.adapter = TRUE]
               [] s = "addresses" -> [os EXCEPT !.addrs = {}]
               [] OTHER           -> os
    /\ stained' = (stained /\ s # "addresses")

Advance ==
    LET s == Stages[stage] IN
    /\ phase = "start" /\ ~StopBefore(s)
    /\ IF without /\ s \in AdapterOnly THEN UNCHANGED <<os, stained, held>> ELSE Pass(s)
    /\ IF stage < Len(Stages) THEN stage' = stage + 1 /\ UNCHANGED phase
       ELSE phase' = "loop" /\ UNCHANGED stage
    /\ UNCHANGED <<code, device, room, events, counted>>

\* Every stage may fail, a script unless its verdict is pass, deleting addresses
\* after some of them are gone.
FailStage ==
    LET s == Stages[stage] IN
    /\ phase = "start" /\ ~StopBefore(s) /\ ~(without /\ s \in AdapterOnly)
    /\ s \in {"subnet", "firewall"} => \E o \in Outcomes : Verdict(o) # "pass"
    /\ IF s = "addresses" THEN \E rest \in SUBSET os.addrs : os' = [os EXCEPT !.addrs = rest]
       ELSE UNCHANGED os
    /\ phase' = "unwind" /\ code' = 1
    /\ UNCHANGED <<stained, stage, held, device, room, events, counted>>

StopAtStart ==
    /\ phase = "start" /\ StopBefore(Stages[stage]) /\ phase' = "unwind"
    /\ UNCHANGED <<os, stained, stage, code, held, device, room, events, counted>>

-----------------------------------------------------------------------------
(* The adapter's address.                                                  *)

\* Windows drops the on-link route with the address, and keeps one that was made.
Unaddressed(o, a) == [o EXCEPT !.addrs = @ \ {a}, !.route = IF @ = "onlink" THEN "none" ELSE @]

FaultyCleared(routeGone, addrGone) ==
    [os |-> IF addrGone THEN Unaddressed(os, device.address) ELSE os,
     device |-> [device EXCEPT !.address = "none", !.made = FALSE]]

\* clear_address: routeGone and addrGone say which of the deletions succeed. What
\* could not be deleted stays remembered.
Cleared(routeGone, addrGone) ==
    LET made == device.made /\ ~routeGone
        o    == IF device.made /\ routeGone THEN [os EXCEPT !.route = "none"] ELSE os
    IN  IF device.address = "none" THEN [os |-> os, device |-> device]
        ELSE [os     |-> IF addrGone THEN Unaddressed(o, device.address) ELSE o,
              device |-> [device EXCEPT !.made = made,
                                        !.address = IF addrGone /\ ~made THEN "none" ELSE @]]

ClearFails(routeGone, addrGone) ==
    device.address # "none" /\ ((device.made /\ ~routeGone) \/ ~addrGone)

\* A call of TunDevice is under way, or the loop is free to begin one.
InCall(c) == phase = "loop" /\ device.call = c
Call(c)   == device' = [device EXCEPT !.call = c]
Rest      == UNCHANGED <<stained, phase, stage, code, held, room, cleaned, closing, counted>>

\* A successful create or join; nobody assigns an address with --no-adapter.
Join == \E ip \in Addresses :
    /\ InCall("idle") /\ room = "none" /\ rooms < MaxRooms
    /\ room' = ip /\ rooms' = rooms + 1
    /\ IF without THEN UNCHANGED device ELSE Call("assign")
    /\ UNCHANGED <<os, stained, phase, stage, code, held, events, without, starts>>

Leave ==
    /\ InCall("idle") /\ room # "none" /\ room' = "none"
    /\ IF without THEN UNCHANGED device ELSE Call("leave")
    /\ UNCHANGED <<os, stained, phase, stage, code, held, events, counted>>

\* The address of the room before goes first; what cannot be deleted ends the client.
AssignClears == \E routeGone, addrGone \in BOOLEAN :
    LET c == Cleared(routeGone, addrGone)
        fails == ClearFails(routeGone, addrGone)
    IN  /\ InCall("assign") /\ os' = c.os /\ stop' = (stop \/ fails)
        /\ device' = [c.device EXCEPT !.call = IF fails THEN "idle" ELSE "create"]
        /\ Rest

AssignCreates ==
    /\ InCall("create") /\ Rest
    /\ \/ /\ os' = [os EXCEPT !.addrs = @ \union {room}]
          /\ device' = [device EXCEPT !.address = room, !.call = "wait"] /\ UNCHANGED stop
       \/ Call("idle") /\ stop' = TRUE /\ UNCHANGED os

\* Preferred, with or without an on-link route of Windows' making; or duplicate,
\* invalid, out of time, or a failed query.
AssignWaits ==
    /\ InCall("wait") /\ Rest /\ UNCHANGED stop
    /\ \/ Call("undo") /\ UNCHANGED os
       \/ \E r \in {"none", "onlink"} :
            Call("route") /\ os' = [os EXCEPT !.route = IF @ = "none" THEN r ELSE @]

HasRoute == os.route # "none"

AssignRoutes ==
    /\ InCall("route") /\ Rest /\ UNCHANGED stop
    /\ \/ Call("undo") /\ UNCHANGED os
       \/ HasRoute /\ Call("idle") /\ UNCHANGED os
       \/ /\ ~HasRoute /\ os' = [os EXCEPT !.route = "made"]
          /\ device' = [device EXCEPT !.made = TRUE, !.call = "idle"]

\* A failed assignment takes the address away again, as far as it can, and main's
\* handler asks for the shutdown.
AssignUndoes == \E routeGone, addrGone \in BOOLEAN :
    LET c == Cleared(routeGone, addrGone) IN
    /\ InCall("undo") /\ os' = c.os /\ device' = [c.device EXCEPT !.call = "idle"]
    /\ stop' = TRUE /\ Rest

LeaveClears == \E routeGone, addrGone \in BOOLEAN :
    LET c == Cleared(routeGone, addrGone) IN
    /\ InCall("leave") /\ os' = c.os /\ device' = [c.device EXCEPT !.call = "idle"]
    /\ UNCHANGED stop /\ Rest

\* A corrupt ring: the session is ended and, since it does not start again, the
\* client stops. One that starts again is as before.
RestartSession ==
    /\ InCall("idle") /\ "session" \in held
    /\ held' = held \ {"session"} /\ stop' = TRUE
    /\ UNCHANGED <<os, stained, phase, stage, code, device, room, cleaned, closing, counted>>

-----------------------------------------------------------------------------
(* The way out.                                                            *)

\* Ctrl+C, quit, a failed wait, the end of the adapter, the control thread's
\* exception; and a console that closes, whose handler waits for the clean-up.
Handled == phase # "off" /\ stage > SelectInSeq(Stages, LAMBDA s : s = "handler")

AskToStop == \E c \in BOOLEAN :
    /\ Handled /\ (~stop \/ (c /\ ~closing))
    /\ stop' = TRUE /\ closing' = (closing \/ c)
    /\ UNCHANGED <<os, stained, phase, stage, code, held, device, room, cleaned, counted>>

LoopEnds ==
    /\ InCall("idle") /\ stop /\ phase' = "unwind"
    /\ UNCHANGED <<os, stained, stage, code, held, device, room, events, counted>>

Newest == Order[Max({i \in DOMAIN Order : Order[i] \in held})]
Leaving(r) == phase = "unwind" /\ held # {} /\ Newest = r

\* close: the session has ended; the address and the route, then the adapter.
CloseAdapter == \E routeGone, addrGone \in BOOLEAN :
    /\ Leaving("adapter") /\ held' = held \ {"adapter"} /\ device' = NoDevice
    /\ os' = [Cleared(routeGone, addrGone).os EXCEPT !.adapter = FALSE, !.route = "none"]
    /\ stained' = (stained \/ ClearFails(routeGone, addrGone))
    /\ UNCHANGED <<phase, stage, code, room, events, counted>>

\* signal_cleanup_done: behind the block in which everything but the control
\* channel and the record file was built, and not after a failed start.
Signal ==
    /\ Leaving("control") /\ code = 0 /\ ~cleaned /\ cleaned' = TRUE
    /\ UNCHANGED <<os, stained, phase, stage, code, held, device, room, stop, closing, counted>>

\* The other resources just go. After a failed start the channel has no request,
\* and its destructor's join returns at once.
Release == \E r \in held \ {"adapter"} :
    /\ Leaving(r) /\ (r = "control" => code = 1) /\ held' = held \ {r}
    /\ UNCHANGED <<os, stained, phase, stage, code, device, room, events, counted>>

\* join_for: the control thread may be inside a TCP exchange.
Joined ==
    /\ Leaving("control") /\ cleaned /\ held' = held \ {"control"}
    /\ UNCHANGED <<os, stained, phase, stage, code, device, room, events, counted>>

Exit == phase' = "off" /\ held' = {} /\ device' = NoDevice
        /\ UNCHANGED <<stage, code, room, events, counted>>

FaultyCutOff == Leaving("control") /\ cleaned /\ Exit /\ FALSE /\ UNCHANGED <<os, stained>>

\* After kJoinCapMs the process ends without the control thread.
CutOff == Leaving("control") /\ cleaned /\ Exit /\ UNCHANGED <<os, stained>>

End == phase = "unwind" /\ held = {} /\ Exit /\ UNCHANGED <<os, stained>>

\* The handler of a closing console returns, and Windows ends the process.
Closed == phase # "off" /\ closing /\ cleaned /\ Exit /\ UNCHANGED <<os, stained>>

\* The process dies: the adapter goes with its handle, an address may stay.
Crash == \E rest \in SUBSET os.addrs :
    /\ phase # "off" /\ Exit /\ os' = [Off EXCEPT !.addrs = rest] /\ stained' = TRUE

-----------------------------------------------------------------------------
Init ==
    /\ os = Off /\ stained = FALSE /\ phase = "off" /\ stage = 1 /\ code = 0 /\ held = {}
    /\ device = NoDevice /\ room = "none" /\ stop = FALSE /\ cleaned = FALSE /\ closing = FALSE
    /\ without = FALSE /\ starts = 0 /\ rooms = 0

Own == \/ Advance \/ FailStage \/ StopAtStart
       \/ AssignClears \/ AssignCreates \/ AssignWaits \/ AssignRoutes \/ AssignUndoes
       \/ LeaveClears \/ LoopEnds \/ CloseAdapter \/ Signal \/ Release \/ CutOff \/ End

Next == Launch \/ Own \/ Join \/ Leave \/ RestartSession \/ AskToStop \/ Joined \/ Closed \/ Crash

Spec == Init /\ [][Next]_vars

\* Calls of Windows return, and every wait of the process has a cap; only the
\* control thread's end is not relied on.
FairSpec == Spec /\ WF_vars(Own)

-----------------------------------------------------------------------------
(* Properties.                                                             *)

\* The process's state: a route of the device's making lies on an adapter that is
\* open, and nothing is held once the process is gone (main.cpp, tun.hpp:128-134).
TypeOK ==
    /\ os \in [adapter : BOOLEAN, addrs : SUBSET Addresses, route : {"none", "onlink", "made"}]
    /\ (os.route # "none" \/ "session" \in held) => os.adapter
    /\ phase \in {"off", "start", "loop", "unwind"} /\ stage \in DOMAIN Stages /\ code \in 0..1
    /\ held \subseteq ToSet(Order) /\ (phase = "off" => held = {})
    /\ device \in [address : Addresses \union {"none"}, made : BOOLEAN,
                   call : {"idle", "assign", "create", "wait", "route", "undo", "leave"}]
    /\ room \in Addresses \union {"none"} /\ (device.made => device.address # "none")
    /\ {stained, stop, cleaned, closing, without} \subseteq BOOLEAN
    /\ starts \in 0..MaxStarts /\ rooms \in 0..MaxRooms

\* While the client runs, every address on its adapter and every route it made is
\* one the device remembers and will delete, whatever earlier runs left and
\* whichever deletions failed (tun.cpp:550-553, clear_address).
Remembered ==
    (phase = "loop" /\ ~without) =>
        /\ os.addrs \subseteq {device.address}
        /\ os.route = "made" => device.made

\* Between turns a client in a room has that room's address and no other, with a
\* route, or it is shutting down (assign_address, main.cpp:440-455).
RoomHasAddress ==
    (phase = "loop" /\ device.call = "idle" /\ ~without /\ ~stop /\ room # "none") =>
        os.addrs = {room} /\ os.route # "none"

\* Unless a process died or Windows refused a deletion to the last, no adapter and
\* no address outlive the client, on every path out of it (TunDevice::close).
NothingLeftBehind == (phase = "off" /\ ~stained) => ~os.adapter /\ os.addrs = {}

\* The clean-up is signalled, and a closing console may end the process, only
\* when nothing is left to clean up (main.cpp:800-812).
SignalledIsClean == cleaned => held \subseteq {"record", "control"} /\ ~os.adapter

\* Asked to stop, the client ends, also when the control thread does not
\* (concurrency.md 7, main.cpp:814-828).
StopEnds == (stop /\ phase # "off") ~> (phase = "off")

\* What lies on the adapter is what the device remembers and the room needs.
AddressKept == TypeOK /\ Remembered /\ RoomHasAddress

\* Every orderly end is clean, and the clean-up is told only when it is done.
EndIsClean == NothingLeftBehind /\ SignalledIsClean
=============================================================================
