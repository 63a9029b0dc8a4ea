------------------------------ MODULE TimerSet ------------------------------
(***************************************************************************)
(* The set of timers of the loop (timer.cpp, timer.hpp), as operators on a *)
(* value: the timers in the order they were added, the number the next one *)
(* takes, the number of the periodic timer whose callback is running, and  *)
(* whether that callback has cancelled it.  A round of run_expired is a    *)
(* sequence of steps of the module that uses this one.                     *)
(***************************************************************************)
EXTENDS Integers, Sequences, SequencesExt

None == 0

NoTimers == [list |-> <<>>, next |-> 1, firing |-> None, pending |-> FALSE]

\* The node of a timer cancelled by its own callback is still there, and hidden.
Hidden(ts, t) == ts.pending /\ t.id = ts.firing

Live(ts) == {t \in ToSet(ts.list) : ~Hidden(ts, t)}

Armed(ts, name) == \E t \in Live(ts) : t.name = name

\* add_once, and add_periodic when every is not 0. A name in use is refused.
Add(ts, name, delay, every, now) ==
    IF Armed(ts, name) THEN ts
    ELSE [ts EXCEPT !.list = Append(@, [name |-> name, at |-> now + delay, every |-> every,
                                        id |-> ts.next]),
                    !.next = @ + 1]

Without(ts, id) == [ts EXCEPT !.list = SelectSeq(@, LAMBDA t : t.id # id)]

Cancel(ts, name) ==
    IF ~Armed(ts, name) THEN ts
    ELSE LET t == CHOOSE t \in Live(ts) : t.name = name
         IN  IF t.id = ts.firing THEN [ts EXCEPT !.pending = TRUE] ELSE Without(ts, t.id)

\* What a round will fire, decided before its first callback.
Due(ts, now) == SelectSeq(ts.list, LAMBDA t : t.at <= now)

FaultyFound(ts, d) == {t \in ToSet(ts.list) : t.name = d.name}

\* The timer of a round's entry, if it is still there.
Found(ts, d) == {t \in ToSet(ts.list) : t.id = d.id}

\* Before its callback a timer that fires once is gone; a periodic one is put
\* off to an interval from now, however late it is.
Fired(ts, t, now) ==
    IF t.every = 0 THEN Without(ts, t.id)
    ELSE [ts EXCEPT !.list = [i \in DOMAIN @ |-> IF @[i].id = t.id
                                                 THEN [@[i] EXCEPT !.at = now + t.every] ELSE @[i]],
                    !.firing = t.id, !.pending = FALSE]

\* After the callback: what it cancelled of itself is erased.
Settled(ts) ==
    LET kept == IF ts.pending THEN Without(ts, ts.firing) ELSE ts
    IN  [kept EXCEPT !.firing = None, !.pending = FALSE]
=============================================================================
