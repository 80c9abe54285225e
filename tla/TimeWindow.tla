------------------------------ MODULE TimeWindow ------------------------------
(***************************************************************************)
(* The window of a timeline request: its timestamps as they are parsed     *)
(* (timewindow.py 24-67), as Trade Republic is asked for them              *)
(* (pytr_client.py 119-120), and as the answer echoes them (timewindow.py  *)
(* 70-78).                                                                 *)
(*                                                                         *)
(* A timestamp is a wall clock and a UTC offset, in one unit of time.      *)
(* Wall clocks run from 0 (datetime.min) to MaxWall (datetime.max).        *)
(***************************************************************************)
EXTENDS Integers

CONSTANTS
    MaxWall,    \* the latest wall clock a datetime holds
    MaxOffset,  \* the largest UTC offset
    Float       \* datetime.timestamp(): the float of every instant

Wall == 0..MaxWall
Offset == (-MaxOffset)..MaxOffset
Instants == (-MaxOffset)..(MaxWall + MaxOffset)

ASSUME ClockAssumption == MaxWall \in Nat /\ MaxOffset \in Nat

\* The nearest float: two instants may have the same one - from 2242 on a float does
\* not tell every two microseconds -, but none overtakes another.
ASSUME FloatAssumption ==
    /\ Float \in [Instants -> Int]
    /\ \A i, j \in Instants : i <= j => Float[i] <= Float[j]

Forms == {"missing", "garbage", "date_only", "naive", "aware"}
Value == [form : Forms, wall : Wall, offset : Offset]

\* The query's since and until, and the clock when they are parsed.
Query == [since : Value, until : Value, now : Wall]

\* _parse_iso: is the value a full timestamp, and which?
IsTimestamp(v) == v.form \in {"naive", "aware"}
ParseIso(v) == [wall |-> v.wall, offset |-> IF v.form = "naive" THEN 0 ELSE v.offset]

\* The UTC instant of an aware datetime; it may lie outside Wall.
Instant(t) == t.wall - t.offset

Since(q) == ParseIso(q.since)
Until(q) == IF q.until.form = "missing" THEN [wall |-> q.now, offset |-> 0] ELSE ParseIso(q.until)

\* Aware datetimes are compared by the instants they name.
Later(u, s) == Instant(u) > Instant(s)

\* parse_window: does it return, rather than raise InvalidRequestError?
ParseWindow(q) ==
    /\ IsTimestamp(q.since)
    /\ q.until.form = "missing" \/ IsTimestamp(q.until)
    /\ Later(Until(q), Since(q))

\* Timeline(not_before, not_after): the window that Trade Republic is asked for.
Asked(q) == <<Float[Instant(Since(q))], Float[Instant(Until(q))]>>

\* Mutant of UtcWall: the offset is dropped instead of converted.
UtcDropped(t) == t.wall

\* to_utc_iso: the wall clock astimezone(UTC) shows.  It raises OverflowError
\* when a datetime cannot hold it.
UtcWall(t) == Instant(t)
HasUtcWall(t) == UtcWall(t) \in Wall

\* Both bounds can be echoed.
Renders(q) == HasUtcWall(Since(q)) /\ HasUtcWall(Until(q))
==============================================================================
