---------------------------- MODULE RateLimiter -----------------------------
(***************************************************************************)
(* The sliding-window limits of one worker process, and the counters that   *)
(* it stores for the monitoring page (middleware/rate_limiter.py).  Time is *)
(* counted in ticks, Unit of them to a second; a time stamp is represented  *)
(* by its age, which stops at the length of the window: such a stamp is     *)
(* outside of it, and is pruned when the window is next looked at.          *)
(*                                                                          *)
(* Its formulae have names that differ from those of Monitoring, beside     *)
(* which it stands in the middleware stack.                                 *)
(***************************************************************************)
EXTENDS Integers, Sequences, FiniteSets, SequencesExt

CONSTANTS
    Keys,       \* the windows: of a user, an organisation or an address, for
                \* a group of endpoints
    Limit,      \* Limit[k]: the requests allowed in a window
    Unit,       \* ticks in a second
    Window,     \* the length of the windows in ticks
    Interval,   \* the time between two flushes, in ticks
    Callers,    \* those who make requests
    Chain,      \* Chain[c]: the windows that are checked for c, in order
    MaxFlushes  \* the flushes that may be under way together

\* The chain of a caller is of different windows.
ASSUME LimiterAssumption ==
    /\ Limit \in [Keys -> Nat \ {0}]
    /\ {Unit, Window, Interval} \subseteq Nat \ {0} /\ Window % Unit = 0
    /\ \A c \in Callers : Chain[c] \in Seq(Keys) /\ IsInjective(Chain[c])
    /\ MaxFlushes \in Nat

VARIABLES
    stamps,     \* _windows: the ages of the time stamps, the oldest first
    refusal,    \* the window that refused the last request, and the ticks
                \* that are left of the Retry-After it was given
    due,        \* a flush has been started and has not run yet; several that
                \* wait count as one, as only the first can go on
    lastFlush,  \* the age of _last_flush
    flush,      \* the flushes under way, in the order they were begun: the
                \* start and the count of each window that they are to store
    rows,       \* rate_limit_windows: request_count by the window's start
    (* history *)
    served,     \* the ages of the requests let through, within the window
    crossed     \* a flush has been overtaken by one that was begun later

limiterVars == <<stamps, refusal, due, lastFlush, flush, rows, served, crossed>>

Ages == 0..(Window - 1)
Served == [key |-> "none", left |-> 0]

LimiterTypeOK ==
    /\ \A k \in Keys : stamps[k] \in BoundedSeq(0..Window, Limit[k])
    /\ refusal.key \in Keys \cup {"none"} /\ refusal.left \in 0..(Window + Unit)
    /\ due \in BOOLEAN /\ lastFlush \in 0..Interval
    /\ Len(flush) <= MaxFlushes
    /\ \A k \in Keys : rows[k] \in [Ages -> 0..Limit[k]]
    /\ crossed \in BOOLEAN

LimiterInit ==
    /\ stamps = [k \in Keys |-> <<>>] /\ served = [k \in Keys |-> <<>>]
    /\ refusal = Served
    /\ due = FALSE /\ lastFlush = Interval /\ flush = <<>>
    /\ rows = [k \in Keys |-> [a \in Ages |-> 0]]
    /\ crossed = FALSE

-----------------------------------------------------------------------------
(* Helpers.  Definitions named "wrong variant" are not used: put in the     *)
(* place of the next definition of the same kind they break a property,     *)
(* which shows what the property says about the code.                       *)

\* The stamps within the window: they are in order, so that the ones pruned
\* are the first ones.
Young(s) == LET old == {i \in DOMAIN s : s[i] >= Window}
            IN  SubSeq(s, Max({0} \cup old) + 1, Len(s))
Older(s, n) == [i \in DOMAIN s |-> IF s[i] + 1 < n THEN s[i] + 1 ELSE n]

\* Wrong variant of Full: one request too many.
OverFull(k) == Len(Young(stamps[k])) > Limit[k]

Full(k) == Len(Young(stamps[k])) >= Limit[k]

\* Wrong variant of RetryAfter: whole seconds, cut off.
RetryAfterCut(k) == (Window - Young(stamps[k])[1]) \div Unit

\* In seconds: the time until the oldest stamp leaves, cut off, and one more.
RetryAfter(k) == (Window - Young(stamps[k])[1]) \div Unit + 1

-----------------------------------------------------------------------------
(* dispatch: from its first check to create_task there is no await *)

\* _sliding_window_check of the windows in seen: a full one is only pruned.
Stamp(seen) == stamps' = [k \in Keys |->
    IF k \notin seen THEN stamps[k]
    ELSE IF Full(k) THEN Young(stamps[k])
    ELSE Append(Young(stamps[k]), 0)]

\* The request is let through if no window of the chain is full.
Decide(c) ==
    LET chain == Chain[c]
        full == {i \in DOMAIN chain : Full(chain[i])}
        let == full = {}
    IN  /\ refusal' = IF let THEN Served
                     ELSE [key |-> chain[Min(full)],
                           left |-> Unit * RetryAfter(chain[Min(full)])]
        /\ served' = [k \in Keys |-> IF let /\ k \in Range(chain)
                                     THEN Append(served[k], 0) ELSE served[k]]
        /\ due' = (due \/ let)
        /\ UNCHANGED <<lastFlush, flush, rows, crossed>>

\* Wrong variant of Request: the windows after a full one are stamped too.
RequestAllStamped(c) == Stamp(Range(Chain[c])) /\ Decide(c)

\* The windows are checked in order until one refuses; those before it have
\* been given their stamp, those after it are not looked at.
Request(c) ==
    /\ Stamp({Chain[c][i] : i \in {i \in DOMAIN Chain[c] :
                \A j \in 1..(i - 1) : ~Full(Chain[c][j])}})
    /\ Decide(c)

-----------------------------------------------------------------------------
(* _flush_to_db, started by every request that is let through *)

\* The flush begins if the last one was begun long enough ago.  Nothing happens
\* between the check, the lock and the snapshot.
Begin(snapshot) ==
    /\ due /\ due' = FALSE
    /\ IF lastFlush < Interval THEN UNCHANGED <<lastFlush, flush>>
       ELSE /\ lastFlush' = 0
            /\ Len(flush) < MaxFlushes /\ flush' = Append(flush, snapshot)
    /\ UNCHANGED <<stamps, refusal, rows, served, crossed>>

Counts(s) == [start |-> IF s = <<>> THEN Window ELSE s[1], count |-> Len(s)]

\* Wrong variant of BeginFlush: what came since the last flush is counted.
BeginFlushNewOnly == Begin([k \in Keys |->
    [Counts(Young(stamps[k])) EXCEPT !.count =
        Len(SelectSeq(stamps[k], LAMBDA a : a < lastFlush))]])

BeginFlush == Begin([k \in Keys |-> Counts(Young(stamps[k]))])

\* The rows are written and committed; windows that have gone are left out.
EndFlush(i) ==
    /\ flush' = RemoveAt(flush, i)
    /\ crossed' = (Len(flush) > 1 /\ (crossed \/ i > 1))
    /\ UNCHANGED <<stamps, refusal, due, lastFlush, served>>

StoreFlush(i) ==
    /\ rows' = [k \in Keys |-> LET w == flush[i][k] IN
                  IF w.start = Window THEN rows[k]
                  ELSE [rows[k] EXCEPT ![w.start] = w.count]]
    /\ EndFlush(i)

\* Errors are logged and swallowed.
FlushFault(i) == EndFlush(i) /\ UNCHANGED rows

-----------------------------------------------------------------------------
Tick ==
    /\ stamps' = [k \in Keys |-> Older(stamps[k], Window)]
    /\ served' = [k \in Keys |-> Young(Older(served[k], Window))]
    /\ refusal' = [refusal EXCEPT !.left = IF @ > 0 THEN @ - 1 ELSE 0]
    /\ lastFlush' = IF lastFlush < Interval THEN lastFlush + 1 ELSE Interval
    /\ flush' = [i \in DOMAIN flush |-> [k \in Keys |->
          [flush[i][k] EXCEPT !.start = IF @ < Window THEN @ + 1 ELSE @]]]
    /\ rows' = [k \in Keys |-> [a \in Ages |-> IF a = 0 THEN 0 ELSE rows[k][a - 1]]]
    /\ UNCHANGED <<due, crossed>>

LimiterNext ==
    \/ \E c \in Callers : Request(c)
    \/ BeginFlush
    \/ \E i \in DOMAIN flush : StoreFlush(i) \/ FlushFault(i)
    \/ Tick

LimiterSpec == LimiterInit /\ [][LimiterNext]_limiterVars

-----------------------------------------------------------------------------
(* Properties *)

\* README.md, Rate Limits: in no stretch of time as long as the window are
\* more requests let through than the limit, in one worker process.
WindowBound == \A k \in Keys : Len(served[k]) <= Limit[k]

\* A refusal's Retry-After is enough, and not a second too long: if nothing is
\* asked in the meantime, the window that refused is full until less than a
\* second of it is left, and has room when it is over.
RetryAfterHonest == refusal.key # "none" =>
    /\ refusal.left = 0 => ~Full(refusal.key)
    /\ refusal.left > Unit => Full(refusal.key)

\* The window that is checked last pays only for requests that were let
\* through, whatever the others refuse: members who are over their own limit
\* use up nothing of their organisation's.
LastPaysForServed == \A k \in Keys :
    (\A c \in Callers : k \in Range(Chain[c]) => k = Last(Chain[c]))
        => Young(stamps[k]) = served[k]

\* Stored counts only grow while their window is open, unless a flush was
\* overtaken by a later one, whose counts it then replaces.
StoredCountsGrow == [][\A i \in DOMAIN flush : StoreFlush(i) /\ ~crossed =>
    \A k \in Keys, a \in Ages : rows'[k][a] >= rows[k][a]]_limiterVars
=============================================================================
