---------------------------- MODULE RateLimiter -----------------------------
(***************************************************************************)
(* check_rate_limit: a counter in Redis for each window of the clock, and  *)
(* requests of one enterprise that arrive in any process.                  *)
(***************************************************************************)
EXTENDS Naturals, FiniteSets

CONSTANTS
    Arrivals,     \* the requests
    Limit,        \* API_RATE_LIMIT_REQUESTS
    Window,       \* API_RATE_LIMIT_WINDOW_SECONDS
    LastSecond    \* bounds the clock

ASSUME LimiterAssumption ==
    Limit \in Nat /\ Window \in Nat \ {0} /\ LastSecond \in Nat

VARIABLES
    second,       \* the clock
    counters,     \* rate:enterprise:bucket: count and expiry, 0 for none
    arrivalPc,    \* where each request is
    bucketOf,     \* the bucket each request computed and the count it got, both
                  \* with the second of it
    admitted      \* history: the requests that were let in, with both seconds

limiterVars == <<second, counters, arrivalPc, bucketOf, admitted>>

Buckets == 0..LastSecond \div Window
Absent == [count |-> 0, expires |-> 0]

LimiterInit ==
    /\ second = 0
    /\ counters = [b \in Buckets |-> Absent]
    /\ arrivalPc = [a \in Arrivals |-> "idle"]
    /\ bucketOf = [a \in Arrivals |-> [bucket |-> 0, at |-> 0, count |-> 0, counted |-> 0]]
    /\ admitted = {}

\* The clock is read before Redis is asked.
ComputeBucket(a) ==
    /\ arrivalPc[a] = "idle"
    /\ bucketOf' = [bucketOf EXCEPT ![a] =
                      [bucket |-> second \div Window, at |-> second, count |-> 0, counted |-> 0]]
    /\ arrivalPc' = [arrivalPc EXCEPT ![a] = "incr"]
    /\ UNCHANGED <<second, counters, admitted>>

\* The answer of the request, q being what it has computed and counted.
Answers(a, q) ==
    IF q.count <= Limit
    THEN admitted' = admitted \cup {[who |-> a, at |-> q.at, counted |-> q.counted]}
    ELSE UNCHANGED admitted

Incremented(a) == [bucketOf[a] EXCEPT !.count = counters[bucketOf[a].bucket].count + 1,
                                      !.counted = second]

CountThenSet(a) ==
    \/ /\ arrivalPc[a] = "incr"
       /\ bucketOf' = [bucketOf EXCEPT ![a] = Incremented(a)]
       /\ arrivalPc' = [arrivalPc EXCEPT ![a] = "set"]
       /\ UNCHANGED <<second, counters, admitted>>
    \/ /\ arrivalPc[a] = "set"
       /\ counters' = [counters EXCEPT ![bucketOf[a].bucket].count = bucketOf[a].count]
       /\ Answers(a, bucketOf[a])
       /\ arrivalPc' = [arrivalPc EXCEPT ![a] = "done"]
       /\ UNCHANGED <<second, bucketOf>>

\* INCR; the first of a window goes on to set the expiry.
Increment(a) ==
    LET q == Incremented(a)
    IN  /\ arrivalPc[a] = "incr"
        /\ counters' = [counters EXCEPT ![q.bucket].count = q.count]
        /\ bucketOf' = [bucketOf EXCEPT ![a] = q]
        /\ IF q.count = 1
           THEN arrivalPc' = [arrivalPc EXCEPT ![a] = "expire"] /\ UNCHANGED admitted
           ELSE arrivalPc' = [arrivalPc EXCEPT ![a] = "done"] /\ Answers(a, q)
        /\ UNCHANGED second

\* EXPIRE, one second longer than the window; nothing if the key is gone.
SetExpiry(a) ==
    LET b == bucketOf[a].bucket
    IN  /\ arrivalPc[a] = "expire"
        /\ counters' = IF counters[b].count = 0 THEN counters
                       ELSE [counters EXCEPT ![b].expires = second + Window + 1]
        /\ Answers(a, bucketOf[a])
        /\ arrivalPc' = [arrivalPc EXCEPT ![a] = "done"]
        /\ UNCHANGED <<second, bucketOf>>

\* Redis cannot be reached, or the process dies.
ArrivalFails(a) ==
    /\ arrivalPc[a] \in {"incr", "expire"}
    /\ arrivalPc' = [arrivalPc EXCEPT ![a] = "done"]
    /\ UNCHANGED <<second, counters, bucketOf, admitted>>

\* A key is gone when its time has come, however long a request takes to
\* increment it: the client of Redis has no timeout.
ClockTicks ==
    /\ second < LastSecond
    /\ second' = second + 1
    /\ counters' = [b \in Buckets |->
                      IF counters[b].expires \in 1..second' THEN Absent ELSE counters[b]]
    /\ UNCHANGED <<arrivalPc, bucketOf, admitted>>

LimiterNext ==
    \/ \E a \in Arrivals : ComputeBucket(a) \/ Increment(a) \/ SetExpiry(a) \/ ArrivalFails(a)
    \/ ClockTicks

LimiterSpec == LimiterInit /\ [][LimiterNext]_limiterVars

-----------------------------------------------------------------------------

\* In any stretch of one window's length, at most twice the limit is admitted of
\* the requests that were counted within a second of reading the clock, whatever
\* later ones do: the windows are fixed, not sliding; and a counter that expired
\* before the second which EXPIRE adds to the window, or lost an increment, would
\* let more in (rate_limiter.py:35-43).
Punctual(x) == x.counted <= x.at + 1

AtMostTwice ==
    \A from \in 0..LastSecond :
       Cardinality({ x \in admitted : x.at \in from..from + Window - 1 /\ Punctual(x) }) <= 2 * Limit
=============================================================================
