--------------------------- MODULE CircuitBreaker ---------------------------
(***************************************************************************)
(* The circuit breaker whose state is four keys of Redis: every caller, in *)
(* every process, reads and writes them one command at a time.             *)
(***************************************************************************)
EXTENDS Naturals

CONSTANTS
    Callers,            \* concurrent callers; each calls again and again
    FailureThreshold,
    SuccessThreshold

ASSUME ThresholdAssumption ==
    FailureThreshold \in Nat \ {0} /\ SuccessThreshold \in Nat \ {0}

VARIABLES
    circuit,       \* cb:name:state; "CLOSED" when it is absent
    failures,      \* cb:name:failures, counted up to the threshold
    successes,     \* cb:name:successes, counted up to the threshold
    lastFailure,   \* cb:name:last_failure: "none", "recent", or "old" for more than the timeout
    callerPc,      \* where each caller is
    asking,        \* what each caller asks get_state for
    healthy        \* whether the service and Redis answer and no process dies

breakerVars == <<circuit, failures, successes, lastFailure, callerPc, asking, healthy>>

BreakerInit ==
    /\ circuit = "CLOSED" /\ failures = 0 /\ successes = 0 /\ lastFailure = "none"
    /\ callerPc = [c \in Callers |-> "idle"]
    /\ asking = [c \in Callers |-> "admission"]
    /\ healthy = TRUE

CallerGoes(c, step) == callerPc' = [callerPc EXCEPT ![c] = step]

\* Only the comparison with the threshold matters of a counter.
Counted(n, threshold) == IF n < threshold THEN n + 1 ELSE n

\* call asks get_state whether to go on, and _on_success how to count.
Told(c, state) ==
    IF asking[c] = "admission"
    THEN IF state = "OPEN" THEN "idle" ELSE "call"
    ELSE CASE state = "OPEN"      -> "idle"
           [] state = "HALF_OPEN" -> "count"
           [] state = "CLOSED"    -> "forget"

\* GET of the state; an OPEN circuit is looked at again, for its date.
GetState(c) ==
    /\ callerPc[c] = "ask"
    /\ CallerGoes(c, IF circuit = "OPEN" THEN "dated" ELSE Told(c, circuit))
    /\ UNCHANGED <<circuit, failures, successes, lastFailure, asking, healthy>>

GetDate(c) ==
    /\ callerPc[c] = "dated"
    /\ CallerGoes(c, IF lastFailure = "old" THEN "halve" ELSE Told(c, "OPEN"))
    /\ UNCHANGED <<circuit, failures, successes, lastFailure, asking, healthy>>

\* The timeout is over: OPEN becomes HALF_OPEN.
SetHalfOpen(c) ==
    /\ callerPc[c] = "halve"
    /\ circuit' = "HALF_OPEN"
    /\ CallerGoes(c, Told(c, "HALF_OPEN"))
    /\ UNCHANGED <<failures, successes, lastFailure, asking, healthy>>

BeginCall(c) ==
    /\ callerPc[c] = "idle"
    /\ CallerGoes(c, "ask")
    /\ asking' = [asking EXCEPT ![c] = "admission"]
    /\ UNCHANGED <<circuit, failures, successes, lastFailure, healthy>>

\* The wrapped coroutine.
CallService(c) ==
    /\ callerPc[c] = "call"
    /\ \/ CallerGoes(c, "ask")
       \/ ~healthy /\ CallerGoes(c, "failed")
    /\ asking' = [asking EXCEPT ![c] = "success"]
    /\ UNCHANGED <<circuit, failures, successes, lastFailure, healthy>>

\* _on_failure: INCR failures, SET last_failure, SET state.
CountFailure(c) ==
    /\ callerPc[c] = "failed"
    /\ failures' = Counted(failures, FailureThreshold)
    /\ CallerGoes(c, IF failures' >= FailureThreshold THEN "date-open" ELSE "date")
    /\ UNCHANGED <<circuit, successes, lastFailure, asking, healthy>>

DateFailure(c) ==
    /\ callerPc[c] \in {"date", "date-open"}
    /\ lastFailure' = "recent"
    /\ CallerGoes(c, IF callerPc[c] = "date" THEN "idle" ELSE "open")
    /\ UNCHANGED <<circuit, failures, successes, asking, healthy>>

SetOpen(c) ==
    /\ callerPc[c] = "open"
    /\ circuit' = "OPEN"
    /\ CallerGoes(c, "idle")
    /\ UNCHANGED <<failures, successes, lastFailure, asking, healthy>>

\* _on_success: INCR successes in a half-open circuit, DELETE the counters and
\* SET the state at the threshold; in a closed one, DELETE failures.
CountSuccess(c) ==
    /\ callerPc[c] = "count"
    /\ successes' = Counted(successes, SuccessThreshold)
    /\ CallerGoes(c, IF successes' >= SuccessThreshold THEN "clear" ELSE "idle")
    /\ UNCHANGED <<circuit, failures, lastFailure, asking, healthy>>

ClearThenIdle(c) ==
    /\ callerPc[c] \in {"clear", "forget"}
    /\ failures' = 0
    /\ successes' = IF callerPc[c] = "clear" THEN 0 ELSE successes
    /\ CallerGoes(c, "idle")
    /\ UNCHANGED <<circuit, lastFailure, asking, healthy>>

ClearCounters(c) ==
    /\ callerPc[c] \in {"clear", "forget"}
    /\ failures' = 0
    /\ IF callerPc[c] = "clear" THEN successes' = 0 /\ CallerGoes(c, "close")
       ELSE UNCHANGED successes /\ CallerGoes(c, "idle")
    /\ UNCHANGED <<circuit, lastFailure, asking, healthy>>

SetClosed(c) ==
    /\ callerPc[c] = "close"
    /\ circuit' = "CLOSED"
    /\ CallerGoes(c, "idle")
    /\ UNCHANGED <<failures, successes, lastFailure, asking, healthy>>

\* In times of trouble a Redis command may fail, or a process die, between any
\* two commands.
CallerDies(c) ==
    /\ ~healthy /\ callerPc[c] # "idle"
    /\ CallerGoes(c, "idle")
    /\ UNCHANGED <<circuit, failures, successes, lastFailure, asking, healthy>>

\* _on_success runs inside the try of call: its own error counts as a failure of
\* the service.
SuccessFails(c) ==
    /\ ~healthy /\ asking[c] = "success"
    /\ callerPc[c] \in {"ask", "dated", "halve", "count", "clear", "forget", "close"}
    /\ CallerGoes(c, "failed")
    /\ UNCHANGED <<circuit, failures, successes, lastFailure, asking, healthy>>

\* The recovery timeout passes.
DateAges ==
    /\ lastFailure = "recent" /\ lastFailure' = "old"
    /\ UNCHANGED <<circuit, failures, successes, callerPc, asking, healthy>>

\* Trouble begins or ends.
HealthChanges ==
    /\ healthy' = ~healthy
    /\ UNCHANGED <<circuit, failures, successes, lastFailure, callerPc, asking>>

CallerAdvances(c) ==
    \/ BeginCall(c) \/ GetState(c) \/ GetDate(c) \/ SetHalfOpen(c) \/ CallService(c)
    \/ CountFailure(c) \/ DateFailure(c) \/ SetOpen(c)
    \/ CountSuccess(c) \/ ClearCounters(c) \/ SetClosed(c)

BreakerNext ==
    \/ \E c \in Callers : CallerAdvances(c) \/ CallerDies(c) \/ SuccessFails(c)
    \/ DateAges \/ HealthChanges

BreakerSpec == BreakerInit /\ [][BreakerNext]_breakerVars

-----------------------------------------------------------------------------

\* An open circuit has a date to recover from: get_state leaves one without a
\* date open for ever (circuit_breaker.py:65-73, 92-96).
OpenHasDate == circuit = "OPEN" => lastFailure # "none"

\* Callers that keep calling a service that has recovered get a closed circuit
\* again, whatever their commands and their deaths have left in Redis.
CircuitCloses == <>[]healthy => []<>(circuit = "CLOSED")
=============================================================================
