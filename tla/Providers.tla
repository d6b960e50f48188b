----------------------------- MODULE Providers ------------------------------
(***************************************************************************)
(* Calls to services of others that are tried several times: orders of the *)
(* MoonPay adapter, submissions of the DigiLocker adapter and outbound     *)
(* webhooks.  The two adapters count the calls that fail to the last       *)
(* attempt and, at a threshold, refuse every call from then on: only an    *)
(* administrator closes the circuit.  All calls of an adapter share one    *)
(* event loop and interleave wherever they wait.                           *)
(***************************************************************************)
EXTENDS Naturals, Sequences

CONSTANTS
    Buys, Sells,      \* convert_inr_to_usdc, convert_usdc_to_inr
    Submissions,      \* submit
    Hooks,            \* deliver_webhook
    Companies,
    CompanyOf,        \* whose documents a submission carries
    OrderAttempts,    \* _MAX_RETRIES + 1 of the adapters
    HookAttempts,     \* WEBHOOK_MAX_RETRIES
    CircuitThreshold, \* _circuit_threshold
    MaxResets         \* bounds the administrator's resets

ASSUME ProvidersAssumption ==
    {OrderAttempts, HookAttempts, CircuitThreshold} \subseteq Nat \ {0} /\ MaxResets \in Nat

VARIABLES
    callPc,       \* where each call is
    tries,        \* attempts each call has made
    circuitOpen,  \* _circuit_open of each adapter
    inARow,       \* _consecutive_failures
    endings,      \* history: the outcome of each adapter's calls, in order
    submitted,    \* _submissions: the last answered submission of a company, in a set
    approvals,    \* the submissions DigiLocker has approved
    polls,        \* the reference each company's verify has read, in a set
    verified,     \* companies verify has answered TRUE for
    resets

providerVars == <<callPc, tries, circuitOpen, inARow, endings,
                  submitted, approvals, polls, verified, resets>>

Calls == Buys \cup Sells \cup Submissions \cup Hooks

Adapters == {"moonpay", "digilocker"}

AdapterOf(c) == IF c \in Submissions THEN "digilocker" ELSE "moonpay"

Attempts(c) == IF c \in Hooks THEN HookAttempts ELSE OrderAttempts

ProvidersInit ==
    /\ callPc = [c \in Calls |-> "idle"]
    /\ tries = [c \in Calls |-> 0]
    /\ circuitOpen = [p \in Adapters |-> FALSE]
    /\ inARow = [p \in Adapters |-> 0]
    /\ endings = [p \in Adapters |-> <<>>]
    /\ submitted = [e \in Companies |-> {}]
    /\ polls = [e \in Companies |-> {}]
    /\ approvals = {} /\ verified = {} /\ resets = 0

CallGoes(c, step) == callPc' = [callPc EXCEPT ![c] = step]

\* One POST.  No answer says nothing of whether the request was taken: one that
\* timed out is sent again all the same.
Post(c) == tries' = [tries EXCEPT ![c] = @ + 1]

LastAttempt(c) == tries'[c] >= Attempts(c)

SucceedsUncounted(c) ==
    /\ CallGoes(c, "done")
    /\ endings' = [endings EXCEPT ![AdapterOf(c)] = Append(@, "ok")]
    /\ UNCHANGED <<circuitOpen, inARow>>

\* A success sets the count back, and leaves a circuit that is open meanwhile as
\* it is.
Succeeds(c) ==
    /\ CallGoes(c, "done")
    /\ inARow' = [inARow EXCEPT ![AdapterOf(c)] = 0]
    /\ endings' = [endings EXCEPT ![AdapterOf(c)] = Append(@, "ok")]
    /\ UNCHANGED circuitOpen

\* "All retries exhausted".
Exhausts(c) ==
    LET p == AdapterOf(c)
        count == inARow[p] + 1
    IN  /\ CallGoes(c, "failed")
        /\ inARow' = [inARow EXCEPT ![p] = count]
        /\ circuitOpen' = [circuitOpen EXCEPT ![p] = @ \/ count >= CircuitThreshold]
        /\ endings' = [endings EXCEPT ![p] = Append(@, "exhausted")]

\* Another attempt, after a pause, as long as there are any.
Retries(c) ==
    IF LastAttempt(c) THEN Exhausts(c)
    ELSE UNCHANGED <<callPc, circuitOpen, inARow, endings>>

\* A call of an adapter whose circuit is open is refused.
BeginCallOf(c) ==
    /\ callPc[c] = "idle"
    /\ CallGoes(c, IF c \notin Hooks /\ circuitOpen[AdapterOf(c)] THEN "refused" ELSE "try")
    /\ UNCHANGED <<tries, circuitOpen, inARow, endings,
                   submitted, approvals, polls, verified, resets>>

\* An order in either direction: the exchange rate is asked for first, and never
\* fails; the order carries no key that would tell a second one from the first.
ConvertInrToUsdc(c) ==
    /\ c \in Buys /\ callPc[c] = "try"
    /\ Post(c)
    /\ \/ Succeeds(c)
       \/ Retries(c)
    /\ UNCHANGED <<submitted, approvals, polls, verified, resets>>

ConvertUsdcToInr(c) ==
    /\ c \in Sells /\ callPc[c] = "try"
    /\ Post(c)
    /\ \/ Succeeds(c)
       \/ Retries(c)
    /\ UNCHANGED <<submitted, approvals, polls, verified, resets>>

\* The reference of the answer replaces that of an earlier submission.
SubmitDocuments(c) ==
    /\ c \in Submissions /\ callPc[c] = "try"
    /\ Post(c)
    /\ \/ Succeeds(c) /\ submitted' = [submitted EXCEPT ![CompanyOf[c]] = {c}]
       \/ Retries(c) /\ UNCHANGED submitted
    /\ UNCHANGED <<approvals, polls, verified, resets>>

\* A webhook has no circuit; what becomes of it is only logged.
DeliverWebhook(c) ==
    /\ c \in Hooks /\ callPc[c] = "try"
    /\ Post(c)
    /\ \/ CallGoes(c, "done")
       \/ IF LastAttempt(c) THEN CallGoes(c, "failed") ELSE UNCHANGED callPc
    /\ UNCHANGED <<circuitOpen, inARow, endings, submitted, approvals, polls, verified, resets>>

\* DigiLocker decides about a submission it has answered.
Approve(c) ==
    /\ \E e \in Companies : c \in submitted[e]
    /\ c \notin approvals
    /\ approvals' = approvals \cup {c}
    /\ UNCHANGED <<callPc, tries, circuitOpen, inARow, endings,
                   submitted, polls, verified, resets>>

\* verify reads the reference and asks; FALSE at once with no submission or with
\* an open circuit.
BeginVerify(e) ==
    /\ polls[e] = {} /\ submitted[e] # {} /\ ~circuitOpen["digilocker"]
    /\ polls' = [polls EXCEPT ![e] = submitted[e]]
    /\ UNCHANGED <<callPc, tries, circuitOpen, inARow, endings,
                   submitted, approvals, verified, resets>>

\* "verified" is TRUE; "pending", "rejected", an error and no answer are FALSE.
Verify(e) ==
    /\ polls[e] # {}
    /\ \/ polls[e] \subseteq approvals /\ verified' = verified \cup {e}
       \/ UNCHANGED verified
    /\ polls' = [polls EXCEPT ![e] = {}]
    /\ UNCHANGED <<callPc, tries, circuitOpen, inARow, endings,
                   submitted, approvals, resets>>

\* reset_circuit_breaker, of an open circuit or not.
ResetCircuit(p) ==
    /\ resets < MaxResets
    /\ resets' = resets + 1
    /\ circuitOpen' = [circuitOpen EXCEPT ![p] = FALSE]
    /\ inARow' = [inARow EXCEPT ![p] = 0]
    /\ UNCHANGED <<callPc, tries, endings, submitted, approvals, polls, verified>>

CallAdvances(c) ==
    \/ BeginCallOf(c) \/ ConvertInrToUsdc(c) \/ ConvertUsdcToInr(c)
    \/ SubmitDocuments(c) \/ DeliverWebhook(c)

\* The two adapters and the webhooks have nothing in common.
OrdersNext ==
    \/ \E c \in Buys \cup Sells \cup Hooks : CallAdvances(c)
    \/ ResetCircuit("moonpay")

DocumentsNext ==
    \/ \E c \in Submissions : CallAdvances(c) \/ Approve(c)
    \/ \E e \in Companies : BeginVerify(e) \/ Verify(e)
    \/ ResetCircuit("digilocker")

ProvidersNext == OrdersNext \/ DocumentsNext

ProvidersSpec == ProvidersInit /\ [][ProvidersNext]_providerVars

-----------------------------------------------------------------------------

\* A circuit opens only when the last calls of its adapter to end, as many as the
\* threshold, were all exhausted: one success in between, of whichever call,
\* starts the count again (moonpay_onramp_adapter.py:211, 252-258).
CircuitEarned ==
    [][ \A p \in Adapters : circuitOpen'[p] /\ ~circuitOpen[p] =>
          LET n == Len(endings'[p])
          IN  /\ n >= CircuitThreshold
              /\ \A i \in n - CircuitThreshold + 1..n : endings'[p][i] = "exhausted"
      ]_providerVars

\* verify says TRUE of a company only if DigiLocker has approved a submission
\* that was made for it (digilocker_kyc_adapter.py:250-316).
VerifiedWasApproved == \A e \in verified : \E c \in approvals : CompanyOf[c] = e
=============================================================================
