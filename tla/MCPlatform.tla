----------------------------- MODULE MCPlatform -----------------------------
(***************************************************************************)
(* Small instances of the machines beside the trade itself: treasury, the  *)
(* shared infrastructure, outside providers, the seller's profile, prices  *)
(* and event streams of a negotiation, exports, tax records and Merkle     *)
(* roots.  They share no state, and each is checked alone: `part` is the   *)
(* one that moves.                                                         *)
(***************************************************************************)
EXTENDS Treasury, CircuitBreaker, TaskQueue, RateLimiter, Providers,
        CapabilityProfile, ExportJobs, Pricing, EventStream, TaxRecords, MerkleTree, TLC

VARIABLE part

MCExports == {"x1", "x2"}
MCWanted == "x1" :> <<"e1", "e2">> @@ "x2" :> <<"e2">>

MCSubmissions == {"s1", "s2", "s3"}
MCCompanyOf == "s1" :> "x" @@ "s2" :> "x" @@ "s3" :> "y"

\* A seller's floor is above its markup in the second profile and the third.
MCProfiles == {[budget |-> 1000, floor |-> 10, appetite |-> "MEDIUM"],
               [budget |-> 1501, floor |-> 16, appetite |-> "LOW"],
               [budget |-> 1001, floor |-> 80, appetite |-> "HIGH"]}

\* Every remainder of a rounding, and both sides of the threshold.
MCWorths == 0..250 \cup 499999980..500000020
MCTraders == [state : {"27", "29"}, digit : BOOLEAN]

\* A ramp that rises from nothing to everything.
MCRamp == [i \in 0..MaxRounds |-> (1000 * i * i) \div (MaxRounds * MaxRounds)]

vars == <<treasuryVars, breakerVars, queueVars, limiterVars, providerVars, profileVars,
          exportVars, pricingVars, streamVars, taxVars, trail>>
allVars == <<vars, part>>

\* Nothing of a part that does not move is left open.
Open ==
    /\ part # "treasury" => pool = {} /\ position = {}
    /\ part # "profile" => textOf = [e \in Edits |-> e]
    /\ part # "prices" => \A s \in Sides : profiles[s].budget = 1000

Init ==
    /\ part \in {"treasury", "breaker", "queue", "limiter", "orders", "documents",
                 "profile", "exports", "prices", "stream", "taxes", "merkle"}
    /\ TreasuryInit /\ BreakerInit /\ QueueInit /\ LimiterInit
    /\ ProvidersInit /\ ProfileInit /\ ExportInit /\ PricingInit
    /\ StreamInit /\ TaxInit /\ MerkleInit
    /\ Open

TreasuryPart(A) ==
    /\ part = "treasury" /\ A
    /\ UNCHANGED <<breakerVars, queueVars, limiterVars, providerVars, profileVars,
                   exportVars, pricingVars, streamVars, taxVars, trail, part>>
BreakerPart(A) ==
    /\ part = "breaker" /\ A
    /\ UNCHANGED <<treasuryVars, queueVars, limiterVars, providerVars, profileVars,
                   exportVars, pricingVars, streamVars, taxVars, trail, part>>
QueuePart(A) ==
    /\ part = "queue" /\ A
    /\ UNCHANGED <<treasuryVars, breakerVars, limiterVars, providerVars, profileVars,
                   exportVars, pricingVars, streamVars, taxVars, trail, part>>
LimiterPart(A) ==
    /\ part = "limiter" /\ A
    /\ UNCHANGED <<treasuryVars, breakerVars, queueVars, providerVars, profileVars,
                   exportVars, pricingVars, streamVars, taxVars, trail, part>>
ProviderPart(p, A) ==
    /\ part = p /\ A
    /\ UNCHANGED <<treasuryVars, breakerVars, queueVars, limiterVars, profileVars,
                   exportVars, pricingVars, streamVars, taxVars, trail, part>>
ProfilePart(A) ==
    /\ part = "profile" /\ A
    /\ UNCHANGED <<treasuryVars, breakerVars, queueVars, limiterVars, providerVars,
                   exportVars, pricingVars, streamVars, taxVars, trail, part>>
ExportPart(A) ==
    /\ part = "exports" /\ A
    /\ UNCHANGED <<treasuryVars, breakerVars, queueVars, limiterVars, providerVars,
                   profileVars, pricingVars, streamVars, taxVars, trail, part>>
PricePart(A) ==
    /\ part = "prices" /\ A
    /\ UNCHANGED <<treasuryVars, breakerVars, queueVars, limiterVars, providerVars,
                   profileVars, exportVars, streamVars, taxVars, trail, part>>
StreamPart(A) ==
    /\ part = "stream" /\ A
    /\ UNCHANGED <<treasuryVars, breakerVars, queueVars, limiterVars, providerVars,
                   profileVars, exportVars, pricingVars, taxVars, trail, part>>
TaxPart(A) ==
    /\ part = "taxes" /\ A
    /\ UNCHANGED <<treasuryVars, breakerVars, queueVars, limiterVars, providerVars,
                   profileVars, exportVars, pricingVars, streamVars, trail, part>>
MerklePart(A) ==
    /\ part = "merkle" /\ A
    /\ UNCHANGED <<treasuryVars, breakerVars, queueVars, limiterVars, providerVars,
                   profileVars, exportVars, pricingVars, streamVars, taxVars, part>>

Next ==
    \/ TreasuryPart(TreasuryNext)
    \/ BreakerPart(BreakerNext)
    \/ QueuePart(QueueNext)
    \/ LimiterPart(LimiterNext)
    \/ ProviderPart("orders", OrdersNext)
    \/ ProviderPart("documents", DocumentsNext)
    \/ ProfilePart(ProfileNext)
    \/ ExportPart(ExportNext)
    \/ PricePart(PricingNext)
    \/ StreamPart(StreamNext)
    \/ TaxPart(TaxNext)
    \/ MerklePart(AddEntry)

\* Of the breaker's machine, the one with a liveness property: a caller goes on
\* calling, its calls end, and time passes.
Spec ==
    /\ Init /\ [][Next]_allVars
    /\ \A c \in Callers : WF_allVars(BreakerPart(CallerAdvances(c)))
    /\ WF_allVars(BreakerPart(DateAges))
=============================================================================
