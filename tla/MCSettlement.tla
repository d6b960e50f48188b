---------------------------- MODULE MCSettlement -----------------------------
(***************************************************************************)
(* Small instances of Settlement.  The endpoints fall into two families,   *)
(* the platform wallet's and the Pera wallet's; unfreeze_escrow is a       *)
(* method of the service that no endpoint calls.                           *)
(***************************************************************************)
EXTENDS Settlement, TLC

AdminEndpoints    == {"createPending", "approve", "reject", "freeze"}
PlatformEndpoints == {"deploy", "platformDeploy", "fund", "platformFund",
                      "release", "platformRelease", "refund"}
PeraEndpoints     == {"peraDeploy", "peraFund", "peraRelease", "peraRefund"}

AllEndpoints == AdminEndpoints \cup PlatformEndpoints \cup PeraEndpoints
PlatformFlow == AdminEndpoints \cup PlatformEndpoints
PeraFlow     == AdminEndpoints \cup PeraEndpoints

\* One of each kind that differs in its steps: with and without a second read,
\* with a row that is kept, with and without anchoring, by the platform's wallet
\* and by the user's.
Representatives == AdminEndpoints \cup PeraEndpoints
                   \cup {"deploy", "platformDeploy", "fund", "release", "refund"}

Symmetry == Permutations(Requests)
==============================================================================
