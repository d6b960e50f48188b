----------------------------- MODULE MCAccounts -----------------------------
(***************************************************************************)
(* Small instances of the machines of identity: registration, the row of   *)
(* an enterprise, its wallet, and credentials.  They share no state, and   *)
(* each is checked alone: `part` is the one that moves.                    *)
(***************************************************************************)
EXTENDS Registration, Account, WalletLink, Credentials

VARIABLE part

\* Any two forms agree in one key at most.
MCForm(pan, gstin, email) ==
    [k \in Keys |-> CASE k = "pan" -> pan [] k = "gstin" -> gstin [] k = "email" -> email]
MCForms == {MCForm(1, 1, 1), MCForm(1, 2, 2), MCForm(2, 1, 3), MCForm(3, 3, 1)}

allVars == <<registrationVars, accountVars, walletVars, credentialVars, part>>

\* Nothing of a part that does not move is left open.
Open ==
    /\ part # "registration" => form = [r \in Registrants |-> MCForm(1, 1, 1)]
    /\ part # "account" => row.kyc = "PENDING"
    /\ part # "wallet" => challenges = {} /\ escrowed = {}
                          /\ linked = [h \in Holders |-> Nobody]

Init ==
    /\ part \in {"registration", "account", "wallet", "tokens", "keys"}
    /\ RegistrationInit /\ AccountInit /\ WalletInit /\ CredentialInit
    /\ Open

RegistrationPart(A) ==
    part = "registration" /\ A /\ UNCHANGED <<accountVars, walletVars, credentialVars, part>>
AccountPart(A) ==
    part = "account" /\ A /\ UNCHANGED <<registrationVars, walletVars, credentialVars, part>>
WalletPart(A) ==
    part = "wallet" /\ A /\ UNCHANGED <<registrationVars, accountVars, credentialVars, part>>
CredentialPart(p, A) ==
    part = p /\ A /\ UNCHANGED <<registrationVars, accountVars, walletVars, part>>

Next ==
    \/ RegistrationPart(RegistrationNext)
    \/ AccountPart(AccountNext)
    \/ WalletPart(WalletNext)
    \/ CredentialPart("tokens", TokenNext)
    \/ CredentialPart("keys", KeyNext)

\* The event loop goes on with every task that can, and PostgreSQL with every
\* transaction whose lock is free.
Spec ==
    /\ Init /\ [][Next]_allVars
    /\ \A r \in Registrants : WF_allVars(RegistrationPart(RegisterAdvances(r)))
=============================================================================
