---------------------------- MODULE WalletLink -----------------------------
(***************************************************************************)
(* Proof of ownership and linking of Algorand wallets, through             *)
(* /v1/wallet/* and through the older /v1/enterprises/{id}/wallet/*.       *)
(*                                                                         *)
(* Challenges are keys in Redis, wallets are a column that no constraint   *)
(* keeps unique, and whether an escrow is active is asked of a third       *)
(* table: each is looked at, and acted upon later.                         *)
(***************************************************************************)
EXTENDS FiniteSets

CONSTANTS
    Holders,     \* enterprises
    Addresses,   \* Algorand accounts
    Visits,      \* the requests
    Nobody

ASSUME NoncesAssumption == Holders \cap Visits = {}

VARIABLES
    linked,      \* the committed wallet of each enterprise
    challenges,  \* live challenges: who issued the nonce, and for whom
    escrowed,    \* addresses of escrows that are DEPLOYED or FUNDED
    visit,       \* what each request asks
    visitPc,     \* where it is
    missed,      \* history: requests whose check has been overtaken
    granted      \* history: links answered with success

walletVars == <<linked, challenges, escrowed, visit, visitPc, missed, granted>>

Kinds == {"challenge", "link", "unlink"}

\* A nonce is named after the request that drew it, or after its enterprise when
\* it is older than all of them.
Nonces == Visits \cup Holders
Asked == [kind : Kinds, short : BOOLEAN, holder : Holders,
          address : Addresses, nonce : Nonces]
NotAsked == [kind |-> "none"]

Elsewhere(v) ==
    \E h \in Holders \ {visit[v].holder} : linked[h] = visit[v].address

\* verify_challenge_txn looks for the nonce and the enterprise, verify_challenge
\* for the key alone.
Live(v) ==
    \E c \in challenges :
        c.nonce = visit[v].nonce /\ (visit[v].short => c.holder = visit[v].holder)

WalletInit ==
    /\ linked \in [Holders -> Addresses \cup {Nobody}]
    /\ \A g, h \in Holders : linked[g] = linked[h] /\ g # h => linked[g] = Nobody
    /\ challenges \in SUBSET { [nonce |-> h, holder |-> h] : h \in Holders }
    /\ escrowed \in SUBSET { linked[h] : h \in { g \in Holders : linked[g] # Nobody } }
    /\ visit = [v \in Visits |-> NotAsked]
    /\ visitPc = [v \in Visits |-> "idle"]
    /\ missed = {} /\ granted = {}

At(v, step) == visitPc[v] = step
VisitGoes(v, step) == visitPc' = [visitPc EXCEPT ![v] = step]

\* The first step of each endpoint: the short link looks for the address
\* elsewhere, the short unlink for escrows of the wallet.
FirstStep(q) ==
    CASE q.kind = "challenge" -> IF q.short THEN "clear" ELSE "issue"
      [] q.kind = "link"      -> IF q.short THEN "look" ELSE "find"
      [] q.kind = "unlink"    -> IF q.short THEN "look" ELSE "read"

BeginVisit(v, q) ==
    /\ At(v, "idle")
    /\ visit' = [visit EXCEPT ![v] = q]
    /\ VisitGoes(v, FirstStep(q))
    /\ UNCHANGED <<linked, challenges, escrowed, missed, granted>>

\* Best-effort removal of the enterprise's challenges; a Redis error is dropped.
ClearChallenges(v) ==
    /\ At(v, "clear")
    /\ challenges' \in { challenges, { c \in challenges : c.holder # visit[v].holder } }
    /\ VisitGoes(v, IF visit[v].kind = "challenge" THEN "issue" ELSE "done")
    /\ UNCHANGED <<linked, escrowed, visit, missed, granted>>

\* create_challenge: SETEX of a fresh nonce.
IssueChallenge(v) ==
    /\ At(v, "issue")
    /\ challenges' = challenges \cup {[nonce |-> v, holder |-> visit[v].holder]}
    /\ VisitGoes(v, "done")
    /\ UNCHANGED <<linked, escrowed, visit, missed, granted>>

\* The time to live of a key, five minutes, is over.
ExpireChallenge(c) ==
    /\ c \in challenges
    /\ challenges' = challenges \ {c}
    /\ UNCHANGED <<linked, escrowed, visit, visitPc, missed, granted>>

LookNowhere(v) ==
    /\ At(v, "look")
    /\ VisitGoes(v, IF visit[v].kind = "link" THEN "find" ELSE "read")
    /\ UNCHANGED <<linked, challenges, escrowed, visit, missed, granted>>

\* The check of the short endpoints before they go on.
LookFirst(v) ==
    /\ At(v, "look")
    /\ VisitGoes(v,
         CASE visit[v].kind = "link" -> IF Elsewhere(v) THEN "done" ELSE "find"
           [] visit[v].kind = "unlink" ->
                IF linked[visit[v].holder] \in escrowed \cup {Nobody} THEN "done" ELSE "read")
    /\ UNCHANGED <<linked, challenges, escrowed, visit, missed, granted>>

\* GET of the challenge.
FindChallenge(v) ==
    /\ At(v, "find")
    /\ VisitGoes(v, IF Live(v) THEN "spend" ELSE "done")
    /\ UNCHANGED <<linked, challenges, escrowed, visit, missed, granted>>

\* The signature is valid or not; the short endpoint deletes the challenge only
\* when it is, the older one either way.
SpendChallenge(v) ==
    /\ At(v, "spend")
    /\ \E signed \in BOOLEAN :
          /\ challenges' = IF visit[v].short /\ ~signed THEN challenges
                           ELSE { c \in challenges : c.nonce # visit[v].nonce }
          /\ VisitGoes(v, IF signed THEN "read" ELSE "done")
    /\ UNCHANGED <<linked, escrowed, visit, missed, granted>>

\* link_wallet and unlink_wallet read the enterprise and apply their guard.
ReadWallet(v) ==
    /\ At(v, "read")
    /\ VisitGoes(v, IF (visit[v].kind = "link") = (linked[visit[v].holder] = Nobody)
                    THEN "write" ELSE "done")
    /\ UNCHANGED <<linked, challenges, escrowed, visit, missed, granted>>

\* The requests past their check, of the given kind.
Checked(kind) ==
    { v \in Visits : visitPc[v] \in {"find", "spend", "read", "write"}
                     /\ visit[v].kind = kind /\ visit[v].short }

\* The commit of the new wallet.
WriteWallet(v) ==
    LET h == visit[v].holder
        a == IF visit[v].kind = "link" THEN visit[v].address ELSE Nobody
    IN  /\ At(v, "write")
        /\ linked' = [linked EXCEPT ![h] = a]
        /\ missed' = missed
              \cup { w \in Checked("link") : visit[w].address = a /\ visit[w].holder # h }
              \cup { w \in Checked("unlink") \ {v} : visit[w].holder = h }
        /\ granted' = IF visit[v].kind = "link" THEN granted \cup {v} ELSE granted
        /\ VisitGoes(v, IF visit[v].kind = "unlink" /\ visit[v].short THEN "clear" ELSE "done")
        /\ UNCHANGED <<challenges, escrowed, visit>>

\* Elsewhere an escrow between linked wallets is deployed, or is settled.
EscrowOpens(h) ==
    /\ linked[h] # Nobody
    /\ escrowed' = escrowed \cup {linked[h]}
    /\ missed' = missed \cup { w \in Checked("unlink") : linked[visit[w].holder] = linked[h] }
    /\ UNCHANGED <<linked, challenges, visit, visitPc, granted>>

EscrowCloses(a) ==
    /\ a \in escrowed
    /\ escrowed' = escrowed \ {a}
    /\ UNCHANGED <<linked, challenges, visit, visitPc, missed, granted>>

VisitFails(v) ==
    /\ visitPc[v] \notin {"idle", "done"}
    /\ VisitGoes(v, "done")
    /\ UNCHANGED <<linked, challenges, escrowed, visit, missed, granted>>

VisitAdvances(v) ==
    \/ ClearChallenges(v) \/ IssueChallenge(v) \/ LookFirst(v) \/ FindChallenge(v)
    \/ SpendChallenge(v) \/ ReadWallet(v) \/ WriteWallet(v)

WalletNext ==
    \/ \E v \in Visits : (\E q \in Asked : BeginVisit(v, q)) \/ VisitAdvances(v) \/ VisitFails(v)
    \/ \E c \in challenges : ExpireChallenge(c)
    \/ \E h \in Holders : EscrowOpens(h)
    \/ \E a \in Addresses : EscrowCloses(a)

WalletSpec == WalletInit /\ [][WalletNext]_walletVars

-----------------------------------------------------------------------------

\* A challenge is for one use: once a link has been answered with success its
\* nonce is no longer live, whoever else was using it (wallet_verifier.py:278).
ChallengeSpent ==
    \A v \in granted : \A c \in challenges : c.nonce # visit[v].nonce

\* What /v1/wallet/link and DELETE /v1/wallet/link check still holds when they
\* commit, unless another request or an escrow came in between: the address is
\* no other enterprise's, and no active escrow names the wallet
\* (wallet/api/router.py:137-150, 225-249).
ChecksHoldWhenMade ==
    [][ \A v \in Visits \ missed :
          At(v, "write") /\ visitPc'[v] # "write" /\ linked' # linked /\ visit[v].short =>
             CASE visit[v].kind = "link"   -> ~Elsewhere(v)
               [] visit[v].kind = "unlink" -> linked[visit[v].holder] \notin escrowed ]_walletVars
=============================================================================
