---------------------------- MODULE EscrowPromise ----------------------------
(***************************************************************************)
(* What the escrow contract promises its parties, without senders, calls,  *)
(* payments or balances: the agreed amount is put in once, it then goes to *)
(* exactly one of the two parties or stays, and nothing moves while the    *)
(* escrow is frozen.                                                       *)
(***************************************************************************)
VARIABLES holder,     \* where the agreed amount is
          frozen

Holders == {"outside", "escrow", "seller", "buyer"}

Init == /\ holder = "outside"
        /\ frozen = FALSE

Deposit == /\ holder = "outside" /\ ~frozen
           /\ holder' = "escrow"
           /\ UNCHANGED frozen

PayOut == /\ holder = "escrow" /\ ~frozen
          /\ holder' \in {"seller", "buyer"}
          /\ UNCHANGED frozen

Toggle == /\ frozen' = ~frozen
          /\ UNCHANGED holder

Next == Deposit \/ PayOut \/ Toggle

Spec == Init /\ [][Next]_<<holder, frozen>>
==============================================================================
