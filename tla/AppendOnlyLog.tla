---------------------------- MODULE AppendOnlyLog ----------------------------
(***************************************************************************)
(* What the audit log of an escrow promises: a sequence that only grows at *)
(* its end, by one event at a time, and holds no event twice.              *)
(***************************************************************************)
EXTENDS Naturals, Sequences

CONSTANT Events

VARIABLE history

Init == history = <<>>

Record(e) == /\ \A i \in 1..Len(history) : history[i] # e
             /\ history' = Append(history, e)

Next == \E e \in Events : Record(e)

Spec == Init /\ [][Next]_history
==============================================================================
