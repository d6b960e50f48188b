------------------------------ MODULE AuditLog -------------------------------
(***************************************************************************)
(* The compliance handlers of one escrow's events at work, all at once:    *)
(* ComplianceService.append_audit_event under its advisory lock and, for   *)
(* a release, generate_compliance_records without any.                     *)
(*                                                                         *)
(* Each event is dispatched once, to a handler with a database session of  *)
(* its own; the handler may fail anywhere and is never run again.  The     *)
(* database is PostgreSQL at READ COMMITTED: a statement sees what was     *)
(* committed when it began.  Two releases of one escrow do occur: with an  *)
(* application of the platform wallet the chain refuses neither.           *)
(***************************************************************************)
EXTENDS Integers, Sequences

CONSTANTS Events,     \* what happens to the escrow
          Releases,   \* those among it that are EscrowReleased
          None

ASSUME ReleasesAssumption == Releases \subseteq Events

ASSUME NoneAssumption == None \notin Events

VARIABLES rows,    \* committed audit entries by sequence_no, which is UNIQUE
          lock,    \* who holds the advisory lock of the escrow
          clock,   \* the wall clock, in microseconds
          fema,    \* the release the FEMA record was made from
          gst,     \* the release the GST record was made from
          run      \* the handler of each event

vars == <<rows, lock, clock, fema, gst, run>>

(***************************************************************************)
(* SHA-256 is taken to be free of collisions: the hash of an entry is the  *)
(* list of the events that went into it.                                   *)
(***************************************************************************)
Genesis == <<>>

Hash(prev, e) == Append(prev, e)

Hashes == Seq(Events)

Entry == [event : Events, prev : Hashes, hash : Hashes, at : Nat]

Steps == {"ready", "lock", "latest", "commit", "fema", "gst", "records", "done"}

\* A handler: its step, the number and the content of the entry it is about to
\* insert, and the compliance records it found.
Run == [step : Steps, no : Nat, prev : Hashes, at : Nat,
        fema : Releases \cup {None}, gst : Releases \cup {None}]

NotRun == [step |-> "ready", no |-> 0, prev |-> Genesis, at |-> 0,
           fema |-> None, gst |-> None]

TypeOK == /\ rows \in [DOMAIN rows -> Entry]
          /\ DOMAIN rows \subseteq Nat
          /\ lock \in Events \cup {None}
          /\ clock \in Nat
          /\ {fema, gst} \subseteq Releases \cup {None}
          /\ run \in [Events -> Run]

Init == /\ rows = [k \in {} |-> None]
        /\ lock = None
        /\ clock = 0
        /\ fema = None
        /\ gst = None
        /\ run = [e \in Events |-> NotRun]

Goto(e, step) == run' = [run EXCEPT ![e].step = step]

(***************************************************************************)
(* append_audit_event.                                                     *)
(***************************************************************************)

\* The event is published and its handler asks for the lock.
Start(e) ==
    /\ run[e].step = "ready"
    /\ Goto(e, "lock")
    /\ UNCHANGED <<rows, lock, clock, fema, gst>>

\* A mutated form: the lock is not taken.
LatestUnlocked(e) ==
    /\ run[e].step = "lock"
    /\ Goto(e, "latest")
    /\ UNCHANGED <<rows, lock, clock, fema, gst>>

\* pg_advisory_xact_lock returns.
AcquireLock(e) ==
    /\ run[e].step = "lock"
    /\ lock = None
    /\ lock' = e
    /\ Goto(e, "latest")
    /\ UNCHANGED <<rows, clock, fema, gst>>

\* get_latest: the entry with the highest number.
IsLatest(k) == k \in DOMAIN rows /\ \A j \in DOMAIN rows : j <= k

LinkTo(e, no, prev) ==
    run' = [run EXCEPT ![e] = [@ EXCEPT !.step = "commit", !.no = no,
                                        !.prev = prev, !.at = clock']]

\* A mutated form: links the new entry to what the latest one is linked to.
LinkToPrevious(e) ==
    /\ run[e].step = "latest"
    /\ clock' = clock + 1
    /\ \/ DOMAIN rows = {} /\ LinkTo(e, 0, Genesis)
       \/ \E k \in DOMAIN rows : IsLatest(k) /\ LinkTo(e, k + 1, rows[k].prev)
    /\ UNCHANGED <<rows, lock, fema, gst>>

\* The latest entry gives the number and the hash that AuditEntry.create links
\* to; the entry takes its creation time at that moment.
Link(e) ==
    /\ run[e].step = "latest"
    /\ clock' = clock + 1
    /\ \/ DOMAIN rows = {} /\ LinkTo(e, 0, Genesis)
       \/ \E k \in DOMAIN rows : IsLatest(k) /\ LinkTo(e, k + 1, rows[k].hash)
    /\ UNCHANGED <<rows, lock, fema, gst>>

NewEntry(e) == [event |-> e, prev |-> run[e].prev,
                hash  |-> Hash(run[e].prev, e), at |-> run[e].at]

Inserted(k, entry) == [j \in DOMAIN rows \cup {k} |-> IF j = k THEN entry ELSE rows[j]]

\* A mutated form: a lock of the session (pg_advisory_lock) survives the COMMIT.
CommitHolding(e) ==
    /\ run[e].step = "commit"
    /\ rows' = Inserted(run[e].no, NewEntry(e))
    /\ Goto(e, IF e \in Releases THEN "fema" ELSE "done")
    /\ UNCHANGED <<lock, clock, fema, gst>>

\* The INSERT, refused when the number is taken, and the COMMIT, which lets go
\* of the lock.  The handler of a release goes on.
Commit(e) ==
    /\ run[e].step = "commit"
    /\ IF run[e].no \notin DOMAIN rows
       THEN /\ rows' = Inserted(run[e].no, NewEntry(e))
            /\ Goto(e, IF e \in Releases THEN "fema" ELSE "done")
       ELSE /\ Goto(e, "done")
            /\ UNCHANGED rows
    /\ lock' = None
    /\ UNCHANGED <<clock, fema, gst>>

(***************************************************************************)
(* generate_compliance_records.                                            *)
(***************************************************************************)
ReadFema(e) ==
    /\ run[e].step = "fema"
    /\ run' = [run EXCEPT ![e].step = "gst", ![e].fema = fema]
    /\ UNCHANGED <<rows, lock, clock, fema, gst>>

\* With both records there it returns them.
ReadGst(e) ==
    /\ run[e].step = "gst"
    /\ run' = [run EXCEPT ![e].gst  = gst,
                          ![e].step = IF run[e].fema # None /\ gst # None
                                      THEN "done" ELSE "records"]
    /\ UNCHANGED <<rows, lock, clock, fema, gst>>

\* A mutated form: an upsert where the UNIQUE constraint refuses.
UpsertRecords(e) ==
    /\ run[e].step = "records"
    /\ fema' = IF run[e].fema = None THEN e ELSE fema
    /\ gst'  = IF run[e].gst = None THEN e ELSE gst
    /\ Goto(e, "done")
    /\ UNCHANGED <<rows, lock, clock>>

\* What was missing is inserted in one transaction; escrow_id is UNIQUE in both
\* tables, and one refusal undoes both.
InsertRecords(e) ==
    LET newFema == run[e].fema = None
        newGst  == run[e].gst = None
    IN  /\ run[e].step = "records"
        /\ IF (newFema => fema = None) /\ (newGst => gst = None)
           THEN /\ fema' = IF newFema THEN e ELSE fema
                /\ gst'  = IF newGst THEN e ELSE gst
           ELSE UNCHANGED <<fema, gst>>
        /\ Goto(e, "done")
        /\ UNCHANGED <<rows, lock, clock>>

\* The handler raises, or its process dies: the transaction is rolled back and
\* its lock released.
Fail(e) ==
    /\ run[e].step \notin {"ready", "done"}
    /\ Goto(e, "done")
    /\ lock' = IF lock = e THEN None ELSE lock
    /\ UNCHANGED <<rows, clock, fema, gst>>

Proceed(e) == \/ AcquireLock(e) \/ Link(e) \/ Commit(e)
              \/ ReadFema(e) \/ ReadGst(e) \/ InsertRecords(e)

Next == \E e \in Events : Start(e) \/ Proceed(e) \/ Fail(e)

Spec == Init /\ [][Next]_vars

(***************************************************************************)
(* Properties.                                                             *)
(***************************************************************************)

\* AuditChainVerifier.verify on what is committed: in the order of sequence_no
\* every entry is consistent and carries the hash of the one before.
Precedes(j, k) == j < k /\ \A i \in DOMAIN rows : i < k => i <= j

VerifierAccepts ==
    \A k \in DOMAIN rows :
        /\ rows[k].hash = Hash(rows[k].prev, rows[k].event)
        /\ (\A j \in DOMAIN rows : j >= k) => rows[k].prev = Genesis
        /\ \A j \in DOMAIN rows : Precedes(j, k) => rows[k].prev = rows[j].hash

\* The lock does what it is for: whoever is about to insert has a number that is
\* free and is linked to the entry that still is the latest, so no entry is lost
\* to the UNIQUE constraint.  (The constraint alone would keep the chain valid,
\* at the price of events that never reach it.)
NothingRefused ==
    \A e \in Events : run[e].step = "commit" =>
        /\ run[e].no \notin DOMAIN rows
        /\ \A k \in DOMAIN rows : IsLatest(k) => run[e].prev = rows[k].hash

\* The FEMA and GST records of the escrow come from one release, which is in the
\* log, although each is looked for by itself and nothing is locked.
RecordsOfOneRelease ==
    /\ fema = gst
    /\ fema # None => \E k \in DOMAIN rows : rows[k].event = fema

\* Every handler that was started ends, by itself or by failing: the lock goes
\* round.
EveryHandlerEnds == \A e \in Events : run[e].step = "lock" ~> run[e].step = "done"

(***************************************************************************)
(* The log implements AppendOnlyLog: the hash of its latest entry is its   *)
(* history.                                                                *)
(***************************************************************************)
historyOf == IF DOMAIN rows = {} THEN Genesis
             ELSE rows[CHOOSE k \in DOMAIN rows : IsLatest(k)].hash

History == INSTANCE AppendOnlyLog WITH history <- historyOf

\* Entries are only ever added, at the end, and each event once.
OnlyAppends == History!Spec
==============================================================================
