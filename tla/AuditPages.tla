----------------------------- MODULE AuditPages ------------------------------
(***************************************************************************)
(* GET /v1/audit/{escrow_id}: a client walks through the audit log page by *)
(* page while the handlers of AuditLog append to it.  The cursor is the    *)
(* creation time of the last entry it was given.  Everything AuditLog says *)
(* of the log is checked here, with the reader in it.                      *)
(***************************************************************************)
EXTENDS AuditLog, FiniteSets

CONSTANT Limit      \* entries per page; the endpoint clamps it to 1..100

ASSUME LimitAssumption == Limit \in Nat \ {0}

VARIABLE walk       \* what the client was shown, and how it goes on

walkVars == <<rows, lock, clock, fema, gst, run, walk>>

NewWalk == [shown |-> <<>>, cursor |-> 0, atStart |-> Cardinality(DOMAIN rows),
            ended |-> FALSE]

WalkInit == Init /\ walk = NewWalk

\* list_entries: ORDER BY sequence_no LIMIT limit + 1, created after the cursor.
After == {k \in DOMAIN rows : rows[k].at > walk.cursor}
Place(k) == Cardinality({j \in After : j <= k})
Fetched == LET found == Cardinality(After)
           IN  [i \in 1..(IF found > Limit THEN Limit + 1 ELSE found) |->
                   CHOOSE k \in After : Place(k) = i]

HasMore == Len(Fetched) > Limit

Page == SubSeq(Fetched, 1, IF HasMore THEN Limit ELSE Len(Fetched))

\* A mutated form: the cursor is that of the entry fetched beyond the page.
NextPageAfterExtra ==
    /\ ~walk.ended
    /\ walk' = [walk EXCEPT !.shown  = @ \o Page,
                            !.cursor = IF HasMore THEN rows[Fetched[Limit + 1]].at ELSE @,
                            !.ended  = ~HasMore]
    /\ UNCHANGED vars

\* get_audit_log: there is a next cursor only if one more entry was found.
NextPage ==
    /\ ~walk.ended
    /\ walk' = [walk EXCEPT !.shown  = @ \o Page,
                            !.cursor = IF HasMore THEN rows[Page[Limit]].at ELSE @,
                            !.ended  = ~HasMore]
    /\ UNCHANGED vars

Restart ==
    /\ walk.ended
    /\ walk' = NewWalk
    /\ UNCHANGED vars

WalkNext == \/ Next /\ UNCHANGED walk
            \/ NextPage \/ Restart

\* A handler that runs goes on running: the event loop schedules every task and
\* PostgreSQL grants a lock to those that wait in the order they asked.  The
\* client need not go on.
WalkSpec == /\ WalkInit
            /\ [][WalkNext]_walkVars
            /\ \A e \in Events : WF_vars(Proceed(e))

\* Whatever is appended meanwhile, the client is shown the log from its first
\* entry on, nothing left out and nothing twice; and when it is told that this
\* was the last page it has seen at least what was there when it began.
PagesComplete ==
    /\ \A i \in 1..Len(walk.shown) : walk.shown[i] = i - 1
    /\ walk.ended => Len(walk.shown) >= walk.atStart
==============================================================================
