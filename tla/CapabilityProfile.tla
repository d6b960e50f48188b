------------------------- MODULE CapabilityProfile --------------------------
(***************************************************************************)
(* The capability profile of one seller: edits, each of which writes every *)
(* column and sets the embedding to NULL, and the recomputations of the    *)
(* embedding, which read the row in a session of their own, wait for the   *)
(* embedder, and write every column back.                                  *)
(***************************************************************************)
EXTENDS Naturals

CONSTANTS
    Edits,      \* PUT requests, each with a text of its own
    Recomputes, \* POST requests for an embedding
    Empty       \* the text of a profile with nothing to embed

ASSUME ProfileAssumption == Edits \cap Recomputes = {} /\ Empty \notin Edits \cup Recomputes

VARIABLES
    profileRow,   \* the committed row, in a set: its text, and what text its embedding is of
    profileLock,  \* who has an UPDATE or an INSERT of the row uncommitted, in a set
    editPc,       \* where each PUT is
    found,        \* whether the first look-up of a PUT has found a row
    textOf,       \* the text of each PUT
    taskPc,       \* where the recomputation of each request is
    copyOf,       \* the text it has read
    amiss,        \* history: a recomputation failed, or read before its PUT was committed
    standing      \* history: the last PUT that wrote, in a set, unless it was overtaken

profileVars == <<profileRow, profileLock, editPc, found, textOf, taskPc, copyOf, amiss, standing>>

Jobs == Edits \cup Recomputes

ProfileInit ==
    /\ profileRow = {} /\ profileLock = {}
    /\ editPc = [e \in Edits |-> "idle"]
    /\ found = [e \in Edits |-> FALSE]
    /\ textOf \in [Edits -> Edits \cup {Empty}] /\ \A e \in Edits : textOf[e] \in {e, Empty}
    /\ taskPc = [j \in Jobs |-> "none"]
    /\ copyOf = [j \in Jobs |-> Empty]
    /\ amiss = FALSE /\ standing = {}

\* Who holds the row: a PUT and its recomputation are different transactions.
PutOf(e) == <<"put", e>>
TaskOf(j) == <<"task", j>>

EditGoes(e, step) == editPc' = [editPc EXCEPT ![e] = step]
TaskGoes(j, step) == taskPc' = [taskPc EXCEPT ![j] = step]

\* The first look-up: the profile of the row, or a new one with an id of its own.
ReadProfile(e) ==
    /\ editPc[e] = "idle"
    /\ found' = [found EXCEPT ![e] = profileRow # {}]
    /\ EditGoes(e, "read again")
    /\ UNCHANGED <<profileRow, profileLock, textOf, taskPc, copyOf, amiss, standing>>

\* The second one says whether to UPDATE or to INSERT; another PUT may have
\* been committed since the first.
ReadAgain(e) ==
    /\ editPc[e] = "read again"
    /\ EditGoes(e, IF profileRow # {} THEN "update" ELSE "insert")
    /\ UNCHANGED <<profileRow, profileLock, found, textOf, taskPc, copyOf, amiss, standing>>

\* UPDATE ... WHERE id: it waits for whoever holds the row, but that of a new
\* profile names no row, locks none and changes none.
UpdateProfile(e) ==
    /\ editPc[e] = "update"
    /\ IF found[e] THEN profileLock = {} /\ profileLock' = {PutOf(e)}
                   ELSE UNCHANGED profileLock
    /\ EditGoes(e, "schedule")
    /\ UNCHANGED <<profileRow, found, textOf, taskPc, copyOf, amiss, standing>>

\* An INSERT that waits for another and is refused if that is committed: the
\* enterprise_id is UNIQUE.
InsertProfile(e) ==
    /\ editPc[e] = "insert" /\ profileLock = {}
    /\ IF profileRow = {} THEN EditGoes(e, "schedule") /\ profileLock' = {PutOf(e)}
                          ELSE EditGoes(e, "done") /\ UNCHANGED profileLock
    /\ UNCHANGED <<profileRow, found, textOf, taskPc, copyOf, amiss, standing>>

ScheduleForNew(e) ==
    /\ editPc[e] = "schedule"
    /\ EditGoes(e, "commit")
    /\ IF found[e] THEN UNCHANGED taskPc ELSE TaskGoes(e, "read")
    /\ UNCHANGED <<profileRow, profileLock, found, textOf, copyOf, amiss, standing>>

\* The recomputation is created before the router commits, and may read first.
ScheduleRecompute(e) ==
    /\ editPc[e] = "schedule"
    /\ EditGoes(e, "commit")
    /\ TaskGoes(e, "read")
    /\ UNCHANGED <<profileRow, profileLock, found, textOf, copyOf, amiss, standing>>

\* A recomputation has read, and will write what it has read.
Overtaken == \E j \in Jobs : taskPc[j] \in {"embed", "commit"}

\* The PUT answers success, whether its UPDATE has changed a row or not.
CommitEdit(e) ==
    /\ editPc[e] = "commit"
    /\ EditGoes(e, "done")
    /\ IF PutOf(e) \in profileLock
       THEN /\ profileRow' = {[text |-> textOf[e], of |-> {}]}
            /\ profileLock' = {}
            /\ amiss' = (amiss \/ taskPc[e] \in {"embed", "commit", "done"})
            /\ standing' = IF Overtaken THEN {} ELSE {e}
       ELSE UNCHANGED <<profileRow, profileLock, amiss, standing>>
    /\ UNCHANGED <<found, textOf, taskPc, copyOf>>

\* POST /capability-profile/embeddings runs the same coroutine, if there is a row.
AskRecompute(j) ==
    /\ j \in Recomputes /\ taskPc[j] = "none" /\ profileRow # {}
    /\ TaskGoes(j, "read")
    /\ UNCHANGED <<profileRow, profileLock, editPc, found, textOf, copyOf, amiss, standing>>

ReadOwnEdit(j) ==
    /\ taskPc[j] = "read" /\ profileRow # {}
    /\ copyOf' = [copyOf EXCEPT ![j] = IF j \in Edits THEN textOf[j] ELSE Empty]
    /\ TaskGoes(j, IF copyOf'[j] = Empty THEN "done" ELSE "embed")
    /\ UNCHANGED <<profileRow, profileLock, editPc, found, textOf, amiss, standing>>

\* It returns at once without a row, or with nothing to embed.
ReadCommitted(j) ==
    /\ taskPc[j] = "read"
    /\ \/ profileRow = {} /\ TaskGoes(j, "done") /\ UNCHANGED copyOf
       \/ \E r \in profileRow :
             /\ copyOf' = [copyOf EXCEPT ![j] = r.text]
             /\ TaskGoes(j, IF r.text = Empty THEN "done" ELSE "embed")
    /\ UNCHANGED <<profileRow, profileLock, editPc, found, textOf, amiss, standing>>

\* The embedder answers; the UPDATE waits for the lock of the row.
WriteEmbedding(j) ==
    /\ taskPc[j] = "embed" /\ profileLock = {}
    /\ profileLock' = {TaskOf(j)}
    /\ TaskGoes(j, "commit")
    /\ UNCHANGED <<profileRow, editPc, found, textOf, copyOf, amiss, standing>>

\* Every column is written, those it has read with the embedding of them.
CommitEmbedding(j) ==
    /\ taskPc[j] = "commit"
    /\ profileRow' = {[text |-> copyOf[j], of |-> {copyOf[j]}]}
    /\ profileLock' = {} /\ TaskGoes(j, "done")
    /\ UNCHANGED <<editPc, found, textOf, copyOf, amiss, standing>>

\* The process of a PUT dies or its database fails: nothing is committed, and a
\* recomputation that was scheduled goes on.
EditFails(e) ==
    /\ editPc[e] \notin {"idle", "done"}
    /\ EditGoes(e, "done")
    /\ profileLock' = profileLock \ {PutOf(e)}
    /\ UNCHANGED <<profileRow, found, textOf, taskPc, copyOf, amiss, standing>>

\* The embedder or the database fails, which is logged; nothing tries again.
RecomputeFails(j) ==
    /\ taskPc[j] \in {"read", "embed", "commit"}
    /\ TaskGoes(j, "done")
    /\ profileLock' = profileLock \ {TaskOf(j)}
    /\ amiss' = TRUE
    /\ UNCHANGED <<profileRow, editPc, found, textOf, copyOf, standing>>

ProfileNext ==
    \/ \E e \in Edits : \/ ReadProfile(e) \/ ReadAgain(e) \/ UpdateProfile(e) \/ InsertProfile(e)
                        \/ ScheduleRecompute(e) \/ CommitEdit(e) \/ EditFails(e)
    \/ \E j \in Jobs : \/ AskRecompute(j) \/ ReadCommitted(j) \/ WriteEmbedding(j)
                       \/ CommitEmbedding(j) \/ RecomputeFails(j)

ProfileSpec == ProfileInit /\ [][ProfileNext]_profileVars

-----------------------------------------------------------------------------

\* An embedding is that of the text beside it, whatever edits and recomputations
\* overlap: the recomputation writes back the text it has read together with the
\* embedding of it (services.py:405-437, repositories.py:326-343).
EmbeddingFitsText == \A r \in profileRow : r.of \subseteq {r.text}

\* When nothing is under way, a profile with a text has an embedding, unless a
\* recomputation failed or read before the PUT that scheduled it was committed:
\* the router's comment is right about the commit it makes, and the task may
\* still be faster (services.py:403, router.py:358-359).  A PUT that fails, or
\* whose UPDATE names no row, is no excuse.
EmbeddedAtRest ==
    (/\ ~amiss
     /\ \A e \in Edits : editPc[e] \in {"idle", "done"}
     /\ \A j \in Jobs : taskPc[j] \in {"none", "done"})
    => \A r \in profileRow : r.text # Empty => r.of # {}

\* Both: the embedding beside a text is of that text, and is there in the end.
EmbeddingIsCurrent == EmbeddingFitsText /\ EmbeddedAtRest

\* The edit that was the last to write the row is what the row says, whatever
\* recomputations come after it, other PUTs that fail, are refused or name no row;
\* only a recomputation that had read, and not written, when the edit was
\* committed can take it back: it writes every column (services.py:421-433).
\* The PUT's own recomputation, when it was faster than the commit, is one.
LastEditStands == \A e \in standing : \E r \in profileRow : r.text = textOf[e]
=============================================================================
