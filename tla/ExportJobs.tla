----------------------------- MODULE ExportJobs -----------------------------
(***************************************************************************)
(* Bulk exports of compliance records: a row of export_jobs, an archive in *)
(* Redis, and the records of a release that arrive meanwhile.              *)
(***************************************************************************)
EXTENDS Naturals, Sequences

CONSTANTS
    Exports,      \* requests of administrators, each with a job of its own
    Wanted        \* the escrows each asks for, in order

VARIABLES
    femaRows,     \* escrows with a committed FEMA record
    gstRows,      \* escrows with a committed GST record
    jobs,         \* status of each job's row, in a set; {} when there is none
    archives,     \* Redis: what the archive of each job holds, in a set
    exportPc,     \* where each request is
    at,           \* how many escrows it has gone through
    gathered,     \* what it has gathered
    known         \* history: the records there were when it was made

exportVars == <<femaRows, gstRows, jobs, archives, exportPc, at, gathered, known>>

Escrowed == UNION { {Wanted[x][i] : i \in DOMAIN Wanted[x]} : x \in Exports }

ASSUME WantedAssumption == \A x \in Exports : Wanted[x] \in Seq(Escrowed)

Nothing == [fema |-> {}, gst |-> {}]

ExportInit ==
    /\ femaRows = {} /\ gstRows = {}
    /\ jobs = [x \in Exports |-> {}]
    /\ archives = [x \in Exports |-> {}]
    /\ exportPc = [x \in Exports |-> "idle"]
    /\ at = [x \in Exports |-> 0]
    /\ gathered = [x \in Exports |-> Nothing]
    /\ known = [x \in Exports |-> Nothing]

ExportGoes(x, step) == exportPc' = [exportPc EXCEPT ![x] = step]

\* generate_compliance_records commits both records of an escrow together.
RecordsArrive(e) ==
    /\ e \notin femaRows
    /\ femaRows' = femaRows \cup {e} /\ gstRows' = gstRows \cup {e}
    /\ UNCHANGED <<jobs, archives, exportPc, at, gathered, known>>

\* create_job, committed at once.
CreateJob(x) ==
    /\ exportPc[x] = "idle"
    /\ jobs' = [jobs EXCEPT ![x] = {"PENDING"}]
    /\ known' = [known EXCEPT ![x] = [fema |-> femaRows, gst |-> gstRows]]
    /\ ExportGoes(x, IF Len(Wanted[x]) = 0 THEN "zip" ELSE "fema")
    /\ UNCHANGED <<femaRows, gstRows, archives, at, gathered>>

Here(x) == Wanted[x][at[x] + 1]

\* The next escrow; each is asked for by two statements.
GatherFema(x) ==
    /\ exportPc[x] = "fema"
    /\ gathered' = [gathered EXCEPT ![x].fema = @ \cup ({Here(x)} \cap femaRows)]
    /\ ExportGoes(x, "gst")
    /\ UNCHANGED <<femaRows, gstRows, jobs, archives, at, known>>

GatherWithFema(x) ==
    /\ exportPc[x] = "gst"
    /\ gathered' = [gathered EXCEPT ![x].gst = @ \cup ({Here(x)} \cap gstRows)]
    /\ at' = [at EXCEPT ![x] = @ + 1]
    /\ ExportGoes(x, IF at'[x] < Len(Wanted[x]) /\ Here(x) \in gathered[x].fema
                     THEN "fema" ELSE "zip")
    /\ UNCHANGED <<femaRows, gstRows, jobs, archives, known>>

GatherGst(x) ==
    /\ exportPc[x] = "gst"
    /\ gathered' = [gathered EXCEPT ![x].gst = @ \cup ({Here(x)} \cap gstRows)]
    /\ at' = [at EXCEPT ![x] = @ + 1]
    /\ ExportGoes(x, IF at'[x] < Len(Wanted[x]) THEN "fema" ELSE "zip")
    /\ UNCHANGED <<femaRows, gstRows, jobs, archives, known>>

\* build_zip, and DONE; or FAILED, and the request raises.
FinishJob(x) ==
    /\ exportPc[x] = "zip"
    /\ \/ jobs' = [jobs EXCEPT ![x] = {"DONE"}] /\ ExportGoes(x, "store")
       \/ jobs' = [jobs EXCEPT ![x] = {"FAILED"}] /\ ExportGoes(x, "done")
    /\ UNCHANGED <<femaRows, gstRows, archives, at, gathered, known>>

\* The router puts what build_zip returned into Redis, with an hour to live, and
\* only logs a failure.
StoreArchive(x) ==
    /\ exportPc[x] = "store"
    /\ archives' \in {archives, [archives EXCEPT ![x] = {gathered[x]}]}
    /\ ExportGoes(x, "answer")
    /\ UNCHANGED <<femaRows, gstRows, jobs, at, gathered, known>>

\* get_export_job, whose row is the answer.
AnswerExport(x) ==
    /\ exportPc[x] = "answer"
    /\ ExportGoes(x, "done")
    /\ UNCHANGED <<femaRows, gstRows, jobs, archives, at, gathered, known>>

\* A failure outside the try, or the death of the process: the row stays as it is.
ExportDies(x) ==
    /\ exportPc[x] \notin {"idle", "done"}
    /\ ExportGoes(x, "done")
    /\ UNCHANGED <<femaRows, gstRows, jobs, archives, at, gathered, known>>

ExpireArchive(x) ==
    /\ archives[x] # {}
    /\ archives' = [archives EXCEPT ![x] = {}]
    /\ UNCHANGED <<femaRows, gstRows, jobs, exportPc, at, gathered, known>>

ExportNext ==
    \/ \E e \in Escrowed : RecordsArrive(e)
    \/ \E x \in Exports :
          \/ CreateJob(x) \/ GatherFema(x) \/ GatherGst(x) \/ FinishJob(x)
          \/ StoreArchive(x) \/ AnswerExport(x) \/ ExportDies(x) \/ ExpireArchive(x)

ExportSpec == ExportInit /\ [][ExportNext]_exportVars

-----------------------------------------------------------------------------

\* What can be downloaded belongs to a job that is DONE, and has every record of
\* its escrows that was there when it was asked for, whatever arrives while it is
\* gathered: no FEMA record in it is without its GST record
\* (services.py:275-292, router.py:264-271).
ArchiveIsWhole ==
    \A x \in Exports : \A z \in archives[x] :
       LET mine == { Wanted[x][i] : i \in DOMAIN Wanted[x] }
       IN  /\ jobs[x] = {"DONE"}
           /\ known[x].fema \cap mine \subseteq z.fema
           /\ known[x].gst \cap mine \subseteq z.gst
           /\ z.fema \subseteq z.gst
=============================================================================
