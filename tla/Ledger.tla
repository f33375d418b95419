------------------------------- MODULE Ledger -------------------------------
(***************************************************************************)
(* The SQLite ledger of backend/experiment_console/store.py.  Every         *)
(* operation is one BEGIN IMMEDIATE transaction under the store's lock, so   *)
(* each is one atomic action here.  The clients are left free: any          *)
(* operation with any argument, at any time, is what the code accepts.      *)
(*                                                                         *)
(* A job identifier is the uuid of one call of ConsoleService.run, so it    *)
(* names at most one row.  The columns that only describe a job (command,   *)
(* progress, times, pids) are left out.  Of the events table only the kinds *)
(* that are ever compared are kept; the others are written and not read.    *)
(***************************************************************************)
CONSTANTS Jobs,        \* job identifiers
          RequestIds,  \* client-chosen idempotency keys
          Payloads,    \* request bodies, told apart by their hash
          Gpus,        \* (profile, gpu index) pairs
          GpusOf,      \* the GPUs each payload asks for
          NoJob,       \* nobody holds the GPU
          NoRequest    \* there is no such row

ASSUME GpusOfAssumption == GpusOf \in [Payloads -> SUBSET Gpus]
ASSUME NoJobAssumption == NoJob \notin Jobs
ASSUME NoRequestAssumption ==
  NoRequest \notin [id : RequestIds, payload : Payloads]

VARIABLES status,   \* jobs.status, "absent" when there is no row
          request,  \* jobs.request_id and jobs.request_hash
          locks,    \* resource_locks: the job that holds each GPU
          events,   \* events: the kinds recorded for each job
          outbox    \* outbox: the status in the terminal event's payload

ledgerVars == <<status, request, locks, events, outbox>>

Active == {"starting", "running", "cancelling", "unknown"}
Terminal == {"succeeded", "failed", "cancelled"}
RemoteStates == {"running", "lost", "unknown"} \cup Terminal
Requests == [id : RequestIds, payload : Payloads]

TypeOK ==
  /\ status \in [Jobs -> Active \cup Terminal \cup {"absent"}]
  /\ request \in [Jobs -> Requests \cup {NoRequest}]
  /\ locks \in [Gpus -> Jobs \cup {NoJob}]
  /\ events \in [Jobs -> SUBSET (Terminal \cup {"cancel_requested"})]
  /\ outbox \in [Jobs -> Terminal \cup {"none"}]

LedgerInit ==
  /\ status = [j \in Jobs |-> "absent"]
  /\ request = [j \in Jobs |-> NoRequest]
  /\ locks = [g \in Gpus |-> NoJob]
  /\ events = [j \in Jobs |-> {}]
  /\ outbox = [j \in Jobs |-> "none"]

Recorded(j) == status[j] # "absent"
\* Slip: a query that forgets the jobs whose state could not be learnt.
ActiveButUnknown == {j \in Jobs : status[j] \in Active \ {"unknown"}}
ActiveJobs == {j \in Jobs : status[j] \in Active}
LocksOf(j) == {g \in Gpus : locks[g] = j}

-----------------------------------------------------------------------------
(* create_job *)

(* The rows whose request_id column is the given one. *)
RowsFor(id) == {j \in Jobs : Recorded(j) /\ request[j].id = id}

\* Slip: the query that looks for conflicting locks finds none.
HeldByNone(p) == {}
Held(p) == {g \in GpusOf[p] : locks[g] # NoJob}
\* Slip: the request id is not looked up again in the transaction.
AcceptsAnyRequest(r) == Held(r.payload) = {}
(* Else create_job replays the row, refuses another payload under its request
   id, or refuses a GPU that is locked; in each case it writes nothing. *)
Accepts(r) == RowsFor(r.id) = {} /\ Held(r.payload) = {}

CreateJob(j, r) ==
  /\ status[j] = "absent"
  /\ Accepts(r)
  /\ status' = [status EXCEPT ![j] = "starting"]
  /\ request' = [request EXCEPT ![j] = r]
  /\ locks' = [g \in Gpus |-> IF g \in GpusOf[r.payload] THEN j ELSE locks[g]]
  /\ UNCHANGED <<events, outbox>>

-----------------------------------------------------------------------------
\* Slip: the observed state is stored as it came.
NewStatusVerbatim(old, state) == IF state = "running" THEN "running" ELSE state
(* update_observation: the row's status follows the observation whatever it
   was before; only `cancelling' survives a `running' observation. *)
NewStatus(old, state) ==
  CASE state = "running" -> IF old = "cancelling" THEN "cancelling" ELSE "running"
    [] state \in Terminal -> state
    [] state = "lost" -> "failed"
    [] OTHER -> "unknown"

\* Slip: the lock rows are not deleted.
ReleasedNone(j) == locks
Released(j) == [g \in Gpus |-> IF locks[g] = j THEN NoJob ELSE locks[g]]

\* Slips: the outbox row is forgotten; it is replaced by a later one.
RecordEndSilently(j, s) ==
  /\ locks' = Released(j)
  /\ events' = [events EXCEPT ![j] = @ \cup {s}]
  /\ UNCHANGED outbox
RecordEndAgain(j, s) ==
  /\ locks' = Released(j)
  /\ events' = [events EXCEPT ![j] = @ \cup {s}]
  /\ outbox' = [outbox EXCEPT ![j] = s]

(* The terminal branch: drop the locks, insert the event, and insert the
   outbox row unless there is one (INSERT OR IGNORE on its primary key). *)
RecordEnd(j, s) ==
  /\ locks' = Released(j)
  /\ events' = [events EXCEPT ![j] = @ \cup {s}]
  /\ outbox' = [outbox EXCEPT ![j] = IF @ = "none" THEN s ELSE @]

UpdateObservation(j, state) ==
  LET new == NewStatus(status[j], state) IN
  /\ Recorded(j)
  /\ status' = [status EXCEPT ![j] = new]
  /\ IF new \in Terminal
     THEN RecordEnd(j, new)
     ELSE UNCHANGED <<locks, events, outbox>>
  /\ UNCHANGED request

-----------------------------------------------------------------------------
\* Slip: the GPUs are given back when the cancel is asked for.
RequestCancelFreeing(j) ==
  /\ status[j] \in Active
  /\ status' = [status EXCEPT ![j] = "cancelling"]
  /\ events' = [events EXCEPT ![j] = @ \cup {"cancel_requested"}]
  /\ locks' = Released(j)
  /\ UNCHANGED <<request, outbox>>

(* request_cancel: a job that has ended is returned as it is. *)
RequestCancel(j) ==
  /\ status[j] \in Active
  /\ status' = [status EXCEPT ![j] = "cancelling"]
  /\ events' = [events EXCEPT ![j] = @ \cup {"cancel_requested"}]
  /\ UNCHANGED <<request, locks, outbox>>

-----------------------------------------------------------------------------
LedgerNext ==
  \E j \in Jobs :
    \/ \E r \in Requests : CreateJob(j, r)
    \/ \E s \in RemoteStates : UpdateObservation(j, s)
    \/ RequestCancel(j)

LedgerSpec == LedgerInit /\ [][LedgerNext]_ledgerVars

-----------------------------------------------------------------------------
(* Safety *)

(* A job that never reached a terminal status: the outbox has no row for it. *)
Unreported(j) == Recorded(j) /\ outbox[j] = "none"

(* Two jobs that both still wait for their end never share a GPU, whatever
   observations and cancellations create_job's callers interleave. *)
ExclusiveGpus ==
  \A i, j \in Jobs : i # j /\ Unreported(i) /\ Unreported(j) =>
    GpusOf[request[i].payload] \cap GpusOf[request[j].payload] = {}

(* A job's lock rows are exactly its GPUs from create_job to its first
   terminal observation and none afterwards: no partial grant, no leftover
   row that would block the GPU for ever, also when the job is observed
   again after it ended. *)
LockDiscipline ==
  \A j \in Jobs :
    LocksOf(j) = IF Unreported(j) THEN GpusOf[request[j].payload] ELSE {}

(* One job per request id: a retried POST never creates a second row. *)
OneJobPerRequest ==
  \A i, j \in Jobs : Recorded(i) /\ Recorded(j) /\ request[i].id = request[j].id => i = j

(* The notification of a job's end is neither lost nor invented: a terminal
   row has its event and an outbox row, and the outbox row's payload is a
   status the job really had, with its event. *)
EndIsNotified ==
  \A j \in Jobs :
    /\ status[j] \in Terminal => status[j] \in events[j] /\ outbox[j] # "none"
    /\ outbox[j] # "none" => outbox[j] \in events[j]
    /\ outbox[j] = "none" => events[j] \cap Terminal = {}

(* What a consumer of the outbox read is never rewritten or withdrawn, and
   the same holds of recorded events and of a job's request. *)
HistoryIsKept ==
  [][\A j \in Jobs :
       /\ outbox[j] # "none" => outbox'[j] = outbox[j]
       /\ events[j] \subseteq events'[j]
       /\ Recorded(j) => Recorded(j)' /\ request'[j] = request[j]]_ledgerVars

-----------------------------------------------------------------------------
(* The ledger implements GpuLease: a job is granted its GPUs when its row is
   created and gives them back with its first terminal observation. *)
leaseStage ==
  [j \in Jobs |-> IF ~Recorded(j) THEN "new"
                  ELSE IF outbox[j] = "none" THEN "granted" ELSE "released"]

Lease == INSTANCE GpuLease WITH holder <- locks, stage <- leaseStage

(* The rows of resource_locks only ever change by granting a free set of GPUs
   whole, or by one job giving all of its GPUs back for the last time. *)
LeaseSpec == Lease!Spec
=============================================================================
