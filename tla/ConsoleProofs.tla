---------------------------- MODULE ConsoleProofs ---------------------------
(***************************************************************************)
(* Theorems about Ledger.tla and about Console.tla, which runs on it, for    *)
(* any sets of jobs, requests, payloads, GPUs and client threads, and any     *)
(* number of crashes.  LedgerInv is the inductive invariant of the ledger:    *)
(* the checked invariants, and what they need of identifiers that have no     *)
(* row yet.  ConsoleInv is that of the console: what the calls in flight      *)
(* know, and how far the ledger and the remote directories followed them.     *)
(***************************************************************************)
EXTENDS Console, TLAPS

-----------------------------------------------------------------------------
(* The ledger *)

(* A uuid that run() has not inserted yet is mentioned in no table. *)
BlankRows ==
  \A j \in Jobs : ~Recorded(j) => outbox[j] = "none" /\ events[j] = {}

LedgerInv ==
  /\ TypeOK
  /\ BlankRows
  /\ LockDiscipline
  /\ EndIsNotified
  /\ OneJobPerRequest

-----------------------------------------------------------------------------
(* The status column after an observation is a status, and never "absent". *)
LEMMA NewStatusType ==
  ASSUME NEW old, NEW state
  PROVE  NewStatus(old, state) \in Active \cup Terminal
BY DEF NewStatus, Active, Terminal

(* Deleting a job's lock rows leaves every other job's rows alone. *)
LEMMA ReleasedLocks ==
  ASSUME TypeOK, NEW j \in Jobs
  PROVE  /\ Released(j) \in [Gpus -> Jobs \cup {NoJob}]
         /\ {g \in Gpus : Released(j)[g] = j} = {}
         /\ \A i \in Jobs \ {j} : {g \in Gpus : Released(j)[g] = i} = LocksOf(i)
BY NoJobAssumption DEF TypeOK, Released, LocksOf

(* Types hold initially and every transaction keeps them. *)
LEMMA LedgerTypeInductive ==
  /\ LedgerInit => TypeOK
  /\ TypeOK /\ [LedgerNext]_ledgerVars => TypeOK'
<1>1. LedgerInit => TypeOK
  BY DEF LedgerInit, TypeOK
<1>2. ASSUME TypeOK, [LedgerNext]_ledgerVars
      PROVE  TypeOK'
  <2> USE <1>2
  <2>1. ASSUME NEW j \in Jobs, NEW r \in Requests, CreateJob(j, r)
        PROVE  TypeOK'
    BY <2>1 DEF CreateJob, TypeOK, Active
  <2>2. ASSUME NEW j \in Jobs, NEW s \in RemoteStates, UpdateObservation(j, s)
        PROVE  TypeOK'
    <3> DEFINE new == NewStatus(status[j], s)
    <3>1. new \in Active \cup Terminal
      BY NewStatusType
    <3> HIDE DEF new
    <3>2. /\ status' = [status EXCEPT ![j] = new]
          /\ request' = request
          /\ IF new \in Terminal THEN RecordEnd(j, new)
             ELSE UNCHANGED <<locks, events, outbox>>
      BY <2>2 DEF UpdateObservation, new
    <3>3. CASE new \in Terminal
      <4>1. locks' \in [Gpus -> Jobs \cup {NoJob}]
        BY <3>2, <3>3, ReleasedLocks DEF RecordEnd
      <4>2. events' \in [Jobs -> SUBSET (Terminal \cup {"cancel_requested"})]
        BY <3>2, <3>3 DEF TypeOK, RecordEnd
      <4>3. outbox' \in [Jobs -> Terminal \cup {"none"}]
        BY <3>2, <3>3 DEF TypeOK, RecordEnd
      <4> QED BY <3>1, <3>2, <4>1, <4>2, <4>3 DEF TypeOK
    <3>4. CASE new \notin Terminal
      BY <3>1, <3>2, <3>4 DEF TypeOK
    <3> QED BY <3>3, <3>4
  <2>3. ASSUME NEW j \in Jobs, RequestCancel(j)
        PROVE  TypeOK'
    BY <2>3 DEF RequestCancel, TypeOK, Active
  <2>4. CASE UNCHANGED ledgerVars
    BY <2>4 DEF ledgerVars, TypeOK
  <2> QED BY <2>1, <2>2, <2>3, <2>4 DEF LedgerNext
<1> QED BY <1>1, <1>2

(* Type correctness of the ledger's tables. *)
THEOREM LedgerTypeCorrect == LedgerSpec => []TypeOK
BY LedgerTypeInductive, PTL DEF LedgerSpec

-----------------------------------------------------------------------------
(* The empty ledger satisfies the inductive invariant. *)
LEMMA LedgerInvInit == LedgerInit => LedgerInv
<1> SUFFICES ASSUME LedgerInit PROVE LedgerInv
  OBVIOUS
<1>1. TypeOK
  BY LedgerTypeInductive
<1>2. LockDiscipline
  BY NoJobAssumption DEF LedgerInit, LockDiscipline, LocksOf, Unreported, Recorded
<1>3. BlankRows /\ EndIsNotified /\ OneJobPerRequest
  BY DEF LedgerInit, BlankRows, EndIsNotified, OneJobPerRequest, Recorded, Terminal
<1> QED BY <1>1, <1>2, <1>3 DEF LedgerInv

(* create_job keeps the inductive invariant. *)
LEMMA CreateJobInv ==
  ASSUME LedgerInv, TypeOK', NEW j \in Jobs, NEW r \in Requests, CreateJob(j, r)
  PROVE  LedgerInv'
<1> USE DEF LedgerInv
<1>1. status[j] = "absent" /\ outbox[j] = "none" /\ events[j] = {}
  BY DEF CreateJob, BlankRows, Recorded
<1>2. BlankRows'
  BY DEF CreateJob, BlankRows, Recorded, TypeOK
<1>3. LockDiscipline'
  <2> SUFFICES ASSUME NEW i \in Jobs
               PROVE  LocksOf(i)' = IF Unreported(i)' THEN GpusOf[request'[i].payload] ELSE {}
    BY DEF LockDiscipline
  <2>1. LocksOf(j) = {}
    BY <1>1 DEF LockDiscipline, Unreported, Recorded
  <2>2. \A g \in GpusOf[r.payload] : g \in Gpus /\ locks[g] = NoJob
    BY GpusOfAssumption DEF CreateJob, Accepts, Held, Requests
  <2>3. CASE i = j
    <3>1. LocksOf(j)' = GpusOf[r.payload]
      BY <2>1, <2>2 DEF CreateJob, LocksOf, TypeOK
    <3>2. Unreported(j)' /\ request'[j] = r
      BY <1>1 DEF CreateJob, Unreported, Recorded, TypeOK
    <3> QED BY <2>3, <3>1, <3>2
  <2>4. CASE i # j
    <3>1. LocksOf(i)' = LocksOf(i)
      BY <2>2, <2>4, NoJobAssumption DEF CreateJob, LocksOf, TypeOK
    <3>2. Unreported(i)' = Unreported(i) /\ request'[i] = request[i]
      BY <2>4 DEF CreateJob, Unreported, Recorded, TypeOK
    <3> QED BY <3>1, <3>2 DEF LockDiscipline
  <2> QED BY <2>3, <2>4
<1>4. EndIsNotified'
  BY <1>1 DEF CreateJob, EndIsNotified, TypeOK, Terminal
<1>5. OneJobPerRequest'
  BY DEF CreateJob, OneJobPerRequest, Accepts, RowsFor, Recorded, TypeOK
<1> QED BY <1>2, <1>3, <1>4, <1>5

(* update_observation keeps the inductive invariant. *)
LEMMA UpdateObservationInv ==
  ASSUME LedgerInv, TypeOK', NEW j \in Jobs, NEW s \in RemoteStates,
         UpdateObservation(j, s)
  PROVE  LedgerInv'
<1> USE DEF LedgerInv
<1> DEFINE new == NewStatus(status[j], s)
<1>1. new \in Active \cup Terminal
  BY NewStatusType
<1> HIDE DEF new
<1>2. /\ Recorded(j)
      /\ status' = [status EXCEPT ![j] = new]
      /\ request' = request
      /\ IF new \in Terminal THEN RecordEnd(j, new)
         ELSE UNCHANGED <<locks, events, outbox>>
  BY DEF UpdateObservation, new
<1>3. \A i \in Jobs : Recorded(i)' = Recorded(i)
  BY <1>1, <1>2 DEF Recorded, TypeOK, Active, Terminal
<1>4. OneJobPerRequest'
  BY <1>2, <1>3 DEF OneJobPerRequest
<1>5. CASE new \in Terminal
  <2>1. /\ locks' = Released(j)
        /\ events' = [events EXCEPT ![j] = @ \cup {new}]
        /\ outbox' = [outbox EXCEPT ![j] = IF @ = "none" THEN new ELSE @]
    BY <1>2, <1>5 DEF RecordEnd
  <2>2. BlankRows'
    BY <1>2, <1>3, <2>1 DEF BlankRows, TypeOK
  <2>3. LockDiscipline'
    <3> SUFFICES ASSUME NEW i \in Jobs
                 PROVE  LocksOf(i)' = IF Unreported(i)' THEN GpusOf[request'[i].payload] ELSE {}
      BY DEF LockDiscipline
    <3>1. CASE i = j
      <4>1. LocksOf(j)' = {}
        BY <2>1, ReleasedLocks DEF LocksOf
      <4>2. outbox'[j] # "none"
        BY <1>5, <2>1 DEF TypeOK, Terminal
      <4> QED BY <3>1, <4>1, <4>2 DEF Unreported
    <3>2. CASE i # j
      <4>1. LocksOf(i)' = LocksOf(i)
        BY <2>1, <3>2, ReleasedLocks DEF LocksOf
      <4>2. Unreported(i)' = Unreported(i)
        BY <1>3, <2>1, <3>2 DEF Unreported, TypeOK
      <4> QED BY <1>2, <4>1, <4>2 DEF LockDiscipline
    <3> QED BY <3>1, <3>2
  <2>4. EndIsNotified'
    BY <1>2, <1>5, <2>1 DEF EndIsNotified, TypeOK, Terminal
  <2> QED BY <1>4, <2>2, <2>3, <2>4
<1>6. CASE new \notin Terminal
  <2>1. UNCHANGED <<locks, events, outbox, request>>
    BY <1>2, <1>6
  <2>2. BlankRows' /\ LockDiscipline'
    BY <1>3, <2>1 DEF BlankRows, LockDiscipline, LocksOf, Unreported
  <2>3. EndIsNotified'
    BY <1>2, <1>6, <2>1 DEF EndIsNotified, TypeOK
  <2> QED BY <1>4, <2>2, <2>3
<1> QED BY <1>5, <1>6

(* request_cancel keeps the inductive invariant. *)
LEMMA RequestCancelInv ==
  ASSUME LedgerInv, TypeOK', NEW j \in Jobs, RequestCancel(j)
  PROVE  LedgerInv'
<1> USE DEF LedgerInv
<1>1. \A i \in Jobs : Recorded(i)' = Recorded(i)
  BY DEF RequestCancel, Recorded, TypeOK, Active
<1>2. UNCHANGED <<request, locks, outbox>>
  BY DEF RequestCancel
<1>3. BlankRows' /\ LockDiscipline' /\ OneJobPerRequest'
  BY <1>1, <1>2 DEF BlankRows, LockDiscipline, LocksOf, Unreported,
                    OneJobPerRequest, RequestCancel, TypeOK, Recorded, Active
<1>4. EndIsNotified'
  BY DEF RequestCancel, EndIsNotified, TypeOK, Terminal
<1> QED BY <1>3, <1>4

(* Every reachable ledger satisfies the inductive invariant. *)
THEOREM LedgerInvariant == LedgerSpec => []LedgerInv
<1>1. LedgerInv /\ [LedgerNext]_ledgerVars => LedgerInv'
  <2> SUFFICES ASSUME LedgerInv, [LedgerNext]_ledgerVars PROVE LedgerInv'
    OBVIOUS
  <2>1. TypeOK'
    BY LedgerTypeInductive DEF LedgerInv
  <2>2. CASE UNCHANGED ledgerVars
    BY <2>2 DEF ledgerVars, LedgerInv, TypeOK, BlankRows, LockDiscipline, LocksOf,
                Unreported, EndIsNotified, OneJobPerRequest, Recorded
  <2> QED BY <2>1, <2>2, CreateJobInv, UpdateObservationInv, RequestCancelInv
          DEF LedgerNext
<1> QED BY <1>1, LedgerInvInit, PTL DEF LedgerSpec

(* A job's lock rows are all its GPUs until its first terminal observation and
   none afterwards: create_job grants whole, update_observation frees whole. *)
THEOREM LocksFollowJobs == LedgerSpec => []LockDiscipline
BY LedgerInvariant, PTL DEF LedgerInv

(* Every terminal row is announced in the outbox, with a status it really had. *)
THEOREM EndsAreNotified == LedgerSpec => []EndIsNotified
BY LedgerInvariant, PTL DEF LedgerInv

(* A retried POST /v3/jobs never creates a second row for its request id. *)
THEOREM RequestsAreIdempotent == LedgerSpec => []OneJobPerRequest
BY LedgerInvariant, PTL DEF LedgerInv

(* Two unfinished jobs never share a GPU: each would own its lock row. *)
THEOREM GpusAreExclusive == LedgerSpec => []ExclusiveGpus
<1>1. LedgerInv => ExclusiveGpus
  BY DEF LedgerInv, ExclusiveGpus, LockDiscipline, LocksOf
<1> QED BY <1>1, LedgerInvariant, PTL

-----------------------------------------------------------------------------
(* What a step of the ledger leaves in place. *)
Kept ==
  \A j \in Jobs :
    /\ outbox[j] # "none" => outbox'[j] = outbox[j]
    /\ events[j] \subseteq events'[j]
    /\ Recorded(j) => Recorded(j)' /\ request'[j] = request[j]

(* No transaction deletes or rewrites what an earlier one recorded. *)
LEMMA LedgerKeeps ==
  ASSUME TypeOK, [LedgerNext]_ledgerVars
  PROVE  Kept
<1> USE DEF Kept
<1>1. ASSUME NEW j \in Jobs, NEW r \in Requests, CreateJob(j, r)
      PROVE  Kept
  BY <1>1 DEF CreateJob, TypeOK, Recorded
<1>2. ASSUME NEW j \in Jobs, NEW s \in RemoteStates, UpdateObservation(j, s)
      PROVE  Kept
  <2> DEFINE new == NewStatus(status[j], s)
  <2>1. new # "absent"
    BY NewStatusType DEF Active, Terminal
  <2> HIDE DEF new
  <2>2. /\ status' = [status EXCEPT ![j] = new]
        /\ request' = request
        /\ IF new \in Terminal THEN RecordEnd(j, new)
           ELSE UNCHANGED <<locks, events, outbox>>
    BY <1>2 DEF UpdateObservation, new
  <2>3. CASE new \in Terminal
    BY <2>1, <2>2, <2>3 DEF RecordEnd, TypeOK, Recorded
  <2>4. CASE new \notin Terminal
    BY <2>1, <2>2, <2>4 DEF TypeOK, Recorded
  <2> QED BY <2>3, <2>4
<1>3. ASSUME NEW j \in Jobs, RequestCancel(j)
      PROVE  Kept
  BY <1>3 DEF RequestCancel, TypeOK, Recorded
<1>4. CASE UNCHANGED ledgerVars
  BY <1>4 DEF ledgerVars, Recorded
<1> QED BY <1>1, <1>2, <1>3, <1>4 DEF LedgerNext

(* A consumer's view of the past is stable: the outbox payload, the recorded
   events and the request of a row survive every transaction. *)
THEOREM LedgerHistoryIsKept == LedgerSpec => HistoryIsKept
<1>1. TypeOK /\ [LedgerNext]_ledgerVars => [Kept]_ledgerVars
  BY LedgerKeeps
<1> QED BY <1>1, LedgerTypeCorrect, PTL DEF LedgerSpec, HistoryIsKept, Kept

-----------------------------------------------------------------------------
(* The ledger implements GpuLease *)

(* The empty lock table is an empty lease. *)
LEMMA LeaseInit == LedgerInit => Lease!Init
BY DEF LedgerInit, Lease!Init, leaseStage, Recorded

(* create_job is one Grant of exactly the requested GPUs. *)
LEMMA CreateJobGrants ==
  ASSUME LedgerInv, NEW j \in Jobs, NEW r \in Requests, CreateJob(j, r)
  PROVE  Lease!Grant(j, GpusOf[r.payload])
<1>1. TypeOK /\ status[j] = "absent" /\ outbox[j] = "none"
  BY DEF CreateJob, LedgerInv, BlankRows, Recorded
<1>2. leaseStage[j] = "new"
  BY <1>1 DEF leaseStage, Recorded
<1>3. Lease!Free(GpusOf[r.payload])
  BY GpusOfAssumption DEF CreateJob, Accepts, Held, Requests, Lease!Free
<1>4. leaseStage' = [leaseStage EXCEPT ![j] = "granted"]
  BY <1>1 DEF CreateJob, leaseStage, Recorded, TypeOK
<1> QED BY <1>2, <1>3, <1>4 DEF Lease!Grant, CreateJob

(* The first terminal observation is a Release; any other is a stutter. *)
LEMMA UpdateObservationReleases ==
  ASSUME LedgerInv, NEW j \in Jobs, NEW s \in RemoteStates, UpdateObservation(j, s)
  PROVE  Lease!Release(j) \/ UNCHANGED Lease!leaseVars
<1> DEFINE new == NewStatus(status[j], s)
<1>1. new \in Active \cup Terminal
  BY NewStatusType
<1> HIDE DEF new
<1>2. /\ TypeOK
      /\ Recorded(j)
      /\ status' = [status EXCEPT ![j] = new]
      /\ IF new \in Terminal THEN RecordEnd(j, new)
         ELSE UNCHANGED <<locks, events, outbox>>
  BY DEF UpdateObservation, new, LedgerInv
<1>3. \A i \in Jobs : Recorded(i)' = Recorded(i)
  BY <1>1, <1>2 DEF Recorded, TypeOK, Active, Terminal
<1>4. CASE new \in Terminal /\ outbox[j] = "none"
  <2>1. locks' = Released(j) /\ outbox' = [outbox EXCEPT ![j] = new]
    BY <1>2, <1>4 DEF RecordEnd, TypeOK
  <2>2. leaseStage[j] = "granted"
    BY <1>2, <1>4 DEF leaseStage
  <2>3. leaseStage' = [leaseStage EXCEPT ![j] = "released"]
    BY <1>2, <1>3, <1>4, <2>1 DEF leaseStage, TypeOK, Terminal
  <2> QED BY <2>1, <2>2, <2>3 DEF Lease!Release, Released
<1>5. CASE new \in Terminal /\ outbox[j] # "none"
  <2>1. LocksOf(j) = {}
    BY <1>5 DEF LedgerInv, LockDiscipline, Unreported
  <2>2. locks' = locks
    BY <1>2, <1>5, <2>1 DEF RecordEnd, Released, LocksOf, TypeOK
  <2>3. outbox' = outbox
    BY <1>2, <1>5 DEF RecordEnd, TypeOK
  <2> QED BY <1>3, <2>2, <2>3 DEF leaseStage, Lease!leaseVars
<1>6. CASE new \notin Terminal
  BY <1>2, <1>3, <1>6 DEF leaseStage, Lease!leaseVars
<1> QED BY <1>4, <1>5, <1>6

(* For every execution of the ledger, resource_locks behaves as GpuLease:
   whole grants of free GPUs, one release for each job. *)
THEOREM LedgerImplementsLease == LedgerSpec => LeaseSpec
<1>1. LedgerInv /\ [LedgerNext]_ledgerVars => [Lease!Next]_(Lease!leaseVars)
  <2> SUFFICES ASSUME LedgerInv, [LedgerNext]_ledgerVars
               PROVE  [Lease!Next]_(Lease!leaseVars)
    OBVIOUS
  <2>1. ASSUME NEW j \in Jobs, NEW r \in Requests, CreateJob(j, r)
        PROVE  Lease!Next
    <3>1. GpusOf[r.payload] \in SUBSET Gpus
      BY GpusOfAssumption DEF Requests
    <3> QED BY <2>1, <3>1, CreateJobGrants DEF Lease!Next
  <2>2. ASSUME NEW j \in Jobs, NEW s \in RemoteStates, UpdateObservation(j, s)
        PROVE  [Lease!Next]_(Lease!leaseVars)
    BY <2>2, UpdateObservationReleases DEF Lease!Next
  <2>3. ASSUME NEW j \in Jobs, RequestCancel(j)
        PROVE  UNCHANGED Lease!leaseVars
    BY <2>3 DEF RequestCancel, LedgerInv, TypeOK, Active, leaseStage, Recorded,
                Lease!leaseVars
  <2>4. CASE UNCHANGED ledgerVars
    BY <2>4 DEF ledgerVars, leaseStage, Recorded, Lease!leaseVars
  <2> QED BY <2>1, <2>2, <2>3, <2>4 DEF LedgerNext
<1> QED BY <1>1, LeaseInit, LedgerInvariant, PTL DEF LedgerSpec, LeaseSpec, Lease!Spec

-----------------------------------------------------------------------------
(* The ledger's side of Delivery.tla, whose other side is Outbox.tla *)

published == [j \in Jobs |-> IF outbox[j] = "none" THEN "none" ELSE "open"]

Publications == INSTANCE Delivery WITH Events <- Jobs, progress <- published

(* The first end of a job is the publication of its notification; nothing else in
   the ledger is. *)
LEMMA EndsPublish ==
  ASSUME TypeOK, NEW j \in Jobs, NEW s \in RemoteStates, UpdateObservation(j, s)
  PROVE  Publications!Publish(j) \/ UNCHANGED published
<1> DEFINE new == NewStatus(status[j], s)
<1>1. IF new \in Terminal THEN RecordEnd(j, new) ELSE UNCHANGED <<locks, events, outbox>>
  BY DEF UpdateObservation
<1> HIDE DEF new
<1>2. CASE new \in Terminal /\ outbox[j] = "none"
  <2>1. outbox' = [outbox EXCEPT ![j] = new]
    BY <1>1, <1>2 DEF RecordEnd, TypeOK
  <2>2. published[j] = "none" /\ published' = [published EXCEPT ![j] = "open"]
    BY <1>2, <2>1 DEF published, TypeOK, Terminal
  <2> QED BY <2>2 DEF Publications!Publish, Publications!Advance
<1>3. CASE new \notin Terminal \/ outbox[j] # "none"
  <2>1. outbox' = outbox
    BY <1>1, <1>3 DEF RecordEnd, TypeOK
  <2> QED BY <2>1 DEF published
<1> QED BY <1>2, <1>3

(* Rows of the outbox appear one by one and never a second time, which is what
   Outbox.tla takes for granted in its Publish; it is proved to do the rest of
   what Delivery.tla says. *)
THEOREM LedgerPublishes == LedgerSpec => Publications!Spec
<1>1. LedgerInit => Publications!Init
  BY DEF LedgerInit, Publications!Init, published
<1>2. TypeOK /\ [LedgerNext]_ledgerVars => [Publications!Next]_published
  <2> SUFFICES ASSUME TypeOK, [LedgerNext]_ledgerVars
               PROVE  [Publications!Next]_published
    OBVIOUS
  <2>1. ASSUME NEW j \in Jobs, NEW s \in RemoteStates, UpdateObservation(j, s)
        PROVE  [Publications!Next]_published
    BY <2>1, EndsPublish DEF Publications!Next
  <2>2. ASSUME outbox' = outbox
        PROVE  published' = published
    BY <2>2 DEF published
  <2>3. ASSUME NEW j \in Jobs, RequestCancel(j) \/ \E r \in Requests : CreateJob(j, r)
        PROVE  published' = published
    BY <2>2, <2>3 DEF RequestCancel, CreateJob
  <2>4. CASE UNCHANGED ledgerVars
    BY <2>2, <2>4 DEF ledgerVars
  <2> QED BY <2>1, <2>3, <2>4 DEF LedgerNext
<1> QED BY <1>1, <1>2, LedgerTypeCorrect, PTL DEF LedgerSpec, Publications!Spec

-----------------------------------------------------------------------------
(* The console *)

Asked(j) == "cancel_requested" \in events[j]
Answers == {"running", "lost"} \cup Terminal
Unsent == {"idle", "probe", "create", "call"}

(* A run() call names one request, and one row and directory carry it out. *)
RunPlace(j) ==
  /\ run[j].pc # "idle" => ask[j] \in Requests
  /\ run[j].pc \in InLaunch \/ phase[j] # "absent" =>
       Recorded(j) /\ request[j] = ask[j]
  /\ run[j].pc \in Unsent => phase[j] = "absent"
  /\ run[j].pc = "apply" => run[j].seen \in Answers
  /\ run[j].seen \in Terminal => phase[j] = run[j].seen
RunPlaces == \A j \in Jobs : RunPlace(j)

(* A refresh or cancel under way is about a row, and cancels on request. *)
WorkerPlace(w) ==
  /\ wk[w].pc # "idle" => wk[w].job \in Jobs /\ Recorded(wk[w].job)
  /\ wk[w].op = "cancel" \/ wk[w].old = "cancelling" =>
       wk[w].pc # "idle" /\ Asked(wk[w].job)
  /\ wk[w].pc = "apply" => wk[w].seen \in Answers
  /\ wk[w].seen \in Terminal =>
       wk[w].pc # "idle" /\ phase[wk[w].job] = wk[w].seen
WorkerPlaces == \A w \in Workers : WorkerPlace(w)

(* Each trace of a cancel goes back to a request for it, or to a signal that was
   no cancel's. *)
CancelTraces ==
  \A j \in Jobs :
    /\ status[j] = "cancelling" => Asked(j)
    /\ phase[j] = "cancelled" => j \in marker \cup outside

ConsoleInv ==
  /\ ConsoleTypeOK
  /\ RunPlaces
  /\ WorkerPlaces
  /\ CancelTraces
  /\ KillsAreAsked
  /\ VerdictIsTrue

-----------------------------------------------------------------------------
(* The console touches the ledger only through its transactions. *)

(* What a worker writes is an observation that update_observation knows. *)
LEMMA WorkerOutcomes ==
  ASSUME WorkerPlaces, NEW w \in Workers
  PROVE  /\ wk[w].pc = "apply" => Outcome(w) \in RemoteStates
         /\ Retained(w) \in RemoteStates
BY DEF WorkerPlaces, WorkerPlace, Outcome, Retained, Answers, RemoteStates, Terminal

(* Each step of the running system is at most one ledger transaction. *)
LEMMA ConsoleStepsLedger ==
  ASSUME ConsoleInv, [Next]_vars
  PROVE  [LedgerNext]_ledgerVars
<1> USE DEF ConsoleInv
<1>1. ASSUME NEW j \in Jobs, RunStep(j)
      PROVE  [LedgerNext]_ledgerVars
  <2>1. CASE RunCreate(j)
    <3>1. ask[j] \in Requests
      BY <2>1 DEF RunCreate, RunPlaces, RunPlace
    <3> QED BY <2>1, <3>1 DEF RunCreate, LedgerNext
  <2>2. CASE RunApply(j)
    <3>1. run[j].seen \in RemoteStates
      BY <2>2 DEF RunApply, RunPlaces, RunPlace, Answers, RemoteStates
    <3> QED BY <2>2, <3>1 DEF RunApply, LedgerNext
  <2>3. CASE RunFail(j)
    BY <2>3 DEF RunFail, LedgerNext, RemoteStates
  <2>4. CASE \/ \E r \in Requests : RunLookup(j, r)
             \/ RunProbe(j) \/ LaunchSend(j) \/ LaunchLook(j) \/ LaunchCheck(j) \/ RunAbort(j)
    BY <2>4 DEF RunLookup, RunProbe, LaunchSend, LaunchLook, LaunchCheck, RunAbort
  <2> QED BY <1>1, <2>1, <2>2, <2>3, <2>4 DEF RunStep
<1>2. ASSUME NEW j \in Jobs, RemoteStep(j)
      PROVE  UNCHANGED ledgerVars
  BY <1>2 DEF RemoteStep, LaunchPlace, LaunchLost, SupervisorUp, SupervisorFinish,
              SupervisorStopped, SupervisorDie, StrayMark, StrayStrike, RemoteTo
<1>3. ASSUME NEW w \in Workers, WorkerStep(w)
      PROVE  [LedgerNext]_ledgerVars
  <2>1. CASE WorkerApply(w)
    <3>1. wk[w].job \in Jobs /\ Outcome(w) \in RemoteStates
      BY <2>1, WorkerOutcomes DEF WorkerApply, WorkerPlaces, WorkerPlace
    <3> QED BY <2>1, <3>1 DEF WorkerApply, LedgerNext
  <2>2. CASE WorkerFail(w)
    <3>1. wk[w].job \in Jobs /\ Retained(w) \in RemoteStates
      BY <2>2, WorkerOutcomes DEF WorkerFail, WorkerPlaces, WorkerPlace
    <3> QED BY <2>2, <3>1 DEF WorkerFail, LedgerNext
  <2>3. CASE \/ CancelReread(w) \/ CancelMark(w) \/ CancelStrike(w)
             \/ WorkerLook(w) \/ WorkerCheck(w) \/ WorkerAbort(w)
    BY <2>3 DEF CancelReread, CancelMark, CancelStrike, WorkerLook, WorkerCheck, WorkerAbort
  <2> QED BY <1>3, <2>1, <2>2, <2>3 DEF WorkerStep, Answered
<1>4. ASSUME NEW w \in Clients, ClientStep(w)
      PROVE  [LedgerNext]_ledgerVars
  BY <1>4 DEF ClientStep, ClientRefresh, RefreshBegin, CancelBegin, LedgerNext
<1>5. CASE MonitorStep
  BY <1>5 DEF MonitorStep, MonitorTick, MonitorPick, MonitorSkip, RefreshBegin
<1>6. CASE Crash
  BY <1>6 DEF Crash
<1>7. CASE UNCHANGED vars
  BY <1>7 DEF vars, ledgerVars
<1> QED BY <1>1, <1>2, <1>3, <1>4, <1>5, <1>6, <1>7 DEF Next

-----------------------------------------------------------------------------
(* The helper's two looks at a directory give one of its answers. *)
LEMMA LooksType ==
  ASSUME NEW p \in Unplaced \cup Placed
  PROVE  /\ FirstLook(p) \in {"live?", "lost"} \cup Terminal
         /\ SecondLooks(p) \subseteq {"running", "lost"}
         /\ FirstLook(p) \in Terminal => FirstLook(p) = p
BY DEF FirstLook, SecondLooks, Terminal, Unplaced, Placed

(* The types of everything outside the ledger survive each step. *)
LEMMA ConsoleTypeInductive ==
  ASSUME ConsoleInv, [Next]_vars
  PROVE  ConsoleTypeOK'
<1> USE DEF ConsoleInv, ConsoleTypeOK
<1>0. TypeOK'
  BY ConsoleStepsLedger, LedgerTypeInductive
<1> DEFINE RunType == run \in [Jobs -> [pc : RunPcs, seen : Looks]]
           Calls == [pc : WorkerPcs, op : {"none", "refresh", "cancel"},
                     job : Jobs \cup {NoJob}, early : BOOLEAN,
                     old : Active \cup {"none"}, seen : Looks]
           WorkType == wk \in [Workers -> Calls]
<1>9. Idle \in Calls
  BY DEF Idle, WorkerPcs, Looks
<1>1. ASSUME NEW j \in Jobs, RunStep(j)
      PROVE  ConsoleTypeOK'
  <2>1. /\ UNCHANGED <<wk, todo, crashes, marker, stray, outside>>
        /\ phase' \in {phase, [phase EXCEPT ![j] = "sent"]}
    BY <1>1 DEF RunStep, RunLookup, RunProbe, RunCreate, LaunchSend, LaunchLook,
                LaunchCheck, RunApply, RunFail, RunAbort, remoteVars
  <2>2. ask' = ask \/ \E r \in Requests : ask' = [ask EXCEPT ![j] = r]
    BY <1>1 DEF RunStep, RunLookup, RunProbe, RunCreate, LaunchSend, LaunchLook,
                LaunchCheck, RunApply, RunFail, RunAbort
  <2>3. run' \in [Jobs -> [pc : RunPcs, seen : Looks]]
    <3>1. CASE LaunchLook(j)
      <4>1. FirstLook(phase[j]) \in Looks
        BY LooksType DEF Looks
      <4>2. Looked(run[j], phase[j]) \in [pc : RunPcs, seen : Looks]
        BY <4>1 DEF Looked, RunPcs
      <4>3. run' = [run EXCEPT ![j] = Looked(run[j], phase[j])]
        BY <3>1 DEF LaunchLook
      <4> QED BY <4>2, <4>3
    <3>2. CASE LaunchCheck(j)
      <4>1. SecondLooks(phase[j]) \subseteq Looks
        BY LooksType DEF Looks
      <4> QED BY <3>2, <4>1 DEF LaunchCheck, RunPcs
    <3>3. CASE ~LaunchLook(j) /\ ~LaunchCheck(j)
      <4>1. \E pc \in RunPcs : RunTo(j, pc)
        BY <1>1, <3>3 DEF RunStep, RunLookup, RunProbe, RunCreate, LaunchSend,
             RunApply, RunFail, RunAbort, RunPcs
      <4> QED BY <4>1 DEF RunTo, Looks
    <3> QED BY <3>1, <3>2, <3>3
  <2> QED BY <1>0, <2>1, <2>2, <2>3 DEF Unplaced
<1>2. ASSUME NEW j \in Jobs, RemoteStep(j)
      PROVE  ConsoleTypeOK'
  BY <1>0, <1>2 DEF RemoteStep, LaunchPlace, LaunchLost, SupervisorUp, SupervisorFinish,
       SupervisorStopped, SupervisorDie, StrayMark, StrayStrike, RemoteTo, serviceVars, Struck, Results,
       Unplaced, Placed, Terminal
<1>3. ASSUME NEW w \in Workers, WorkerStep(w)
      PROVE  ConsoleTypeOK'
  <2>1. UNCHANGED <<run, ask, todo, crashes, outside>>
    BY <1>3 DEF WorkerStep, Answered, CancelReread, CancelMark, CancelStrike, WorkerLook,
                WorkerCheck, WorkerApply, WorkerFail, WorkerAbort, remoteVars
  <2>2. wk[w].pc # "idle" /\ wk[w].job \in Jobs /\ Recorded(wk[w].job)
    BY <1>3 DEF WorkerStep, Answered, CancelReread, CancelMark, CancelStrike, WorkerLook,
                WorkerCheck, WorkerApply, WorkerFail, WorkerAbort, WorkerPlaces, WorkerPlace
  <2>3. /\ phase' \in {phase, Struck(wk[w].job)}
        /\ marker' \in {marker, marker \cup {wk[w].job}}
        /\ stray' \in {stray, stray \cup Orphans({w})}
    BY <1>3 DEF WorkerStep, Answered, CancelReread, CancelMark, CancelStrike, WorkerLook,
                WorkerCheck, WorkerApply, WorkerFail, WorkerAbort, remoteVars, MayOrphan
  <2>4. Orphans({w}) \subseteq Jobs
    BY <2>2 DEF Orphans
  <2>5. WorkType'
    <3>1. CASE WorkerLook(w)
      <4>1. FirstLook(phase[wk[w].job]) \in Looks
        BY <2>2, LooksType DEF Looks
      <4>2. PICK s \in Looks, pc \in {"check", "apply"} :
              wk' = [wk EXCEPT ![w] = [wk[w] EXCEPT !.seen = s, !.pc = pc]]
        BY <3>1, <4>1 DEF WorkerLook, Looked
      <4>3. [wk[w] EXCEPT !.seen = s, !.pc = pc] \in Calls
        BY DEF WorkerPcs
      <4> QED BY <4>2, <4>3
    <3>2. CASE WorkerCheck(w)
      <4>1. SecondLooks(phase[wk[w].job]) \subseteq Looks
        BY <2>2, LooksType DEF Looks
      <4>2. PICK s \in Looks :
              wk' = [wk EXCEPT ![w] = [wk[w] EXCEPT !.pc = "apply", !.seen = s]]
        BY <3>2, <4>1 DEF WorkerCheck
      <4>3. [wk[w] EXCEPT !.pc = "apply", !.seen = s] \in Calls
        BY DEF WorkerPcs
      <4> QED BY <4>2, <4>3
    <3>3. CASE CancelReread(w)
      <4>1. status[wk[w].job] \in Terminal \/ status[wk[w].job] \in Active
        BY <2>2 DEF TypeOK, Recorded
      <4>2. \A v \in Active : [wk[w] EXCEPT !.pc = "call", !.old = v] \in Calls
        BY DEF WorkerPcs
      <4> QED BY <3>3, <4>1, <4>2, <1>9 DEF CancelReread
    <3>4. CASE CancelMark(w) \/ CancelStrike(w)
      BY <3>4 DEF CancelMark, CancelStrike, WorkTo, WorkerPcs
    <3>5. CASE WorkerApply(w) \/ WorkerFail(w) \/ WorkerAbort(w)
      BY <3>5, <1>9 DEF WorkerApply, WorkerFail, WorkerAbort, WorkDone
    <3> QED BY <1>3, <3>1, <3>2, <3>3, <3>4, <3>5 DEF WorkerStep, Answered
  <2> QED BY <1>0, <2>1, <2>2, <2>3, <2>4, <2>5 DEF Struck, Placed
<1>4. ASSUME NEW w \in Workers, NEW j \in Jobs, RefreshBegin(w, j) \/ CancelBegin(w, j)
      PROVE  WorkType'
  <2>1. \A pc \in {"call", "reread"}, op \in {"refresh", "cancel"} :
          Locking(pc, op, j) \in Calls
    <3>1. \A pc \in WorkerPcs, op \in {"refresh", "cancel"}, e \in BOOLEAN :
            [Idle EXCEPT !.pc = pc, !.op = op, !.job = j, !.early = e] \in Calls
      BY <1>9
    <3>2. (run[j].pc \in InLaunch) \in BOOLEAN
      OBVIOUS
    <3> HIDE DEF Calls
    <3> QED BY <3>1, <3>2, Zenon DEF Locking, WorkerPcs
  <2>2. status[j] \in Active =>
          [Locking("call", "refresh", j) EXCEPT !.old = status[j]] \in Calls
    BY <2>1
  <2>3. /\ status[j] \in Active
        /\ \/ wk' = [wk EXCEPT ![w] = [Locking("call", "refresh", j) EXCEPT !.old = status[j]]]
           \/ wk' = [wk EXCEPT ![w] = Locking("reread", "cancel", j)]
    BY <1>4 DEF RefreshBegin, CancelBegin, RequestCancel
  <2> QED BY <2>1, <2>2, <2>3
<1>5. ASSUME NEW w \in Clients, ClientStep(w)
      PROVE  ConsoleTypeOK'
  BY <1>0, <1>4, <1>5 DEF ClientStep, ClientRefresh, RefreshBegin, CancelBegin, Workers,
                          remoteVars
<1>6. CASE MonitorStep
  BY <1>0, <1>4, <1>6 DEF MonitorStep, MonitorTick, MonitorPick, MonitorSkip, RefreshBegin,
                          Workers, remoteVars, ActiveJobs
<1>7. CASE Crash
  <2>1. RunType' /\ WorkType'
    BY <1>7 DEF Crash, Idle, RunPcs, WorkerPcs, Looks
  <2>2. Orphans(Workers) \subseteq Jobs
    BY DEF Orphans, WorkerPlaces, WorkerPlace
  <2> QED BY <1>0, <1>7, <2>1, <2>2, MaxCrashesAssumption DEF Crash, MayOrphan
<1>8. CASE UNCHANGED vars
  BY <1>0, <1>8 DEF vars
<1> QED BY <1>1, <1>2, <1>3, <1>5, <1>6, <1>7, <1>8 DEF Next

-----------------------------------------------------------------------------
(* The remote directories *)

(* A directory appears only through its own launch, ends for good, and shows a
   cancelled end only where a cancel was marked or a signal came from elsewhere;
   marks stay. *)
DirectoriesMove ==
  /\ marker \subseteq marker' /\ outside \subseteq outside'
  /\ \A j \in Jobs :
       /\ phase[j] \in Terminal => phase'[j] = phase[j]
       /\ phase[j] = "absent" /\ phase'[j] # "absent" => LaunchSend(j)
       /\ phase'[j] = "cancelled" => phase[j] = "cancelled" \/ j \in marker \cup outside'

(* Each step of the system moves the directories in that way. *)
LEMMA DirectoriesKeep ==
  ASSUME ConsoleInv, [Next]_vars
  PROVE  DirectoriesMove
<1> USE DEF ConsoleInv, ConsoleTypeOK, DirectoriesMove
<1>1. ASSUME NEW j \in Jobs, RunStep(j)
      PROVE  DirectoriesMove
  <2>1. CASE LaunchSend(j)
    <3>1. phase[j] = "absent"
      BY <2>1 DEF LaunchSend, RunPlaces, RunPlace, Unsent
    <3> QED BY <2>1, <3>1 DEF LaunchSend, Terminal
  <2>2. CASE ~LaunchSend(j)
    BY <1>1, <2>2 DEF RunStep, RunLookup, RunProbe, RunCreate, LaunchLook,
                      LaunchCheck, RunApply, RunFail, RunAbort, remoteVars
  <2> QED BY <2>1, <2>2
<1>2. ASSUME NEW j \in Jobs, RemoteStep(j)
      PROVE  DirectoriesMove
  BY <1>2 DEF RemoteStep, LaunchPlace, LaunchLost, SupervisorUp, SupervisorFinish,
       SupervisorStopped, SupervisorDie, StrayMark, StrayStrike, RemoteTo, Struck, Results, Terminal
<1>3. ASSUME NEW w \in Workers, WorkerStep(w)
      PROVE  DirectoriesMove
  BY <1>3 DEF WorkerStep, Answered, CancelReread, CancelMark, CancelStrike, WorkerLook,
       WorkerCheck, WorkerApply, WorkerFail, WorkerAbort, remoteVars, Struck, Terminal
<1>4. ASSUME NEW w \in Clients, ClientStep(w)
      PROVE  DirectoriesMove
  BY <1>4 DEF ClientStep, ClientRefresh, RefreshBegin, CancelBegin, remoteVars
<1>5. CASE MonitorStep
  BY <1>5 DEF MonitorStep, MonitorTick, MonitorPick, MonitorSkip, RefreshBegin, remoteVars
<1>6. CASE Crash
  BY <1>6 DEF Crash
<1>7. CASE UNCHANGED vars
  BY <1>7 DEF vars
<1> QED BY <1>1, <1>2, <1>3, <1>4, <1>5, <1>6, <1>7 DEF Next

-----------------------------------------------------------------------------
(* A run() call keeps to its one request, row and directory. *)
LEMMA RunPlacesInductive ==
  ASSUME ConsoleInv, [Next]_vars
  PROVE  RunPlaces'
<1> USE DEF ConsoleInv, ConsoleTypeOK
<1>1. Kept /\ DirectoriesMove
  BY ConsoleStepsLedger, LedgerKeeps, DirectoriesKeep
<1>2. ASSUME NEW j \in Jobs, run'[j] = run[j], ask'[j] = ask[j]
      PROVE  RunPlace(j)'
  BY <1>1, <1>2 DEF RunPlaces, RunPlace, Kept, DirectoriesMove, LaunchSend, RunTo
<1>3. ASSUME NEW j \in Jobs, RunStep(j)
      PROVE  RunPlace(j)'
  <2> USE <1>1, <1>3 DEF RunPlaces, RunPlace, Kept, InLaunch, Unsent, Terminal, RunTo
  <2>1. CASE (\E r \in Requests : RunLookup(j, r)) \/ RunProbe(j)
    BY <2>1 DEF RunLookup, RunProbe, ledgerVars, remoteVars, Recorded
  <2>2. CASE RunCreate(j)
    BY <2>2 DEF RunCreate, CreateJob, TypeOK, ledgerVars, remoteVars, Recorded
  <2>3. CASE LaunchSend(j)
    BY <2>3 DEF LaunchSend, ledgerVars, Recorded
  <2>4. CASE LaunchLook(j)
    BY <2>4, LooksType DEF LaunchLook, Looked, ledgerVars, remoteVars, Recorded, Answers
  <2>5. CASE LaunchCheck(j)
    BY <2>5, LooksType DEF LaunchCheck, ledgerVars, remoteVars, Recorded, Answers
  <2>6. CASE RunApply(j) \/ RunFail(j) \/ RunAbort(j)
    BY <2>6 DEF RunApply, RunFail, RunAbort, ledgerVars, remoteVars, Recorded
  <2> QED BY <2>1, <2>2, <2>3, <2>4, <2>5, <2>6 DEF RunStep
<1>4. ASSUME NEW j \in Jobs, RunStep(j)
      PROVE  \A i \in Jobs \ {j} : run'[i] = run[i] /\ ask'[i] = ask[i]
  BY <1>4 DEF RunStep, RunLookup, RunProbe, RunCreate, LaunchSend, LaunchLook,
              LaunchCheck, RunApply, RunFail, RunAbort, RunTo
<1>5. CASE Crash
  BY <1>1, <1>5 DEF Crash, RunPlaces, RunPlace, Kept, InLaunch, Unsent, Terminal, ledgerVars,
                    Recorded
<1>6. CASE \/ \E j \in Jobs : RemoteStep(j)
           \/ \E w \in Workers : WorkerStep(w)
           \/ \E w \in Clients : ClientStep(w)
           \/ MonitorStep
           \/ UNCHANGED vars
  <2>1. UNCHANGED <<run, ask>>
    BY <1>6 DEF vars, RemoteStep, LaunchPlace, LaunchLost, SupervisorUp, SupervisorFinish,
       SupervisorStopped, SupervisorDie, StrayMark, StrayStrike, RemoteTo, serviceVars, WorkerStep, Answered,
       CancelReread, CancelMark, CancelStrike, WorkerLook, WorkerCheck, WorkerApply,
       WorkerFail, WorkerAbort, ClientStep, ClientRefresh, RefreshBegin, CancelBegin,
       MonitorStep, MonitorTick, MonitorPick, MonitorSkip
  <2> QED BY <1>2, <2>1 DEF RunPlaces
<1> QED BY <1>2, <1>3, <1>4, <1>5, <1>6 DEF Next, RunPlaces

(* A call of refresh() or cancel() stays about its row; only a request makes
   it a cancel, whatever the row turns into meanwhile. *)
LEMMA WorkerPlacesInductive ==
  ASSUME ConsoleInv, [Next]_vars
  PROVE  WorkerPlaces'
<1> USE DEF ConsoleInv, ConsoleTypeOK
<1>1. Kept /\ DirectoriesMove
  BY ConsoleStepsLedger, LedgerKeeps, DirectoriesKeep
<1>2. ASSUME NEW w \in Workers, wk'[w] = wk[w]
      PROVE  WorkerPlace(w)'
  BY <1>1, <1>2 DEF WorkerPlaces, WorkerPlace, Kept, DirectoriesMove, Asked
<1>3. ASSUME NEW w \in Workers, WorkerStep(w)
      PROVE  WorkerPlace(w)'
  <2> USE <1>1, <1>3 DEF WorkerPlaces, WorkerPlace, Kept, Asked, Terminal
  <2>1. CASE CancelReread(w)
    BY <2>1 DEF CancelReread, CancelTraces, ledgerVars, remoteVars, Recorded, TypeOK, Idle
  <2>2. CASE CancelMark(w)
    BY <2>2 DEF CancelMark, WorkTo, ledgerVars, Recorded
  <2>3. CASE CancelStrike(w)
    BY <2>3 DEF CancelStrike, WorkTo, Struck, ledgerVars, Recorded
  <2>4. CASE WorkerLook(w)
    BY <2>4, LooksType DEF WorkerLook, Looked, ledgerVars, remoteVars, Recorded, Answers
  <2>5. CASE WorkerCheck(w)
    BY <2>5, LooksType DEF WorkerCheck, ledgerVars, remoteVars, Recorded, Answers
  <2>6. CASE WorkerApply(w) \/ WorkerFail(w) \/ WorkerAbort(w)
    BY <2>6 DEF WorkerApply, WorkerFail, WorkerAbort, WorkDone, Idle
  <2> QED BY <1>3, <2>1, <2>2, <2>3, <2>4, <2>5, <2>6 DEF WorkerStep, Answered
<1>4. ASSUME NEW w \in Workers, WorkerStep(w)
      PROVE  \A v \in Workers \ {w} : wk'[v] = wk[v]
  BY <1>4 DEF WorkerStep, Answered, CancelReread, CancelMark, CancelStrike, WorkerLook,
       WorkerCheck, WorkerApply, WorkerFail, WorkerAbort, WorkTo, WorkDone
<1>5. ASSUME NEW w \in Workers, NEW j \in Jobs, RefreshBegin(w, j)
      PROVE  WorkerPlaces'
  <2>1. WorkerPlace(w)'
    BY <1>1, <1>5 DEF RefreshBegin, Locking, Idle, WorkerPlace, CancelTraces, Asked,
         ledgerVars, Recorded, Active, Terminal
  <2> QED BY <1>2, <1>5, <2>1 DEF WorkerPlaces, RefreshBegin
<1>6. ASSUME NEW w \in Workers, NEW j \in Jobs, CancelBegin(w, j)
      PROVE  WorkerPlaces'
  <2>1. WorkerPlace(w)'
    BY <1>1, <1>6 DEF CancelBegin, RequestCancel, Locking, Idle, WorkerPlace, Asked,
         TypeOK, Recorded, Terminal
  <2> QED BY <1>2, <1>6, <2>1 DEF WorkerPlaces, CancelBegin
<1>7. CASE Crash
  BY <1>7 DEF Crash, WorkerPlaces, WorkerPlace, Idle, Terminal
<1>8. CASE \/ \E j \in Jobs : RunStep(j) \/ RemoteStep(j) \/ MonitorSkip(j)
           \/ MonitorTick
           \/ UNCHANGED vars
  <2>1. UNCHANGED wk
    BY <1>8 DEF vars, RunStep, RunLookup, RunProbe, RunCreate, LaunchSend, LaunchLook,
       LaunchCheck, RunApply, RunFail, RunAbort, RemoteStep, LaunchPlace, LaunchLost,
       SupervisorUp, SupervisorFinish, SupervisorStopped, SupervisorDie, StrayMark, StrayStrike, RemoteTo,
       serviceVars, MonitorTick, MonitorSkip
  <2> QED BY <1>2, <2>1 DEF WorkerPlaces
<1>9. CASE \/ \E w \in Clients : ClientStep(w)
           \/ \E j \in Jobs : MonitorPick(j)
  BY <1>5, <1>6, <1>9 DEF ClientStep, ClientRefresh, MonitorPick, Workers
<1>10. CASE \E w \in Workers : WorkerStep(w)
  BY <1>2, <1>3, <1>4, <1>10 DEF WorkerPlaces
<1> QED BY <1>5, <1>6, <1>7, <1>8, <1>9, <1>10 DEF Next, MonitorStep

-----------------------------------------------------------------------------
(* Only request_cancel makes a row cancelling, with its event. *)
LEMMA CancellingIsAsked ==
  ASSUME TypeOK, [LedgerNext]_ledgerVars, NEW j \in Jobs, status'[j] = "cancelling"
  PROVE  status[j] = "cancelling" \/ Asked(j)'
<1>1. ASSUME NEW i \in Jobs, NEW r \in Requests, CreateJob(i, r)
      PROVE  status[j] = "cancelling"
  BY <1>1 DEF CreateJob, TypeOK
<1>2. ASSUME NEW i \in Jobs, NEW s \in RemoteStates, UpdateObservation(i, s)
      PROVE  status[j] = "cancelling"
  BY <1>2 DEF UpdateObservation, NewStatus, TypeOK, Terminal
<1>3. ASSUME NEW i \in Jobs, RequestCancel(i)
      PROVE  status[j] = "cancelling" \/ Asked(j)'
  BY <1>3 DEF RequestCancel, TypeOK, Asked
<1> QED BY <1>1, <1>2, <1>3 DEF LedgerNext, ledgerVars

(* An observation of one job adds at most its own result to the events. *)
LEMMA ObservedEvents ==
  ASSUME TypeOK, NEW j \in Jobs, NEW s \in RemoteStates, UpdateObservation(j, s),
         NEW i \in Jobs, NEW e \in {"succeeded", "cancelled"}, e \in events'[i]
  PROVE  e \in events[i] \/ (i = j /\ e = s)
<1>1. NewStatus(status[j], s) = e => e = s
  BY DEF NewStatus, Terminal
<1> HIDE DEF NewStatus
<1> QED BY <1>1 DEF UpdateObservation, RecordEnd, TypeOK

(* No step leaves a cancel in the ledger or on the host without a request. *)
LEMMA CancelTracesInductive ==
  ASSUME ConsoleInv, [Next]_vars
  PROVE  CancelTraces' /\ KillsAreAsked'
<1> USE DEF ConsoleInv, ConsoleTypeOK
<1>1. Kept /\ DirectoriesMove /\ [LedgerNext]_ledgerVars
  BY ConsoleStepsLedger, LedgerKeeps, DirectoriesKeep
<1>2. CancelTraces'
  BY <1>1, CancellingIsAsked DEF CancelTraces, Kept, Asked, DirectoriesMove
<1>3. \A j \in Jobs : Asked(j) => Asked(j)'
  BY <1>1 DEF Kept, Asked
<1>4. \A j \in Jobs : j \in marker \cup stray => Asked(j)
  BY DEF KillsAreAsked, Asked
<1>5. \A w \in Workers : wk[w].pc # "idle" /\ Cancels(w) => Asked(wk[w].job)
  BY DEF Cancels, WorkerPlaces, WorkerPlace
<1>6. \A j \in Jobs : j \in Orphans(Workers) => Asked(j)
  BY <1>5 DEF Orphans
<1>7. \A j \in Jobs : j \in marker' \cup stray' =>
        \/ j \in marker \cup stray \cup Orphans(Workers)
        \/ \E w \in Workers : wk[w].pc # "idle" /\ Cancels(w) /\ j = wk[w].job
  <2>1. ASSUME NEW j \in Jobs, RunStep(j)
        PROVE  UNCHANGED <<marker, stray>>
    BY <2>1 DEF RunStep, RunLookup, RunProbe, RunCreate, LaunchSend, LaunchLook,
         LaunchCheck, RunApply, RunFail, RunAbort, remoteVars
  <2>2. ASSUME NEW j \in Jobs, RemoteStep(j)
        PROVE  marker' \cup stray' \subseteq marker \cup stray
    BY <2>2 DEF RemoteStep, LaunchPlace, LaunchLost, SupervisorUp, SupervisorFinish,
         SupervisorStopped, SupervisorDie, StrayMark, StrayStrike, RemoteTo
  <2>3. ASSUME NEW w \in Workers, CancelMark(w)
        PROVE  wk[w].pc # "idle" /\ Cancels(w) /\ marker' = marker \cup {wk[w].job} /\ stray' = stray
    BY <2>3 DEF CancelMark
  <2>4. ASSUME NEW w \in Workers, WorkerFail(w) \/ WorkerAbort(w)
        PROVE  marker' = marker /\ stray' \subseteq stray \cup Orphans(Workers)
    BY <2>4 DEF WorkerFail, WorkerAbort, MayOrphan, Orphans
  <2>5. ASSUME NEW w \in Workers,
               CancelReread(w) \/ CancelStrike(w) \/ WorkerLook(w) \/ WorkerCheck(w) \/ WorkerApply(w)
        PROVE  UNCHANGED <<marker, stray>>
    BY <2>5 DEF CancelReread, CancelStrike, WorkerLook, WorkerCheck, WorkerApply, remoteVars
  <2>6. CASE (\E w \in Clients : ClientStep(w)) \/ MonitorStep \/ UNCHANGED vars
    BY <2>6 DEF vars, ClientStep, ClientRefresh, RefreshBegin, CancelBegin, MonitorStep,
         MonitorTick, MonitorPick, MonitorSkip, remoteVars
  <2>7. CASE Crash
    BY <2>7 DEF Crash, MayOrphan
  <2> QED BY <2>1, <2>2, <2>3, <2>4, <2>5, <2>6, <2>7 DEF Next, WorkerStep, Answered
<1>8. \A j \in Jobs : j \in marker' \cup stray' => Asked(j)
  BY <1>4, <1>5, <1>6, <1>7
<1> QED BY <1>2, <1>3, <1>8 DEF KillsAreAsked, Asked

(* Each recorded result comes from the host, or from a lost job under cancel. *)
LEMMA VerdictInductive ==
  ASSUME ConsoleInv, [Next]_vars
  PROVE  VerdictIsTrue'
<1> USE DEF ConsoleInv, ConsoleTypeOK
<1>1. Kept /\ DirectoriesMove
  BY ConsoleStepsLedger, LedgerKeeps, DirectoriesKeep
<1>2. ASSUME UNCHANGED events
      PROVE  VerdictIsTrue'
  BY <1>1, <1>2 DEF VerdictIsTrue, DirectoriesMove, Terminal
<1>3. ASSUME NEW j \in Jobs, NEW s \in RemoteStates, UpdateObservation(j, s),
             s = "succeeded" => phase[j] = "succeeded",
             s = "cancelled" => Asked(j) \/ j \in outside
      PROVE  VerdictIsTrue'
  BY <1>1, <1>3, ObservedEvents DEF VerdictIsTrue, DirectoriesMove, Kept, Asked, Terminal
<1>4. ASSUME NEW j \in Jobs, phase[j] = "cancelled"
      PROVE  Asked(j) \/ j \in outside
  BY <1>4 DEF CancelTraces, KillsAreAsked, Asked
<1>5. ASSUME NEW j \in Jobs, RunStep(j)
      PROVE  VerdictIsTrue'
  <2>1. CASE RunApply(j)
    <3>1. /\ run[j].seen \in RemoteStates
          /\ run[j].seen \in Terminal => phase[j] = run[j].seen
      BY <2>1 DEF RunApply, RunPlaces, RunPlace, Answers, RemoteStates
    <3> QED BY <1>3, <1>4, <2>1, <3>1 DEF RunApply, Terminal
  <2>2. CASE RunFail(j)
    BY <1>3, <2>2 DEF RunFail, RemoteStates
  <2>3. CASE ~RunApply(j) /\ ~RunFail(j)
    BY <1>2, <1>5, <2>3 DEF RunStep, RunLookup, RunProbe, RunCreate, CreateJob,
         LaunchSend, LaunchLook, LaunchCheck, RunAbort, ledgerVars
  <2> QED BY <2>1, <2>2, <2>3
<1>6. ASSUME NEW w \in Workers, WorkerStep(w)
      PROVE  VerdictIsTrue'
  <2>1. CASE WorkerApply(w)
    <3> DEFINE j == wk[w].job
    <3>1. j \in Jobs /\ Outcome(w) \in RemoteStates
      BY <2>1, WorkerOutcomes DEF WorkerApply, WorkerPlaces, WorkerPlace
    <3>2. Outcome(w) = "succeeded" => phase[j] = "succeeded"
      BY DEF Outcome, WorkerPlaces, WorkerPlace, Terminal
    <3>3. Outcome(w) = "cancelled" => phase[j] = "cancelled" \/ Asked(j)
      BY DEF Outcome, WorkerPlaces, WorkerPlace, Terminal
    <3> QED BY <1>3, <1>4, <2>1, <3>1, <3>2, <3>3 DEF WorkerApply
  <2>2. CASE WorkerFail(w)
    <3>1. wk[w].job \in Jobs /\ Retained(w) \in {"running", "unknown"}
      BY <2>2 DEF WorkerFail, WorkerPlaces, WorkerPlace, Retained
    <3> QED BY <1>3, <2>2, <3>1 DEF WorkerFail, RemoteStates
  <2>3. CASE ~WorkerApply(w) /\ ~WorkerFail(w)
    BY <1>2, <1>6, <2>3 DEF WorkerStep, Answered, CancelReread, CancelMark, CancelStrike,
         WorkerLook, WorkerCheck, WorkerAbort, ledgerVars
  <2> QED BY <2>1, <2>2, <2>3
<1>7. ASSUME NEW w \in Workers, NEW j \in Jobs, CancelBegin(w, j)
      PROVE  VerdictIsTrue'
  BY <1>1, <1>7 DEF CancelBegin, RequestCancel, VerdictIsTrue, DirectoriesMove, Kept, Terminal
<1>8. CASE \/ \E j \in Jobs : RemoteStep(j)
           \/ \E w \in Clients, j \in Jobs : ClientRefresh(w, j)
           \/ MonitorStep \/ Crash \/ UNCHANGED vars
  <2>1. UNCHANGED events
    BY <1>8 DEF vars, ledgerVars, RemoteStep, LaunchPlace, LaunchLost, SupervisorUp,
       SupervisorFinish, SupervisorStopped, SupervisorDie, StrayMark, StrayStrike, RemoteTo, ClientRefresh,
       RefreshBegin, MonitorStep, MonitorTick, MonitorPick, MonitorSkip, Crash
  <2> QED BY <1>2, <2>1
<1> QED BY <1>5, <1>6, <1>7, <1>8 DEF Next, ClientStep, Workers

-----------------------------------------------------------------------------
(* The initial state satisfies the inductive invariant. *)
LEMMA ConsoleInvInit == Init => ConsoleInv
<1> SUFFICES ASSUME Init PROVE ConsoleInv
  OBVIOUS
<1>1. ConsoleTypeOK
  <2>1. TypeOK
    BY LedgerTypeInductive DEF Init
  <2>2. wk \in [Workers -> [pc : WorkerPcs, op : {"none", "refresh", "cancel"},
                 job : Jobs \cup {NoJob}, early : BOOLEAN,
                 old : Active \cup {"none"}, seen : Looks]]
    BY DEF Init, Idle, WorkerPcs, Looks
  <2> QED BY <2>1, <2>2, MaxCrashesAssumption
          DEF Init, ConsoleTypeOK, RunPcs, Looks, Unplaced
<1>2. RunPlaces
  BY DEF Init, LedgerInit, RunPlaces, RunPlace, InLaunch, Terminal
<1>3. WorkerPlaces
  BY DEF Init, WorkerPlaces, WorkerPlace, Idle, Terminal
<1>4. CancelTraces /\ KillsAreAsked /\ VerdictIsTrue
  BY DEF Init, LedgerInit, CancelTraces, KillsAreAsked, VerdictIsTrue
<1> QED BY <1>1, <1>2, <1>3, <1>4 DEF ConsoleInv

(* ConsoleInv holds in every state of the running system: in the ledger, in
   the calls in flight and on the host, through errors and crashes. *)
THEOREM ConsoleInvariant == Spec => []ConsoleInv
<1>1. ConsoleInv /\ [Next]_vars => ConsoleInv'
  BY ConsoleTypeInductive, RunPlacesInductive, WorkerPlacesInductive,
     CancelTracesInductive, VerdictInductive DEF ConsoleInv
<1> QED BY <1>1, ConsoleInvInit, PTL DEF Spec

(* The service's calls, the monitor and the directories keep their types. *)
THEOREM ConsoleTypeCorrect == Spec => []ConsoleTypeOK
BY ConsoleInvariant, PTL DEF ConsoleInv

(* A recorded success was the remote job's own, and a recorded cancel was asked
   for or the host's own word after a signal from elsewhere, although verdicts are
   formed from statuses read before ssh. *)
THEOREM VerdictsAreTrue == Spec => []VerdictIsTrue
BY ConsoleInvariant, PTL DEF ConsoleInv

(* The cancel verb reaches a job's directory only after cancel() for it. *)
THEOREM KillsFollowRequests == Spec => []KillsAreAsked
BY ConsoleInvariant, PTL DEF ConsoleInv

(* The console, with all its threads, failures and restarts, does nothing to
   the ledger that Ledger.tla does not allow; so the ledger's theorems, its
   GPU lease among them, hold of the running system. *)
THEOREM ConsoleImplementsLedger == Spec => LedgerSpec
<1>1. Init => LedgerInit
  BY DEF Init
<1> QED BY <1>1, ConsoleStepsLedger, ConsoleInvariant, PTL DEF Spec, LedgerSpec

(* In the running system a job's lock rows are its GPUs until its first end. *)
THEOREM ConsoleLocksFollowJobs == Spec => []LockDiscipline
BY ConsoleImplementsLedger, LocksFollowJobs, PTL

(* So each terminal job keeps its one notification to send. *)
THEOREM ConsoleEndsAreNotified == Spec => []EndIsNotified
BY ConsoleImplementsLedger, EndsAreNotified, PTL

(* No answer, however late, and no restart rewrites what the ledger has recorded:
   a first end, an event, a request. *)
THEOREM ConsoleHistoryIsKept == Spec => HistoryIsKept
BY ConsoleImplementsLedger, LedgerHistoryIsKept, PTL

(* And each job that ends, however often its end is observed, gives the outbox one
   row to deliver. *)
THEOREM ConsolePublishes == Spec => Publications!Spec
BY ConsoleImplementsLedger, LedgerPublishes, PTL

(* Through all of the service's races the GPUs are leased whole, to one job at a
   time, and given back once. *)
THEOREM ConsoleImplementsLease == Spec => LeaseSpec
BY ConsoleImplementsLedger, LedgerImplementsLease, PTL

(* However calls of run() with one request id overlap or die, at most one of
   them reaches the host, and it is the one whose row is in the ledger. *)
THEOREM RequestsLaunchOnce == Spec => []OneLaunchPerRequest
<1>1. ConsoleInv /\ OneJobPerRequest => OneLaunchPerRequest
  BY DEF ConsoleInv, RunPlaces, RunPlace, OneJobPerRequest, OneLaunchPerRequest
<1>2. Spec => []OneJobPerRequest
  BY ConsoleImplementsLedger, RequestsAreIdempotent, PTL
<1> QED BY <1>1, <1>2, ConsoleInvariant, PTL

-----------------------------------------------------------------------------
(* What the job lock is for *)

(* A job has one call at a time; a call that began after the launch finds the
   launch over and the job unfinished, until it ends itself; and the status a
   refresh read is not older than a cancel. *)
LockHeld(w) ==
  /\ wk[w].pc = "idle" => wk[w].job = NoJob
  /\ wk[w].pc # "idle" =>
       /\ wk[w].op \in {"refresh", "cancel"}
       /\ ~wk[w].early => run[wk[w].job].pc \notin InLaunch /\ status[wk[w].job] \in Active
       /\ wk[w].op = "refresh" /\ status[wk[w].job] = "cancelling" => wk[w].old = "cancelling"
LockInv ==
  /\ \A v, w \in Workers : wk[v].job \in Jobs /\ wk[v].job = wk[w].job => v = w
  /\ \A w \in Workers : LockHeld(w)

(* An observation changes one row, and makes none cancelling. *)
LEMMA ObservedStatus ==
  ASSUME TypeOK, NEW j \in Jobs, NEW s \in RemoteStates, UpdateObservation(j, s), NEW i \in Jobs
  PROVE  /\ i # j => status'[i] = status[i]
         /\ status'[i] = "cancelling" => status[i] = "cancelling"
BY DEF UpdateObservation, NewStatus, TypeOK, Terminal

(* A worker in whose job nothing happened keeps its part of LockInv. *)
LEMMA LockHeldFrame ==
  ASSUME LockInv, NEW w \in Workers, wk'[w] = wk[w],
         wk[w].pc # "idle" => UNCHANGED <<run[wk[w].job], status[wk[w].job]>>
  PROVE  LockHeld(w)'
BY DEF LockInv, LockHeld

(* The steps of run(), which takes no lock, leave LockInv alone. *)
LEMMA RunKeepsLockInv ==
  ASSUME ConsoleInv, LockInv, NEW j \in Jobs, RunStep(j)
  PROVE  LockInv'
<1> USE DEF ConsoleInv, ConsoleTypeOK
<1>1. wk' = wk
  BY DEF RunStep, RunLookup, RunProbe, RunCreate, LaunchSend, LaunchLook, LaunchCheck,
         RunApply, RunFail, RunAbort
<1>2. ASSUME NEW i \in Jobs \ {j}
      PROVE  UNCHANGED <<run[i], status[i]>>
  <2>1. CASE RunApply(j)
    <3>1. run[j].seen \in RemoteStates
      BY <2>1 DEF RunApply, RunPlaces, RunPlace, Answers, RemoteStates
    <3> QED BY <2>1, <3>1, ObservedStatus DEF RunApply, RunTo
  <2>2. CASE RunFail(j)
    BY <2>2, ObservedStatus DEF RunFail, RunTo, RemoteStates
  <2>3. CASE ~RunApply(j) /\ ~RunFail(j)
    BY <2>3 DEF RunStep, RunLookup, RunProbe, RunCreate, CreateJob, TypeOK, LaunchSend,
         LaunchLook, LaunchCheck, RunAbort, RunTo, ledgerVars
  <2> QED BY <2>1, <2>2, <2>3
<1>3. status'[j] = "cancelling" => status[j] = "cancelling"
  <2>1. CASE RunApply(j)
    <3>1. run[j].seen \in RemoteStates
      BY <2>1 DEF RunApply, RunPlaces, RunPlace, Answers, RemoteStates
    <3> QED BY <2>1, <3>1, ObservedStatus DEF RunApply
  <2>2. CASE RunFail(j)
    BY <2>2, ObservedStatus DEF RunFail, RemoteStates
  <2>3. CASE ~RunApply(j) /\ ~RunFail(j)
    BY <2>3 DEF RunStep, RunLookup, RunProbe, RunCreate, CreateJob, TypeOK, LaunchSend,
         LaunchLook, LaunchCheck, RunAbort, ledgerVars
  <2> QED BY <2>1, <2>2, <2>3
<1>4. ASSUME run[j].pc \notin InLaunch, status[j] \in Active
      PROVE  run'[j].pc \notin InLaunch /\ status'[j] = status[j]
  BY <1>4 DEF RunStep, RunLookup, RunProbe, RunCreate, CreateJob, LaunchSend, LaunchLook,
       LaunchCheck, RunApply, RunFail, RunAbort, RunTo, ledgerVars, InLaunch, Active
<1>5. ASSUME NEW w \in Workers
      PROVE  LockHeld(w)'
  <2>1. CASE wk[w].job # j
    BY <1>1, <1>2, <2>1, LockHeldFrame DEF WorkerPlaces, WorkerPlace
  <2>2. CASE wk[w].job = j
    BY <1>1, <1>3, <1>4, <2>2 DEF LockInv, LockHeld
  <2> QED BY <2>1, <2>2
<1> QED BY <1>1, <1>5 DEF LockInv

(* A worker keeps its job to itself until it lets it go. *)
LEMMA WorkerKeepsLockInv ==
  ASSUME ConsoleInv, LockInv, NEW w \in Workers, WorkerStep(w)
  PROVE  LockInv'
<1> USE DEF ConsoleInv, ConsoleTypeOK
<1>1. run' = run /\ \A v \in Workers \ {w} : wk'[v] = wk[v]
  BY DEF WorkerStep, Answered, CancelReread, CancelMark, CancelStrike, WorkerLook,
         WorkerCheck, WorkerApply, WorkerFail, WorkerAbort, WorkTo, WorkDone
<1>2. wk[w].pc # "idle" /\ wk[w].job \in Jobs
  BY DEF WorkerStep, Answered, CancelReread, CancelMark, CancelStrike, WorkerLook,
         WorkerCheck, WorkerApply, WorkerFail, WorkerAbort, WorkerPlaces, WorkerPlace
<1>3. \A i \in Jobs \ {wk[w].job} : status'[i] = status[i]
  <2>1. CASE WorkerApply(w)
    BY <1>2, <2>1, WorkerOutcomes, ObservedStatus DEF WorkerApply
  <2>2. CASE WorkerFail(w)
    BY <1>2, <2>2, WorkerOutcomes, ObservedStatus DEF WorkerFail
  <2>3. CASE ~WorkerApply(w) /\ ~WorkerFail(w)
    BY <2>3 DEF WorkerStep, Answered, CancelReread, CancelMark, CancelStrike, WorkerLook,
         WorkerCheck, WorkerAbort, ledgerVars
  <2> QED BY <2>1, <2>2, <2>3
<1>4. ASSUME NEW v \in Workers \ {w}
      PROVE  LockHeld(v)'
  <2>1. wk[v].job # wk[w].job
    BY <1>2 DEF LockInv
  <2>2. wk[v].pc # "idle" => UNCHANGED <<run[wk[v].job], status[wk[v].job]>>
    BY <1>1, <1>3, <2>1 DEF WorkerPlaces, WorkerPlace
  <2> QED BY <1>1, <2>2, LockHeldFrame
<1>5. CASE wk'[w] = Idle
  <2>1. wk'[w].job \notin Jobs /\ LockHeld(w)'
    BY <1>5, NoJobAssumption DEF Idle, LockHeld
  <2> QED BY <1>1, <1>4, <2>1 DEF LockInv
<1>6. CASE wk'[w] # Idle
  <2>1. UNCHANGED <<status, wk[w].job, wk[w].op>>
    BY <1>6 DEF WorkerStep, Answered, CancelReread, CancelMark, CancelStrike, WorkerLook,
         WorkerCheck, WorkerApply, WorkerFail, WorkerAbort, WorkTo, WorkDone, Looked, ledgerVars
  <2>5. wk'[w].early = wk[w].early
    BY <1>6 DEF WorkerStep, Answered, CancelReread, CancelMark, CancelStrike, WorkerLook,
         WorkerCheck, WorkerApply, WorkerFail, WorkerAbort, WorkTo, WorkDone, Looked
  <2>2. wk'[w].pc # "idle"
    BY <1>6 DEF WorkerStep, Answered, CancelReread, CancelMark, CancelStrike, WorkerLook,
         WorkerCheck, WorkerApply, WorkerFail, WorkerAbort, WorkTo, WorkDone, Looked
  <2>3. wk'[w].old = wk[w].old \/ wk'[w].old = status[wk[w].job]
    BY <1>6 DEF WorkerStep, Answered, CancelReread, CancelMark, CancelStrike, WorkerLook,
         WorkerCheck, WorkerApply, WorkerFail, WorkerAbort, WorkTo, WorkDone, Looked
  <2>4. LockHeld(w)'
    BY <1>1, <1>2, <2>1, <2>5, <2>2, <2>3 DEF LockInv, LockHeld
  <2> QED BY <1>1, <1>4, <2>1, <2>4 DEF LockInv
<1> QED BY <1>5, <1>6

(* A worker begins with a job that nobody else has. *)
LEMMA BeginKeepsLockInv ==
  ASSUME ConsoleInv, LockInv, NEW w \in Workers, NEW j \in Jobs,
         RefreshBegin(w, j) \/ CancelBegin(w, j)
  PROVE  LockInv'
<1> USE DEF ConsoleInv, ConsoleTypeOK
<1>1. /\ run' = run /\ \A v \in Workers \ {w} : wk'[v] = wk[v]
      /\ \A v \in Workers : wk[v].job # j
      /\ \A i \in Jobs \ {j} : status'[i] = status[i]
  BY DEF RefreshBegin, CancelBegin, RequestCancel, JobFree, ledgerVars, TypeOK
<1>2. wk'[w].job = j /\ wk'[w].pc # "idle" /\ LockHeld(w)'
  <2>1. CASE RefreshBegin(w, j)
    BY <2>1 DEF RefreshBegin, Locking, Idle, LockHeld, ledgerVars
  <2>2. CASE CancelBegin(w, j)
    BY <2>2 DEF CancelBegin, RequestCancel, Locking, Idle, LockHeld, TypeOK, Active
  <2> QED BY <2>1, <2>2
<1>3. ASSUME NEW v \in Workers \ {w}
      PROVE  LockHeld(v)'
  <2>1. wk[v].pc # "idle" => UNCHANGED <<run[wk[v].job], status[wk[v].job]>>
    BY <1>1 DEF WorkerPlaces, WorkerPlace
  <2> QED BY <1>1, <2>1, LockHeldFrame
<1> QED BY <1>1, <1>2, <1>3 DEF LockInv

(* LockInv is inductive on top of ConsoleInv. *)
LEMMA LockInvInductive ==
  ASSUME ConsoleInv, LockInv, [Next]_vars
  PROVE  LockInv'
<1>1. CASE \E j \in Jobs : RunStep(j)
  BY <1>1, RunKeepsLockInv
<1>2. CASE \E w \in Workers : WorkerStep(w)
  BY <1>2, WorkerKeepsLockInv
<1>3. CASE \/ \E w \in Clients : ClientStep(w)
           \/ \E j \in Jobs : MonitorPick(j)
  BY <1>3, BeginKeepsLockInv DEF ClientStep, ClientRefresh, MonitorPick, Workers
<1>4. CASE Crash
  BY <1>4, NoJobAssumption DEF Crash, LockInv, LockHeld, Idle
<1>5. CASE \/ \E j \in Jobs : RemoteStep(j) \/ MonitorSkip(j)
           \/ MonitorTick \/ UNCHANGED vars
  <2>1. UNCHANGED <<status, run, wk>>
    BY <1>5 DEF vars, ledgerVars, RemoteStep, LaunchPlace, LaunchLost, SupervisorUp,
       SupervisorFinish, SupervisorStopped, SupervisorDie, StrayMark, StrayStrike, RemoteTo, serviceVars,
       MonitorTick, MonitorSkip
  <2> QED BY <2>1, LockHeldFrame DEF LockInv
<1> QED BY <1>1, <1>2, <1>3, <1>4, <1>5 DEF Next, MonitorStep

(* The job lock is held by one call, and protects what the call has read. *)
THEOREM JobLockHeld == Spec => []LockInv
<1>1. Init => LockInv
  BY NoJobAssumption DEF Init, LockInv, LockHeld, Idle
<1> QED BY <1>1, LockInvInductive, ConsoleInvariant, PTL DEF Spec

-----------------------------------------------------------------------------
(* Only two kinds of calls write an observation into a row; each step that is
   neither leaves it, creates it or marks it cancelling. *)
LEMMA WhoObserves ==
  ASSUME ConsoleInv, [Next]_vars, NEW j \in Jobs, status'[j] # status[j]
  PROVE  \/ run[j].pc \in InLaunch
         \/ \E w \in Workers :
              /\ wk[w].job = j /\ wk[w].pc # "idle"
              /\ WorkerApply(w) \/ WorkerFail(w)
         \/ status[j] = "absent"
         \/ status[j] \in Active /\ status'[j] = "cancelling"
<1> USE DEF ConsoleInv, ConsoleTypeOK
<1>1. ASSUME NEW i \in Jobs, RunStep(i)
      PROVE  run[j].pc \in InLaunch \/ status[j] = "absent"
  <2>1. CASE RunApply(i)
    <3>1. run[i].seen \in RemoteStates /\ run[i].pc \in InLaunch
      BY <2>1 DEF RunApply, RunPlaces, RunPlace, Answers, RemoteStates, InLaunch
    <3> QED BY <2>1, <3>1, ObservedStatus DEF RunApply
  <2>2. CASE RunFail(i)
    BY <2>2, ObservedStatus DEF RunFail, RemoteStates
  <2>3. CASE ~RunApply(i) /\ ~RunFail(i)
    BY <1>1, <2>3 DEF RunStep, RunLookup, RunProbe, RunCreate, CreateJob, TypeOK, LaunchSend,
         LaunchLook, LaunchCheck, RunAbort, ledgerVars
  <2> QED BY <2>1, <2>2, <2>3
<1>2. ASSUME NEW w \in Workers, WorkerStep(w)
      PROVE  /\ wk[w].job = j /\ wk[w].pc # "idle"
             /\ WorkerApply(w) \/ WorkerFail(w)
  <2>1. WorkerApply(w) \/ WorkerFail(w)
    BY <1>2 DEF WorkerStep, Answered, CancelReread, CancelMark, CancelStrike, WorkerLook,
         WorkerCheck, WorkerAbort, ledgerVars
  <2>2. wk[w].pc # "idle" /\ wk[w].job \in Jobs
    BY <2>1 DEF WorkerApply, WorkerFail, WorkerPlaces, WorkerPlace
  <2>3. wk[w].job = j
    BY <2>1, <2>2, WorkerOutcomes, ObservedStatus DEF WorkerApply, WorkerFail
  <2> QED BY <2>1, <2>2, <2>3
<1>3. ASSUME NEW w \in Clients, ClientStep(w)
      PROVE  status[j] \in Active /\ status'[j] = "cancelling"
  BY <1>3 DEF ClientStep, ClientRefresh, RefreshBegin, CancelBegin, RequestCancel, TypeOK,
              ledgerVars
<1>4. CASE (\E i \in Jobs : RemoteStep(i)) \/ MonitorStep \/ Crash \/ UNCHANGED vars
  <2>1. UNCHANGED status
    BY <1>4 DEF vars, ledgerVars, RemoteStep, LaunchPlace, LaunchLost, SupervisorUp,
       SupervisorFinish, SupervisorStopped, SupervisorDie, StrayMark, StrayStrike, RemoteTo, MonitorStep,
       MonitorTick, MonitorPick, MonitorSkip, RefreshBegin, Crash
  <2> QED BY <2>1
<1> QED BY <1>1, <1>2, <1>3, <1>4 DEF Next

(* An end is left only by run()'s own write, or by a call that was begun while
   the launch was under way: the job lock makes it final for all others. *)
THEOREM EndsAreFinal == Spec => EndIsFinal
<1> DEFINE A == \A j \in Jobs :
             status[j] \in Terminal /\ status'[j] \notin Terminal =>
               \/ run[j].pc \in InLaunch
               \/ \E w \in Workers : wk[w].job = j /\ wk[w].early
<1>1. ASSUME ConsoleInv, LockInv, [Next]_vars
      PROVE  A
  <2> SUFFICES ASSUME NEW j \in Jobs, status[j] \in Terminal, status'[j] \notin Terminal,
                      run[j].pc \notin InLaunch
               PROVE  \E w \in Workers : wk[w].job = j /\ wk[w].early
    OBVIOUS
  <2>1. status[j] \notin Active /\ status[j] # "absent" /\ status'[j] # status[j]
    BY DEF Active, Terminal
  <2>2. PICK w \in Workers : wk[w].job = j /\ wk[w].pc # "idle"
    BY <1>1, <2>1, WhoObserves
  <2>3. ~wk[w].early => status[j] \in Active
    BY <1>1, <2>2 DEF LockInv, LockHeld
  <2> QED BY <2>1, <2>2, <2>3
<1>2. ConsoleInv /\ LockInv /\ [Next]_vars => [A]_vars
  BY <1>1
<1> QED BY <1>2, ConsoleInvariant, JobLockHeld, PTL DEF Spec, EndIsFinal

(* No refresh and no failed cancel, however late, takes a job out of
   cancelling without ending it; only the write at the end of run() does. *)
THEOREM CancelsAreKept == Spec => OnlyLaunchForgetsCancel
<1> DEFINE A == \A j \in Jobs :
             status[j] = "cancelling" /\ status'[j] \notin Terminal \cup {"cancelling"} =>
               run[j].pc \in InLaunch
<1>1. ASSUME ConsoleInv, LockInv, [Next]_vars
      PROVE  A
  <2> SUFFICES ASSUME NEW j \in Jobs, status[j] = "cancelling",
                      status'[j] \notin Terminal \cup {"cancelling"},
                      run[j].pc \notin InLaunch
               PROVE  FALSE
    OBVIOUS
  <2>1. PICK w \in Workers : /\ wk[w].job = j /\ wk[w].pc # "idle"
                             /\ WorkerApply(w) \/ WorkerFail(w)
    BY <1>1, WhoObserves
  <2>2. wk[w].op = "cancel" \/ wk[w].old = "cancelling"
    BY <1>1, <2>1 DEF LockInv, LockHeld
  <2>3. CASE WorkerApply(w)
    <3>1. Outcome(w) \in Answers
      <4>1. wk[w].seen \in Answers
        BY <1>1, <2>3 DEF WorkerApply, ConsoleInv, WorkerPlaces, WorkerPlace
      <4> QED BY <4>1 DEF Outcome, Answers, Terminal
    <3>2. NewStatus(status[j], Outcome(w)) \in Terminal \cup {"cancelling"}
      BY <3>1 DEF NewStatus, Answers, Terminal
    <3> QED BY <1>1, <2>1, <2>3, <3>2
            DEF WorkerApply, UpdateObservation, ConsoleInv, ConsoleTypeOK, TypeOK
  <2>4. CASE WorkerFail(w)
    <3>1. Retained(w) = "running"
      BY <2>2 DEF Retained
    <3>2. NewStatus(status[j], Retained(w)) = "cancelling"
      BY <3>1 DEF NewStatus, Terminal
    <3> QED BY <1>1, <2>1, <2>4, <3>2
            DEF WorkerFail, UpdateObservation, ConsoleInv, ConsoleTypeOK, TypeOK
  <2> QED BY <2>1, <2>3, <2>4
<1>2. ConsoleInv /\ LockInv /\ [Next]_vars => [A]_vars
  BY <1>1
<1> QED BY <1>2, ConsoleInvariant, JobLockHeld, PTL DEF Spec, OnlyLaunchForgetsCancel
-----------------------------------------------------------------------------
(* The locks keep two jobs off one GPU until the ledger believes one of them
   ended; a recorded success is true, so the end it believes in is another. *)
THEOREM SharingFollowsFalseEnd == Spec => []SharedOnlyAfterFalseEnd
<1>1. ASSUME ConsoleInv, LockDiscipline, EndIsNotified
      PROVE  SharedOnlyAfterFalseEnd
  <2> USE <1>1 DEF ConsoleInv, ConsoleTypeOK
  <2> SUFFICES ASSUME NEW i \in Jobs, NEW j \in Jobs, i # j, Live(i), Live(j),
                      NEW g \in GpusOf[ask[i].payload] \cap GpusOf[ask[j].payload]
               PROVE  \E k \in {i, j} : outbox[k] \in {"failed", "cancelled"}
    BY DEF SharedOnlyAfterFalseEnd
  <2>1. \A k \in {i, j} : Recorded(k) /\ request[k] = ask[k] /\ ask[k] \in Requests
    BY DEF RunPlaces, RunPlace, Live, Unsent
  <2>2. \A k \in {i, j} : outbox[k] # "succeeded"
    BY DEF EndIsNotified, VerdictIsTrue, Live
  <2>3. \E k \in {i, j} : outbox[k] # "none"
    <3>1. SUFFICES ASSUME outbox[i] = "none", outbox[j] = "none" PROVE FALSE
      OBVIOUS
    <3>2. g \in LocksOf(i) /\ g \in LocksOf(j)
      BY <2>1, <3>1 DEF LockDiscipline, Unreported
    <3> QED BY <3>2 DEF LocksOf
  <2> QED BY <2>2, <2>3 DEF TypeOK, Terminal
<1>2. Spec => []EndIsNotified
  BY ConsoleImplementsLedger, EndsAreNotified, PTL
<1> QED BY <1>1, <1>2, ConsoleLocksFollowJobs, ConsoleInvariant, PTL

(* What one step may do to the directory of one job: a step of its contract. *)
Contract(j) ==
  \/ UNCHANGED <<phase[j], j \in marker, j \in outside>>
  \/ /\ UNCHANGED <<j \in marker, j \in outside>>
     /\ <<phase[j], phase'[j]>> \in
          {<<"absent", "sent">>, <<"sent", "placed">>, <<"sent", "unplaced">>,
           <<"placed", "up">>, <<"placed", "gone">>, <<"up", "gone">>,
           <<"up", "succeeded">>, <<"up", "failed">>, <<"up", "cancelled">>}
     /\ phase'[j] = "cancelled" => j \in marker
  \/ /\ phase[j] = "up" /\ phase'[j] = "cancelled"
     /\ UNCHANGED (j \in marker) /\ (j \in outside)'
  \/ phase[j] \in Placed /\ UNCHANGED <<phase[j], j \in outside>> /\ (j \in marker)'

(* Each step of the system is at most one step in each directory. *)
LEMMA StepsKeepContract ==
  ASSUME ConsoleInv, [Next]_vars, NEW j \in Jobs
  PROVE  Contract(j)
<1> USE DEF ConsoleInv, ConsoleTypeOK
<1>1. ASSUME NEW i \in Jobs, RunStep(i)
      PROVE  Contract(j)
  <2>1. CASE LaunchSend(i)
    <3>1. phase[i] = "absent"
      BY <2>1 DEF LaunchSend, RunPlaces, RunPlace, Unsent
    <3> QED BY <2>1, <3>1 DEF LaunchSend, Contract
  <2>2. CASE ~LaunchSend(i)
    BY <1>1, <2>2 DEF RunStep, RunLookup, RunProbe, RunCreate, LaunchLook,
                      LaunchCheck, RunApply, RunFail, RunAbort, remoteVars, Contract
  <2> QED BY <2>1, <2>2
<1>2. ASSUME NEW i \in Jobs, RemoteStep(i)
      PROVE  Contract(j)
  <2>1. CASE LaunchPlace(i) \/ LaunchLost(i) \/ SupervisorUp(i) \/ SupervisorDie(i)
    BY <2>1 DEF LaunchPlace, LaunchLost, SupervisorUp, SupervisorDie, RemoteTo, Contract
  <2>2. CASE SupervisorFinish(i)
    BY <2>2 DEF SupervisorFinish, RemoteTo, Results, Contract
  <2>5. CASE SupervisorStopped(i)
    BY <2>5 DEF SupervisorStopped, Contract
  <2>3. CASE StrayMark(i)
    BY <2>3 DEF StrayMark, Contract
  <2>4. CASE StrayStrike(i)
    BY <2>4 DEF StrayStrike, Struck, Contract
  <2> QED BY <1>2, <2>1, <2>2, <2>3, <2>4, <2>5 DEF RemoteStep
<1>3. ASSUME NEW w \in Workers, WorkerStep(w)
      PROVE  Contract(j)
  <2>1. CASE CancelMark(w)
    BY <2>1 DEF CancelMark, Contract
  <2>2. CASE CancelStrike(w)
    BY <2>2 DEF CancelStrike, Struck, Contract
  <2>3. CASE ~CancelMark(w) /\ ~CancelStrike(w)
    BY <1>3, <2>3 DEF WorkerStep, Answered, CancelReread, WorkerLook, WorkerCheck,
         WorkerApply, WorkerFail, WorkerAbort, remoteVars, Contract
  <2> QED BY <2>1, <2>2, <2>3
<1>4. CASE (\E w \in Clients : ClientStep(w)) \/ MonitorStep \/ Crash \/ UNCHANGED vars
  BY <1>4 DEF vars, ClientStep, ClientRefresh, RefreshBegin, CancelBegin, MonitorStep,
       MonitorTick, MonitorPick, MonitorSkip, Crash, remoteVars, Contract
<1> QED BY <1>1, <1>2, <1>3, <1>4 DEF Next

(* The console and the supervisors use each directory as RemoteJob allows it,
   which is what RemoteHost is proved to provide. *)
THEOREM ConsoleKeepsContract == Spec => RemoteContract
<1> DEFINE A == \A j \in Jobs : Remote(j)!Next \/ UNCHANGED Remote(j)!jobVars
<1>1. Init => \A j \in Jobs : Remote(j)!Init
  <2> SUFFICES ASSUME Init, NEW j \in Jobs
               PROVE  Remote(j)!Init
    OBVIOUS
  <2>1. phase[j] = "absent" /\ j \notin marker /\ j \notin outside
    BY DEF Init
  <2> QED BY <2>1 DEF Remote!Init
<1>2. ASSUME ConsoleInv, [Next]_vars
      PROVE  A
  <2> SUFFICES ASSUME NEW j \in Jobs
               PROVE  Remote(j)!Next \/ UNCHANGED Remote(j)!jobVars
    OBVIOUS
  <2>1. Contract(j)
    BY <1>2, StepsKeepContract
  <2> QED
    BY <2>1 DEF Contract, Placed, Terminal, Remote!Next, Remote!jobVars, Remote!Send, Remote!Place,
       Remote!Lose, Remote!Up, Remote!Finish, Remote!Stop, Remote!Die, Remote!Mark, Remote!To,
       Remote!Results, Remote!Placed
<1>3. ConsoleInv /\ [Next]_vars => [A]_vars
  BY <1>2
<1> QED BY <1>1, <1>3, ConsoleInvariant, PTL DEF Spec, RemoteContract
=============================================================================
