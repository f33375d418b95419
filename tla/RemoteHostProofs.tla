-------------------------- MODULE RemoteHostProofs --------------------------
(***************************************************************************)
(* Theorems about RemoteHost.tla, for any set of helper processes.  HostInv  *)
(* is the first inductive invariant: who may create the directory, which     *)
(* file shows how far the supervisor is, and which verb a helper is in at     *)
(* which place.  DirInv, on top of it, is the order in which the files come,  *)
(* and what they say of processes: from it the refinement of RemoteJob.tla.   *)
(***************************************************************************)
EXTENDS RemoteHost, TLAPS

Creators == {"resolve", "request", "popen"}

(* mkdir lets one helper in; until it starts the supervisor there is none. *)
OneCreator ==
  /\ \A h, k \in Helpers :
       hp[h].pc \in Creators /\ hp[k].pc \in Creators => h = k
  /\ \A h \in Helpers : hp[h].pc \in Creators => "dir" \in files /\ sup = "none"
  /\ "dir" \notin files => sup = "none"
  /\ spawns = IF sup = "none" THEN 0 ELSE 1

(* The receipt separates the supervisor's two halves. *)
ReceiptOrder ==
  /\ "receipt" \notin files => sup \in {"none", "boot"} \/ SupGone
  /\ sup = "none" => "receipt" \notin files

(* A helper's place tells its verb, and a cancel past its first step has
   left the marker. *)
CancelPlaces ==
  \A h \in Helpers :
    /\ hp[h].pc \in Creators \cup {"await"} => hp[h].verb = "launch"
    /\ hp[h].verb = "cancel" /\ hp[h].pc \in {"target", "term"} \cup Struck
         => "marker" \in files

HostInv ==
  /\ TypeOK
  /\ OneCreator
  /\ ReceiptOrder
  /\ CancelPlaces
  /\ CancelReachesChild

-----------------------------------------------------------------------------
(* The variables keep their types, whatever step the host takes. *)
LEMMA HostTypeInductive ==
  ASSUME TypeOK, [Next]_vars
  PROVE  TypeOK'
<1> USE DEF TypeOK, SupPcs, HelperPcs, Files, Results, Verbs
<1>1. CASE Supervisor \/ Surroundings
  <2>1. CASE SupReceipt \/ SupSpawn \/ SupWait
    <3>1. CASE SupReceipt
      BY <3>1 DEF SupReceipt, SupTo, procVars
    <3>2. CASE SupSpawn
      BY <3>2 DEF SupSpawn, SupTo
    <3>3. CASE SupWait
      BY <3>3 DEF SupWait, SupTo, procVars
    <3> QED BY <2>1, <3>1, <3>2, <3>3
  <2>2. CASE SupCheck
    BY <2>2 DEF SupCheck, SupTo, Stopped
  <2>3. CASE SupJudge
    <3>1. verdict' \in Results
      BY <2>3 DEF SupJudge
    <3> QED BY <2>3, <3>1 DEF SupJudge, SupTo, procVars
  <2>4. CASE SupWrite
    BY <2>4 DEF SupWrite, SupTo, procVars
  <2>5. CASE SupExit \/ SupDie
    <3>1. CASE SupExit
      BY <3>1 DEF SupExit, SupTo, procVars
    <3>2. CASE SupDie
      BY <3>2 DEF SupDie, SupTo, procVars
    <3> QED BY <2>5, <3>1, <3>2
  <2>6. CASE OutsideSignal
    BY <2>6 DEF OutsideSignal, Stopped
  <2>7. CASE ChildExit \/ CommandStart \/ CommandExit
    <3>1. CASE ChildExit
      BY <3>1 DEF ChildExit
    <3>2. CASE CommandStart
      BY <3>2 DEF CommandStart
    <3>3. CASE CommandExit
      BY <3>3 DEF CommandExit
    <3> QED BY <2>7, <3>1, <3>2, <3>3
  <2> QED BY <1>1, <2>1, <2>2, <2>3, <2>4, <2>5, <2>6, <2>7 DEF Supervisor, Surroundings
<1>2. ASSUME NEW h \in Helpers, InspectJob(h)
      PROVE  TypeOK'
  BY <1>2 DEF InspectJob, ReadReceipt, ReadStatus, ReadProcess, Verdict, supVars, procVars
<1>3. ASSUME NEW h \in Helpers, Launch(h)
      PROVE  TypeOK'
  BY <1>3 DEF Launch, LaunchMkdir, LaunchExists, LaunchResolve, LaunchRequest,
              LaunchPopen, LaunchAwait, Goto, supVars, procVars
<1>4. ASSUME NEW h \in Helpers, Inspect(h) \/ Cancel(h)
      PROVE  TypeOK'
  BY <1>4 DEF Inspect, Cancel, Validate, supVars, procVars
<1>5. ASSUME NEW h \in Helpers, CancelSteps(h)
      PROVE  TypeOK'
  <2>1. CASE CancelMark(h) \/ CancelTarget(h)
    BY <2>1 DEF CancelMark, CancelTarget, Goto, supVars, procVars
  <2>2. CASE CancelTerm(h)
    <3>1. signalled' \in BOOLEAN /\ UNCHANGED <<outside, command>>
      BY <2>2 DEF CancelTerm
    <3>2. child' \in {"none", "running", "termed", "ok", "bad"}
      BY <2>2 DEF CancelTerm, Stopped
    <3> QED BY <2>2, <3>1, <3>2 DEF CancelTerm, Goto
  <2>3. CASE CancelGrace(h)
    BY <2>3 DEF CancelGrace, Goto, supVars, procVars
  <2>4. CASE CancelKill(h)
    BY <2>4 DEF CancelKill, Goto
  <2> QED BY <1>5, <2>1, <2>2, <2>3, <2>4 DEF CancelSteps
<1>6. ASSUME NEW h \in Helpers, HelperDie(h)
      PROVE  TypeOK'
  BY <1>6 DEF HelperDie, Goto, supVars, procVars
<1>7. CASE UNCHANGED vars
  BY <1>7 DEF vars, supVars, procVars
<1> QED BY <1>1, <1>2, <1>3, <1>4, <1>5, <1>6, <1>7 DEF Next, HelperStep

(* A host that has not heard of the job satisfies the inductive invariant. *)
LEMMA HostInvInit == Init => HostInv
<1> SUFFICES ASSUME Init PROVE HostInv
  OBVIOUS
<1>1. TypeOK
  BY DEF Init, TypeOK, Waiting, SupPcs, HelperPcs
<1>2. OneCreator /\ ReceiptOrder
  BY DEF Init, OneCreator, ReceiptOrder, Waiting, Creators
<1>3. CancelPlaces /\ CancelReachesChild
  BY DEF Init, CancelPlaces, CancelReachesChild, Waiting, Creators
<1> QED BY <1>1, <1>2, <1>3 DEF HostInv

-----------------------------------------------------------------------------
(* Steps of the supervisor and of the command: no helper moves. *)
LEMMA SupervisorInv ==
  ASSUME HostInv, TypeOK', Supervisor \/ Surroundings
  PROVE  HostInv'
<1> USE DEF HostInv, SupGone
<1>1. UNCHANGED <<hp, spawns>>
  BY DEF Supervisor, SupReceipt, SupSpawn, SupCheck, SupWait, SupJudge, SupWrite,
         SupExit, Surroundings, SupDie, OutsideSignal, ChildExit,
         CommandStart, CommandExit, procVars
<1>2. files \subseteq files' /\ ("dir" \in files' => "dir" \in files)
  BY DEF Supervisor, SupReceipt, SupSpawn, SupCheck, SupWait, SupJudge, SupWrite,
         SupExit, Surroundings, SupDie, OutsideSignal, ChildExit,
         CommandStart, CommandExit, procVars
<1>3. sup' = "none" <=> sup = "none"
  BY DEF Supervisor, SupReceipt, SupSpawn, SupCheck, SupWait, SupJudge, SupWrite,
         SupExit, Surroundings, SupDie, OutsideSignal, ChildExit,
         CommandStart, CommandExit, procVars, SupTo, SupAlive
<1>4. OneCreator'
  BY <1>1, <1>2, <1>3 DEF OneCreator
<1>5. ReceiptOrder'
  BY DEF ReceiptOrder, Supervisor, SupReceipt, SupSpawn, SupCheck, SupWait, SupJudge,
         SupWrite, SupExit, Surroundings, SupDie, OutsideSignal, ChildExit,
         CommandStart, CommandExit, procVars, SupTo, SupAlive
<1>6. CancelPlaces'
  BY <1>1, <1>2 DEF CancelPlaces
<1>7. CancelReachesChild'
  <2>1. CASE SupCheck
    BY <1>1, <2>1 DEF SupCheck, SupTo, CancelSeen, Stopped, CancelReachesChild,
                      CancelPlaces
  <2>2. CASE OutsideSignal \/ ChildExit \/ CommandStart \/ CommandExit
    BY <1>1, <2>2 DEF OutsideSignal, Stopped, ChildExit, CommandStart, CommandExit,
                      CancelReachesChild
  <2>3. CASE SupReceipt \/ SupSpawn \/ SupWait \/ SupJudge \/ SupWrite \/ SupExit \/ SupDie
    <3>1. sup' # "wait"
      BY <2>3 DEF SupReceipt, SupSpawn, SupWait, SupJudge, SupWrite, SupExit, SupDie, SupTo
    <3> QED BY <3>1 DEF CancelReachesChild
  <2> QED BY <2>1, <2>2, <2>3 DEF Supervisor, Surroundings
<1> QED BY <1>4, <1>5, <1>6, <1>7

(* Steps of inspect_job, and the first step of inspect and of cancel: they
   only read, and do not take a cancel helper past its kill. *)
LEMMA ReaderInv ==
  ASSUME HostInv, TypeOK', NEW h \in Helpers,
         InspectJob(h) \/ Inspect(h) \/ Cancel(h) \/ HelperDie(h)
  PROVE  HostInv'
<1> USE DEF HostInv, SupGone
<1>1. UNCHANGED supVars
  BY DEF InspectJob, ReadReceipt, ReadStatus, ReadProcess, Inspect, Cancel, Validate,
         HelperDie
<1>2. \A k \in Helpers \ {h} : hp'[k] = hp[k]
  BY DEF TypeOK, InspectJob, ReadReceipt, ReadStatus, ReadProcess, Inspect, Cancel,
         Validate, HelperDie, Goto
<1>3. /\ hp'[h].pc \notin Creators \cup {"await", "target", "term", "grace", "kill"}
      /\ hp'[h].verb = "cancel" /\ hp'[h].pc \in Struck =>
           hp[h].verb = "cancel" /\ hp[h].pc \in Struck
  BY DEF TypeOK, InspectJob, ReadReceipt, ReadStatus, ReadProcess, Inspect, Cancel,
         Validate, HelperDie, Goto, Creators, Struck
<1>4. OneCreator' /\ ReceiptOrder'
  BY <1>1, <1>2, <1>3 DEF OneCreator, ReceiptOrder, supVars, procVars
<1>5. CancelPlaces'
  BY <1>1, <1>2, <1>3 DEF CancelPlaces, supVars, procVars
<1>6. CancelReachesChild'
  BY <1>1, <1>2, <1>3 DEF CancelReachesChild, supVars, procVars
<1> QED BY <1>4, <1>5, <1>6

(* Steps of launch: they never end in a cancel helper's place. *)
LEMMA LaunchInv ==
  ASSUME HostInv, TypeOK', NEW h \in Helpers, Launch(h)
  PROVE  HostInv'
<1> USE DEF HostInv, SupGone
<1>1. \A k \in Helpers \ {h} : hp'[k] = hp[k]
  BY DEF TypeOK, Launch, LaunchMkdir, LaunchExists, LaunchResolve, LaunchRequest,
         LaunchPopen, LaunchAwait, Goto
<1>2. hp'[h].verb = "launch"
  BY DEF TypeOK, CancelPlaces, Creators, Launch, LaunchMkdir, LaunchExists,
         LaunchResolve, LaunchRequest, LaunchPopen, LaunchAwait, Goto
<1>3. files \subseteq files' /\ ("receipt" \in files' => "receipt" \in files)
  BY DEF Launch, LaunchMkdir, LaunchExists, LaunchResolve, LaunchRequest,
         LaunchPopen, LaunchAwait, supVars, procVars
<1>4. (sup' = sup \/ (hp[h].pc = "popen" /\ sup' = "boot")) /\ child' = child
  BY DEF Launch, LaunchMkdir, LaunchExists, LaunchResolve, LaunchRequest,
         LaunchPopen, LaunchAwait, supVars, procVars
<1>5. OneCreator'
  BY DEF TypeOK, OneCreator, Creators, Launch, LaunchMkdir, LaunchExists,
         LaunchResolve, LaunchRequest, LaunchPopen, LaunchAwait, Goto, supVars, procVars
<1>6. ReceiptOrder'
  BY <1>3, <1>4 DEF ReceiptOrder, OneCreator, Creators
<1>7. CancelPlaces'
  BY <1>1, <1>2, <1>3 DEF CancelPlaces
<1>8. CancelReachesChild'
  BY <1>1, <1>2, <1>4 DEF CancelReachesChild
<1> QED BY <1>5, <1>6, <1>7, <1>8

(* Steps of cancel: the target and kill steps establish CancelReachesChild,
   by the order of receipt and marker. *)
LEMMA CancelInv ==
  ASSUME HostInv, TypeOK', NEW h \in Helpers, CancelSteps(h)
  PROVE  HostInv'
<1> USE DEF HostInv, SupGone
<1>1. \A k \in Helpers \ {h} : hp'[k] = hp[k]
  BY DEF TypeOK, CancelSteps, CancelMark, CancelTarget, CancelTerm, CancelGrace, CancelKill, Goto
<1>2. hp'[h].pc \notin Creators \cup {"await"} /\ hp[h].pc \notin Creators
  BY DEF TypeOK, Creators, CancelSteps, CancelMark, CancelTarget, CancelTerm,
         CancelGrace, CancelKill, Goto
<1>3. /\ files \subseteq files' /\ spawns' = spawns
      /\ "receipt" \in files' => "receipt" \in files
      /\ "dir" \in files' => "dir" \in files
  BY DEF CancelSteps, CancelMark, CancelTarget, CancelTerm, CancelGrace, CancelKill, supVars, procVars
<1>4. sup' = sup \/ (SupAlive /\ sup' = "dead")
  BY DEF CancelSteps, CancelMark, CancelTarget, CancelTerm, CancelGrace, CancelKill, supVars, procVars
<1>5. child' = "running" => child = "running"
  BY DEF CancelSteps, CancelMark, CancelTarget, CancelTerm, CancelGrace, CancelKill, supVars, procVars, Stopped
<1>6. OneCreator'
  BY <1>1, <1>2, <1>3, <1>4 DEF OneCreator, SupAlive
<1>7. ReceiptOrder'
  BY <1>3, <1>4 DEF ReceiptOrder, SupAlive
<1>8. CancelPlaces'
  <2>1. hp'[h].verb = "cancel" => "marker" \in files'
    BY DEF TypeOK, CancelPlaces, Struck, CancelSteps, CancelMark, CancelTarget,
           CancelTerm, CancelGrace, CancelKill, Goto, supVars, procVars
  <2> QED BY <1>1, <1>2, <1>3, <2>1 DEF CancelPlaces
<1>9. CancelReachesChild'
  <2>1. ASSUME hp'[h].verb = "cancel", hp'[h].pc \in Struck
        PROVE  ~(sup' = "wait" /\ child' = "running")
    <3>1. CASE CancelMark(h)
      BY <2>1, <3>1 DEF CancelMark, Goto, Struck, TypeOK
    <3>2. CASE CancelTarget(h)
      BY <2>1, <3>2 DEF CancelTarget, Goto, Struck, TypeOK, Matches, SupAlive,
                        ReceiptOrder, supVars, procVars
    <3>3. CASE CancelTerm(h)
      BY <2>1, <3>3 DEF CancelTerm, Goto, Struck, TypeOK, Stopped
    <3>4. CASE CancelGrace(h)
      <4>1. hp[h].pc = "grace" /\ hp[h].verb = "cancel" /\ UNCHANGED <<sup, child>>
        BY <2>1, <3>4 DEF CancelGrace, Goto, TypeOK, supVars, procVars
      <4> QED BY <4>1 DEF CancelReachesChild, Struck
    <3>5. CASE CancelKill(h)
      BY <3>5 DEF CancelKill, SupAlive, ChildAlive, TypeOK
    <3> QED BY <3>1, <3>2, <3>3, <3>4, <3>5 DEF CancelSteps
  <2> QED BY <1>1, <1>4, <1>5, <2>1 DEF CancelReachesChild
<1> QED BY <1>6, <1>7, <1>8, <1>9

(* Every reachable state of the host satisfies the inductive invariant. *)
THEOREM HostInvariant == Spec => []HostInv
<1>1. HostInv /\ [Next]_vars => HostInv'
  <2> SUFFICES ASSUME HostInv, [Next]_vars PROVE HostInv'
    OBVIOUS
  <2>1. TypeOK'
    BY HostTypeInductive DEF HostInv
  <2>2. CASE UNCHANGED vars
    BY <2>1, <2>2 DEF vars, supVars, procVars, SupGone, HostInv, OneCreator, ReceiptOrder, CancelPlaces,
                      CancelReachesChild
  <2> QED BY <2>1, <2>2, SupervisorInv, ReaderInv, LaunchInv, CancelInv
          DEF Next, HelperStep
<1> QED BY <1>1, HostInvInit, PTL DEF Spec

(* Type correctness of the host's files, processes and helpers. *)
THEOREM HostTypeCorrect == Spec => []TypeOK
BY HostInvariant, PTL DEF HostInv

(* mkdir makes launch start the command at most once, whatever is repeated. *)
THEOREM CommandStartsOnce == Spec => []OneSupervisor
<1>1. HostInv => OneSupervisor
  BY DEF HostInv, OneCreator, OneSupervisor
<1> QED BY <1>1, HostInvariant, PTL

(* The marker-receipt handshake of cancel and supervise loses no cancel. *)
THEOREM CancelIsNotMissed == Spec => []CancelReachesChild
BY HostInvariant, PTL DEF HostInv

-----------------------------------------------------------------------------
Making == {"resolve", "request"}

(* request.json comes with the end of mkdir's helper, before any supervisor
   and before any cancel. *)
RequestOrder ==
  /\ "request" \in files => "dir" \in files
  /\ sup # "none" \/ "marker" \in files => "request" \in files
  /\ sup = "boot" => "receipt" \notin files
  /\ \A h \in Helpers :
       /\ hp[h].pc \in Making => "request" \notin files
       /\ hp[h].pc \in {"popen", "mark"} => "request" \in files
       /\ hp[h].pc \in {"target", "term"} => "marker" \in files

(* status.json is the last word of the supervisor, and tells of a cancel only
   after the marker or a signal that was no cancel's. *)
StatusOrder ==
  /\ status # "none" => sup = "exiting" \/ SupGone
  /\ sup = "exiting" => status # "none"
  /\ sup = "write" => verdict \in Results
  /\ signalled \/ verdict = "cancelled" => "marker" \in files \/ outside

(* What a helper has read stays true, and so does its answer. *)
ReadOrder ==
  /\ \A h \in Helpers :
       /\ hp[h].rec => "receipt" \in files
       /\ hp[h].st # "none" => status = hp[h].st
  /\ AnswersAreSound

DirInv ==
  /\ HostInv
  /\ RequestOrder
  /\ StatusOrder
  /\ ReadOrder

-----------------------------------------------------------------------------
(* Steps of the supervisor and of the command. *)
LEMMA SupervisorDirInv ==
  ASSUME DirInv, Supervisor \/ Surroundings
  PROVE  RequestOrder' /\ StatusOrder' /\ ReadOrder'
<1> USE DEF DirInv, HostInv, SupGone
<1>1. hp' = hp /\ files \subseteq files' /\ files' \subseteq files \cup {"receipt"}
  BY DEF Supervisor, SupReceipt, SupSpawn, SupCheck, SupWait, SupJudge, SupWrite,
         SupExit, Surroundings, SupDie, OutsideSignal, ChildExit,
         CommandStart, CommandExit, procVars
<1>2. sup' # "none" => sup # "none"
  BY DEF Supervisor, SupReceipt, SupSpawn, SupCheck, SupWait, SupJudge, SupWrite,
         SupExit, Surroundings, SupDie, OutsideSignal, ChildExit,
         CommandStart, CommandExit, procVars, SupTo, SupAlive
<1>3. RequestOrder'
  <2>1. sup' = "boot" => sup = "boot" /\ files' = files
    BY DEF Supervisor, SupReceipt, SupSpawn, SupCheck, SupWait, SupJudge, SupWrite,
           SupExit, Surroundings, SupDie, OutsideSignal, ChildExit,
         CommandStart, CommandExit, procVars, SupTo
  <2> QED BY <1>1, <1>2, <2>1 DEF RequestOrder
<1>4. StatusOrder'
  BY DEF StatusOrder, Supervisor, SupReceipt, SupSpawn, SupCheck, SupWait, SupJudge,
         SupWrite, SupExit, Surroundings, SupDie, OutsideSignal, ChildExit,
         CommandStart, CommandExit, procVars, SupTo, SupAlive, CancelSeen, Results
<1>5. status # "none" => status' = status
  BY DEF StatusOrder, Supervisor, SupReceipt, SupSpawn, SupCheck, SupWait, SupJudge,
         SupWrite, SupExit, Surroundings, SupDie, OutsideSignal, ChildExit,
         CommandStart, CommandExit, procVars
<1>6. SupGone => SupGone'
  BY DEF Supervisor, SupReceipt, SupSpawn, SupCheck, SupWait, SupJudge, SupWrite,
         SupExit, Surroundings, SupDie, OutsideSignal, ChildExit,
         CommandStart, CommandExit, procVars, SupAlive
<1>7. ReadOrder'
  BY <1>1, <1>5, <1>6 DEF ReadOrder, AnswersAreSound, Results
<1> QED BY <1>3, <1>4, <1>7

(* Steps of inspect_job and the first steps of inspect and cancel only read. *)
LEMMA ReaderDirInv ==
  ASSUME DirInv, TypeOK', NEW h \in Helpers,
         InspectJob(h) \/ Inspect(h) \/ Cancel(h) \/ HelperDie(h)
  PROVE  RequestOrder' /\ StatusOrder' /\ ReadOrder'
<1> USE DEF DirInv, HostInv, SupGone
<1>1. UNCHANGED supVars
  BY DEF InspectJob, ReadReceipt, ReadStatus, ReadProcess, Inspect, Cancel, Validate,
         HelperDie
<1>2. \A k \in Helpers \ {h} : hp'[k] = hp[k]
  BY DEF TypeOK, InspectJob, ReadReceipt, ReadStatus, ReadProcess, Inspect, Cancel,
         Validate, HelperDie, Goto
<1>3. /\ hp'[h].pc \notin Making \cup {"popen", "target", "term"}
      /\ hp'[h].pc = "mark" => "request" \in files
  BY DEF TypeOK, InspectJob, ReadReceipt, ReadStatus, ReadProcess, Inspect, Cancel,
         Validate, HelperDie, Goto, Making
<1>4. RequestOrder'
  BY <1>1, <1>2, <1>3 DEF RequestOrder, supVars, procVars
<1>5. StatusOrder'
  BY <1>1 DEF StatusOrder, supVars, procVars
<1>6. /\ hp'[h].rec => "receipt" \in files
      /\ hp'[h].st # "none" => status = hp'[h].st
  BY DEF ReadOrder, TypeOK, InspectJob, ReadReceipt, ReadStatus, ReadProcess, Inspect, Cancel,
         Validate, HelperDie, Goto
<1>7. ASSUME hp'[h].pc = "done"
      PROVE  /\ hp'[h].ans \in Results => status = hp'[h].ans
             /\ hp'[h].ans = "lost" /\ hp'[h].rec => SupGone
  <2>1. ReadProcess(h)
    BY <1>7 DEF TypeOK, InspectJob, ReadReceipt, ReadStatus, Inspect, Cancel, Validate,
         HelperDie, Goto
  <2>2. hp'[h].ans = Verdict(hp[h].rec, hp[h].st) /\ hp'[h].rec = hp[h].rec
    BY <2>1 DEF ReadProcess, TypeOK
  <2>3. Verdict(hp[h].rec, hp[h].st) \in Results => status = Verdict(hp[h].rec, hp[h].st)
    BY DEF Verdict, ReadOrder, Results
  <2>4. Verdict(hp[h].rec, hp[h].st) = "lost" /\ hp[h].rec => SupGone
    BY DEF Verdict, ReadOrder, ReceiptOrder, SupAlive, TypeOK, Results
  <2> QED BY <2>2, <2>3, <2>4
<1>8. ReadOrder'
  BY <1>1, <1>2, <1>6, <1>7 DEF ReadOrder, AnswersAreSound, supVars, procVars
<1> QED BY <1>4, <1>5, <1>8

(* Steps of launch: the files appear in their order, under one helper. *)
LEMMA LaunchDirInv ==
  ASSUME DirInv, TypeOK', NEW h \in Helpers, Launch(h)
  PROVE  RequestOrder' /\ StatusOrder' /\ ReadOrder'
<1> USE DEF DirInv, HostInv, SupGone
<1>1. /\ \A k \in Helpers \ {h} : hp'[k] = hp[k]
      /\ hp'[h].rec = hp[h].rec /\ hp'[h].st = hp[h].st /\ hp'[h].pc # "done"
  BY DEF TypeOK, Launch, LaunchMkdir, LaunchExists, LaunchResolve, LaunchRequest,
         LaunchPopen, LaunchAwait, Goto
<1>2. /\ UNCHANGED <<status, signalled, outside, verdict>> /\ files \subseteq files'
      /\ files' \subseteq files \cup {"dir", "request"}
      /\ sup' = sup \/ (sup = "none" /\ sup' = "boot")
  BY DEF OneCreator, Creators, Launch, LaunchMkdir, LaunchExists, LaunchResolve,
         LaunchRequest, LaunchPopen, LaunchAwait, supVars, procVars
<1>3. RequestOrder'
  <2>1. CASE LaunchMkdir(h)
    BY <1>1, <2>1 DEF LaunchMkdir, RequestOrder, TypeOK, Making
  <2>2. CASE LaunchExists(h) \/ LaunchResolve(h) \/ LaunchAwait(h)
    BY <1>1, <2>2 DEF LaunchExists, LaunchResolve, LaunchAwait, Goto, RequestOrder, TypeOK,
                      Making, supVars, procVars
  <2>3. CASE LaunchRequest(h)
    BY <1>1, <2>3 DEF LaunchRequest, Goto, RequestOrder, OneCreator, Creators, TypeOK, Making
  <2>4. CASE LaunchPopen(h)
    BY <1>1, <2>4 DEF LaunchPopen, Goto, RequestOrder, TypeOK, Making, OneCreator, Creators,
                      ReceiptOrder
  <2> QED BY <2>1, <2>2, <2>3, <2>4 DEF Launch
<1>4. StatusOrder'
  BY <1>2 DEF StatusOrder
<1>5. ReadOrder'
  BY <1>1, <1>2 DEF ReadOrder, AnswersAreSound, Results
<1> QED BY <1>3, <1>4, <1>5

(* Steps of cancel: the marker comes after request.json and before signals. *)
LEMMA CancelDirInv ==
  ASSUME DirInv, TypeOK', NEW h \in Helpers, CancelSteps(h)
  PROVE  RequestOrder' /\ StatusOrder' /\ ReadOrder'
<1> USE DEF DirInv, HostInv, SupGone
<1>1. /\ \A k \in Helpers \ {h} : hp'[k] = hp[k]
      /\ hp'[h].rec = hp[h].rec /\ hp'[h].st = hp[h].st
      /\ hp'[h].pc \notin Making \cup {"popen", "mark", "done"}
      /\ hp'[h].pc \in {"target", "term"} => hp[h].pc = "target" \/ "marker" \in files'
  BY DEF TypeOK, CancelSteps, CancelMark, CancelTarget, CancelTerm, CancelGrace, CancelKill, Goto, Making
<1>2. /\ UNCHANGED <<status, outside, verdict>> /\ files \subseteq files'
      /\ files' = files \/ (files' = files \cup {"marker"} /\ hp[h].pc = "mark")
      /\ sup' = sup \/ (SupAlive /\ sup' = "dead")
  BY DEF CancelSteps, CancelMark, CancelTarget, CancelTerm, CancelGrace, CancelKill, supVars, procVars
<1>3. RequestOrder'
  BY <1>1, <1>2 DEF RequestOrder, SupAlive
<1>4. signalled' => signalled \/ "marker" \in files
  BY DEF CancelSteps, CancelMark, CancelTarget, CancelTerm, CancelGrace, CancelKill, supVars, procVars,
         RequestOrder
<1>5. StatusOrder'
  BY <1>2, <1>4 DEF StatusOrder
<1>6. ReadOrder'
  BY <1>1, <1>2 DEF ReadOrder, AnswersAreSound, Results, SupAlive
<1> QED BY <1>3, <1>5, <1>6

-----------------------------------------------------------------------------
(* An empty directory satisfies DirInv. *)
LEMMA DirInvInit == Init => DirInv
<1> SUFFICES ASSUME Init PROVE DirInv
  OBVIOUS
<1>1. HostInv
  BY HostInvInit
<1>2. RequestOrder /\ StatusOrder /\ ReadOrder
  BY DEF Init, Waiting, RequestOrder, StatusOrder, ReadOrder, AnswersAreSound, Making
<1> QED BY <1>1, <1>2 DEF DirInv

(* Files, processes and what helpers have read of them agree in every
   reachable state of the host. *)
THEOREM DirectoryInvariant == Spec => []DirInv
<1>1. ASSUME DirInv, HostInv', [Next]_vars
      PROVE  DirInv'
  <2>1. TypeOK'
    BY <1>1 DEF HostInv
  <2>2. CASE UNCHANGED vars
    BY <1>1, <2>2 DEF vars, supVars, procVars, SupGone, DirInv, RequestOrder, StatusOrder, ReadOrder, AnswersAreSound
  <2> QED BY <1>1, <2>1, <2>2, SupervisorDirInv, ReaderDirInv, LaunchDirInv, CancelDirInv
          DEF Next, HelperStep, DirInv
<1>2. DirInv /\ HostInv' /\ [Next]_vars => DirInv'
  BY <1>1
<1> QED BY <1>2, DirInvInit, HostInvariant, PTL DEF Spec

(* What inspect_job answers from a receipt or from status.json is not refuted
   afterwards, in whatever order files and processes change between its reads;
   `lost' without a receipt is exempt, and may well be. *)
THEOREM AnswersAreNotRefuted == Spec => []AnswersAreSound
<1>1. DirInv => AnswersAreSound
  BY DEF DirInv, ReadOrder
<1> QED BY <1>1, DirectoryInvariant, PTL

(* The child lives between two places of its supervisor; and a supervisor that is
   dead without a status was killed with its group. *)
ChildOrder ==
  /\ sup \in {"none", "boot", "spawn"} => child = "none"
  /\ sup \in {"judge", "write", "exiting"} \/ status # "none" => ~ChildAlive
  /\ sup = "dead" => ~ChildAlive
  /\ sup = "dead" /\ status = "none" => ~CommandAlive

LEMMA ChildOrderStep ==
  ASSUME DirInv, ChildOrder, [Next]_vars
  PROVE  ChildOrder'
<1> USE DEF DirInv, HostInv, SupGone, CommandAlive
<1>1. CASE Supervisor
  <2>1. CASE SupReceipt \/ SupSpawn \/ SupWait \/ SupExit
    BY <1>1, <2>1 DEF SupReceipt, SupSpawn, SupWait, SupExit, SupTo, ChildOrder, ChildAlive,
                      StatusOrder, procVars
  <2>2. CASE SupCheck
    BY <2>2 DEF SupCheck, SupTo, Stopped, ChildOrder, ChildAlive
  <2>3. CASE SupJudge \/ SupWrite
    BY <2>3 DEF SupJudge, SupWrite, SupTo, ChildOrder, ChildAlive, procVars
  <2> QED BY <1>1, <2>1, <2>2, <2>3 DEF Supervisor
<1>2. CASE SupDie
  BY <1>2 DEF SupDie, SupTo, ChildOrder, ChildAlive, procVars
<1>3. CASE OutsideSignal \/ ChildExit \/ CommandStart \/ CommandExit
  BY <1>3 DEF OutsideSignal, Stopped, ChildExit, CommandStart, CommandExit, ChildOrder,
              ChildAlive
<1>4. ASSUME NEW h \in Helpers, InspectJob(h) \/ Inspect(h) \/ Cancel(h) \/ HelperDie(h)
      PROVE  ChildOrder'
  BY <1>4 DEF InspectJob, ReadReceipt, ReadStatus, ReadProcess, Inspect, Cancel, Validate,
              HelperDie, supVars, procVars, ChildOrder, ChildAlive
<1>5. ASSUME NEW h \in Helpers, Launch(h)
      PROVE  ChildOrder'
  <2>1. CASE LaunchPopen(h)
    BY <2>1 DEF LaunchPopen, OneCreator, Creators, ChildOrder, ChildAlive, procVars
  <2>2. CASE ~LaunchPopen(h)
    BY <1>5, <2>2 DEF Launch, LaunchMkdir, LaunchExists, LaunchResolve, LaunchRequest,
                      LaunchAwait, supVars, procVars, ChildOrder, ChildAlive
  <2> QED BY <2>1, <2>2
<1>6. ASSUME NEW h \in Helpers, CancelSteps(h)
      PROVE  ChildOrder'
  <2>1. CASE CancelTerm(h)
    BY <2>1 DEF CancelTerm, Stopped, ChildOrder, ChildAlive
  <2>2. CASE CancelKill(h)
    BY <2>2 DEF CancelKill, ChildOrder, ChildAlive
  <2>3. CASE CancelMark(h) \/ CancelTarget(h) \/ CancelGrace(h)
    BY <2>3 DEF CancelMark, CancelTarget, CancelGrace, supVars, procVars, ChildOrder, ChildAlive
  <2> QED BY <1>6, <2>1, <2>2, <2>3 DEF CancelSteps
<1>7. CASE UNCHANGED vars
  BY <1>7 DEF vars, supVars, procVars, ChildOrder, ChildAlive
<1> QED BY <1>1, <1>2, <1>3, <1>4, <1>5, <1>6, <1>7 DEF Next, HelperStep, Surroundings

(* When a job's end is answered, its supervisor's child runs no more, and nothing
   of its group does if a cancel killed the supervisor.  Exempt are `lost' without
   a receipt, a supervisor that something else killed alone, and a command whose
   bootstrap ended before it (remote_helper.py:121-143, 271-299, 308-323). *)
THEOREM AnsweredEndsAreOver == Spec => []EndsAreOver
<1>1. Init => ChildOrder
  BY DEF Init, ChildOrder, ChildAlive, CommandAlive
<1>2. ChildOrder /\ AnswersAreSound => EndsAreOver
  BY DEF ChildOrder, SupGone, AnswersAreSound, EndsAreOver, Results
<1> QED BY <1>1, <1>2, ChildOrderStep, DirectoryInvariant, AnswersAreNotRefuted, PTL DEF Spec

-----------------------------------------------------------------------------
(* The host implements RemoteJob *)

(* What jobPhase does not look at may change freely. *)
LEMMA SamePhase ==
  ASSUME files' = files, status' = status, SupGone' <=> SupGone,
         Creating' <=> Creating, endedOutside' <=> endedOutside
  PROVE  UNCHANGED Contract!jobVars
BY DEF Contract!jobVars, jobPhase

(* No helper ends a job, or signals a supervisor without a cancel. *)
LEMMA EndedOutsideStays ==
  ASSUME NEW h \in Helpers, HelperStep(h) \/ HelperDie(h)
  PROVE  endedOutside' <=> endedOutside
<1>1. UNCHANGED <<outside, status>>
  BY DEF HelperStep, InspectJob, ReadReceipt, ReadStatus, ReadProcess, Launch, LaunchMkdir,
       LaunchExists, LaunchResolve, LaunchRequest, LaunchPopen, LaunchAwait, Inspect, Cancel,
       Validate, CancelSteps, CancelMark, CancelTarget, CancelTerm, CancelGrace, CancelKill,
       HelperDie, supVars, procVars
<1> QED BY <1>1 DEF endedOutside

(* The supervisor brings its directory up, finishes it, or dies. *)
LEMMA SupervisorContract ==
  ASSUME DirInv, Supervisor \/ Surroundings
  PROVE  Contract!Next \/ UNCHANGED Contract!jobVars
<1> USE DEF DirInv, HostInv, SupGone
<1>1. hp' = hp
  BY DEF Supervisor, SupReceipt, SupSpawn, SupCheck, SupWait, SupJudge, SupWrite,
         SupExit, Surroundings, SupDie, OutsideSignal, ChildExit,
         CommandStart, CommandExit, procVars
<1>2. Creating' <=> Creating
  BY <1>1 DEF Creating
<1>3. CASE SupReceipt
  <2>1. "dir" \in files /\ "request" \in files /\ status = "none" /\ "receipt" \notin files
    BY <1>3 DEF SupReceipt, RequestOrder, StatusOrder, ReceiptOrder
  <2>2. jobPhase = "placed" /\ jobPhase' = "up" /\ ("marker" \in files' <=> "marker" \in files)
    BY <1>3, <2>1 DEF SupReceipt, SupTo, jobPhase
  <2>3. endedOutside' <=> endedOutside
    BY <1>3 DEF SupReceipt, endedOutside, procVars
  <2> QED BY <2>2, <2>3 DEF Contract!Next, Contract!Up, Contract!To, endedOutside
<1>4. CASE SupWrite
  <2>1. "dir" \in files /\ "request" \in files /\ status = "none" /\ "receipt" \in files
    BY <1>4 DEF SupWrite, RequestOrder, StatusOrder, ReceiptOrder
  <2>2. verdict \in Results /\ (verdict = "cancelled" => "marker" \in files \/ outside)
    BY <1>4 DEF SupWrite, StatusOrder
  <2>3. jobPhase = "up" /\ jobPhase' = verdict /\ ("marker" \in files' <=> "marker" \in files)
    BY <1>4, <2>1, <2>2 DEF SupWrite, SupTo, jobPhase, Results
  <2>4. ~endedOutside /\ (endedOutside' <=> outside /\ verdict = "cancelled")
    BY <1>4, <2>1 DEF SupWrite, endedOutside, procVars
  <2>5. CASE outside /\ verdict = "cancelled"
    BY <2>3, <2>4, <2>5 DEF Contract!Next, Contract!Stop, endedOutside
  <2>6. CASE ~(outside /\ verdict = "cancelled")
    BY <2>2, <2>3, <2>4, <2>6
       DEF Contract!Next, Contract!Finish, Contract!To, Contract!Results, Results, endedOutside
  <2> QED BY <2>5, <2>6
<1>5. CASE SupExit
  <2>1. status # "none"
    BY <1>5 DEF SupExit, StatusOrder
  <2>2. endedOutside' <=> endedOutside
    BY <1>5 DEF SupExit, endedOutside, procVars
  <2> QED BY <1>2, <1>5, <2>1, <2>2 DEF SupExit, Contract!jobVars, jobPhase, endedOutside
<1>6. CASE SupDie
  <2>1. "dir" \in files /\ "request" \in files
    BY <1>6 DEF SupDie, SupAlive, RequestOrder
  <2>0. endedOutside' <=> endedOutside
    BY <1>6 DEF SupDie, procVars, endedOutside
  <2>2. CASE status # "none"
    BY <1>6, <2>0, <2>1, <2>2 DEF SupDie, Contract!jobVars, jobPhase, endedOutside
  <2>3. CASE status = "none"
    <3>1. jobPhase \in {"placed", "up"} /\ jobPhase' = "gone"
      BY <1>6, <2>1, <2>3 DEF SupDie, SupAlive, SupTo, jobPhase
    <3>2. "marker" \in files' <=> "marker" \in files
      BY <1>6 DEF SupDie
    <3> QED BY <2>0, <3>1, <3>2 DEF Contract!Next, Contract!Die, Contract!To, endedOutside
  <2> QED BY <2>2, <2>3
<1>7. CASE \/ SupSpawn \/ SupCheck \/ SupWait \/ SupJudge
           \/ OutsideSignal \/ ChildExit \/ CommandStart \/ CommandExit
  <2>1. files' = files /\ status' = status /\ (SupGone' <=> SupGone)
    BY <1>7 DEF SupSpawn, SupCheck, SupWait, SupJudge, OutsideSignal, ChildExit,
                CommandStart, CommandExit, SupTo
  <2>2. endedOutside' <=> endedOutside
    BY <1>7, <2>1 DEF endedOutside, SupSpawn, SupCheck, SupWait, SupJudge,
       OutsideSignal, SupAlive, StatusOrder, ChildExit, CommandStart, CommandExit, procVars
  <2> QED BY <1>2, <2>1, <2>2, SamePhase
<1> QED BY <1>3, <1>4, <1>5, <1>6, <1>7 DEF Supervisor, Surroundings

(* Readers change nothing; a dead helper may have lost its launch. *)
LEMMA ReaderContract ==
  ASSUME DirInv, NEW h \in Helpers, InspectJob(h) \/ Inspect(h) \/ Cancel(h) \/ HelperDie(h)
  PROVE  Contract!Next \/ UNCHANGED Contract!jobVars
<1>0. endedOutside' <=> endedOutside
  BY EndedOutsideStays DEF HelperStep
<1> USE DEF DirInv, HostInv, SupGone
<1>1. UNCHANGED supVars /\ \A k \in Helpers \ {h} : hp'[k] = hp[k]
  BY DEF TypeOK, InspectJob, ReadReceipt, ReadStatus, ReadProcess, Inspect, Cancel, Validate,
         HelperDie, Goto
<1>2. hp'[h].pc \notin Making
  BY DEF TypeOK, InspectJob, ReadReceipt, ReadStatus, ReadProcess, Inspect, Cancel, Validate,
         HelperDie, Goto, Making
<1>3. CASE hp[h].pc \notin Making
  <2>1. Creating' <=> Creating
    BY <1>1, <1>2, <1>3 DEF Creating, Making
  <2> QED BY <1>1, <2>1, <1>0, SamePhase DEF supVars, procVars
<1>4. CASE hp[h].pc \in Making
  <2>1. Creating /\ ~Creating'
    BY <1>1, <1>2, <1>4 DEF Creating, Making, OneCreator, Creators
  <2>2. "dir" \in files /\ "request" \notin files
    BY <1>4 DEF RequestOrder, OneCreator, Creators, Making
  <2>3. jobPhase = "sent" /\ jobPhase' = "unplaced" /\ ("marker" \in files' <=> "marker" \in files)
    BY <1>1, <2>1, <2>2 DEF jobPhase, supVars, procVars
  <2> QED BY <1>0, <2>3 DEF Contract!Next, Contract!Lose, Contract!To, endedOutside
<1> QED BY <1>3, <1>4

(* launch sends, places or loses the directory. *)
LEMMA LaunchContract ==
  ASSUME DirInv, NEW h \in Helpers, Launch(h)
  PROVE  Contract!Next \/ UNCHANGED Contract!jobVars
<1>0. endedOutside' <=> endedOutside
  BY EndedOutsideStays DEF HelperStep
<1> USE DEF DirInv, HostInv, SupGone
<1>1. \A k \in Helpers \ {h} : hp'[k] = hp[k]
  BY DEF TypeOK, Launch, LaunchMkdir, LaunchExists, LaunchResolve, LaunchRequest,
         LaunchPopen, LaunchAwait, Goto
<1>2. CASE LaunchMkdir(h)
  <2>1. "request" \notin files
    BY <1>2 DEF LaunchMkdir, RequestOrder
  <2>2. Creating'
    BY <1>2 DEF LaunchMkdir, Creating, TypeOK
  <2>3. jobPhase = "absent" /\ jobPhase' = "sent" /\ ("marker" \in files' <=> "marker" \in files)
    BY <1>2, <2>1, <2>2 DEF LaunchMkdir, jobPhase
  <2> QED BY <1>0, <2>3 DEF Contract!Next, Contract!Send, Contract!To, endedOutside
<1>3. CASE LaunchRequest(h)
  <2>1. /\ "dir" \in files /\ "request" \notin files /\ "receipt" \notin files
        /\ status = "none" /\ sup = "none" /\ Creating
    BY <1>3 DEF LaunchRequest, RequestOrder, StatusOrder, OneCreator, ReceiptOrder, Creators,
                Making, Creating
  <2>2. jobPhase = "sent" /\ jobPhase' = "placed" /\ ("marker" \in files' <=> "marker" \in files)
    BY <1>3, <2>1 DEF LaunchRequest, jobPhase
  <2> QED BY <1>0, <2>2 DEF Contract!Next, Contract!Place, Contract!To, endedOutside
<1>4. CASE LaunchResolve(h) /\ hp'[h].pc = "error"
  <2>1. /\ "dir" \in files /\ "request" \notin files /\ Creating
    BY <1>4 DEF LaunchResolve, RequestOrder, OneCreator, Creators, Making, Creating
  <2>2. ~Creating'
    BY <1>1, <1>4 DEF LaunchResolve, OneCreator, Creators, Creating
  <2>3. jobPhase = "sent" /\ jobPhase' = "unplaced" /\ ("marker" \in files' <=> "marker" \in files)
    BY <1>4, <2>1, <2>2 DEF LaunchResolve, jobPhase, supVars, procVars
  <2> QED BY <1>0, <2>3 DEF Contract!Next, Contract!Lose, Contract!To, endedOutside
<1>5. CASE \/ LaunchResolve(h) /\ hp'[h].pc # "error"
           \/ LaunchExists(h) \/ LaunchPopen(h) \/ LaunchAwait(h)
  <2>1. files' = files /\ status' = status /\ (SupGone' <=> SupGone)
    BY <1>5 DEF LaunchResolve, LaunchExists, LaunchPopen, LaunchAwait, OneCreator, Creators,
                supVars, procVars
  <2>2. hp'[h].pc \in Making <=> hp[h].pc \in Making
    BY <1>5 DEF LaunchResolve, LaunchExists, LaunchPopen, LaunchAwait, Goto, TypeOK, Making
  <2>3. Creating' <=> Creating
    BY <1>1, <2>2 DEF Creating, Making
  <2> QED BY <1>0, <2>1, <2>3, SamePhase
<1> QED BY <1>2, <1>3, <1>4, <1>5 DEF Launch

(* cancel marks the directory, and may kill its supervisor. *)
LEMMA CancelContract ==
  ASSUME DirInv, NEW h \in Helpers, CancelSteps(h)
  PROVE  Contract!Next \/ UNCHANGED Contract!jobVars
<1>0. endedOutside' <=> endedOutside
  BY EndedOutsideStays DEF HelperStep
<1> USE DEF DirInv, HostInv, SupGone
<1>1. Creating' <=> Creating
  <2>1. \A k \in Helpers \ {h} : hp'[k] = hp[k]
    BY DEF TypeOK, CancelSteps, CancelMark, CancelTarget, CancelTerm, CancelGrace, CancelKill, Goto
  <2>2. hp'[h].pc \notin Making /\ hp[h].pc \notin Making
    BY DEF TypeOK, CancelSteps, CancelMark, CancelTarget, CancelTerm, CancelGrace, CancelKill, Goto, Making
  <2> QED BY <2>1, <2>2 DEF Creating, Making
<1>2. CASE CancelMark(h)
  <2>1. "dir" \in files /\ "request" \in files
    BY <1>2 DEF CancelMark, RequestOrder
  <2>2. jobPhase' = jobPhase
    BY <1>1, <1>2, <2>1 DEF CancelMark, jobPhase
  <2>3. jobPhase \in {"placed", "up", "gone"} \cup Results
    BY <2>1 DEF jobPhase, TypeOK
  <2>4. "marker" \in files'
    BY <1>2 DEF CancelMark
  <2> QED BY <1>0, <2>2, <2>3, <2>4
          DEF Contract!Next, Contract!Mark, Contract!Placed, Contract!Results, Results,
              endedOutside
<1>3. CASE CancelKill(h) /\ SupAlive
  <2>1. "dir" \in files /\ "request" \in files
    BY <1>3 DEF SupAlive, RequestOrder
  <2>2. CASE status # "none"
    BY <1>0, <1>3, <2>1, <2>2 DEF CancelKill, Contract!jobVars, jobPhase, endedOutside
  <2>3. CASE status = "none"
    <3>1. jobPhase \in {"placed", "up"} /\ jobPhase' = "gone"
      BY <1>3, <2>1, <2>3 DEF CancelKill, SupAlive, jobPhase
    <3>2. "marker" \in files' <=> "marker" \in files
      BY <1>3 DEF CancelKill
    <3> QED BY <1>0, <3>1, <3>2 DEF Contract!Next, Contract!Die, Contract!To, endedOutside
  <2> QED BY <2>2, <2>3
<1>4. CASE CancelTarget(h) \/ CancelTerm(h) \/ CancelGrace(h) \/ (CancelKill(h) /\ ~SupAlive)
  <2>1. files' = files /\ status' = status /\ sup' = sup
    BY <1>4 DEF CancelTarget, CancelTerm, CancelGrace, CancelKill, supVars, procVars
  <2> QED BY <1>0, <1>1, <2>1, SamePhase
<1> QED BY <1>2, <1>3, <1>4 DEF CancelSteps

(* Through its files alone, each job's directory moves as the console assumes:
   one launch, one end for good, a mark only where the job was placed, and a
   cancelled end only after a mark or a signal that was no cancel's. *)
THEOREM HostKeepsContract == Spec => KeepsContract
<1>1. Init => Contract!Init
  BY DEF Init, Contract!Init, jobPhase, endedOutside
<1>2. DirInv /\ [Next]_vars => [Contract!Next]_(Contract!jobVars)
  <2> SUFFICES ASSUME DirInv, [Next]_vars PROVE [Contract!Next]_(Contract!jobVars)
    OBVIOUS
  <2>1. CASE UNCHANGED vars
    BY <2>1, SamePhase DEF vars, supVars, procVars, SupGone, Creating, endedOutside
  <2> QED BY <2>1, SupervisorContract, ReaderContract, LaunchContract, CancelContract
          DEF Next, HelperStep
<1> QED BY <1>1, <1>2, DirectoryInvariant, PTL DEF Spec, KeepsContract, Contract!Spec

-----------------------------------------------------------------------------
(* What each read of inspect_job says of the directory *)

Looking == {"await", "target", "term", "grace", "kill", "receipt", "status", "process"}

(* request.json is there before anything is read, the receipt before status.json. *)
LookOrder ==
  /\ status # "none" => "receipt" \in files
  /\ \A h \in Helpers : hp[h].pc \in Looking => "request" \in files

LEMMA LookOrderStep ==
  ASSUME DirInv, LookOrder, [Next]_vars
  PROVE  LookOrder'
<1>0. TypeOK /\ RequestOrder /\ ReceiptOrder
  BY DEF DirInv, HostInv
<1>1. CASE Supervisor \/ Surroundings
  <2>1. hp' = hp /\ files \subseteq files'
    BY <1>1 DEF Supervisor, SupReceipt, SupSpawn, SupCheck, SupWait, SupJudge, SupWrite,
                SupExit, Surroundings, SupDie, OutsideSignal, ChildExit,
         CommandStart, CommandExit, procVars
  <2>2. status' = status \/ sup = "write"
    BY <1>1 DEF Supervisor, SupReceipt, SupSpawn, SupCheck, SupWait, SupJudge, SupWrite,
                SupExit, Surroundings, SupDie, OutsideSignal, ChildExit,
         CommandStart, CommandExit, procVars
  <2>3. sup = "write" => "receipt" \in files
    BY <1>0 DEF ReceiptOrder, SupGone
  <2> QED
    BY <2>1, <2>2, <2>3 DEF LookOrder
<1>2. ASSUME NEW h \in Helpers, HelperStep(h) \/ HelperDie(h)
      PROVE  LookOrder'
  <2>1. status' = status /\ files \subseteq files'
    BY <1>2 DEF HelperStep, InspectJob, ReadReceipt, ReadStatus, ReadProcess, Launch, LaunchMkdir,
         LaunchExists, LaunchResolve, LaunchRequest, LaunchPopen, LaunchAwait, Inspect, Cancel,
         Validate, CancelSteps, CancelMark, CancelTarget, CancelTerm, CancelGrace, CancelKill, HelperDie, supVars, procVars
  <2>2. \A k \in Helpers \ {h} : hp'[k] = hp[k]
    BY <1>0, <1>2 DEF TypeOK, Goto, HelperStep, InspectJob, ReadReceipt, ReadStatus, ReadProcess,
         Launch, LaunchMkdir, LaunchExists, LaunchResolve, LaunchRequest, LaunchPopen, LaunchAwait,
         Inspect, Cancel, Validate, CancelSteps, CancelMark, CancelTarget, CancelTerm, CancelGrace, CancelKill,
         HelperDie
  <2>3. hp'[h].pc \in Looking => "request" \in files
    <3>1. CASE InspectJob(h) \/ HelperDie(h)
      BY <1>0, <3>1 DEF TypeOK, InspectJob, ReadReceipt, ReadStatus, ReadProcess, HelperDie, Goto,
                        LookOrder, Looking
    <3>2. CASE Launch(h)
      BY <1>0, <3>2 DEF TypeOK, Launch, LaunchMkdir, LaunchExists, LaunchResolve, LaunchRequest,
                        LaunchPopen, LaunchAwait, Goto, LookOrder, Looking, RequestOrder
    <3>3. CASE Inspect(h) \/ Cancel(h)
      BY <1>0, <3>3 DEF TypeOK, Inspect, Cancel, Validate, Looking
    <3>4. CASE CancelSteps(h)
      BY <1>0, <3>4 DEF TypeOK, CancelSteps, CancelMark, CancelTarget, CancelTerm, CancelGrace, CancelKill,
                        Goto, LookOrder, Looking, RequestOrder
    <3> QED
      BY <1>2, <3>1, <3>2, <3>3, <3>4 DEF HelperStep
  <2> QED
    BY <2>1, <2>2, <2>3 DEF LookOrder
<1>3. CASE UNCHANGED vars
  BY <1>3 DEF vars, supVars, procVars, LookOrder
<1> QED BY <1>1, <1>2, <1>3 DEF Next

(* Console.tla's FirstLook and SecondLooks, read off the host: a receipt is missed
   only before it was written; status.json is the phase itself, and where it is
   missing beside a receipt the supervisor lives or has died; and after that the
   process table says `running' only of a job that is up, or that has just
   written its status, and `lost' only of one that ended. *)
LooksFitPhases ==
  [][\A h \in Helpers :
       /\ ReadReceipt(h) => hp'[h].rec \/ jobPhase \in {"placed", "gone"}
       /\ ReadStatus(h) =>
            IF hp'[h].st # "none" THEN jobPhase = hp'[h].st
            ELSE hp[h].rec => jobPhase \in {"up", "gone"}
       /\ ReadProcess(h) /\ hp[h].rec /\ hp[h].st = "none" =>
            \/ hp'[h].ans = "running" /\ jobPhase \in {"up"} \cup Results
            \/ hp'[h].ans = "lost" /\ jobPhase \in {"gone"} \cup Results]_vars

(* The console models inspect_job as one or two looks at a phase; the helper's three
   reads come to just that, whatever moves between them. *)
THEOREM LooksAreThePhases == Spec => LooksFitPhases
<1> DEFINE Fits(h) ==
      /\ ReadReceipt(h) => hp'[h].rec \/ jobPhase \in {"placed", "gone"}
      /\ ReadStatus(h) =>
           IF hp'[h].st # "none" THEN jobPhase = hp'[h].st
           ELSE hp[h].rec => jobPhase \in {"up", "gone"}
      /\ ReadProcess(h) /\ hp[h].rec /\ hp[h].st = "none" =>
           \/ hp'[h].ans = "running" /\ jobPhase \in {"up"} \cup Results
           \/ hp'[h].ans = "lost" /\ jobPhase \in {"gone"} \cup Results
<1>1. Init => LookOrder
  BY DEF Init, Waiting, LookOrder, Looking
<1>2. ASSUME DirInv, LookOrder, NEW h \in Helpers
      PROVE  Fits(h)
  <2>0. /\ TypeOK /\ RequestOrder /\ ReceiptOrder /\ StatusOrder /\ ReadOrder
        /\ status \in Results \cup {"none"}
    BY <1>2 DEF DirInv, HostInv, TypeOK
  <2>1. hp[h].pc \in {"receipt", "status", "process"} => "request" \in files /\ "dir" \in files
    BY <1>2, <2>0 DEF LookOrder, Looking, RequestOrder
  <2>2. ASSUME ReadReceipt(h), ~hp'[h].rec
        PROVE  jobPhase \in {"placed", "gone"}
    <3>1. "receipt" \notin files
      BY <2>0, <2>2 DEF ReadReceipt, TypeOK
    <3>2. status = "none" /\ "request" \in files /\ "dir" \in files
      BY <1>2, <2>1, <2>2, <3>1 DEF ReadReceipt, LookOrder
    <3> QED
      BY <3>1, <3>2 DEF jobPhase
  <2>3. ASSUME ReadStatus(h)
        PROVE  IF hp'[h].st # "none" THEN jobPhase = hp'[h].st
               ELSE hp[h].rec => jobPhase \in {"up", "gone"}
    <3>1. hp'[h].st = status /\ "request" \in files /\ "dir" \in files
      BY <2>0, <2>1, <2>3 DEF ReadStatus, TypeOK
    <3>2. hp[h].rec => "receipt" \in files
      BY <2>0 DEF ReadOrder
    <3> QED
      BY <3>1, <3>2 DEF jobPhase
  <2>4. ASSUME ReadProcess(h), hp[h].rec, hp[h].st = "none"
        PROVE  \/ hp'[h].ans = "running" /\ jobPhase \in {"up"} \cup Results
               \/ hp'[h].ans = "lost" /\ jobPhase \in {"gone"} \cup Results
    <3>1. "receipt" \in files /\ "request" \in files /\ "dir" \in files
      BY <2>0, <2>1, <2>4 DEF ReadOrder, ReadProcess
    <3>2. hp'[h].ans = IF SupAlive THEN "running" ELSE "lost"
      BY <2>0, <2>4 DEF ReadProcess, Verdict, TypeOK
    <3>3. SupAlive <=> ~SupGone
      BY <2>0, <3>1 DEF ReceiptOrder, SupAlive
    <3> QED
      BY <2>0, <3>1, <3>2, <3>3 DEF jobPhase
  <2> QED
    BY <2>2, <2>3, <2>4
<1>3. DirInv /\ LookOrder /\ [Next]_vars => [\A h \in Helpers : Fits(h)]_vars
  BY <1>2
<1> HIDE DEF Fits
<1>4. Spec => [][\A h \in Helpers : Fits(h)]_vars
  BY <1>1, <1>3, LookOrderStep, DirectoryInvariant, PTL DEF Spec
<1> QED BY <1>4 DEF Fits, LooksFitPhases

-----------------------------------------------------------------------------
(* SIGKILL is the end of the group: nobody in it is left, not even a command whose
   bootstrap is gone, and a group that is over stays over. *)
KillsAreFinal ==
  [][/\ \A h \in Helpers : CancelKill(h) => ~GroupAlive'
     /\ sup # "none" /\ ~GroupAlive => ~GroupAlive']_vars

(* What CancelStops is made of: with it, only the fairness of the helper is left
   to the model checker (remote_helper.py:308-323). *)
THEOREM KillsEndTheGroup == Spec => KillsAreFinal
<1> DEFINE A == /\ \A h \in Helpers : CancelKill(h) => ~GroupAlive'
                /\ sup # "none" /\ ~GroupAlive => ~GroupAlive'
<1> USE DEF GroupAlive, ChildAlive, CommandAlive, SupAlive, SupGone
<1>1. ASSUME DirInv, [Next]_vars
      PROVE  A
  <2>0. TypeOK /\ OneCreator
    BY <1>1 DEF DirInv, HostInv
  <2>1. ASSUME NEW h \in Helpers, CancelKill(h)
        PROVE  ~GroupAlive'
    BY <2>0, <2>1 DEF CancelKill, TypeOK
  <2>2. ASSUME sup # "none", ~GroupAlive
        PROVE  ~GroupAlive'
    <3>1. CASE Supervisor \/ Surroundings
      BY <2>2, <3>1 DEF Supervisor, SupReceipt, SupSpawn, SupCheck, SupWait, SupJudge,
           SupWrite, SupExit, Surroundings, SupDie, OutsideSignal, ChildExit, CommandStart,
           CommandExit, procVars
    <3>2. ASSUME NEW h \in Helpers, HelperStep(h) \/ HelperDie(h)
          PROVE  ~GroupAlive'
      <4>1. CASE CancelTerm(h)
        BY <2>2, <4>1 DEF CancelTerm
      <4>2. CASE CancelKill(h)
        BY <2>1, <4>2
      <4>3. CASE LaunchPopen(h)
        BY <2>0, <2>2, <4>3 DEF LaunchPopen, OneCreator, Creators
      <4>4. CASE ~CancelTerm(h) /\ ~CancelKill(h) /\ ~LaunchPopen(h)
        <5>1. UNCHANGED <<sup, child, command>>
          BY <3>2, <4>4 DEF HelperStep, InspectJob, ReadReceipt, ReadStatus, ReadProcess, Launch,
             LaunchMkdir, LaunchExists, LaunchResolve, LaunchRequest, LaunchAwait, Inspect,
             Cancel, Validate, CancelSteps, CancelMark, CancelTarget, CancelGrace, HelperDie,
             supVars, procVars
        <5> QED BY <2>2, <5>1
      <4> QED BY <4>1, <4>2, <4>3, <4>4
    <3>3. CASE UNCHANGED vars
      BY <2>2, <3>3 DEF vars, supVars, procVars
    <3> QED
      BY <1>1, <3>1, <3>2, <3>3 DEF Next
  <2> QED
    BY <2>1, <2>2
<1>2. DirInv /\ [Next]_vars => [A]_vars
  BY <1>1
<1> HIDE DEF A
<1>3. Spec => [][A]_vars
  BY <1>2, DirectoryInvariant, PTL DEF Spec
<1> QED BY <1>3 DEF A, KillsAreFinal
=============================================================================
