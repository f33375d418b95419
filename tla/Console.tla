------------------------------- MODULE Console ------------------------------
(***************************************************************************)
(* The running console: API threads in ConsoleService.run, .status/.refresh  *)
(* and .cancel, the monitor thread, the ledger they share, and what they     *)
(* know of the remote host only through answers that may come late or never.  *)
(*                                                                         *)
(* One call of run() is named by the job id it would create.  Refreshes and  *)
(* cancels are made by workers: the client threads, and the monitor.  The    *)
(* remote host is reduced to the files remote_helper.py leaves in a job's     *)
(* directory; RemoteHost.tla models how the helper's processes write them.    *)
(***************************************************************************)
EXTENDS Ledger, Naturals

CONSTANTS Clients,     \* API threads that refresh or cancel
          Monitor,     \* the monitor thread
          MaxCrashes   \* bound: how often the console process dies

ASSUME MonitorAssumption == Monitor \notin Clients
ASSUME MaxCrashesAssumption == MaxCrashes \in Nat

VARIABLES run,      \* for each run() call: where it is, what launch answered
          ask,      \* for each run() call: its request
          wk,       \* for each worker: the refresh or cancel it is in
          todo,     \* the jobs monitor_once has still to refresh
          phase,    \* what a job's remote directory shows
          marker,   \* the jobs whose cancel-requested.json exists
          stray,    \* the jobs with a cancel helper whose caller gave up
          outside,  \* history: the jobs ended by a signal that was no cancel's
          crashes   \* how often the console process died

vars == <<status, request, locks, events, outbox,
          run, ask, wk, todo, phase, marker, stray, outside, crashes>>
serviceVars == <<run, ask, wk, todo, crashes>>
remoteVars == <<phase, marker, stray, outside>>

Workers == Clients \cup {Monitor}

(* A job's remote directory.  "sent": the launch helper may still run, but
   there is no request.json yet; "unplaced": it stopped before request.json;
   "placed": request.json, no receipt; "up": receipt, the supervisor lives;
   "gone": the supervisor died without status.json; else status.json's state. *)
Unplaced == {"absent", "sent", "unplaced"}
Placed == {"placed", "up", "gone"} \cup Terminal
Ended == {"gone"} \cup Terminal

RunPcs == {"idle", "probe", "create", "call", "await", "check", "apply", "done"}
InLaunch == {"call", "await", "check", "apply"}
WorkerPcs == {"idle", "reread", "call", "strike", "look", "check", "apply"}
Looks == {"live?", "running", "lost", "none"} \cup Terminal

Idle == [pc |-> "idle", op |-> "none", job |-> NoJob, early |-> FALSE,
         old |-> "none", seen |-> "none"]

ConsoleTypeOK ==
  /\ TypeOK
  /\ run \in [Jobs -> [pc : RunPcs, seen : Looks]]
  /\ ask \in [Jobs -> Requests \cup {NoRequest}]
  /\ wk \in [Workers -> [pc : WorkerPcs, op : {"none", "refresh", "cancel"},
                         job : Jobs \cup {NoJob}, early : BOOLEAN,
                         old : Active \cup {"none"}, seen : Looks]]
  /\ todo \in SUBSET Jobs
  /\ phase \in [Jobs -> Unplaced \cup Placed]
  /\ marker \in SUBSET Jobs
  /\ stray \in SUBSET Jobs
  /\ outside \in SUBSET Jobs
  /\ crashes \in 0 .. MaxCrashes

Init ==
  /\ LedgerInit
  /\ run = [j \in Jobs |-> [pc |-> "idle", seen |-> "none"]]
  /\ ask = [j \in Jobs |-> NoRequest]
  /\ wk = [w \in Workers |-> Idle]
  /\ todo = {}
  /\ phase = [j \in Jobs |-> "absent"]
  /\ marker = {}
  /\ stray = {}
  /\ outside = {}
  /\ crashes = 0

-----------------------------------------------------------------------------
(* inspect_job reads receipt and status, and only then the process table.  An
   answer of the first look is final unless a receipt was found alone. *)
FirstLook(p) ==
  CASE p \in Terminal -> p
    [] p = "up" -> "live?"
    [] OTHER -> "lost"

(* A supervisor that wrote status.json since the first look may have exited. *)
SecondLooks(p) ==
  IF p = "up" THEN {"running"}
  ELSE IF p \in Terminal THEN {"running", "lost"} ELSE {"lost"}

Looked(rec, p) ==
  [rec EXCEPT !.seen = FirstLook(p),
              !.pc = IF FirstLook(p) = "live?" THEN "check" ELSE "apply"]

-----------------------------------------------------------------------------
(* run() *)

RunTo(j, pc) == run' = [run EXCEPT ![j] = [pc |-> pc, seen |-> "none"]]

(* A known request id is replayed or refused: either way the call is over. *)
RunLookup(j, r) ==
  /\ run[j].pc = "idle"
  /\ ask' = [ask EXCEPT ![j] = r]
  /\ RunTo(j, IF RowsFor(r.id) = {} THEN "probe" ELSE "done")
  /\ UNCHANGED <<ledgerVars, wk, todo, crashes, remoteVars>>

(* Locked GPUs refuse the call; so may the host's nvidia-smi, or its silence. *)
RunProbe(j) ==
  LET p == ask[j].payload IN
  /\ run[j].pc = "probe"
  /\ \/ Held(p) = {} /\ RunTo(j, "create")
     \/ GpusOf[p] # {} /\ RunTo(j, "done")
  /\ UNCHANGED <<ledgerVars, ask, wk, todo, crashes, remoteVars>>

(* create_job decides again, in its transaction. *)
RunCreate(j) ==
  /\ run[j].pc = "create"
  /\ \/ CreateJob(j, ask[j]) /\ RunTo(j, "call")
     \/ ~Accepts(ask[j]) /\ RunTo(j, "done") /\ UNCHANGED ledgerVars
  /\ UNCHANGED <<ask, wk, todo, crashes, remoteVars>>

LaunchSend(j) ==
  /\ run[j].pc = "call"
  /\ RunTo(j, "await")
  /\ phase' = [phase EXCEPT ![j] = "sent"]
  /\ UNCHANGED <<ledgerVars, ask, wk, todo, crashes, marker, stray, outside>>

(* The launch helper ends with inspect_job, at the latest after 5 seconds. *)
LaunchLook(j) ==
  /\ run[j].pc = "await"
  /\ phase[j] \in Placed
  /\ run' = [run EXCEPT ![j] = Looked(@, phase[j])]
  /\ UNCHANGED <<ledgerVars, ask, wk, todo, crashes, remoteVars>>

LaunchCheck(j) ==
  /\ run[j].pc = "check"
  /\ \E s \in SecondLooks(phase[j]) :
       run' = [run EXCEPT ![j] = [pc |-> "apply", seen |-> s]]
  /\ UNCHANGED <<ledgerVars, ask, wk, todo, crashes, remoteVars>>

(* run() holds no job lock: the answer is written over whatever is there. *)
RunApply(j) ==
  /\ run[j].pc = "apply"
  /\ UpdateObservation(j, run[j].seen)
  /\ RunTo(j, "done")
  /\ UNCHANGED <<ask, wk, todo, crashes, remoteVars>>

(* RemoteError, at any moment of the call: the launch may go on remotely. *)
RunFail(j) ==
  /\ run[j].pc \in InLaunch
  /\ UpdateObservation(j, "unknown")
  /\ RunTo(j, "done")
  /\ UNCHANGED <<ask, wk, todo, crashes, remoteVars>>

(* TimeoutExpired or an invalid answer is no RemoteError: nothing is written. *)
RunAbort(j) ==
  /\ run[j].pc \in InLaunch
  /\ RunTo(j, "done")
  /\ UNCHANGED <<ledgerVars, ask, wk, todo, crashes, remoteVars>>

RunStep(j) ==
  \/ \E r \in Requests : RunLookup(j, r)
  \/ RunProbe(j) \/ RunCreate(j) \/ LaunchSend(j) \/ LaunchLook(j)
  \/ LaunchCheck(j) \/ RunApply(j) \/ RunFail(j) \/ RunAbort(j)

-----------------------------------------------------------------------------
(* refresh() and cancel(): one worker at a time for each job (_job_lock) *)

\* Slip: no lock.
JobFreeAlways(j) == TRUE
JobFree(j) == \A w \in Workers : wk[w].job # j

WorkTo(w, pc) == wk' = [wk EXCEPT ![w].pc = pc]
WorkDone(w) == wk' = [wk EXCEPT ![w] = Idle]

(* A worker takes the job's lock; `early' is a history variable: the launch of
   the job was still under way at that moment. *)
Locking(pc, op, j) ==
  [Idle EXCEPT !.pc = pc, !.op = op, !.job = j, !.early = run[j].pc \in InLaunch]

RefreshBegin(w, j) ==
  /\ wk[w].pc = "idle"
  /\ JobFree(j)
  /\ status[j] \in Active
  /\ wk' = [wk EXCEPT ![w] = [Locking("call", "refresh", j) EXCEPT !.old = status[j]]]
  /\ UNCHANGED <<ledgerVars, run, ask, crashes, remoteVars>>

ClientRefresh(w, j) == RefreshBegin(w, j) /\ UNCHANGED todo

(* request_cancel's transaction; the row is read again after its commit. *)
CancelBegin(w, j) ==
  /\ wk[w].pc = "idle"
  /\ JobFree(j)
  /\ RequestCancel(j)
  /\ wk' = [wk EXCEPT ![w] = Locking("reread", "cancel", j)]
  /\ UNCHANGED <<run, ask, todo, crashes, remoteVars>>

CancelReread(w) ==
  LET j == wk[w].job IN
  /\ wk[w].pc = "reread"
  /\ wk' = [wk EXCEPT ![w] = IF status[j] \in Terminal THEN Idle
                              ELSE [@ EXCEPT !.pc = "call", !.old = status[j]]]
  /\ UNCHANGED <<ledgerVars, run, ask, todo, crashes, remoteVars>>

\* Slips: a job in doubt is cancelled too; refresh() only inspects.
CancelsInDoubt(w) == wk[w].op = "cancel" \/ wk[w].old \in {"cancelling", "unknown"}
CancelsOnce(w) == wk[w].op = "cancel"
(* refresh() of a cancelling job repeats the cancel. *)
Cancels(w) == wk[w].op = "cancel" \/ wk[w].old = "cancelling"

\* Slip: the marker is written without validate_identity.
CancelMarkAnywhere(w) ==
  /\ wk[w].pc = "call" /\ Cancels(w)
  /\ marker' = marker \cup {wk[w].job}
  /\ WorkTo(w, "strike")
  /\ UNCHANGED <<ledgerVars, run, ask, todo, crashes, phase, stray, outside>>

(* action_cancel: validate_identity, the marker, the receipt and the kill. *)
CancelMark(w) ==
  LET j == wk[w].job IN
  /\ wk[w].pc = "call" /\ Cancels(w)
  /\ phase[j] \in Placed
  /\ marker' = marker \cup {j}
  /\ WorkTo(w, "strike")
  /\ UNCHANGED <<ledgerVars, run, ask, todo, crashes, phase, stray, outside>>

(* SIGTERM, then SIGKILL for a supervisor that outlives the grace period; one
   that obeys has taken its Finish step before this one. *)
Struck(j) == [phase EXCEPT ![j] = IF @ = "up" THEN "gone" ELSE @]

CancelStrike(w) ==
  /\ wk[w].pc = "strike"
  /\ phase' = Struck(wk[w].job)
  /\ WorkTo(w, "look")
  /\ UNCHANGED <<ledgerVars, run, ask, todo, crashes, marker, stray, outside>>

WorkerLook(w) ==
  /\ wk[w].pc = "look" \/ (wk[w].pc = "call" /\ ~Cancels(w))
  /\ phase[wk[w].job] \in Placed
  /\ wk' = [wk EXCEPT ![w] = Looked(@, phase[wk[w].job])]
  /\ UNCHANGED <<ledgerVars, run, ask, todo, crashes, remoteVars>>

WorkerCheck(w) ==
  /\ wk[w].pc = "check"
  /\ \E s \in SecondLooks(phase[wk[w].job]) :
       wk' = [wk EXCEPT ![w].pc = "apply", ![w].seen = s]
  /\ UNCHANGED <<ledgerVars, run, ask, todo, crashes, remoteVars>>

\* Slip: a lost job always counts as cancelled.
OutcomeCancelled(w) == IF wk[w].seen = "lost" THEN "cancelled" ELSE wk[w].seen
(* _apply_observation: a lost job counts as cancelled if it was cancelling. *)
Outcome(w) ==
  IF wk[w].seen = "lost" /\ wk[w].old = "cancelling" THEN "cancelled" ELSE wk[w].seen

WorkerApply(w) ==
  /\ wk[w].pc = "apply"
  /\ UpdateObservation(wk[w].job, Outcome(w))
  /\ WorkDone(w)
  /\ UNCHANGED <<run, ask, todo, crashes, remoteVars>>

\* Slip: an error makes every state but `running' unknown.
RetainedRunning(w) == IF wk[w].old = "running" THEN "running" ELSE "unknown"
(* What a RemoteError leaves in the row. *)
Retained(w) ==
  IF wk[w].op = "cancel" \/ wk[w].old \in {"running", "cancelling"}
  THEN "running" ELSE "unknown"

(* A cancel given up before its kill may be carried on by the helper. *)
Orphans(ws) ==
  {wk[w].job : w \in {v \in ws : wk[v].pc \in {"call", "strike"} /\ Cancels(v)}}
MayOrphan(ws) == stray' \in {stray, stray \cup Orphans(ws)}

WorkerFail(w) ==
  /\ wk[w].pc \notin {"idle", "reread"}
  /\ UpdateObservation(wk[w].job, Retained(w))
  /\ WorkDone(w)
  /\ MayOrphan({w})
  /\ UNCHANGED <<run, ask, todo, crashes, phase, marker, outside>>

WorkerAbort(w) ==
  /\ wk[w].pc \notin {"idle", "reread"}
  /\ WorkDone(w)
  /\ MayOrphan({w})
  /\ UNCHANGED <<ledgerVars, run, ask, todo, crashes, phase, marker, outside>>

(* The steps of a call that is answered, and its two ways to end without. *)
Answered(w) ==
  CancelReread(w) \/ CancelMark(w) \/ CancelStrike(w) \/ WorkerLook(w)
  \/ WorkerCheck(w) \/ WorkerApply(w)
WorkerStep(w) == Answered(w) \/ WorkerFail(w) \/ WorkerAbort(w)

ClientStep(w) ==
  \E j \in Jobs : ClientRefresh(w, j) \/ CancelBegin(w, j)

-----------------------------------------------------------------------------
(* monitor_once(): a snapshot of the active jobs, refreshed one by one *)

MonitorTick ==
  /\ wk[Monitor].pc = "idle" /\ todo = {} /\ ActiveJobs # {}
  /\ todo' = ActiveJobs
  /\ UNCHANGED <<ledgerVars, run, ask, wk, crashes, remoteVars>>

MonitorPick(j) ==
  /\ j \in todo
  /\ RefreshBegin(Monitor, j)
  /\ todo' = todo \ {j}

(* refresh() returns at once if the job has ended since the snapshot. *)
MonitorSkip(j) ==
  /\ wk[Monitor].pc = "idle" /\ j \in todo /\ JobFree(j)
  /\ status[j] \in Terminal
  /\ todo' = todo \ {j}
  /\ UNCHANGED <<ledgerVars, run, ask, wk, crashes, remoteVars>>

MonitorStep == MonitorTick \/ \E j \in Jobs : MonitorPick(j) \/ MonitorSkip(j)

-----------------------------------------------------------------------------
(* The remote host *)

RemoteTo(j, p) ==
  /\ phase' = [phase EXCEPT ![j] = p]
  /\ UNCHANGED <<ledgerVars, serviceVars, marker, stray, outside>>

(* The launch helper creates request.json and the supervisor; or it is never
   reached, its cwd does not resolve, or it dies on the way. *)
LaunchPlace(j) == phase[j] = "sent" /\ RemoteTo(j, "placed")
LaunchLost(j) == phase[j] = "sent" /\ RemoteTo(j, "unplaced")

SupervisorUp(j) == phase[j] = "placed" /\ RemoteTo(j, "up")

(* A supervisor that saw the marker, or the signal that follows it, reports a
   cancel; it may have looked too early. *)
Results(j) == {"succeeded", "failed"} \cup (IF j \in marker THEN {"cancelled"} ELSE {})
SupervisorFinish(j) ==
  phase[j] = "up" /\ \E s \in Results(j) : RemoteTo(j, s)

(* It takes any SIGTERM or SIGINT for a cancel, whoever sent it. *)
SupervisorStopped(j) ==
  /\ phase[j] = "up"
  /\ phase' = [phase EXCEPT ![j] = "cancelled"]
  /\ outside' = outside \cup {j}
  /\ UNCHANGED <<ledgerVars, serviceVars, marker, stray>>

SupervisorDie(j) == phase[j] \in {"placed", "up"} /\ RemoteTo(j, "gone")

StrayMark(j) ==
  /\ j \in stray \ marker /\ phase[j] \in Placed
  /\ marker' = marker \cup {j}
  /\ UNCHANGED <<ledgerVars, serviceVars, phase, stray, outside>>

StrayStrike(j) ==
  /\ j \in stray \cap marker
  /\ phase' = Struck(j)
  /\ stray' = stray \ {j}
  /\ UNCHANGED <<ledgerVars, serviceVars, marker, outside>>

RemoteStep(j) ==
  LaunchPlace(j) \/ LaunchLost(j) \/ SupervisorUp(j) \/ SupervisorFinish(j)
  \/ SupervisorStopped(j) \/ SupervisorDie(j) \/ StrayMark(j) \/ StrayStrike(j)

-----------------------------------------------------------------------------
(* The console process dies with all its threads and is started again; the
   ledger stays, and helpers that were called may carry on. *)
Crash ==
  /\ crashes < MaxCrashes
  /\ crashes' = crashes + 1
  /\ run' = [j \in Jobs |-> IF run[j].pc = "idle" THEN run[j]
                            ELSE [pc |-> "done", seen |-> "none"]]
  /\ wk' = [w \in Workers |-> Idle]
  /\ todo' = {}
  /\ MayOrphan(Workers)
  /\ UNCHANGED <<ledgerVars, ask, phase, marker, outside>>

Next ==
  \/ \E j \in Jobs : RunStep(j) \/ RemoteStep(j)
  \/ \E w \in Workers : WorkerStep(w)
  \/ \E w \in Clients : ClientStep(w)
  \/ MonitorStep
  \/ Crash

Spec == Init /\ [][Next]_vars

(* Every remote call of a worker ends, by its own timeout if need be, and the
   monitor never stops.  A lock that is free again and again is taken in the
   end by the monitor that waits for it, and a host that is called again and
   again does answer.  Nothing is assumed of run(), new calls or supervisors. *)
Fairness ==
  /\ WF_vars(MonitorStep)
  /\ \A w \in Workers : WF_vars(WorkerStep(w))
  /\ \A j \in Jobs :
       /\ SF_vars(MonitorPick(j))
       /\ SF_vars(wk[Monitor].job = j /\ CancelMark(Monitor))
       /\ SF_vars(wk[Monitor].job = j /\ CancelStrike(Monitor))
       /\ SF_vars(wk[Monitor].job = j /\ WorkerLook(Monitor))
       /\ SF_vars(wk[Monitor].job = j /\ WorkerCheck(Monitor))
       /\ SF_vars(wk[Monitor].job = j /\ WorkerApply(Monitor))

FairSpec == Spec /\ Fairness

-----------------------------------------------------------------------------
(* Safety *)

(* What the ledger says happened did happen: a recorded success is the remote
   job's own result, and nothing is recorded as cancelled unless somebody asked
   the console for it or stopped the supervisor behind its back (any SIGTERM or
   SIGINT counts as a cancel on the host), although _apply_observation rewrites
   `lost' to `cancelled' by a status that was read before the call. *)
VerdictIsTrue ==
  \A j \in Jobs :
    /\ "succeeded" \in events[j] => phase[j] = "succeeded"
    /\ "cancelled" \in events[j] => "cancel_requested" \in events[j] \/ j \in outside

(* The cancel verb, which kills a process group, reaches a job's directory
   only if cancel() was called for that job: not through a refresh that acts
   on a stale status, not through a helper whose caller is gone. *)
KillsAreAsked ==
  \A j \in Jobs :
    j \in marker \cup stray => "cancel_requested" \in events[j]

(* However calls of run() with one request id overlap, die or are repeated,
   at most one of them launches, and only after its row is in the ledger. *)
OneLaunchPerRequest ==
  \A i, j \in Jobs :
    /\ phase[j] # "absent" => Recorded(j) /\ request[j] = ask[j]
    /\ i # j /\ phase[i] # "absent" /\ phase[j] # "absent" => ask[i].id # ask[j].id

(* The remote side of this module assumes no more than RemoteJob.tla says,
   which RemoteHost.tla is shown to provide, for each job's directory. *)
Remote(j) == INSTANCE RemoteJob WITH phase <- phase[j], marked <- j \in marker,
                                     outside <- j \in outside

(* The service's calls and what happens on the host keep to the contract in each
   directory: one launch, one end for good, a mark only where the job was placed,
   and a cancelled end only after a mark or a signal that was no cancel's. *)
RemoteContract ==
  /\ \A j \in Jobs : Remote(j)!Init
  /\ [][\A j \in Jobs : Remote(j)!Next \/ UNCHANGED Remote(j)!jobVars]_vars

(* Two jobs have supervisors at work on one GPU only after the ledger recorded a
   false end for one of them: the locks themselves never let two in.  What a
   supervisor left behind when it ended is not seen here (see RemoteHost.tla). *)
Live(j) == phase[j] \in {"placed", "up"}
SharedOnlyAfterFalseEnd ==
  \A i, j \in Jobs :
    i # j /\ Live(i) /\ Live(j) /\ GpusOf[ask[i].payload] \cap GpusOf[ask[j].payload] # {}
      => \E k \in {i, j} : outbox[k] \in {"failed", "cancelled"}

(* The job lock makes an end final for every call that started after the
   launch was over: a terminal status is left only by run() itself or by a
   worker that began while the launch was under way. *)
EndIsFinal ==
  [][\A j \in Jobs :
       status[j] \in Terminal /\ status'[j] \notin Terminal =>
         \/ run[j].pc \in InLaunch
         \/ \E w \in Workers : wk[w].job = j /\ wk[w].early]_vars

(* No failed or late refresh forgets a cancel: a cancelling job becomes
   something else than ended only through the write at the end of run(). *)
OnlyLaunchForgetsCancel ==
  [][\A j \in Jobs :
       status[j] = "cancelling" /\ status'[j] \notin Terminal \cup {"cancelling"} =>
         run[j].pc \in InLaunch]_vars

-----------------------------------------------------------------------------
(* Liveness *)

(* A job whose supervisor ended or died is settled in the ledger for good,
   so its GPUs come back, in spite of lost answers and a console restart. *)
EndIsSettled ==
  \A j \in Jobs : phase[j] \in Ended ~> [](status[j] \in Terminal)

(* A cancel that is still on record once run() has returned comes true, even
   if the supervisor ignores it, if the job was placed on the host at all. *)
CancelComesTrue ==
  \A j \in Jobs :
    (status[j] = "cancelling" /\ run[j].pc = "done" /\ phase[j] \in Placed)
      ~> status[j] \in Terminal
=============================================================================
