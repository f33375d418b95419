------------------------------ MODULE RemoteHost ----------------------------
(***************************************************************************)
(* One job on a remote host: the processes of remote_helper.py and the files *)
(* of the job's directory through which alone they talk to each other.  Each *)
(* call over ssh is a helper process that runs one verb; a launch leaves a    *)
(* supervisor behind.  Its process group holds its child and, where that is    *)
(* the profile's bootstrap, the user's command behind the child.             *)
(*                                                                         *)
(* A step is a file or process operation another process can see.  Writes    *)
(* go through atomic_json, so a file is absent or whole.  The directory is   *)
(* the job's own: every caller names the same request, and the checks that    *)
(* compare hashes are about the files being there.                          *)
(***************************************************************************)
EXTENDS Naturals

CONSTANT Helpers  \* the helper processes started for this job

VARIABLES files,   \* which of the job's files and its directory exist
          status,  \* status.json's state, "none" before it is written
          sup,     \* where the supervisor process is
          signalled, \* cancel_signal: its handler saw SIGTERM or SIGINT
          outside, \* history: one of those signals was no cancel's
          child,   \* the supervisor's child: the bootstrap or the command itself
          command, \* the user's command, where a bootstrap started it
          verdict, \* the supervisor's local `state'
          spawns,  \* how many supervisors were started
          hp       \* each helper: its verb, its place, what it read

procVars == <<signalled, outside, child, command>>
supVars == <<files, status, sup, procVars, verdict, spawns>>
vars == <<supVars, hp>>

Files == {"dir", "request", "receipt", "marker"}
Results == {"succeeded", "failed", "cancelled"}
SupPcs == {"none", "boot", "spawn", "check", "wait", "judge", "write", "exiting", "dead", "killed"}
Verbs == {"launch", "inspect", "cancel"}
HelperPcs == {"start", "resolve", "request", "popen", "await", "mark", "target",
              "term", "grace", "kill", "receipt", "status", "process", "done", "error", "dead"}

Waiting == [verb |-> "none", pc |-> "start", rec |-> FALSE, st |-> "none", ans |-> "none"]

TypeOK ==
  /\ files \in SUBSET Files
  /\ status \in Results \cup {"none"}
  /\ sup \in SupPcs
  /\ signalled \in BOOLEAN /\ outside \in BOOLEAN
  /\ child \in {"none", "running", "termed", "ok", "bad"}
  /\ command \in {"none", "running", "over"}
  /\ verdict \in Results \cup {"none"}
  /\ spawns \in Nat
  /\ hp \in [Helpers -> [verb : Verbs \cup {"none"}, pc : HelperPcs, rec : BOOLEAN,
                         st : Results \cup {"none"},
                         ans : Results \cup {"running", "lost", "none"}]]

Init ==
  /\ files = {} /\ status = "none"
  /\ sup = "none" /\ verdict = "none" /\ spawns = 0
  /\ signalled = FALSE /\ outside = FALSE
  /\ child = "none" /\ command = "none"
  /\ hp = [h \in Helpers |-> Waiting]

SupGone == sup \in {"dead", "killed"}   \* "killed" by something else than the helper
SupAlive == ~SupGone /\ sup # "none"
ChildAlive == child \in {"running", "termed"}
CommandAlive == command = "running"
GroupAlive == SupAlive \/ ChildAlive \/ CommandAlive   \* one process group
Matches == "receipt" \in files /\ SupAlive     \* process_matches(receipt)

At(h, verb, pc) == hp[h].verb = verb /\ hp[h].pc = pc
Goto(h, pc) == hp' = [hp EXCEPT ![h].pc = pc]

-----------------------------------------------------------------------------
(* supervise *)

SupTo(pc) == sup' = pc
Stopped == child' = IF child = "running" THEN "termed" ELSE child

(* The handlers are in place before the receipt makes the process known. *)
SupReceipt ==
  /\ sup = "boot" /\ SupTo("spawn")
  /\ files' = files \cup {"receipt"}
  /\ UNCHANGED <<status, procVars, verdict, spawns, hp>>

(* A command that cannot be started counts as one that exited with 127. *)
SupSpawn ==
  /\ sup = "spawn"
  /\ \/ child' = "running" /\ SupTo("check")
     \/ child' = "bad" /\ SupTo("judge")
  /\ UNCHANGED <<files, status, signalled, outside, command, verdict, spawns, hp>>

\* Slip: only the signal counts.
CancelSeenBySignal == signalled
CancelSeen == signalled \/ "marker" \in files

(* terminate() is for the child alone: a command behind it hears nothing. *)
SupCheck ==
  /\ sup = "check" /\ SupTo("wait")
  /\ IF CancelSeen THEN Stopped ELSE UNCHANGED child
  /\ UNCHANGED <<files, status, signalled, outside, command, verdict, spawns, hp>>

SupWait ==
  /\ sup = "wait" /\ child \in {"ok", "bad"} /\ SupTo("judge")
  /\ UNCHANGED <<files, status, procVars, verdict, spawns, hp>>

SupJudge ==
  /\ sup = "judge" /\ SupTo("write")
  /\ verdict' = IF CancelSeen THEN "cancelled"
                ELSE IF child = "ok" THEN "succeeded" ELSE "failed"
  /\ UNCHANGED <<files, status, procVars, spawns, hp>>

SupWrite ==
  /\ sup = "write" /\ SupTo("exiting")
  /\ status' = verdict
  /\ UNCHANGED <<files, procVars, verdict, spawns, hp>>

SupExit ==
  /\ sup = "exiting" /\ SupTo("dead")
  /\ UNCHANGED <<files, status, procVars, verdict, spawns, hp>>

(* Killed with SIGKILL by something else than cancel, or by SIGTERM before the
   handlers, or ended by an error before the receipt; whatever runs already is
   left behind. *)
SupDie ==
  /\ SupAlive /\ SupTo("killed")
  /\ UNCHANGED <<files, status, procVars, verdict, spawns, hp>>

(* SIGTERM or SIGINT that no cancel sent (the host shuts down, somebody runs
   kill): the handler takes it for a cancel.  It may be for the whole group. *)
OutsideSignal ==
  /\ SupAlive /\ sup # "exiting"
  /\ signalled' = TRUE /\ outside' = TRUE
  /\ UNCHANGED child \/ Stopped
  /\ UNCHANGED <<files, status, sup, command, verdict, spawns, hp>>

(* The child ends by itself, or at last obeys SIGTERM, with any code; a
   bootstrap may do so before the command it started. *)
ChildExit ==
  /\ ChildAlive
  /\ child' \in {"ok", "bad"}
  /\ UNCHANGED <<files, status, sup, signalled, outside, command, verdict, spawns, hp>>

(* A bootstrap (`conda run' in the shipped profile) starts the command in the
   same group.  Without one, the child is the command. *)
CommandStart ==
  /\ ChildAlive /\ command = "none"
  /\ command' = "running"
  /\ UNCHANGED <<files, status, sup, signalled, outside, child, verdict, spawns, hp>>

CommandExit ==
  /\ CommandAlive
  /\ command' = "over"
  /\ UNCHANGED <<files, status, sup, signalled, outside, child, verdict, spawns, hp>>

(* What nobody in the code decides. *)
Surroundings == SupDie \/ OutsideSignal \/ ChildExit \/ CommandStart \/ CommandExit

Supervisor ==
  SupReceipt \/ SupSpawn \/ SupCheck \/ SupWait \/ SupJudge \/ SupWrite \/ SupExit

-----------------------------------------------------------------------------
(* inspect_job: the receipt, then status.json, then the process table *)

ReadReceipt(h) ==
  /\ hp[h].pc = "receipt"
  /\ hp' = [hp EXCEPT ![h].pc = "status", ![h].rec = "receipt" \in files]
  /\ UNCHANGED supVars

ReadStatus(h) ==
  /\ hp[h].pc = "status"
  /\ hp' = [hp EXCEPT ![h].pc = "process", ![h].st = status]
  /\ UNCHANGED supVars

\* Slip: the process table is not asked.
VerdictByFiles(rec, st) == IF st # "none" THEN st ELSE "lost"
Verdict(rec, st) ==
  IF st # "none" THEN st ELSE IF rec /\ SupAlive THEN "running" ELSE "lost"

ReadProcess(h) ==
  /\ hp[h].pc = "process"
  /\ hp' = [hp EXCEPT ![h].pc = "done", ![h].ans = Verdict(hp[h].rec, hp[h].st)]
  /\ UNCHANGED supVars

InspectJob(h) == ReadReceipt(h) \/ ReadStatus(h) \/ ReadProcess(h)

-----------------------------------------------------------------------------
(* launch *)

\* Slip: a directory without request.json is taken over by the next launch.
LaunchResumes(h) ==
  /\ hp[h].pc = "start" /\ "dir" \in files
  /\ hp' = [hp EXCEPT ![h].verb = "launch",
                      ![h].pc = IF "request" \in files THEN "receipt" ELSE "resolve"]
  /\ UNCHANGED supVars

(* mkdir is the test-and-set.  An existing directory is only inspected, or
   is an error while its request.json is missing. *)
LaunchMkdir(h) ==
  /\ hp[h].pc = "start" /\ "dir" \notin files
  /\ files' = files \cup {"dir"}
  /\ hp' = [hp EXCEPT ![h].verb = "launch", ![h].pc = "resolve"]
  /\ UNCHANGED <<status, sup, procVars, verdict, spawns>>

LaunchExists(h) ==
  /\ hp[h].pc = "start" /\ "dir" \in files
  /\ hp' = [hp EXCEPT ![h].verb = "launch",
                      ![h].pc = IF "request" \in files THEN "receipt" ELSE "error"]
  /\ UNCHANGED supVars

(* A cwd that does not resolve leaves the directory behind. *)
LaunchResolve(h) ==
  /\ hp[h].pc = "resolve"
  /\ Goto(h, "request") \/ Goto(h, "error")
  /\ UNCHANGED supVars

LaunchRequest(h) ==
  /\ hp[h].pc = "request" /\ Goto(h, "popen")
  /\ files' = files \cup {"request"}
  /\ UNCHANGED <<status, sup, procVars, verdict, spawns>>

LaunchPopen(h) ==
  /\ hp[h].pc = "popen" /\ Goto(h, "await")
  /\ sup' = "boot" /\ spawns' = spawns + 1
  /\ UNCHANGED <<files, status, procVars, verdict>>

(* Until the receipt, the supervisor's end or the deadline: at any time. *)
LaunchAwait(h) ==
  /\ hp[h].pc = "await" /\ Goto(h, "receipt")
  /\ UNCHANGED supVars

Launch(h) ==
  LaunchMkdir(h) \/ LaunchExists(h) \/ LaunchResolve(h) \/ LaunchRequest(h)
  \/ LaunchPopen(h) \/ LaunchAwait(h)

-----------------------------------------------------------------------------
(* inspect and cancel: validate_identity needs request.json *)

\* Slip: a missing request.json passes.
ValidateLate(h, verb, pc) ==
  /\ hp[h].pc = "start"
  /\ hp' = [hp EXCEPT ![h].verb = verb, ![h].pc = pc]
  /\ UNCHANGED supVars

Validate(h, verb, pc) ==
  /\ hp[h].pc = "start"
  /\ hp' = [hp EXCEPT ![h].verb = verb,
                      ![h].pc = IF "request" \in files THEN pc ELSE "error"]
  /\ UNCHANGED supVars

Inspect(h) == Validate(h, "inspect", "receipt")
Cancel(h) == Validate(h, "cancel", "mark")

CancelMark(h) ==
  /\ hp[h].pc = "mark" /\ Goto(h, "target")
  /\ files' = files \cup {"marker"}
  /\ UNCHANGED <<status, sup, procVars, verdict, spawns>>

CancelTarget(h) ==
  /\ hp[h].pc = "target"
  /\ Goto(h, IF Matches THEN "term" ELSE "receipt")
  /\ UNCHANGED supVars

(* killpg fails, and with it the verb, if the group died since the check. *)
CancelTerm(h) ==
  /\ hp[h].pc = "term"
  /\ IF GroupAlive
     THEN /\ signalled' = (signalled \/ SupAlive)
          /\ Stopped
          /\ Goto(h, "grace")
     ELSE /\ Goto(h, "error")
          /\ UNCHANGED <<signalled, child>>
  /\ UNCHANGED <<files, status, sup, outside, command, verdict, spawns>>

\* Slip: the grace period is never followed up.
CancelGraceOnly(h) ==
  /\ hp[h].pc = "grace" /\ Goto(h, "receipt")
  /\ UNCHANGED supVars

(* The loop ends because the supervisor is gone, or with the deadline; then the
   process table is asked once more. *)
CancelGrace(h) ==
  /\ hp[h].pc = "grace"
  /\ Goto(h, IF Matches THEN "kill" ELSE "receipt")
  /\ UNCHANGED supVars

\* Slip: SIGKILL for the leader of the group only.
CancelKillLeader(h) ==
  /\ hp[h].pc = "kill" /\ Goto(h, "receipt")
  /\ sup' = IF SupAlive THEN "dead" ELSE sup
  /\ UNCHANGED <<files, status, procVars, verdict, spawns>>

(* SIGKILL for whoever is left of the group; if nobody is, killpg fails, and
   with it the verb. *)
CancelKill(h) ==
  /\ hp[h].pc = "kill"
  /\ Goto(h, IF GroupAlive THEN "receipt" ELSE "error")
  /\ sup' = IF SupAlive THEN "dead" ELSE sup
  /\ child' = IF ChildAlive THEN "bad" ELSE child
  /\ command' = IF CommandAlive THEN "over" ELSE command
  /\ UNCHANGED <<files, status, signalled, outside, verdict, spawns>>

CancelSteps(h) ==
  CancelMark(h) \/ CancelTarget(h) \/ CancelTerm(h) \/ CancelGrace(h) \/ CancelKill(h)

(* A helper may die at any moment: with its connection, or with the host. *)
Over == {"start", "done", "error", "dead"}
HelperDie(h) ==
  /\ hp[h].pc \notin Over
  /\ Goto(h, "dead")
  /\ UNCHANGED supVars

-----------------------------------------------------------------------------
HelperStep(h) == InspectJob(h) \/ Launch(h) \/ Inspect(h) \/ Cancel(h) \/ CancelSteps(h)

Next ==
  \/ Supervisor \/ Surroundings
  \/ \E h \in Helpers : HelperStep(h) \/ HelperDie(h)

Spec == Init /\ [][Next]_vars

(* A helper process that was started keeps running; nothing is assumed of the
   supervisor or of the user's command. *)
FairSpec == Spec /\ \A h \in Helpers : WF_vars(hp[h].pc # "start" /\ HelperStep(h))

-----------------------------------------------------------------------------
(* Safety *)

(* However launches are repeated or overlap, the command is started once. *)
OneSupervisor == spawns <= 1

(* Once a cancel helper is past its kill, the supervisor no longer waits for a
   command that nobody told to stop: either the helper found the receipt and
   signalled the group, or the supervisor, whose receipt came later, finds the
   marker after it started the command. *)
Struck == {"grace", "kill", "receipt", "status", "process", "done"}
CancelReachesChild ==
  \A h \in Helpers :
    hp[h].verb = "cancel" /\ hp[h].pc \in Struck =>
      ~(sup = "wait" /\ child = "running")

(* An answer that rests on a receipt is never refuted later: a result is the one
   in status.json, and a job declared lost has no supervisor any more.  `lost'
   without a receipt is exempt: the supervisor may be on its way to it, and the
   job may go on to run and to end in any way. *)
AnswersAreSound ==
  \A h \in Helpers : hp[h].pc = "done" =>
    /\ hp[h].ans \in Results => status = hp[h].ans
    /\ hp[h].ans = "lost" /\ hp[h].rec => SupGone

(* An answer that ends the job, and so gives its GPUs away, is not given while the
   supervisor's child still runs; and a job that is lost because a cancel killed
   its supervisor has no process left at all.  Three ends are exempt: `lost'
   without a receipt (the job may be about to run); a supervisor that something
   else killed alone; and a command whose bootstrap ended before it, which the
   supervisor never looks for. *)
EndsAreOver ==
  \A h \in Helpers : hp[h].pc = "done" =>
    /\ hp[h].ans \in Results => ~ChildAlive
    /\ hp[h].ans = "lost" /\ hp[h].rec /\ sup # "killed" =>
         ~ChildAlive /\ (status = "none" => ~CommandAlive)

(* The contract that Console.tla relies on.  A launch counts as sent when its
   helper has made the directory. *)
Creating == \E h \in Helpers : hp[h].pc \in {"resolve", "request"}
jobPhase ==
  IF "dir" \notin files THEN "absent"
  ELSE IF "request" \notin files THEN IF Creating THEN "sent" ELSE "unplaced"
  ELSE IF status # "none" THEN status
  ELSE IF SupGone THEN "gone"
  ELSE IF "receipt" \in files THEN "up" ELSE "placed"

endedOutside == outside /\ status = "cancelled"

Contract == INSTANCE RemoteJob WITH phase <- jobPhase, marked <- "marker" \in files,
                                   outside <- endedOutside

(* Whatever the helpers and the supervisor do in between, their directory
   moves as RemoteJob says: one launch, one end for good, a mark only where a
   launch has placed the job, and a cancelled end only after a mark or a signal
   that was no cancel's. *)
KeepsContract == Contract!Spec

-----------------------------------------------------------------------------
(* Liveness *)

(* A cancel that signalled the group ends the supervisor's child, even one that
   ignores SIGTERM, and once it goes on to SIGKILL it ends the whole group.  It
   does neither if the helper dies, and not the first if something else kills the
   supervisor alone: nobody is killed then.  Neither ends a command whose
   bootstrap obeyed SIGTERM and let the supervisor exit within the grace period. *)
CancelStops ==
  \A h \in Helpers :
    /\ hp[h].pc = "grace" ~> ~ChildAlive \/ hp[h].pc = "dead" \/ sup = "killed"
    /\ hp[h].pc = "kill" ~> ~GroupAlive \/ hp[h].pc = "dead"

-----------------------------------------------------------------------------
(* tests/test_remote_helper.py:32-39,76-77: polling a job until it is not
   running any more returns the result of a job that succeeds. *)
PollFindsSuccess ==
  \A h \in Helpers : status = "succeeded" /\ sup # "killed" /\ hp[h].rec => hp[h].ans # "lost"
=============================================================================
