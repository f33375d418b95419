------------------------------ MODULE Admission -----------------------------
(***************************************************************************)
(* How ConsoleService.run comes to hold GPUs: the early look at the locks,    *)
(* the probe of the host (resources, action_resources), the verdict on it,    *)
(* and the transaction that locks them, while other users load the GPUs and   *)
(* other calls take and free them.                                           *)
(***************************************************************************)
EXTENDS Integers

CONSTANTS Runs,     \* calls of run
          NoRun,    \* the GPU has no lock row
          Gpus,     \* indices that a request may name
          Host,     \* those that the host's query lists
          MaxFree,  \* bound: free memory, in units of the thresholds' distance
          Full      \* 100 per cent, in the same way

ASSUME HostAssumption == Host \subseteq Gpus
ASSUME NoRunAssumption == NoRun \notin Runs
ASSUME BoundAssumption == MaxFree \in Nat /\ Full \in Nat \ {0}

VARIABLES profile,  \* thresholds of the server profile
          gpu,      \* the host's GPUs as they are
          locks,    \* resource_locks
          call,     \* where each call is, what it wants, saw and was answered
          was       \* history: what the query read for it, what was locked since

vars == <<profile, gpu, locks, call, was>>

(* foreign: a compute process runs on the GPU that is none of the console's jobs',
   or that nobody can name. *)
Readings == [free : 0 .. MaxFree, util : 0 .. Full, foreign : BOOLEAN]
Profiles == [minFree : 0 .. MaxFree, maxUtil : 0 .. Full]   \* ge=0, le=100
Pcs == {"idle", "resources", "probe", "verify", "create", "granted", "refused", "over"}

Calls == [pc : Pcs, want : SUBSET Gpus, locked : SUBSET Gpus, rows : SUBSET Host]
Histories == [read : [Host -> Readings], locked : SUBSET Gpus, failed : BOOLEAN]

TypeOK ==
  /\ profile \in Profiles
  /\ gpu \in [Host -> Readings]
  /\ locks \in [Gpus -> Runs \cup {NoRun}]
  /\ call \in [Runs -> Calls]
  /\ was \in [Runs -> Histories]

Init ==
  /\ profile \in Profiles
  /\ gpu \in [Host -> Readings]
  /\ locks = [g \in Gpus |-> NoRun]
  /\ call = [r \in Runs |-> [pc |-> "idle", want |-> {}, locked |-> {}, rows |-> {}]]
  /\ was = [r \in Runs |-> [read |-> gpu, locked |-> {}, failed |-> FALSE]]

Locked == {g \in Gpus : locks[g] # NoRun}

-----------------------------------------------------------------------------
(* int(payload.get("gpu_max_utilization") or 100) *)
MaximumUtil == IF profile.maxUtil = 0 THEN Full ELSE profile.maxUtil

(* Memory and utilization, and nothing else: the query of the shipped profile names
   no processes, and the helper judges the two columns only.
   Slip: the threshold itself counts as busy. *)
AvailableBelow(x) == x.free >= profile.minFree /\ x.util < MaximumUtil
Available(x) == x.free >= profile.minFree /\ x.util <= MaximumUtil

(* locked_gpus, before anything is asked of the host. *)
RunBegin(r, want) ==
  /\ call[r].pc = "idle"
  /\ call' = [call EXCEPT ![r].want = want,
       ![r].pc = IF want \cap Locked # {} THEN "refused"
                 ELSE IF want = {} THEN "create" ELSE "resources"]
  /\ was' = [was EXCEPT ![r].locked = Locked]
  /\ UNCHANGED <<profile, gpu, locks>>

(* resources takes its locks first, and asks the host then. *)
Resources(r) ==
  /\ call[r].pc = "resources"
  /\ call' = [call EXCEPT ![r].pc = "probe", ![r].locked = Locked]
  /\ UNCHANGED <<profile, gpu, locks, was>>

Probe(r) ==
  /\ call[r].pc = "probe"
  /\ call' = [call EXCEPT ![r].pc = "verify", ![r].rows = {g \in Host : Available(gpu[g])}]
  /\ was' = [was EXCEPT ![r].read = gpu]
  /\ UNCHANGED <<profile, gpu, locks>>

(* The call, the query or a row of its output that is no number. *)
ProbeFail(r) ==
  /\ call[r].pc = "probe"
  /\ call' = [call EXCEPT ![r].pc = "refused"]
  /\ was' = [was EXCEPT ![r].failed = TRUE]
  /\ UNCHANGED <<profile, gpu, locks>>

(* Slip: an index that the host did not list is passed. *)
UnavailableOfListed(r) ==
  {g \in call[r].want \cap Host : g \notin call[r].rows \/ g \in call[r].locked}

(* _verify_requested_gpus. *)
Unavailable(r) == {g \in call[r].want : g \notin call[r].rows \/ g \in call[r].locked}

Verify(r) ==
  /\ call[r].pc = "verify"
  /\ call' = [call EXCEPT ![r].pc = IF Unavailable(r) = {} THEN "create" ELSE "refused"]
  /\ UNCHANGED <<profile, gpu, locks, was>>

(* create_job, in one transaction. *)
Create(r) ==
  /\ call[r].pc = "create"
  /\ IF call[r].want \cap Locked = {}
     THEN /\ locks' = [g \in Gpus |-> IF g \in call[r].want THEN r ELSE locks[g]]
          /\ call' = [call EXCEPT ![r].pc = "granted"]
          /\ was' = [s \in Runs |-> [was[s] EXCEPT !.locked = @ \cup call[r].want]]
     ELSE /\ call' = [call EXCEPT ![r].pc = "refused"]
          /\ UNCHANGED <<locks, was>>
  /\ UNCHANGED <<profile, gpu>>

(* The job ends, as in Ledger. *)
Release(r) ==
  /\ call[r].pc = "granted"
  /\ call' = [call EXCEPT ![r].pc = "over"]
  /\ locks' = [g \in Gpus |-> IF locks[g] = r THEN NoRun ELSE locks[g]]
  /\ UNCHANGED <<profile, gpu, was>>

(* Whoever uses the host. *)
Load(g, x) ==
  /\ gpu' = [gpu EXCEPT ![g] = x]
  /\ UNCHANGED <<profile, locks, call, was>>

Next ==
  \/ \E r \in Runs :
       \/ \E want \in SUBSET Gpus : RunBegin(r, want)
       \/ Resources(r) \/ Probe(r) \/ ProbeFail(r) \/ Verify(r) \/ Create(r) \/ Release(r)
  \/ \E g \in Host, x \in Readings : Load(g, x)

Spec == Init /\ [][Next]_vars

-----------------------------------------------------------------------------
(* Within the thresholds as the profile states them. *)
Fits(x) == profile.minFree <= x.free /\ x.util <= profile.maxUtil

FoundIdle(r) ==
  \A g \in call[r].want : g \in Host /\ Fits(was[r].read[g])

(* No job gets a GPU that the host does not have, or that was beyond a threshold
   of memory or utilization when the host was asked during this call; except where
   the profile's gpu_max_utilization is 0, which config.py:30 admits and the helper
   reads as 100 (remote_helper.py:168).  Idle means no more than that: whose
   processes run on the GPU is not asked, see ForeignIsUnavailable. *)
GrantedWasIdle ==
  \A r \in Runs : call[r].pc \in {"granted", "over"} /\ profile.maxUtil # 0 => FoundIdle(r)

(* A call is refused only for something that was true at some moment of the call:
   a GPU at its threshold exactly is not refused, nor one whose lock was gone
   before the call began.  A foreign process is no cause here, because the code
   makes it none: it can only count through the memory and the utilization that
   it costs. *)
RefusedHadCause ==
  \A r \in Runs : call[r].pc = "refused" =>
    was[r].failed \/ call[r].want \cap was[r].locked # {} \/ ~FoundIdle(r)

(* README.md:34-35: "A GPU with a foreign or unknown compute process is unavailable
   at v3 launch".  The code does not keep it: nothing from the probe to create_job
   looks at processes, and a light or resting one stays within both thresholds. *)
ForeignIsUnavailable ==
  \A r \in Runs : call[r].pc = "granted" =>
    \A g \in call[r].want \cap Host : ~was[r].read[g].foreign

-----------------------------------------------------------------------------
leaseStage ==
  [r \in Runs |-> CASE call[r].pc = "granted" -> "granted"
                    [] call[r].pc = "over" -> "released"
                    [] OTHER -> "new"]

Lease == INSTANCE GpuLease WITH Jobs <- Runs, NoJob <- NoRun,
                                holder <- locks, stage <- leaseStage

(* However old the looks and the probe of a call are, its GPUs are granted whole,
   to it alone, and given back once. *)
LeaseSpec == Lease!Spec
=============================================================================
