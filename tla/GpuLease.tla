------------------------------ MODULE GpuLease ------------------------------
(***************************************************************************)
(* What the ledger promises about GPUs, without tables, statuses or        *)
(* observations: a job is granted all the GPUs it asks for at once, only    *)
(* while nobody holds any of them, and gives them all back once, for good.  *)
(* Ledger.tla is shown to implement this module, and so are Console.tla,    *)
(* through it, and Admission.tla, for the calls that compete for GPUs.      *)
(***************************************************************************)
CONSTANTS Jobs,    \* job identifiers
          Gpus,    \* (profile, gpu index) pairs
          NoJob    \* the holder of a free GPU, not a job

VARIABLES holder,  \* the job that holds each GPU, or NoJob
          stage    \* "new", "granted" or "released", for each job

leaseVars == <<holder, stage>>

Init == /\ holder = [g \in Gpus |-> NoJob]
        /\ stage = [j \in Jobs |-> "new"]

Free(S) == \A g \in S : holder[g] = NoJob

Grant(j, S) ==
  /\ stage[j] = "new"
  /\ Free(S)
  /\ holder' = [g \in Gpus |-> IF g \in S THEN j ELSE holder[g]]
  /\ stage' = [stage EXCEPT ![j] = "granted"]

Release(j) ==
  /\ stage[j] = "granted"
  /\ holder' = [g \in Gpus |-> IF holder[g] = j THEN NoJob ELSE holder[g]]
  /\ stage' = [stage EXCEPT ![j] = "released"]

Next == \E j \in Jobs : Release(j) \/ \E S \in SUBSET Gpus : Grant(j, S)

Spec == Init /\ [][Next]_leaseVars
=============================================================================
