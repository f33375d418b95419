------------------------- MODULE MonitorWorkerProofs ------------------------
(***************************************************************************)
(* Theorems about MonitorWorker, for any number of threads.                  *)
(***************************************************************************)
EXTENDS MonitorWorker, TLAPS

(* The current thread cannot meet a set event but in the join of its own stop,
   and ends by itself nowhere else. *)
CurIsKept ==
  cur # NoThread /\ caller # "join" =>
    /\ ~stop
    /\ Running \/ thread[cur] = "raised"

CallerFacts ==
  /\ caller = "idle" /\ wanted => cur # NoThread
  /\ caller \in {"clear", "create"} => ~Running
  /\ caller = "create" => ~stop
  /\ caller = "join" => ~wanted

WorkerInv == TypeOK /\ OnlyLateIsExtra /\ CurIsKept /\ CallerFacts

LEMMA InitEstablishes == Init => WorkerInv
  BY DEF Init, WorkerInv, TypeOK, OnlyLateIsExtra, CurIsKept, CallerFacts, Running, Alive

LEMMA CallerPreserves ==
  ASSUME WorkerInv, Start \/ StartClear \/ Stop \/ StopJoin PROVE WorkerInv'
<1> USE DEF WorkerInv, TypeOK, OnlyLateIsExtra, CurIsKept, CallerFacts, Running, Alive
<1>1. CASE Start
  BY <1>1 DEF Start, StartsWith
<1>2. CASE StartClear
  BY <1>2 DEF StartClear, Cleared
<1>3. CASE Stop
  BY <1>3 DEF Stop, StopsWith
<1>4. CASE StopJoin
  BY <1>4 DEF StopJoin, Forgotten
<1> QED
  BY <1>1, <1>2, <1>3, <1>4

LEMMA CreatePreserves ==
  ASSUME WorkerInv, NEW t \in Threads, StartCreate(t) PROVE WorkerInv'
<1> USE DEF WorkerInv, TypeOK
<1>1. TypeOK'
  BY DEF StartCreate
<1>2. OnlyLateIsExtra'
  <2> SUFFICES ASSUME NEW u \in Threads, Alive(u)', u # t
               PROVE u \in late'
    BY DEF OnlyLateIsExtra, StartCreate
  <2>1. Alive(u) /\ late' = late
    BY DEF StartCreate, Alive
  <2>2. u # cur
    BY <2>1, NoThreadAssumption DEF StartCreate, CallerFacts, Running
  <2> QED
    BY <2>1, <2>2 DEF OnlyLateIsExtra
<1>3. CurIsKept' /\ CallerFacts'
  BY NoThreadAssumption DEF StartCreate, CurIsKept, CallerFacts, Running, Alive
<1> QED
  BY <1>1, <1>2, <1>3

LEMMA LoopPreserves ==
  ASSUME WorkerInv, NEW t \in Threads, Loop(t) \/ LoopRaise(t) PROVE WorkerInv'
<1> USE DEF WorkerInv, TypeOK
<1>1. PICK to \in {"turn", "ended", "raised", "wait", "test"} :
        /\ Go(t, to)
        /\ Alive(t)
        /\ to = "ended" => stop
  BY DEF Loop, LoopTest, LoopTurn, LoopWait, LoopRaise, Loops, Alive
<1>2. TypeOK'
  BY <1>1 DEF Go
<1>3. \A u \in Threads : Alive(u)' => Alive(u)
  BY <1>1 DEF Go, Alive
<1>4. OnlyLateIsExtra'
  BY <1>1, <1>3 DEF Go, OnlyLateIsExtra
<1>5. CurIsKept'
  BY <1>1 DEF Go, CurIsKept, Running, Alive
<1>6. CallerFacts'
  BY <1>1, <1>3 DEF Go, CallerFacts, Running
<1> QED
  BY <1>2, <1>4, <1>5, <1>6

LEMMA StepPreserves == WorkerInv /\ [Next]_vars => WorkerInv'
<1> SUFFICES ASSUME WorkerInv, [Next]_vars PROVE WorkerInv'
  OBVIOUS
<1>1. CASE UNCHANGED vars
  BY <1>1 DEF vars, WorkerInv, TypeOK, OnlyLateIsExtra, CurIsKept, CallerFacts, Running, Alive
<1>2. CASE Next
  BY <1>2, CallerPreserves, CreatePreserves, LoopPreserves DEF Next
<1> QED
  BY <1>1, <1>2

(* The invariant behind the theorems below (monitor.py:18-37): the event that all
   threads share is never set for the current one outside its own stop. *)
THEOREM WorkerIsInvariant == Spec => []WorkerInv
<1> QED
  BY InitEstablishes, StepPreserves, PTL DEF Spec

(* The states of threads and caller keep their types, and nothing that is None
   is joined (monitor.py:28). *)
THEOREM WorkerTypeCorrect == Spec => []TypeOK
<1>1. WorkerInv => TypeOK
  BY DEF WorkerInv
<1> QED
  BY <1>1, WorkerIsInvariant, PTL

(* A second monitor is always a thread whose stop gave up waiting for it
   (monitor.py:19, 29). *)
THEOREM ExtraMonitorsAreLate == Spec => []OnlyLateIsExtra
<1>1. WorkerInv => OnlyLateIsExtra
  BY DEF WorkerInv
<1> QED
  BY <1>1, WorkerIsInvariant, PTL

(* Between start and stop nothing but an exception ends the monitor, and /health
   tells it (monitor.py:18-31, 42). *)
THEOREM StartsAreWatched == Spec => []StartedIsWatched
<1>1. WorkerInv => StartedIsWatched
  BY DEF WorkerInv, CurIsKept, CallerFacts, StartedIsWatched
<1> QED
  BY <1>1, WorkerIsInvariant, PTL
=============================================================================
