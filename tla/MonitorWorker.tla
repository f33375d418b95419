---------------------------- MODULE MonitorWorker ---------------------------
(***************************************************************************)
(* The life of the monitor thread: MonitorWorker.start and stop, called by   *)
(* the lifespan of the application one after the other, and the loop _run,    *)
(* which shares one stop event with every thread started before it.          *)
(* What a turn of the loop does is ConsoleService.monitor_once, in Console.   *)
(***************************************************************************)
EXTENDS Naturals

CONSTANTS Threads,    \* bound: the threads that start may create
          NoThread,   \* _thread is None
          MayRaise    \* monitor_once may raise, from active_jobs

ASSUME NoThreadAssumption == NoThread \notin Threads
ASSUME MayRaiseAssumption == MayRaise \in BOOLEAN

VARIABLES stop,     \* the event _stop is set
          thread,   \* where each thread of the loop is
          cur,      \* _thread
          caller,   \* where the lifespan is in start or stop
          wanted,   \* history: the last call of the lifespan was start
          late      \* history: threads that outlived the join of their stop

vars == <<stop, thread, cur, caller, wanted, late>>

Alive(t) == thread[t] \in {"test", "turn", "wait"}

TypeOK ==
  /\ stop \in BOOLEAN /\ wanted \in BOOLEAN
  /\ thread \in [Threads -> {"new", "test", "turn", "wait", "ended", "raised"}]
  /\ cur \in Threads \cup {NoThread}
  /\ caller \in {"idle", "clear", "create", "join"}
  /\ late \subseteq Threads
  /\ caller = "join" => cur # NoThread   \* else None.join

Init ==
  /\ stop = FALSE /\ wanted = FALSE
  /\ thread = [t \in Threads |-> "new"]
  /\ cur = NoThread
  /\ caller = "idle"
  /\ late = {}

-----------------------------------------------------------------------------
(* `running' in GET /health, and the guard of start. *)
Running == cur # NoThread /\ Alive(cur)

(* Slip: start does not look for a thread that runs. *)
StartsAnyhow == "clear"
StartsWith == IF Running THEN "idle" ELSE "clear"

Start ==
  /\ caller = "idle"
  /\ caller' = StartsWith
  /\ wanted' = TRUE
  /\ UNCHANGED <<stop, thread, cur, late>>

(* Slip: the event of the last stop stays set. *)
NotCleared == stop
Cleared == FALSE

StartClear ==
  /\ caller = "clear"
  /\ stop' = Cleared
  /\ caller' = "create"
  /\ UNCHANGED <<thread, cur, wanted, late>>

StartCreate(t) ==
  /\ caller = "create"
  /\ thread[t] = "new"
  /\ thread' = [thread EXCEPT ![t] = "test"]
  /\ cur' = t
  /\ caller' = "idle"
  /\ UNCHANGED <<stop, wanted, late>>

StopsWith == IF cur = NoThread THEN "idle" ELSE "join"

Stop ==
  /\ caller = "idle"
  /\ stop' = TRUE
  /\ caller' = StopsWith
  /\ wanted' = FALSE
  /\ UNCHANGED <<thread, cur, late>>

Forgotten == NoThread

(* The join lasts a second more than the loop's wait, and two seconds at least,
   so only monitor_once outlives it. *)
StopJoin ==
  /\ caller = "join"
  /\ Running => thread[cur] = "turn"
  /\ late' = IF Running THEN late \cup {cur} ELSE late
  /\ cur' = Forgotten
  /\ caller' = "idle"
  /\ UNCHANGED <<stop, thread, wanted>>

-----------------------------------------------------------------------------
Go(t, to) == /\ thread' = [thread EXCEPT ![t] = to]
             /\ UNCHANGED <<stop, cur, caller, wanted, late>>

(* Slip: `while True'. *)
LoopsAlways == TRUE
Loops == ~stop

LoopTest(t) == thread[t] = "test" /\ Go(t, IF Loops THEN "turn" ELSE "ended")

(* monitor_once: store, job locks and ssh, each with a time limit of its own. *)
LoopTurn(t) == thread[t] = "turn" /\ Go(t, "wait")

LoopRaise(t) == MayRaise /\ thread[t] = "turn" /\ Go(t, "raised")

(* It ends when the event is set or the poll time is over. *)
LoopWait(t) == thread[t] = "wait" /\ Go(t, "test")

Loop(t) == LoopTest(t) \/ LoopTurn(t) \/ LoopWait(t)

Next ==
  \/ Start \/ StartClear \/ Stop \/ StopJoin
  \/ \E t \in Threads : StartCreate(t) \/ Loop(t) \/ LoopRaise(t)

Spec == Init /\ [][Next]_vars

(* Threads are scheduled, and each turn ends. *)
FairSpec == Spec /\ \A t \in Threads : WF_vars(Loop(t))

-----------------------------------------------------------------------------
(* Safety *)

(* Only a thread that outlived the join of its stop can be a second monitor:
   a start that follows revives it, for they share the event. *)
OnlyLateIsExtra == \A t \in Threads : Alive(t) => t = cur \/ t \in late

(* Between start and stop /health says `running' exactly as long as the loop goes
   on, and nothing but an exception ends it: in particular not the stop of an
   earlier life, whatever became of the thread it was for. *)
StartedIsWatched ==
  wanted /\ caller = "idle" =>
    /\ cur # NoThread
    /\ Running \/ thread[cur] = "raised"
    /\ ~stop

-----------------------------------------------------------------------------
(* Liveness *)

(* A monitor that is left running takes its turns again and again. *)
KeepsWatching ==
  <>[](wanted /\ caller = "idle") =>
    []<>(\E t \in Threads : thread[t] = "turn") \/ <>(\E t \in Threads : thread[t] = "raised")

(* A last stop ends all threads, those included that it did not wait for. *)
StopIsObeyed == <>[](stop /\ ~wanted) => <>[](\A t \in Threads : ~Alive(t))
=============================================================================
