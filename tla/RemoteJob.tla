------------------------------ MODULE RemoteJob -----------------------------
(***************************************************************************)
(* What a remote host promises the console about one job's directory: it is  *)
(* created by one launch or never, it ends once and for good, it is marked   *)
(* for cancelling only once it is there, and it shows a cancelled job only     *)
(* after such a mark or after a signal that was no cancel's.  Console.tla     *)
(* relies on this contract, RemoteHost.tla is shown to keep it.             *)
(***************************************************************************)
VARIABLES phase,    \* what the directory shows
          marked,   \* cancel-requested.json exists
          outside   \* the job was ended by a signal that was no cancel's

jobVars == <<phase, marked, outside>>

Results == {"succeeded", "failed", "cancelled"}
Placed == {"placed", "up", "gone"} \cup Results

Init == phase = "absent" /\ ~marked /\ ~outside

To(p) == phase' = p /\ UNCHANGED <<marked, outside>>

Send == phase = "absent" /\ To("sent")
Place == phase = "sent" /\ To("placed")
Lose == phase = "sent" /\ To("unplaced")
Up == phase = "placed" /\ To("up")
Finish == /\ phase = "up"
          /\ \E r \in Results : (r = "cancelled" => marked) /\ To(r)
Stop == phase = "up" /\ phase' = "cancelled" /\ outside' = TRUE /\ UNCHANGED marked
Die == phase \in {"placed", "up"} /\ To("gone")
Mark == phase \in Placed /\ marked' = TRUE /\ UNCHANGED <<phase, outside>>

Next == Send \/ Place \/ Lose \/ Up \/ Finish \/ Stop \/ Die \/ Mark

Spec == Init /\ [][Next]_jobVars
=============================================================================
