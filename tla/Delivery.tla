------------------------------ MODULE Delivery ------------------------------
(***************************************************************************)
(* What the outbox promises about each notification, without leases, tokens *)
(* or clocks: it is settled once and for good, never before some consumer   *)
(* has handled it.  Outbox.tla is shown to implement this module.           *)
(***************************************************************************)
CONSTANT Events     \* notifications, one for each job that ends

VARIABLE progress   \* "none", "open", "handled" or "settled", for each event

Init == progress = [e \in Events |-> "none"]

Advance(e, from, to) ==
  progress[e] = from /\ progress' = [progress EXCEPT ![e] = to]

Publish(e) == Advance(e, "none", "open")
Handle(e) == Advance(e, "open", "handled")
Settle(e) == Advance(e, "handled", "settled")

Next == \E e \in Events : Publish(e) \/ Handle(e) \/ Settle(e)

Spec == Init /\ [][Next]_progress
=============================================================================
