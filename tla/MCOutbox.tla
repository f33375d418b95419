------------------------------ MODULE MCOutbox ------------------------------
(* Outbox.tla on small sets: three events, of which e1 is the oldest. *)
EXTENDS Outbox, TLC

CONSTANTS e1, e2, e3, w1, w2, a, b

ThreeEvents == (e1 :> 1) @@ (e2 :> 2) @@ (e3 :> 3)
OneConsumerEach == (w1 :> a) @@ (w2 :> b)

(* A worker is gone, and has left nothing under way. *)
Gone(w) ==
  w \notin alive /\ claim[w] = NoClaim /\ done[w] = {}

(* A bound: the events that nobody can handle come once the worker that may die has
   died, while no event is being handled, and the older one first.  Until then two
   workers are about one event, afterwards one worker is about three. *)
PoisonLater ==
  \A e \in Poison : stage'[e] # stage[e] =>
    /\ \A w \in Mortal : Gone(w)
    /\ \A d \in Poison : CreatedAt[d] < CreatedAt[e] => stage[d] # "none"
    /\ \A w \in Workers, d \in Events \ Poison : hold[w][d] = NoToken

MCSpec == Init /\ [][Next /\ PoisonLater]_vars /\ Fairness
=============================================================================
