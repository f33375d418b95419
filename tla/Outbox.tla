------------------------------- MODULE Outbox -------------------------------
(***************************************************************************)
(* Delivery of the ledger's notifications: claim_outbox leases rows of the  *)
(* outbox to a consumer, ack_outbox settles one of them.  Consumers are      *)
(* external; a worker is one life of a consumer process, several workers    *)
(* may use one consumer id (a restart, or two instances), and a worker may   *)
(* die, lose an answer or work longer than its lease.                       *)
(*                                                                         *)
(* Time passes in ticks of one second, the resolution of lease_until.        *)
(* Instead of lease_until the model keeps what is left of the lease, and     *)
(* instead of the clock value a claim has read, how old that value is.       *)
(***************************************************************************)
EXTENDS Integers, FiniteSets

CONSTANTS Events,      \* outbox rows, one for each job that ends
          CreatedAt,   \* created_at of each row, the host's observed_at
          Workers,     \* lives of consumer processes
          ConsumerOf,  \* the consumer id each worker uses
          NoOwner,     \* lease_owner NULL
          Tokens,      \* values of lease_token
          NoToken,     \* lease_token NULL
          Limits,      \* limits a claim may ask for
          Leases,      \* lease_seconds a claim may ask for
          Mortal,      \* the workers that may die
          Poison,      \* events that no worker manages to handle
          MaxLag       \* bound: seconds between a claim's clock and its commit

ASSUME CreatedAtAssumption == CreatedAt \in [Events -> Nat]
ASSUME NoOwnerAssumption == NoOwner \notin {ConsumerOf[w] : w \in Workers}
ASSUME NoTokenAssumption == NoToken \notin Tokens
ASSUME BoundsAssumption == Leases \subseteq Nat \ {0} /\ MaxLag \in Nat

VARIABLES stage,    \* each row: "none", "open" or "acked"
          owner,    \* lease_owner
          token,    \* lease_token
          left,     \* seconds until lease_until; once it is past, how long ago
          claim,    \* each worker's claim under way: limit, lease, age of its clock
          hold,     \* the token each worker was given for each event
          done,     \* the events each worker has handled and not yet settled
          alive,    \* the workers that have not died
          handled   \* history: the events some worker has handled

rowVars == <<stage, owner, token, left>>
workerVars == <<claim, hold, done, alive, handled>>
vars == <<stage, owner, token, left, claim, hold, done, alive, handled>>

Consumers == {ConsumerOf[w] : w \in Workers}
NoClaim == [limit |-> 0, lease |-> 0, lag |-> 0]
Requests == [limit : Limits, lease : Leases, lag : 0 .. MaxLag]

(* A lease that ended MaxLag + 1 seconds ago is over by any clock in use. *)
LongAgo == -(MaxLag + 1)

TypeOK ==
  /\ stage \in [Events -> {"none", "open", "acked"}]
  /\ owner \in [Events -> Consumers \cup {NoOwner}]
  /\ token \in [Events -> Tokens \cup {NoToken}]
  /\ left \in [Events -> Int]
  /\ \A e \in Events : left[e] >= LongAgo
  /\ \A e \in Events : owner[e] = NoOwner <=> token[e] = NoToken
  /\ claim \in [Workers -> Requests \cup {NoClaim}]
  /\ hold \in [Workers -> [Events -> Tokens \cup {NoToken}]]
  /\ done \in [Workers -> SUBSET Events]
  /\ alive \subseteq Workers
  /\ handled \subseteq Events

Init ==
  /\ stage = [e \in Events |-> "none"]
  /\ owner = [e \in Events |-> NoOwner]
  /\ token = [e \in Events |-> NoToken]
  /\ left = [e \in Events |-> 0]
  /\ claim = [w \in Workers |-> NoClaim]
  /\ hold = [w \in Workers |-> [e \in Events |-> NoToken]]
  /\ done = [w \in Workers |-> {}]
  /\ alive = Workers
  /\ handled = {}

-----------------------------------------------------------------------------
(* Slip: INSERT OR REPLACE. *)
PublishAgain(e) ==
  /\ stage' = [stage EXCEPT ![e] = "open"]
  /\ UNCHANGED <<owner, token, left, workerVars>>

(* INSERT OR IGNORE of the row, in the transaction that ends the job. *)
Publish(e) ==
  /\ stage[e] = "none"
  /\ stage' = [stage EXCEPT ![e] = "open"]
  /\ UNCHANGED <<owner, token, left, workerVars>>

(* A second passes, for every lease and for every claim that has read the clock. *)
Tick ==
  /\ \A w \in Workers : claim[w].lag < MaxLag \/ claim[w] = NoClaim
  /\ left' = [e \in Events |->
       IF owner[e] # NoOwner /\ left[e] > LongAgo THEN left[e] - 1 ELSE left[e]]
  /\ claim' = [w \in Workers |->
       IF claim[w] = NoClaim THEN NoClaim ELSE [claim[w] EXCEPT !.lag = @ + 1]]
  /\ UNCHANGED <<stage, owner, token, hold, done, alive, handled>>

-----------------------------------------------------------------------------
(* claim_outbox.  The clock is read before the lock and BEGIN IMMEDIATE, which
   may have to wait. *)
ClaimBegin(w) ==
  /\ w \in alive
  /\ claim[w] = NoClaim
  /\ \E n \in Limits, l \in Leases :
       claim' = [claim EXCEPT ![w] = [limit |-> n, lease |-> l, lag |-> 0]]
  /\ UNCHANGED <<rowVars, hold, done, alive, handled>>

(* Slip: a lease of which nothing is left counts as over. *)
ExpiredEarly(e, lag) == left[e] + lag <= 0

(* Slip: rows of a dead consumer are left to it. *)
ExpiredNever(e, lag) == FALSE

(* lease_until < now, with the time that the claim has read. *)
Expired(e, lag) == left[e] + lag < 0

Claimable(w) ==
  {e \in Events : /\ stage[e] = "open"
                  /\ \/ owner[e] \in {NoOwner, ConsumerOf[w]}
                     \/ Expired(e, claim[w].lag)}

(* Slip: ORDER BY lease_owner; rows that nobody was given yet come last. *)
LeasedFirst(C, n) ==
  {S \in SUBSET C :
     /\ Cardinality(S) = IF Cardinality(C) < n THEN Cardinality(C) ELSE n
     /\ \A e \in S, d \in C \ S : owner[e] # NoOwner \/ owner[d] = NoOwner}

(* ORDER BY created_at LIMIT limit: the order of equal times is unspecified. *)
Oldest(C, n) ==
  {S \in SUBSET C :
     /\ Cardinality(S) = IF Cardinality(C) < n THEN Cardinality(C) ELSE n
     /\ \A e \in S, d \in C \ S : CreatedAt[e] <= CreatedAt[d]}

(* Slip: a row that was already leased keeps its token. *)
FreshTokensOnce(e) ==
  IF token[e] # NoToken THEN {token[e]}
  ELSE Tokens \ {hold[w][e] : w \in Workers}

(* A uuid4 is like none that anybody still remembers for this event. *)
FreshTokens(e) == Tokens \ ({token[e]} \cup {hold[w][e] : w \in Workers})

(* The transaction: each chosen row gets the consumer, a token of its own and
   the lease counted from the time that was read. *)
Lease(w, S, new) ==
  /\ owner' = [e \in Events |-> IF e \in S THEN ConsumerOf[w] ELSE owner[e]]
  /\ token' = [e \in Events |-> IF e \in S THEN new[e] ELSE token[e]]
  /\ left' = [e \in Events |->
       IF e \in S THEN claim[w].lease - claim[w].lag ELSE left[e]]
  /\ stage' = stage

(* The answer comes; the worker starts over with the events it is given. *)
Answered(w, S, new) ==
  /\ hold' = [hold EXCEPT ![w] = [e \in Events |-> IF e \in S THEN new[e] ELSE @[e]]]
  /\ done' = [done EXCEPT ![w] = @ \ S]

ClaimCommit(w, heard) ==
  /\ claim[w] # NoClaim
  /\ heard => w \in alive
  /\ \E S \in Oldest(Claimable(w), claim[w].limit) :
       /\ \A e \in S : FreshTokens(e) # {}
       /\ LET new == [e \in S |-> CHOOSE t \in FreshTokens(e) : TRUE] IN
          /\ Lease(w, S, new)
          /\ IF heard THEN Answered(w, S, new) ELSE UNCHANGED <<hold, done>>
  /\ claim' = [claim EXCEPT ![w] = NoClaim]
  /\ UNCHANGED <<alive, handled>>

(* The wait for BEGIN IMMEDIATE has a limit; nothing is claimed then. *)
ClaimFail(w) ==
  /\ claim[w] # NoClaim
  /\ claim' = [claim EXCEPT ![w] = NoClaim]
  /\ UNCHANGED <<rowVars, hold, done, alive, handled>>

ClaimEnd(w) == ClaimFail(w) \/ \E heard \in BOOLEAN : ClaimCommit(w, heard)

-----------------------------------------------------------------------------
(* The consumer. *)
Handle(w, e) ==
  /\ w \in alive
  /\ hold[w][e] # NoToken
  /\ e \notin done[w] \cup Poison
  /\ done' = [done EXCEPT ![w] = @ \cup {e}]
  /\ handled' = handled \cup {e}
  /\ UNCHANGED <<rowVars, claim, hold, alive>>

(* A dead worker has sent the acks of any part of what it had handled; they
   may still arrive. *)
Die(w) ==
  /\ w \in alive \cap Mortal
  /\ alive' = alive \ {w}
  /\ \E sent \in SUBSET done[w] :
       /\ done' = [done EXCEPT ![w] = sent]
       /\ hold' = [hold EXCEPT ![w] =
            [e \in Events |-> IF e \in sent THEN @[e] ELSE NoToken]]
  /\ UNCHANGED <<rowVars, claim, handled>>

-----------------------------------------------------------------------------
(* ack_outbox: the WHERE clause.  The lease's expiry is not looked at. *)
Matches(w, e) ==
  /\ stage[e] = "open"
  /\ owner[e] = ConsumerOf[w]
  /\ token[e] = hold[w][e]

Forget(w, e) ==
  /\ hold' = [hold EXCEPT ![w][e] = NoToken]
  /\ done' = [done EXCEPT ![w] = @ \ {e}]

Settle(e) ==
  /\ stage' = [stage EXCEPT ![e] = "acked"]
  /\ owner' = [owner EXCEPT ![e] = NoOwner]
  /\ token' = [token EXCEPT ![e] = NoToken]
  /\ left' = [left EXCEPT ![e] = 0]

(* A worker that does not hear that its ack was taken may send it again. *)
Ack(w, e) ==
  /\ e \in done[w]
  /\ Matches(w, e)
  /\ Settle(e)
  /\ Forget(w, e) \/ UNCHANGED <<hold, done>>
  /\ UNCHANGED <<claim, alive, handled>>

(* HTTP 409. *)
AckRefused(w, e) ==
  /\ e \in done[w]
  /\ ~Matches(w, e)
  /\ Forget(w, e)
  /\ UNCHANGED <<rowVars, claim, alive, handled>>

Next ==
  \/ Tick
  \/ \E e \in Events : Publish(e)
  \/ \E w \in Workers :
       \/ ClaimBegin(w) \/ ClaimEnd(w) \/ Die(w)
       \/ \E e \in Events : Handle(w, e) \/ Ack(w, e) \/ AckRefused(w, e)

Spec == Init /\ [][Next]_vars

(* Time passes; a worker that lives polls again and again, hears sometimes of
   an event it was given, and sometimes is done with it before it is claimed
   again.  No fairness for those who publish, for lost answers or for death. *)
Fairness ==
  /\ WF_vars(Tick)
  /\ \A w \in Workers :
       /\ WF_vars(ClaimBegin(w)) /\ WF_vars(ClaimEnd(w))
       /\ \A e \in Events \ Poison :
            /\ SF_vars(ClaimCommit(w, TRUE) /\ token'[e] # token[e])
            /\ SF_vars(token[e] = hold[w][e] /\ Handle(w, e))
            /\ SF_vars(w \in alive /\ Ack(w, e))

FairSpec == Spec /\ Fairness

-----------------------------------------------------------------------------
(* Safety *)

(* The token of a leased row says who may settle it: at most one worker knows
   it, even among those that share a consumer id, and whoever has handled the
   event under it can still settle it, however late (store.py:452 does not look
   at lease_until). *)
HolderSettles ==
  \A w \in Workers, e \in Events :
    hold[w][e] = token[e] /\ token[e] # NoToken =>
      /\ Matches(w, e)
      /\ \A v \in Workers : hold[v][e] = token[e] => v = w

(* A lease is a promise to its consumer: the row goes to another one only when
   the lease is over by the real clock, although claims decide and count from a
   time they read before they waited for the ledger (store.py:411-420). *)
TakeoverNeedsExpiry ==
  [][\A e \in Events :
       owner[e] # NoOwner /\ owner'[e] \notin {owner[e], NoOwner} => left[e] < 0]_vars

(* Delivery is at least once and settled once: whatever workers die, answers are
   lost and leases run out, a row is settled only after somebody handled its
   event, and stays settled. *)
DeliveryProgress ==
  [e \in Events |->
     IF stage[e] = "none" THEN "none"
     ELSE IF stage[e] = "acked" THEN "settled"
     ELSE IF e \in handled THEN "handled" ELSE "open"]

D == INSTANCE Delivery WITH progress <- DeliveryProgress

DeliverySpec == D!Spec

-----------------------------------------------------------------------------
(* Liveness *)

(* Every event that can be handled is settled in the end, if a claim's limit has
   room for it behind the events of its age or older that nobody can handle: the
   leases of the dead run out, and younger events, however many and however often
   they are claimed again, never keep it waiting (store.py:420-421 takes the oldest
   rows first).  Without the room it need not be: a consumer is given its own
   unsettled rows again by each claim, and those fill the limit for ever. *)
Ahead(e) == {d \in Poison : CreatedAt[d] <= CreatedAt[e]}

Drains ==
  \A e \in Events \ Poison :
    (\A n \in Limits : Cardinality(Ahead(e)) < n) =>
      (stage[e] = "open" ~> stage[e] = "acked")
=============================================================================
