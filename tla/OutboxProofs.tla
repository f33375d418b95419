---------------------------- MODULE OutboxProofs ----------------------------
(***************************************************************************)
(* Theorems about Outbox.tla, for any events, consumers, limits and leases.  *)
(* OutboxInv is the inductive invariant: HolderSettles needs to know that     *)
(* only open rows are leased, and delivery that only handled events are acked. *)
(***************************************************************************)
EXTENDS Outbox, TLAPS

(* Only open rows are leased, and only rows that exist are handed out. *)
LeasedIsOpen ==
  \A e \in Events :
    /\ owner[e] # NoOwner => stage[e] = "open"
    /\ \A w \in Workers : hold[w][e] # NoToken => stage[e] # "none"
    /\ e \in handled => stage[e] # "none"

(* What a worker is about to ack it has handled, under a token it was given. *)
DoneIsHandled ==
  \A w \in Workers : \A e \in done[w] : e \in handled /\ hold[w][e] # NoToken

OutboxInv == TypeOK /\ HolderSettles /\ LeasedIsOpen /\ DoneIsHandled

-----------------------------------------------------------------------------
LEMMA OutboxInit == Init => OutboxInv
<1> SUFFICES ASSUME Init PROVE OutboxInv
  OBVIOUS
<1>1. TypeOK
  BY BoundsAssumption DEF Init, TypeOK, LongAgo
<1>2. HolderSettles /\ LeasedIsOpen /\ DoneIsHandled
  BY DEF Init, HolderSettles, LeasedIsOpen, DoneIsHandled
<1> QED BY <1>1, <1>2 DEF OutboxInv

(* A second that passes changes no row but its remaining time. *)
LEMMA TickInv == ASSUME OutboxInv, Tick PROVE OutboxInv'
<1> USE DEF OutboxInv, Tick
<1>1. left' \in [Events -> Int] /\ \A e \in Events : left'[e] >= LongAgo
  BY BoundsAssumption DEF TypeOK, LongAgo
<1>2. claim' \in [Workers -> Requests \cup {NoClaim}]
  <2> SUFFICES ASSUME NEW w \in Workers, claim[w] # NoClaim
               PROVE  [claim[w] EXCEPT !.lag = @ + 1] \in Requests
    BY DEF TypeOK
  <2>1. claim[w] \in Requests /\ claim[w].lag < MaxLag
    BY DEF TypeOK
  <2> QED BY <2>1, BoundsAssumption DEF Requests
<1>3. TypeOK'
  BY <1>1, <1>2 DEF TypeOK
<1> QED BY <1>3 DEF HolderSettles, Matches, LeasedIsOpen, DoneIsHandled

(* What the claim's transaction does to the rows it chose. *)
LEMMA ClaimCommitInv ==
  ASSUME OutboxInv, NEW w \in Workers, NEW heard \in BOOLEAN, ClaimCommit(w, heard)
  PROVE  OutboxInv'
<1> USE DEF OutboxInv
<1>1. PICK S \in Oldest(Claimable(w), claim[w].limit) :
        /\ \A e \in S : FreshTokens(e) # {}
        /\ LET new == [e \in S |-> CHOOSE t \in FreshTokens(e) : TRUE] IN
           /\ Lease(w, S, new)
           /\ IF heard THEN Answered(w, S, new) ELSE UNCHANGED <<hold, done>>
  BY DEF ClaimCommit
<1> DEFINE new == [e \in S |-> CHOOSE t \in FreshTokens(e) : TRUE]
<1>2. S \subseteq Events /\ \A e \in S : stage[e] = "open"
  BY DEF Oldest, Claimable
<1>3. \A e \in S : new[e] \in FreshTokens(e)
  BY <1>1
<1>4. \A e \in S : /\ new[e] \in Tokens
                   /\ \A v \in Workers : hold[v][e] # new[e]
  BY <1>3 DEF FreshTokens
<1>5. claim[w] \in Requests
  BY DEF ClaimCommit, TypeOK
<1>6. Lease(w, S, new)
  BY <1>1
<1>7. IF heard THEN Answered(w, S, new) ELSE UNCHANGED <<hold, done>>
  BY <1>1
<1>8. /\ claim' = [claim EXCEPT ![w] = NoClaim]
      /\ UNCHANGED <<alive, handled>>
  BY DEF ClaimCommit
<1> HIDE DEF new
<1>9. TypeOK'
  <2>1. left' \in [Events -> Int] /\ \A e \in Events : left'[e] >= LongAgo
    <3>1. claim[w].lease \in Nat \ {0} /\ claim[w].lag \in 0 .. MaxLag
      BY <1>5, BoundsAssumption DEF Requests
    <3>2. \A e \in Events :
            left'[e] = IF e \in S THEN claim[w].lease - claim[w].lag ELSE left[e]
      BY <1>6 DEF Lease
    <3>3. claim[w].lease - claim[w].lag \in Int /\ claim[w].lease - claim[w].lag >= LongAgo
      BY <3>1, BoundsAssumption DEF LongAgo
    <3>4. left' = [e \in Events |-> left'[e]]
      BY <1>6 DEF Lease
    <3>5. \A e \in Events : left'[e] \in Int /\ left'[e] >= LongAgo
      BY <3>2, <3>3 DEF TypeOK
    <3> QED BY <3>4, <3>5
  <2>2. owner' \in [Events -> Consumers \cup {NoOwner}] /\ ConsumerOf[w] # NoOwner
    BY <1>6, NoOwnerAssumption DEF Lease, TypeOK, Consumers
  <2>3. /\ token' \in [Events -> Tokens \cup {NoToken}]
        /\ \A e \in Events : owner'[e] = NoOwner <=> token'[e] = NoToken
    BY <1>2, <1>4, <1>6, <2>2, NoTokenAssumption DEF Lease, TypeOK
  <2>4. /\ hold' \in [Workers -> [Events -> Tokens \cup {NoToken}]]
        /\ done' \in [Workers -> SUBSET Events]
    <3>1. CASE heard
      <4>1. [e \in Events |-> IF e \in S THEN new[e] ELSE hold[w][e]]
              \in [Events -> Tokens \cup {NoToken}]
        BY <1>2, <1>4 DEF TypeOK
      <4>2. hold' = [hold EXCEPT ![w] =
                       [e \in Events |-> IF e \in S THEN new[e] ELSE hold[w][e]]]
        BY <3>1, <1>7 DEF Answered, TypeOK
      <4>3. done' = [done EXCEPT ![w] = done[w] \ S]
        BY <3>1, <1>7 DEF Answered, TypeOK
      <4> QED BY <4>1, <4>2, <4>3 DEF TypeOK
    <3>2. CASE ~heard
      BY <3>2, <1>7 DEF TypeOK
    <3> QED BY <3>1, <3>2
  <2>5. claim' \in [Workers -> Requests \cup {NoClaim}]
    BY <1>8 DEF TypeOK
  <2> QED BY <1>6, <1>8, <2>1, <2>2, <2>3, <2>4, <2>5 DEF Lease, TypeOK
<1>10. \A v \in Workers, e \in Events :
         hold'[v][e] = IF heard /\ v = w /\ e \in S THEN new[e] ELSE hold[v][e]
  BY <1>7 DEF Answered, TypeOK
<1>11. \A e \in Events : /\ token'[e] = IF e \in S THEN new[e] ELSE token[e]
                         /\ owner'[e] = IF e \in S THEN ConsumerOf[w] ELSE owner[e]
                         /\ stage'[e] = stage[e]
  BY <1>6 DEF Lease
<1>12. HolderSettles'
  <2> SUFFICES ASSUME NEW v \in Workers, NEW e \in Events,
                      hold'[v][e] = token'[e], token'[e] # NoToken
               PROVE  /\ stage'[e] = "open"
                      /\ owner'[e] = ConsumerOf[v]
                      /\ \A u \in Workers : hold'[u][e] = token'[e] => u = v
    BY DEF HolderSettles, Matches
  <2>1. CASE e \in S
    BY <2>1, <1>2, <1>4, <1>10, <1>11
  <2>2. CASE e \notin S
    BY <2>2, <1>10, <1>11 DEF HolderSettles, Matches
  <2> QED BY <2>1, <2>2
<1>13. LeasedIsOpen'
  BY <1>2, <1>8, <1>10, <1>11 DEF LeasedIsOpen
<1>14. DoneIsHandled'
  <2>1. \A v \in Workers : done'[v] = IF heard /\ v = w THEN done[v] \ S ELSE done[v]
    BY <1>7 DEF Answered, TypeOK
  <2> SUFFICES ASSUME NEW v \in Workers, NEW e \in done'[v]
               PROVE  e \in handled' /\ hold'[v][e] # NoToken
    BY DEF DoneIsHandled
  <2>2. e \in done[v] /\ e \in Events /\ (heard /\ v = w => e \notin S)
    BY <2>1 DEF TypeOK
  <2>3. e \in handled /\ hold[v][e] # NoToken
    BY <2>2 DEF DoneIsHandled
  <2> QED BY <1>8, <1>10, <2>2, <2>3
<1> QED BY <1>9, <1>12, <1>13, <1>14

(* A worker that forgets claims leaves the rows as they are. *)
LEMMA ForgetInv ==
  ASSUME OutboxInv, TypeOK', UNCHANGED <<rowVars, handled>>,
         \A v \in Workers, d \in Events : hold'[v][d] \in {hold[v][d], NoToken},
         \A v \in Workers : \A d \in done'[v] : d \in done[v] /\ hold'[v][d] = hold[v][d]
  PROVE  OutboxInv'
BY DEF OutboxInv, rowVars, HolderSettles, Matches, LeasedIsOpen, DoneIsHandled, TypeOK

(* The beginning and the failure of a claim, and a worker's death. *)
LEMMA PollInv ==
  ASSUME OutboxInv, NEW w \in Workers, ClaimBegin(w) \/ ClaimFail(w) \/ Die(w)
  PROVE  OutboxInv'
<1> USE DEF OutboxInv
<1>1. CASE ClaimBegin(w)
  <2>1. claim' \in [Workers -> Requests \cup {NoClaim}]
    BY <1>1, BoundsAssumption DEF ClaimBegin, TypeOK, Requests
  <2> QED BY <1>1, <2>1 DEF ClaimBegin, rowVars, TypeOK, HolderSettles, Matches,
                            LeasedIsOpen, DoneIsHandled
<1>2. CASE ClaimFail(w)
  BY <1>2 DEF ClaimFail, rowVars, TypeOK, HolderSettles, Matches, LeasedIsOpen,
              DoneIsHandled
<1>3. CASE Die(w)
  <2>1. TypeOK'
    BY <1>3 DEF Die, TypeOK, rowVars
  <2> QED BY <1>3, <2>1, ForgetInv DEF Die, TypeOK
<1> QED BY <1>1, <1>2, <1>3

(* The worker's own work on an event, and a refused ack. *)
LEMMA HandleInv ==
  ASSUME OutboxInv, NEW w \in Workers, NEW e \in Events, Handle(w, e) \/ AckRefused(w, e)
  PROVE  OutboxInv'
<1> USE DEF OutboxInv
<1>1. CASE Handle(w, e)
  <2>1. TypeOK'
    BY <1>1 DEF Handle, rowVars, TypeOK
  <2> QED BY <1>1, <2>1 DEF Handle, rowVars, TypeOK, HolderSettles, Matches,
                            LeasedIsOpen, DoneIsHandled
<1>2. CASE AckRefused(w, e)
  <2>1. TypeOK'
    BY <1>2 DEF AckRefused, Forget, TypeOK, rowVars
  <2> QED BY <1>2, <2>1, ForgetInv DEF AckRefused, Forget, TypeOK
<1> QED BY <1>1, <1>2

(* An ack settles one row, whose lease and token end with it. *)
LEMMA AckInv ==
  ASSUME OutboxInv, NEW w \in Workers, NEW e \in Events, Ack(w, e)
  PROVE  OutboxInv'
<1> USE DEF OutboxInv
<1>1. \A d \in Events : /\ stage'[d] = IF d = e THEN "acked" ELSE stage[d]
                        /\ owner'[d] = IF d = e THEN NoOwner ELSE owner[d]
                        /\ token'[d] = IF d = e THEN NoToken ELSE token[d]
                        /\ left'[d] = IF d = e THEN 0 ELSE left[d]
  BY DEF Ack, Settle, TypeOK
<1>2. \A v \in Workers, d \in Events : hold'[v][d] \in {hold[v][d], NoToken}
  BY DEF Ack, Forget, TypeOK
<1>3. \A v \in Workers : \A d \in done'[v] : d \in done[v] /\ hold'[v][d] = hold[v][d]
  BY DEF Ack, Forget, TypeOK
<1>4. TypeOK'
  <2>1. /\ hold' \in [Workers -> [Events -> Tokens \cup {NoToken}]]
        /\ done' \in [Workers -> SUBSET Events]
    <3>1. CASE Forget(w, e)
      BY <3>1 DEF Forget, TypeOK
    <3>2. CASE UNCHANGED <<hold, done>>
      BY <3>2 DEF TypeOK
    <3> QED BY <3>1, <3>2 DEF Ack
  <2>2. /\ stage' \in [Events -> {"none", "open", "acked"}]
        /\ owner' \in [Events -> Consumers \cup {NoOwner}]
        /\ token' \in [Events -> Tokens \cup {NoToken}]
        /\ left' \in [Events -> Int]
    BY DEF Ack, Settle, TypeOK
  <2> QED BY <1>1, <2>1, <2>2, BoundsAssumption DEF Ack, TypeOK, LongAgo
<1>5. handled' = handled
  BY DEF Ack
<1> QED BY <1>1, <1>2, <1>3, <1>4, <1>5
        DEF HolderSettles, Matches, LeasedIsOpen, DoneIsHandled, TypeOK

LEMMA PublishInv == ASSUME OutboxInv, NEW e \in Events, Publish(e) PROVE OutboxInv'
<1>1. TypeOK'
  BY DEF OutboxInv, Publish, workerVars, TypeOK
<1> QED BY <1>1 DEF OutboxInv, Publish, workerVars, TypeOK, HolderSettles, Matches,
                    LeasedIsOpen, DoneIsHandled

LEMMA OutboxNext == OutboxInv /\ [Next]_vars => OutboxInv'
<1> SUFFICES ASSUME OutboxInv, [Next]_vars PROVE OutboxInv'
  OBVIOUS
<1>1. CASE UNCHANGED vars
  BY <1>1 DEF vars, OutboxInv, TypeOK, HolderSettles, Matches, LeasedIsOpen, DoneIsHandled
<1>2. CASE Tick
  BY <1>2, TickInv
<1>3. ASSUME NEW e \in Events, Publish(e) PROVE OutboxInv'
  BY <1>3, PublishInv
<1>4. ASSUME NEW w \in Workers, ClaimBegin(w) \/ ClaimFail(w) \/ Die(w)
      PROVE  OutboxInv'
  BY <1>4, PollInv
<1>5. ASSUME NEW w \in Workers, NEW heard \in BOOLEAN, ClaimCommit(w, heard)
      PROVE  OutboxInv'
  BY <1>5, ClaimCommitInv
<1>6. ASSUME NEW w \in Workers, NEW e \in Events,
             Handle(w, e) \/ Ack(w, e) \/ AckRefused(w, e)
      PROVE  OutboxInv'
  BY <1>6, HandleInv, AckInv
<1> QED BY <1>1, <1>2, <1>3, <1>4, <1>5, <1>6 DEF Next, ClaimEnd

(* Every reachable outbox satisfies the invariant, whoever claims, acks or dies
   (store.py:408-456). *)
THEOREM OutboxIsInvariant == Spec => []OutboxInv
BY OutboxInit, OutboxNext, PTL DEF Spec

(* TypeOK: the columns keep their types, and owner and token are NULL together. *)
THEOREM OutboxTypeCorrect == Spec => []TypeOK
BY OutboxIsInvariant, PTL DEF OutboxInv

(* HolderSettles: one worker knows a row's token, and it can settle the row as
   long as nobody claims it again, whether or not its lease has run out. *)
THEOREM HoldersSettle == Spec => []HolderSettles
BY OutboxIsInvariant, PTL DEF OutboxInv

-----------------------------------------------------------------------------
(* TakeoverNeedsExpiry: although a claim works with a clock value it read before
   it had the ledger, it takes no row whose lease is still running. *)
THEOREM TakeoversFollowExpiry == Spec => TakeoverNeedsExpiry
<1>1. ASSUME OutboxInv, [Next]_vars, NEW e \in Events,
             owner[e] # NoOwner, owner'[e] \notin {owner[e], NoOwner}
      PROVE  left[e] < 0
  <2> USE <1>1
  <2>1. PICK w \in Workers, heard \in BOOLEAN : ClaimCommit(w, heard)
    BY DEF Next, vars, Tick, Publish, ClaimBegin, ClaimEnd, ClaimFail, Die, Handle,
           Ack, AckRefused, Settle, rowVars, TypeOK, OutboxInv
  <2>2. PICK S \in Oldest(Claimable(w), claim[w].limit) :
          owner'[e] = IF e \in S THEN ConsumerOf[w] ELSE owner[e]
    BY <2>1 DEF ClaimCommit, Lease
  <2>3. e \in Claimable(w) /\ owner[e] # ConsumerOf[w]
    BY <2>2 DEF Oldest
  <2>4. left[e] + claim[w].lag < 0
    BY <2>3 DEF Claimable, Expired
  <2>5. claim[w].lag \in Nat /\ left[e] \in Int
    BY <2>1, BoundsAssumption DEF ClaimCommit, OutboxInv, TypeOK, Requests
  <2> QED BY <2>4, <2>5
<1>2. OutboxInv /\ [Next]_vars =>
        [\A e \in Events :
           owner[e] # NoOwner /\ owner'[e] \notin {owner[e], NoOwner} => left[e] < 0]_vars
  BY <1>1
<1> QED BY <1>2, OutboxIsInvariant, PTL DEF Spec, TakeoverNeedsExpiry

-----------------------------------------------------------------------------
(* A lease that is given never has more left of it than some consumer asked for. *)
LeasesAreBounded ==
  \A e \in Events : owner[e] # NoOwner => \E l \in Leases : left[e] <= l

LEMMA BoundedStep ==
  ASSUME OutboxInv, LeasesAreBounded, [Next]_vars
  PROVE  LeasesAreBounded'
<1>0. TypeOK
  BY DEF OutboxInv
<1>1. ASSUME NEW w \in Workers, NEW heard \in BOOLEAN, ClaimCommit(w, heard)
      PROVE  LeasesAreBounded'
  <2>0. claim[w] \in Requests
    BY <1>0, <1>1 DEF ClaimCommit, TypeOK
  <2>1. claim[w].lease \in Leases /\ claim[w].lag \in Nat /\ claim[w].lease \in Nat
    <3>1. claim[w].lease \in Leases /\ claim[w].lag \in 0 .. MaxLag
      BY <2>0 DEF Requests
    <3>2. claim[w].lease \in Nat
      BY <3>1, BoundsAssumption
    <3>3. claim[w].lag \in Nat
      BY <3>1, BoundsAssumption
    <3> QED BY <3>1, <3>2, <3>3
  <2>2. PICK S \in Oldest(Claimable(w), claim[w].limit) : \A e \in Events :
          /\ owner'[e] = IF e \in S THEN ConsumerOf[w] ELSE owner[e]
          /\ left'[e] = IF e \in S THEN claim[w].lease - claim[w].lag ELSE left[e]
    BY <1>1 DEF ClaimCommit, Lease
  <2>3. claim[w].lease - claim[w].lag <= claim[w].lease
    BY <2>1
  <2> QED
    BY <2>1, <2>2, <2>3 DEF LeasesAreBounded
<1>2. CASE Tick
  <2>1. ASSUME NEW e \in Events, owner[e] # NoOwner
        PROVE  \E l \in Leases : left'[e] <= l
    <3>1. PICK l \in Leases : left[e] <= l
      BY <2>1 DEF LeasesAreBounded
    <3>2. left'[e] \in {left[e], left[e] - 1} /\ left[e] \in Int /\ l \in Int
      BY <1>0, <1>2, <3>1, BoundsAssumption DEF Tick, TypeOK
    <3> QED BY <3>1, <3>2
  <2> QED BY <1>2, <2>1 DEF Tick, LeasesAreBounded
<1>3. ASSUME NEW w \in Workers, NEW e \in Events, Ack(w, e)
      PROVE  LeasesAreBounded'
  BY <1>0, <1>3 DEF Ack, Settle, LeasesAreBounded, TypeOK
<1>4. ASSUME UNCHANGED <<owner, left>>
      PROVE  LeasesAreBounded'
  BY <1>4 DEF LeasesAreBounded
<1>5. CASE \/ \E e \in Events : Publish(e)
           \/ \E w \in Workers : \/ ClaimBegin(w) \/ ClaimFail(w) \/ Die(w)
                                 \/ \E e \in Events : Handle(w, e) \/ AckRefused(w, e)
           \/ UNCHANGED vars
  BY <1>4, <1>5 DEF Publish, ClaimBegin, ClaimFail, Die, Handle, AckRefused, rowVars, vars
<1> QED BY <1>1, <1>2, <1>3, <1>5 DEF Next, ClaimEnd

(* A claim that waited for the ledger gives a shorter lease, never a longer one, so
   what a dead consumer leaves behind runs out within the lease it asked for
   (store.py:411-416).  It is what Drains needs of time. *)
THEOREM LeasesRunOut == Spec => []LeasesAreBounded
<1>1. Init => LeasesAreBounded
  BY DEF Init, LeasesAreBounded
<1> QED BY <1>1, BoundedStep, OutboxIsInvariant, PTL DEF Spec

-----------------------------------------------------------------------------
(* A step that concerns one event moves its progress only. *)
LEMMA ProgressOfOneEvent ==
  ASSUME NEW e \in Events, NEW to,
         \A d \in Events \ {e} : stage'[d] = stage[d] /\ (d \in handled' <=> d \in handled),
         DeliveryProgress'[e] = to
  PROVE  DeliveryProgress' = [DeliveryProgress EXCEPT ![e] = to]
<1>1. ASSUME NEW d \in Events, d # e
      PROVE  DeliveryProgress'[d] = DeliveryProgress[d]
  <2>1. stage'[d] = stage[d] /\ (d \in handled' <=> d \in handled)
    BY <1>1
  <2>2. CASE d \in handled
    BY <2>1, <2>2 DEF DeliveryProgress
  <2>3. CASE d \notin handled
    BY <2>1, <2>3 DEF DeliveryProgress
  <2> QED BY <2>2, <2>3
<1>2. /\ DeliveryProgress = [d \in Events |-> DeliveryProgress[d]]
      /\ DeliveryProgress' = [d \in Events |-> DeliveryProgress'[d]]
  BY DEF DeliveryProgress
<1> HIDE DEF DeliveryProgress
<1> QED BY <1>1, <1>2

LEMMA DeliveryInit == Init => D!Init
BY DEF Init, D!Init, DeliveryProgress

LEMMA SameProgress ==
  ASSUME stage' = stage, handled' = handled
  PROVE  DeliveryProgress' = DeliveryProgress
BY DEF DeliveryProgress

LEMMA DeliveryNext ==
  ASSUME OutboxInv, [Next]_vars
  PROVE  [D!Next]_DeliveryProgress
<1> USE DEF OutboxInv
<1>1. CASE UNCHANGED <<stage, handled>>
  BY <1>1, SameProgress
<1>2. ASSUME NEW e \in Events, Publish(e) PROVE [D!Next]_DeliveryProgress
  <2>1. D!Publish(e)
    BY <1>2 DEF Publish, workerVars, D!Publish, D!Advance, DeliveryProgress, LeasedIsOpen, TypeOK
  <2> QED BY <2>1 DEF D!Next
<1>3. ASSUME NEW w \in Workers, NEW e \in Events, Handle(w, e)
      PROVE  [D!Next]_DeliveryProgress
  <2>1. stage[e] \in {"open", "acked"} /\ stage' = stage /\ handled' = handled \cup {e}
    BY <1>3 DEF Handle, LeasedIsOpen, TypeOK, rowVars
  <2>2. CASE e \in handled \/ stage[e] = "acked"
    <3>1. DeliveryProgress' = DeliveryProgress
      BY <2>1, <2>2 DEF DeliveryProgress
    <3> QED BY <3>1
  <2>3. CASE e \notin handled /\ stage[e] = "open"
    <3>1. D!Handle(e)
      <4>1. DeliveryProgress[e] = "open"
        BY <2>3 DEF DeliveryProgress
      <4>2. DeliveryProgress'[e] = "handled"
        BY <2>1, <2>3 DEF DeliveryProgress
      <4>3. DeliveryProgress' = [DeliveryProgress EXCEPT ![e] = "handled"]
        BY <2>1, <2>3, <4>2, ProgressOfOneEvent
      <4> QED BY <4>1, <4>3 DEF D!Handle, D!Advance
    <3> QED BY <3>1 DEF D!Next
  <2> QED BY <2>1, <2>2, <2>3
<1>4. ASSUME NEW w \in Workers, NEW e \in Events, Ack(w, e)
      PROVE  [D!Next]_DeliveryProgress
  <2>1. /\ stage[e] = "open" /\ e \in handled /\ handled' = handled
        /\ stage' = [d \in Events |-> IF d = e THEN "acked" ELSE stage[d]]
    BY <1>4 DEF Ack, Matches, Settle, DoneIsHandled, OutboxInv, TypeOK
  <2>2. D!Settle(e)
    <3>1. DeliveryProgress[e] = "handled"
      BY <2>1 DEF DeliveryProgress
    <3>2. DeliveryProgress'[e] = "settled"
      BY <2>1 DEF DeliveryProgress
    <3>3. DeliveryProgress' = [DeliveryProgress EXCEPT ![e] = "settled"]
      BY <2>1, <3>2, ProgressOfOneEvent
    <3> QED BY <3>1, <3>3 DEF D!Settle, D!Advance
  <2> QED BY <2>2 DEF D!Next
<1>5. ASSUME NEW w \in Workers, NEW heard \in BOOLEAN, ClaimCommit(w, heard)
      PROVE  UNCHANGED <<stage, handled>>
  BY <1>5 DEF ClaimCommit, Lease
<1>6. ASSUME NEW w \in Workers,
             ClaimBegin(w) \/ ClaimFail(w) \/ Die(w) \/ \E e \in Events : AckRefused(w, e)
      PROVE  UNCHANGED <<stage, handled>>
  BY <1>6 DEF ClaimBegin, ClaimFail, Die, AckRefused, rowVars
<1>7. Tick \/ UNCHANGED vars => UNCHANGED <<stage, handled>>
  BY DEF Tick, vars
<1> QED BY <1>1, <1>2, <1>3, <1>4, <1>5, <1>6, <1>7 DEF Next, ClaimEnd

(* DeliverySpec: the outbox implements Delivery.  Claims, deaths, lost answers
   and the clock are stutters; the first to handle an event and the first ack
   that matches are the steps that count. *)
THEOREM OutboxImplementsDelivery == Spec => DeliverySpec
BY DeliveryInit, DeliveryNext, OutboxIsInvariant, PTL DEF Spec, DeliverySpec, D!Spec
=============================================================================
