------------------------ MODULE HelperInstallProofs -------------------------
(***************************************************************************)
(* Theorems about HelperInstall.tla, for any sets of consoles' versions and   *)
(* threads.  HelperInv is the inductive invariant.                            *)
(***************************************************************************)
EXTENDS HelperInstall, TLAPS

(* The version was there, and is there still unless something took it away. *)
Arrived(v) == helper = v \/ lost[v]

(* An installer that is past the comparison of digests has the whole helper. *)
OnlyWholeGoesOn ==
  \A t \in Threads : inst[t].at \in {"current", "replace"} => inst[t].whole

(* "ok" is said of a helper that was there. *)
OkWasThere == \A t \in Threads : inst[t].at = "ok" => Arrived(VersionOf[t])

(* And so is what the cache counts as installed. *)
InstalledWasThere == \A v \in installed : Arrived(v)

(* A thread calls only once its version is in the cache of its console. *)
CallersAreInstalled == \A t \in Threads : pc[t] = "calling" => VersionOf[t] \in installed

HelperInv ==
  /\ TypeOK
  /\ HelperIsWhole
  /\ OnlyWholeGoesOn
  /\ OkWasThere
  /\ InstalledWasThere
  /\ CallersAreInstalled

-----------------------------------------------------------------------------
(* What an installer that moves on leaves. *)
LEMMA GotoMoves ==
  ASSUME TypeOK, NEW t \in Threads, NEW at \in Ats, Goto(t, at)
  PROVE  /\ inst' \in [Threads -> Installers]
         /\ inst'[t].at = at /\ inst'[t].whole = inst[t].whole
         /\ \A u \in Threads \ {t} : inst'[u] = inst[u]
<1>1. inst[t] \in Installers /\ inst \in [Threads -> Installers]
  BY DEF TypeOK
<1>2. ASSUME NEW i \in Installers
      PROVE  /\ [i EXCEPT !.at = at] \in Installers
             /\ [i EXCEPT !.at = at].at = at
             /\ [i EXCEPT !.at = at].whole = i.whole
  BY DEF Installers, Ats
<1>3. inst' = [inst EXCEPT ![t] = [inst[t] EXCEPT !.at = at]]
  BY DEF Goto
<1>4. inst'[t] = [inst[t] EXCEPT !.at = at] /\ \A u \in Threads \ {t} : inst'[u] = inst[u]
  BY <1>1, <1>3
<1>5. inst' \in [Threads -> Installers]
  BY <1>1, <1>2, <1>3
<1> QED
  BY <1>1, <1>2, <1>4, <1>5

(* A file that is put there takes a version away only by the history of it. *)
LEMMA PutKeepsArrivals ==
  ASSUME TypeOK, NEW file, Put(file)
  PROVE  /\ lost' \in [Versions -> BOOLEAN]
         /\ \A v \in Versions : Arrived(v) => Arrived(v)'
         /\ file \in Versions => Arrived(file)'
<1>1. /\ helper' = file
      /\ lost' = [v \in Versions |-> v # file /\ (lost[v] \/ v = helper)]
  BY DEF Put
<1>2. lost' \in [Versions -> BOOLEAN]
  BY <1>1
<1>3. ASSUME NEW v \in Versions, Arrived(v) PROVE Arrived(v)'
  BY <1>1, <1>3 DEF Arrived
<1> QED
  BY <1>1, <1>2, <1>3 DEF Arrived

LEMMA HelperInit == Init => HelperInv
<1> SUFFICES ASSUME Init PROVE HelperInv
  OBVIOUS
<1>1. TypeOK
  BY DEF Init, TypeOK, Installers, Ats
<1>2. HelperIsWhole
  BY FileAssumption DEF Init, HelperIsWhole
<1>3. OnlyWholeGoesOn /\ OkWasThere
  BY DEF Init, OnlyWholeGoesOn, OkWasThere
<1>4. InstalledWasThere /\ CallersAreInstalled
  BY DEF Init, InstalledWasThere, CallersAreInstalled
<1> QED
  BY <1>1, <1>2, <1>3, <1>4 DEF HelperInv

-----------------------------------------------------------------------------
(* One lemma per action; first those of the console. *)
LEMMA EnsureKeeps ==
  ASSUME HelperInv, NEW t \in Threads, Ensure(t)
  PROVE  HelperInv'
<1>0. TypeOK /\ UNCHANGED <<helper, installed, lost>>
  BY DEF HelperInv, Ensure
<1>1. CASE VersionOf[t] \in installed /\ pc' = [pc EXCEPT ![t] = "calling"] /\ inst' = inst
  <2>1. TypeOK'
    BY <1>0, <1>1 DEF TypeOK
  <2>2. CallersAreInstalled'
    BY <1>0, <1>1 DEF HelperInv, CallersAreInstalled, TypeOK
  <2> QED
    BY <1>0, <1>1, <2>1, <2>2
       DEF HelperInv, HelperIsWhole, OnlyWholeGoesOn, OkWasThere, InstalledWasThere, Arrived
<1>2. ASSUME NEW whole \in BOOLEAN, pc' = [pc EXCEPT ![t] = "installing"],
             inst' = [inst EXCEPT ![t] = [at |-> "digest", whole |-> whole]]
      PROVE  HelperInv'
  <2>1. [at |-> "digest", whole |-> whole] \in Installers
    BY DEF Installers, Ats
  <2>2. TypeOK'
    BY <1>0, <1>2, <2>1 DEF TypeOK
  <2>3. inst'[t].at = "digest" /\ \A u \in Threads \ {t} : inst'[u] = inst[u]
    BY <1>0, <1>2 DEF TypeOK
  <2>4. OnlyWholeGoesOn' /\ OkWasThere'
    BY <1>0, <2>3 DEF HelperInv, OnlyWholeGoesOn, OkWasThere, Arrived
  <2>5. CallersAreInstalled'
    BY <1>0, <1>2 DEF HelperInv, CallersAreInstalled, TypeOK
  <2> QED
    BY <1>0, <2>2, <2>4, <2>5 DEF HelperInv, HelperIsWhole, InstalledWasThere, Arrived
<1> QED
  BY <1>1, <1>2 DEF Ensure

LEMMA InstalledKeeps ==
  ASSUME HelperInv, NEW t \in Threads, Installed(t)
  PROVE  HelperInv'
<1>0. /\ TypeOK /\ UNCHANGED <<helper, lost>> /\ inst[t].at = "ok"
      /\ installed' = installed \cup {VersionOf[t]} /\ pc' = [pc EXCEPT ![t] = "calling"]
  BY DEF HelperInv, Installed, Adds
<1>1. /\ inst' \in [Threads -> Installers] /\ inst'[t].at = "none"
      /\ \A u \in Threads \ {t} : inst'[u] = inst[u]
  BY <1>0, GotoMoves DEF Installed, Ats
<1>2. VersionOf[t] \in Versions
  BY VersionAssumption
<1>3. TypeOK'
  BY <1>0, <1>1, <1>2 DEF TypeOK
<1>4. OnlyWholeGoesOn' /\ OkWasThere'
  BY <1>0, <1>1 DEF HelperInv, OnlyWholeGoesOn, OkWasThere, Arrived
<1>5. InstalledWasThere'
  BY <1>0 DEF HelperInv, OkWasThere, InstalledWasThere, Arrived
<1>6. CallersAreInstalled'
  BY <1>0 DEF HelperInv, CallersAreInstalled, TypeOK
<1> QED
  BY <1>0, <1>3, <1>4, <1>5, <1>6 DEF HelperInv, HelperIsWhole

LEMMA CallKeeps ==
  ASSUME HelperInv, NEW t \in Threads, Call(t) \/ GiveUp(t)
  PROVE  HelperInv'
<1>0. /\ TypeOK /\ UNCHANGED <<helper, installed, inst, lost>>
      /\ pc' = [pc EXCEPT ![t] = "idle"]
  BY DEF HelperInv, Call, GiveUp
<1>1. TypeOK'
  BY <1>0 DEF TypeOK
<1>2. CallersAreInstalled'
  BY <1>0 DEF HelperInv, CallersAreInstalled, TypeOK
<1> QED
  BY <1>0, <1>1, <1>2
     DEF HelperInv, HelperIsWhole, OnlyWholeGoesOn, OkWasThere, InstalledWasThere, Arrived

LEMMA RestartKeeps ==
  ASSUME HelperInv, NEW v \in Versions, Restart(v)
  PROVE  HelperInv'
<1>0. /\ TypeOK /\ UNCHANGED <<helper, inst, lost>> /\ installed' = installed \ {v}
      /\ pc' = [t \in Threads |-> IF VersionOf[t] = v THEN "idle" ELSE pc[t]]
  BY DEF HelperInv, Restart
<1>1. TypeOK'
  BY <1>0 DEF TypeOK
<1>2. CallersAreInstalled'
  BY <1>0 DEF HelperInv, CallersAreInstalled
<1> QED
  BY <1>0, <1>1, <1>2
     DEF HelperInv, HelperIsWhole, OnlyWholeGoesOn, OkWasThere, InstalledWasThere, Arrived

-----------------------------------------------------------------------------
(* Those of the installer. *)
LEMMA InstDigestKeeps ==
  ASSUME HelperInv, NEW t \in Threads, InstDigest(t)
  PROVE  HelperInv'
<1> DEFINE at == IF inst[t].whole THEN "current" ELSE "failed"
<1>0. TypeOK /\ UNCHANGED <<helper, installed, pc, lost>> /\ Goto(t, at) /\ at \in Ats
  BY DEF HelperInv, InstDigest, Accepts, Ats
<1>1. /\ inst' \in [Threads -> Installers]
      /\ inst'[t].at = at /\ inst'[t].whole = inst[t].whole
      /\ \A u \in Threads \ {t} : inst'[u] = inst[u]
  BY <1>0, GotoMoves
<1>2. TypeOK'
  BY <1>0, <1>1 DEF TypeOK
<1>3. OnlyWholeGoesOn'
  BY <1>1 DEF HelperInv, OnlyWholeGoesOn
<1>4. OkWasThere'
  BY <1>0, <1>1 DEF HelperInv, OkWasThere, Arrived
<1> QED
  BY <1>0, <1>2, <1>3, <1>4
     DEF HelperInv, HelperIsWhole, InstalledWasThere, CallersAreInstalled, Arrived

LEMMA InstCurrentKeeps ==
  ASSUME HelperInv, NEW t \in Threads, InstCurrent(t)
  PROVE  HelperInv'
<1> DEFINE at == IF helper = VersionOf[t] THEN "ok" ELSE "replace"
<1>0. /\ TypeOK /\ UNCHANGED <<helper, installed, pc, lost>> /\ Goto(t, at) /\ at \in Ats
      /\ inst[t].at = "current"
  BY DEF HelperInv, InstCurrent, IsCurrent, Ats
<1>1. /\ inst' \in [Threads -> Installers]
      /\ inst'[t].at = at /\ inst'[t].whole = inst[t].whole
      /\ \A u \in Threads \ {t} : inst'[u] = inst[u]
  BY <1>0, GotoMoves
<1>2. TypeOK'
  BY <1>0, <1>1 DEF TypeOK
<1>3. OnlyWholeGoesOn'
  BY <1>0, <1>1 DEF HelperInv, OnlyWholeGoesOn
<1>4. OkWasThere'
  BY <1>0, <1>1 DEF HelperInv, OkWasThere, Arrived
<1> QED
  BY <1>0, <1>2, <1>3, <1>4
     DEF HelperInv, HelperIsWhole, InstalledWasThere, CallersAreInstalled, Arrived

LEMMA InstReplaceKeeps ==
  ASSUME HelperInv, NEW t \in Threads, InstReplace(t)
  PROVE  HelperInv'
<1>0. /\ TypeOK /\ UNCHANGED <<installed, pc>> /\ Goto(t, "ok") /\ inst[t].at = "replace"
      /\ VersionOf[t] \in Versions
  BY VersionAssumption DEF HelperInv, InstReplace
<1>1. Put(VersionOf[t])
  BY <1>0 DEF HelperInv, OnlyWholeGoesOn, InstReplace
<1>2. /\ inst' \in [Threads -> Installers] /\ inst'[t].at = "ok"
      /\ \A u \in Threads \ {t} : inst'[u] = inst[u]
  BY <1>0, GotoMoves DEF Ats
<1>3. /\ lost' \in [Versions -> BOOLEAN] /\ Arrived(VersionOf[t])'
      /\ \A v \in Versions : Arrived(v) => Arrived(v)'
  BY <1>0, <1>1, PutKeepsArrivals
<1>4. helper' = VersionOf[t]
  BY <1>1 DEF Put
<1>5. TypeOK' /\ HelperIsWhole'
  BY <1>0, <1>2, <1>3, <1>4, FileAssumption DEF TypeOK, HelperIsWhole
<1>6. OnlyWholeGoesOn'
  BY <1>2 DEF HelperInv, OnlyWholeGoesOn
<1>7. OkWasThere'
  BY <1>2, <1>3, VersionAssumption DEF HelperInv, OkWasThere
<1>8. InstalledWasThere'
  BY <1>0, <1>3 DEF HelperInv, InstalledWasThere, TypeOK
<1> QED
  BY <1>0, <1>5, <1>6, <1>7, <1>8 DEF HelperInv, CallersAreInstalled

LEMMA InstEndKeeps ==
  ASSUME HelperInv, NEW t \in Threads, InstEnd(t)
  PROVE  HelperInv'
<1> DEFINE at == IF pc[t] = "installing" THEN "failed" ELSE "none"
<1>0. TypeOK /\ UNCHANGED <<helper, installed, pc, lost>> /\ Goto(t, at) /\ at \in Ats
  BY DEF HelperInv, InstEnd, Ats
<1>1. /\ inst' \in [Threads -> Installers] /\ inst'[t].at = at
      /\ \A u \in Threads \ {t} : inst'[u] = inst[u]
  BY <1>0, GotoMoves
<1>2. TypeOK'
  BY <1>0, <1>1 DEF TypeOK
<1>3. OnlyWholeGoesOn' /\ OkWasThere'
  BY <1>0, <1>1 DEF HelperInv, OnlyWholeGoesOn, OkWasThere, Arrived
<1> QED
  BY <1>0, <1>2, <1>3
     DEF HelperInv, HelperIsWhole, InstalledWasThere, CallersAreInstalled, Arrived

LEMMA WipeKeeps ==
  ASSUME HelperInv, Wipe
  PROVE  HelperInv'
<1>0. TypeOK /\ UNCHANGED <<installed, pc, inst>> /\ Put(NoHelper)
  BY DEF HelperInv, Wipe
<1>1. /\ lost' \in [Versions -> BOOLEAN]
      /\ \A v \in Versions : Arrived(v) => Arrived(v)'
  BY <1>0, PutKeepsArrivals
<1>2. helper' = NoHelper
  BY <1>0 DEF Put
<1>3. TypeOK' /\ HelperIsWhole'
  BY <1>0, <1>1, <1>2, FileAssumption DEF TypeOK, HelperIsWhole
<1>4. OkWasThere'
  BY <1>0, <1>1, VersionAssumption DEF HelperInv, OkWasThere
<1>5. InstalledWasThere'
  BY <1>0, <1>1 DEF HelperInv, InstalledWasThere, TypeOK
<1> QED
  BY <1>0, <1>3, <1>4, <1>5 DEF HelperInv, OnlyWholeGoesOn, CallersAreInstalled

LEMMA HelperKeeps == HelperInv /\ [Next]_vars => HelperInv'
<1> SUFFICES ASSUME HelperInv, [Next]_vars
             PROVE  HelperInv'
  OBVIOUS
<1>1. CASE UNCHANGED vars
  BY <1>1 DEF vars, HelperInv, TypeOK, HelperIsWhole, OnlyWholeGoesOn, OkWasThere,
              InstalledWasThere, CallersAreInstalled, Arrived
<1> QED
  BY <1>1, EnsureKeeps, InstalledKeeps, CallKeeps, RestartKeeps, InstDigestKeeps,
     InstCurrentKeeps, InstReplaceKeeps, InstEndKeeps, WipeKeeps DEF Next

-----------------------------------------------------------------------------
(* The installer and the cache agree on what was put on the host. *)
THEOREM HelperIsInvariant == Spec => []HelperInv
BY HelperInit, HelperKeeps, PTL DEF Spec

(* Every variable keeps its type. *)
THEOREM HelperTypeCorrect == Spec => []TypeOK
<1>1. HelperInv => TypeOK
  BY DEF HelperInv
<1> QED
  BY <1>1, HelperIsInvariant, PTL

(* However uploads break off and installers overlap, no part of a helper is ever at
   the path that is run: the comparison of digests comes before the file is put
   there, and the file is put there by a rename. *)
THEOREM HelperStaysWhole == Spec => []HelperIsWhole
<1>1. HelperInv => HelperIsWhole
  BY DEF HelperInv
<1> QED
  BY <1>1, HelperIsInvariant, PTL

(* A call runs the helper of its own console unless a wipe, or the installer of
   another version, took that helper away after it had been there. *)
THEOREM CallsRunTheirOwn == Spec => []RunsItsOwn
<1>1. HelperInv => RunsItsOwn
  BY DEF HelperInv, InstalledWasThere, CallersAreInstalled, RunsItsOwn, Arrived
<1> QED
  BY <1>1, HelperIsInvariant, PTL
=============================================================================
