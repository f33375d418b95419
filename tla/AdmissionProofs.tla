--------------------------- MODULE AdmissionProofs --------------------------
(***************************************************************************)
(* Theorems about Admission.tla, for any sets of calls and GPUs, any          *)
(* thresholds and any load.  AdmissionInv is the inductive invariant: what a  *)
(* call was told is what was true at some moment since it began.              *)
(***************************************************************************)
EXTENDS Admission, TLAPS

(* All that is locked was locked since the call began, and so was what it saw. *)
LocksAreKnown(r) ==
  /\ Locked \subseteq was[r].locked
  /\ call[r].locked \subseteq was[r].locked
  /\ call[r].pc \in {"idle", "resources"} => call[r].locked = {}

(* The rows of the answer are those that were available when it was formed. *)
RowsAreRead(r) ==
  call[r].pc = "verify" => call[r].rows = {g \in Host : Available(was[r].read[g])}

(* A call that is past its verdict found its GPUs idle. *)
PassedIsIdle(r) ==
  call[r].pc \in {"create", "granted", "over"} /\ profile.maxUtil # 0 => FoundIdle(r)

(* A call that is refused has a cause to show. *)
RefusedHasCause(r) ==
  call[r].pc = "refused" =>
    was[r].failed \/ call[r].want \cap was[r].locked # {} \/ ~FoundIdle(r)

ToldTheTruth(r) ==
  /\ LocksAreKnown(r)
  /\ RowsAreRead(r)
  /\ PassedIsIdle(r)
  /\ RefusedHasCause(r)

AdmissionInv ==
  /\ TypeOK
  /\ \A r \in Runs : ToldTheTruth(r)

-----------------------------------------------------------------------------
(* A reading within the profile's thresholds is available: the helper is never
   stricter than the profile (remote_helper.py:168). *)
LEMMA FitsIsAvailable ==
  ASSUME TypeOK, NEW x \in Readings, Fits(x)
  PROVE  Available(x)
<1>1. profile.maxUtil \in 0 .. Full /\ profile.minFree \in 0 .. MaxFree
  BY DEF TypeOK, Profiles
<1>2. x.util \in 0 .. Full /\ x.free \in 0 .. MaxFree
  BY DEF Readings
<1> QED
  BY <1>1, <1>2, BoundAssumption DEF Fits, Available, MaximumUtil

(* And no looser, unless the profile says 0. *)
LEMMA AvailableFits ==
  ASSUME TypeOK, NEW x \in Readings, Available(x), profile.maxUtil # 0
  PROVE  Fits(x)
BY DEF TypeOK, Profiles, Readings, Fits, Available, MaximumUtil

(* A verdict is a statement about the probe and the looks it is made from. *)
LEMMA VerdictIsCause ==
  ASSUME AdmissionInv, NEW r \in Runs, call[r].pc = "verify"
  PROVE  /\ Unavailable(r) = {} /\ profile.maxUtil # 0 => FoundIdle(r)
         /\ Unavailable(r) # {} => call[r].want \cap was[r].locked # {} \/ ~FoundIdle(r)
<1>0. TypeOK /\ LocksAreKnown(r)
  BY DEF AdmissionInv, ToldTheTruth
<1>1. call[r].rows = {g \in Host : Available(was[r].read[g])}
  BY DEF AdmissionInv, ToldTheTruth, RowsAreRead
<1>2. \A g \in Host : was[r].read[g] \in Readings
  BY <1>0 DEF TypeOK, Histories
<1>3. ASSUME Unavailable(r) = {}, profile.maxUtil # 0
      PROVE  FoundIdle(r)
  <2>1. ASSUME NEW g \in call[r].want
        PROVE  g \in Host /\ Available(was[r].read[g])
    BY <1>1, <1>3 DEF Unavailable
  <2> QED
    BY <1>0, <1>2, <1>3, <2>1, AvailableFits DEF FoundIdle
<1>4. ASSUME Unavailable(r) # {}, FoundIdle(r)
      PROVE  call[r].want \cap was[r].locked # {}
  <2>1. PICK g \in call[r].want : g \notin call[r].rows \/ g \in call[r].locked
    BY <1>4 DEF Unavailable
  <2>2. g \in call[r].rows
    BY <1>0, <1>1, <1>2, <1>4, FitsIsAvailable DEF FoundIdle
  <2> QED
    BY <1>0, <2>1, <2>2 DEF LocksAreKnown
<1> QED
  BY <1>3, <1>4

(* A call at which a step does not look: what it was told stays true as long as
   what is locked is put down for it. *)
LEMMA OthersStayTold ==
  ASSUME AdmissionInv, NEW s \in Runs, profile' = profile, call'[s] = call[s],
         was'[s].read = was[s].read, was'[s].failed = was[s].failed,
         was[s].locked \subseteq was'[s].locked, Locked' \subseteq was'[s].locked
  PROVE  ToldTheTruth(s)'
<1>1. ToldTheTruth(s)
  BY DEF AdmissionInv
<1>2. FoundIdle(s)' <=> FoundIdle(s)
  BY DEF FoundIdle, Fits
<1>3. LocksAreKnown(s)'
  BY <1>1 DEF ToldTheTruth, LocksAreKnown
<1>4. RowsAreRead(s)'
  BY <1>1 DEF ToldTheTruth, RowsAreRead, Available, MaximumUtil
<1>5. PassedIsIdle(s)'
  BY <1>1, <1>2 DEF ToldTheTruth, PassedIsIdle
<1>6. RefusedHasCause(s)'
  BY <1>1, <1>2 DEF ToldTheTruth, RefusedHasCause
<1> QED
  BY <1>3, <1>4, <1>5, <1>6 DEF ToldTheTruth

(* What a step that moves a call to pc leaves of it. *)
LEMMA PcMoves ==
  ASSUME TypeOK, NEW r \in Runs, NEW pc \in Pcs, call' = [call EXCEPT ![r].pc = pc]
  PROVE  /\ call' \in [Runs -> Calls]
         /\ call'[r] = [pc |-> pc, want |-> call[r].want, locked |-> call[r].locked,
                        rows |-> call[r].rows]
         /\ \A s \in Runs \ {r} : call'[s] = call[s]
<1>1. call[r] \in Calls /\ call \in [Runs -> Calls]
  BY DEF TypeOK
<1>2. [call[r] EXCEPT !.pc = pc] = [pc |-> pc, want |-> call[r].want,
         locked |-> call[r].locked, rows |-> call[r].rows]
  BY <1>1 DEF Calls
<1>3. [call[r] EXCEPT !.pc = pc] \in Calls
  BY <1>1, <1>2 DEF Calls
<1>4. call' = [call EXCEPT ![r] = [call[r] EXCEPT !.pc = pc]]
  OBVIOUS
<1> QED
  BY <1>1, <1>2, <1>3, <1>4

(* What the three actions that write two fields of a call make of it. *)
LEMMA RunBeginWrites ==
  ASSUME TypeOK, NEW r \in Runs, NEW want \in SUBSET Gpus, RunBegin(r, want)
  PROVE  call' = [call EXCEPT ![r] = [pc |-> IF want \cap Locked # {} THEN "refused"
                                            ELSE IF want = {} THEN "create" ELSE "resources",
                                     want |-> want, locked |-> call[r].locked,
                                     rows |-> call[r].rows]]
<1> DEFINE pc == IF want \cap Locked # {} THEN "refused"
                 ELSE IF want = {} THEN "create" ELSE "resources"
           c == [pc |-> pc, want |-> want, locked |-> call[r].locked, rows |-> call[r].rows]
           d == [pc |-> call[r].pc, want |-> want,
                 locked |-> call[r].locked, rows |-> call[r].rows]
           f == [call EXCEPT ![r].want = want]
<1>1. call' = [f EXCEPT ![r].pc = pc]
  BY DEF RunBegin
<1>2. call[r] \in Calls /\ call \in [Runs -> Calls]
  BY DEF TypeOK
<1>3. [call[r] EXCEPT !.want = want] = d
  BY <1>2 DEF Calls
<1>4. f = [call EXCEPT ![r] = [call[r] EXCEPT !.want = want]]
  OBVIOUS
<1>5. f = [call EXCEPT ![r] = d]
  BY <1>3, <1>4
<1> HIDE DEF f
<1>6. f[r] = d
  BY <1>2, <1>5
<1>7. [f[r] EXCEPT !.pc = pc] = c
  BY <1>6
<1>8. [f EXCEPT ![r].pc = pc] = [f EXCEPT ![r] = [f[r] EXCEPT !.pc = pc]]
  OBVIOUS
<1>9. [f EXCEPT ![r] = c] = [call EXCEPT ![r] = c]
  BY <1>2, <1>5
<1> QED
  BY <1>1, <1>7, <1>8, <1>9

LEMMA ResourcesWrites ==
  ASSUME TypeOK, NEW r \in Runs, Resources(r)
  PROVE  call' = [call EXCEPT ![r] = [pc |-> "probe", want |-> call[r].want, locked |-> Locked,
                                     rows |-> call[r].rows]]
<1> DEFINE c == [pc |-> "probe", want |-> call[r].want, locked |-> Locked, rows |-> call[r].rows]
           d == [pc |-> "probe", want |-> call[r].want,
                 locked |-> call[r].locked, rows |-> call[r].rows]
           f == [call EXCEPT ![r].pc = "probe"]
<1>1. call' = [f EXCEPT ![r].locked = Locked]
  BY DEF Resources
<1>2. call[r] \in Calls /\ call \in [Runs -> Calls]
  BY DEF TypeOK
<1>3. [call[r] EXCEPT !.pc = "probe"] = d
  BY <1>2 DEF Calls
<1>4. f = [call EXCEPT ![r] = [call[r] EXCEPT !.pc = "probe"]]
  OBVIOUS
<1>5. f = [call EXCEPT ![r] = d]
  BY <1>3, <1>4
<1> HIDE DEF f
<1>6. f[r] = d
  BY <1>2, <1>5
<1>7. [f[r] EXCEPT !.locked = Locked] = c
  BY <1>6
<1>8. [f EXCEPT ![r].locked = Locked] = [f EXCEPT ![r] = [f[r] EXCEPT !.locked = Locked]]
  OBVIOUS
<1>9. [f EXCEPT ![r] = c] = [call EXCEPT ![r] = c]
  BY <1>2, <1>5
<1> QED
  BY <1>1, <1>7, <1>8, <1>9

LEMMA ProbeWrites ==
  ASSUME TypeOK, NEW r \in Runs, Probe(r)
  PROVE  call' = [call EXCEPT ![r] =
                    [pc |-> "verify", want |-> call[r].want, locked |-> call[r].locked,
                     rows |-> {g \in Host : Available(gpu[g])}]]
<1> DEFINE rows == {g \in Host : Available(gpu[g])}
           c == [pc |-> "verify", want |-> call[r].want, locked |-> call[r].locked, rows |-> rows]
           d == [pc |-> "verify", want |-> call[r].want,
                 locked |-> call[r].locked, rows |-> call[r].rows]
           f == [call EXCEPT ![r].pc = "verify"]
<1>1. call' = [f EXCEPT ![r].rows = rows]
  BY DEF Probe
<1>2. call[r] \in Calls /\ call \in [Runs -> Calls]
  BY DEF TypeOK
<1>3. [call[r] EXCEPT !.pc = "verify"] = d
  BY <1>2 DEF Calls
<1>4. f = [call EXCEPT ![r] = [call[r] EXCEPT !.pc = "verify"]]
  OBVIOUS
<1>5. f = [call EXCEPT ![r] = d]
  BY <1>3, <1>4
<1> HIDE DEF f
<1>6. f[r] = d
  BY <1>2, <1>5
<1>7. [f[r] EXCEPT !.rows = rows] = c
  BY <1>6
<1>8. [f EXCEPT ![r].rows = rows] = [f EXCEPT ![r] = [f[r] EXCEPT !.rows = rows]]
  OBVIOUS
<1>9. [f EXCEPT ![r] = c] = [call EXCEPT ![r] = c]
  BY <1>2, <1>5
<1> QED
  BY <1>1, <1>7, <1>8, <1>9

-----------------------------------------------------------------------------
LEMMA AdmissionInit == Init => AdmissionInv
<1> SUFFICES ASSUME Init PROVE AdmissionInv
  OBVIOUS
<1>1. TypeOK
  BY DEF Init, TypeOK, Pcs, Calls, Histories
<1>2. ASSUME NEW r \in Runs PROVE ToldTheTruth(r)
  BY DEF Init, ToldTheTruth, LocksAreKnown, Locked, RowsAreRead, PassedIsIdle, RefusedHasCause
<1> QED
  BY <1>1, <1>2 DEF AdmissionInv

-----------------------------------------------------------------------------
(* One lemma per action. *)
LEMMA RunBeginKeeps ==
  ASSUME AdmissionInv, NEW r \in Runs, NEW want \in SUBSET Gpus, RunBegin(r, want)
  PROVE  AdmissionInv'
<1> DEFINE pc == IF want \cap Locked # {} THEN "refused"
                 ELSE IF want = {} THEN "create" ELSE "resources"
           c == [pc |-> pc, want |-> want, locked |-> call[r].locked, rows |-> call[r].rows]
           w == [read |-> was[r].read, locked |-> Locked, failed |-> was[r].failed]
<1>0. TypeOK /\ ToldTheTruth(r)
  BY DEF AdmissionInv
<1>1. call[r].pc = "idle" /\ UNCHANGED <<profile, gpu, locks>>
  BY DEF RunBegin
<1>2. call' = [call EXCEPT ![r] = c]
  BY <1>0, RunBeginWrites
<1>3. was' = [was EXCEPT ![r] = w]
  <2>1. was' = [was EXCEPT ![r].locked = Locked]
    BY DEF RunBegin
  <2>2. was[r] \in Histories
    BY <1>0 DEF TypeOK
  <2>3. [was[r] EXCEPT !.locked = Locked] = w
    BY <2>2 DEF Histories
  <2>4. [was EXCEPT ![r].locked = Locked] = [was EXCEPT ![r] = [was[r] EXCEPT !.locked = Locked]]
    OBVIOUS
  <2> QED
    BY <2>1, <2>3, <2>4
<1>4. c \in Calls /\ w \in Histories
  <2>1. call[r] \in Calls /\ was[r] \in Histories
    BY <1>0 DEF TypeOK
  <2>2. pc \in Pcs /\ Locked \in SUBSET Gpus
    BY DEF Pcs, Locked
  <2> HIDE DEF pc
  <2> QED
    BY <2>1, <2>2 DEF Calls, Histories
<1>5. /\ call'[r] = c /\ was'[r] = w
      /\ \A s \in Runs \ {r} : call'[s] = call[s] /\ was'[s] = was[s]
  BY <1>0, <1>2, <1>3 DEF TypeOK
<1>6. TypeOK'
  BY <1>0, <1>1, <1>2, <1>3, <1>4 DEF TypeOK
<1>7. ASSUME NEW s \in Runs \ {r} PROVE ToldTheTruth(s)'
  <2>1. Locked \subseteq was[s].locked
    BY DEF AdmissionInv, ToldTheTruth, LocksAreKnown
  <2> QED
    BY <1>1, <1>5, <2>1, OthersStayTold DEF Locked
<1>8. ToldTheTruth(r)'
  <2>1. call[r].locked = {}
    BY <1>0, <1>1 DEF ToldTheTruth, LocksAreKnown
  <2>2. LocksAreKnown(r)'
    BY <1>1, <1>5, <2>1 DEF LocksAreKnown, Locked
  <2>3. pc # "verify" /\ pc \notin {"granted", "over"} /\ (pc = "create" => want = {})
    OBVIOUS
  <2>4. pc = "refused" => want \cap Locked # {}
    OBVIOUS
  <2> HIDE DEF pc
  <2>5. RowsAreRead(r)' /\ PassedIsIdle(r)'
    BY <1>5, <2>3 DEF RowsAreRead, PassedIsIdle, FoundIdle
  <2>6. RefusedHasCause(r)'
    BY <1>5, <2>4 DEF RefusedHasCause
  <2> QED
    BY <2>2, <2>5, <2>6 DEF ToldTheTruth
<1> QED
  BY <1>6, <1>7, <1>8 DEF AdmissionInv

LEMMA ResourcesKeeps ==
  ASSUME AdmissionInv, NEW r \in Runs, Resources(r)
  PROVE  AdmissionInv'
<1> DEFINE c == [pc |-> "probe", want |-> call[r].want, locked |-> Locked, rows |-> call[r].rows]
<1>0. TypeOK /\ ToldTheTruth(r)
  BY DEF AdmissionInv
<1>1. UNCHANGED <<profile, gpu, locks, was>>
  BY DEF Resources
<1>2. call' = [call EXCEPT ![r] = c]
  BY <1>0, ResourcesWrites
<1>3. c \in Calls
  BY <1>0 DEF TypeOK, Calls, Pcs, Locked
<1>4. call'[r] = c /\ \A s \in Runs \ {r} : call'[s] = call[s]
  BY <1>0, <1>2 DEF TypeOK
<1>5. TypeOK'
  BY <1>0, <1>1, <1>2, <1>3 DEF TypeOK
<1>6. \A s \in Runs : Locked' \subseteq was'[s].locked
  BY <1>1 DEF AdmissionInv, ToldTheTruth, LocksAreKnown, Locked
<1>7. ASSUME NEW s \in Runs \ {r} PROVE ToldTheTruth(s)'
  BY <1>1, <1>4, <1>6, OthersStayTold
<1>8. ToldTheTruth(r)'
  BY <1>1, <1>4, <1>6
     DEF ToldTheTruth, LocksAreKnown, RowsAreRead, PassedIsIdle, RefusedHasCause, Locked
<1> QED
  BY <1>5, <1>7, <1>8 DEF AdmissionInv

LEMMA ProbeKeeps ==
  ASSUME AdmissionInv, NEW r \in Runs, Probe(r)
  PROVE  AdmissionInv'
<1> DEFINE rows == {g \in Host : Available(gpu[g])}
           c == [pc |-> "verify", want |-> call[r].want, locked |-> call[r].locked, rows |-> rows]
           w == [read |-> gpu, locked |-> was[r].locked, failed |-> was[r].failed]
<1>0. TypeOK /\ ToldTheTruth(r)
  BY DEF AdmissionInv
<1>1. UNCHANGED <<profile, gpu, locks>>
  BY DEF Probe
<1>2. call' = [call EXCEPT ![r] = c]
  BY <1>0, ProbeWrites
<1>3. was' = [was EXCEPT ![r] = w]
  <2>1. was' = [was EXCEPT ![r].read = gpu]
    BY DEF Probe
  <2>2. was[r] \in Histories
    BY <1>0 DEF TypeOK
  <2>3. [was[r] EXCEPT !.read = gpu] = w
    BY <2>2 DEF Histories
  <2>4. [was EXCEPT ![r].read = gpu] = [was EXCEPT ![r] = [was[r] EXCEPT !.read = gpu]]
    OBVIOUS
  <2> QED
    BY <2>1, <2>3, <2>4
<1>4. c \in Calls /\ w \in Histories
  <2>1. call[r] \in Calls /\ was[r] \in Histories /\ gpu \in [Host -> Readings]
    BY <1>0 DEF TypeOK
  <2>2. rows \in SUBSET Host
    OBVIOUS
  <2> HIDE DEF rows
  <2> QED
    BY <2>1, <2>2 DEF Calls, Histories, Pcs
<1>5. /\ call'[r] = c /\ was'[r] = w
      /\ \A s \in Runs \ {r} : call'[s] = call[s] /\ was'[s] = was[s]
  BY <1>0, <1>2, <1>3 DEF TypeOK
<1>6. TypeOK'
  BY <1>0, <1>1, <1>2, <1>3, <1>4 DEF TypeOK
<1>7. Locked' = Locked /\ \A s \in Runs : Locked \subseteq was[s].locked
  BY <1>1 DEF AdmissionInv, ToldTheTruth, LocksAreKnown, Locked
<1>8. ASSUME NEW s \in Runs \ {r} PROVE ToldTheTruth(s)'
  BY <1>1, <1>5, <1>7, OthersStayTold
<1>9. ToldTheTruth(r)'
  <2>1. RowsAreRead(r)'
    BY <1>1, <1>5 DEF RowsAreRead, Available, MaximumUtil
  <2>2. LocksAreKnown(r)'
    BY <1>0, <1>5, <1>7 DEF ToldTheTruth, LocksAreKnown
  <2> QED
    BY <1>5, <2>1, <2>2 DEF ToldTheTruth, PassedIsIdle, RefusedHasCause
<1> QED
  BY <1>6, <1>8, <1>9 DEF AdmissionInv

LEMMA ProbeFailKeeps ==
  ASSUME AdmissionInv, NEW r \in Runs, ProbeFail(r)
  PROVE  AdmissionInv'
<1> DEFINE w == [read |-> was[r].read, locked |-> was[r].locked, failed |-> TRUE]
<1>0. TypeOK /\ ToldTheTruth(r)
  BY DEF AdmissionInv
<1>1. UNCHANGED <<profile, gpu, locks>>
  BY DEF ProbeFail
<1>2. /\ call' \in [Runs -> Calls]
      /\ call'[r] = [pc |-> "refused", want |-> call[r].want, locked |-> call[r].locked,
                     rows |-> call[r].rows]
      /\ \A s \in Runs \ {r} : call'[s] = call[s]
  BY <1>0, PcMoves DEF ProbeFail, Pcs
<1>3. was' = [was EXCEPT ![r] = w]
  <2>1. was' = [was EXCEPT ![r].failed = TRUE]
    BY DEF ProbeFail
  <2>2. was[r] \in Histories
    BY <1>0 DEF TypeOK
  <2>3. [was[r] EXCEPT !.failed = TRUE] = w
    <3>1. ASSUME NEW h \in Histories, NEW b
          PROVE  [h EXCEPT !.failed = b] = [read |-> h.read, locked |-> h.locked, failed |-> b]
      BY DEF Histories
    <3> QED
      BY <2>2, <3>1
  <2>4. [was EXCEPT ![r].failed = TRUE] = [was EXCEPT ![r] = [was[r] EXCEPT !.failed = TRUE]]
    OBVIOUS
  <2> QED
    BY <2>1, <2>3, <2>4
<1>4. w \in Histories
  BY <1>0 DEF TypeOK, Histories
<1>5. was'[r] = w /\ \A s \in Runs \ {r} : was'[s] = was[s]
  BY <1>0, <1>3 DEF TypeOK
<1>6. TypeOK'
  BY <1>0, <1>1, <1>2, <1>3, <1>4 DEF TypeOK
<1>7. Locked' = Locked /\ \A s \in Runs : Locked \subseteq was[s].locked
  BY <1>1 DEF AdmissionInv, ToldTheTruth, LocksAreKnown, Locked
<1>8. ASSUME NEW s \in Runs \ {r} PROVE ToldTheTruth(s)'
  BY <1>1, <1>2, <1>5, <1>7, OthersStayTold
<1>9. ToldTheTruth(r)'
  BY <1>0, <1>2, <1>5, <1>7
     DEF ToldTheTruth, LocksAreKnown, RowsAreRead, PassedIsIdle, RefusedHasCause
<1> QED
  BY <1>6, <1>8, <1>9 DEF AdmissionInv

LEMMA VerifyKeeps ==
  ASSUME AdmissionInv, NEW r \in Runs, Verify(r)
  PROVE  AdmissionInv'
<1> DEFINE pc == IF Unavailable(r) = {} THEN "create" ELSE "refused"
<1>0. TypeOK /\ ToldTheTruth(r)
  BY DEF AdmissionInv
<1>1. UNCHANGED <<profile, gpu, locks, was>> /\ call[r].pc = "verify"
  BY DEF Verify
<1>2. /\ call' \in [Runs -> Calls]
      /\ call'[r] = [pc |-> pc, want |-> call[r].want, locked |-> call[r].locked,
                     rows |-> call[r].rows]
      /\ \A s \in Runs \ {r} : call'[s] = call[s]
  BY <1>0, PcMoves DEF Verify, Pcs
<1>3. TypeOK'
  BY <1>0, <1>1, <1>2 DEF TypeOK
<1>4. Locked' = Locked /\ \A s \in Runs : Locked \subseteq was[s].locked
  BY <1>1 DEF AdmissionInv, ToldTheTruth, LocksAreKnown, Locked
<1>5. ASSUME NEW s \in Runs \ {r} PROVE ToldTheTruth(s)'
  BY <1>1, <1>2, <1>4, OthersStayTold
<1>6. FoundIdle(r)' <=> FoundIdle(r)
  BY <1>1, <1>2 DEF FoundIdle, Fits
<1>7. /\ pc = "create" /\ profile.maxUtil # 0 => FoundIdle(r)
      /\ pc = "refused" => call[r].want \cap was[r].locked # {} \/ ~FoundIdle(r)
      /\ pc \in {"create", "refused"}
  BY <1>1, VerdictIsCause
<1> HIDE DEF pc
<1>8. LocksAreKnown(r)' /\ RowsAreRead(r)'
  BY <1>0, <1>1, <1>2, <1>4, <1>7 DEF ToldTheTruth, LocksAreKnown, RowsAreRead
<1>9. PassedIsIdle(r)' /\ RefusedHasCause(r)'
  BY <1>1, <1>2, <1>6, <1>7 DEF PassedIsIdle, RefusedHasCause
<1> QED
  BY <1>3, <1>5, <1>8, <1>9 DEF AdmissionInv, ToldTheTruth

LEMMA CreateKeeps ==
  ASSUME AdmissionInv, NEW r \in Runs, Create(r)
  PROVE  AdmissionInv'
<1> DEFINE want == call[r].want
           w(s) == [read |-> was[s].read, locked |-> was[s].locked \cup want,
                    failed |-> was[s].failed]
<1>0. TypeOK /\ ToldTheTruth(r) /\ call[r].pc = "create"
  BY DEF AdmissionInv, Create
<1>1. UNCHANGED <<profile, gpu>> /\ want \in SUBSET Gpus
  BY <1>0 DEF Create, TypeOK, Calls
<1>2. CASE want \cap Locked = {}
  <2>1. /\ locks' = [g \in Gpus |-> IF g \in want THEN r ELSE locks[g]]
        /\ call' = [call EXCEPT ![r].pc = "granted"]
        /\ was' = [s \in Runs |-> [was[s] EXCEPT !.locked = @ \cup want]]
    BY <1>2 DEF Create
  <2>2. /\ call' \in [Runs -> Calls]
        /\ call'[r] = [pc |-> "granted", want |-> want, locked |-> call[r].locked,
                       rows |-> call[r].rows]
        /\ \A s \in Runs \ {r} : call'[s] = call[s]
    BY <1>0, <2>1, PcMoves DEF Pcs
  <2>3. ASSUME NEW s \in Runs
        PROVE  was'[s] = w(s) /\ w(s) \in Histories
    <3>1. was'[s] = [was[s] EXCEPT !.locked = @ \cup want]
      BY <2>1
    <3>2. was[s] \in Histories
      BY <1>0 DEF TypeOK
    <3>3. [was[s] EXCEPT !.locked = @ \cup want] = w(s)
      BY <3>2 DEF Histories
    <3>4. w(s) \in Histories
      BY <1>1, <3>2 DEF Histories
    <3> QED
      BY <3>1, <3>3, <3>4
  <2>4. was' \in [Runs -> Histories]
    <3>1. was' = [s \in Runs |-> w(s)]
      BY <2>1, <2>3
    <3> QED
      BY <2>3, <3>1
  <2>5. locks' \in [Gpus -> Runs \cup {NoRun}]
    BY <1>0, <2>1 DEF TypeOK
  <2>6. TypeOK'
    BY <1>0, <1>1, <2>2, <2>4, <2>5 DEF TypeOK
  <2>7. Locked' \subseteq Locked \cup want
    BY <2>1 DEF Locked
  <2>8. ASSUME NEW s \in Runs
        PROVE  /\ was'[s].read = was[s].read /\ was'[s].failed = was[s].failed
               /\ was[s].locked \subseteq was'[s].locked
               /\ Locked' \subseteq was'[s].locked
    <3>1. Locked \subseteq was[s].locked
      BY DEF AdmissionInv, ToldTheTruth, LocksAreKnown
    <3>2. was'[s] = w(s)
      BY <2>3
    <3> QED
      BY <2>7, <3>1, <3>2
  <2>9. ASSUME NEW s \in Runs \ {r} PROVE ToldTheTruth(s)'
    BY <1>1, <2>2, <2>8, OthersStayTold
  <2>10. ToldTheTruth(r)'
    <3>1. LocksAreKnown(r)'
      BY <1>0, <2>2, <2>8 DEF ToldTheTruth, LocksAreKnown
    <3>2. FoundIdle(r)' <=> FoundIdle(r)
      BY <1>1, <2>2, <2>8 DEF FoundIdle, Fits
    <3>3. PassedIsIdle(r)'
      BY <1>0, <1>1, <3>2 DEF ToldTheTruth, PassedIsIdle
    <3> QED
      BY <2>2, <3>1, <3>3 DEF ToldTheTruth, RowsAreRead, RefusedHasCause
  <2> QED
    BY <2>6, <2>9, <2>10 DEF AdmissionInv
<1>3. CASE want \cap Locked # {}
  <2>1. call' = [call EXCEPT ![r].pc = "refused"] /\ UNCHANGED <<locks, was>>
    BY <1>3 DEF Create
  <2>2. /\ call' \in [Runs -> Calls]
        /\ call'[r] = [pc |-> "refused", want |-> want, locked |-> call[r].locked,
                       rows |-> call[r].rows]
        /\ \A s \in Runs \ {r} : call'[s] = call[s]
    BY <1>0, <2>1, PcMoves DEF Pcs
  <2>3. TypeOK'
    BY <1>0, <1>1, <2>1, <2>2 DEF TypeOK
  <2>4. Locked' = Locked /\ \A s \in Runs : Locked \subseteq was[s].locked
    BY <2>1 DEF AdmissionInv, ToldTheTruth, LocksAreKnown, Locked
  <2>5. ASSUME NEW s \in Runs \ {r} PROVE ToldTheTruth(s)'
    BY <1>1, <2>1, <2>2, <2>4, OthersStayTold
  <2>6. LocksAreKnown(r)'
    BY <1>0, <2>1, <2>2, <2>4 DEF ToldTheTruth, LocksAreKnown
  <2>7. want \cap was'[r].locked # {}
    BY <1>3, <2>1, <2>4
  <2>8. RefusedHasCause(r)'
    BY <2>2, <2>7 DEF RefusedHasCause
  <2> QED
    BY <2>2, <2>3, <2>5, <2>6, <2>8 DEF AdmissionInv, ToldTheTruth, RowsAreRead, PassedIsIdle
<1> QED
  BY <1>2, <1>3

LEMMA ReleaseKeeps ==
  ASSUME AdmissionInv, NEW r \in Runs, Release(r)
  PROVE  AdmissionInv'
<1>0. TypeOK /\ ToldTheTruth(r) /\ call[r].pc = "granted"
  BY DEF AdmissionInv, Release
<1>1. /\ UNCHANGED <<profile, gpu, was>>
      /\ locks' = [g \in Gpus |-> IF locks[g] = r THEN NoRun ELSE locks[g]]
  BY DEF Release
<1>2. /\ call' \in [Runs -> Calls]
      /\ call'[r] = [pc |-> "over", want |-> call[r].want, locked |-> call[r].locked,
                     rows |-> call[r].rows]
      /\ \A s \in Runs \ {r} : call'[s] = call[s]
  BY <1>0, PcMoves DEF Release, Pcs
<1>3. locks' \in [Gpus -> Runs \cup {NoRun}]
  BY <1>0, <1>1 DEF TypeOK
<1>4. TypeOK'
  BY <1>0, <1>1, <1>2, <1>3 DEF TypeOK
<1>5. Locked' \subseteq Locked
  BY <1>1 DEF Locked
<1>6. \A s \in Runs : Locked' \subseteq was[s].locked
  BY <1>5 DEF AdmissionInv, ToldTheTruth, LocksAreKnown
<1>7. ASSUME NEW s \in Runs \ {r} PROVE ToldTheTruth(s)'
  BY <1>1, <1>2, <1>6, OthersStayTold
<1>8. FoundIdle(r)' <=> FoundIdle(r)
  BY <1>1, <1>2 DEF FoundIdle, Fits
<1>9. LocksAreKnown(r)' /\ PassedIsIdle(r)'
  BY <1>0, <1>1, <1>2, <1>6, <1>8 DEF ToldTheTruth, LocksAreKnown, PassedIsIdle
<1> QED
  BY <1>2, <1>4, <1>7, <1>9 DEF AdmissionInv, ToldTheTruth, RowsAreRead, RefusedHasCause

LEMMA AdmissionKeeps == AdmissionInv /\ [Next]_vars => AdmissionInv'
<1> SUFFICES ASSUME AdmissionInv, [Next]_vars
             PROVE  AdmissionInv'
  OBVIOUS
<1>1. ASSUME NEW g \in Host, NEW x \in Readings, Load(g, x)
      PROVE  AdmissionInv'
  <2>1. TypeOK'
    BY <1>1 DEF AdmissionInv, TypeOK, Load
  <2>2. \A s \in Runs : Locked' \subseteq was'[s].locked
    BY <1>1 DEF AdmissionInv, ToldTheTruth, LocksAreKnown, Locked, Load
  <2>3. ASSUME NEW s \in Runs PROVE ToldTheTruth(s)'
    BY <1>1, <2>2, OthersStayTold DEF Load
  <2> QED
    BY <2>1, <2>3 DEF AdmissionInv
<1>2. CASE UNCHANGED vars
  <2>1. TypeOK'
    BY <1>2 DEF AdmissionInv, TypeOK, vars
  <2>2. \A s \in Runs : Locked' \subseteq was'[s].locked
    BY <1>2 DEF AdmissionInv, ToldTheTruth, LocksAreKnown, Locked, vars
  <2>3. ASSUME NEW s \in Runs PROVE ToldTheTruth(s)'
    BY <1>2, <2>2, OthersStayTold DEF vars
  <2> QED
    BY <2>1, <2>3 DEF AdmissionInv
<1> QED
  BY <1>1, <1>2, RunBeginKeeps, ResourcesKeeps, ProbeKeeps, ProbeFailKeeps, VerifyKeeps,
     CreateKeeps, ReleaseKeeps DEF Next

(* What a call was told was true when it was told (service.py, resources, run,
   _verify_requested_gpus). *)
THEOREM AdmissionIsInvariant == Spec => []AdmissionInv
BY AdmissionInit, AdmissionKeeps, PTL DEF Spec

(* Every variable keeps its type. *)
THEOREM AdmissionTypeCorrect == Spec => []TypeOK
<1>1. AdmissionInv => TypeOK
  BY DEF AdmissionInv
<1> QED
  BY <1>1, AdmissionIsInvariant, PTL

(* However the host's load and the other calls move between the looks, the probe,
   the verdict and the transaction, no GPU is granted that was beyond the profile's
   thresholds when the host was asked, except under gpu_max_utilization 0. *)
THEOREM GrantsWereIdle == Spec => []GrantedWasIdle
<1>1. AdmissionInv => GrantedWasIdle
  BY DEF AdmissionInv, ToldTheTruth, PassedIsIdle, GrantedWasIdle
<1> QED
  BY <1>1, AdmissionIsInvariant, PTL

(* And no call is refused unless the query failed, or one of its GPUs was locked at
   some moment of the call, or is not there, or was beyond a threshold. *)
THEOREM RefusalsHadCause == Spec => []RefusedHadCause
<1>1. AdmissionInv => RefusedHadCause
  BY DEF AdmissionInv, ToldTheTruth, RefusedHasCause, RefusedHadCause
<1> QED
  BY <1>1, AdmissionIsInvariant, PTL

-----------------------------------------------------------------------------
(* Where a step leaves every call on its side of the lease, so it leaves the stage. *)
LEMMA StageStays ==
  ASSUME \A s \in Runs : call'[s].pc = "granted" <=> call[s].pc = "granted",
         \A s \in Runs : call'[s].pc = "over" <=> call[s].pc = "over",
         locks' = locks
  PROVE  UNCHANGED Lease!leaseVars
BY DEF leaseStage, Lease!leaseVars

(* A call moves among the stages before its grant. *)
LEMMA CallMovesOn ==
  ASSUME TypeOK, NEW r \in Runs, NEW pc \in Pcs, pc \notin {"granted", "over"},
         call[r].pc \notin {"granted", "over"},
         call'[r].pc = pc, \A s \in Runs \ {r} : call'[s] = call[s], locks' = locks
  PROVE  UNCHANGED Lease!leaseVars
<1>1. \A s \in Runs : call'[s].pc = "granted" <=> call[s].pc = "granted"
  OBVIOUS
<1>2. \A s \in Runs : call'[s].pc = "over" <=> call[s].pc = "over"
  OBVIOUS
<1> QED
  BY <1>1, <1>2, StageStays

(* create_job's transaction is the grant, whatever the call saw before it. *)
LEMMA CreateGrants ==
  ASSUME TypeOK, NEW r \in Runs, Create(r)
  PROVE  (\E S \in SUBSET Gpus : Lease!Grant(r, S)) \/ UNCHANGED Lease!leaseVars
<1> DEFINE want == call[r].want
<1>0. want \in SUBSET Gpus /\ call[r].pc = "create"
  BY DEF TypeOK, Calls, Create
<1>1. CASE want \cap Locked = {}
  <2>1. /\ locks' = [g \in Gpus |-> IF g \in want THEN r ELSE locks[g]]
        /\ call' = [call EXCEPT ![r].pc = "granted"]
    BY <1>1 DEF Create
  <2>2. call'[r].pc = "granted" /\ \A s \in Runs \ {r} : call'[s] = call[s]
    <3>1. /\ call'[r] = [pc |-> "granted", want |-> call[r].want, locked |-> call[r].locked,
                         rows |-> call[r].rows]
          /\ \A s \in Runs \ {r} : call'[s] = call[s]
      BY <2>1, PcMoves DEF Pcs
    <3> QED
      BY <3>1
  <2>3. leaseStage[r] = "new" /\ leaseStage' = [leaseStage EXCEPT ![r] = "granted"]
    BY <1>0, <2>2 DEF leaseStage
  <2>4. Lease!Free(want)
    BY <1>0, <1>1 DEF Lease!Free, Locked
  <2>5. Lease!Grant(r, want)
    BY <2>1, <2>3, <2>4 DEF Lease!Grant
  <2> QED
    BY <1>0, <2>5
<1>2. CASE want \cap Locked # {}
  <2>1. call' = [call EXCEPT ![r].pc = "refused"] /\ locks' = locks
    BY <1>2 DEF Create
  <2>2. call'[r].pc = "refused" /\ \A s \in Runs \ {r} : call'[s] = call[s]
    <3>1. /\ call'[r] = [pc |-> "refused", want |-> call[r].want, locked |-> call[r].locked,
                         rows |-> call[r].rows]
          /\ \A s \in Runs \ {r} : call'[s] = call[s]
      BY <2>1, PcMoves DEF Pcs
    <3> QED
      BY <3>1
  <2> QED
    BY <1>0, <2>1, <2>2, CallMovesOn DEF Pcs
<1> QED
  BY <1>1, <1>2

(* The end of the job is the release. *)
LEMMA ReleaseReleases ==
  ASSUME TypeOK, NEW r \in Runs, Release(r)
  PROVE  Lease!Release(r)
<1>1. /\ call[r].pc = "granted" /\ call' = [call EXCEPT ![r].pc = "over"]
      /\ locks' = [g \in Gpus |-> IF locks[g] = r THEN NoRun ELSE locks[g]]
  BY DEF Release
<1>2. call'[r].pc = "over" /\ \A s \in Runs \ {r} : call'[s] = call[s]
  <2>1. /\ call'[r] = [pc |-> "over", want |-> call[r].want, locked |-> call[r].locked,
                       rows |-> call[r].rows]
        /\ \A s \in Runs \ {r} : call'[s] = call[s]
    BY <1>1, PcMoves DEF Pcs
  <2> QED
    BY <2>1
<1>3. leaseStage[r] = "granted" /\ leaseStage' = [leaseStage EXCEPT ![r] = "released"]
  BY <1>1, <1>2 DEF leaseStage
<1> QED
  BY <1>1, <1>3 DEF Lease!Release

(* The looks, the probe and the verdict are no step of the lease. *)
LEMMA LooksLeaveLease ==
  ASSUME TypeOK, NEW r \in Runs,
         \/ \E want \in SUBSET Gpus : RunBegin(r, want)
         \/ Resources(r) \/ Probe(r) \/ ProbeFail(r) \/ Verify(r)
  PROVE  UNCHANGED Lease!leaseVars
<1> DEFINE Moved(c) == call' = [call EXCEPT ![r] = c]
<1>1. ASSUME NEW c, Moved(c), c.pc \in Pcs, c.pc \notin {"granted", "over"},
             call[r].pc \notin {"granted", "over"}, locks' = locks
      PROVE  UNCHANGED Lease!leaseVars
  <2>1. call'[r].pc = c.pc /\ \A s \in Runs \ {r} : call'[s] = call[s]
    BY <1>1 DEF TypeOK
  <2> QED
    BY <1>1, <2>1, CallMovesOn
<1>2. ASSUME NEW want \in SUBSET Gpus, RunBegin(r, want)
      PROVE  UNCHANGED Lease!leaseVars
  <2> DEFINE pc == IF want \cap Locked # {} THEN "refused"
                   ELSE IF want = {} THEN "create" ELSE "resources"
             c == [pc |-> pc, want |-> want, locked |-> call[r].locked, rows |-> call[r].rows]
  <2>1. Moved(c)
    BY <1>2, RunBeginWrites
  <2>2. call[r].pc = "idle" /\ locks' = locks
    BY <1>2 DEF RunBegin
  <2>3. c.pc \in Pcs /\ c.pc \notin {"granted", "over"}
    BY DEF Pcs
  <2> HIDE DEF c, Moved
  <2> QED
    BY <1>1, <2>1, <2>2, <2>3
<1>3. ASSUME Resources(r) PROVE UNCHANGED Lease!leaseVars
  <2> DEFINE c == [pc |-> "probe", want |-> call[r].want, locked |-> Locked, rows |-> call[r].rows]
  <2>1. Moved(c)
    BY <1>3, ResourcesWrites
  <2>2. call[r].pc = "resources" /\ locks' = locks
    BY <1>3 DEF Resources
  <2>3. c.pc \in Pcs /\ c.pc \notin {"granted", "over"}
    BY DEF Pcs
  <2> HIDE DEF c, Moved
  <2> QED
    BY <1>1, <2>1, <2>2, <2>3
<1>4. ASSUME Probe(r) PROVE UNCHANGED Lease!leaseVars
  <2> DEFINE c == [pc |-> "verify", want |-> call[r].want, locked |-> call[r].locked,
                   rows |-> {g \in Host : Available(gpu[g])}]
  <2>1. Moved(c)
    BY <1>4, ProbeWrites
  <2>2. call[r].pc = "probe" /\ locks' = locks
    BY <1>4 DEF Probe
  <2>3. c.pc \in Pcs /\ c.pc \notin {"granted", "over"}
    BY DEF Pcs
  <2> HIDE DEF c, Moved
  <2> QED
    BY <1>1, <2>1, <2>2, <2>3
<1>5. ASSUME ProbeFail(r) \/ Verify(r) PROVE UNCHANGED Lease!leaseVars
  <2>1. PICK pc \in {"create", "refused"} : call' = [call EXCEPT ![r].pc = pc]
    BY <1>5 DEF ProbeFail, Verify
  <2>2. call[r].pc \in {"probe", "verify"} /\ locks' = locks
    BY <1>5 DEF ProbeFail, Verify
  <2>3. pc \in Pcs /\ pc \notin {"granted", "over"}
    BY DEF Pcs
  <2>4. /\ call'[r] = [pc |-> pc, want |-> call[r].want, locked |-> call[r].locked,
                       rows |-> call[r].rows]
        /\ \A s \in Runs \ {r} : call'[s] = call[s]
    BY <2>1, <2>3, PcMoves
  <2>5. call'[r].pc = pc
    BY <2>4
  <2> QED
    BY <2>2, <2>3, <2>4, <2>5, CallMovesOn
<1> QED
  BY <1>2, <1>3, <1>4, <1>5

(* However old the looks and the probe of a call are, its GPUs are granted whole, to
   it alone, and given back once: every step of the calls is a step of the lease,
   or none. *)
THEOREM AdmissionImplementsLease == Spec => LeaseSpec
<1>1. Init => Lease!Init
  BY DEF Init, Lease!Init, leaseStage
<1>2. TypeOK /\ [Next]_vars => [Lease!Next]_(Lease!leaseVars)
  <2> SUFFICES ASSUME TypeOK, [Next]_vars
               PROVE  [Lease!Next]_(Lease!leaseVars)
    OBVIOUS
  <2>1. ASSUME NEW r \in Runs, Create(r)
        PROVE  [Lease!Next]_(Lease!leaseVars)
    BY <2>1, CreateGrants DEF Lease!Next
  <2>2. ASSUME NEW r \in Runs, Release(r)
        PROVE  [Lease!Next]_(Lease!leaseVars)
    BY <2>2, ReleaseReleases DEF Lease!Next
  <2>3. ASSUME locks' = locks, call' = call
        PROVE  UNCHANGED Lease!leaseVars
    BY <2>3, StageStays
  <2>4. ASSUME NEW g \in Host, NEW x \in Readings, Load(g, x)
        PROVE  UNCHANGED Lease!leaseVars
    BY <2>3, <2>4 DEF Load
  <2>5. CASE UNCHANGED vars
    BY <2>3, <2>5 DEF vars
  <2> QED
    BY <2>1, <2>2, <2>4, <2>5, LooksLeaveLease DEF Next
<1> QED
  BY <1>1, <1>2, AdmissionTypeCorrect, PTL DEF Spec, LeaseSpec, Lease!Spec
=============================================================================
