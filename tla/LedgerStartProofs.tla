-------------------------- MODULE LedgerStartProofs -------------------------
(***************************************************************************)
(* Theorems about LedgerStart, for any number of consoles and any database   *)
(* they may find.                                                           *)
(***************************************************************************)
EXTENDS LedgerStart, TLAPS

(* A console is past the script: it has run each of its statements. *)
Past == {"reading", "naming", "stamping", "serving"}

(* A ledger that is not a v3 one meets no console that writes. *)
ForeignIsShut ==
  ~Own(found) =>
    /\ db = found
    /\ \A p \in Starters :
         /\ pc[p] \in {"down", "checking", "refused"}
         /\ pc[p] = "checking" => seen[p] = db.made \ Indexes

(* What the script's statements leave behind stays. *)
ScriptIsKept ==
  \A p \in Starters :
    /\ pc[p] = "checking" => step[p] = 1
    /\ pc[p] = "creating" => \A i \in 1 .. step[p] - 1 : Schema[i] \in db.made
    /\ pc[p] \in Past => Objects \subseteq db.made

RowsAreKept ==
  \A p \in Starters :
    /\ pc[p] \in {"stamping", "serving"} => db.id # NoId
    /\ pc[p] = "serving" => db.version = "3"

OwnIsPure == Own(found) => db.made \subseteq Objects

StartInv == TypeOK /\ ForeignIsShut /\ ScriptIsKept /\ RowsAreKept /\ OwnIsPure

-----------------------------------------------------------------------------
LEMMA SchemaFacts ==
  /\ Len(Schema) = 10
  /\ \A i \in 1 .. 10 : Schema[i] \in Objects
  /\ V3Tables \subseteq Objects
  /\ "other" \notin Objects
  /\ \A x \in Objects : \E i \in 1 .. 10 : Schema[i] = x
<1>1. Len(Schema) = 10
  BY DEF Schema
<1>2. Objects = {Schema[i] : i \in 1 .. 10}
  BY <1>1 DEF Objects
<1>3. \A i \in 1 .. 10 : Schema[i] # "other"
  BY DEF Schema
<1>4. /\ Schema[1] = "metadata" /\ Schema[2] = "jobs" /\ Schema[4] = "events"
      /\ Schema[7] = "resource_locks" /\ Schema[9] = "outbox"
  BY DEF Schema
<1>5. V3Tables \subseteq Objects
  BY <1>2, <1>4 DEF V3Tables
<1> QED
  BY <1>1, <1>2, <1>3, <1>5

LEMMA InitEstablishes == Init => StartInv
<1> SUFFICES ASSUME Init PROVE StartInv
  OBVIOUS
<1>1. db \in Databases /\ found = db
  BY FoundAssumption DEF Init
<1>2. TypeOK
  <2>1. step \in [Starters -> 1 .. Len(Schema)]
    BY SchemaFacts DEF Init
  <2> QED
    BY <1>1, <2>1 DEF Init, TypeOK
<1>3. OwnIsPure
  <2> SUFFICES ASSUME Own(found) PROVE db.made \subseteq Objects
    BY DEF OwnIsPure
  <2>1. db.made \ Indexes \subseteq V3Tables
    BY <1>1 DEF Own
  <2> QED
    BY <2>1, SchemaFacts DEF Indexes
<1> QED
  BY <1>1, <1>2, <1>3 DEF Init, StartInv, ForeignIsShut, ScriptIsKept, RowsAreKept, Past

-----------------------------------------------------------------------------
LEMMA LookPreserves ==
  ASSUME StartInv, NEW p \in Starters, Look(p) PROVE StartInv'
<1> USE DEF StartInv
<1>1. TypeOK'
  <2>1. db.made \ Indexes \in SUBSET (V3Tables \cup {"other"})
    BY DEF TypeOK, Databases, Indexes
  <2>2. 1 \in 1 .. Len(Schema)
    BY SchemaFacts
  <2> QED
    BY <2>1, <2>2 DEF Look, Go, TypeOK
<1>2. ForeignIsShut'
  BY DEF Look, Go, TypeOK, ForeignIsShut, Own
<1>3. ScriptIsKept'
  <2>1. step'[p] = 1 /\ pc'[p] \in {"creating", "checking"}
    BY DEF Look, Go, TypeOK
  <2>2. \A i \in 1 .. step'[p] - 1 : Schema[i] \in db'.made
    BY <2>1
  <2> QED
    BY <2>1, <2>2 DEF Look, Go, TypeOK, ScriptIsKept, Past
<1>4. RowsAreKept' /\ OwnIsPure'
  BY DEF Look, Go, TypeOK, RowsAreKept, OwnIsPure
<1> QED
  BY <1>1, <1>2, <1>3, <1>4

LEMMA CheckPreserves ==
  ASSUME StartInv, NEW p \in Starters, Check(p) PROVE StartInv'
<1> USE DEF StartInv
<1>1. TypeOK'
  BY DEF Check, Go, TypeOK
<1>2. ForeignIsShut'
  <2>1. ~Own(found) => ~Opens(p)
    BY DEF ForeignIsShut, Own, Opens, Check
  <2> QED
    BY <2>1 DEF Check, Go, TypeOK, ForeignIsShut
<1>3. ScriptIsKept'
  <2>1. pc'[p] = "creating" => \A i \in 1 .. step'[p] - 1 : Schema[i] \in db'.made
    <3>1. step[p] = 1
      BY DEF Check, ScriptIsKept
    <3> QED
      BY <3>1 DEF Check
  <2> QED
    BY <2>1 DEF Check, Go, TypeOK, ScriptIsKept, Past
<1>4. RowsAreKept' /\ OwnIsPure'
  BY DEF Check, Go, TypeOK, RowsAreKept, OwnIsPure
<1> QED
  BY <1>1, <1>2, <1>3, <1>4

LEMMA CreatePreserves ==
  ASSUME StartInv, NEW p \in Starters, Create(p) PROVE StartInv'
<1> USE DEF StartInv
<1>0. Own(found)
  BY DEF Create, ForeignIsShut
<1>1. step[p] \in 1 .. 10
  BY SchemaFacts DEF TypeOK
<1>2. Schema[step[p]] \in Objects
  BY <1>1, SchemaFacts
<1>3. db'.made = db.made \cup {Schema[step[p]]} /\ db'.version = db.version /\ db'.id = db.id
  BY DEF Create, TypeOK, Databases
<1>4. db' \in Databases
  BY <1>2 DEF Create, TypeOK, Databases
<1>5. \/ AtLast(p) /\ step[p] = 10 /\ Go(p, "reading") /\ step' = step
      \/ ~AtLast(p) /\ step[p] < 10 /\ step' = [step EXCEPT ![p] = @ + 1] /\ pc' = pc
  BY <1>1, SchemaFacts DEF Create, AtLast
<1>6. TypeOK'
  <2>1. step' \in [Starters -> 1 .. 10]
    BY <1>1, <1>5, SchemaFacts DEF TypeOK
  <2>2. pc' = pc \/ Go(p, "reading")
    BY <1>5
  <2> QED
    BY <1>4, <2>1, <2>2, SchemaFacts DEF Create, Go, TypeOK
<1>7. ForeignIsShut'
  BY <1>0 DEF Create, ForeignIsShut
<1>8. \A i \in 1 .. step[p] : Schema[i] \in db'.made
  BY <1>1, <1>3 DEF ScriptIsKept, Create
<1>9. ScriptIsKept'
  <2> SUFFICES ASSUME NEW q \in Starters
               PROVE /\ pc'[q] = "checking" => step'[q] = 1
                     /\ pc'[q] = "creating" => \A i \in 1 .. step'[q] - 1 : Schema[i] \in db'.made
                     /\ pc'[q] \in Past => Objects \subseteq db'.made
    BY DEF ScriptIsKept
  <2>1. CASE q # p
    <3>1. pc'[q] = pc[q] /\ step'[q] = step[q]
      BY <2>1, <1>5 DEF Go, TypeOK
    <3> QED
      BY <3>1, <1>3 DEF ScriptIsKept
  <2>2. CASE q = p /\ AtLast(p)
    <3>1. pc'[p] = "reading" /\ step[p] = 10
      BY <2>2, <1>5 DEF Go, TypeOK
    <3>2. Objects \subseteq db'.made
      BY <3>1, <1>8, SchemaFacts
    <3> QED
      BY <2>2, <3>1, <3>2
  <2>3. CASE q = p /\ ~AtLast(p)
    <3>1. pc'[p] = "creating" /\ step'[p] - 1 = step[p]
      BY <2>3, <1>1, <1>5 DEF Create, TypeOK
    <3> QED
      BY <2>3, <3>1, <1>8 DEF Past
  <2> QED
    BY <2>1, <2>2, <2>3
<1>10. RowsAreKept'
  BY <1>3, <1>5 DEF Create, Go, TypeOK, RowsAreKept
<1>11. OwnIsPure'
  BY <1>2, <1>3 DEF Create, OwnIsPure
<1> QED
  BY <1>6, <1>7, <1>9, <1>10, <1>11

LEMMA ReadIdPreserves ==
  ASSUME StartInv, NEW p \in Starters, ReadId(p) PROVE StartInv'
<1> USE DEF StartInv
<1>1. Own(found)
  BY DEF ReadId, ForeignIsShut
<1>2. TypeOK'
  BY DEF ReadId, Go, TypeOK
<1>3. ScriptIsKept'
  BY DEF ReadId, Go, TypeOK, ScriptIsKept, Past
<1>4. RowsAreKept'
  BY DEF ReadId, Go, TypeOK, RowsAreKept
<1> QED
  BY <1>1, <1>2, <1>3, <1>4 DEF ReadId, ForeignIsShut, OwnIsPure

LEMMA NamePreserves ==
  ASSUME StartInv, NEW p \in Starters, Name(p) PROVE StartInv'
<1> USE DEF StartInv
<1>1. Own(found)
  BY DEF Name, ForeignIsShut
<1>2. db'.made = db.made /\ db'.version = db.version
  BY DEF Name, InsertId, TypeOK, Databases
<1>3. \/ db.id = NoId /\ db'.id = p /\ Go(p, "stamping")
      \/ db.id # NoId /\ db' = db /\ Go(p, "failed")
  BY DEF Name, InsertId, TypeOK, Databases
<1>4. TypeOK'
  <2>1. db' \in Databases
    BY DEF Name, InsertId, TypeOK, Databases
  <2> QED
    BY <1>3, <2>1 DEF Name, Go, TypeOK
<1>5. ScriptIsKept'
  BY <1>2, <1>3 DEF Name, Go, TypeOK, ScriptIsKept, Past
<1>6. RowsAreKept'
  BY <1>2, <1>3, NoIdAssumption DEF Name, Go, TypeOK, RowsAreKept
<1> QED
  BY <1>1, <1>2, <1>4, <1>5, <1>6 DEF Name, ForeignIsShut, OwnIsPure

LEMMA StampPreserves ==
  ASSUME StartInv, NEW p \in Starters, Stamp(p) PROVE StartInv'
<1> USE DEF StartInv
<1>1. Own(found)
  BY DEF Stamp, Stamps, ForeignIsShut
<1>2. db'.made = db.made /\ db'.id = db.id /\ db'.version = "3"
  BY DEF Stamp, TypeOK, Databases
<1>3. TypeOK'
  <2>1. db' \in Databases
    BY DEF Stamp, TypeOK, Databases
  <2> QED
    BY <2>1 DEF Stamp, Go, TypeOK
<1>4. ScriptIsKept'
  BY <1>2 DEF Stamp, Stamps, Go, TypeOK, ScriptIsKept, Past
<1>5. RowsAreKept'
  BY <1>2 DEF Stamp, Stamps, Go, TypeOK, RowsAreKept
<1> QED
  BY <1>1, <1>2, <1>3, <1>4, <1>5 DEF Stamp, ForeignIsShut, OwnIsPure

LEMMA DiePreserves ==
  ASSUME StartInv, NEW p \in Starters, Die(p) PROVE StartInv'
<1> USE DEF StartInv
<1>1. TypeOK'
  BY DEF Die, Go, TypeOK
<1>2. ForeignIsShut'
  BY DEF Die, Go, TypeOK, ForeignIsShut
<1>3. ScriptIsKept'
  BY DEF Die, Go, TypeOK, ScriptIsKept, Past
<1>4. RowsAreKept'
  BY DEF Die, Go, TypeOK, RowsAreKept
<1> QED
  BY <1>1, <1>2, <1>3, <1>4 DEF Die, OwnIsPure

LEMMA StepPreserves == StartInv /\ [Next]_vars => StartInv'
<1> SUFFICES ASSUME StartInv, [Next]_vars PROVE StartInv'
  OBVIOUS
<1>1. CASE UNCHANGED vars
  BY <1>1 DEF vars, StartInv, TypeOK, ForeignIsShut, ScriptIsKept, RowsAreKept, OwnIsPure
<1>2. CASE Next
  BY <1>2, LookPreserves, CheckPreserves, CreatePreserves, ReadIdPreserves,
     NamePreserves, StampPreserves, DiePreserves DEF Next, Starting
<1> QED
  BY <1>1, <1>2

-----------------------------------------------------------------------------
(* The invariant that carries the theorems below (store.py:46-151): no console
   that writes ever meets a foreign ledger, and what a statement of the script
   left behind is still there when a later one relies on it. *)
THEOREM StartIsInvariant == Spec => []StartInv
<1> QED
  BY InitEstablishes, StepPreserves, PTL DEF Spec

(* The database and the program counters keep their types (store.py:46-151). *)
THEOREM StartTypeCorrect == Spec => []TypeOK
<1>1. StartInv => TypeOK
  BY DEF StartInv
<1> QED
  BY <1>1, StartIsInvariant, PTL

(* Whoever else was creating the ledger, and whoever died over it, a console
   serves only a whole one (store.py:73-151). *)
THEOREM ServersHaveTheSchema == Spec => []ServingIsWhole
<1>1. StartInv => ServingIsWhole
  <2> SUFFICES ASSUME StartInv, NEW p \in Starters, pc[p] = "serving"
               PROVE db.made = Objects /\ db.version = "3" /\ db.id # NoId
    BY DEF ServingIsWhole
  <2>1. Own(found)
    BY DEF StartInv, ForeignIsShut
  <2>2. Objects \subseteq db.made /\ db.made \subseteq Objects
    BY <2>1 DEF StartInv, ScriptIsKept, OwnIsPure, Past
  <2> QED
    BY <2>2 DEF StartInv, RowsAreKept
<1> QED
  BY <1>1, StartIsInvariant, PTL

(* A ledger that is not v3 is left as it was found (store.py:56-72). *)
THEOREM ForeignLedgersAreKept == Spec => []ForeignIsUntouched
<1>1. StartInv => ForeignIsUntouched
  BY DEF StartInv, ForeignIsShut, ForeignIsUntouched
<1> QED
  BY <1>1, StartIsInvariant, PTL

(* A ledger keeps the identifier that it was given first (store.py:142-147). *)
THEOREM IdentifiersAreStable == Spec => IdIsStable
<1>1. StartInv /\ [Next]_vars => [db.id # NoId => db'.id = db.id]_vars
  <2> SUFFICES ASSUME StartInv, Next, db.id # NoId PROVE db'.id = db.id
    OBVIOUS
  <2>1. PICK p \in Starters : Starting(p) \/ Die(p)
    BY DEF Next
  <2>2. CASE Create(p) \/ Stamp(p)
    BY <2>2 DEF Create, Stamp, StartInv, TypeOK, Databases
  <2>3. CASE Name(p)
    BY <2>3 DEF Name, InsertId
  <2>4. CASE Look(p) \/ Check(p) \/ ReadId(p) \/ Die(p)
    BY <2>4 DEF Look, Check, ReadId, Die
  <2> QED
    BY <2>1, <2>2, <2>3, <2>4 DEF Starting
<1> QED
  BY <1>1, StartIsInvariant, PTL DEF Spec, IdIsStable

-----------------------------------------------------------------------------
(* A ledger of the console's own has its version only when it has its tables. *)
StampedIsWhole == Own(found) /\ db.version = "3" => db.made \ Indexes = V3Tables

LEMMA StampedStep ==
  ASSUME StartInv, StampedIsWhole, [Next]_vars
  PROVE  StampedIsWhole'
<1> SUFFICES ASSUME Own(found'), db'.version = "3"
             PROVE  db'.made \ Indexes = V3Tables
  BY DEF StampedIsWhole, Own
<1>0. found' = found
  BY DEF Next, Starting, Look, Check, Create, ReadId, Name, Stamp, Die, vars
<1>1. CASE db'.made = db.made /\ db'.version = db.version
  BY <1>0, <1>1 DEF StampedIsWhole
<1>2. ASSUME NEW p \in Starters, Create(p)
      PROVE  db'.made \ Indexes = V3Tables
  <2>1. Schema[step[p]] \in Objects
    BY SchemaFacts DEF StartInv, TypeOK
  <2>2. db'.made = db.made \cup {Schema[step[p]]} /\ db'.version = db.version
    BY <1>2 DEF Create, StartInv, TypeOK, Databases
  <2> QED
    BY <1>0, <2>1, <2>2 DEF StampedIsWhole, Indexes
<1>3. ASSUME NEW p \in Starters, Stamp(p)
      PROVE  db'.made \ Indexes = V3Tables
  <2>1. Objects \subseteq db.made /\ db.made \subseteq Objects
    BY <1>0, <1>3 DEF Stamp, Stamps, StartInv, ScriptIsKept, OwnIsPure, Past
  <2>2. db'.made = db.made
    BY <1>3 DEF Stamp, StartInv, TypeOK, Databases
  <2> QED
    BY <2>1, <2>2, SchemaFacts DEF Indexes
<1>4. ASSUME NEW p \in Starters, Name(p)
      PROVE  db'.made = db.made /\ db'.version = db.version
  BY <1>4 DEF Name, InsertId, StartInv, TypeOK, Databases
<1>5. ASSUME NEW p \in Starters, Look(p) \/ Check(p) \/ ReadId(p) \/ Die(p)
      PROVE  db' = db
  BY <1>5 DEF Look, Check, ReadId, Die
<1> QED
  BY <1>1, <1>2, <1>3, <1>4, <1>5 DEF Next, Starting, vars

(* The version is written last (store.py:148-151), and no crash or race of
   starters leaves a ledger that bears it without all the tables that the next
   console will ask of it (store.py:56-72). *)
THEOREM StampsComeLast == Spec => []StampedIsWhole
<1>1. Init => StampedIsWhole
  BY FoundAssumption DEF Init, StampedIsWhole, Own, Indexes, V3Tables
<1> QED
  BY <1>1, StampedStep, StartIsInvariant, PTL DEF Spec

-----------------------------------------------------------------------------
(* A v3 ledger that has its identifier. *)
Whole(d) == d.version = "3" /\ d.made \ Indexes = V3Tables /\ d.id # NoId

WholeIsOpened ==
  Whole(found) => Whole(db) /\ \A p \in Starters : pc[p] \notin {"refused", "failed"}

(* What keeps a console from either end: it saw the tables, and finds the id. *)
WholeInv ==
  Whole(found) =>
    /\ Whole(db)
    /\ \A p \in Starters :
         /\ pc[p] \notin {"refused", "failed", "naming"}
         /\ pc[p] = "checking" => seen[p] = V3Tables

LEMMA WholeStep ==
  ASSUME StartInv, StampedIsWhole, WholeInv, [Next]_vars
  PROVE  WholeInv'
<1>0. found' = found
  BY DEF Next, Starting, Look, Check, Create, ReadId, Name, Stamp, Die, vars
<1> SUFFICES ASSUME Whole(found), Next
             PROVE  WholeInv'
  BY <1>0 DEF WholeInv, Whole, vars
<1>1. Whole(db) /\ Own(found)
  BY DEF WholeInv, Whole, Own
<1>2. PICK p \in Starters : Starting(p) \/ Die(p)
  BY DEF Next
<1>3. ~Name(p)
  BY DEF WholeInv, Name
<1>4. CASE Create(p)
  <2>1. StampedIsWhole'
    BY StampedStep
  <2>2. db'.version = db.version /\ db'.id = db.id
    BY <1>4 DEF Create, StartInv, TypeOK, Databases
  <2>3. pc' = pc \/ Go(p, "reading")
    BY <1>4 DEF Create
  <2>4. Whole(db')
    BY <1>0, <1>1, <2>1, <2>2 DEF StampedIsWhole, Whole
  <2> QED
    BY <1>4, <2>3, <2>4 DEF Create, Go, WholeInv, StartInv, TypeOK
<1>5. CASE Stamp(p)
  <2>1. db'.made = db.made /\ db'.version = "3" /\ db'.id = db.id
    BY <1>5 DEF Stamp, StartInv, TypeOK, Databases
  <2>2. Whole(db')
    BY <1>1, <2>1 DEF Whole
  <2> QED
    BY <1>5, <2>2 DEF Stamp, Go, WholeInv, StartInv, TypeOK
<1>6. CASE Look(p)
  BY <1>1, <1>6 DEF Look, Go, WholeInv, Whole, StartInv, TypeOK
<1>7. CASE Check(p)
  <2>1. "metadata" \in V3Tables
    BY DEF V3Tables
  <2>2. Opens(p)
    BY <1>1, <1>7, <2>1 DEF Check, Opens, WholeInv, Whole
  <2> QED
    BY <1>1, <1>7, <2>2 DEF Check, Go, WholeInv, StartInv, TypeOK
<1>8. CASE ReadId(p)
  BY <1>1, <1>8 DEF ReadId, Go, WholeInv, Whole, StartInv, TypeOK
<1>9. CASE Die(p)
  BY <1>1, <1>9 DEF Die, Go, WholeInv, StartInv, TypeOK
<1> QED
  BY <1>2, <1>3, <1>4, <1>5, <1>6, <1>7, <1>8, <1>9 DEF Starting

(* A whole v3 ledger is never refused, and no console fails over it, however many
   are started on it and killed (store.py:56-72, 142-147): what AllOpen promises
   of it is only a matter of time. *)
THEOREM WholeLedgersAreOpened == Spec => []WholeIsOpened
<1>1. Init => WholeInv
  BY DEF Init, WholeInv, Whole
<1>2. WholeInv => WholeIsOpened
  BY DEF WholeInv, WholeIsOpened
<1> QED
  BY <1>1, <1>2, WholeStep, StampsComeLast, StartIsInvariant, PTL DEF Spec
=============================================================================
