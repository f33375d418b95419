---------------------------- MODULE LedgerStart -----------------------------
(***************************************************************************)
(* ConsoleStore._initialize: how a console opens its ledger, creates it, or  *)
(* refuses it.  Every statement commits on its own (isolation_level=None),   *)
(* and the lock it takes is one of its own process: consoles started on the  *)
(* same path, and kills, come between any two statements.                    *)
(***************************************************************************)
EXTENDS Integers, Sequences

CONSTANTS Starters,   \* console processes started on one sqlite_path
          Found,      \* what may be at that path when the first one starts
          NoId        \* there is no ledger_id in the metadata

ASSUME NoIdAssumption == NoId \notin Starters

(* The statements of the script, in its order. *)
Schema == << "metadata", "jobs", "idx_jobs_status", "events", "idx_events_job",
             "idx_terminal_event_once", "resource_locks", "idx_locks_job",
             "outbox", "idx_outbox_claim" >>
Objects == {Schema[i] : i \in 1 .. Len(Schema)}
V3Tables == {"metadata", "jobs", "events", "resource_locks", "outbox"}
Indexes == Objects \ V3Tables

(* A database: what sqlite_master lists, and two rows of metadata.  "other" is a
   table that no v3 console makes. *)
Databases == [made : SUBSET (Objects \cup {"other"}),
              version : {"none", "2", "3"}, id : Starters \cup {NoId}]

(* A version and an id are rows of a table. *)
ASSUME FoundAssumption ==
  /\ Found \subseteq Databases
  /\ \A d \in Found : d.version # "none" \/ d.id # NoId => "metadata" \in d.made

VARIABLES db,      \* the database
          found,   \* history: the database the first console found
          pc,      \* where each console is
          seen,    \* the tables a console saw when it looked
          step     \* the next statement of its script

vars == <<db, found, pc, seen, step>>

TypeOK ==
  /\ db \in Databases /\ found \in Found
  /\ pc \in [Starters -> {"down", "checking", "creating", "reading", "naming",
                          "stamping", "serving", "refused", "failed"}]
  /\ seen \in [Starters -> SUBSET (V3Tables \cup {"other"})]
  /\ step \in [Starters -> 1 .. Len(Schema)]

Init ==
  /\ db \in Found /\ found = db
  /\ pc = [p \in Starters |-> "down"]
  /\ seen = [p \in Starters |-> {}]
  /\ step = [p \in Starters |-> 1]

Go(p, to) == pc' = [pc EXCEPT ![p] = to]

-----------------------------------------------------------------------------
(* Also what a supervisor of the container does with a console that ended. *)
Look(p) ==
  /\ pc[p] \in {"down", "refused", "failed"}
  /\ seen' = [seen EXCEPT ![p] = db.made \ Indexes]
  /\ step' = [step EXCEPT ![p] = 1]
  /\ Go(p, IF db.made \ Indexes = {} THEN "creating" ELSE "checking")
  /\ UNCHANGED <<db, found>>

(* Slip: a database without a version is taken for a new one. *)
OpensUnversioned(p) ==
  \/ "metadata" \notin seen[p] \/ db.version = "none"
  \/ db.version = "3" /\ seen[p] = V3Tables

(* Slip: tables of somebody else are not minded. *)
OpensExtended(p) == "metadata" \in seen[p] /\ db.version = "3" /\ V3Tables \subseteq seen[p]

(* The version is read now, the tables were listed before. *)
Opens(p) == "metadata" \in seen[p] /\ db.version = "3" /\ seen[p] = V3Tables

Check(p) ==
  /\ pc[p] = "checking"
  /\ Go(p, IF Opens(p) THEN "creating" ELSE "refused")
  /\ UNCHANGED <<db, found, seen, step>>

AtLast(p) == step[p] = Len(Schema)

(* CREATE ... IF NOT EXISTS. *)
Create(p) ==
  /\ pc[p] = "creating"
  /\ db' = [db EXCEPT !.made = @ \cup {Schema[step[p]]}]
  /\ IF AtLast(p) THEN Go(p, "reading") /\ step' = step
                  ELSE step' = [step EXCEPT ![p] = @ + 1] /\ pc' = pc
  /\ UNCHANGED <<found, seen>>

ReadId(p) ==
  /\ pc[p] = "reading"
  /\ Go(p, IF db.id = NoId THEN "naming" ELSE "stamping")
  /\ UNCHANGED <<db, found, seen, step>>

(* Slip: INSERT OR REPLACE. *)
ReplaceId(p) == /\ db' = [db EXCEPT !.id = p]
                /\ Go(p, "stamping")

(* A plain INSERT: the key is taken if another console was faster. *)
InsertId(p) ==
  IF db.id = NoId THEN db' = [db EXCEPT !.id = p] /\ Go(p, "stamping")
                  ELSE Go(p, "failed") /\ db' = db

Name(p) ==
  /\ pc[p] = "naming"
  /\ InsertId(p)
  /\ UNCHANGED <<found, seen, step>>

(* Slip: a plain INSERT here, too. *)
StampOnce(p) == pc[p] = "stamping" /\ db.version = "none"

(* INSERT ... ON CONFLICT DO UPDATE. *)
Stamps(p) == pc[p] = "stamping"

Stamp(p) ==
  /\ Stamps(p)
  /\ db' = [db EXCEPT !.version = "3"]
  /\ Go(p, "serving")
  /\ UNCHANGED <<found, seen, step>>

(* Killed at any moment, or a statement that stayed busy for 30 seconds. *)
Die(p) ==
  /\ pc[p] \notin {"down", "refused", "failed"}
  /\ Go(p, "down")
  /\ UNCHANGED <<db, found, seen, step>>

Starting(p) == Look(p) \/ Check(p) \/ Create(p) \/ ReadId(p) \/ Name(p) \/ Stamp(p)

Next == \E p \in Starters : Starting(p) \/ Die(p)

Spec == Init /\ [][Next]_vars

(* A console that ended is started again, and one that starts goes on. *)
FairSpec == Spec /\ \A p \in Starters : WF_vars(Starting(p))

-----------------------------------------------------------------------------
(* Safety *)

Own(d) == d.made \ Indexes = {} \/ (d.version = "3" /\ d.made \ Indexes = V3Tables)

(* Consumers know a ledger by its ledger_id (GET /health): no race of starters,
   crash or restart ever gives a ledger a second one. *)
IdIsStable == [][db.id # NoId => db'.id = db.id]_vars

(* A console that serves has the whole schema under it, the unique index of
   terminal events included, and no table beside it, whoever else was creating
   it at the same time. *)
ServingIsWhole ==
  \A p \in Starters : pc[p] = "serving" =>
    /\ db.made = Objects
    /\ db.version = "3" /\ db.id # NoId

(* A ledger that is not v3 is left exactly as it was found, also by a console
   that looked at it while it did not have its version. *)
ForeignIsUntouched == ~Own(found) => db = found

-----------------------------------------------------------------------------
(* Liveness *)

(* The schema is begun and its version is not there: to _initialize, a ledger
   that is not v3. *)
HalfMade == db.made \ Indexes # {} /\ db.version = "none"

(* Consoles started together on no ledger or on a v3 one all come to serve once
   they are killed no more, although they may refuse what another one is
   creating, or fail on its id; unless one was killed over a half made ledger. *)
AllOpen ==
  Own(found) /\ <>[][\A p \in Starters : ~Die(p)]_vars
    => <>[]((\A p \in Starters : pc[p] = "serving") \/ HalfMade)
=============================================================================
