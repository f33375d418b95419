------------------------------- MODULE MCFetch ------------------------------
(* FetchTransfer.tla on small sets. *)
EXTENDS FetchTransfer, FiniteSets

UnderWay == {c \in Callers : call[c].pc \in InFlight}

(* Bounds.  Clients and readers share nothing but the file, and are looked at one
   kind at a time.  The job rewrites its file or takes it away while at most one
   caller is under way, else it only appends. *)
Apart ==
  /\ \A c \in Clients : call'[c] # call[c] => \A r \in Readers : call[r].pc = "idle"
  /\ \A r \in Readers : call'[r] # call[r] => \A c \in Clients : call[c].pc = "idle"

RewritesAlone ==
  (\E f \in Contents : Overwrite(f) \/ Replace(f)) \/ Remove => Cardinality(UnderWay) <= 1

MCSpec == Init /\ [][Next /\ Apart /\ RewritesAlone]_vars /\ Fairness
=============================================================================
