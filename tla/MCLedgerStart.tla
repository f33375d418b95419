--------------------------- MODULE MCLedgerStart ----------------------------
(* Two consoles on the databases that the tests and a crash leave behind. *)
EXTENDS LedgerStart

CONSTANTS p1

MCFound ==
  LET Db(made, version, id) == [made |-> made, version |-> version, id |-> id]
  IN  { Db({}, "none", NoId),
        Db(Objects, "3", p1),
        Db(Objects \ {"idx_outbox_claim"}, "3", p1),
        Db({"metadata", "other"}, "2", NoId),
        Db({"other"}, "none", NoId),
        Db({"metadata", "jobs"}, "none", NoId),
        Db(Objects \cup {"other"}, "3", p1),
        Db(Objects \cup {"other"}, "3", NoId),
        Db(Objects \ {"outbox", "idx_outbox_claim"}, "3", p1) }
=============================================================================
