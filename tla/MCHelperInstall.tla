-------------------------- MODULE MCHelperInstall ---------------------------
(* Two threads of one console, and one of its successor. *)
EXTENDS HelperInstall

CONSTANTS t1, t2, t3, old, new

MCVersionOf == [t \in {t1, t2, t3} |-> IF t = t3 THEN new ELSE old]
=============================================================================
