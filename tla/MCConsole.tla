------------------------------ MODULE MCConsole -----------------------------
(* Console.tla on small sets: every payload asks for the one GPU. *)
EXTENDS Console

MCGpusOf == [p \in Payloads |-> Gpus]
=============================================================================
