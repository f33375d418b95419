------------------------------ MODULE MCLedger ------------------------------
(* Ledger.tla on three run() calls, two request ids and three payloads: one
   that needs both GPUs, one that needs one of them and one that needs none. *)
EXTENDS Ledger, TLC

CONSTANTS j1, j2, j3, q1, q2, wide, narrow, cpu, g1, g2

MCGpusOf == (wide :> {g1, g2}) @@ (narrow :> {g1}) @@ (cpu :> {})
=============================================================================
