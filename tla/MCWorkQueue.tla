----------------------------- MODULE MCWorkQueue -----------------------------
(* Small instances of WorkQueue for TLC: two worker processes with a running  *)
(* dispatch each.                                                           *)
EXTENDS WorkQueue, TLC

CONSTANTS w1, w2, j1, j2

MCProcessOf == (j1 :> w1) @@ (j2 :> w2)
=============================================================================
