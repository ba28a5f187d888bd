------------------------------ MODULE MCComposer ------------------------------
(* Small instances of Composer for TLC: both forms, two messages, and room    *)
(* for the mock to be busy with a send whose form has sent another.           *)
EXTENDS Composer, TLC
=============================================================================
