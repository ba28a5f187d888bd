----------------------------- MODULE MCPipeline -----------------------------
(* Small instances of Pipeline for TLC.  One tick stands for about 30 s: the *)
(* configured 60 s retry delay is 2 ticks, the 90 s stale-claim age is 3.    *)
EXTENDS Pipeline, TLC

CONSTANTS w1, w2, j1, j2, j3

MCWorkers == {w1, w2}

\* One concurrent handler in each of two processes.
OnePerWorker == {j1, j2}
OnePerWorkerProcess == (j1 :> w1) @@ (j2 :> w2)

\* A process with two concurrent handlers beside one with a single handler.
TwoAndOne == {j1, j2, j3}
TwoAndOneProcess == (j1 :> w1) @@ (j2 :> w1) @@ (j3 :> w2)

\* Slots of the broker and reply texts are interchangeable; sound for the
\* safety runs.
SlotsAndTexts == Permutations(Copies) \cup Permutations(Texts)
=============================================================================
