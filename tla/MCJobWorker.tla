---------------------------- MODULE MCJobWorker -----------------------------
(* Instances of JobWorker for TLC. *)
EXTENDS JobWorker, TLC

\* Every poller carries both handlers (worker.py, the runner image).
MCFullHandlers == [w \in Pollers |-> Kinds]

\* One poller with both handlers beside one that cannot execute runs.
MCMixedHandlers ==
  LET full == CHOOSE w \in Pollers : TRUE IN
  [w \in Pollers |-> IF w = full THEN Kinds ELSE {"ingest"}]

\* What the API process executes: everything (single box) or nothing (slim).
MCKinds == Kinds
MCNoKinds == {}

Symmetry == Permutations(Jobs) \cup Permutations(Pollers)
=============================================================================
