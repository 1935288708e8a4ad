-------------------------------- MODULE Jobs --------------------------------
(***************************************************************************)
(* A pure routine applied once to an input of a small set: the initial     *)
(* states choose a job, the routine's action computes its result.  A loop  *)
(* that is followed turn by turn begins like that and has actions of its   *)
(* own that go on with the result.                                         *)
(***************************************************************************)
VARIABLES job, result

vars == <<job, result>>

Pending == [pending |-> TRUE]

\* The action of the routine that serves the jobs of a kind.
Compute(kind, value) ==
  /\ job.kind = kind
  /\ result = Pending
  /\ result' = value
  /\ UNCHANGED job

Done(kind) == job.kind = kind /\ result # Pending
=============================================================================
