----------------------------- MODULE MCWorkload -----------------------------
(* Small instances of Workload for TLC. *)
EXTENDS Workload, TLC

Symmetry == Permutations(VM) \cup Permutations(Pid)

=============================================================================
