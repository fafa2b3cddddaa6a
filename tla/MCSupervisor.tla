---------------------------- MODULE MCSupervisor ----------------------------
(* Small instances of Supervisor for TLC. *)
EXTENDS Supervisor, TLC

CONSTANTS net, api

\* api depends on net.
MCService == {net, api}
MCDep == (net :> {}) @@ (api :> {net})

PidSymmetry == Permutations(Pid)

=============================================================================
