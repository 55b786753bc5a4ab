---------------------------- MODULE MCSchedulers ----------------------------
(* Two CPUs for the policies that are small enough, one for the hybrid one. *)
EXTENDS Schedulers

CONSTANTS c1, c2

MCCpus == {c1, c2}
MCMachines == {[policy |-> "rr",      cpus |-> {c1, c2}],
               [policy |-> "lottery", cpus |-> {c1, c2}],
               [policy |-> "hybrid",  cpus |-> {c1}]}
=============================================================================
