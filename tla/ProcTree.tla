------------------------------ MODULE ProcTree ------------------------------
(***************************************************************************)
(* What fork(), clone(), exit(), wait() and join() promise their callers,  *)
(* whatever the locking and the scheduling: a tree of processes.  A node   *)
(* is spawned below a live parent; when it exits it stays as a dead leaf   *)
(* until its parent collects it, once, and its children, dead or alive,    *)
(* move below the root, which never exits.  ProcTable implements this.     *)
(***************************************************************************)
EXTENDS Naturals

CONSTANTS Nodes, Root, Nobody

VARIABLES
    life,       \* of each node: free, alive or dead
    above       \* the parent of each node that is not free

TreeVars == <<life, above>>

TreeInit ==
    /\ life = [n \in Nodes |-> IF n = Root THEN "alive" ELSE "free"]
    /\ above = [n \in Nodes |-> Nobody]

Spawn(n, m) ==
    /\ life[n] = "alive" /\ life[m] = "free"
    /\ life' = [life EXCEPT ![m] = "alive"]
    /\ above' = [above EXCEPT ![m] = n]

Exit(n) ==
    /\ life[n] = "alive" /\ n # Root
    /\ life' = [life EXCEPT ![n] = "dead"]
    /\ above' = [m \in Nodes |-> IF above[m] = n THEN Root ELSE above[m]]

Collect(n, m) ==
    /\ life[n] = "alive" /\ life[m] = "dead" /\ above[m] = n
    /\ life' = [life EXCEPT ![m] = "free"]
    /\ above' = [above EXCEPT ![m] = Nobody]

TreeNext ==
    \E n \in Nodes :
        \/ Exit(n)
        \/ \E m \in Nodes : Spawn(n, m) \/ Collect(n, m)

TreeSpec == TreeInit /\ [][TreeNext]_TreeVars

=============================================================================
