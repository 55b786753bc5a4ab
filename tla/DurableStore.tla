---------------------------- MODULE DurableStore ----------------------------
(***************************************************************************)
(* What the log promises to file system calls: the blocks of the disk as   *)
(* one variable that survives a crash.  Calls change the current contents  *)
(* between Begin and End; the contents become durable all at once, and     *)
(* only while no call is open, so a crash never leaves half a call behind. *)
(* A crash throws away what is not durable and every open call.            *)
(***************************************************************************)
CONSTANTS Callers, Addresses, Contents, Fresh

VARIABLES durable, current, open

StoreVars == <<durable, current, open>>

StoreInit ==
    /\ durable = [a \in Addresses |-> Fresh]
    /\ current = durable
    /\ open = {}

Begin(c) ==
    /\ c \notin open
    /\ open' = open \cup {c}
    /\ UNCHANGED <<durable, current>>

Put(c, a, x) ==
    /\ c \in open
    /\ current' = [current EXCEPT ![a] = x]
    /\ UNCHANGED <<durable, open>>

End(c) ==
    /\ c \in open
    /\ open' = open \ {c}
    /\ UNCHANGED <<durable, current>>

Persist ==
    /\ open = {}
    /\ durable' = current
    /\ UNCHANGED <<current, open>>

LosePower ==
    /\ current' = durable
    /\ open' = {}
    /\ UNCHANGED durable

StoreNext ==
    \/ \E c \in Callers :
        \/ Begin(c) \/ End(c)
        \/ \E a \in Addresses, x \in Contents : Put(c, a, x)
    \/ Persist \/ LosePower

StoreSpec == StoreInit /\ [][StoreNext]_StoreVars

=============================================================================
