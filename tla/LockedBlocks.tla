---------------------------- MODULE LockedBlocks ----------------------------
(***************************************************************************)
(* What bread(), bwrite() and brelse() promise: the blocks of a disk, each *)
(* with one value and at most one holder; only the holder of a block       *)
(* changes it, and reading a block, writing it back, evicting it and       *)
(* reading it again change nothing.  BufferCache implements this.          *)
(***************************************************************************)
CONSTANTS Holders, Addresses, Contents, Fresh, Nobody

VARIABLES value, holder

BlockVars == <<value, holder>>

BlocksInit ==
    /\ value = [a \in Addresses |-> Fresh]
    /\ holder = [a \in Addresses |-> Nobody]

Hold(p, a) ==
    /\ holder[a] = Nobody
    /\ holder' = [holder EXCEPT ![a] = p]
    /\ UNCHANGED value

Change(p, a, x) ==
    /\ holder[a] = p
    /\ value' = [value EXCEPT ![a] = x]
    /\ UNCHANGED holder

LetGo(p, a) ==
    /\ holder[a] = p
    /\ holder' = [holder EXCEPT ![a] = Nobody]
    /\ UNCHANGED value

BlocksNext ==
    \E p \in Holders, a \in Addresses :
        Hold(p, a) \/ LetGo(p, a) \/ \E x \in Contents : Change(p, a, x)

BlocksSpec == BlocksInit /\ [][BlocksNext]_BlockVars

=============================================================================
