---------------------------- MODULE BoundedFifo ----------------------------
(***************************************************************************)
(* What a pipe promises: bytes come out in the order they went in, none    *)
(* lost, none twice, and never more than Capacity of them inside.  Pipes   *)
(* implements this.                                                        *)
(***************************************************************************)
EXTENDS Naturals, Sequences

CONSTANTS Items, Capacity

VARIABLE fifo

FifoInit == fifo = <<>>

\* One call puts in several items or takes out several.
Put ==
    /\ Len(fifo') <= Capacity
    /\ Len(fifo') > Len(fifo)
    /\ SubSeq(fifo', 1, Len(fifo)) = fifo
    /\ fifo' \in Seq(Items)

Take ==
    /\ fifo # <<>>
    /\ Len(fifo') < Len(fifo)
    /\ fifo' = SubSeq(fifo, Len(fifo) - Len(fifo') + 1, Len(fifo))

FifoSpec == FifoInit /\ [][Put \/ Take]_fifo

=============================================================================
