-------------------------- MODULE MCAddressSpaces --------------------------
EXTENDS AddressSpaces, TLC

ProcSymmetry == Permutations(Procs)
=============================================================================
