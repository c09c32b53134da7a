---------------------- MODULE MCGraphTokenDistributor ----------------------
EXTENDS GraphTokenDistributor

Symmetry == Permutations(Address)
=============================================================================
