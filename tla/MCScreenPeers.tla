--------------------------- MODULE MCScreenPeers ---------------------------
EXTENDS ScreenPeers, TLC
Symmetry == Permutations(Contexts) \cup Permutations(Peers)
============================================================================
