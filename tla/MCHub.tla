-------------------------------- MODULE MCHub --------------------------------
EXTENDS Hub
MCRanges == {<<>>, <<2, 1, 2>>, <<1, 1, 2, 2>>}
MCSymmetry == Permutations(Blocks) \cup Permutations(Hubs)
=============================================================================
