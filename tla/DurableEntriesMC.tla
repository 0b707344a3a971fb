-------------------------- MODULE DurableEntriesMC --------------------------
EXTENDS DurableEntries, TLC

DeviceSymmetry == Permutations(Tabs)
=============================================================================
