------------------------- MODULE MCOfflineDownloads --------------------------
(* Instances of OfflineDownloads for TLC: two tabs, which are alike.         *)
EXTENDS OfflineDownloads, TLC

TabSymmetry == Permutations(Tabs)
=============================================================================
