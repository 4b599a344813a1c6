---------------------------- MODULE MCTikTokAccounts ----------------------------
(* Instances of TikTokAccounts for TLC.                                     *)
EXTENDS TikTokAccounts, TLC

(* The posts differ in nothing: for wider instances that check no liveness.  *)
PostSymmetry == Permutations(Post)
=============================================================================
