---------------------------- MODULE MCLiveWallet ----------------------------
EXTENDS LiveWalletQueue, TLC

CONSTANTS w1, w2, c1, c2

WorkerSymmetry == Permutations(Workers)
=============================================================================
