----------------------------- MODULE MCBattery -----------------------------
\* The battery monitor with two packs that share a journal.
EXTENDS Battery, TLC

PackSymmetry == Permutations(Pack)
=============================================================================
