----------------------------- MODULE MCLauncher -----------------------------
EXTENDS Launcher, TLC
CommandSymmetry == Permutations(Commands)
=============================================================================
