---------------------------- MODULE MCScheduler ----------------------------
EXTENDS Scheduler, TLC
MCOverlap == (1 :> "skip") @@ (2 :> "allow")
MCMissed == (1 :> "run_once") @@ (2 :> "skip")
DispatcherSymmetry == Permutations(Dispatchers)
=============================================================================
