----------------------------- MODULE MCDareLoops -----------------------------
(* Small instances of DareLoops for TLC: the bounds every instance shares.   *)
EXTENDS DareLoops, TLC

MCAttempts == 2
MCTries == 2
MCQueue == 1
=============================================================================
