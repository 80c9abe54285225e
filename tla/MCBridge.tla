------------------------------- MODULE MCBridge -------------------------------
(* Model checking of Bridge: symmetry for the safety run.                    *)
EXTENDS Bridge, TLC

RequestSymmetry == Permutations(Logins) \cup Permutations(Submits)
==============================================================================
