-------------------------- MODULE MCLiveProjections --------------------------
EXTENDS LiveProjections, TLC

\* The runs of the worker are alike.
Symmetry == Permutations(Goroutines)
=============================================================================
