---------------------------- MODULE MCEncoderPool ----------------------------
(* An instance of EncoderPool: two goroutines that pass buffers on.        *)
EXTENDS EncoderPool, TLC

SixBlocks == 1 .. 6
FiveBlocks == 1 .. 5
GoroutineSymmetry == Permutations(Goroutines)
=============================================================================
