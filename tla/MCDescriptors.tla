---------------------------- MODULE MCDescriptors ----------------------------
(* Instances of Descriptors: input files, one read once, an output file.   *)
EXTENDS Descriptors, TLC

CONSTANTS a, b, c, d, urandom, out

MCName(f) == f
Inputs    == Permutations({a, b, c, d})
=============================================================================
