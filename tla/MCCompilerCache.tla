--------------------------- MODULE MCCompilerCache ---------------------------
(* Two contents of the tracked file, 1 being that of the locked release. *)
EXTENDS CompilerCache

MCBuilds == Permutations(Build)
=============================================================================
