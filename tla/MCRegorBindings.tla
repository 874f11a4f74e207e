--------------------------- MODULE MCRegorBindings ---------------------------
(***************************************************************************)
(* Model checking RegorBindings: the constants of its configurations.      *)
(***************************************************************************)
EXTENDS RegorRefinement, TLC

CONSTANTS t1, t2, c1, c2, d1, d2, silent, errors

MCThreads == {t1, t2}
MCOneCompiler == {c1}
MCTwoCompilers == {c1, c2}
MCDocs == {d1}
MCTwoDocs == {d1, d2}
MCFilters == {silent, errors}

(* Threads, Compilers and documents are interchangeable.                   *)
Symmetry == Permutations(MCThreads) \cup Permutations(MCTwoCompilers)
              \cup Permutations(MCTwoDocs)
=============================================================================
