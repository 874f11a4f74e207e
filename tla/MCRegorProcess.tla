--------------------------- MODULE MCRegorProcess ---------------------------
(***************************************************************************)
(* Model checking RegorProcess: a chunk that is part of a line, and one    *)
(* that ends it; or, where only progress matters, whole lines.             *)
(***************************************************************************)
EXTENDS RegorProcess, TLC

CONSTANTS t1, t2, c1, d1, silent, errors

MCThreads == {t1, t2}
MCCompilers == {c1}
MCDocs == {d1}
MCFilters == {silent, errors}
MCChunks == {<<"text">>, <<"nl">>}
MCLines == {<<"text", "nl">>}

(* Threads are interchangeable.                                            *)
MCSymmetry == Permutations(MCThreads)
=============================================================================
