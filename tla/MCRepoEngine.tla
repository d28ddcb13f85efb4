--------------------------- MODULE MCRepoEngine ---------------------------
(***************************************************************************)
(* Instances of RepoEngine for TLC.                                        *)
(***************************************************************************)
EXTENDS RepoEngine, TLC

CONSTANTS k1, k2, k3

\* Two subtrees under the root, one of them with two records.
TwoSubtrees == {Key, {k1, k2} \cap Key, {k3} \cap Key}
APair       == {Key, {k1}, {k2}}

Symmetry == Permutations(Writer) \cup Permutations(Content)
=============================================================================
