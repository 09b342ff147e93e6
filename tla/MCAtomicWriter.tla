--------------------------- MODULE MCAtomicWriter ---------------------------
(***************************************************************************)
(* Instances of AtomicWriter for TLC.                                      *)
(***************************************************************************)
EXTENDS AtomicWriterProperties

CONSTANTS cert, key, legacy, c1, c2, d1, d2, d3, d4

\* One release wrote only a part of the names, one wrote a name more, and this
\* one writes the two.
Releases == {{cert}, {cert, key}, {cert, legacy}}
=============================================================================
