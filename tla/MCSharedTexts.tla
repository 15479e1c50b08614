---------------------------- MODULE MCSharedTexts ----------------------------
EXTENDS SharedTexts, TLC

\* Addresses are only compared, and every property is an invariant.
Symmetry == Permutations(Addresses)
=============================================================================
