-------------------------- MODULE MCHighScoreStore --------------------------
(***************************************************************************)
(* Constants for model checking HighScoreStore.  Files are interchangeable *)
(* and at most four can be known at once by two names in memory and two on *)
(* the flash, so five always leave a free one.                             *)
(***************************************************************************)
EXTENDS HighScoreStore, TLC

CONSTANTS i1, i2, i3, i4, i5

Files == {i1, i2, i3, i4, i5}

AnyFile == Permutations(Files)

=============================================================================
