--------------------------- MODULE MCFileUpdater ---------------------------
(* Model values for FileUpdater: the version file and two others, of every  *)
(* kind and in every combination.                                           *)
EXTENDS FileUpdater, TLC

CONSTANTS asar, f1, f2

MCFiles == {asar, f1, f2}

\* The two ordinary files are interchangeable.
MCSymmetry == Permutations({f1, f2})
=============================================================================
