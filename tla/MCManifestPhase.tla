-------------------------- MODULE MCManifestPhase --------------------------
(* Model values for ManifestPhase. *)
EXTENDS ManifestPhase, TLC

CONSTANTS exe, vcam, p1, p2, q1, q2

MCSymmetry == Permutations({p1, p2}) \cup Permutations({q1, q2})
=============================================================================
