---------------------------- MODULE MCDownloader ----------------------------
(* Model values for Downloader. *)
EXTENDS Downloader, TLC

CONSTANTS f1, f2, f3, n1, n2, c1, c2, c3

\* Request slots, files and nodes are interchangeable among themselves.
MCSymmetry == Permutations({f1, f2, f3}) \cup Permutations({n1, n2})
                \cup Permutations({c1, c2, c3})
=============================================================================
