--------------------------- MODULE MCLiveShortener -------------------------
(***************************************************************************)
(* LiveShortener for TLC.  URLs and links are interchangeable: neither     *)
(* CONSTANT occurs in the specification but as a set.                      *)
(***************************************************************************)
EXTENDS LiveShortener, TLC

MCSymmetry == Permutations(Urls) \cup Permutations(Codes)
=============================================================================
