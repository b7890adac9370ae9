---------------------------- MODULE MCCreateLink ---------------------------
(***************************************************************************)
(* CreateLink for TLC.  URLs and submissions are interchangeable.          *)
(***************************************************************************)
EXTENDS CreateLink, TLC

MCSymmetry == Permutations(Urls) \cup Permutations(Codes)
=============================================================================
