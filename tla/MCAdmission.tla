---------------------------- MODULE MCAdmission ----------------------------
(* Instances of Admission for TLC.  No symmetry is declared: the runs check *)
(* liveness too, and symmetry is unsound for it.                            *)
EXTENDS Admission
=============================================================================
