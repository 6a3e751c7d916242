------------------------------ MODULE MCImages ------------------------------
(* A small instance of Images. *)
EXTENDS Images, TLC

CONSTANTS a1, a2

TwoAdmins   == {a1, a2}
ImgSymmetry == Permutations(TwoAdmins)

=============================================================================
