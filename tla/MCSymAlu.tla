------------------------------ MODULE MCSymAlu ------------------------------
(* Words of four bits; immediates are negative, zero and the width itself.  *)
EXTENDS SymAlu
SmallImms == {-2, 0, 1, 3, 4}
=============================================================================
