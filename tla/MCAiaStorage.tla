--------------------------- MODULE MCAiaStorage ---------------------------
(* Tokens are only ever compared with each other and with NUL. *)
EXTENDS AiaStorage, TLC

TokenSymmetry == Permutations(Token)
===========================================================================
