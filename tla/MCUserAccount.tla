--------------------------- MODULE MCUserAccount ---------------------------
(***************************************************************************)
(* Small instances of UserAccount.                                         *)
(***************************************************************************)
EXTENDS UserAccount, TLC

\* Passwords, OTPs, texts and request slots are interchangeable.
Symmetry == Permutations(Password) \cup Permutations(Otp)
              \cup Permutations(Text) \cup Permutations(Request)

=============================================================================
