----------------------------- MODULE MCLoginItem -----------------------------
(* TLC instances of the login item setting; the constants are in the .cfg files *)
EXTENDS LoginItem

=============================================================================
