------------------------------ MODULE MCMenuBar ------------------------------
(* TLC instances of the menu bar icon; the constants are in the .cfg files *)
EXTENDS MenuBar

=============================================================================
