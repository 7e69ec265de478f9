--------------------------- MODULE MCHelperClient ---------------------------
(* TLC instance of the helper's client; the constants are in the .cfg file *)
EXTENDS HelperClient
=============================================================================
