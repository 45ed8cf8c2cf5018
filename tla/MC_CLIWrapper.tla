--------------------------- MODULE MC_CLIWrapper ---------------------------
(* Model-checking instance of CLIWrapper: the constants come from the cfg. *)
EXTENDS CLIWrapper

=============================================================================
