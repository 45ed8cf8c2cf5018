---------------------------- MODULE MC_Channel ----------------------------
(* Model-checking instance of CLIWrapperChannel: constants from the cfg.   *)
EXTENDS CLIWrapperChannel
=============================================================================
