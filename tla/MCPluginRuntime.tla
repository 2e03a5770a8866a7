--------------------------- MODULE MCPluginRuntime ---------------------------
(* Small instances of PluginRuntime for TLC. *)
EXTENDS PluginRuntime
=============================================================================
