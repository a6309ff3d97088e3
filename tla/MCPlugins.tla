------------------------------- MODULE MCPlugins -------------------------------
(* Instances of PluginTasks for TLC. *)
EXTENDS PluginTasks

CONSTANTS id1, id2

\* Two plugins, and a duplicate of the first.
Discovered == <<id1, id1, id2>>

\* The first plugin registers a second task.
Registered == <<2, 1, 1>>
=============================================================================
