---------------------------- MODULE MCLauncher ----------------------------
(* TLC instance of Launcher. *)
EXTENDS Launcher
=============================================================================
