------------------------------ MODULE MCDaemon ------------------------------
(* An instance of Daemon for TLC: a server that is started twice.            *)
EXTENDS Daemon, TLC
=============================================================================
