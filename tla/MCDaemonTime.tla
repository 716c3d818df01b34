---------------------------- MODULE MCDaemonTime ----------------------------
(* Instances of DaemonTime for TLC; the constants are given in the cfg.     *)
EXTENDS DaemonTime

=============================================================================
