------------------------------- MODULE MCApps -------------------------------
(* The launcher and one more application.                                  *)
EXTENDS Apps
=============================================================================
