---- MODULE MCCloudAgent ----
(* The instance of CloudAgent for TLC. *)
EXTENDS CloudAgent, TLC
====
