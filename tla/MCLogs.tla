---- MODULE MCLogs ----
(* A small instance of Logs for TLC. *)
EXTENDS Logs
====
