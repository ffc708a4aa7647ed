---- MODULE MCAcme ----
(* A small instance of Acme for TLC. *)
EXTENDS Acme
====
