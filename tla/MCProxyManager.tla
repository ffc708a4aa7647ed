---- MODULE MCProxyManager ----
(* A small instance of ProxyManager for TLC. *)
EXTENDS ProxyManager
====
