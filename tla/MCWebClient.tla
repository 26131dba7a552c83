----------------------------- MODULE MCWebClient -----------------------------
(* Instances of WebClient for TLC. *)
EXTENDS WebClient
====
