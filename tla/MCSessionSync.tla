---------------------------- MODULE MCSessionSync ----------------------------
(* A short session with one command; the configurations bound the rest.     *)
EXTENDS SessionSync

=============================================================================
