-------------------------- MODULE MCServerLifecycle --------------------------
(* One run of the server process, with the source's limit of errors.       *)
EXTENDS ServerLifecycle

=============================================================================
