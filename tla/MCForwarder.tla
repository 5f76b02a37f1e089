---------------------------- MODULE MCForwarder -----------------------------
(* Forwarder with a few bytes in each direction.                             *)
EXTENDS Forwarder
=============================================================================
