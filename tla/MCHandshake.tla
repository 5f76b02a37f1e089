----------------------------- MODULE MCHandshake -----------------------------
(* Handshake with every client, server and network.                           *)
EXTENDS Handshake
==============================================================================
