--------------------------- MODULE MCClientThread ---------------------------
(* A small instance of ClientThread for TLC. *)
EXTENDS ClientThread
=============================================================================
