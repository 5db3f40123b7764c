--------------------------- MODULE MCLoadBalance ---------------------------
(* A small instance of LoadBalance for TLC. *)
EXTENDS LoadBalance
=============================================================================
