----------------------------- MODULE MCBufPool -----------------------------
(* A small instance of BufPool for TLC: classes of 1, 2 and 4 units with a *)
(* piece each, and memory for one more of the smaller two.                 *)
EXTENDS BufPool

MCMade == <<1, 2, 4>>
=============================================================================
