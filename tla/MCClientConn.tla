----------------------------- MODULE MCClientConn ------------------------------
(* One connection slot and one peer: the slot is taken, served and released    *)
(* (with MaxGen = 1 no second connection takes it).                            *)
EXTENDS ClientConn
================================================================================
