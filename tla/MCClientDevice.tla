---------------------------- MODULE MCClientDevice ----------------------------
(***************************************************************************)
(* One device for TLC: a toy on UDP, or a controller on TCP.               *)
(***************************************************************************)
EXTENDS ClientDevice

CONSTANTS toy, ctl

Types == [d \in Client |-> IF d = ctl THEN "controller" ELSE "toy"]
=============================================================================
