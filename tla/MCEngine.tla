------------------------------ MODULE MCEngine ------------------------------
(***************************************************************************)
(* The engine on a small instance.                                         *)
(***************************************************************************)
EXTENDS EngineProperties

CONSTANTS d1, d2, alice

MCDepositAmount == [d \in Deposits |-> IF d = d1 THEN 1 ELSE 2]
MCDepositOwner == [d \in Deposits |-> alice]
MCStock == <<2, 1>>
=============================================================================
