------------------------------ MODULE MCEscrow ------------------------------
(* Instances of EscrowManager for TLC.  With a minimal deposit of 2 and a   *)
(* cap of 8 the steps are 2, 4, 8, 16, ...; a debt of 3 that fills the step  *)
(* of 4 exactly asks for 8, and two of them for more than a cycle pays.     *)
EXTENDS EscrowManager

OneReceiver  == {1}
TwoReceivers == {1, 2}
NoOrFullDebt == {0, 3}
NoOrSmallDebt == {0, 2}
NoConfigDebts == [r \in Receivers |-> 0]
OneCollection == {3}
=============================================================================
