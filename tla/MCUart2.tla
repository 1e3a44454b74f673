------------------------------ MODULE MCUart2 ------------------------------
(* The instance of Uart2 for TLC.                                          *)
EXTENDS Uart2
=============================================================================
