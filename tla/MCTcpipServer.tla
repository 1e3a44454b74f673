--------------------------- MODULE MCTcpipServer ---------------------------
(* Instances of TcpipServer for TLC.                                       *)
EXTENDS TcpipServer

MCPorts == {23, 90}
OnePort == <<23>>
TwoPorts == <<90, 23>>
SecondDisabled == <<90, 0>>
OneTimeout == <<1>>
TwoTimeouts == <<0, 1>>
FirstTimeout == <<1, 0>>
NoServer == {}
NoTimeouts == <<0, 0>>
FirstServer == {1}
=============================================================================
