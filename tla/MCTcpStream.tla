---------------------------- MODULE MCTcpStream ----------------------------
(* An instance of TcpStream for TLC: the application writes twice what the *)
(* transmit ring holds, or the peer sends round the end of the receive     *)
(* ring, or data crosses.                                                  *)
EXTENDS TcpStream

MCLoads == {[app |-> 4, peer |-> 0, slot |-> 0], [app |-> 0, peer |-> 4, slot |-> 3],
            [app |-> 2, peer |-> 1, slot |-> 0]}
=============================================================================
