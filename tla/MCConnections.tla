--------------------------- MODULE MCConnections ---------------------------
(* Three connections of two addresses, and two ids. With MCOneAddress and   *)
(* four connections, TLC refutes MulticlientLimitHolds.                     *)
EXTENDS Connections, TLC

CONSTANTS c1, c2, c3, c4, i1, i2

MCIpidOf == [c \in Conn |-> IF c = c3 THEN i2 ELSE i1]
MCOneAddress == [c \in Conn |-> i1]

=============================================================================
