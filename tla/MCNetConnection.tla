---------------------------- MODULE MCNetConnection ----------------------------
EXTENDS NetConnection
CONSTANTS left, right, tcp, udp, udp2
RightCalls == [c \in Conn |-> right]
===============================================================================
