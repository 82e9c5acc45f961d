-------------------------- MODULE MCOperatorEvents --------------------------
\* Connections of one user.
EXTENDS OperatorEvents

CONSTANTS c1, c2, u1

MCUserOf == [c \in Clients |-> u1]
=============================================================================
