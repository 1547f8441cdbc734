------------------------------- MODULE MCEthTx -------------------------------
(* Three tasks named after their priorities; two of them are in the build, *)
(* the tcpip thread (4) and the link monitor (2).                          *)
EXTENDS EthTx

MCSender == {1, 2, 4}
MCprio == [t \in MCSender |-> t]
=============================================================================
