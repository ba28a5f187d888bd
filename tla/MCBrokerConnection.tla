-------------------------- MODULE MCBrokerConnection --------------------------
(* Small instances of BrokerConnection for TLC: room for the connections and  *)
(* loops that two faults can lead to.                                        *)
EXTENDS BrokerConnection, TLC
=============================================================================
