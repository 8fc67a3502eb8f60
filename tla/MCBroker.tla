------------------------------ MODULE MCBroker ------------------------------
(***************************************************************************)
(* Instances of Broker for TLC.                                            *)
(***************************************************************************)
EXTENDS Broker

CONSTANTS c1, snapshotCommand

OneClient == {c1}
OneCommand == {snapshotCommand}
=============================================================================
