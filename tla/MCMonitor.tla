------------------------------ MODULE MCMonitor ------------------------------
(***************************************************************************)
(* Instances of Monitor for TLC.                                           *)
(***************************************************************************)
EXTENDS Monitor

EveryWiring == {{"xid"}, {"k8s"}, {"xid", "k8s"}}
OneOnly == {{"xid"}, {"k8s"}}
===============================================================================
