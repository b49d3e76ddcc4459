------------------------------- MODULE MCRouter -------------------------------
(***************************************************************************)
(* Instances of Router for TLC.                                            *)
(***************************************************************************)
EXTENDS Router, TLC

CONSTANTS n1, n2, p1, p2, p3

\* A single pod.
OnlyPod == p1 :> n1

\* A rolling update of node n1: its old and its new pod are both listed.
RollingUpdate == p1 :> n1 @@ p2 :> n1 @@ p3 :> n2
===============================================================================
