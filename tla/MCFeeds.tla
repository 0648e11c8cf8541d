----------------------------- MODULE MCFeeds --------------------------------
(***************************************************************************)
(* What comes from other systems, model-checked in one run: zones of       *)
(* peers, services of a cluster, heartbeats of leaves, pushes to a leaf.   *)
(* They share no state, so each behaviour is one of one service: `slice`   *)
(* says which, and the others stay as they start.                          *)
(***************************************************************************)
EXTENDS Federation, K8sSource, Heartbeat, ConfigSync

CONSTANT Slices

VARIABLE slice

MCPeers == <<"p", "q">>
MCPeerOf == [z \in FedZones |-> IF z = "z1" THEN "p" ELSE "q"]

\* A service without and with a cluster IP; a pod that is ready or not.
Ready == [ip |-> "p1", ready |-> TRUE]
Unready == [ip |-> "p1", ready |-> FALSE]
MCShapes == [services |-> {None, "headless", "c1"}, slices |-> {None, {Ready}, {Unready}}]

\* Back by a second, and ahead by a timeout.
MCClockSteps == {-1, 6}

-----------------------------------------------------------------------------

mcVars == <<fedVars, k8sVars, beatVars, syncVars, slice>>

MCInit == slice \in Slices /\ FedInit /\ K8sInit /\ BeatInit /\ SyncInit

MCNext ==
    \/ slice = "federation" /\ FedNext /\ UNCHANGED <<k8sVars, beatVars, syncVars, slice>>
    \/ slice = "k8s" /\ K8sNext /\ UNCHANGED <<fedVars, beatVars, syncVars, slice>>
    \/ slice = "heartbeat" /\ BeatNext /\ UNCHANGED <<fedVars, k8sVars, syncVars, slice>>
    \/ slice = "sync" /\ SyncNext /\ UNCHANGED <<fedVars, k8sVars, beatVars, slice>>

\* The replication agent keeps going, and the reliable peers answer again and
\* again.
FedFairness ==
    /\ WF_fedVars(slice = "federation" /\ Sync) /\ WF_fedVars(slice = "federation" /\ Fail)
    /\ \A p \in Reliable : /\ SF_fedVars(slice = "federation" /\ Now = p /\ list_zones)
                           /\ SF_fedVars(slice = "federation" /\ Now = p /\ list_records)

\* The apiserver sends what happened, and the loop runs.
K8sFairness ==
    /\ WF_k8sVars(slice = "k8s" /\ Reconcile)
    /\ \A k \in Watched : WF_k8sVars(slice = "k8s" /\ watch_loop(k))

\* Time passes, timers fire, and the bus delivers or loses.
BeatFairness ==
    /\ WF_beatVars(slice = "heartbeat" /\ Second) /\ WF_beatVars(slice = "heartbeat" /\ prune_stale)
    /\ \A l \in Leaves : /\ WF_beatVars(slice = "heartbeat" /\ (handle_heartbeat(l) \/ Lose(l)))
                         /\ WF_beatVars(slice = "heartbeat" /\ \E sent \in BOOLEAN : Beat(l, sent))

MCSpec == MCInit /\ [][MCNext]_mcVars /\ FedFairness /\ K8sFairness /\ BeatFairness

=============================================================================
