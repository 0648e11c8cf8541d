--------------------------- MODULE MCLoadBalancer ---------------------------
(* LoadBalancer on small instances: two records of one name, in two slices:    *)
(* "serve", where health checks stay as they are, and "checks", where they are *)
(* set and cleared, the process does not crash and the backend of b is up.     *)
EXTENDS LoadBalancer

CONSTANTS a, b, Slices

VARIABLE slice

OneGroup == [r \in Records |-> "n"]

\* a is probed or watched, b is probed.
AMayBeWatched == [r \in Records |-> IF r = a THEN {"probe", "halfopen"} ELSE {"probe"}]

Asked == IF edit = None /\ edit' # None THEN {edit'} ELSE {}

InSlice ==
    IF slice = "serve" THEN \A e \in Asked : e.row.check = row[e.id].check
    ELSE b \in up' /\ ~Restart /\ \A e \in Asked : e.row.enabled = row[e.id].enabled

MCInit == Init /\ slice \in Slices /\ (slice = "checks" => b \in up)
MCNext == Next /\ InSlice /\ UNCHANGED slice
MCSpec == MCInit /\ [][MCNext]_<<vars, slice>> /\ Fairness
=============================================================================
