----------------------------- MODULE Heartbeat ------------------------------
(***************************************************************************)
(* Heartbeats (crates/microdns-federation: leaf.rs, coordinator.rs,        *)
(* heartbeat.rs): a leaf publishes one every interval, the coordinator     *)
(* notes when it received it, reports an instance as healthy while the     *)
(* note is younger than the timeout and drops it at three timeouts.        *)
(*                                                                         *)
(* A note carries its age by the wall clock, which an operator or NTP may  *)
(* set; the age is cut to an unsigned number when it is read, so that one  *)
(* from the future wraps to a huge one.  The bus may lose a heartbeat, or  *)
(* publishing may fail, which is only logged; one that arrives does so     *)
(* before the next second.  Ages above the pruning age behave alike and    *)
(* are capped.  Leases and health events are only logged by the            *)
(* coordinator.  The sync agent of the leaves is in module ConfigSync.     *)
(***************************************************************************)
EXTENDS Integers, Nothing

CONSTANTS Leaves,
          Interval,     \* heartbeat_interval_secs of leaf and coordinator
          ClockSteps,   \* by how much the clock may be set
          Wrap         \* 2^64, or any number above all ages

Timeout == 3 * Interval
MaxAge == 3 * Timeout

ASSUME BeatAssumption ==
    /\ Interval \in Nat \ {0} /\ ClockSteps \subseteq Int /\ None \notin Int
    /\ Wrap \in Nat /\ Wrap > MaxAge
    /\ \A d \in ClockSteps : d > -Wrap /\ Wrap + d > MaxAge

VARIABLES instances,   \* the table: the age of the note of a leaf, or None
          due,         \* seconds to the next heartbeat of a leaf, None when it is down
          wire,        \* leaves with a heartbeat on the bus
          missed,      \* history: heartbeats of this start of the leaf lost in a row
          silent,      \* history: seconds since the coordinator noted one
          stepped      \* history: the clock was set since that note

beatVars == <<instances, due, wire, missed, silent, stepped>>

Cap(n) == IF n > MaxAge THEN MaxAge ELSE n

BeatInit ==
    /\ instances = [l \in Leaves |-> None] /\ due = [l \in Leaves |-> None] /\ wire = {}
    /\ missed = [l \in Leaves |-> 2] /\ silent = [l \in Leaves |-> MaxAge]
    /\ stepped = [l \in Leaves |-> FALSE]

-----------------------------------------------------------------------------
(* The leaf: the first tick of its timer is at once. *)

LeafStart(l) ==
    /\ due[l] = None
    /\ due' = [due EXCEPT ![l] = 0] /\ missed' = [missed EXCEPT ![l] = 2]
    /\ UNCHANGED <<instances, wire, silent, stepped>>

LeafStop(l) ==
    /\ due[l] # None /\ due' = [due EXCEPT ![l] = None]
    /\ UNCHANGED <<instances, wire, missed, silent, stepped>>

Beat(l, sent) ==
    /\ due[l] = 0 /\ due' = [due EXCEPT ![l] = Interval]
    /\ wire' = IF sent THEN wire \cup {l} ELSE wire
    /\ missed' = IF sent \/ missed[l] = 2 THEN missed ELSE [missed EXCEPT ![l] = @ + 1]
    /\ UNCHANGED <<instances, silent, stepped>>

-----------------------------------------------------------------------------
(* The coordinator. *)

record_heartbeat(l) == instances' = [instances EXCEPT ![l] = 0]

handle_heartbeat(l) ==
    /\ l \in wire /\ wire' = wire \ {l}
    /\ record_heartbeat(l)
    /\ missed' = [missed EXCEPT ![l] = IF due[l] = None THEN @ ELSE 0]
    /\ silent' = [silent EXCEPT ![l] = 0]
    /\ stepped' = [stepped EXCEPT ![l] = FALSE] /\ UNCHANGED due

elapsed(l) == instances[l] % Wrap

\* get_all_status, get_instance_status
Healthy(l) == instances[l] # None /\ elapsed(l) < Timeout

Stale(l) == instances[l] # None /\ elapsed(l) >= MaxAge

\* Mutant: pruning is left to the arrival of heartbeats.
prune_stale_onBeat ==
    /\ wire # {} /\ \E l \in Leaves : Stale(l)
    /\ instances' = [l \in Leaves |-> IF Stale(l) THEN None ELSE instances[l]]
    /\ UNCHANGED <<due, wire, missed, silent, stepped>>

prune_stale ==
    /\ \E l \in Leaves : Stale(l)
    /\ instances' = [l \in Leaves |-> IF Stale(l) THEN None ELSE instances[l]]
    /\ UNCHANGED <<due, wire, missed, silent, stepped>>

CoordinatorRestart ==
    /\ instances' = [l \in Leaves |-> None] /\ wire' = {}
    /\ missed' = [l \in Leaves |-> 2] /\ UNCHANGED <<due, silent, stepped>>

-----------------------------------------------------------------------------
(* The bus and the clock. *)

Lose(l) ==
    /\ l \in wire /\ wire' = wire \ {l}
    /\ missed' = [missed EXCEPT ![l] = IF @ = 2 THEN 2 ELSE @ + 1]
    /\ UNCHANGED <<instances, due, silent, stepped>>

\* A second passes; a heartbeat that is due is sent before, one sent arrives.
Second ==
    /\ wire = {} /\ \A l \in Leaves : due[l] # 0
    /\ instances' = [l \in Leaves |-> IF instances[l] = None THEN None ELSE Cap(instances[l] + 1)]
    /\ due' = [l \in Leaves |-> IF due[l] = None THEN None ELSE due[l] - 1]
    /\ silent' = [l \in Leaves |-> Cap(silent[l] + 1)]
    /\ UNCHANGED <<wire, missed, stepped>>

SetClock(d) ==
    /\ \E l \in Leaves : instances[l] # None /\ ~stepped[l]
    /\ instances' = [l \in Leaves |-> IF instances[l] = None THEN None ELSE Cap(instances[l] + d)]
    /\ stepped' = [l \in Leaves |-> TRUE]
    /\ UNCHANGED <<due, wire, missed, silent>>

BeatNext ==
    \/ \E l \in Leaves : \/ LeafStart(l) \/ LeafStop(l) \/ handle_heartbeat(l) \/ Lose(l)
                         \/ \E sent \in BOOLEAN : Beat(l, sent)
    \/ prune_stale \/ CoordinatorRestart \/ Second \/ \E d \in ClockSteps : SetClock(d)

BeatSpec == BeatInit /\ [][BeatNext]_beatVars

-----------------------------------------------------------------------------
(* Properties. *)

BeatTypeOK ==
    /\ instances \in [Leaves -> {None} \cup {n \in Int : n <= MaxAge}]
    /\ due \in [Leaves -> {None} \cup (0 .. Interval)] /\ wire \subseteq Leaves
    /\ missed \in [Leaves -> 0 .. 2] /\ silent \in [Leaves -> 0 .. MaxAge] /\ stepped \in [Leaves -> BOOLEAN]

\* One lost heartbeat is no outage: a leaf that is up and was heard since it
\* came up is reported healthy at every moment, unless two in a row were lost
\* or the coordinator's clock was set.
OneLossTolerated ==
    \A l \in Leaves : due[l] # None /\ missed[l] < 2 /\ ~stepped[l] => Healthy(l)

\* An instance leaves the table, short of a restart, after three timeouts of
\* silence, or after the clock was set: a step back of a second already makes
\* every note huge.
DroppedWhenSilent ==
    [][\A l \in Leaves : instances[l] # None /\ instances'[l] = None
            => CoordinatorRestart \/ silent[l] >= MaxAge \/ stepped[l]]_beatVars

\* A leaf that is gone for good is found out: unhealthy, then out of the table.
GoneIsDropped ==
    \A l \in Leaves : <>[](due[l] = None /\ ~stepped[l]) => <>[](instances[l] = None)

\* The table is a failure detector: accurate as long as no two heartbeats in a
\* row are lost and the clock runs on, and complete.
FailureDetector == [](BeatTypeOK /\ OneLossTolerated) /\ DroppedWhenSilent /\ GoneIsDropped

=============================================================================
