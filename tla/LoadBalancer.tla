---------------------------- MODULE LoadBalancer ----------------------------
(***************************************************************************)
(* The load balancer (crates/microdns-lb): a monitor whose cycle probes    *)
(* the records that have a health check and writes their enabled flag,     *)
(* its last-alive failsafe, watchers that hold a connection to half-open   *)
(* records, the persisted health rows, and the API's edits of the same     *)
(* records.                                                                *)
(*                                                                         *)
(* A cycle is a process of one transaction or lock per step.  The records  *)
(* of a name (zone, name and type) are a group.                            *)
(*                                                                         *)
(* Left out: how a probe is made, events and the log, the choice of        *)
(* timeouts, thresholds changed while a record is monitored (they keep     *)
(* their first value), zones deleted, more than one zone, and failing      *)
(* transactions.  A bulk edit of a name is one edit per record; the serial *)
(* and the PTR records that an edit changes too are RecordApi's.           *)
(***************************************************************************)
EXTENDS Naturals, Nothing

CONSTANTS Records,             \* record ids
          Groups,              \* names
          GroupOf,             \* the name of a record
          HealthyThreshold, UnhealthyThreshold,
          MaxAge,              \* bound: ages told apart
          Kinds,               \* the health checks a record may have
          Ops, Edited          \* what the API is asked for, of which records

Checks == {"none", "probe", "halfopen"}

Row == [enabled : BOOLEAN, check : Checks]

\* ok, bad: success_count and failure_count, told apart up to the thresholds;
\* age: how old last_healthy_at is, by the later successes in the group
Health == [status : {"Unknown", "Healthy", "Unhealthy"},
           ok : 0..HealthyThreshold, bad : 0..UnhealthyThreshold,
           ht : {1, HealthyThreshold}, ut : {1, UnhealthyThreshold},
           age : 0..MaxAge \cup {None}]

Copy == [id : Records, row : Row]

ASSUME LbAssumption ==
    /\ GroupOf \in [Records -> Groups]
    /\ HealthyThreshold \in Nat \ {0}
    /\ UnhealthyThreshold \in Nat \ {0}
    /\ MaxAge \in Nat
    /\ Kinds \in [Records -> SUBSET Checks] /\ Edited \subseteq Records
    /\ None \notin Records \cup BOOLEAN \cup Nat \cup Row \cup Health \cup Copy

VARIABLES row,       \* RECORDS_TABLE: enabled flag and health check of a record
          saved,     \* LB_RECORD_HEALTH_TABLE
          health,    \* HealthState
          watching,  \* HalfOpenManager: records with a running watcher
          connected, \* watchers that hold a connection
          up,        \* environment: backends that answer
          stage,     \* where the cycle is
          live,      \* the health-checked records it found
          target,    \* its targets: enabled_in_db as read
          dropped,   \* ids whose health row is still to be deleted
          flips,     \* to_update_in_db: the new flag of records
          safe,      \* failsafe ids, at the end of to_update_in_db
          copy,      \* record as read by get_record, about to be written back
          edit,      \* the same for a request of the API
          alone      \* history: nobody else wrote since the cycle began

dbVars    == <<row, saved>>
watchVars == <<watching, connected>>
cycleVars == <<stage, live, target, dropped, flips, safe, copy>>
vars == <<dbVars, watchVars, cycleVars, health, up, edit, alone>>

Stages == {"idle", "forget", "probe", "failsafe", "apply"}

TypeOK ==
    /\ row \in [Records -> Row \cup {None}]
    /\ saved \in [Records -> Health \cup {None}]
    /\ health \in [Records -> Health \cup {None}]
    /\ watching \subseteq Records /\ connected \subseteq watching
    /\ up \subseteq Records
    /\ stage \in Stages
    /\ live \subseteq Records
    /\ target \in [Records -> BOOLEAN \cup {None}]
    /\ dropped \subseteq Records
    /\ flips \in [Records -> BOOLEAN \cup {None}]
    /\ safe \subseteq Records
    /\ copy \in Copy \cup {None}
    /\ edit \in Copy \cup {None}
    /\ alone \in BOOLEAN

Blank == [r \in Records |-> None]

\* A database with some health-checked records, never probed.
Init ==
    /\ row \in [Records -> {[enabled |-> TRUE, check |-> c] : c \in Checks}]
    /\ \A r \in Records : row[r].check \in Kinds[r]
    /\ saved = Blank /\ health = Blank
    /\ watching = {} /\ connected = {}
    /\ up \in SUBSET Records
    /\ stage = "idle" /\ live = {} /\ target = Blank
    /\ dropped = {} /\ flips = Blank /\ safe = {} /\ copy = None
    /\ edit = None /\ alone = FALSE

-----------------------------------------------------------------------------
(* state.rs *)

New(ht, ut) == [status |-> "Unknown", ok |-> 0, bad |-> 0, ht |-> ht, ut |-> ut, age |-> None]

Least(a, b) == IF a <= b THEN a ELSE b

\* RecordHealth::record_result
record_result(h, success) ==
    LET ok  == IF success THEN Least(h.ok + 1, HealthyThreshold) ELSE 0
        bad == IF success THEN 0 ELSE Least(h.bad + 1, UnhealthyThreshold)
        status == CASE success /\ (h.status = "Unknown" \/ ok >= h.ht) -> "Healthy"
                    [] ~success /\ bad >= h.ut -> "Unhealthy"
                    [] OTHER -> h.status
    IN  [h EXCEPT !.status = status, !.ok = ok, !.bad = bad,
                  !.age = IF success THEN 0 ELSE @]

should_be_enabled(h) == h.status # "Unhealthy"

\* hs with the results res of some records (None: no result), all at one time
Recorded(hs, res) ==
    LET judged(r) == IF res[r] = None THEN hs[r] ELSE record_result(hs[r], res[r])
        overtaken(r) == /\ res[r] # TRUE /\ hs[r].age # None
                        /\ \E s \in Records : /\ GroupOf[s] = GroupOf[r]
                                               /\ hs[s] # None /\ res[s] = TRUE
    IN  [r \in Records |->
           IF hs[r] = None THEN None
           ELSE IF overtaken(r) THEN [judged(r) EXCEPT !.age = Least(@ + 1, MaxAge)]
           ELSE judged(r)]

Members(hs, g) == {r \in Records : hs[r] # None /\ GroupOf[r] = g}

AllDown(hs, g) == \A r \in Members(hs, g) : hs[r].status = "Unhealthy"

\* The member seen healthy last, any of them on a tie.
LastAlive(hs, g) ==
    {r \in Members(hs, g) : /\ hs[r].age # None
                            /\ \A s \in Members(hs, g) : hs[s].age # None => hs[r].age <= hs[s].age}

\* Groups of two or more of which every member is down and one has been healthy.
InFailsafe(hs) ==
    {g \in Groups : /\ \E r, s \in Members(hs, g) : r # s
                    /\ AllDown(hs, g)
                    /\ LastAlive(hs, g) # {}}

failsafe_records(hs) ==
    {S \in SUBSET Records : /\ \A r \in S : GroupOf[r] \in InFailsafe(hs)
                                            /\ r \in LastAlive(hs, GroupOf[r])
                            /\ \A g \in InFailsafe(hs) : \E r \in S :
                                  GroupOf[r] = g /\ \A s \in S : GroupOf[s] = g => s = r}

-----------------------------------------------------------------------------
(* monitor.rs: run_check_cycle *)

Monitored == {r \in Records : row[r] # None /\ row[r].check # "none"}

HasCheck(r, c) == row[r] # None /\ row[r].check = c

\* Mutant: the ids that HealthState::retain_only returns are ignored.
Collect_keepsRows ==
    /\ stage = "idle"
    /\ stage' = "forget"
    /\ live' = Monitored
    /\ target' = [r \in Records |-> IF HasCheck(r, "probe") THEN row[r].enabled ELSE None]
    /\ health' = [r \in Records |->
                    IF r \notin Monitored THEN None
                    ELSE IF health[r] = None THEN New(HealthyThreshold, UnhealthyThreshold)
                    ELSE health[r]]
    /\ watching' = watching \cup {r \in Records : HasCheck(r, "halfopen")}
    /\ alone' = TRUE
    /\ UNCHANGED <<dbVars, connected, dropped, flips, safe, copy, up, edit>>

\* Collect and register the health-checked records, start the watchers of the
\* half-open ones, forget the state of all others.
Collect ==
    /\ stage = "idle"
    /\ stage' = "forget"
    /\ live' = Monitored
    /\ target' = [r \in Records |-> IF HasCheck(r, "probe") THEN row[r].enabled ELSE None]
    /\ health' = [r \in Records |->
                    IF r \notin Monitored THEN None
                    ELSE IF health[r] = None THEN New(HealthyThreshold, UnhealthyThreshold)
                    ELSE health[r]]
    /\ dropped' = {r \in Records : health[r] # None} \ Monitored
    /\ watching' = watching \cup {r \in Records : HasCheck(r, "halfopen")}
    /\ alone' = TRUE
    /\ UNCHANGED <<dbVars, connected, flips, safe, copy, up, edit>>

delete_lb_health(r) ==
    /\ stage = "forget" /\ r \in dropped
    /\ saved' = [saved EXCEPT ![r] = None]
    /\ dropped' = dropped \ {r}
    /\ UNCHANGED <<row, watchVars, stage, live, target, flips, safe, copy,
                   health, up, edit, alone>>

\* HalfOpenManager::retain_only. A cycle without targets goes on to persist.
retain_only ==
    /\ stage = "forget" /\ dropped = {}
    /\ watching' = watching \cap live
    /\ connected' = connected \cap live
    /\ stage' = IF target = Blank THEN "apply" ELSE "probe"
    /\ live' = {}
    /\ UNCHANGED <<dbVars, target, dropped, flips, safe, copy,
                   health, up, edit, alone>>

\* The probes run side by side. Backends come and go as they like, so one moment
\* stands for the moments at which the probes meet them.
run_probe == [r \in Records |-> IF target[r] = None THEN None ELSE r \in up]

\* Mutant: the flag is written only when the status changes.
Transitions_onlyChanges ==
    LET hs == Recorded(health, run_probe)
        wanted(r) == hs[r] = None \/ should_be_enabled(hs[r])
        changed(r) == target[r] # None /\ hs[r] # None /\ hs[r].status # health[r].status
    IN  /\ stage = "probe"
        /\ health' = hs
        /\ flips' = [r \in Records |-> IF changed(r) THEN wanted(r) ELSE None]
        /\ stage' = "failsafe" /\ target' = Blank
        /\ UNCHANGED <<dbVars, watchVars, live, dropped, safe, copy, up, edit, alone>>

\* All results are in: apply them, and compare with the flag read at the start.
Transitions ==
    LET hs == Recorded(health, run_probe)
        wanted(r) == hs[r] = None \/ should_be_enabled(hs[r])
    IN  /\ stage = "probe"
        /\ health' = hs
        /\ flips' = [r \in Records |-> IF target[r] = None \/ target[r] = wanted(r) THEN None
                                       ELSE wanted(r)]
        /\ stage' = "failsafe" /\ target' = Blank
        /\ UNCHANGED <<dbVars, watchVars, live, dropped, safe, copy, up, edit, alone>>

\* Mutant: the pick is spared, but not enabled if it is disabled already.
Failsafe_onlySpares ==
    /\ stage = "failsafe"
    /\ \E S \in failsafe_records(health) :
          flips' = [r \in Records |-> IF r \in S THEN None ELSE flips[r]]
    /\ stage' = "apply"
    /\ UNCHANGED <<dbVars, watchVars, live, target, dropped, safe, copy, health, up, edit, alone>>

\* The picks leave to_update_in_db and join it again at its end.
Failsafe ==
    /\ stage = "failsafe"
    /\ \E S \in failsafe_records(health) :
          /\ safe' = S
          /\ flips' = [r \in Records |-> IF r \in S THEN None ELSE flips[r]]
    /\ stage' = "apply"
    /\ UNCHANGED <<dbVars, watchVars, live, target, dropped, copy,
                   health, up, edit, alone>>

\* get_record of the next update: nothing to do if the record is gone or has
\* the flag already.
get_record(r, enabled) ==
    IF row[r] = None \/ row[r].enabled = enabled
    THEN copy' = None
    ELSE copy' = [id |-> r, row |-> [row[r] EXCEPT !.enabled = enabled]]

NextUpdate(r) ==
    /\ stage = "apply" /\ copy = None
    /\ \/ /\ flips[r] # None
          /\ get_record(r, flips[r])
          /\ flips' = [flips EXCEPT ![r] = None]
          /\ UNCHANGED safe
       \/ /\ flips = Blank /\ r \in safe
          /\ get_record(r, TRUE)
          /\ safe' = safe \ {r}
          /\ UNCHANGED flips
    /\ UNCHANGED <<dbVars, watchVars, stage, live, target, dropped,
                   health, up, edit, alone>>

\* Db::update_record: the whole row, an error if it is gone.
Written(c) == [r \in Records |-> IF r = c.id /\ row[r] # None THEN c.row ELSE row[r]]

update_record ==
    /\ stage = "apply" /\ copy # None
    /\ row' = Written(copy)
    /\ copy' = None
    /\ UNCHANGED <<saved, watchVars, stage, live, target, dropped, flips, safe,
                   health, up, edit, alone>>

\* to_persisted: a record that was never probed has no row.
Persistent(h) == h # None /\ h.ok + h.bad > 0

\* The snapshot, in one transaction; the cycle is over.
upsert_lb_health_batch ==
    /\ stage = "apply" /\ copy = None /\ flips = Blank /\ safe = {}
    /\ saved' = [r \in Records |-> IF Persistent(health[r]) THEN health[r] ELSE saved[r]]
    /\ stage' = "idle"
    /\ UNCHANGED <<row, watchVars, live, target, dropped, flips, safe, copy, health, up, edit, alone>>

Cycle ==
    \/ Collect \/ retain_only \/ Transitions \/ Failsafe \/ update_record
    \/ upsert_lb_health_batch
    \/ \E r \in Records : delete_lb_health(r) \/ NextUpdate(r)

-----------------------------------------------------------------------------
(* halfopen.rs: run_watcher *)

Only(r, b) == [s \in Records |-> IF s = r THEN b ELSE None]

\* publish_status registers the record again if the cycle has just dropped it.
publish_status(r, success) ==
    health' = Recorded([health EXCEPT ![r] = IF @ = None THEN New(1, 1) ELSE @],
                       Only(r, success))

\* A connection attempt succeeds or fails, and is tried again.
connect(r) ==
    /\ r \in watching \ connected
    /\ connected' = IF r \in up THEN connected \cup {r} ELSE connected
    /\ publish_status(r, r \in up)
    /\ UNCHANGED <<dbVars, watching, cycleVars, up, edit, alone>>

\* The connection ends: the backend died, or closed it.
read(r) ==
    /\ r \in connected
    /\ connected' = connected \ {r}
    /\ publish_status(r, FALSE)
    /\ UNCHANGED <<dbVars, watching, cycleVars, up, edit, alone>>

-----------------------------------------------------------------------------
(* The API, backends, crashes. *)

\* PUT of a record, bulk_set or bulk_clear of the health checks of a name: the
\* row is read,
ApiRead(r, enabled, check) ==
    /\ edit = None /\ row[r] # None /\ r \in Edited
    /\ row[r] # [enabled |-> enabled, check |-> check]
    /\ enabled # row[r].enabled => "enable" \in Ops
    /\ check # row[r].check => IF check = "none" THEN "clear" \in Ops ELSE "set" \in Ops
    /\ edit' = [id |-> r, row |-> [enabled |-> enabled, check |-> check]]
    /\ UNCHANGED <<dbVars, watchVars, cycleVars, health, up, alone>>

\* and written back.
ApiWrite ==
    /\ edit # None
    /\ row' = Written(edit)
    /\ edit' = None /\ alone' = FALSE
    /\ UNCHANGED <<saved, watchVars, cycleVars, health, up>>

\* Db::delete_record takes the health row along.
ApiDelete(r) ==
    /\ "delete" \in Ops /\ row[r] # None /\ r \in Edited
    /\ row' = [row EXCEPT ![r] = None]
    /\ saved' = [saved EXCEPT ![r] = None]
    /\ alone' = FALSE
    /\ UNCHANGED <<watchVars, cycleVars, health, up, edit>>

Api ==
    \/ ApiWrite
    \/ \E r \in Records : \/ ApiDelete(r)
                           \/ \E b \in BOOLEAN, c \in Kinds[r] \cup {"none"} : ApiRead(r, b, c)

\* Backends come and go.
Backend(r) ==
    /\ up' = IF r \in up THEN up \ {r} ELSE up \cup {r}
    /\ UNCHANGED <<dbVars, watchVars, cycleVars, health, edit, alone>>

\* hydrate: the saved rows of records that still have a health check.
Hydrated(r) == saved[r] # None /\ r \in Monitored

\* A crash, and the restart with its hydration.
Restart ==
    /\ "crash" \in Ops
    /\ saved' = [r \in Records |-> IF Hydrated(r) THEN saved[r] ELSE None]
    /\ health' = [r \in Records |->
                    IF Hydrated(r) THEN [saved[r] EXCEPT !.ht = HealthyThreshold,
                                                         !.ut = UnhealthyThreshold]
                    ELSE None]
    /\ watching' = {} /\ connected' = {}
    /\ stage' = "idle" /\ live' = {} /\ target' = Blank
    /\ dropped' = {} /\ flips' = Blank /\ safe' = {} /\ copy' = None
    /\ edit' = None /\ alone' = FALSE
    /\ UNCHANGED <<row, up>>

Next ==
    \/ Cycle
    \/ \E r \in Records : connect(r) \/ read(r) \/ Backend(r)
    \/ Api
    \/ Restart

\* The monitor's interval keeps ticking and probes have timeouts; a request
\* that was read is written; a watcher tries again, and keepalive ends the
\* connection to a dead backend.
Fairness ==
    /\ WF_vars(Cycle) /\ WF_vars(ApiWrite)
    /\ \A r \in Records : WF_vars(connect(r)) /\ WF_vars(r \notin up /\ read(r))

Spec == Init /\ [][Next]_vars /\ Fairness

-----------------------------------------------------------------------------
(* Properties. *)

\* A cycle that nobody disturbed is over.
Settled == stage = "idle" /\ alone

\* Records the cycle alone looks after: probed, with no watcher left over from
\* another kind of check.
Probed(r) == HasCheck(r, "probe") /\ r \notin watching

\* After an undisturbed cycle a name of two or more probed records, one of which
\* has ever been healthy or is not known to be down, has an answer, even if all
\* its backends are down (failsafe_records: "last alive").
Answered ==
    Settled => \A g \in Groups : LET M == Members(health, g) IN
        /\ \E r, s \in M : r # s
        /\ \A r \in M : Probed(r)
        /\ \E r \in M : health[r].age # None \/ health[r].status # "Unhealthy"
        => \E r \in M : row[r].enabled

\* In the failsafe exactly one of the records seen healthy last is served, also
\* when the pick moves from one to another (failsafe_records, "last alive").
FailsafeOne ==
    Settled => \A g \in InFailsafe(health) : LET M == Members(health, g) IN
        (\A r \in M : Probed(r))
        => \E r \in LastAlive(health, g) : {s \in M : row[s].enabled} = {r}

\* After an undisturbed cycle, outside the failsafe, the flag of a probed record
\* is what its health says (should_be_enabled). In a name with watched records a
\* reconnect may end the failsafe after the cycle.
FlagFollowsHealth ==
    Settled => \A g \in Groups :
        (\A r \in Members(health, g) : Probed(r)) /\ g \notin InFailsafe(health)
        => \A r \in Members(health, g) : row[r].enabled = should_be_enabled(health[r])

Served(r) == row[r] # None /\ row[r].enabled

\* The operators leave the records alone from some time on, and crashes end.
Calm == <>[][~Api /\ ~Restart]_vars

\* A backend that is down for good is taken out of the answers for good, when
\* another one of its name is up for good: crashes, edits and stale flags only
\* cost cycles.
DownGoes ==
    Calm => \A r, s \in Records : GroupOf[r] = GroupOf[s] =>
        (<>[](Probed(r) /\ r \notin up) /\ <>[](Probed(s) /\ s \in up)
         => <>[]~Served(r))

\* A backend that is up for good is answered for good.
UpReturns ==
    Calm => \A r \in Records : <>[](Probed(r) /\ r \in up) => <>[]Served(r)

\* A record that is deleted, or has no health check any more, leaves neither state,
\* health row nor watcher behind, although a snapshot of the cycle or a watcher's
\* last word may bring state and row back after they were removed.
Forgotten ==
    Calm => \A r \in Records :
        <>[](r \notin Monitored)
        => <>[](saved[r] = None /\ health[r] = None /\ r \notin watching)

\* After an undisturbed cycle what is served is what health says: the healthy
\* records of a name, or the last alive of them, and at least one.
ServedByHealth == TypeOK /\ FlagFollowsHealth /\ FailsafeOne /\ Answered

\* Whatever crashes, edits and stale flags there were, the flags end up right.
Recovers == DownGoes /\ UpReturns

=============================================================================
