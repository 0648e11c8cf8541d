-------------------------- MODULE ReconcileProofs ---------------------------
(***************************************************************************)
(* Proofs about the two loops that bring records in line with the world.   *)
(*                                                                         *)
(* The load balancer, for any records, names and thresholds: after an      *)
(* undisturbed cycle what is served is what health says.  The invariant    *)
(* follows the cycle: while nobody else writes, the records it collected,  *)
(* the flags it compared with and the flags it is about to write are those *)
(* of the database, and the health of a name without watched records is    *)
(* not touched after the probes.                                           *)
(*                                                                         *)
(* The Kubernetes source, for any services, pods and watches: between two  *)
(* passes the PTR records are true.  The invariant says which pass, this   *)
(* one or the one before, put a PTR record there.                          *)
(***************************************************************************)
EXTENDS LoadBalancer, K8sSource, WellFoundedInduction, TLAPS

-----------------------------------------------------------------------------
(* The load balancer. *)

\* A name of which every registered record is probed.
Quiet(g) == \A r \in Members(health, g) : Probed(r)

\* The flag a record has when all that the cycle decided is written.
Final(r) ==
    IF r \in safe THEN TRUE
    ELSE IF copy # None /\ copy.id = r THEN copy.row.enabled
    ELSE IF flips[r] # None THEN flips[r]
    ELSE row[r].enabled

\* What the cycle holds in each stage.
StageShape ==
    /\ stage \notin {"failsafe", "apply"} => flips = Blank
    /\ stage # "apply" => safe = {} /\ copy = None
    /\ \A r \in safe : flips[r] = None /\ (copy # None => copy.id # r)
    /\ copy # None => flips[copy.id] = None

\* While the cycle is alone: what it found is what is there.
Collected ==
    alone => /\ \A r \in Monitored : health[r] # None
             /\ stage = "forget" => live = Monitored
             /\ stage # "forget" => watching \subseteq Monitored
             /\ stage \in {"forget", "probe"} =>
                   \A r \in Records : target[r] = IF HasCheck(r, "probe") THEN row[r].enabled ELSE None
             /\ copy # None => row[copy.id] # None /\ copy.row.check = row[copy.id].check

\* The flags follow health in the end.
Judged(g) == \A r \in Members(health, g) : Final(r) = should_be_enabled(health[r])

\* The same, but in the failsafe one of the last alive is served, alone.
Decided(g) ==
    IF g \in InFailsafe(health)
    THEN \E r \in LastAlive(health, g) : \A s \in Members(health, g) : Final(s) = (s = r)
    ELSE Judged(g)

Flagged ==
    alone => \A g \in Groups : Quiet(g) =>
        /\ stage = "failsafe" => Judged(g)
        /\ stage \in {"apply", "idle"} => Decided(g)

LbInv == TypeOK /\ StageShape /\ Collected /\ Flagged

-----------------------------------------------------------------------------
(* Health states. *)

Healths == [Records -> Health \cup {None}]
Results == [Records -> BOOLEAN \cup {None}]

LEMMA Nones ==
    /\ None \notin Records /\ None \notin BOOLEAN /\ None \notin Nat
    /\ None \notin Row /\ None \notin Health /\ None \notin Copy
BY Zenon, LbAssumption

LEMMA RecordType ==
    ASSUME NEW h \in Health, NEW b \in BOOLEAN
    PROVE  record_result(h, b) \in Health /\ (~b => record_result(h, b).age = h.age)
<1> DEFINE ok  == IF b THEN Least(h.ok + 1, HealthyThreshold) ELSE 0
           bad == IF b THEN 0 ELSE Least(h.bad + 1, UnhealthyThreshold)
           status == CASE b /\ (h.status = "Unknown" \/ ok >= h.ht) -> "Healthy"
                       [] ~b /\ bad >= h.ut -> "Unhealthy"
                       [] OTHER -> h.status
           age == IF b THEN 0 ELSE h.age
<1>1. ok \in 0..HealthyThreshold /\ bad \in 0..UnhealthyThreshold /\ age \in 0..MaxAge \cup {None}
  BY LbAssumption DEF Health, Least
<1>2. status \in {"Unknown", "Healthy", "Unhealthy"}
  BY Zenon DEF Health
<1>3. record_result(h, b) = [h EXCEPT !.status = status, !.ok = ok, !.bad = bad, !.age = age]
  BY Zenon DEF record_result
<1> HIDE DEF ok, bad, status, age
<1>4. [h EXCEPT !.status = status, !.ok = ok, !.bad = bad, !.age = age] \in Health
  BY Zenon, <1>1, <1>2 DEF Health
<1>5. [h EXCEPT !.status = status, !.ok = ok, !.bad = bad, !.age = age].age = age
  BY Zenon DEF Health
<1> QED BY Zenon, <1>3, <1>4, <1>5 DEF age

LEMMA AgeType ==
    ASSUME NEW h \in Health, h.age # None
    PROVE  [h EXCEPT !.age = Least(@ + 1, MaxAge)] \in Health
<1>1. h.age \in 0..MaxAge
  BY Zenon DEF Health
<1>2. Least(h.age + 1, MaxAge) \in 0..MaxAge
  BY <1>1, LbAssumption DEF Least
<1> QED BY Zenon, <1>2 DEF Health

LEMMA NewType ==
    /\ New(1, 1) \in Health /\ New(HealthyThreshold, UnhealthyThreshold) \in Health
BY LbAssumption DEF New, Health

\* Results change records that are registered, and only in the names that have
\* a result.
LEMMA RecordedType ==
    ASSUME NEW hs \in Healths, NEW res \in Results
    PROVE  /\ Recorded(hs, res) \in Healths
           /\ \A r \in Records : Recorded(hs, res)[r] = None <=> hs[r] = None
           /\ \A r \in Records : (\A s \in Records : GroupOf[s] = GroupOf[r] => res[s] = None)
                                    => Recorded(hs, res)[r] = hs[r]
<1> DEFINE judged(r) == IF res[r] = None THEN hs[r] ELSE record_result(hs[r], res[r])
           overtaken(r) == /\ res[r] # TRUE /\ hs[r].age # None
                           /\ \E s \in Records : GroupOf[s] = GroupOf[r] /\ hs[s] # None /\ res[s] = TRUE
           new(r) == IF hs[r] = None THEN None
                     ELSE IF overtaken(r) THEN [judged(r) EXCEPT !.age = Least(@ + 1, MaxAge)]
                     ELSE judged(r)
<1>1. Recorded(hs, res) = [r \in Records |-> new(r)]
  BY Zenon DEF Recorded
<1>2. ASSUME NEW r \in Records, hs[r] # None
      PROVE  new(r) \in Health
  <2>1. hs[r] \in Health /\ (res[r] \in BOOLEAN \/ res[r] = None)
    BY Zenon, <1>2 DEF Healths, Results
  <2>2. judged(r) \in Health /\ (res[r] # TRUE => judged(r).age = hs[r].age)
    BY Zenon, <2>1, RecordType
  <2>3. overtaken(r) => judged(r).age # None
    BY Zenon, <2>2
  <2> HIDE DEF judged, overtaken
  <2> QED BY Zenon, <1>2, <2>2, <2>3, AgeType
<1>3. \A r \in Records : new(r) = None <=> hs[r] = None
  BY Zenon, <1>2, Nones
<1>4. ASSUME NEW r \in Records, \A s \in Records : GroupOf[s] = GroupOf[r] => res[s] = None
      PROVE  new(r) = hs[r]
  BY Zenon, <1>4, Nones
<1> HIDE DEF new
<1> QED BY Zenon, <1>1, <1>2, <1>3, <1>4 DEF Healths

\* What is said of a name depends on the health of its records alone.
LEMMA GroupStays ==
    ASSUME NEW hs, NEW ks, NEW g \in Groups, \A r \in Records : GroupOf[r] = g => ks[r] = hs[r]
    PROVE  /\ Members(ks, g) = Members(hs, g) /\ LastAlive(ks, g) = LastAlive(hs, g)
           /\ g \in InFailsafe(ks) <=> g \in InFailsafe(hs)
           /\ \A r \in Members(hs, g) : ks[r] = hs[r]
<1>1. Members(ks, g) = Members(hs, g) /\ \A r \in Members(hs, g) : ks[r] = hs[r]
  BY Zenon DEF Members
<1>2. LastAlive(ks, g) = LastAlive(hs, g)
  BY Zenon, <1>1 DEF LastAlive
<1>3. AllDown(ks, g) <=> AllDown(hs, g)
  BY Zenon, <1>1 DEF AllDown
<1> QED BY Zenon, <1>1, <1>2, <1>3 DEF InFailsafe

-----------------------------------------------------------------------------
(* Steps that leave the cycle and its records alone. *)

LEMMA CycleStays ==
    ASSUME LbInv, UNCHANGED <<row, watching, stage, live, target, flips, safe, copy, health, alone>>
    PROVE  StageShape' /\ Collected' /\ Flagged'
<1>1. \A r \in Records : (HasCheck(r, "probe")' <=> HasCheck(r, "probe")) /\ (Probed(r)' <=> Probed(r)) /\ Final(r)' = Final(r)
  BY Zenon DEF HasCheck, Probed, Final
<1>2. Monitored' = Monitored
  BY Zenon DEF Monitored
<1>3. StageShape'
  BY Zenon DEF LbInv, StageShape
<1>4. Collected'
  BY Zenon, <1>1, <1>2 DEF LbInv, Collected
<1>5. \A g \in Groups : /\ Members(health, g)' = Members(health, g)
                        /\ LastAlive(health, g)' = LastAlive(health, g) /\ InFailsafe(health)' = InFailsafe(health)
  BY Zenon DEF Members, LastAlive, InFailsafe, AllDown
<1>6. \A g \in Groups : Members(health, g) \subseteq Records
  BY Zenon DEF Members
<1>7. \A g \in Groups : (Quiet(g)' <=> Quiet(g)) /\ (Judged(g)' <=> Judged(g)) /\ (Decided(g)' <=> Decided(g))
  <2> TAKE g \in Groups
  <2>1. Quiet(g)' <=> Quiet(g)
    BY Zenon, <1>1, <1>5, <1>6 DEF Quiet
  <2>2. Judged(g)' <=> Judged(g)
    BY Zenon, <1>1, <1>5, <1>6 DEF Judged, should_be_enabled
  <2>3. Decided(g)' <=> Decided(g)
    BY <1>1, <1>5, <1>6, <2>2 DEF Decided
  <2> QED BY Zenon, <2>1, <2>2, <2>3
<1>8. Flagged'
  BY Zenon, <1>7 DEF LbInv, Flagged
<1> QED BY Zenon, <1>3, <1>4, <1>8

\* Somebody else has written: nothing is claimed until the next cycle.
LEMMA Disturbed ==
    ASSUME ~alone'
    PROVE  Collected' /\ Flagged'
BY Zenon DEF Collected, Flagged

\* A watcher's word changes the health of its own name, which then has a record
\* that is not probed.
LEMMA Published ==
    ASSUME LbInv, NEW r \in watching, NEW b \in BOOLEAN, publish_status(r, b),
           UNCHANGED <<row, watching, cycleVars, alone>>
    PROVE  /\ health' \in Healths
           /\ StageShape' /\ Collected' /\ Flagged'
<1> DEFINE hs == [health EXCEPT ![r] = IF @ = None THEN New(1, 1) ELSE @]
<1>1. TypeOK /\ r \in Records /\ UNCHANGED <<stage, live, target, dropped, flips, safe, copy>>
  BY Zenon DEF LbInv, TypeOK, cycleVars
<1>2. hs \in Healths /\ hs[r] # None /\ \A s \in Records \ {r} : hs[s] = health[s]
  BY Zenon, <1>1, Nones, NewType DEF TypeOK, Healths
<1>3. Only(r, b) \in Results /\ \A s \in Records \ {r} : Only(r, b)[s] = None
  BY Zenon, <1>1 DEF Only, Results
<1>4. health' = Recorded(hs, Only(r, b))
  BY Zenon DEF publish_status
<1> HIDE DEF hs
<1>5. /\ health' \in Healths /\ health'[r] # None
      /\ \A s \in Records : health[s] # None => health'[s] # None
      /\ \A s \in Records : GroupOf[s] # GroupOf[r] => health'[s] = health[s]
  BY <1>1, <1>2, <1>3, <1>4, RecordedType
<1>6. \A s \in Records : (HasCheck(s, "probe")' <=> HasCheck(s, "probe")) /\ (Probed(s)' <=> Probed(s)) /\ Final(s)' = Final(s)
  BY Zenon, <1>1 DEF HasCheck, Probed, Final
<1>7. Monitored' = Monitored /\ Monitored \subseteq Records
  BY Zenon DEF Monitored
<1>8. StageShape'
  BY Zenon, <1>1 DEF LbInv, StageShape
<1>9. Collected'
  BY Zenon, <1>1, <1>5, <1>6, <1>7 DEF LbInv, Collected
<1>10. ASSUME NEW g \in Groups, alone', Quiet(g)'
       PROVE  /\ stage' = "failsafe" => Judged(g)'
              /\ stage' \in {"apply", "idle"} => Decided(g)'
  <2>1. g # GroupOf[r]
    <3>1. r \in Members(health, GroupOf[r])' /\ ~Probed(r)'
      BY Zenon, <1>1, <1>5 DEF Members, Probed
    <3> QED BY Zenon, <1>10, <3>1 DEF Quiet
  <2>2. \A s \in Records : GroupOf[s] = g => health'[s] = health[s]
    BY Zenon, <1>5, <2>1
  <2>3. /\ Members(health', g) = Members(health, g) /\ LastAlive(health', g) = LastAlive(health, g)
        /\ g \in InFailsafe(health') <=> g \in InFailsafe(health)
        /\ \A s \in Members(health, g) : s \in Records /\ health'[s] = health[s]
    <3>1. Members(health, g) \subseteq Records
      BY Zenon DEF Members
    <3> QED BY Zenon, <2>2, <3>1, GroupStays
  <2>4. Quiet(g)
    BY Zenon, <1>6, <1>10, <2>3 DEF Quiet
  <2>5. Judged(g)' <=> Judged(g)
    BY Zenon, <1>6, <2>3 DEF Judged, should_be_enabled
  <2>6. Decided(g)' <=> Decided(g)
    BY <1>6, <2>3, <2>5 DEF Decided
  <2> QED BY Zenon, <1>1, <1>10, <2>4, <2>5, <2>6 DEF LbInv, Flagged
<1>11. Flagged'
  BY Zenon, <1>10 DEF Flagged
<1> QED BY Zenon, <1>5, <1>8, <1>9, <1>11

-----------------------------------------------------------------------------
(* The steps of a cycle. *)

LEMMA CollectKeeps == ASSUME LbInv, Collect PROVE LbInv'
<1>1. /\ TypeOK /\ stage = "idle" /\ stage' = "forget" /\ alone' = TRUE /\ live' = Monitored
      /\ UNCHANGED <<row, saved, connected, flips, safe, copy, up, edit>>
  BY Zenon DEF LbInv, Collect, dbVars
<1>2. Monitored \subseteq Records /\ Monitored' = Monitored /\ \A r \in Records : HasCheck(r, "probe")' <=> HasCheck(r, "probe")
  BY Zenon, <1>1 DEF Monitored, HasCheck
<1>3. \A r \in Records : HasCheck(r, "probe") => row[r].enabled \in BOOLEAN
  BY Zenon, <1>1 DEF HasCheck, TypeOK, Row
<1>4. health' \in Healths /\ \A r \in Monitored : health'[r] # None
  BY Zenon, <1>1, <1>2, NewType, Nones DEF Collect, TypeOK, Healths
<1>5. /\ target' \in [Records -> BOOLEAN \cup {None}]
      /\ \A r \in Records : target'[r] = IF HasCheck(r, "probe") THEN row[r].enabled ELSE None
  BY Zenon, <1>3 DEF Collect
<1>6. dropped' \subseteq Records /\ watching' \subseteq Records /\ connected' \subseteq watching'
  BY Zenon, <1>1 DEF Collect, TypeOK
<1>7. TypeOK'
  BY Zenon, <1>1, <1>2, <1>4, <1>5, <1>6 DEF TypeOK, Healths, Stages
<1>8. StageShape'
  BY Zenon, <1>1 DEF LbInv, StageShape
<1>9. Collected'
  BY Zenon, <1>1, <1>2, <1>4, <1>5 DEF LbInv, StageShape, Collected
<1>10. Flagged'
  BY Zenon, <1>1 DEF Flagged
<1> QED BY Zenon, <1>7, <1>8, <1>9, <1>10 DEF LbInv

LEMMA DeleteKeeps == ASSUME LbInv, NEW r \in Records, delete_lb_health(r) PROVE LbInv'
<1>1. /\ TypeOK /\ saved' = [saved EXCEPT ![r] = None] /\ dropped' = dropped \ {r}
      /\ UNCHANGED <<row, watching, connected, stage, live, target, flips, safe, copy, health, up, edit, alone>>
  BY Zenon DEF LbInv, delete_lb_health, watchVars
<1>2. TypeOK'
  BY Zenon, <1>1 DEF TypeOK
<1> QED BY Zenon, <1>1, <1>2, CycleStays DEF LbInv

\* Without targets there is no name of probed records, and nothing to decide.
LEMMA RetainKeeps == ASSUME LbInv, retain_only PROVE LbInv'
<1>1. /\ TypeOK /\ stage = "forget" /\ stage' = IF target = Blank THEN "apply" ELSE "probe"
      /\ watching' = watching \cap live /\ connected' = connected \cap live /\ live' = {}
      /\ UNCHANGED <<row, saved, target, dropped, flips, safe, copy, health, up, edit, alone>>
  BY Zenon DEF LbInv, retain_only, dbVars
<1>2. flips = Blank /\ safe = {} /\ copy = None
  BY Zenon, <1>1 DEF LbInv, StageShape
<1>3. Monitored' = Monitored /\ \A r \in Records : HasCheck(r, "probe")' <=> HasCheck(r, "probe")
  BY Zenon, <1>1 DEF Monitored, HasCheck
<1>4. TypeOK'
  BY Zenon, <1>1 DEF TypeOK, Stages
<1>5. StageShape'
  BY Zenon, <1>1, <1>2 DEF StageShape
<1>6. Collected'
  BY Zenon, <1>1, <1>2, <1>3 DEF LbInv, Collected
<1>7. ASSUME NEW g \in Groups, alone', Quiet(g)', stage' = "apply"
      PROVE  Decided(g)'
  <2>1. \A r \in Records : target[r] = None
    BY Zenon, <1>1, <1>7 DEF Blank
  <2>2. \A r \in Records : HasCheck(r, "probe") => target[r] \in BOOLEAN
    BY Zenon, <1>1, <1>7 DEF LbInv, Collected, HasCheck, TypeOK, Row
  <2>3. Members(health, g)' = {}
    BY Zenon, <1>3, <1>7, <2>1, <2>2, Nones DEF Quiet, Probed, Members
  <2> QED BY Zenon, <2>3 DEF Decided, Judged, InFailsafe
<1>8. Flagged'
  BY Zenon, <1>1, <1>7 DEF Flagged
<1> QED BY Zenon, <1>4, <1>5, <1>6, <1>8 DEF LbInv

\* After the probes each flag is right, or is to be flipped.
LEMMA TransitionsKeep == ASSUME LbInv, Transitions PROVE LbInv'
<1> DEFINE hs == Recorded(health, run_probe)
           wanted(r) == hs[r] = None \/ should_be_enabled(hs[r])
<1>1. /\ TypeOK /\ stage = "probe" /\ stage' = "failsafe" /\ target' = Blank /\ health' = hs
      /\ flips' = [r \in Records |-> IF target[r] = None \/ target[r] = wanted(r) THEN None ELSE wanted(r)]
      /\ UNCHANGED <<row, saved, watching, connected, live, dropped, safe, copy, up, edit, alone>>
  BY Zenon DEF LbInv, Transitions, dbVars, watchVars
<1>2. safe = {} /\ copy = None
  BY Zenon, <1>1 DEF LbInv, StageShape
<1>3. run_probe \in Results /\ health \in Healths
  BY <1>1 DEF run_probe, Results, TypeOK, Healths
<1>4. health' \in Healths /\ \A r \in Records : health'[r] = None <=> health[r] = None
  BY Zenon, <1>1, <1>3, RecordedType
<1>5. \A r \in Records : wanted(r) \in BOOLEAN /\ (health'[r] # None => wanted(r) = should_be_enabled(health'[r]))
  BY Zenon, <1>1 DEF should_be_enabled
<1> HIDE DEF hs, wanted
<1>6. flips' \in [Records -> BOOLEAN \cup {None}]
  BY Zenon, <1>1, <1>5
<1>7. Monitored' = Monitored /\ \A r \in Records : HasCheck(r, "probe")' <=> HasCheck(r, "probe")
  BY Zenon, <1>1 DEF Monitored, HasCheck
<1>8. TypeOK'
  BY Zenon, <1>1, <1>4, <1>6 DEF TypeOK, Healths, Stages, Blank
<1>9. StageShape'
  BY Zenon, <1>1, <1>2 DEF StageShape
<1>10. Collected'
  BY Zenon, <1>1, <1>2, <1>4, <1>7 DEF LbInv, Collected, Monitored
<1>11. ASSUME NEW g \in Groups, alone', Quiet(g)'
       PROVE  Judged(g)'
  <2>1. ASSUME NEW r \in Members(health, g)'
        PROVE  Final(r)' = should_be_enabled(health'[r])
    <3>1. r \in Records /\ health'[r] # None /\ HasCheck(r, "probe")
      BY Zenon, <1>7, <1>11, <2>1 DEF Members, Quiet, Probed
    <3>2. target[r] = row[r].enabled /\ target[r] \in BOOLEAN
      BY Zenon, <1>1, <1>11, <3>1 DEF LbInv, Collected, HasCheck, TypeOK, Row
    <3>3. wanted(r) = should_be_enabled(health'[r]) /\ wanted(r) \in BOOLEAN
      BY Zenon, <1>5, <3>1
    <3>4. Final(r)' = IF flips'[r] # None THEN flips'[r] ELSE row[r].enabled
      BY <1>1, <1>2 DEF Final
    <3>5. flips'[r] = IF target[r] = wanted(r) THEN None ELSE wanted(r)
      BY Zenon, <1>1, <3>1, <3>2, Nones
    <3> QED BY Zenon, <3>2, <3>3, <3>4, <3>5, Nones
  <2> QED BY Zenon, <2>1 DEF Judged
<1>12. Flagged'
  BY Zenon, <1>1, <1>11 DEF Flagged
<1> QED BY Zenon, <1>8, <1>9, <1>10, <1>12 DEF LbInv

\* In a name that is all down the pick is served, and no other.
LEMMA FailsafeKeeps == ASSUME LbInv, Failsafe PROVE LbInv'
<1>1. PICK S \in failsafe_records(health) :
          safe' = S /\ flips' = [r \in Records |-> IF r \in S THEN None ELSE flips[r]]
  BY Zenon DEF Failsafe
<1>2. /\ TypeOK /\ stage = "failsafe" /\ stage' = "apply"
      /\ UNCHANGED <<row, saved, watching, connected, live, target, dropped, copy, health, up, edit, alone>>
  BY Zenon DEF LbInv, Failsafe, dbVars, watchVars
<1>3. /\ S \subseteq Records
      /\ \A r \in S : GroupOf[r] \in InFailsafe(health) /\ r \in LastAlive(health, GroupOf[r])
      /\ \A g \in InFailsafe(health) : \E r \in S :
            GroupOf[r] = g /\ \A s \in S : GroupOf[s] = g => s = r
  BY Zenon DEF failsafe_records
<1>4. safe = {} /\ copy = None
  BY Zenon, <1>2 DEF LbInv, StageShape
<1>5. flips' \in [Records -> BOOLEAN \cup {None}] /\ \A r \in Records : flips'[r] = IF r \in S THEN None ELSE flips[r]
  BY Zenon, <1>1, <1>2 DEF TypeOK
<1>6. \A r \in Records : Final(r)' = IF r \in S THEN TRUE ELSE Final(r)
  BY Zenon, <1>1, <1>2, <1>4, <1>5 DEF Final
<1>7. Monitored' = Monitored /\ \A r \in Records : (HasCheck(r, "probe")' <=> HasCheck(r, "probe")) /\ (Probed(r)' <=> Probed(r))
  BY Zenon, <1>2 DEF Monitored, HasCheck, Probed
<1>8. TypeOK'
  BY Zenon, <1>1, <1>2, <1>3, <1>5 DEF TypeOK, Stages
<1>9. StageShape'
  BY Zenon, <1>1, <1>2, <1>3, <1>4, <1>5 DEF StageShape
<1>10. Collected'
  BY Zenon, <1>2, <1>4, <1>7 DEF LbInv, Collected
<1>11. ASSUME NEW g \in Groups, alone', Quiet(g)'
       PROVE  Decided(g)'
  <2>1. \A r \in Members(health, g) : r \in Records /\ GroupOf[r] = g
    BY Zenon DEF Members
  <2>2. Judged(g)
    <3>1. Quiet(g)
      BY Zenon, <1>2, <1>7, <1>11, <2>1 DEF Quiet, Members
    <3> QED BY Zenon, <1>2, <1>11, <3>1 DEF LbInv, Flagged
  <2>3. CASE g \in InFailsafe(health)
    <3>1. PICK r \in S : GroupOf[r] = g /\ \A s \in S : GroupOf[s] = g => s = r
      BY Zenon, <1>3, <2>3
    <3>2. r \in LastAlive(health, g) /\ AllDown(health, g)
      BY Zenon, <1>3, <2>3, <3>1 DEF InFailsafe
    <3>3. ASSUME NEW s \in Members(health, g) PROVE Final(s)' = (s = r)
      <4>1. Final(s) = FALSE
        BY Zenon, <2>2, <3>2 DEF Judged, should_be_enabled, AllDown
      <4>2. s \in S <=> s = r
        BY Zenon, <2>1, <3>1
      <4> QED BY Zenon, <1>6, <2>1, <4>1, <4>2
    <3> QED BY Zenon, <1>2, <2>3, <3>2, <3>3 DEF Decided
  <2>4. CASE g \notin InFailsafe(health)
    <3>1. \A r \in Members(health, g) : Final(r)' = Final(r)
      BY Zenon, <1>3, <1>6, <2>1, <2>4
    <3> QED BY Zenon, <1>2, <2>2, <2>4, <3>1 DEF Decided, Judged, should_be_enabled
  <2> QED BY Zenon, <2>3, <2>4
<1>12. Flagged'
  BY Zenon, <1>2, <1>11 DEF Flagged
<1> QED BY Zenon, <1>8, <1>9, <1>10, <1>12 DEF LbInv

\* The writes of the cycle bring about what was decided, and decide no more.
LEMMA WritesKeep ==
    ASSUME LbInv, TypeOK', StageShape', Collected', stage \in {"apply", "idle"}, stage' \in {"apply", "idle"},
           UNCHANGED <<watching, health, alone>>,
           alone => \A r \in Records : /\ HasCheck(r, "probe")' <=> HasCheck(r, "probe")
                                       /\ HasCheck(r, "probe") => Final(r)' = Final(r)
    PROVE  LbInv'
<1>1. ASSUME NEW g \in Groups, alone', Quiet(g)' PROVE Decided(g)'
  <2>1. \A r \in Members(health, g) : r \in Records
    BY Zenon DEF Members
  <2>2. \A r \in Members(health, g) : HasCheck(r, "probe") /\ Probed(r)
    BY Zenon, <1>1, <2>1 DEF Quiet, Probed, Members
  <2>3. Decided(g)
    BY Zenon, <1>1, <2>2 DEF LbInv, Flagged, Quiet
  <2>4. \A r \in Members(health, g) : Final(r)' = Final(r)
    BY Zenon, <1>1, <2>1, <2>2
  <2>5. Judged(g)' <=> Judged(g)
    BY Zenon, <2>4 DEF Judged, should_be_enabled, Members
  <2> QED BY <2>3, <2>4, <2>5 DEF Decided, LastAlive, InFailsafe, Members, AllDown
<1>2. Flagged'
  BY Zenon, <1>1 DEF Flagged
<1> QED BY Zenon, <1>2 DEF LbInv

LEMMA ReadKeeps == ASSUME LbInv, NEW r \in Records, NextUpdate(r) PROVE LbInv'
<1>1. /\ TypeOK /\ stage = "apply" /\ copy = None
      /\ UNCHANGED <<row, saved, watching, connected, stage, live, target, dropped, health, up, edit, alone>>
  BY Zenon DEF LbInv, NextUpdate, dbVars, watchVars
<1>2. \E e \in BOOLEAN :
         /\ get_record(r, e)
         /\ e = IF r \in safe THEN TRUE ELSE flips[r]
         /\ r \in safe \/ flips[r] # None
         /\ flips' = [flips EXCEPT ![r] = None] /\ safe' = safe \ {r}
  <2>1. CASE flips[r] # None /\ get_record(r, flips[r]) /\ flips' = [flips EXCEPT ![r] = None] /\ UNCHANGED safe
    <3>1. r \notin safe /\ flips[r] \in BOOLEAN
      BY Zenon, <1>1, <2>1 DEF LbInv, StageShape, TypeOK
    <3> QED BY Zenon, <2>1, <3>1
  <2>2. CASE flips = Blank /\ r \in safe /\ get_record(r, TRUE) /\ safe' = safe \ {r} /\ UNCHANGED flips
    <3>1. flips' = [flips EXCEPT ![r] = None]
      BY Zenon, <2>2 DEF Blank
    <3> QED BY Zenon, <2>2, <3>1
  <2> QED BY Zenon, <2>1, <2>2 DEF NextUpdate
<1>3. PICK e \in BOOLEAN :
         /\ get_record(r, e)
         /\ e = IF r \in safe THEN TRUE ELSE flips[r]
         /\ r \in safe \/ flips[r] # None
         /\ flips' = [flips EXCEPT ![r] = None] /\ safe' = safe \ {r}
  BY Zenon, <1>2
<1>4. /\ flips' \in [Records -> BOOLEAN \cup {None}] /\ flips'[r] = None
      /\ \A s \in Records \ {r} : flips'[s] = flips[s]
  BY Zenon, <1>1, <1>3 DEF TypeOK
<1>5. \/ /\ copy' = None
         /\ row[r] = None \/ row[r].enabled = e
      \/ /\ copy' \in Copy /\ copy' # None /\ copy'.id = r /\ row[r] # None
         /\ copy'.row.enabled = e /\ copy'.row.check = row[r].check
  <2>1. CASE row[r] = None \/ row[r].enabled = e
    BY Zenon, <1>3, <2>1 DEF get_record
  <2>2. CASE ~(row[r] = None \/ row[r].enabled = e)
    <3> DEFINE w == [row[r] EXCEPT !.enabled = e]
    <3>1. row[r] \in Row
      BY Zenon, <1>1, <2>2 DEF TypeOK
    <3>2. w \in Row /\ w.enabled = e /\ w.check = row[r].check
      BY Zenon, <3>1 DEF Row
    <3>3. copy' = [id |-> r, row |-> w]
      BY Zenon, <1>3, <2>2 DEF get_record
    <3> HIDE DEF w
    <3>4. copy' \in Copy /\ copy'.id = r /\ copy'.row = w
      BY Zenon, <3>2, <3>3 DEF Copy
    <3> QED BY Zenon, <2>2, <3>2, <3>4, Nones
  <2> QED BY Zenon, <2>1, <2>2
<1>6. TypeOK'
  BY Zenon, <1>1, <1>3, <1>4, <1>5 DEF TypeOK
<1>7. StageShape'
  BY Zenon, <1>1, <1>3, <1>4, <1>5 DEF LbInv, StageShape, TypeOK
<1>8. Monitored' = Monitored /\ \A s \in Records : HasCheck(s, "probe")' <=> HasCheck(s, "probe")
  BY Zenon, <1>1 DEF Monitored, HasCheck
<1>9. Collected'
  BY Zenon, <1>1, <1>5, <1>8 DEF LbInv, Collected
<1>10. ASSUME NEW s \in Records, HasCheck(s, "probe") PROVE Final(s)' = Final(s)
  <2>1. CASE s = r
    <3>1. Final(r) = e
      BY Zenon, <1>1, <1>3 DEF Final
    <3>2. Final(r)' = e
      BY Zenon, <1>1, <1>3, <1>4, <1>5, <1>10, <2>1 DEF Final, HasCheck
    <3> QED BY Zenon, <2>1, <3>1, <3>2
  <2>2. CASE s # r
    BY Zenon, <1>1, <1>3, <1>4, <1>5, <2>2 DEF Final
  <2> QED BY Zenon, <2>1, <2>2
<1> QED BY Zenon, <1>1, <1>6, <1>7, <1>8, <1>9, <1>10, WritesKeep

LEMMA WriteKeeps == ASSUME LbInv, update_record PROVE LbInv'
<1>1. /\ TypeOK /\ stage = "apply" /\ copy # None /\ row' = Written(copy) /\ copy' = None
      /\ UNCHANGED <<saved, watching, connected, stage, live, target, dropped, flips, safe, health, up, edit, alone>>
  BY Zenon DEF LbInv, update_record, watchVars
<1>2. copy \in Copy /\ copy.id \in Records /\ copy.row \in Row
  BY Zenon, <1>1 DEF TypeOK, Copy
<1>3. /\ row' \in [Records -> Row \cup {None}]
      /\ \A r \in Records : row'[r] = IF r = copy.id /\ row[r] # None THEN copy.row ELSE row[r]
  BY Zenon, <1>1, <1>2 DEF Written, TypeOK
<1>4. TypeOK'
  BY Zenon, <1>1, <1>3 DEF TypeOK
<1>5. StageShape'
  BY Zenon, <1>1 DEF LbInv, StageShape
<1>6. ASSUME alone
      PROVE  /\ row[copy.id] # None /\ row'[copy.id] = copy.row /\ row'[copy.id] # None
             /\ row'[copy.id].check = row[copy.id].check
             /\ \A r \in Records \ {copy.id} : row'[r] = row[r]
  BY Zenon, <1>1, <1>2, <1>3, <1>6, Nones DEF LbInv, Collected
<1>7. ASSUME alone
      PROVE  Monitored' = Monitored /\ \A r \in Records : HasCheck(r, "probe")' <=> HasCheck(r, "probe")
  BY Zenon, <1>2, <1>6, <1>7 DEF Monitored, HasCheck
<1>8. Collected'
  BY Zenon, <1>1, <1>7 DEF LbInv, Collected
<1>9. ASSUME alone, NEW r \in Records PROVE Final(r)' = Final(r)
  <2>1. r \in safe => r # copy.id
    BY Zenon, <1>1 DEF LbInv, StageShape
  <2>2. flips[copy.id] = None
    BY Zenon, <1>1 DEF LbInv, StageShape
  <2>3. row'[r].enabled = IF r = copy.id THEN copy.row.enabled ELSE row[r].enabled
    BY Zenon, <1>6, <1>9
  <2> QED BY Zenon, <1>1, <2>1, <2>2, <2>3 DEF Final
<1> QED BY Zenon, <1>1, <1>4, <1>5, <1>7, <1>8, <1>9, WritesKeep

LEMMA SaveKeeps == ASSUME LbInv, upsert_lb_health_batch PROVE LbInv'
<1>1. /\ TypeOK /\ stage = "apply" /\ stage' = "idle" /\ copy = None /\ flips = Blank /\ safe = {}
      /\ saved' = [r \in Records |-> IF Persistent(health[r]) THEN health[r] ELSE saved[r]]
      /\ UNCHANGED <<row, watching, connected, live, target, dropped, flips, safe, copy, health, up, edit, alone>>
  BY Zenon DEF LbInv, upsert_lb_health_batch, watchVars
<1>2. TypeOK'
  BY Zenon, <1>1 DEF TypeOK, Stages, Persistent
<1>3. StageShape'
  BY Zenon, <1>1 DEF LbInv, StageShape
<1>4. Monitored' = Monitored /\ \A r \in Records : (HasCheck(r, "probe")' <=> HasCheck(r, "probe")) /\ Final(r)' = Final(r)
  BY Zenon, <1>1 DEF Monitored, HasCheck, Final
<1>5. Collected'
  BY Zenon, <1>1, <1>4 DEF LbInv, Collected
<1> QED BY Zenon, <1>1, <1>2, <1>3, <1>4, <1>5, WritesKeep

-----------------------------------------------------------------------------
(* The watchers, the API, backends and crashes. *)

LEMMA WatchersKeep == ASSUME LbInv, NEW r \in Records, connect(r) \/ read(r) PROVE LbInv'
<1>1. /\ TypeOK /\ r \in watching /\ connected' \subseteq watching /\ UNCHANGED <<row, saved, watching, cycleVars, up, edit, alone>>
  BY Zenon DEF LbInv, TypeOK, connect, read, dbVars
<1>2. \E b \in BOOLEAN : publish_status(r, b)
  <2>1. CASE connect(r)
    <3>1. (r \in up) \in BOOLEAN /\ publish_status(r, r \in up)
      BY <2>1 DEF connect
    <3> QED BY Zenon, <3>1
  <2>2. CASE read(r)
    <3>1. FALSE \in BOOLEAN /\ publish_status(r, FALSE)
      BY Zenon, <2>2 DEF read
    <3> QED BY Zenon, <3>1
  <2> QED BY Zenon, <2>1, <2>2
<1>3. health' \in Healths /\ StageShape' /\ Collected' /\ Flagged'
  BY Zenon, <1>1, <1>2, Published
<1>4. TypeOK'
  BY Zenon, <1>1, <1>3 DEF TypeOK, Healths, cycleVars
<1> QED BY Zenon, <1>3, <1>4 DEF LbInv

LEMMA ApiKeeps == ASSUME LbInv, Api PROVE LbInv'
<1>1. ASSUME ApiWrite PROVE LbInv'
  <2>1. /\ TypeOK /\ edit # None /\ row' = Written(edit) /\ edit' = None /\ alone' = FALSE
        /\ UNCHANGED <<saved, watching, connected, stage, live, target, dropped, flips, safe, copy, health, up>>
    BY Zenon, <1>1 DEF LbInv, ApiWrite, watchVars, cycleVars
  <2>2. edit.row \in Row
    BY Zenon, <2>1 DEF TypeOK, Copy
  <2>3. TypeOK'
    BY Zenon, <2>1, <2>2 DEF TypeOK, Written
  <2>4. StageShape'
    BY Zenon, <2>1 DEF LbInv, StageShape
  <2> QED BY Zenon, <2>1, <2>3, <2>4, Disturbed DEF LbInv
<1>2. ASSUME NEW r \in Records, ApiDelete(r) PROVE LbInv'
  <2>1. /\ TypeOK /\ row' = [row EXCEPT ![r] = None] /\ saved' = [saved EXCEPT ![r] = None] /\ alone' = FALSE
        /\ UNCHANGED <<watching, connected, stage, live, target, dropped, flips, safe, copy, health, up, edit>>
    BY Zenon, <1>2 DEF LbInv, ApiDelete, watchVars, cycleVars
  <2>2. TypeOK'
    BY Zenon, <2>1 DEF TypeOK
  <2>3. StageShape'
    BY Zenon, <2>1 DEF LbInv, StageShape
  <2> QED BY Zenon, <2>1, <2>2, <2>3, Disturbed DEF LbInv
<1>3. ASSUME NEW r \in Records, NEW b \in BOOLEAN, NEW c \in Kinds[r] \cup {"none"}, ApiRead(r, b, c) PROVE LbInv'
  <2>1. /\ TypeOK /\ edit' = [id |-> r, row |-> [enabled |-> b, check |-> c]]
        /\ UNCHANGED <<row, saved, watching, connected, stage, live, target, dropped, flips, safe, copy, health, up, alone>>
    BY Zenon, <1>3 DEF LbInv, ApiRead, dbVars, watchVars, cycleVars
  <2>2. edit' \in Copy
    BY Zenon, <1>3, <2>1, LbAssumption DEF Copy, Row, Checks
  <2>3. TypeOK'
    BY Zenon, <2>1, <2>2 DEF TypeOK
  <2> QED BY Zenon, <2>1, <2>3, CycleStays DEF LbInv
<1> QED BY Zenon, <1>1, <1>2, <1>3 DEF Api

LEMMA BackendKeeps == ASSUME LbInv, NEW r \in Records, Backend(r) PROVE LbInv'
<1>1. /\ TypeOK /\ up' \subseteq Records
      /\ UNCHANGED <<row, saved, watching, connected, stage, live, target, dropped, flips, safe, copy, health, edit, alone>>
  BY Zenon DEF LbInv, TypeOK, Backend, dbVars, watchVars, cycleVars
<1>2. TypeOK'
  BY Zenon, <1>1 DEF TypeOK
<1> QED BY Zenon, <1>1, <1>2, CycleStays DEF LbInv

LEMMA RestartKeeps == ASSUME LbInv, Restart PROVE LbInv'
<1>1. /\ TypeOK /\ stage' = "idle" /\ flips' = Blank /\ safe' = {} /\ copy' = None /\ alone' = FALSE
      /\ edit' = None /\ watching' = {} /\ connected' = {} /\ live' = {} /\ target' = Blank /\ dropped' = {}
      /\ UNCHANGED <<row, up>>
  BY Zenon DEF LbInv, Restart
<1>2. saved' \in Healths
  BY Zenon, <1>1 DEF Restart, TypeOK, Healths
<1>3. health' \in Healths
  <2>1. ASSUME NEW r \in Records, Hydrated(r)
        PROVE  [saved[r] EXCEPT !.ht = HealthyThreshold, !.ut = UnhealthyThreshold] \in Health
    <3>1. saved[r] \in Health
      BY Zenon, <1>1, <2>1 DEF TypeOK, Hydrated
    <3> QED BY Zenon, <3>1 DEF Health
  <2> QED BY Zenon, <2>1 DEF Restart, Healths
<1>4. TypeOK'
  BY Zenon, <1>1, <1>2, <1>3 DEF TypeOK, Healths, Stages, Blank
<1>5. StageShape'
  BY Zenon, <1>1 DEF StageShape
<1> QED BY Zenon, <1>1, <1>4, <1>5, Disturbed DEF LbInv

-----------------------------------------------------------------------------
(* The theorem. *)

LEMMA LbStarts == Init => LbInv
<1> SUFFICES ASSUME Init PROVE LbInv
  BY Zenon
<1>1. row \in [Records -> Row \cup {None}]
  <2>1. \A c \in Checks : [enabled |-> TRUE, check |-> c] \in Row
    BY Zenon DEF Row
  <2>2. {[enabled |-> TRUE, check |-> c] : c \in Checks} \subseteq Row
    BY Zenon, <2>1
  <2> QED BY Zenon, <2>2 DEF Init
<1>2. TypeOK
  BY Zenon, <1>1 DEF Init, TypeOK, Blank, Stages
<1>3. StageShape /\ Collected /\ Flagged
  BY Zenon DEF Init, StageShape, Collected, Flagged
<1> QED BY Zenon, <1>2, <1>3 DEF LbInv

LEMMA LbStep == LbInv /\ [Next]_vars => LbInv'
<1> SUFFICES ASSUME LbInv, [Next]_vars PROVE LbInv'
  BY Zenon
<1>1. CASE Cycle
  BY Zenon, <1>1, CollectKeeps, RetainKeeps, TransitionsKeep, FailsafeKeeps, WriteKeeps, SaveKeeps, DeleteKeeps, ReadKeeps DEF Cycle
<1>2. CASE UNCHANGED vars
  <2>1. UNCHANGED <<row, saved, watching, connected, stage, live, target, dropped, flips, safe, copy, health, up, edit, alone>>
    BY Zenon, <1>2 DEF vars, dbVars, watchVars, cycleVars
  <2>2. TypeOK'
    BY Zenon, <2>1 DEF LbInv, TypeOK
  <2> QED BY Zenon, <2>1, <2>2, CycleStays DEF LbInv
<1> QED BY Zenon, <1>1, <1>2, WatchersKeep, BackendKeeps, ApiKeeps, RestartKeeps DEF Next

\* Of the members of a name that have been healthy one was so last.
LEMMA SomeLastAlive ==
    ASSUME LbInv, NEW g \in Groups, NEW r \in Members(health, g), health[r].age # None
    PROVE  LastAlive(health, g) # {}
<1> DEFINE M == Members(health, g)
           Ages == {health[s].age : s \in {t \in M : health[t].age # None}}
           less == {ss \in Nat \X Nat : ss[1] < ss[2]}
<1>1. \A s \in M : health[s].age # None => health[s].age \in Nat
  BY LbAssumption DEF LbInv, TypeOK, Members, Health
<1>2. Ages \subseteq Nat /\ Ages # {}
  BY Zenon, <1>1
<1>3. IsWellFoundedOn(less, Nat)
  BY Zenon, NatLessThanWellFounded DEF OpToRel
<1> HIDE DEF less
<1>4. PICK a \in Ages : \A b \in Ages : <<b, a>> \notin less
  BY Zenon, <1>2, <1>3, WFMin
<1>5. PICK s \in M : health[s].age # None /\ a = health[s].age
  BY Zenon
<1>6. ASSUME NEW t \in M, health[t].age # None PROVE health[s].age <= health[t].age
  <2>1. health[t].age \in Ages /\ health[t].age \in Nat /\ a \in Nat
    BY Zenon, <1>1, <1>2, <1>6
  <2>2. <<health[t].age, a>> \notin less /\ <<health[t].age, a>> \in Nat \X Nat
    BY Zenon, <1>4, <2>1
  <2>3. ~(health[t].age < a)
    BY Zenon, <2>2 DEF less
  <2> QED BY <1>5, <2>1, <2>3
<1> QED BY Zenon, <1>5, <1>6 DEF LastAlive

LEMMA LbInvServed == LbInv => ServedByHealth
<1> SUFFICES ASSUME LbInv PROVE ServedByHealth
  BY Zenon
<1>1. ASSUME Settled, NEW g \in Groups, Quiet(g)
      PROVE  Decided(g) /\ \A r \in Members(health, g) : Final(r) = row[r].enabled
  <2>1. safe = {} /\ copy = None /\ flips = Blank /\ alone /\ stage = "idle"
    BY Zenon, <1>1 DEF Settled, LbInv, StageShape
  <2>2. \A r \in Members(health, g) : r \in Records
    BY Zenon DEF Members
  <2> QED BY Zenon, <1>1, <2>1, <2>2 DEF LbInv, Flagged, Final, Blank
<1>2. FlagFollowsHealth
  BY Zenon, <1>1 DEF FlagFollowsHealth, Quiet, Decided, Judged
<1>3. ASSUME Settled, NEW g \in InFailsafe(health), \A r \in Members(health, g) : Probed(r)
      PROVE  \E r \in LastAlive(health, g) : {s \in Members(health, g) : row[s].enabled} = {r}
  <2>1. g \in Groups /\ Quiet(g)
    BY Zenon, <1>3 DEF InFailsafe, Quiet
  <2>2. PICK r \in LastAlive(health, g) : \A s \in Members(health, g) : Final(s) = (s = r)
    BY Zenon, <1>1, <1>3, <2>1 DEF Decided
  <2>3. r \in Members(health, g) /\ \A s \in Members(health, g) : row[s].enabled = (s = r)
    BY Zenon, <1>1, <1>3, <2>1, <2>2 DEF LastAlive
  <2>4. {s \in Members(health, g) : row[s].enabled} = {r}
    BY Zenon, <2>3
  <2> QED BY Zenon, <2>4
<1>4. FailsafeOne
  BY Zenon, <1>3 DEF FailsafeOne
<1>5. ASSUME Settled, NEW g \in Groups,
             \E r, s \in Members(health, g) : r # s,
             \A r \in Members(health, g) : Probed(r),
             \E r \in Members(health, g) : health[r].age # None \/ health[r].status # "Unhealthy"
      PROVE  \E r \in Members(health, g) : row[r].enabled
  <2>1. CASE g \in InFailsafe(health)
    BY Zenon, <1>3, <1>5, <2>1
  <2>2. CASE g \notin InFailsafe(health)
    <3>1. PICK r \in Members(health, g) : health[r].status # "Unhealthy"
      BY Zenon, <1>5, <2>2, SomeLastAlive DEF InFailsafe, AllDown
    <3>2. row[r].enabled = should_be_enabled(health[r])
      BY Zenon, <1>2, <1>5, <2>2, <3>1 DEF FlagFollowsHealth
    <3> QED BY Zenon, <3>1, <3>2 DEF should_be_enabled
  <2> QED BY Zenon, <2>1, <2>2
<1>6. Answered
  BY Zenon, <1>5 DEF Answered
<1> QED BY Zenon, <1>2, <1>4, <1>6 DEF ServedByHealth, LbInv

\* After a cycle that nobody disturbed what is served is what health says
\* (run_check_cycle): the healthy records of a name, or exactly one of the last
\* alive in the failsafe, and at least one; with any number of records, names
\* and watchers, edits and crashes at any step, and any thresholds.
THEOREM HealthServed == Spec => []ServedByHealth
<1> QED BY LbStarts, LbStep, LbInvServed, PTL DEF Spec

-----------------------------------------------------------------------------
(* The Kubernetes source. *)

\* Who may own the PTR records of some addresses.
Owners == UNION {[S -> ClusterNames] : S \in SUBSET Ips}

K8sStages == {"connect", "begin", "wait", "debounce", "replace", "serial", "sync", "prune", "ended"}
K8sLoops == [at : K8sStages, want : SUBSET ClusterRecs, ptrs : Owners, todo : SUBSET Ips, synced : Owners]

Objectful(st) == st = [k \in Watches |-> st[k]] /\ \A k \in Watches : st[k] \in [Objects[k] -> Values[k]]

K8sTypes ==
    /\ Objectful(cluster) /\ Objectful(stores)
    /\ listed \subseteq Watches /\ notify \in BOOLEAN /\ kept \in BOOLEAN
    /\ loop \in K8sLoops /\ ptr \in [Ips -> ClusterNames \cup {None}]
    /\ zone = None \/ zone \subseteq ClusterRecs
    /\ loop.at \notin {"connect", "begin", "ended"} => zone # None

\* What the loop has in hand, at each of its stages.
InHand ==
    /\ loop.at \in {"connect", "begin"} => DOMAIN loop.synced = {}
    /\ loop.at \in {"wait", "debounce", "replace"} => \A ip \in DOMAIN loop.synced : A(loop.synced[ip], ip) \in zone
    /\ loop.at = "serial" => zone = loop.want
    /\ loop.at = "sync" => loop.todo \subseteq DOMAIN loop.ptrs
    /\ loop.at = "prune" => \A ip \in loop.todo : ip \notin DOMAIN loop.ptrs
    /\ loop.at \in {"sync", "prune"} => /\ DOMAIN loop.ptrs = Addressed(zone)
                                        /\ \A ip \in DOMAIN loop.ptrs : A(loop.ptrs[ip], ip) \in zone

\* Who put a PTR record there: the pass before this one, or this one already.
From(ip, owners) == ip \in DOMAIN owners /\ ptr[ip] = owners[ip]

PtrsKnown ==
    \A ip \in Ips :
        /\ loop.at = "sync" /\ ip \in DOMAIN loop.ptrs \ loop.todo => ptr[ip] = loop.ptrs[ip]
        /\ loop.at = "prune" /\ ip \in DOMAIN loop.ptrs => ptr[ip] = loop.ptrs[ip]
        /\ ptr[ip] # None =>
              /\ loop.at \in {"connect", "begin"} => FALSE
              /\ loop.at \in {"wait", "debounce", "replace", "serial"} => From(ip, loop.synced)
              /\ loop.at = "sync" => From(ip, loop.ptrs) \/ From(ip, loop.synced)
              /\ loop.at = "prune" => From(ip, loop.ptrs) \/ (ip \in loop.todo /\ From(ip, loop.synced))

K8sInv == K8sTypes /\ InHand /\ (kept => PtrsKnown)

\* Whatever the stores hold, the translation makes records of the zone.
LEMMA DesiredRecs ==
    ASSUME NEW st, Objectful(st)
    PROVE  desired(st) \subseteq ClusterRecs
<1>1. /\ "services" \in Watches /\ "slices" \in Watches /\ "endpoints" \in Watches
      /\ Objects["services"] = Svcs /\ Objects["slices"] = Svcs /\ Objects["endpoints"] = Svcs
  BY DEF Watches, Objects
<1>2. /\ Values["services"] = {None, "external"} \cup Headless \cup ClusterIps
      /\ Values["slices"] = {None} \cup SUBSET [ip : PodIps, ready : BOOLEAN]
      /\ Values["endpoints"] = {None} \cup SUBSET [ip : PodIps, ready : BOOLEAN]
  BY DEF Watches, Values
<1>3. ASSUME NEW s \in Svcs PROVE service_records(st, s) \subseteq ClusterRecs
  <2> DEFINE kind == st["services"][s]
             ep == aggregate_endpoints(st, s)
             include == IF ep = None THEN {} ELSE {a \in ep : a.ready \/ kind = "headlessAll"}
  <2>1. kind \in {None, "external"} \cup Headless \cup ClusterIps
    BY Zenon, <1>1, <1>2 DEF Objectful
  <2>2. /\ st["slices"][s] \in {None} \cup SUBSET [ip : PodIps, ready : BOOLEAN]
        /\ st["endpoints"][s] \in {None} \cup SUBSET [ip : PodIps, ready : BOOLEAN]
    BY <1>1, <1>2 DEF Objectful
  <2>3. ep = None \/ ep \in SUBSET [ip : PodIps, ready : BOOLEAN]
    BY Zenon, <2>2 DEF aggregate_endpoints
  <2>4. \A a \in include : a \in [ip : PodIps, ready : BOOLEAN]
    <3> HIDE DEF ep, kind
    <3> QED BY Zenon, <2>3
  <2>5. \A a \in include : a.ip \in PodIps
    <3> HIDE DEF include
    <3> QED BY <2>4
  <2>6. \A ip \in PodIps : ip \in Ips
    BY Zenon DEF Ips
  <2>7. service_records(st, s) =
           CASE kind = None -> {}
             [] kind = "external" -> {[name |-> <<s>>, data |-> "cname"]}
             [] kind \in Headless -> {A(<<s>>, a.ip) : a \in include} \cup {A(<<a.ip, s>>, a.ip) : a \in include}
             [] OTHER -> {A(<<s>>, kind)}
    BY DEF service_records
  <2> HIDE DEF kind, ep, include
  <2>8. \A ip \in PodIps : <<s>> \in ClusterNames /\ <<ip, s>> \in ClusterNames
    BY DEF ClusterNames
  <2>9. <<s>> \in ClusterNames
    BY DEF ClusterNames
  <2>10. \A ip \in Ips \cup {"cname"}, n \in ClusterNames : A(n, ip) \in ClusterRecs
    BY Zenon DEF A, ClusterRecs
  <2>11. [name |-> <<s>>, data |-> "cname"] \in ClusterRecs
    BY Zenon, <2>9 DEF ClusterRecs
  <2>12. \A a \in include : A(<<s>>, a.ip) \in ClusterRecs /\ A(<<a.ip, s>>, a.ip) \in ClusterRecs
    BY Zenon, <2>5, <2>6, <2>8, <2>10
  <2>13. CASE kind = None
    BY <2>7, <2>13, K8sAssumption
  <2>14. CASE kind # None /\ kind = "external"
    BY <2>7, <2>11, <2>14 DEF Headless
  <2>15. CASE kind # None /\ kind # "external" /\ kind \in Headless
    BY Zenon, <2>7, <2>12, <2>15
  <2>16. CASE kind # None /\ kind # "external" /\ kind \notin Headless
    <3>1. kind \in Ips
      BY Zenon, <2>1, <2>16 DEF Ips
    <3> QED BY <2>7, <2>9, <2>10, <2>16, <3>1
  <2> QED BY Zenon, <2>13, <2>14, <2>15, <2>16
<1>4. pod_records(st) \subseteq ClusterRecs
  <2> SUFFICES ASSUME NEW r \in pod_records(st) PROVE r \in ClusterRecs
    BY Zenon
  <2>1. PICK ip \in PodIps : r = A(<<ip, "pod">>, ip)
    BY Zenon DEF pod_records
  <2>2. <<ip, "pod">> \in ClusterNames /\ ip \in Ips
    BY DEF ClusterNames, Ips
  <2> QED BY Zenon, <2>1, <2>2 DEF A, ClusterRecs
<1> QED BY Zenon, <1>3, <1>4 DEF desired

\* A step that leaves the loop, the zone and the PTR records alone.
LEMMA K8sFrame ==
    ASSUME K8sInv, UNCHANGED <<loop, zone, ptr, kept>>, Objectful(cluster'), Objectful(stores'),
           listed' \subseteq Watches, notify' \in BOOLEAN
    PROVE  K8sInv'
<1>1. K8sTypes'
  BY Zenon DEF K8sInv, K8sTypes, Objectful
<1>2. InHand'
  BY Zenon DEF K8sInv, InHand, Addressed
<1>3. kept' => PtrsKnown'
  BY Zenon DEF K8sInv, PtrsKnown, From
<1> QED BY Zenon, <1>1, <1>2, <1>3 DEF K8sInv

\* A step of the loop, which leaves the watches alone.
LEMMA K8sLoopStep ==
    ASSUME K8sInv, UNCHANGED <<cluster, stores, listed, kept>>, notify' \in BOOLEAN,
           loop' \in K8sLoops, ptr' \in [Ips -> ClusterNames \cup {None}], zone' = None \/ zone' \subseteq ClusterRecs,
           loop'.at \notin {"connect", "begin", "ended"} => zone' # None
    PROVE  K8sTypes'
BY Zenon DEF K8sInv, K8sTypes, Objectful

LEMMA LoopTyped ==
    /\ Loop \in K8sLoops /\ Loop.at = "wait" /\ DOMAIN Loop.synced = {}
    /\ [Loop EXCEPT !.at = "ended"] \in K8sLoops /\ [Loop EXCEPT !.at = "ended"].at = "ended"
    /\ Starting \in K8sLoops /\ Starting.at = "connect" /\ DOMAIN Starting.synced = {}
<1>1. << >> \in Owners /\ DOMAIN << >> = {}
  <2>1. << >> \in [{} -> ClusterNames] /\ DOMAIN << >> = {}
    OBVIOUS
  <2> QED BY Zenon, <2>1 DEF Owners
<1> DEFINE none == << >>
<1>2. none \in Owners /\ DOMAIN none = {} /\ Loop = [at |-> "wait", want |-> {}, ptrs |-> none, todo |-> {}, synced |-> none]
  BY <1>1 DEF Loop
<1> HIDE DEF none
<1>3. Loop \in K8sLoops /\ Loop.at = "wait" /\ DOMAIN Loop.synced = {}
  BY <1>2 DEF K8sLoops, K8sStages
<1>4. [Loop EXCEPT !.at = "ended"] \in K8sLoops /\ [Loop EXCEPT !.at = "ended"].at = "ended"
  BY <1>3 DEF K8sLoops, K8sStages
<1>5. Starting \in K8sLoops /\ Starting.at = "connect" /\ Starting.synced = Loop.synced
  BY <1>3 DEF K8sLoops, K8sStages, Starting
<1> QED BY Zenon, <1>3, <1>4, <1>5

LEMMA StoresEmpty == Objectful(NoObjects)
<1>1. \A k \in Watches : None \in Values[k]
  BY DEF Values, Watches
<1> QED BY Zenon, <1>1 DEF Objectful, NoObjects

LEMMA K8sBegins ==
    ASSUME K8sInit
    PROVE  K8sInv
<1>1. Objectful(cluster) /\ Objectful(stores)
  BY Zenon, StoresEmpty DEF K8sInit
<1>2. loop \in K8sLoops /\ loop.at = "connect" /\ DOMAIN loop.synced = {} /\ zone = None
  BY Zenon, LoopTyped DEF K8sInit
<1>3. K8sTypes
  BY Zenon, <1>1, <1>2 DEF K8sInit, K8sTypes
<1>4. InHand
  BY Zenon, <1>2 DEF InHand
<1>5. PtrsKnown
  BY Zenon, <1>2 DEF PtrsKnown, K8sInit
<1> QED BY Zenon, <1>3, <1>4, <1>5 DEF K8sInv

LEMMA ObjectSeen ==
    ASSUME NEW st, NEW k \in Watches, NEW v, Objectful(st), v \in [Objects[k] -> Values[k]]
    PROVE  Objectful([st EXCEPT ![k] = v])
<1> DEFINE new == [st EXCEPT ![k] = v]
<1>1. DOMAIN st = Watches /\ \A j \in Watches : st[j] \in [Objects[j] -> Values[j]]
  BY Zenon DEF Objectful
<1>2. DOMAIN new = Watches /\ new[k] = v /\ \A j \in Watches \ {k} : new[j] = st[j]
  BY Zenon, <1>1
<1>3. new = [j \in Watches |-> new[j]]
  BY Zenon, <1>1
<1> HIDE DEF new
<1>4. Objectful(new)
  BY Zenon, <1>1, <1>2, <1>3 DEF Objectful
<1> QED BY Zenon, <1>4 DEF new

\* The watches, the cluster and a restart do not touch the zone.
LEMMA K8sWatches ==
    ASSUME K8sInv, (\E k \in Watched : watch_loop(k)) \/ Change \/ K8sRestart \/ WatchError \/ UNCHANGED k8sVars
    PROVE  K8sInv'
<1>0. /\ Objectful(cluster) /\ Objectful(stores) /\ listed \subseteq Watches /\ notify \in BOOLEAN
      /\ zone = None \/ zone \subseteq ClusterRecs
      /\ ptr \in [Ips -> ClusterNames \cup {None}] /\ kept \in BOOLEAN
  BY Zenon DEF K8sInv, K8sTypes
<1>1. \A k \in Watches : cluster[k] \in [Objects[k] -> Values[k]] /\ stores[k] \in [Objects[k] -> Values[k]]
  BY Zenon, <1>0 DEF Objectful
<1>2. ASSUME NEW k \in Watched, watch_loop(k) PROVE K8sInv'
  <2>1. k \in Watches
    BY Zenon, K8sAssumption
  <2>2. PICK v \in [Objects[k] -> Values[k]] : stores' = [stores EXCEPT ![k] = v]
    <3>1. CASE stores' = [stores EXCEPT ![k] = cluster[k]]
      BY Zenon, <1>1, <2>1, <3>1
    <3>2. ASSUME NEW n \in Objects[k], stores' = [stores EXCEPT ![k][n] = cluster[k][n]]
          PROVE  \E v \in [Objects[k] -> Values[k]] : stores' = [stores EXCEPT ![k] = v]
      <4>1. [stores[k] EXCEPT ![n] = cluster[k][n]] \in [Objects[k] -> Values[k]]
        BY <1>1, <2>1
      <4> QED BY Zenon, <3>2, <4>1
    <3> QED BY Zenon, <1>2, <3>1, <3>2 DEF watch_loop
  <2>3. Objectful(stores')
    BY Zenon, <1>0, <2>1, <2>2, ObjectSeen
  <2>4. UNCHANGED <<loop, zone, ptr, kept, cluster>> /\ listed' \subseteq Watches /\ notify' \in BOOLEAN
    BY Zenon, <1>0, <1>2, <2>1 DEF watch_loop, db
  <2> QED BY Zenon, <1>0, <2>3, <2>4, K8sFrame
<1>3. CASE Change
  <2>0. PICK k \in Watched : \E n \in Objects[k] : \E v \in Shapes[k] : cluster' = [cluster EXCEPT ![k][n] = v]
    BY Zenon, <1>3 DEF Change
  <2>1. PICK n \in Objects[k] : \E v \in Shapes[k] : cluster' = [cluster EXCEPT ![k][n] = v]
    BY Zenon, <2>0
  <2>10. PICK v \in Shapes[k] : cluster' = [cluster EXCEPT ![k][n] = v]
    BY Zenon, <2>1
  <2>2. k \in Watches /\ v \in Values[k]
    BY Zenon, K8sAssumption
  <2>3. [cluster[k] EXCEPT ![n] = v] \in [Objects[k] -> Values[k]]
    BY <1>1, <2>2
  <2>4. Objectful(cluster')
    BY Zenon, <1>0, <2>10, <2>2, <2>3, ObjectSeen
  <2>5. UNCHANGED <<loop, zone, ptr, kept, stores, listed, notify>>
    BY Zenon, <1>3 DEF Change, db
  <2> QED BY Zenon, <1>0, <2>4, <2>5, K8sFrame
<1>4. CASE K8sRestart
  <2>1. loop' \in K8sLoops /\ loop'.at = "connect" /\ DOMAIN loop'.synced = {} /\ Objectful(stores')
    BY Zenon, <1>4, LoopTyped, StoresEmpty DEF K8sRestart
  <2>2. UNCHANGED <<cluster, zone, ptr>> /\ listed' = {} /\ notify' = FALSE /\ kept' = FALSE
    BY Zenon, <1>4 DEF K8sRestart, db
  <2>3. K8sTypes'
    BY Zenon, <1>0, <2>1, <2>2 DEF K8sTypes, Objectful
  <2>4. InHand'
    BY Zenon, <2>1 DEF InHand
  <2> QED BY Zenon, <2>2, <2>3, <2>4 DEF K8sInv
<1>5. CASE WatchError
  <2>1. loop' \in K8sLoops /\ loop'.at = "ended"
    BY Zenon, <1>5, LoopTyped DEF WatchError
  <2>2. UNCHANGED <<cluster, stores, listed, notify, zone, ptr, kept>>
    BY Zenon, <1>5 DEF WatchError, db
  <2>3. K8sTypes'
    BY Zenon, <1>0, <2>1, <2>2, K8sLoopStep
  <2>4. InHand'
    BY Zenon, <2>1 DEF InHand
  <2>5. PtrsKnown'
    BY Zenon, <2>1 DEF PtrsKnown
  <2> QED BY Zenon, <2>3, <2>4, <2>5 DEF K8sInv
<1>6. CASE UNCHANGED k8sVars
  BY Zenon, <1>0, <1>6, K8sFrame DEF k8sVars, db
<1> QED BY Zenon, <1>2, <1>3, <1>4, <1>5, <1>6

\* connect_with_retry, Reconciler::new, the wake-up and the debounce: no PTR
\* record is touched.
LEMMA K8sQuiet ==
    ASSUME K8sInv, connect_with_retry \/ ensure_cluster_zone \/ Notified \/ Compute
    PROVE  K8sInv'
<1>0. /\ loop \in K8sLoops /\ notify \in BOOLEAN /\ Objectful(stores) /\ (zone = None \/ zone \subseteq ClusterRecs)
      /\ ptr \in [Ips -> ClusterNames \cup {None}] /\ InHand /\ (kept => PtrsKnown)
      /\ loop.at \notin {"connect", "begin", "ended"} => zone # None
  BY Zenon DEF K8sInv, K8sTypes
<1>1. CASE connect_with_retry
  <2>1. loop' \in K8sLoops /\ loop'.at = "begin" /\ loop.at = "connect" /\ loop'.synced = loop.synced
    BY <1>0, <1>1 DEF connect_with_retry, K8sLoops, K8sStages
  <2>2. UNCHANGED <<cluster, stores, listed, notify, zone, ptr, kept>>
    BY Zenon, <1>1 DEF connect_with_retry, db
  <2>3. K8sTypes'
    BY Zenon, <1>0, <2>1, <2>2, K8sLoopStep
  <2>4. InHand'
    BY Zenon, <1>0, <2>1 DEF InHand
  <2>5. kept' => PtrsKnown'
    BY Zenon, <1>0, <2>1, <2>2 DEF PtrsKnown
  <2> QED BY Zenon, <2>3, <2>4, <2>5 DEF K8sInv
<1>2. CASE ensure_cluster_zone
  <2>1. loop' \in K8sLoops /\ loop'.at = "wait" /\ loop.at = "begin" /\ loop'.synced = loop.synced
    BY <1>0, <1>2 DEF ensure_cluster_zone, K8sLoops, K8sStages
  <2>2. UNCHANGED <<cluster, stores, listed, notify, ptr, kept>> /\ zone' = IF zone = None THEN {} ELSE zone
    BY Zenon, <1>2 DEF ensure_cluster_zone
  <2>3. zone' \subseteq ClusterRecs /\ zone' # None
    BY Zenon, <1>0, <2>2, K8sAssumption
  <2>4. K8sTypes'
    BY Zenon, <1>0, <2>1, <2>2, <2>3, K8sLoopStep
  <2>5. InHand'
    BY Zenon, <1>0, <2>1 DEF InHand
  <2>6. kept' => PtrsKnown'
    BY Zenon, <1>0, <2>1, <2>2 DEF PtrsKnown
  <2> QED BY Zenon, <2>4, <2>5, <2>6 DEF K8sInv
<1>3. CASE Notified \/ Compute
  <2>1. /\ loop' \in K8sLoops /\ loop'.at \in {"debounce", "replace"} /\ loop.at \in {"wait", "debounce"}
        /\ loop'.synced = loop.synced
    <3>1. CASE Notified
      BY <1>0, <3>1 DEF Notified, K8sLoops, K8sStages
    <3>2. CASE Compute
      <4> DEFINE want == desired(stores)
      <4>1. want \in SUBSET ClusterRecs
        BY Zenon, <1>0, DesiredRecs
      <4>2. loop.at = "debounce" /\ loop' = [loop EXCEPT !.at = "replace", !.want = want]
        BY Zenon, <3>2 DEF Compute
      <4> HIDE DEF want
      <4> QED BY Zenon, <1>0, <4>1, <4>2 DEF K8sLoops, K8sStages
    <3> QED BY Zenon, <1>3, <3>1, <3>2
  <2>2. UNCHANGED <<cluster, stores, listed, zone, ptr, kept>> /\ notify' \in BOOLEAN
    BY Zenon, <1>0, <1>3 DEF Notified, Compute, db
  <2>3. zone # None
    BY Zenon, <1>0, <2>1
  <2>4. K8sTypes'
    BY Zenon, <1>0, <2>1, <2>2, <2>3, K8sLoopStep
  <2>5. \A ip \in DOMAIN loop.synced : A(loop.synced[ip], ip) \in zone
    BY Zenon, <1>0, <2>1 DEF InHand
  <2>6. loop'.at \notin {"connect", "begin", "serial", "sync", "prune"}
    BY Zenon, <2>1
  <2>7. InHand'
    BY Zenon, <2>1, <2>2, <2>5, <2>6 DEF InHand
  <2>8. ASSUME kept' PROVE PtrsKnown'
    <3>1. \A ip \in Ips : ptr[ip] # None => From(ip, loop.synced)
      BY Zenon, <1>0, <2>1, <2>2, <2>8 DEF PtrsKnown
    <3>2. \A ip \in Ips : ptr'[ip] # None => From(ip, loop.synced)'
      BY Zenon, <2>1, <2>2, <3>1 DEF From
    <3> QED BY Zenon, <2>6, <3>2 DEF PtrsKnown
  <2> QED BY Zenon, <2>4, <2>7, <2>8 DEF K8sInv
<1> QED BY Zenon, <1>1, <1>2, <1>3

\* The zone is replaced, and then each address gets an owner among its records.
LEMMA K8sApplies ==
    ASSUME K8sInv, apply
    PROVE  K8sInv'
<1>0. /\ loop \in K8sLoops /\ notify \in BOOLEAN /\ ptr \in [Ips -> ClusterNames \cup {None}]
      /\ (zone = None \/ zone \subseteq ClusterRecs)
      /\ InHand /\ (kept => PtrsKnown) /\ loop.want \subseteq ClusterRecs /\ loop.at \in K8sStages
      /\ loop.at \notin {"connect", "begin", "ended"} => zone # None
  BY DEF K8sInv, K8sTypes, K8sLoops
<1>1. UNCHANGED <<cluster, stores, listed, notify, ptr, kept>>
  BY Zenon DEF apply
<1>2. CASE loop.at = "replace" /\ zone' = loop.want /\ loop' = [loop EXCEPT !.at = "serial"]
  <2>1. /\ loop' \in K8sLoops /\ loop'.at = "serial" /\ loop'.synced = loop.synced /\ loop'.want = loop.want
    BY <1>0, <1>2 DEF K8sLoops, K8sStages
  <2>2. zone' \subseteq ClusterRecs /\ zone' # None
    BY Zenon, <1>0, <1>2, K8sAssumption
  <2>3. K8sTypes'
    BY Zenon, <1>0, <1>1, <2>1, <2>2, K8sLoopStep
  <2>4. InHand'
    BY Zenon, <1>2, <2>1 DEF InHand
  <2>5. ASSUME kept' PROVE PtrsKnown'
    <3>1. \A ip \in Ips : ptr[ip] # None => From(ip, loop.synced)
      BY Zenon, <1>0, <1>1, <1>2, <2>5 DEF PtrsKnown
    <3>2. \A ip \in Ips : ptr'[ip] # None => From(ip, loop.synced)'
      BY Zenon, <1>1, <2>1, <3>1 DEF From
    <3> QED BY Zenon, <2>1, <3>2 DEF PtrsKnown
  <2> QED BY Zenon, <2>3, <2>4, <2>5 DEF K8sInv
<1>3. ASSUME NEW owner \in [Addressed(loop.want) -> {r.name : r \in loop.want}], loop.at = "serial",
             \A ip \in DOMAIN owner : A(owner[ip], ip) \in loop.want,
             loop' = [loop EXCEPT !.at = "sync", !.want = {}, !.ptrs = owner, !.todo = DOMAIN owner], UNCHANGED zone
      PROVE  K8sInv'
  <2>1. zone = loop.want /\ zone # None
    BY Zenon, <1>0, <1>3 DEF InHand
  <2>2. DOMAIN owner = Addressed(zone) /\ Addressed(zone) \subseteq Ips
    BY Zenon, <2>1 DEF Addressed
  <2>3. owner \in Owners
    <3>1. \A r \in loop.want : r.name \in ClusterNames
      BY <1>0 DEF ClusterRecs
    <3>2. \A ip \in Addressed(zone) : owner[ip] \in ClusterNames
      BY Zenon, <2>1, <3>1
    <3>3. owner \in [Addressed(zone) -> ClusterNames]
      BY Zenon, <2>1, <3>2
    <3> QED BY Zenon, <2>2, <3>3 DEF Owners
  <2>4. DOMAIN owner \in SUBSET Ips
    BY Zenon, <2>2
  <2>5. /\ loop' \in K8sLoops /\ loop'.at = "sync" /\ loop'.synced = loop.synced
        /\ loop'.ptrs = owner /\ loop'.todo = DOMAIN owner
    BY Zenon, <1>0, <1>3, <2>3, <2>4 DEF K8sLoops, K8sStages
  <2>6. K8sTypes'
    BY Zenon, <1>0, <1>1, <1>3, <2>1, <2>5, K8sLoopStep
  <2>7. InHand'
    <3>1. Addressed(zone)' = Addressed(zone)
      BY Zenon, <1>3 DEF Addressed
    <3>2. DOMAIN loop'.ptrs = Addressed(zone)' /\ \A ip \in DOMAIN loop'.ptrs : A(loop'.ptrs[ip], ip) \in zone'
      BY Zenon, <1>3, <2>1, <2>2, <2>5, <3>1
    <3>3. loop'.todo \subseteq DOMAIN loop'.ptrs
      BY Zenon, <2>5
    <3> QED BY Zenon, <2>5, <3>2, <3>3 DEF InHand
  <2>8. ASSUME kept' PROVE PtrsKnown'
    <3>1. \A ip \in Ips : ptr[ip] # None => From(ip, loop.synced)
      BY Zenon, <1>0, <1>1, <1>3, <2>8 DEF PtrsKnown
    <3>2. \A ip \in Ips : ptr'[ip] # None => From(ip, loop.synced)'
      BY Zenon, <1>1, <2>5, <3>1 DEF From
    <3> QED BY Zenon, <2>5, <3>2 DEF PtrsKnown
  <2> QED BY Zenon, <2>6, <2>7, <2>8 DEF K8sInv
<1> QED BY Zenon, <1>2, <1>3 DEF apply

\* reconcile_ptrs writes the PTR of each owner, and prunes the ones whose address
\* has none.
LEMMA K8sPtrs ==
    ASSUME K8sInv, reconcile_ptrs
    PROVE  K8sInv'
<1>0. /\ loop \in K8sLoops /\ notify \in BOOLEAN /\ ptr \in [Ips -> ClusterNames \cup {None}]
      /\ (zone = None \/ zone \subseteq ClusterRecs) /\ InHand /\ (kept => PtrsKnown)
      /\ loop.at \notin {"connect", "begin", "ended"} => zone # None
  BY Zenon DEF K8sInv, K8sTypes
<1>1. UNCHANGED <<cluster, stores, listed, notify, zone, kept>>
  BY Zenon DEF reconcile_ptrs
<1>2. Addressed(zone)' = Addressed(zone)
  BY Zenon, <1>1 DEF Addressed
<1>3. /\ loop.ptrs \in Owners /\ loop.synced \in Owners /\ loop.todo \subseteq Ips
  BY <1>0 DEF K8sLoops
<1>4. \A o \in Owners : DOMAIN o \subseteq Ips /\ \A ip \in DOMAIN o : o[ip] \in ClusterNames
  BY Zenon DEF Owners
<1>5. ASSUME loop.at \in {"sync", "prune"}
      PROVE  /\ zone # None /\ DOMAIN loop.ptrs = Addressed(zone)
             /\ \A ip \in DOMAIN loop.ptrs : A(loop.ptrs[ip], ip) \in zone
  BY Zenon, <1>0, <1>5 DEF InHand
<1>6. ASSUME NEW i \in loop.todo, loop.at = "sync", ptr' = [ptr EXCEPT ![i] = loop.ptrs[i]],
             loop' = [loop EXCEPT !.todo = loop.todo \ {i}]
      PROVE  K8sInv'
  <2>1. i \in DOMAIN loop.ptrs /\ i \in Ips /\ loop.ptrs[i] \in ClusterNames /\ loop.todo \subseteq DOMAIN loop.ptrs
    BY Zenon, <1>0, <1>3, <1>4, <1>6 DEF InHand
  <2>2. /\ loop' \in K8sLoops /\ loop'.at = "sync" /\ loop'.synced = loop.synced /\ loop'.ptrs = loop.ptrs
        /\ loop'.todo = loop.todo \ {i}
    BY <1>0, <1>3, <1>6 DEF K8sLoops
  <2>3. /\ ptr' \in [Ips -> ClusterNames \cup {None}] /\ ptr'[i] = loop.ptrs[i]
        /\ \A ip \in Ips \ {i} : ptr'[ip] = ptr[ip]
    BY Zenon, <1>0, <1>6, <2>1
  <2>4. K8sTypes'
    BY Zenon, <1>0, <1>1, <1>5, <1>6, <2>2, <2>3, K8sLoopStep
  <2>5. InHand'
    <3>1. DOMAIN loop'.ptrs = Addressed(zone)' /\ \A ip \in DOMAIN loop'.ptrs : A(loop'.ptrs[ip], ip) \in zone'
      <4>1. DOMAIN loop.ptrs = Addressed(zone) /\ \A ip \in DOMAIN loop.ptrs : A(loop.ptrs[ip], ip) \in zone
        BY Zenon, <1>5, <1>6
      <4> QED BY <1>1, <1>2, <2>2, <4>1
    <3>2. loop'.todo \subseteq DOMAIN loop'.ptrs
      BY Zenon, <2>1, <2>2
    <3> QED BY Zenon, <2>2, <3>1, <3>2 DEF InHand
  <2>6. ASSUME kept' PROVE PtrsKnown'
    <3>1. PtrsKnown
      BY Zenon, <1>0, <1>1, <2>6
    <3>2. From(i, loop.ptrs)'
      BY Zenon, <2>1, <2>2, <2>3 DEF From
    <3>3. \A ip \in Ips \ {i} : ptr'[ip] # None => From(ip, loop.ptrs)' \/ From(ip, loop.synced)'
      BY Zenon, <1>6, <2>2, <2>3, <3>1 DEF PtrsKnown, From
    <3>4. \A ip \in Ips : ip \in DOMAIN loop'.ptrs \ loop'.todo => ptr'[ip] = loop'.ptrs[ip]
      BY Zenon, <1>6, <2>2, <2>3, <3>1 DEF PtrsKnown
    <3> QED BY Zenon, <2>2, <3>2, <3>3, <3>4 DEF PtrsKnown
  <2> QED BY Zenon, <2>4, <2>5, <2>6 DEF K8sInv
<1>7. CASE /\ loop.at = "sync" /\ loop.todo = {} /\ UNCHANGED ptr
           /\ loop' = [loop EXCEPT !.at = "prune", !.todo = DOMAIN loop.synced \ DOMAIN loop.ptrs]
  <2>1. DOMAIN loop.synced \ DOMAIN loop.ptrs \in SUBSET Ips
    BY Zenon, <1>3, <1>4
  <2>2. /\ loop' \in K8sLoops /\ loop'.at = "prune" /\ loop'.synced = loop.synced /\ loop'.ptrs = loop.ptrs
        /\ loop'.todo = DOMAIN loop.synced \ DOMAIN loop.ptrs
    BY Zenon, <1>0, <1>7, <2>1 DEF K8sLoops, K8sStages
  <2>3. K8sTypes'
    BY Zenon, <1>0, <1>1, <1>5, <1>7, <2>2, K8sLoopStep
  <2>4. InHand'
    <3>1. DOMAIN loop'.ptrs = Addressed(zone)' /\ \A ip \in DOMAIN loop'.ptrs : A(loop'.ptrs[ip], ip) \in zone'
      <4>1. DOMAIN loop.ptrs = Addressed(zone) /\ \A ip \in DOMAIN loop.ptrs : A(loop.ptrs[ip], ip) \in zone
        BY Zenon, <1>5, <1>7
      <4> QED BY <1>1, <1>2, <2>2, <4>1
    <3>2. \A ip \in loop'.todo : ip \notin DOMAIN loop'.ptrs
      BY Zenon, <2>2
    <3> QED BY Zenon, <2>2, <3>1, <3>2 DEF InHand
  <2>5. ASSUME kept' PROVE PtrsKnown'
    <3>1. PtrsKnown
      BY Zenon, <1>0, <1>1, <2>5
    <3>2. \A ip \in Ips : ip \in DOMAIN loop.ptrs => ptr[ip] = loop.ptrs[ip]
      BY Zenon, <1>7, <3>1 DEF PtrsKnown
    <3>3. \A ip \in Ips : ptr[ip] # None => From(ip, loop.ptrs) \/ (ip \in loop'.todo /\ From(ip, loop.synced))
      BY Zenon, <1>7, <2>2, <3>1, <3>2 DEF PtrsKnown, From
    <3>4. \A ip \in Ips : ptr'[ip] # None => From(ip, loop.ptrs)' \/ (ip \in loop'.todo /\ From(ip, loop.synced)')
      BY Zenon, <1>7, <2>2, <3>3 DEF From
    <3> QED BY Zenon, <1>7, <2>2, <3>2, <3>4 DEF PtrsKnown
  <2> QED BY Zenon, <2>3, <2>4, <2>5 DEF K8sInv
<1>8. ASSUME NEW i \in loop.todo, loop.at = "prune",
             ptr' = [ptr EXCEPT ![i] = IF ptr[i] = loop.synced[i] THEN None ELSE ptr[i]],
             loop' = [loop EXCEPT !.todo = loop.todo \ {i}]
      PROVE  K8sInv'
  <2>1. i \in Ips /\ i \notin DOMAIN loop.ptrs /\ \A ip \in loop.todo : ip \notin DOMAIN loop.ptrs
    BY Zenon, <1>0, <1>3, <1>8 DEF InHand
  <2>2. /\ loop' \in K8sLoops /\ loop'.at = "prune" /\ loop'.synced = loop.synced /\ loop'.ptrs = loop.ptrs
        /\ loop'.todo = loop.todo \ {i}
    BY <1>0, <1>3, <1>8 DEF K8sLoops
  <2>3. /\ ptr' \in [Ips -> ClusterNames \cup {None}]
        /\ ptr'[i] = IF ptr[i] = loop.synced[i] THEN None ELSE ptr[i]
        /\ \A ip \in Ips \ {i} : ptr'[ip] = ptr[ip]
    BY <1>0, <1>8, <2>1
  <2>4. K8sTypes'
    BY Zenon, <1>0, <1>1, <1>5, <1>8, <2>2, <2>3, K8sLoopStep
  <2>5. InHand'
    <3>1. DOMAIN loop'.ptrs = Addressed(zone)' /\ \A ip \in DOMAIN loop'.ptrs : A(loop'.ptrs[ip], ip) \in zone'
      <4>1. DOMAIN loop.ptrs = Addressed(zone) /\ \A ip \in DOMAIN loop.ptrs : A(loop.ptrs[ip], ip) \in zone
        BY Zenon, <1>5, <1>8
      <4> QED BY <1>1, <1>2, <2>2, <4>1
    <3>2. \A ip \in loop'.todo : ip \notin DOMAIN loop'.ptrs
      BY Zenon, <2>1, <2>2
    <3> QED BY Zenon, <2>2, <3>1, <3>2 DEF InHand
  <2>6. ASSUME kept' PROVE PtrsKnown'
    <3>1. PtrsKnown
      BY Zenon, <1>0, <1>1, <2>6
    <3>2. ptr'[i] = None
      BY Zenon, <1>8, <2>1, <2>3, <3>1 DEF PtrsKnown, From
    <3>3. \A ip \in Ips \ {i} : ptr'[ip] # None => From(ip, loop.ptrs)' \/ (ip \in loop'.todo /\ From(ip, loop.synced)')
      BY Zenon, <1>8, <2>2, <2>3, <3>1 DEF PtrsKnown, From
    <3>4. \A ip \in Ips : ip \in DOMAIN loop'.ptrs => ptr'[ip] = loop'.ptrs[ip]
      BY Zenon, <1>8, <2>1, <2>2, <2>3, <3>1 DEF PtrsKnown
    <3> QED BY Zenon, <2>2, <3>2, <3>3, <3>4 DEF PtrsKnown
  <2> QED BY Zenon, <2>4, <2>5, <2>6 DEF K8sInv
<1>9. CASE loop.at = "prune" /\ loop.todo = {} /\ UNCHANGED ptr /\ loop' = [Loop EXCEPT !.synced = loop.ptrs]
  <2>1. loop' \in K8sLoops /\ loop'.at = "wait" /\ loop'.synced = loop.ptrs
    BY <1>3, <1>9, LoopTyped DEF K8sLoops, K8sStages
  <2>2. K8sTypes'
    BY Zenon, <1>0, <1>1, <1>5, <1>9, <2>1, K8sLoopStep
  <2>3. InHand'
    <3>1. \A ip \in DOMAIN loop'.synced : A(loop'.synced[ip], ip) \in zone'
      <4>1. \A ip \in DOMAIN loop.ptrs : A(loop.ptrs[ip], ip) \in zone
        BY Zenon, <1>5, <1>9
      <4> QED BY <1>1, <2>1, <4>1
    <3> QED BY Zenon, <2>1, <3>1 DEF InHand
  <2>4. ASSUME kept' PROVE PtrsKnown'
    <3>1. PtrsKnown
      BY Zenon, <1>0, <1>1, <2>4
    <3>2. \A ip \in Ips : ptr'[ip] # None => From(ip, loop.synced)'
      BY Zenon, <1>9, <2>1, <3>1 DEF PtrsKnown, From
    <3> QED BY Zenon, <2>1, <3>2 DEF PtrsKnown
  <2> QED BY Zenon, <2>2, <2>3, <2>4 DEF K8sInv
<1> QED BY Zenon, <1>6, <1>7, <1>8, <1>9 DEF reconcile_ptrs

LEMMA K8sStep ==
    ASSUME K8sInv, [K8sNext]_k8sVars
    PROVE  K8sInv'
BY Zenon, K8sWatches, K8sQuiet, K8sApplies, K8sPtrs DEF K8sNext, Reconcile

LEMMA K8sSafe ==
    ASSUME K8sInv
    PROVE  K8sTypeOK /\ PtrsTrue
<1>1. /\ K8sTypes /\ InHand /\ (kept => PtrsKnown) /\ loop \in K8sLoops /\ (zone = None \/ zone \subseteq ClusterRecs)
  BY Zenon DEF K8sInv, K8sTypes
<1>2. loop.at \in K8sStages /\ loop.want \subseteq ClusterRecs
  BY <1>1 DEF K8sLoops
<1>3. \A r \in ClusterRecs : r.data \in Ips \cup {"cname"}
  BY DEF ClusterRecs
<1>4. K8sTypeOK
  BY Zenon, <1>1, <1>2, <1>3 DEF K8sTypeOK, K8sTypes, K8sStages, Objectful, InHand
<1>5. PtrsTrue
  <2> SUFFICES ASSUME kept, loop.at \in {"wait", "debounce", "replace"}, NEW ip \in Ips, ptr[ip] # None
               PROVE  A(ptr[ip], ip) \in zone
    BY Zenon DEF PtrsTrue
  <2>1. From(ip, loop.synced)
    BY Zenon, <1>1 DEF PtrsKnown
  <2>2. \A j \in DOMAIN loop.synced : A(loop.synced[j], j) \in zone
    BY Zenon, <1>1 DEF InHand
  <2> QED BY Zenon, <2>1, <2>2 DEF From
<1> QED BY Zenon, <1>4, <1>5

\* The Kubernetes source, for any services, pods and watches: when the reconcile
\* loop is at rest or about to replace the zone, a PTR record it left names a
\* record of the zone that has the address, however the watches, errors and
\* passes before it interleaved.
THEOREM PtrsNeverLie == K8sInit /\ [][K8sNext]_k8sVars => [](K8sTypeOK /\ PtrsTrue)
<1>1. K8sInit => K8sInv
  BY Zenon, K8sBegins
<1>2. K8sInv /\ [K8sNext]_k8sVars => K8sInv'
  BY Zenon, K8sStep
<1>3. K8sInv => K8sTypeOK /\ PtrsTrue
  BY Zenon, K8sSafe
<1> QED BY <1>1, <1>2, <1>3, PTL

=============================================================================
