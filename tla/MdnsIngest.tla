----------------------------- MODULE MdnsIngest -----------------------------
(***************************************************************************)
(* The mDNS source (crates/microdns-mdns): every instance listens for      *)
(* announcements on its own network, keeps what it hears in a cache, and   *)
(* makes its records of a shared zone match the cache.  One instance holds *)
(* the zone and writes its tables; the others write over its REST API,     *)
(* where every request may fail.                                           *)
(*                                                                         *)
(* A name stands for one announced record, its translation into the zone   *)
(* included; a record of the zone says who registered it.  A cache entry   *)
(* is fresh, or due when its TTL has run out.  Reading the zone and every  *)
(* write to it are separate steps, so operators and other instances come   *)
(* in between.  Left out: the forwarder of a reporter (module Resolver),   *)
(* TTL updates of records that stay, the questions that are multicast,     *)
(* local database errors.                                                  *)
(***************************************************************************)
EXTENDS FiniteSets, Integers, Nothing

CONSTANTS Instances, Holder, Names, Zones,
          Curator,        \* owner of the records operators make
          Filters,        \* the sets of names an allow/deny list can let pass
          Toml            \* the [mdns] block of the bootstrap file

Configs == [on : BOOLEAN, zone : Zones, pass : Filters]

ASSUME MdnsAssumption ==
    /\ Holder \in Instances /\ Curator \notin Instances
    /\ Filters \subseteq SUBSET Names /\ Toml \in Configs /\ None \notin Configs

VARIABLES stored,     \* the runtime section "mdns" of each instance's database
          pub,        \* the records of the zones
          alive,      \* devices that are on
          m,          \* the source of each instance, in memory
          restarted   \* instances that did

vars == <<stored, pub, alive, m, restarted>>

Rec(z, n, i) == [zone |-> z, name |-> n, by |-> i]
Curated(z, n) == Rec(z, n, Curator) \in pub

Started == [at |-> "load", cfg |-> None, heard |-> [n \in Names |-> "no"], dirty |-> FALSE,
            grace |-> FALSE, add |-> {}, del |-> {}, theirs |-> {}, then |-> "load"]

Stages == {"load", "open", "session", "apply", "list", "withdraw", "wait", "failed"}

TypeOK ==
    /\ stored \in [Instances -> Configs \cup {None}]
    /\ pub \subseteq [zone : Zones, name : Names, by : Instances \cup {Curator}]
    /\ alive \subseteq Names /\ restarted \subseteq Instances
    /\ m \in [Instances -> [at : Stages, then : {"load", "wait"}, cfg : Configs \cup {None},
                            dirty : BOOLEAN, grace : BOOLEAN,
                            heard : [Names -> {"no", "fresh", "due"}],
                            add : SUBSET Names, del : SUBSET Names, theirs : SUBSET Names]]
    /\ \A i \in Instances : m[i].at \notin {"session", "apply"} => \A n \in Names : m[i].heard[n] = "no"

Init ==
    /\ stored \in [Instances -> Configs \cup {None}]
    /\ pub = {} /\ alive = {} /\ restarted = {}
    /\ m = [i \in Instances |-> Started]

At(i, s) == m[i].at = s
Goto(i, s) == m' = [m EXCEPT ![i] = s]
Mine(i, z) == {n \in Names : Rec(z, n, i) \in pub}
Remote(i) == i # Holder

-----------------------------------------------------------------------------
(* The outer loop: run, wait_for_change, withdraw. *)

Load(i) ==
    /\ At(i, "load")
    /\ Goto(i, IF stored[i] = None THEN [Started EXCEPT !.at = "wait"]
               ELSE IF stored[i].on THEN [Started EXCEPT !.at = "open", !.cfg = stored[i]]
               ELSE [Started EXCEPT !.at = "list", !.cfg = stored[i], !.then = "wait"])
    /\ UNCHANGED <<stored, pub, alive, restarted>>

\* The listener binds its socket or fails to.
Open(i) ==
    /\ At(i, "open")
    /\ \E s \in {"session", "failed"} : Goto(i, [m[i] EXCEPT !.at = s])
    /\ UNCHANGED <<stored, pub, alive, restarted>>

wait_for_change(i) ==
    /\ \/ At(i, "wait") /\ stored[i] # None /\ stored[i].on
       \/ At(i, "failed") /\ stored[i] # m[i].cfg
    /\ Goto(i, Started)
    /\ UNCHANGED <<stored, pub, alive, restarted>>

\* Mutant: the names stay.
ConfigTick_keepsNames(i) ==
    /\ At(i, "session") /\ stored[i] # m[i].cfg
    /\ Goto(i, Started)
    /\ UNCHANGED <<stored, pub, alive, restarted>>

\* The session sees another configuration: the cache goes, then the names.
ConfigTick(i) ==
    /\ At(i, "session") /\ stored[i] # m[i].cfg
    /\ Goto(i, [Started EXCEPT !.at = "list", !.cfg = m[i].cfg])
    /\ UNCHANGED <<stored, pub, alive, restarted>>

\* Lists the zone and deletes the records of this instance, as the holder ...
withdraw_all(i) ==
    /\ i = Holder
    /\ \/ /\ At(i, "list")
          /\ Goto(i, [m[i] EXCEPT !.at = "withdraw", !.del = Mine(i, m[i].cfg.zone)])
          /\ UNCHANGED pub
       \/ \E n \in m[i].del :
          /\ At(i, "withdraw")
          /\ Goto(i, [m[i] EXCEPT !.del = @ \ {n}])
          /\ pub' = pub \ {Rec(m[i].cfg.zone, n, i)}
    /\ UNCHANGED <<stored, alive, restarted>>

\* ... and over the API, where any request may fail and is not repeated.
withdraw_all_remote(i) ==
    /\ i # Holder
    /\ \/ /\ At(i, "list")
          /\ \E found \in {Mine(i, m[i].cfg.zone), {}} :
                Goto(i, [m[i] EXCEPT !.at = "withdraw", !.del = found])
          /\ UNCHANGED pub
       \/ \E n \in m[i].del :
          /\ At(i, "withdraw")
          /\ Goto(i, [m[i] EXCEPT !.del = @ \ {n}])
          /\ pub' \in {pub \ {Rec(m[i].cfg.zone, n, i)}, pub}
    /\ UNCHANGED <<stored, alive, restarted>>

\* withdraw returns, to the next configuration or to wait for one.
Withdrawn(i) ==
    /\ At(i, "withdraw") /\ m[i].del = {}
    /\ Goto(i, [Started EXCEPT !.at = m[i].then])
    /\ UNCHANGED <<stored, pub, alive, restarted>>

-----------------------------------------------------------------------------
(* The session. *)

\* The cache: what a record with a TTL, or a goodbye, makes of the entry.
learn(goodbye) == IF goodbye THEN "no" ELSE "fresh"

\* A packet that was received: only a record that is new or gone makes the zone
\* stale.
absorb(i, n, goodbye) ==
    LET new == learn(goodbye)
    IN  /\ At(i, "session") /\ new # m[i].heard[n]
        /\ Goto(i, [m[i] EXCEPT !.heard[n] = new,
                                !.dirty = @ \/ (m[i].heard[n] = "no") # (new = "no")])
        /\ UNCHANGED <<stored, pub, alive, restarted>>

Announce(i, n) == n \in alive /\ absorb(i, n, FALSE)
Goodbye(i, n) == n \notin alive /\ absorb(i, n, TRUE)

expire(heard) == [n \in Names |-> IF heard[n] = "due" THEN "no" ELSE heard[n]]

permits(cfg, n) == n \in cfg.pass

desired(heard, cfg) == {n \in Names : heard[n] # "no" /\ permits(cfg, n)}

\* What to create and delete, from one reading of the zone.  The holder leaves
\* a name to a curated record, and withdraws its own.
local_plan(i, want, prune) ==
    LET z == m[i].cfg.zone
        theirs == {n \in Names : Curated(z, n)}
    IN  [add |-> (want \ theirs) \ Mine(i, z),
         del |-> IF prune THEN Mine(i, z) \ (want \ theirs) ELSE {}, theirs |-> theirs]

\* A reporter is content with a record of anyone's.
remote_plan(i, want, prune) ==
    LET z == m[i].cfg.zone
        theirs == {n \in Names : Curated(z, n)}
    IN  [add |-> {n \in want \ theirs : ~\E j \in Instances : Rec(z, n, j) \in pub},
         del |-> IF prune THEN Mine(i, z) \ want ELSE {}, theirs |-> theirs]

Plan(i, heard, prune) ==
    IF Remote(i) THEN remote_plan(i, desired(heard, m[i].cfg), prune)
    ELSE local_plan(i, desired(heard, m[i].cfg), prune)

\* Mutant: names are withdrawn from the first tick on.
Reconcile_noGrace(i) ==
    LET kept == expire(m[i].heard)
        plan == Plan(i, kept, TRUE)
    IN  /\ At(i, "session") /\ (m[i].dirty \/ kept # m[i].heard)
        /\ Goto(i, [m[i] EXCEPT !.at = "apply", !.heard = kept, !.add = plan.add, !.del = plan.del,
                                !.theirs = plan.theirs])
        /\ UNCHANGED <<stored, pub, alive, restarted>>

\* The reconcile tick: expired entries go, and if anything changed the zone is
\* read.  When that fails dirty stays as it was.
Reconcile(i) ==
    LET kept == expire(m[i].heard)
        plan == Plan(i, kept, m[i].grace)
    IN  /\ At(i, "session") /\ (m[i].dirty \/ kept # m[i].heard)
        /\ \/ Goto(i, [m[i] EXCEPT !.at = "apply", !.heard = kept, !.add = plan.add, !.del = plan.del,
                                   !.theirs = plan.theirs])
           \/ Remote(i) /\ Goto(i, [m[i] EXCEPT !.heard = kept])
        /\ UNCHANGED <<stored, pub, alive, restarted>>

\* Mutant: creations are left for the next change.
apply_deletesOnly(i) ==
    /\ At(i, "apply") /\ i = Holder
    /\ \/ \E n \in m[i].add : Goto(i, [m[i] EXCEPT !.add = {}]) /\ UNCHANGED pub
       \/ \E n \in m[i].del :
          /\ Goto(i, [m[i] EXCEPT !.del = @ \ {n}])
          /\ pub' = pub \ {Rec(m[i].cfg.zone, n, i)}
    /\ UNCHANGED <<stored, alive, restarted>>

\* One write at a time, creations first.
apply(i) ==
    /\ At(i, "apply") /\ i = Holder
    /\ \/ \E n \in m[i].add :
          /\ Goto(i, [m[i] EXCEPT !.add = @ \ {n}])
          /\ pub' = pub \cup {Rec(m[i].cfg.zone, n, i)}
       \/ \E n \in m[i].del :
          /\ m[i].add = {}
          /\ Goto(i, [m[i] EXCEPT !.del = @ \ {n}])
          /\ pub' = pub \ {Rec(m[i].cfg.zone, n, i)}
    /\ UNCHANGED <<stored, alive, restarted>>

\* A reporter's failures are only logged.
apply_remote(i) ==
    /\ At(i, "apply") /\ i # Holder
    /\ \/ \E n \in m[i].add :
          /\ Goto(i, [m[i] EXCEPT !.add = @ \ {n}])
          /\ pub' \in {pub \cup {Rec(m[i].cfg.zone, n, i)}, pub}
       \/ \E n \in m[i].del :
          /\ m[i].add = {}
          /\ Goto(i, [m[i] EXCEPT !.del = @ \ {n}])
          /\ pub' \in {pub \ {Rec(m[i].cfg.zone, n, i)}, pub}
    /\ UNCHANGED <<stored, alive, restarted>>

\* apply returns.
Applied(i) ==
    /\ At(i, "apply") /\ m[i].add = {} /\ m[i].del = {}
    /\ Goto(i, [m[i] EXCEPT !.at = "session", !.dirty = FALSE, !.theirs = {}])
    /\ UNCHANGED <<stored, pub, alive, restarted>>

GraceOver(i) ==
    /\ m[i].at \in {"session", "apply"} /\ ~m[i].grace
    /\ Goto(i, [m[i] EXCEPT !.grace = TRUE])
    /\ UNCHANGED <<stored, pub, alive, restarted>>

\* The TTL of an entry runs out.
Lapse(i, n) ==
    /\ m[i].heard[n] = "fresh"
    /\ Goto(i, [m[i] EXCEPT !.heard[n] = "due"])
    /\ UNCHANGED <<stored, pub, alive, restarted>>

-----------------------------------------------------------------------------
(* The environment. *)

Device ==
    /\ \E n \in Names : alive' = IF n \in alive THEN alive \ {n} ELSE alive \cup {n}
    /\ UNCHANGED <<stored, pub, m, restarted>>

\* put_config, delete_config
Configure(i) ==
    /\ \E c \in Configs \cup {None} : stored' = [stored EXCEPT ![i] = c]
    /\ UNCHANGED <<pub, alive, m, restarted>>

Operator ==
    /\ \E z \in Zones, n \in Names :
          pub' = IF Curated(z, n) THEN pub \ {Rec(z, n, Curator)} ELSE pub \cup {Rec(z, n, Curator)}
    /\ UNCHANGED <<stored, alive, m, restarted>>

bootstrap(c) == IF c = None THEN Toml ELSE c

\* A start, from a bootstrap file with an [mdns] block or without.
Restart(i) ==
    /\ Goto(i, Started) /\ restarted' = restarted \cup {i}
    /\ \E c \in {stored[i], bootstrap(stored[i])} : stored' = [stored EXCEPT ![i] = c]
    /\ UNCHANGED <<pub, alive>>

Step(i) == \/ Load(i) \/ Open(i) \/ wait_for_change(i) \/ ConfigTick(i)
           \/ withdraw_all(i) \/ withdraw_all_remote(i) \/ Withdrawn(i)
           \/ Reconcile(i) \/ apply(i) \/ apply_remote(i) \/ Applied(i)

Next ==
    \/ \E i \in Instances : Step(i) \/ GraceOver(i) \/ Configure(i) \/ Restart(i)
    \/ \E i \in Instances, n \in Names : Announce(i, n) \/ Goodbye(i, n) \/ Lapse(i, n)
    \/ Device \/ Operator

\* Timers fire and requests end, also by failing; a device that is off is not
\* heard again, and the TTL of its entry runs out.
Fairness ==
    /\ \A i \in Instances : WF_vars(Step(i)) /\ WF_vars(GraceOver(i))
    /\ \A i \in Instances, n \in Names : WF_vars(n \notin alive /\ Lapse(i, n))

Spec == Init /\ [][Next]_vars /\ Fairness

-----------------------------------------------------------------------------
(* Properties. *)

\* Instances that feed one zone do not tread on each other: a record goes only
\* by the hand that made it (apply and withdraw_all go by origin, not source).
OwnOnly ==
    [][\A r \in pub \ pub' : \/ r.by = Curator
                             \/ m[r.by].at \in {"apply", "withdraw"} /\ m'[r.by] # m[r.by]]_vars

\* While listening, an instance withdraws a name only after the grace of its
\* start, and only if it does not hear the device any more, its filter stops the
\* name or, on the holder, an operator owned the name when the zone was read: a
\* restart with an empty cache takes no name away (prune).
WithdrawsOnlyGone ==
    [][\A r \in pub \ pub' : r.by # Curator /\ m[r.by].at = "apply" =>
           /\ m[r.by].grace
           /\ r.name \in desired(m[r.by].heard, m[r.by].cfg)
                  => r.by = Holder /\ r.name \in m[r.by].theirs]_vars

\* Types; and a holder that was not restarted leaves nothing behind in a zone it no longer
\* feeds, nor a name its filter no longer lets pass: a changed configuration is
\* noticed, and everything is withdrawn before the next session starts.
Rehomed ==
    /\ TypeOK
    /\ Holder \notin restarted =>
        \A z \in Zones : Mine(Holder, z) # {} => 
            m[Holder].cfg # None /\ m[Holder].cfg.zone = z /\ Mine(Holder, z) \subseteq m[Holder].cfg.pass

Listening == m[Holder].at \in {"session", "apply"}

\* On the holder, a device that keeps being heard ends up in the zone for good,
\* whatever restarts came before, unless an operator owned its name.
HolderServes ==
    \A n \in Names :
        (/\ [](\A z \in Zones : ~Curated(z, n))
         /\ <>[](Listening /\ m[Holder].heard[n] = "fresh" /\ permits(m[Holder].cfg, n)))
            => <>[](Listening /\ Rec(m[Holder].cfg.zone, n, Holder) \in pub)

\* On a holder that keeps hearing news, the names of devices that are gone are
\* withdrawn for good, the ones from before a restart included.
GoneWithNews ==
    \A n \in Names :
        (/\ []<>(m[Holder].at = "apply")
         /\ <>[](Listening /\ m[Holder].heard[n] = "no"))
            => <>[](Listening /\ Rec(m[Holder].cfg.zone, n, Holder) \notin pub)

\* Records are withdrawn by the right instance, and for a reason.
WithdrawsRight == OwnOnly /\ WithdrawsOnlyGone

\* The zone follows what the holder hears, in both directions.
HolderConverges == HolderServes /\ GoneWithNews

=============================================================================
