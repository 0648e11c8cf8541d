---------------------------- MODULE QueryTracker ----------------------------
(***************************************************************************)
(* Query statistics (core/src/query_tracker.rs): every query bumps a row   *)
(* in memory with three atomic stores, the flush task of main.rs reads the *)
(* dirty rows with four and writes them in one transaction, a restart      *)
(* hydrates the rows from the table.                                       *)
(*                                                                         *)
(* Bumps of several query tasks interleave with each other and with the    *)
(* flush store by store.  The time of the last query is left out: it moves *)
(* with the count.  The write may fail, which is only logged.              *)
(***************************************************************************)
EXTENDS Integers, FiniteSets

CONSTANTS Names,       \* the rows: name and record type
          Tasks,       \* query tasks
          MaxCount     \* bound on the queries for a name

ASSUME CountAssumption == MaxCount \in Nat

VARIABLES rows,        \* in memory: count and dirty flag
          bumping,     \* task -> what its bump has left to do
          flushing,    \* the flush: rows to look at, the row in hand, rows to write
          stats,       \* the query_stats table
          asked,       \* history: queries for a name
          behind       \* history: names whose row may stay behind, and why

trackVars == <<rows, bumping, flushing, stats, asked, behind>>

Row == [count |-> 0, dirty |-> FALSE]
NoFlush == [at |-> "idle", todo |-> {}, hand |-> {}, count |-> 0, write |-> << >>]
Calm == [at |-> "none", name |-> {}]

TrackInit ==
    /\ rows = [n \in Names |-> Row] /\ bumping = [t \in Tasks |-> Calm] /\ flushing = NoFlush
    /\ stats = [n \in Names |-> 0] /\ asked = [n \in Names |-> 0] /\ behind = {}

\* Types; and the table is never ahead of memory, nor memory of the queries.
TrackTypeOK ==
    /\ \A n \in Names : stats[n] \in 0 .. rows[n].count /\ rows[n].dirty \in BOOLEAN
    /\ \A n \in Names : rows[n].count <= asked[n]
    /\ flushing.at \in {"idle", "look", "read", "clear", "write"} /\ behind \subseteq Names
    /\ \A t \in Tasks : bumping[t].at \in {"none", "dirty"}

-----------------------------------------------------------------------------
(* bump: the count and the time, then the flag. *)

\* Mutant: the flag first.
bump_flagFirst(t, n) ==
    /\ \/ /\ bumping[t] = Calm /\ asked[n] < MaxCount
          /\ rows' = [rows EXCEPT ![n].dirty = TRUE]
          /\ bumping' = [bumping EXCEPT ![t] = [at |-> "dirty", name |-> {n}]]
          /\ asked' = [asked EXCEPT ![n] = @ + 1]
       \/ /\ bumping[t] = [at |-> "dirty", name |-> {n}]
          /\ rows' = [rows EXCEPT ![n].count = @ + 1]
          /\ bumping' = [bumping EXCEPT ![t] = Calm] /\ UNCHANGED asked
    /\ UNCHANGED <<flushing, stats, behind>>

bump(t, n) ==
    /\ \/ /\ bumping[t] = Calm /\ asked[n] < MaxCount
          /\ rows' = [rows EXCEPT ![n].count = @ + 1]
          /\ bumping' = [bumping EXCEPT ![t] = [at |-> "dirty", name |-> {n}]]
          /\ asked' = [asked EXCEPT ![n] = @ + 1]
       \/ /\ bumping[t] = [at |-> "dirty", name |-> {n}]
          /\ rows' = [rows EXCEPT ![n].dirty = TRUE]
          /\ bumping' = [bumping EXCEPT ![t] = Calm] /\ UNCHANGED asked
    /\ UNCHANGED <<flushing, stats, behind>>

-----------------------------------------------------------------------------
(* flush: row by row, then the write. *)

FlushStart ==
    /\ flushing.at = "idle"
    /\ flushing' = [NoFlush EXCEPT !.at = "look", !.todo = Names]
    /\ UNCHANGED <<rows, bumping, stats, asked, behind>>

FlushLook(n) ==
    /\ flushing.at = "look" /\ n \in flushing.todo
    /\ flushing' = IF rows[n].dirty THEN [flushing EXCEPT !.at = "read", !.hand = {n}, !.todo = @ \ {n}]
                   ELSE [flushing EXCEPT !.todo = @ \ {n}]
    /\ UNCHANGED <<rows, bumping, stats, asked, behind>>

FlushRead(n) ==
    /\ flushing.at = "read" /\ flushing.hand = {n}
    /\ flushing' = [flushing EXCEPT !.at = "clear", !.count = rows[n].count]
    /\ UNCHANGED <<rows, bumping, stats, asked, behind>>

\* The flag goes down for a count read before.
FlushClear(n) ==
    /\ flushing.at = "clear" /\ flushing.hand = {n}
    /\ rows' = [rows EXCEPT ![n].dirty = FALSE]
    /\ flushing' = [flushing EXCEPT !.at = "look", !.hand = {}, !.count = 0,
                       !.write = [m \in DOMAIN @ \cup {n} |-> IF m = n THEN flushing.count ELSE @[m]]]
    /\ behind' = IF rows[n].count > flushing.count THEN behind \cup {n} ELSE behind \ {n}
    /\ UNCHANGED <<bumping, stats, asked>>

\* upsert_query_stats_batch: all of the rows or none; the flags are down by now.
FlushWrite(ok) ==
    /\ flushing.at = "look" /\ flushing.todo = {}
    /\ stats' = IF ok THEN [n \in Names |-> IF n \in DOMAIN flushing.write THEN flushing.write[n] ELSE stats[n]]
                ELSE stats
    /\ behind' = IF ok THEN behind ELSE behind \cup DOMAIN flushing.write
    /\ flushing' = NoFlush /\ UNCHANGED <<rows, bumping, asked>>

\* A restart: what was not written is gone.
hydrate ==
    /\ rows' = [n \in Names |-> [count |-> stats[n], dirty |-> FALSE]]
    /\ bumping' = [t \in Tasks |-> Calm] /\ flushing' = NoFlush /\ behind' = {}
    /\ UNCHANGED <<stats, asked>>

TrackNext ==
    \/ \E t \in Tasks, n \in Names : bump(t, n)
    \/ \E n \in Names : FlushLook(n) \/ FlushRead(n) \/ FlushClear(n)
    \/ FlushStart \/ hydrate \/ \E ok \in BOOLEAN : FlushWrite(ok)

TrackSpec == TrackInit /\ [][TrackNext]_trackVars

-----------------------------------------------------------------------------
(* Properties. *)

\* A row of the table that is behind memory while nothing is under way has its
\* flag up for the next flush, or was overtaken between the flush's reading and
\* its clearing of the flag, or was in a batch that failed: no other order of
\* the stores of bump and flush loses a query.
LagHasCause ==
    \A n \in Names :
        flushing.at = "idle" /\ (\A t \in Tasks : bumping[t].name # {n}) /\ stats[n] < rows[n].count
            => rows[n].dirty \/ n \in behind

\* No query is lost to the table for want of a flag.
CountsKept == TrackTypeOK /\ LagHasCause

=============================================================================
