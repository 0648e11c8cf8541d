---------------------------- MODULE AnswerProofs ----------------------------
(***************************************************************************)
(* Proofs about the answers from the store, for any zones, names, records  *)
(* and number of queries under way.                                        *)
(*                                                                         *)
(* First one lookup: the code's way through zones and candidates finds     *)
(* what the reference says (LookupRight).  Then queries, which look up     *)
(* zone, records, owner names and existence in separate steps: AllKnow     *)
(* says what a query may still conclude from its earlier reads, unless it  *)
(* noticed a writer between.                                               *)
(***************************************************************************)
EXTENDS ResolverProofs

\* What the store has for a name, as functions of the names that are asked.
ZoneOf == [n \in Names |-> find_zone_for_fqdn(n)]
RowsOf == [n \in Names |-> [t \in Types |-> Reference(n, t)]]
There == {n \in Names : Present(n)}

Undisturbed(r) == r.seen \cap {"zone", "row"} = {}

\* A record found for a name, as long as zones stay: of the zone of the name,
\* and with that name or a wildcard.
Found(s, n) == s.zone \in ZoneOf[n] /\ (s.name = RelativeTo(s.zone, n) \/ Head(s.name) = "*")

AuthAnswer(n, t, code, ans) ==
    n \in Held => /\ ans = {Named(n, s.type) : s \in RowsOf[n][t]}
                  /\ code = IF ans # {} \/ n \in There THEN "NoError" ELSE "NXDomain"

LocalAnswer(n, t, code, ans) ==
    /\ {s \in RowsOf[n][t] : s.name = Apex \/ IsWild(s.name)} = {} =>
          ans = {Named(n, s.type) : s \in RowsOf[n][t]}
    /\ RowsOf[n][t] = {} => code = IF n \in There THEN "NoError" ELSE "NXDomain"

\* What the answer to query r has, in the terms of the store as it is.
Right(r, code, ans, from) ==
    /\ r.srv = "auth" /\ Plain(r.name) /\ "zone" \notin r.seen =>
          \A a \in ans : a.type \in StoreTypes => a.owner = r.name
    /\ Undisturbed(r) /\ r.type \in StoreTypes =>
          /\ r.srv = "auth" /\ Plain(r.name) => r.type \in Types /\ AuthAnswer(r.name, r.type, code, ans)
          /\ r.srv = "rec" /\ from = "local" => r.type \in Types /\ LocalAnswer(r.name, r.type, code, ans)

\* What a query knows of the store's records.
Knows(r) ==
    /\ r.at = "own" =>
          /\ r.type \in StoreTypes /\ (r.srv = "auth" => ~IsWild(r.name))
          /\ "zone" \notin r.seen => \A s \in r.rows : Found(s, r.name)
          /\ Undisturbed(r) => r.rows = RowsOf[r.name][r.type] /\ r.rows # {}
    /\ r.at = "neg" /\ Undisturbed(r) /\ r.type \in StoreTypes /\ (r.srv = "auth" => ~IsWild(r.name)) =>
          RowsOf[r.name][r.type] = {}
    /\ r.at = "done" => Right(r, r.code, r.ans, r.from)

AllKnow == \A p \in Queries : Knows(q[p])

-----------------------------------------------------------------------------
(* Names as sequences of labels. *)

Labels == {"*", "@"} \cup UNION {Range(n) : n \in Names \cup Zones \cup {r.name : r \in Rows}}

LEMMA NameType ==
    ASSUME NEW n \in Names \cup Zones \cup {r.name : r \in Rows}
    PROVE  n \in Seq(Labels)
<1>1. n \in Seq(Range(n))
  BY Zenon, ResolverAssumption
<1>2. Range(n) \subseteq Labels
  BY Zenon DEF Labels
<1> QED BY Zenon, <1>1, <1>2, SeqMonotonic

LEMMA Suffix ==
    ASSUME NEW L, NEW s \in Seq(L), NEW i \in 0..Len(s)
    PROVE  SubSeq(s, i + 1, Len(s)) \in Seq(L) /\ Len(SubSeq(s, i + 1, Len(s))) = Len(s) - i
<1>1. Len(s) \in Nat
  BY Zenon, LenProperties
<1>2. i + 1 \in Int /\ Len(s) \in Int /\ (\A j \in (i + 1)..Len(s) : j \in 1..Len(s))
  BY <1>1
<1>3. \A j \in (i + 1)..Len(s) : s[j] \in L
  BY Zenon, <1>2, ElementOfSeq
<1> DEFINE a == i + 1
           b == Len(s)
<1> HIDE DEF a, b
<1>4. /\ SubSeq(s, a, b) \in Seq(L)
      /\ Len(SubSeq(s, a, b)) = IF a <= b THEN b - a + 1 ELSE 0
  <2>1. a \in Int /\ b \in Int /\ \A j \in a..b : s[j] \in L
    BY Zenon, <1>2, <1>3 DEF a, b
  <2> QED BY Zenon, <2>1, SubSeqProperties
<1> QED BY <1>1, <1>4 DEF a, b

LEMMA RelativeName ==
    ASSUME NEW L, NEW n \in Seq(L), NEW z \in Seq(L), Under(n, z)
    PROVE  /\ Relative(n, z) \in Seq(L) /\ Len(Relative(n, z)) = Len(n) - Len(z)
           /\ Relative(n, z) \o z = n /\ Range(Relative(n, z)) \subseteq Range(n)
<1> DEFINE k == Len(n) - Len(z)
           m == Relative(n, z)
<1>1. Len(n) \in Nat /\ Len(z) \in Nat /\ Len(z) <= Len(n) /\ SubSeq(n, k + 1, Len(n)) = z
  BY Zenon, LenProperties DEF Under
<1>2. k \in 0..Len(n) /\ k \in Int /\ 1 \in Int /\ (\A j \in 1..k : j \in 1..Len(n)) /\ k \in Nat
  BY <1>1
<1>3. m = SubSeq(n, 1, k)
  BY Zenon DEF Relative
<1> HIDE DEF k, m
<1>4. \A j \in 1..k : n[j] \in L
  BY Zenon, <1>2, ElementOfSeq
<1>5. /\ m \in Seq(L) /\ Len(m) = IF 1 <= k THEN k - 1 + 1 ELSE 0
      /\ \A i \in 1..(k - 1 + 1) : m[i] = n[1 + i - 1]
  <2>1. /\ SubSeq(n, 1, k) \in Seq(L) /\ Len(SubSeq(n, 1, k)) = IF 1 <= k THEN k - 1 + 1 ELSE 0
        /\ \A i \in 1..(k - 1 + 1) : SubSeq(n, 1, k)[i] = n[1 + i - 1]
    BY <1>2, <1>4, SubSeqProperties
  <2> QED BY Zenon, <1>3, <2>1
<1>6. Len(m) = k /\ \A i \in 1..k : m[i] = n[i]
  BY <1>2, <1>5
<1>7. m \o z = n
  <2>1. 1 \in 1..(Len(n) + 1) /\ k \in (1 - 1)..Len(n) /\ Len(n) \in k..Len(n)
    BY <1>1, <1>2
  <2>2. SubSeq(n, 1, k) \o SubSeq(n, k + 1, Len(n)) = SubSeq(n, 1, Len(n))
    BY Zenon, <2>1, ConcatAdjacentSubSeq
  <2> QED BY Zenon, <1>1, <1>3, <2>2, SubSeqFull DEF k
<1>8. Range(m) \subseteq Range(n)
  <2>1. DOMAIN m = 1..k /\ DOMAIN n = 1..Len(n)
    BY Zenon, <1>5, <1>6, LenProperties
  <2> QED BY Zenon, <1>2, <1>6, <2>1 DEF Range
<1> QED BY Zenon, <1>5, <1>6, <1>7, <1>8 DEF k, m

\* A label in front of a name.
LEMMA Front ==
    ASSUME NEW L, NEW a \in L, NEW u \in Seq(L)
    PROVE  /\ <<a>> \o u \in Seq(L) /\ Len(<<a>> \o u) = Len(u) + 1 /\ <<a>> \o u # <<>>
           /\ Head(<<a>> \o u) = a /\ Tail(<<a>> \o u) = u
<1> DEFINE w == <<a>> \o u
<1>1. <<a>> \in Seq(L) /\ Len(<<a>>) = 1 /\ <<a>>[1] = a /\ Len(u) \in Nat
  OBVIOUS
<1>2. /\ w \in Seq(L) /\ Len(w) = 1 + Len(u)
      /\ \A i \in 1..(1 + Len(u)) : w[i] = IF i <= 1 THEN <<a>>[i] ELSE u[i - 1]
  BY Zenon, <1>1, ConcatProperties
<1> HIDE DEF w
<1>3. w[1] = a /\ \A i \in 1..Len(u) : w[i + 1] = u[i]
  BY <1>1, <1>2
<1>4. w # <<>> /\ Len(w) = Len(u) + 1
  BY <1>1, <1>2
<1>5. Tail(w) \in Seq(L) /\ Len(Tail(w)) = Len(w) - 1 /\ \A i \in 1..Len(Tail(w)) : Tail(w)[i] = w[i + 1]
  BY Zenon, <1>2, <1>4, HeadTailProperties
<1>6. Head(w) = a
  BY <1>2, <1>3, <1>4
<1>7. Len(Tail(w)) = Len(u)
  BY <1>1, <1>4, <1>5
<1>8. \A i \in 1..Len(Tail(w)) : Tail(w)[i] = u[i]
  BY Zenon, <1>3, <1>5, <1>7
<1>9. Tail(w) = u
  BY Zenon, <1>5, <1>7, <1>8, SeqEqual
<1> QED BY Zenon, <1>2, <1>4, <1>6, <1>9 DEF w

LEMMA HeadAndTail ==
    ASSUME NEW L, NEW w \in Seq(L), w # <<>>
    PROVE  /\ w = <<Head(w)>> \o Tail(w) /\ Tail(w) \in Seq(L) /\ Head(w) \in L
           /\ Len(Tail(w)) = Len(w) - 1 /\ Len(w) \in Nat \ {0}
<1>1. /\ Head(w) \in L /\ Tail(w) \in Seq(L) /\ Len(Tail(w)) = Len(w) - 1 /\ Len(w) \in Nat \ {0}
  BY Zenon, HeadTailProperties, EmptySeq
<1>2. SubSeq(w, 1, Len(w)) = <<w[1]>> \o SubSeq(w, 1 + 1, Len(w))
  <2>1. 1 \in 1..Len(w) /\ Len(w) \in 1..Len(w)
    BY <1>1
  <2> QED BY Zenon, <2>1, SubSeqRecursiveFirst
<1>3. 1 + 1 = 2 /\ w[1] = Head(w)
  BY <1>1
<1> QED BY Zenon, <1>1, <1>2, <1>3, TailIsSubSeq, SubSeqFull

\* The wildcards above a name are the candidates the code tries for it.
LEMMA WildCandidate ==
    ASSUME NEW L, "*" \in L, NEW m \in Seq(L), NEW w \in Seq(L), w # <<>>, NEW i \in 1..Len(m)
    PROVE  w = <<"*">> \o SubSeq(m, i + 1, Len(m))
           <=> Head(w) = "*" /\ Len(w) = Len(m) - i + 1 /\ Under(m, Tail(w))
<1> DEFINE u == SubSeq(m, i + 1, Len(m))
<1>1. Len(m) \in Nat /\ i \in 0..Len(m) /\ i \in Nat /\ i <= Len(m)
  BY LenProperties
<1>2. u \in Seq(L) /\ Len(u) = Len(m) - i
  BY Zenon, <1>1, Suffix
<1> HIDE DEF u
<1>3. Len(m) - Len(u) + 1 = i + 1 /\ Len(u) <= Len(m)
  BY <1>1, <1>2
<1>4. Under(m, u)
  BY Zenon, <1>3 DEF Under, u
<1>5. ASSUME Head(w) = "*", Len(w) = Len(m) - i + 1, Under(m, Tail(w)) PROVE w = <<"*">> \o u
  <2>1. w = <<"*">> \o Tail(w) /\ Len(Tail(w)) = Len(w) - 1
    BY Zenon, <1>5, HeadAndTail
  <2>2. Len(m) - Len(Tail(w)) + 1 = i + 1
    BY <1>1, <1>5, <2>1
  <2>3. Tail(w) = u
    BY Zenon, <1>5, <2>2 DEF Under, u
  <2> QED BY Zenon, <2>1, <2>3
<1>6. ASSUME w = <<"*">> \o u PROVE Head(w) = "*" /\ Len(w) = Len(m) - i + 1 /\ Under(m, Tail(w))
  <2>1. Len(w) = Len(u) + 1 /\ Head(w) = "*" /\ Tail(w) = u
    BY Zenon, <1>2, <1>6, Front
  <2>2. Len(w) = Len(m) - i + 1
    BY Zenon, <1>1, <1>2, <2>1
  <2> QED BY Zenon, <1>4, <2>1, <2>2
<1> QED BY Zenon, <1>5, <1>6 DEF u

LEMMA CandidateList ==
    ASSUME NEW L, "*" \in L, NEW m \in Seq(L)
    PROVE  /\ Len(Candidates(m)) = Len(m) + 1 /\ Candidates(m)[1] = m
           /\ \A i \in 1..Len(m) : Candidates(m)[i + 1] = <<"*">> \o SubSeq(m, i + 1, Len(m))
<1> DEFINE f == [i \in 1..Len(m) |-> <<"*">> \o SubSeq(m, i + 1, Len(m))]
           T == Seq(L)
<1>1. Len(m) \in Nat /\ \A i \in 1..Len(m) : i \in 0..Len(m)
  BY LenProperties
<1>2. ASSUME NEW i \in 1..Len(m) PROVE <<"*">> \o SubSeq(m, i + 1, Len(m)) \in T
  <2>1. SubSeq(m, i + 1, Len(m)) \in Seq(L)
    BY Zenon, <1>1, Suffix
  <2> QED BY Zenon, <2>1, Front
<1>3. f \in [1..Len(m) -> T] /\ \A i \in 1..Len(m) : f[i] = <<"*">> \o SubSeq(m, i + 1, Len(m))
  BY Zenon, <1>2
<1> DEFINE o == <<m>>
           C == Candidates(m)
<1>4. C = o \o f
  BY Zenon DEF Candidates
<1>5. o \in Seq(T) /\ Len(o) = 1 /\ o[1] = m
  <2>1. m \in T
    BY Zenon
  <2> HIDE DEF T
  <2> QED BY <2>1
<1> HIDE DEF f, T, o, C
<1>6. f \in Seq(T)
  <2>1. [1..Len(m) -> T] \in {[1..k -> T] : k \in Nat}
    BY Zenon, <1>1
  <2>2. Seq(T) = UNION {[1..k -> T] : k \in Nat}
    BY Zenon, SeqDef
  <2> QED BY Zenon, <1>3, <2>1, <2>2
<1>7. Len(f) = Len(m)
  <2>1. Len(f) \in Nat /\ DOMAIN f = 1..Len(f) /\ DOMAIN f = 1..Len(m)
    BY Zenon, <1>3, <1>6, LenProperties
  <2>2. 1..Len(f) = 1..Len(m) /\ Len(f) \in Nat
    BY Zenon, <2>1
  <2> QED BY <1>1, <2>2
<1>8. /\ Len(o \o f) = Len(o) + Len(f)
      /\ \A i \in 1..(Len(o) + Len(f)) : (o \o f)[i] = IF i <= Len(o) THEN o[i] ELSE f[i - Len(o)]
  BY Zenon, <1>5, <1>6, ConcatProperties
<1>9. Len(C) = Len(o) + Len(f)
  BY Zenon, <1>4, <1>8
<1>10. \A i \in 1..(Len(o) + Len(f)) : C[i] = IF i <= Len(o) THEN o[i] ELSE f[i - Len(o)]
  BY Zenon, <1>4, <1>8
<1>11. Len(C) = Len(m) + 1 /\ C[1] = m /\ \A i \in 1..Len(m) : C[i + 1] = f[i]
  BY <1>1, <1>5, <1>7, <1>9, <1>10
<1> QED BY Zenon, <1>3, <1>11 DEF C

LEMMA LeastIndex ==
    ASSUME NEW H \in SUBSET Nat, H # {}
    PROVE  LET i == CHOOSE j \in H : \A l \in H : j <= l IN i \in H /\ \A l \in H : i <= l
<1> DEFINE less == {ss \in Nat \X Nat : ss[1] < ss[2]}
<1>1. IsWellFoundedOn(less, Nat)
  BY Zenon, NatLessThanWellFounded DEF OpToRel
<1> HIDE DEF less
<1>2. PICK j \in H : \A l \in H : <<l, j>> \notin less
  BY Zenon, <1>1, WFMin
<1>3. ASSUME NEW l \in H PROVE j <= l
  <2>1. <<l, j>> \in Nat \X Nat /\ <<l, j>>[1] = l /\ <<l, j>>[2] = j /\ l \in Nat /\ j \in Nat
    BY Zenon
  <2>2. ~(l < j)
    BY Zenon, <1>2, <2>1 DEF less
  <2> QED BY <2>1, <2>2
<1> QED BY Zenon, <1>3

\* Of the zones above a name one is the longest.
LEMMA OneZone ==
    ASSUME StoreOK, NEW n \in Names, NEW z \in find_zone_for_fqdn(n)
    PROVE  /\ z \in Zones /\ z \in zones /\ Under(n, z) /\ find_zone_for_fqdn(n) = {z}
           /\ n \in Seq(Labels) /\ z \in Seq(Labels)
<1>1. z \in Zones /\ z \in zones /\ Under(n, z) /\ Len(z) \in Nat
  BY Zenon, NameLen DEF find_zone_for_fqdn, Covering, StoreOK
<1>2. ASSUME NEW y \in find_zone_for_fqdn(n) PROVE y = z
  <2>1. Under(n, y) /\ Len(y) <= Len(z) /\ Len(z) <= Len(y) /\ Len(y) \in Nat
    BY Zenon, NameLen DEF find_zone_for_fqdn, Covering, StoreOK
  <2>2. Len(y) = Len(z)
    BY <1>1, <2>1
  <2> QED BY Zenon, <1>1, <2>1, <2>2 DEF Under
<1>3. n \in Seq(Labels) /\ z \in Seq(Labels)
  BY Zenon, <1>1, NameType
<1> QED BY Zenon, <1>1, <1>2, <1>3

LEMMA InZone ==
    ASSUME StoreOK, NEW n \in Names, NEW z
    PROVE  z \in find_zone_for_fqdn(n)
           <=> Under(n, z) /\ z \in zones /\ ~\E y \in zones : Under(n, y) /\ Len(y) > Len(z)
<1>1. \A y \in zones : Len(y) \in Nat
  BY Zenon, NameLen DEF StoreOK
<1>2. ASSUME z \in zones, NEW y \in zones PROVE (Len(y) <= Len(z)) <=> ~(Len(y) > Len(z))
  <2>1. Len(y) \in Nat /\ Len(z) \in Nat
    BY Zenon, <1>1, <1>2
  <2> QED BY <2>1
<1> QED BY Zenon, <1>2 DEF find_zone_for_fqdn, Covering

\* A name exists if a record of its zone has it.
LEMMA ExistsRight == ASSUME StoreOK, NEW n \in Names PROVE fqdn_exists(n) <=> n \in There
<1>1. ASSUME NEW r \in Rows, rows[r] # "none" PROVE r.zone \in zones
  BY Zenon, <1>1 DEF StoreOK
<1>2. fqdn_exists(n) <=> \E r \in Rows : r.zone \in find_zone_for_fqdn(n) /\ r.name = RelativeTo(r.zone, n) /\ rows[r] # "none"
  BY Zenon DEF fqdn_exists, name_exists_in_zone
<1>3. Present(n) <=> \E r \in Rows : r.zone \in find_zone_for_fqdn(n) /\ r.name = RelativeTo(r.zone, n) /\ rows[r] # "none"
  BY Zenon, <1>1, InZone DEF Present
<1> QED BY Zenon, <1>2, <1>3 DEF There

LEMMA SpeaksRight ==
    ASSUME StoreOK, NEW n \in Names, NEW r \in Rows
    PROVE  Speaks(r, n) <=> rows[r] = "on" /\ r.zone \in find_zone_for_fqdn(n) /\ StandsFor(r, n)
BY Zenon, InZone DEF Speaks

\* Below the zone: the first candidate that has records is the exact name, or
\* the longest wildcard above it.
LEMMA FirstHitRight ==
    ASSUME StoreOK, NEW n \in Names, NEW z \in find_zone_for_fqdn(n), n # z, NEW t
    PROVE  FirstHit(z, Candidates(Relative(n, z)), t) = Reference(n, t)
<1> DEFINE m == Relative(n, z)
           C == Candidates(m)
           rec(name) == query_records(z, name, t)
           H == {i \in 1..Len(C) : rec(C[i]) # {}}
           S == {r \in Rows : Speaks(r, n) /\ r.type = t}
           exact == {r \in S : r.name = RelativeTo(r.zone, n)}
           wild == {r \in S : \A o \in S : Len(o.name) <= Len(r.name)}
<1>1. Under(n, z) /\ find_zone_for_fqdn(n) = {z} /\ n \in Seq(Labels) /\ z \in Seq(Labels)
  BY Zenon, OneZone
<1>2. m \in Seq(Labels) /\ RelativeTo(z, n) = m /\ "*" \in Labels
  BY Zenon, <1>1, RelativeName DEF RelativeTo, Labels
<1>3. \A r \in Rows : r.name \in Seq(Labels) /\ r.name # <<>> /\ Len(r.name) \in Nat \ {0}
  BY Zenon, NameType, EmptySeq, ResolverAssumption
<1>4. Reference(n, t) = IF exact # {} THEN exact ELSE wild
  BY Zenon DEF Reference
<1>5. FirstHit(z, C, t) = IF H = {} THEN {} ELSE rec(C[CHOOSE i \in H : \A j \in H : i <= j])
  BY Zenon DEF FirstHit
<1> HIDE DEF m, C
<1>6. \A r \in Rows : r \in S <=> rows[r] = "on" /\ r.zone = z /\ r.type = t /\ StandsFor(r, n)
  BY Zenon, <1>1, SpeaksRight
<1>7. \A name : rec(name) = {r \in Rows : r.zone = z /\ r.name = name /\ r.type = t /\ rows[r] = "on"}
  BY Zenon DEF query_records
<1>8. exact = rec(m)
  <2>1. ASSUME NEW r \in Rows PROVE r \in exact <=> r \in rec(m)
    <3>1. r \in rec(m) <=> r.zone = z /\ r.name = m /\ r.type = t /\ rows[r] = "on"
      BY Zenon, <1>7
    <3>2. r \in exact <=> r \in S /\ r.name = RelativeTo(r.zone, n)
      BY Zenon
    <3>3. r.zone = z => RelativeTo(r.zone, n) = m
      BY Zenon, <1>2
    <3>4. r.name = RelativeTo(r.zone, n) => StandsFor(r, n)
      BY Zenon DEF StandsFor
    <3> HIDE DEF S, exact, rec
    <3> QED BY Zenon, <1>6, <3>1, <3>2, <3>3, <3>4
  <2> QED BY Zenon, <2>1, <1>7
<1>9. /\ Len(m) \in Nat /\ Len(C) = Len(m) + 1 /\ C[1] = m
      /\ \A i \in 1..Len(m) : C[i + 1] = <<"*">> \o SubSeq(m, i + 1, Len(m))
  BY Zenon, <1>2, CandidateList, LenProperties DEF C
<1>10. H \in SUBSET Nat /\ 1 \in 1..Len(C)
  BY <1>9
<1> DEFINE first == CHOOSE i \in H : \A j \in H : i <= j
<1>11. H # {} => first \in H /\ \A j \in H : first <= j
  BY Zenon, <1>10, LeastIndex
<1> HIDE DEF first
<1>12. CASE exact # {}
  <2>1. 1 \in H
    BY Zenon, <1>8, <1>9, <1>10, <1>12
  <2>2. first \in H /\ first <= 1
    BY Zenon, <1>11, <2>1
  <2>3. first = 1
    <3>1. first \in Nat /\ first \in 1..Len(C)
      BY Zenon, <1>10, <2>2
    <3> QED BY <1>9, <2>2, <3>1
  <2> QED BY Zenon, <1>4, <1>5, <1>8, <1>9, <1>12, <2>1, <2>3 DEF first, m, C
<1>13. CASE exact = {}
  \* The place of a record among the candidates, from the length of its name.
  <2>1. ASSUME NEW r \in Rows, NEW i \in 1..Len(m)
        PROVE  r \in rec(C[i + 1]) <=> r \in S /\ Len(r.name) = Len(m) - i + 1
    <3>1. r.name = C[i + 1] <=> Head(r.name) = "*" /\ Len(r.name) = Len(m) - i + 1 /\ Under(m, Tail(r.name))
      <4>1. r.name \in Seq(Labels) /\ r.name # <<>>
        BY Zenon, <1>3
      <4>2. r.name = <<"*">> \o SubSeq(m, i + 1, Len(m))
            <=> Head(r.name) = "*" /\ Len(r.name) = Len(m) - i + 1 /\ Under(m, Tail(r.name))
        BY ZenonT(40), <1>2, <4>1, WildCandidate
      <4> QED BY Zenon, <1>9, <4>2
    <3>2. Len(r.name) = Len(m) - i + 1 => Len(r.name) <= Len(m)
      BY <1>9
    <3>3. r \in S <=> /\ rows[r] = "on" /\ r.zone = z /\ r.type = t
                      /\ Head(r.name) = "*" /\ Len(r.name) <= Len(m) /\ Under(m, Tail(r.name))
      <4>1. r \in S => r.name # RelativeTo(r.zone, n)
        BY Zenon, <1>13
      <4>2. r.zone = z => (StandsFor(r, n) <=>
                \/ r.name = RelativeTo(r.zone, n)
                \/ Head(r.name) = "*" /\ Len(r.name) <= Len(m) /\ Under(m, Tail(r.name)))
        BY Zenon DEF StandsFor, m
      <4>3. r \in S <=> rows[r] = "on" /\ r.zone = z /\ r.type = t /\ StandsFor(r, n)
        BY Zenon, <1>6
      <4>4. r.zone = z /\ r.name = RelativeTo(r.zone, n) => StandsFor(r, n)
        BY Zenon DEF StandsFor
      <4> HIDE DEF S, exact, rec
      <4> QED BY Zenon, <4>1, <4>2, <4>3, <4>4
    <3>4. r \in rec(C[i + 1]) <=> r.zone = z /\ r.name = C[i + 1] /\ r.type = t /\ rows[r] = "on"
      BY Zenon DEF query_records
    <3> HIDE DEF S, exact, rec
    <3> QED BY Zenon, <3>1, <3>2, <3>3, <3>4
  <2>2. ASSUME NEW r \in S PROVE \E i \in 1..Len(m) : Len(r.name) = Len(m) - i + 1 /\ i + 1 \in H
    <3>1. Len(r.name) <= Len(m) /\ r \in Rows
      <4>1. r \in Rows /\ r.zone = z /\ StandsFor(r, n) /\ r.name # RelativeTo(r.zone, n)
        BY Zenon, <1>6, <1>13
      <4> QED BY Zenon, <4>1 DEF StandsFor, m
    <3>2. Len(r.name) \in Nat \ {0}
      BY Zenon, <1>3, <3>1
    <3> DEFINE a == Len(m)
               b == Len(r.name)
               i == a - b + 1
    <3>3. i \in 1..Len(m) /\ Len(r.name) = Len(m) - i + 1 /\ i + 1 \in 1..Len(C)
      <4>1. a \in Nat /\ b \in Nat \ {0} /\ b <= a /\ Len(C) = a + 1
        BY Zenon, <1>9, <3>1, <3>2
      <4> HIDE DEF a, b, C, H, S, exact, wild
      <4>2. i \in 1..a /\ b = a - i + 1 /\ i + 1 \in 1..(a + 1)
        BY <4>1
      <4> QED BY Zenon, <4>1, <4>2 DEF a, b
    <3> HIDE DEF i
    <3>4. i + 1 \in H
      BY Zenon, <2>1, <3>1, <3>3
    <3> QED BY Zenon, <3>3, <3>4
  <2>3. ASSUME NEW j \in H PROVE \E i \in 1..Len(m) : j = i + 1
    <3>1. j \in 1..Len(C) /\ j # 1
      BY Zenon, <1>8, <1>9, <1>13
    <3>2. j - 1 \in 1..Len(m) /\ j = j - 1 + 1
      BY <1>9, <3>1
    <3> QED BY Zenon, <3>2
  <2>4. CASE H = {}
    <3>1. S = {}
      BY Zenon, <2>2, <2>4
    <3>2. wild = {}
      BY Zenon, <3>1
    <3> QED BY Zenon, <1>4, <1>5, <1>13, <2>4, <3>2 DEF m, C
  <2>5. CASE H # {}
    <3>1. PICK i \in 1..Len(m) : first = i + 1
      BY Zenon, <1>11, <2>3, <2>5
    <3>2. ASSUME NEW r \in S PROVE Len(r.name) <= Len(m) - i + 1 /\ Len(r.name) \in Nat
      <4>1. PICK k \in 1..Len(m) : Len(r.name) = Len(m) - k + 1 /\ k + 1 \in H
        BY Zenon, <2>2
      <4>2. i + 1 <= k + 1 /\ Len(r.name) \in Nat
        BY Zenon, <1>3, <1>11, <2>5, <3>1, <4>1
      <4> QED BY <1>9, <4>1, <4>2
    <3>3. PICK s \in S : Len(s.name) = Len(m) - i + 1
      <4>1. rec(C[i + 1]) # {}
        BY Zenon, <1>11, <2>5, <3>1
      <4> QED BY Zenon, <1>7, <2>1, <4>1
    <3>4. ASSUME NEW r \in S PROVE r \in wild <=> Len(r.name) = Len(m) - i + 1
      <4>1. r \in wild => Len(s.name) <= Len(r.name)
        BY Zenon, <3>3
      <4>2. r \in wild => Len(r.name) = Len(m) - i + 1
        <5> DEFINE a == Len(m)
                   b == Len(r.name)
                   c == Len(s.name)
        <5>1. a \in Nat /\ b \in Nat /\ c = a - i + 1 /\ b <= a - i + 1 /\ (r \in wild => c <= b)
          BY Zenon, <1>9, <3>2, <3>3, <4>1
        <5> HIDE DEF a, b, c, wild
        <5>2. r \in wild => b = a - i + 1
          BY <5>1
        <5> QED BY Zenon, <5>2 DEF a, b
      <4> QED BY Zenon, <3>2, <4>2
    <3>5. wild = rec(C[first])
      <4>1. ASSUME NEW r \in Rows PROVE r \in wild <=> r \in rec(C[i + 1])
        BY Zenon, <2>1, <3>4
      <4> QED BY Zenon, <1>7, <3>1, <4>1
    <3> QED BY Zenon, <1>4, <1>5, <1>13, <2>5, <3>5 DEF first, m, C
  <2> QED BY Zenon, <2>4, <2>5
<1> QED BY Zenon, <1>12, <1>13

\* The lookup of the code finds the records of the most specific zone, exact
\* ones before wildcards and longer wildcards before shorter ones (query_fqdn).
THEOREM LookupRight == ASSUME StoreOK, NEW n \in Names, NEW t PROVE query_fqdn(n, t) = Reference(n, t)
<1>1. CASE find_zone_for_fqdn(n) = {}
  <2>1. query_fqdn(n, t) = {}
    BY Zenon, <1>1 DEF query_fqdn
  <2>2. \A r \in Rows : ~Speaks(r, n)
    BY Zenon, <1>1, SpeaksRight
  <2>3. Reference(n, t) = {}
    BY Zenon, <2>2 DEF Reference
  <2> QED BY Zenon, <2>1, <2>3
<1>2. ASSUME NEW z \in find_zone_for_fqdn(n) PROVE query_fqdn(n, t) = Reference(n, t)
  <2>1. find_zone_for_fqdn(n) = {z}
    BY Zenon, OneZone
  <2>2. CASE n # z
    <3>1. query_fqdn(n, t) = FirstHit(z, Candidates(Relative(n, z)), t)
      BY Zenon, <2>1, <2>2 DEF query_fqdn
    <3> QED BY Zenon, <2>2, <3>1, FirstHitRight
  <2>3. CASE n = z
    <3>1. query_fqdn(n, t) = query_records(z, Apex, t)
      BY Zenon, <2>1, <2>3 DEF query_fqdn
    <3> DEFINE S == {r \in Rows : Speaks(r, n) /\ r.type = t}
               exact == {r \in S : r.name = RelativeTo(r.zone, n)}
    <3>2. ASSUME NEW r \in Rows
          PROVE  r \in S <=> r.zone = z /\ r.name = Apex /\ r.type = t /\ rows[r] = "on"
      BY Zenon, <2>1, <2>3, SpeaksRight DEF StandsFor, RelativeTo
    <3>3. S = query_records(z, Apex, t)
      BY Zenon, <3>2 DEF query_records
    <3>4. exact = S
      BY Zenon, <2>3, <3>2 DEF RelativeTo
    <3>5. Reference(n, t) = IF exact # {} THEN exact ELSE {r \in S : \A o \in S : Len(o.name) <= Len(r.name)}
      BY Zenon DEF Reference
    <3> HIDE DEF S, exact
    <3>6. Reference(n, t) = S
      BY Zenon, <3>4, <3>5
    <3> QED BY Zenon, <3>1, <3>3, <3>6
  <2> QED BY Zenon, <2>2, <2>3
<1> QED BY Zenon, <1>1, <1>2

-----------------------------------------------------------------------------
(* What queries know of the store is kept by every step. *)

LEMMA FoundBy ==
    ASSUME StoreOK, NEW n \in Names, NEW t \in Types
    PROVE  query_fqdn(n, t) = RowsOf[n][t] /\ \A s \in RowsOf[n][t] : s \in Rows /\ Found(s, n)
<1>1. RowsOf[n][t] = Reference(n, t) /\ ZoneOf[n] = find_zone_for_fqdn(n)
  BY Zenon DEF RowsOf, ZoneOf
<1>2. ASSUME NEW s \in Reference(n, t) PROVE s \in Rows /\ Found(s, n)
  <2>1. s \in Rows /\ Speaks(s, n)
    BY Zenon DEF Reference
  <2>2. s.zone \in find_zone_for_fqdn(n) /\ StandsFor(s, n)
    BY Zenon, <2>1, SpeaksRight
  <2> QED BY Zenon, <1>1, <2>1, <2>2 DEF Found, StandsFor
<1> QED BY Zenon, <1>1, <1>2, LookupRight

LEMMA StoreFrame ==
    ASSUME zones' = zones, rows' = rows
    PROVE  ZoneOf' = ZoneOf /\ RowsOf' = RowsOf /\ There' = There /\ Held' = Held
<1>1. ZoneOf' = ZoneOf
  BY Zenon DEF ZoneOf, find_zone_for_fqdn, Covering
<1>2. Held' = Held
  BY ZenonT(40) DEF Held, is_authoritative, find_zone_for_fqdn, Covering
<1>3. \A r, n : Speaks(r, n)' <=> Speaks(r, n)
  BY Zenon DEF Speaks
<1>4. RowsOf' = RowsOf
  BY ZenonT(40), <1>3 DEF RowsOf, Reference
<1>5. There' = There
  BY Zenon DEF There, Present
<1> QED BY Zenon, <1>1, <1>2, <1>4, <1>5

LEMMA KnowMoved ==
    ASSUME QueriesOK, AllKnow, UNCHANGED storeAndConfig, NEW p \in Queries, NEW r, Knows(r),
           q' = [q EXCEPT ![p] = r]
    PROVE  AllKnow'
<1>1. ZoneOf' = ZoneOf /\ RowsOf' = RowsOf /\ There' = There /\ Held' = Held
  BY Zenon, StoreFrame DEF storeAndConfig
<1>2. ASSUME NEW o \in Queries PROVE Knows(q[o])'
  <2>1. Knows(q'[o])
    BY Zenon DEF QueriesOK, AllKnow
  <2> QED BY Zenon, <1>1, <2>1 DEF Knows, Right, AuthAnswer, LocalAnswer, Found
<1> QED BY Zenon, <1>2 DEF AllKnow

\* A step to a stage that claims nothing of the store.
LEMMA Quiet ==
    ASSUME QueriesOK, AllKnow, UNCHANGED storeAndConfig, NEW p \in Queries, NEW r,
           r.at \notin {"own", "neg", "done"}, q' = [q EXCEPT ![p] = r]
    PROVE  AllKnow'
<1>1. Knows(r)
  BY Zenon DEF Knows
<1> QED BY Zenon, <1>1, KnowMoved

LEMMA QuietStage ==
    ASSUME QueriesOK, AllKnow, UNCHANGED storeAndConfig, NEW p \in Queries, NEW stage,
           stage \notin {"own", "neg", "done"}, GotoStage(p, stage)
    PROVE  AllKnow'
<1> DEFINE r == [q[p] EXCEPT !.at = stage]
<1>1. q[p] \in Query
  BY Zenon DEF QueriesOK
<1>2. r.at = stage
  BY <1>1 DEF Query
<1>3. q' = [q EXCEPT ![p] = r]
  BY Zenon DEF GotoStage, Goto
<1> HIDE DEF r
<1> QED BY Zenon, <1>2, <1>3, Quiet

LEMMA KnowReply ==
    ASSUME QueriesOK, AllKnow, UNCHANGED storeAndConfig, NEW p \in Queries, NEW code, NEW ans, NEW from,
           Reply(p, code, ans, from), Right(q[p], code, ans, from)
    PROVE  AllKnow'
<1> DEFINE r == [q[p] EXCEPT !.at = "done", !.code = code, !.ans = ans, !.from = from, !.rows = {},
                             !.todo = <<>>, !.ttl = 0, !.routed = FALSE]
<1>1. q[p] \in Query
  BY Zenon DEF QueriesOK
<1>2. /\ r.at = "done" /\ r.code = code /\ r.ans = ans /\ r.from = from /\ r.srv = q[p].srv
      /\ r.name = q[p].name /\ r.type = q[p].type /\ r.seen = q[p].seen
  BY Zenon, <1>1 DEF Query
<1>3. q' = [q EXCEPT ![p] = r]
  BY Zenon DEF Reply, Goto
<1> HIDE DEF r
<1>4. Right(r, r.code, r.ans, r.from)
  BY Zenon, <1>2 DEF Right, Undisturbed
<1>5. Knows(r)
  BY Zenon, <1>2, <1>4 DEF Knows
<1> QED BY Zenon, <1>3, <1>5, KnowMoved

\* The recursor's answers that are not from the store.
LEMMA BeyondReply ==
    ASSUME QueriesOK, AllKnow, UNCHANGED storeAndConfig, NEW p \in Queries, NEW code, NEW from,
           q[p].srv = "rec", from # "local", Reply(p, code, {}, from)
    PROVE  AllKnow'
<1>1. Right(q[p], code, {}, from)
  BY Zenon DEF Right
<1> QED BY Zenon, <1>1, KnowReply

\* Answers to questions that are not about records of the store.
LEMMA OtherReply ==
    ASSUME QueriesOK, AllKnow, UNCHANGED storeAndConfig, NEW p \in Queries, NEW code, NEW ans, NEW from,
           q[p].type \notin StoreTypes, \A a \in ans : a.type \notin StoreTypes, Reply(p, code, ans, from)
    PROVE  AllKnow'
<1>1. Right(q[p], code, ans, from)
  BY Zenon DEF Right
<1> QED BY Zenon, <1>1, KnowReply

LEMMA ToNegative ==
    ASSUME QueriesOK, AllKnow, UNCHANGED storeAndConfig, NEW p \in Queries, GotoStage(p, "neg"),
           Undisturbed(q[p]) /\ q[p].type \in StoreTypes /\ (q[p].srv = "auth" => ~IsWild(q[p].name)) =>
               RowsOf[q[p].name][q[p].type] = {}
    PROVE  AllKnow'
<1> DEFINE r == [q[p] EXCEPT !.at = "neg"]
<1>1. q[p] \in Query
  BY Zenon DEF QueriesOK
<1>2. /\ r.at = "neg" /\ r.srv = q[p].srv /\ r.name = q[p].name /\ r.type = q[p].type
      /\ r.seen = q[p].seen
  BY Zenon, <1>1 DEF Query
<1>3. q' = [q EXCEPT ![p] = r]
  BY Zenon DEF GotoStage, Goto
<1> HIDE DEF r
<1>4. Knows(r)
  BY Zenon, <1>2 DEF Knows, Undisturbed
<1> QED BY Zenon, <1>3, <1>4, KnowMoved

LEMMA ToOwners ==
    ASSUME ResolverInv, AllKnow, UNCHANGED storeAndConfig, NEW p \in Queries, q[p].at = "look",
           q[p].type \in StoreTypes, q[p].srv = "auth" => ~IsWild(q[p].name),
           query_fqdn(q[p].name, q[p].type) # {},
           Goto(p, [q[p] EXCEPT !.at = "own", !.rows = query_fqdn(q[p].name, q[p].type)])
    PROVE  AllKnow'
<1> DEFINE R == query_fqdn(q[p].name, q[p].type)
           r == [q[p] EXCEPT !.at = "own", !.rows = R]
<1>1. q[p] \in Query /\ QueriesOK
  BY Zenon DEF QueriesOK, ResolverInv
<1>2. /\ r.at = "own" /\ r.srv = q[p].srv /\ r.name = q[p].name /\ r.type = q[p].type
      /\ r.seen = q[p].seen /\ r.rows = R
  BY Zenon, <1>1 DEF Query
<1>3. q' = [q EXCEPT ![p] = r]
  BY Zenon DEF Goto
<1>4. q[p].name \in Names /\ q[p].type \in Types
  BY Zenon, Fields
<1>5. R = RowsOf[q[p].name][q[p].type] /\ R # {} /\ \A s \in R : Found(s, q[p].name)
  BY Zenon, <1>4, FoundBy DEF ResolverInv
<1> HIDE DEF r, R
<1>6. Knows(r)
  BY Zenon, <1>2, <1>5 DEF Knows, Undisturbed
<1> QED BY Zenon, <1>1, <1>3, <1>6, KnowMoved

-----------------------------------------------------------------------------
(* The owner names of answers. *)

\* A record found under its own name gets the name that was asked back.
LEMMA OwnName ==
    ASSUME StoreOK, NEW n \in Names, NEW z \in find_zone_for_fqdn(n), n # z
    PROVE  RelativeTo(z, n) \o z = n /\ ("@" \notin Range(n) => RelativeTo(z, n) # Apex)
<1>1. Under(n, z) /\ n \in Seq(Labels) /\ z \in Seq(Labels)
  BY Zenon, OneZone
<1>2. RelativeTo(z, n) = Relative(n, z)
  BY Zenon DEF RelativeTo
<1>3. Relative(n, z) \o z = n /\ Range(Relative(n, z)) \subseteq Range(n)
  BY Zenon, <1>1, RelativeName
<1>4. "@" \in Range(Apex)
  <2>1. 1 \in DOMAIN Apex /\ Apex[1] = "@"
    BY DEF Apex
  <2> QED BY Zenon, <2>1 DEF Range
<1> QED BY Zenon, <1>2, <1>3, <1>4

LEMMA OwnersAsked ==
    ASSUME StoreOK, NEW p \in Queries, q[p].name \in Names, \A s \in q[p].rows : Found(s, q[p].name)
    PROVE  /\ q[p].rows # {} => owners(p) # {}
           /\ Plain(q[p].name) => owners(p) = {Named(q[p].name, s.type) : s \in q[p].rows}
<1> DEFINE n == q[p].name
           own(s) == IF Head(s.name) = "*" THEN {Named(n, s.type)}
                     ELSE {Named(IF s.name = Apex THEN z ELSE s.name \o z, s.type)
                           : z \in find_zone_for_fqdn(n)}
<1>1. owners(p) = UNION {own(s) : s \in q[p].rows}
  BY Zenon DEF owners
<1>2. ASSUME NEW s \in q[p].rows
      PROVE  own(s) # {} /\ (Plain(n) => own(s) = {Named(n, s.type)})
  <2>1. s.zone \in find_zone_for_fqdn(n) /\ (s.name = RelativeTo(s.zone, n) \/ Head(s.name) = "*")
    BY Zenon DEF Found, ZoneOf
  <2>2. find_zone_for_fqdn(n) = {s.zone}
    BY Zenon, <2>1, OneZone
  <2>3. own(s) # {}
    BY Zenon, <2>1
  <2>4. ASSUME Plain(n), Head(s.name) # "*"
        PROVE  (IF s.name = Apex THEN s.zone ELSE s.name \o s.zone) = n
    <3>1. CASE n = s.zone
      BY Zenon, <2>1, <2>4, <3>1 DEF RelativeTo
    <3>2. CASE n # s.zone
      BY Zenon, <2>1, <2>4, <3>2, OwnName DEF Plain
    <3> QED BY Zenon, <3>1, <3>2
  <2>5. ASSUME Plain(n) PROVE own(s) = {Named(n, s.type)}
    <3>1. CASE Head(s.name) = "*"
      BY Zenon, <3>1
    <3>2. CASE Head(s.name) # "*"
      BY Zenon, <2>2, <2>4, <2>5, <3>2
    <3> QED BY Zenon, <3>1, <3>2
  <2> QED BY Zenon, <2>3, <2>5
<1> DEFINE O == [s \in q[p].rows |-> own(s)]
<1>3. \A a : a \in owners(p) <=> \E s \in q[p].rows : a \in O[s]
  BY Zenon, <1>1
<1>4. \A s \in q[p].rows : O[s] # {} /\ (Plain(n) => O[s] = {Named(n, s.type)})
  BY Zenon, <1>2
<1> HIDE DEF own, O
<1>5. q[p].rows # {} => owners(p) # {}
  BY Zenon, <1>3, <1>4
<1>6. ASSUME Plain(n) PROVE owners(p) = {Named(n, s.type) : s \in q[p].rows}
  <2>1. ASSUME NEW s \in q[p].rows PROVE \A a : a \in O[s] <=> a = Named(n, s.type)
    <3>1. O[s] = {Named(n, s.type)}
      BY Zenon, <1>4, <1>6
    <3> QED BY Zenon, <3>1
  <2>2. \A a : a \in owners(p) <=> \E s \in q[p].rows : a = Named(n, s.type)
    BY Zenon, <1>3, <2>1
  <2> QED BY Zenon, <2>2
<1> QED BY Zenon, <1>5, <1>6

\* The recursor keeps to the record's own name.
LEMMA ProtoAsked ==
    ASSUME StoreOK, NEW n \in Names, NEW s \in Rows, Found(s, n), s.name # Apex, ~IsWild(s.name)
    PROVE  record_to_proto(s) = {Named(n, s.type)}
<1>1. s.zone \in find_zone_for_fqdn(n) /\ (s.name = RelativeTo(s.zone, n) \/ Head(s.name) = "*")
  BY Zenon DEF Found, ZoneOf
<1>2. Head(s.name) # "*"
  <2>1. s.name \in Seq(Range(s.name)) /\ s.name # <<>>
    BY Zenon, ResolverAssumption
  <2>2. Head(s.name) \in Range(s.name)
    BY Zenon, <2>1, HeadAndTail
  <2> QED BY Zenon, <2>2 DEF IsWild
<1>3. n # s.zone /\ s.name = RelativeTo(s.zone, n)
  BY Zenon, <1>1, <1>2 DEF RelativeTo
<1>4. s.name \o s.zone = n /\ s.zone \in zones
  BY Zenon, <1>1, <1>3, OwnName, OneZone
<1> QED BY Zenon, <1>4 DEF record_to_proto

-----------------------------------------------------------------------------
(* Each step of a query keeps what is known. *)

LEMMA KnowAsk == ASSUME ResolverInv, AllKnow, NEW p \in Queries, Ask(p) PROVE AllKnow'
<1>1. UNCHANGED storeAndConfig /\ QueriesOK
  BY Zenon DEF Ask, ResolverInv
<1>2. PICK srv \in {"auth", "rec"}, n \in Names, t \in Types \cup {"opcode", "noquery"} :
        q' = [q EXCEPT ![p] = [Blank EXCEPT !.at = "zone", !.srv = srv, !.name = n, !.type = t]]
  BY Zenon DEF Ask, Goto
<1> DEFINE r == [Blank EXCEPT !.at = "zone", !.srv = srv, !.name = n, !.type = t]
<1>3. r.at = "zone"
  BY DEF Blank
<1> HIDE DEF r
<1>4. q' = [q EXCEPT ![p] = r]
  BY Zenon, <1>2 DEF r
<1> QED BY Zenon, <1>1, <1>3, <1>4, Quiet

LEMMA KnowSent == ASSUME ResolverInv, AllKnow, NEW p \in Queries, Sent(p) PROVE AllKnow'
<1>1. UNCHANGED storeAndConfig /\ QueriesOK /\ q' = [q EXCEPT ![p] = Blank]
  BY Zenon DEF Sent, Goto, ResolverInv
<1> QED BY Zenon, <1>1, Quiet, BlankGood

LEMMA KnowMalformed ==
    ASSUME QueriesOK, AllKnow, UNCHANGED storeAndConfig, NEW p \in Queries,
           q[p].type \in {"opcode", "noquery"}, Malformed(p)
    PROVE  AllKnow'
<1>1. q[p].type \notin StoreTypes
  BY Zenon DEF StoreTypes
<1> DEFINE code == IF q[p].type = "opcode" THEN "NotImp" ELSE "FormErr"
<1>2. Reply(p, code, {}, None)
  BY Zenon DEF Malformed
<1> HIDE DEF code
<1>3. Right(q[p], code, {}, None)
  BY Zenon, <1>1 DEF Right
<1> QED BY Zenon, <1>2, <1>3, KnowReply

LEMMA SoaReply ==
    ASSUME QueriesOK, AllKnow, UNCHANGED storeAndConfig, NEW p \in Queries, q[p].type \notin StoreTypes,
           NEW code, NEW from, Reply(p, code, build_soa(q[p].name), from)
    PROVE  AllKnow'
<1>1. \A z : Named(z, "SOA").type = "SOA"
  BY Zenon DEF Named
<1>2. \A a \in build_soa(q[p].name) : a.type \notin StoreTypes
  BY Zenon, <1>1 DEF build_soa, StoreTypes
<1> QED BY Zenon, <1>2, OtherReply

LEMMA KnowLook ==
    ASSUME ResolverInv, AllKnow, UNCHANGED storeAndConfig, NEW p \in Queries, At(p, "auth", "look"),
           resolve_query(p)
    PROVE  AllKnow'
<1>1. q[p].at = "look" /\ q[p].srv = "auth" /\ QueriesOK /\ StoreOK
  BY Zenon DEF At, ResolverInv
<1>2. q[p].name \in Names /\ q[p].type \in Types
  BY Zenon, <1>1, Fields
<1>3. CASE q[p].type \in {"SOA", "ANY"}
  <2>1. q[p].type \notin StoreTypes
    BY Zenon, <1>3 DEF StoreTypes
  <2>2. GotoStage(p, "neg") \/ Reply(p, "NoError", build_soa(q[p].name), "local")
    BY Zenon, <1>3 DEF resolve_query
  <2> QED BY Zenon, <1>1, <2>1, <2>2, ToNegative, SoaReply
<1>4. CASE q[p].type \notin {"SOA", "ANY"} /\ q[p].type \notin StoreTypes
  <2>1. GotoStage(p, "neg")
    BY Zenon, <1>4 DEF resolve_query
  <2> QED BY Zenon, <1>1, <1>4, <2>1, ToNegative
<1>5. CASE q[p].type \notin {"SOA", "ANY"} /\ q[p].type \in StoreTypes /\ IsWild(q[p].name)
  <2> DEFINE R == resolve_wildcard_query(q[p].name, q[p].type)
             A == {Named(r.name \o r.zone, q[p].type) : r \in R}
  <2>1. GotoStage(p, "neg") \/ Reply(p, "NoError", A, "local")
    BY Zenon, <1>5 DEF resolve_query
  <2>2. Right(q[p], "NoError", A, "local")
    BY Zenon, <1>1, <1>5 DEF Right, Plain
  <2> HIDE DEF A
  <2> QED BY Zenon, <1>1, <1>5, <2>1, <2>2, ToNegative, KnowReply
<1>6. CASE q[p].type \notin {"SOA", "ANY"} /\ q[p].type \in StoreTypes /\ ~IsWild(q[p].name)
  <2>1. CASE query_fqdn(q[p].name, q[p].type) = {}
    <3>1. GotoStage(p, "neg")
      BY Zenon, <1>6, <2>1 DEF resolve_query
    <3>2. RowsOf[q[p].name][q[p].type] = {}
      BY Zenon, <1>1, <1>2, <2>1, FoundBy
    <3> QED BY Zenon, <1>1, <3>1, <3>2, ToNegative
  <2>2. CASE query_fqdn(q[p].name, q[p].type) # {}
    <3>1. Goto(p, [q[p] EXCEPT !.at = "own", !.rows = query_fqdn(q[p].name, q[p].type)])
      BY Zenon, <1>6, <2>2 DEF resolve_query
    <3> QED BY Zenon, <1>1, <1>6, <2>2, <3>1, ToOwners
  <2> QED BY Zenon, <2>1, <2>2
<1> QED BY Zenon, <1>3, <1>4, <1>5, <1>6

LEMMA KnowHandle == ASSUME ResolverInv, AllKnow, NEW p \in Queries, handle_query(p) PROVE AllKnow'
<1>1. UNCHANGED storeAndConfig /\ QueriesOK /\ StoreOK
  BY Zenon DEF handle_query, ResolverInv
<1>2. ASSUME At(p, "auth", "zone"), q[p].type \in {"opcode", "noquery"}, Malformed(p) PROVE AllKnow'
  BY Zenon, <1>1, <1>2, KnowMalformed
<1>3. ASSUME At(p, "auth", "zone"), GotoStage(p, "look") PROVE AllKnow'
  BY Zenon, <1>1, <1>3, QuietStage
<1>4. ASSUME At(p, "auth", "zone"), q[p].type \notin {"opcode", "noquery"}, ~is_authoritative(q[p].name),
             Reply(p, "Refused", {}, None)
      PROVE  AllKnow'
  <2>1. q[p].type \in Types /\ q[p].srv = "auth" /\ q[p].name \notin Held
    BY Zenon, <1>4, AskedType DEF At, Held
  <2>2. AuthAnswer(q[p].name, q[p].type, "Refused", {})
    BY Zenon, <2>1 DEF AuthAnswer
  <2>3. Right(q[p], "Refused", {}, None)
    BY Zenon, <2>1, <2>2 DEF Right
  <2> QED BY Zenon, <1>1, <1>4, <2>3, KnowReply
<1>5. ASSUME At(p, "auth", "look"), resolve_query(p) PROVE AllKnow'
  BY Zenon, <1>1, <1>5, KnowLook
<1>6. ASSUME At(p, "auth", "own"),
             IF owners(p) = {} THEN GotoStage(p, "neg") ELSE Reply(p, "NoError", owners(p), "local")
      PROVE  AllKnow'
  <2>1. q[p].at = "own" /\ q[p].srv = "auth" /\ Knows(q[p])
    BY Zenon, <1>6 DEF At, AllKnow
  <2>2. q[p].name \in Names /\ q[p].type \in Types
    BY Zenon, <2>1, Fields
  <2>3. /\ "zone" \notin q[p].seen => \A s \in q[p].rows : Found(s, q[p].name)
        /\ Undisturbed(q[p]) => /\ "zone" \notin q[p].seen /\ q[p].rows # {}
                                /\ q[p].rows = RowsOf[q[p].name][q[p].type]
    BY Zenon, <2>1 DEF Knows, Undisturbed
  <2>4. CASE owners(p) = {}
    <3>1. ~Undisturbed(q[p])
      BY Zenon, <1>1, <2>2, <2>3, <2>4, OwnersAsked
    <3> QED BY Zenon, <1>1, <1>6, <2>4, <3>1, ToNegative
  <2>5. CASE owners(p) # {}
    <3>1. \A o, t : Named(o, t).owner = o
      BY DEF Named
    <3>2. ASSUME Plain(q[p].name), "zone" \notin q[p].seen
          PROVE  owners(p) = {Named(q[p].name, s.type) : s \in q[p].rows}
      BY Zenon, <1>1, <2>2, <2>3, <3>2, OwnersAsked
    <3>3. ASSUME Plain(q[p].name), "zone" \notin q[p].seen, NEW a \in owners(p) PROVE a.owner = q[p].name
      <4>1. PICK s \in q[p].rows : a = Named(q[p].name, s.type)
        BY Zenon, <3>2, <3>3
      <4> QED BY Zenon, <3>1, <4>1
    <3>4. ASSUME Plain(q[p].name), Undisturbed(q[p])
          PROVE  AuthAnswer(q[p].name, q[p].type, "NoError", owners(p))
      BY Zenon, <2>3, <2>5, <3>2, <3>4 DEF AuthAnswer
    <3>5. Right(q[p], "NoError", owners(p), "local")
      BY Zenon, <2>1, <2>2, <3>3, <3>4 DEF Right
    <3> QED BY Zenon, <1>1, <1>6, <2>5, <3>5, KnowReply
  <2> QED BY Zenon, <2>4, <2>5
<1> QED BY Zenon, <1>2, <1>3, <1>4, <1>5, <1>6 DEF handle_query

LEMMA KnowNegative == ASSUME ResolverInv, AllKnow, NEW p \in Queries, Negative(p) PROVE AllKnow'
<1> DEFINE code == IF fqdn_exists(q[p].name) THEN "NoError" ELSE "NXDomain"
<1>1. /\ UNCHANGED storeAndConfig /\ QueriesOK /\ StoreOK /\ q[p].at = "neg" /\ Knows(q[p])
      /\ Reply(p, code, {}, "local")
  BY Zenon DEF Negative, ResolverInv, AllKnow
<1>2. q[p].name \in Names /\ q[p].type \in Types
  BY Zenon, <1>1, Fields
<1>3. code = IF q[p].name \in There THEN "NoError" ELSE "NXDomain"
  BY Zenon, <1>1, <1>2, ExistsRight
<1> HIDE DEF code
<1>4. ASSUME Undisturbed(q[p]), q[p].type \in StoreTypes, q[p].srv = "auth" => ~IsWild(q[p].name)
      PROVE  /\ AuthAnswer(q[p].name, q[p].type, code, {})
             /\ LocalAnswer(q[p].name, q[p].type, code, {})
  <2>1. RowsOf[q[p].name][q[p].type] = {}
    BY Zenon, <1>1, <1>4 DEF Knows
  <2>2. {Named(q[p].name, s.type) : s \in RowsOf[q[p].name][q[p].type]} = {}
    BY Zenon, <2>1
  <2> QED BY Zenon, <1>3, <2>2 DEF AuthAnswer, LocalAnswer
<1>5. ASSUME q[p].srv = "rec" PROVE q[p].srv # "auth"
  BY Zenon, <1>5
<1>6. Right(q[p], code, {}, "local")
  BY Zenon, <1>2, <1>4, <1>5 DEF Right, Plain
<1> QED BY Zenon, <1>1, <1>6, KnowReply

LEMMA KnowLocal == ASSUME ResolverInv, AllKnow, NEW p \in Queries, Local(p) PROVE AllKnow'
<1>1. UNCHANGED storeAndConfig /\ QueriesOK
  BY Zenon DEF Local, ResolverInv
<1>2. \/ q[p].type \in {"opcode", "noquery"} /\ Malformed(p)
      \/ GotoStage(p, "look") \/ GotoStage(p, "cache")
  BY Zenon DEF Local
<1> QED BY Zenon, <1>1, <1>2, KnowMalformed, QuietStage

LEMMA KnowCacheGet == ASSUME ResolverInv, AllKnow, NEW p \in Queries, cache_get(p) PROVE AllKnow'
<1>1. UNCHANGED storeAndConfig /\ QueriesOK /\ q[p].srv = "rec"
  BY Zenon DEF cache_get, ResolverInv, At
<1>2. CASE Live(Key(p))
  <2>1. Key(p) \in Cached /\ cache \in [Cached -> Entry]
    BY Zenon, <1>2 DEF Live, ResolverInv, CacheOK
  <2>2. cache[Key(p)].from \in Servers
    BY <2>1 DEF Entry
  <2>3. cache[Key(p)].from # "local" /\ Reply(p, "NoError", {}, cache[Key(p)].from)
    BY Zenon, <1>2, <2>2, ResolverAssumption DEF cache_get
  <2> QED BY Zenon, <1>1, <2>3, BeyondReply
<1>3. CASE ~Live(Key(p))
  <2>1. GotoStage(p, "choose")
    BY Zenon, <1>3 DEF cache_get
  <2> QED BY Zenon, <1>1, <2>1, QuietStage
<1> QED BY Zenon, <1>2, <1>3

LEMMA KnowChoose == ASSUME ResolverInv, AllKnow, NEW p \in Queries, Choose(p) PROVE AllKnow'
<1> DEFINE r == [q[p] EXCEPT !.at = "send", !.todo = Route(q[p].name), !.seen = @ \ {"fwd"},
                             !.routed = find_forward_servers(q[p].name) # None]
<1>1. UNCHANGED storeAndConfig /\ QueriesOK /\ q[p] \in Query /\ q' = [q EXCEPT ![p] = r]
  BY Zenon DEF Choose, ResolverInv, QueriesOK, Goto
<1>2. r.at = "send"
  BY Zenon, <1>1 DEF Query
<1> HIDE DEF r
<1> QED BY Zenon, <1>1, <1>2, Quiet

LEMMA KnowForward == ASSUME ResolverInv, AllKnow, NEW p \in Queries, forward_query(p) PROVE AllKnow'
<1>1. UNCHANGED storeAndConfig /\ QueriesOK /\ q[p].srv = "rec" /\ q[p].at = "send" /\ q[p] \in Query
  BY Zenon DEF forward_query, ResolverInv, QueriesOK, At
<1>2. ASSUME GotoStage(p, "fallback") PROVE AllKnow'
  BY Zenon, <1>1, <1>2, QuietStage
<1>3. ASSUME Reply(p, "ServFail", {}, None) PROVE AllKnow'
  BY Zenon, <1>1, <1>3, BeyondReply, ResolverAssumption
<1>4. ASSUME q[p].todo # <<>>, NEW code, Reply(p, code, {}, Head(q[p].todo)) PROVE AllKnow'
  <2>1. Head(q[p].todo) # "local"
    BY Zenon, <1>1, <1>4, QueryFields, SeqRange, ResolverAssumption
  <2> QED BY Zenon, <1>1, <1>4, <2>1, BeyondReply
<1>5. ASSUME NEW ttl, Goto(p, [q[p] EXCEPT !.at = "full", !.ttl = ttl, !.from = Head(q[p].todo)])
      PROVE  AllKnow'
  <2> DEFINE r == [q[p] EXCEPT !.at = "full", !.ttl = ttl, !.from = Head(q[p].todo)]
  <2>1. r.at = "full"
    BY <1>1 DEF Query
  <2>2. q' = [q EXCEPT ![p] = r]
    BY Zenon, <1>5 DEF Goto
  <2> HIDE DEF r
  <2> QED BY Zenon, <1>1, <2>1, <2>2, Quiet
<1>6. ASSUME Goto(p, [q[p] EXCEPT !.todo = Tail(@)]) PROVE AllKnow'
  <2> DEFINE r == [q[p] EXCEPT !.todo = Tail(@)]
  <2>1. r.at = "send"
    BY Zenon, <1>1 DEF Query
  <2>2. q' = [q EXCEPT ![p] = r]
    BY Zenon, <1>6 DEF Goto
  <2> HIDE DEF r
  <2> QED BY Zenon, <1>1, <2>1, <2>2, Quiet
<1> QED BY Zenon, <1>2, <1>3, <1>4, <1>5, <1>6 DEF forward_query

LEMMA KnowInsert == ASSUME ResolverInv, AllKnow, NEW p \in Queries, insert(p) PROVE AllKnow'
<1>1. UNCHANGED storeAndConfig /\ QueriesOK /\ q[p].srv = "rec" /\ q[p].at = "full"
  BY Zenon DEF insert, ResolverInv, At
<1>2. Reply(p, "NoError", {}, q[p].from) \/ GotoStage(p, "store")
  BY Zenon DEF insert
<1>3. q[p].from # "local"
  BY Zenon, <1>1, Fields, ResolverAssumption
<1> QED BY Zenon, <1>1, <1>2, <1>3, BeyondReply, QuietStage

LEMMA KnowStore == ASSUME ResolverInv, AllKnow, NEW p \in Queries, Store(p) PROVE AllKnow'
<1>1. /\ UNCHANGED storeAndConfig /\ QueriesOK /\ q[p].srv = "rec" /\ q[p].at = "store"
      /\ Reply(p, "NoError", {}, q[p].from)
  BY Zenon DEF Store, ResolverInv, At
<1>2. q[p].from # "local"
  BY Zenon, <1>1, Fields, ResolverAssumption
<1> QED BY Zenon, <1>1, <1>2, BeyondReply

LEMMA KnowFallback == ASSUME ResolverInv, AllKnow, NEW p \in Queries, Fallback(p) PROVE AllKnow'
<1> DEFINE r == [q[p] EXCEPT !.at = "look", !.aa = FALSE, !.routed = FALSE]
<1>1. UNCHANGED storeAndConfig /\ QueriesOK /\ q[p].srv = "rec" /\ q[p] \in Query
  BY Zenon DEF Fallback, ResolverInv, QueriesOK, At
<1>2. q' = [q EXCEPT ![p] = r] \/ Reply(p, "ServFail", {}, None)
  BY Zenon DEF Fallback, Goto
<1>3. r.at = "look"
  BY <1>1 DEF Query
<1> HIDE DEF r
<1> QED BY Zenon, <1>1, <1>2, <1>3, Quiet, BeyondReply, ResolverAssumption

LEMMA KnowFromLocal ==
    ASSUME ResolverInv, AllKnow, NEW p \in Queries, resolve_from_local(p)
    PROVE  AllKnow'
<1>1. UNCHANGED storeAndConfig /\ QueriesOK /\ StoreOK
  BY Zenon DEF resolve_from_local, ResolverInv
<1>2. ASSUME At(p, "rec", "look"), q[p].type = "SOA", Reply(p, "NoError", build_soa(q[p].name), "local")
      PROVE  AllKnow'
  <2>1. q[p].type \notin StoreTypes
    BY Zenon, <1>2 DEF StoreTypes
  <2> QED BY Zenon, <1>1, <1>2, <2>1, SoaReply
<1>3. ASSUME At(p, "rec", "look"), q[p].type \notin StoreTypes, Reply(p, "NotImp", {}, "local")
      PROVE  AllKnow'
  <2>1. Right(q[p], "NotImp", {}, "local")
    BY Zenon, <1>3 DEF Right
  <2> QED BY Zenon, <1>1, <1>3, <2>1, KnowReply
<1>4. ASSUME At(p, "rec", "look"), q[p].type \in StoreTypes, query_fqdn(q[p].name, q[p].type) = {},
             GotoStage(p, "neg")
      PROVE  AllKnow'
  <2>1. q[p].name \in Names /\ q[p].type \in Types
    BY Zenon, <1>4, Fields DEF At
  <2>2. RowsOf[q[p].name][q[p].type] = {}
    BY Zenon, <1>1, <1>4, <2>1, FoundBy
  <2> QED BY Zenon, <1>1, <1>4, <2>2, ToNegative
<1>5. ASSUME At(p, "rec", "look"), q[p].type \in StoreTypes, query_fqdn(q[p].name, q[p].type) # {},
             Goto(p, [q[p] EXCEPT !.at = "own", !.rows = query_fqdn(q[p].name, q[p].type)])
      PROVE  AllKnow'
  <2>1. q[p].at = "look" /\ q[p].srv # "auth"
    BY Zenon, <1>5 DEF At
  <2> QED BY Zenon, <1>1, <1>5, <2>1, ToOwners
<1>6. ASSUME At(p, "rec", "own"),
             Reply(p, "NoError", UNION {record_to_proto(s) : s \in q[p].rows}, "local")
      PROVE  AllKnow'
  <2> DEFINE A == UNION {record_to_proto(s) : s \in q[p].rows}
  <2>1. q[p].at = "own" /\ q[p].srv = "rec" /\ q[p].srv # "auth" /\ Knows(q[p]) /\ q[p].rows \subseteq Rows
    BY Zenon, <1>1, <1>6, QueryFields DEF At, AllKnow
  <2>2. q[p].name \in Names /\ q[p].type \in Types
    BY Zenon, <2>1, Fields
  <2>3. ASSUME Undisturbed(q[p]) PROVE LocalAnswer(q[p].name, q[p].type, "NoError", A)
    <3>1. /\ q[p].rows = RowsOf[q[p].name][q[p].type] /\ q[p].rows # {}
          /\ \A s \in q[p].rows : Found(s, q[p].name)
      BY Zenon, <2>1, <2>3 DEF Knows, Undisturbed
    <3>2. ASSUME {s \in RowsOf[q[p].name][q[p].type] : s.name = Apex \/ IsWild(s.name)} = {}
          PROVE  A = {Named(q[p].name, s.type) : s \in RowsOf[q[p].name][q[p].type]}
      <4>1. ASSUME NEW s \in q[p].rows PROVE \A a : a \in record_to_proto(s) <=> a = Named(q[p].name, s.type)
        <5>1. s.name # Apex /\ ~IsWild(s.name) /\ s \in Rows /\ Found(s, q[p].name)
          BY Zenon, <2>1, <3>1, <3>2
        <5>2. record_to_proto(s) = {Named(q[p].name, s.type)}
          BY Zenon, <1>1, <2>2, <5>1, ProtoAsked
        <5> QED BY Zenon, <5>2
      <4>2. \A a : a \in A <=> \E s \in q[p].rows : a \in record_to_proto(s)
        BY Zenon
      <4> HIDE DEF A
      <4>3. \A a : a \in A <=> \E s \in q[p].rows : a = Named(q[p].name, s.type)
        BY Zenon, <4>1, <4>2
      <4> QED BY Zenon, <3>1, <4>3
    <3> HIDE DEF A
    <3> QED BY Zenon, <3>1, <3>2 DEF LocalAnswer
  <2> HIDE DEF A
  <2>4. Right(q[p], "NoError", A, "local")
    BY Zenon, <2>1, <2>2, <2>3 DEF Right
  <2> QED BY Zenon, <1>1, <1>6, <2>4, KnowReply DEF A
<1> QED BY Zenon, <1>2, <1>3, <1>4, <1>5, <1>6 DEF resolve_from_local

LEMMA KnowQuery == ASSUME ResolverInv, AllKnow, NEW p \in Queries, QueryStep(p) PROVE AllKnow'
BY Zenon, KnowHandle, KnowNegative, KnowLocal, KnowCacheGet, KnowChoose, KnowForward, KnowInsert, KnowStore,
   KnowFallback, KnowFromLocal DEF QueryStep

-----------------------------------------------------------------------------
(* Writers take from a query what it knew. *)

LEMMA KnowNoticed ==
    ASSUME QueriesOK, AllKnow, NEW what \in {"zone", "row", "fwd"}, Noticed(what),
           what = "zone" \/ ZoneOf' = ZoneOf,
           what \in {"zone", "row"} \/ (RowsOf' = RowsOf /\ There' = There /\ Held' = Held)
    PROVE  AllKnow'
<1>1. ASSUME NEW p \in Queries PROVE Knows(q[p])'
  <2>1. q[p] \in Query /\ Knows(q[p])
    BY Zenon DEF QueriesOK, AllKnow
  <2>2. CASE q[p].at = "idle"
    <3>1. q'[p].at = "idle"
      BY Zenon, <2>2 DEF Noticed
    <3> QED BY Zenon, <3>1 DEF Knows
  <2>3. CASE q[p].at # "idle"
    <3> DEFINE r == [q[p] EXCEPT !.seen = @ \cup {what}]
    <3>1. q'[p] = r
      BY Zenon, <2>3 DEF Noticed
    <3>2. /\ r.at = q[p].at /\ r.srv = q[p].srv /\ r.name = q[p].name /\ r.type = q[p].type
          /\ r.rows = q[p].rows /\ r.code = q[p].code /\ r.ans = q[p].ans /\ r.from = q[p].from
          /\ r.seen = q[p].seen \cup {what}
      BY <2>1 DEF Query
    <3> HIDE DEF r
    <3>3. /\ q'[p].at = q[p].at /\ q'[p].srv = q[p].srv /\ q'[p].name = q[p].name
          /\ q'[p].type = q[p].type /\ q'[p].rows = q[p].rows /\ q'[p].code = q[p].code
          /\ q'[p].ans = q[p].ans /\ q'[p].from = q[p].from
      BY Zenon, <3>1, <3>2
    <3>4. /\ "zone" \notin q'[p].seen => "zone" \notin q[p].seen /\ what # "zone"
          /\ Undisturbed(q[p])' => Undisturbed(q[p]) /\ what = "fwd" /\ "zone" \notin q'[p].seen
      BY Zenon, <3>1, <3>2 DEF Undisturbed
    <3>5. ASSUME q'[p].at = "own"
          PROVE  /\ q'[p].type \in StoreTypes /\ (q'[p].srv = "auth" => ~IsWild(q'[p].name))
                 /\ "zone" \notin q'[p].seen => \A s \in q'[p].rows : Found(s, q[p].name)'
                 /\ Undisturbed(q[p])' => q'[p].rows = RowsOf'[q'[p].name][q'[p].type] /\ q'[p].rows # {}
      BY Zenon, <2>1, <3>3, <3>4, <3>5 DEF Knows, Found
    <3>6. ASSUME q'[p].at = "neg", Undisturbed(q[p])', q'[p].type \in StoreTypes,
                 q'[p].srv = "auth" => ~IsWild(q'[p].name)
          PROVE  RowsOf'[q'[p].name][q'[p].type] = {}
      BY Zenon, <2>1, <3>3, <3>4, <3>6 DEF Knows
    <3>7. ASSUME q'[p].at = "done" PROVE Right(q[p], q[p].code, q[p].ans, q[p].from)'
      <4>1. Right(q[p], q[p].code, q[p].ans, q[p].from)
        BY Zenon, <2>1, <3>3, <3>7 DEF Knows
      <4> QED BY ZenonT(40), <3>3, <3>4, <4>1 DEF Right, AuthAnswer, LocalAnswer
    <3> QED BY Zenon, <3>5, <3>6, <3>7 DEF Knows
  <2> QED BY Zenon, <2>2, <2>3
<1> QED BY Zenon, <1>1 DEF AllKnow

LEMMA KnowWriter ==
    ASSUME ResolverInv, AllKnow, WriteStore \/ WriteForwarder \/ MdnsForwarder
    PROVE  AllKnow'
<1>1. QueriesOK
  BY Zenon DEF ResolverInv
<1>2. ASSUME Noticed("zone") PROVE AllKnow'
  BY Zenon, <1>1, <1>2, KnowNoticed
<1>3. ASSUME Noticed("row"), UNCHANGED zones PROVE AllKnow'
  <2>1. ZoneOf' = ZoneOf
    BY Zenon, <1>3 DEF ZoneOf, find_zone_for_fqdn, Covering
  <2> QED BY Zenon, <1>1, <1>3, <2>1, KnowNoticed
<1>4. ASSUME Noticed("fwd"), zones' = zones, rows' = rows PROVE AllKnow'
  BY Zenon, <1>1, <1>4, StoreFrame, KnowNoticed
<1> QED BY Zenon, <1>2, <1>3, <1>4 DEF WriteStore, WriteForwarder, MdnsForwarder, SetForwarder

LEMMA KnowSame == ASSUME AllKnow, zones' = zones, rows' = rows, q' = q PROVE AllKnow'
<1>1. ZoneOf' = ZoneOf /\ RowsOf' = RowsOf /\ There' = There /\ Held' = Held
  BY Zenon, StoreFrame
<1>2. ASSUME NEW p \in Queries PROVE Knows(q[p])'
  <2>1. Knows(q'[p])
    BY Zenon DEF AllKnow
  <2> QED BY Zenon, <1>1, <2>1 DEF Knows, Right, AuthAnswer, LocalAnswer, Found
<1> QED BY Zenon, <1>2 DEF AllKnow

LEMMA KnowRestart == ASSUME Restart PROVE AllKnow'
<1>1. \A p \in Queries : q'[p].at = "idle"
  BY Zenon, BlankGood DEF Restart
<1> QED BY Zenon, <1>1 DEF AllKnow, Knows

LEMMA KnowNext == ResolverInv /\ AllKnow /\ [Next]_vars => AllKnow'
<1> SUFFICES ASSUME ResolverInv, AllKnow, [Next]_vars PROVE AllKnow'
  BY Zenon
<1>1. ASSUME NEW p \in Queries, Ask(p) \/ QueryStep(p) \/ Sent(p) PROVE AllKnow'
  BY Zenon, <1>1, KnowAsk, KnowQuery, KnowSent
<1>2. CASE ClearCache \/ Tick \/ UNCHANGED vars
  <2>1. zones' = zones /\ rows' = rows /\ q' = q
    BY Zenon, <1>2 DEF ClearCache, Tick, vars, storeAndConfig
  <2> QED BY Zenon, <2>1, KnowSame
<1> QED BY Zenon, <1>1, <1>2, KnowWriter, KnowRestart DEF Next

LEMMA KnowRight == ASSUME ResolverInv, AllKnow PROVE AnswersRight
<1>1. TypeOK
  <2>1. cache \in [Cached -> Entry] /\ Cached \subseteq Names \X Types
    BY Zenon DEF ResolverInv, CacheOK
  <2>2. Range(cache) \subseteq Entry /\ DOMAIN cache \subseteq Names \X Types
    BY Zenon, <2>1 DEF Range, Cached
  <2>3. ASSUME NEW p \in Queries
        PROVE  /\ q[p].at \in Stages /\ q[p].code \in Codes \cup {None}
               /\ q[p].rows \subseteq Rows /\ q[p].ttl \in 0..MaxTtl
    <3>1. q[p] \in Query
      BY Zenon DEF ResolverInv, QueriesOK
    <3> QED BY <3>1 DEF Query
  <2> QED BY Zenon, <2>2, <2>3 DEF TypeOK, ResolverInv, StoreOK, Entry
<1>2. ASSUME NEW p \in Queries, q[p].at = "done"
      PROVE  q[p].name \in Names /\ Right(q[p], q[p].code, q[p].ans, q[p].from)
  BY Zenon, <1>2, Fields DEF AllKnow, Knows
<1>3. ASSUME NEW n \in Names, NEW t \in Types
      PROVE  /\ RowsOf[n][t] = Reference(n, t)
             /\ n \in There <=> Present(n)
             /\ n \in Held <=> is_authoritative(n)
  BY Zenon DEF RowsOf, There, Held
<1>4. OwnerAsked
  BY Zenon, <1>2 DEF OwnerAsked, Right
<1>5. AuthRight
  <2> SUFFICES ASSUME NEW p \in Queries, Calm(p), q[p].srv = "auth", q[p].type \in StoreTypes,
                      is_authoritative(q[p].name), Plain(q[p].name)
               PROVE  /\ q[p].ans = {Named(q[p].name, r.type) : r \in Reference(q[p].name, q[p].type)}
                      /\ q[p].code = IF q[p].ans # {} \/ Present(q[p].name) THEN "NoError" ELSE "NXDomain"
    BY Zenon DEF AuthRight
  <2>1. q[p].at = "done" /\ Undisturbed(q[p])
    BY Zenon DEF Calm, Undisturbed
  <2>2. q[p].name \in Names /\ q[p].type \in Types /\ AuthAnswer(q[p].name, q[p].type, q[p].code, q[p].ans)
    BY Zenon, <1>2, <2>1 DEF Right
  <2>3. RowsOf[q[p].name][q[p].type] = Reference(q[p].name, q[p].type)
    BY Zenon, <1>3, <2>2
  <2>4. q[p].name \in Held /\ (q[p].name \in There <=> Present(q[p].name))
    BY Zenon, <1>3, <2>2
  <2> QED BY Zenon, <2>2, <2>3, <2>4 DEF AuthAnswer
<1>6. LocalAgrees
  <2> SUFFICES ASSUME NEW p \in Queries, Calm(p), q[p].srv = "rec", q[p].from = "local",
                      q[p].type \in StoreTypes
               PROVE  LET R == Reference(q[p].name, q[p].type)
                      IN  /\ {r \in R : r.name = Apex \/ IsWild(r.name)} = {} =>
                                 q[p].ans = {Named(q[p].name, r.type) : r \in R}
                          /\ R = {} => q[p].code = IF Present(q[p].name) THEN "NoError" ELSE "NXDomain"
    BY Zenon DEF LocalAgrees
  <2>1. q[p].at = "done" /\ Undisturbed(q[p])
    BY Zenon DEF Calm, Undisturbed
  <2>2. q[p].name \in Names /\ q[p].type \in Types /\ LocalAnswer(q[p].name, q[p].type, q[p].code, q[p].ans)
    BY Zenon, <1>2, <2>1 DEF Right
  <2>3. RowsOf[q[p].name][q[p].type] = Reference(q[p].name, q[p].type)
    BY Zenon, <1>3, <2>2
  <2>4. q[p].name \in There <=> Present(q[p].name)
    BY Zenon, <1>3, <2>2
  <2> QED BY Zenon, <2>2, <2>3, <2>4 DEF LocalAnswer
<1> QED BY Zenon, <1>1, <1>4, <1>5, <1>6 DEF AnswersRight

\* Both servers answer from the store as one reading of it would: the records
\* of the most specific zone, under the name that was asked, and NXDOMAIN only
\* for a name no record has, unless a writer came between the reads of the
\* query (handle_query, resolve_from_local, query_fqdn, fqdn_exists).
THEOREM AnswersFromStore == Spec => []AnswersRight
<1>1. Init => AllKnow
  <2> SUFFICES ASSUME Init PROVE AllKnow
    BY Zenon
  <2>1. \A p \in Queries : q[p].at = "idle"
    BY Zenon, BlankGood DEF Init
  <2> QED BY Zenon, <2>1 DEF AllKnow, Knows
<1>2. ResolverInv /\ AllKnow /\ [Next]_vars => AllKnow'
  BY Zenon, KnowNext
<1>3. ResolverInv /\ AllKnow => AnswersRight
  BY Zenon, KnowRight
<1> QED BY <1>1, <1>2, <1>3, ResolverInvariant, PTL DEF Spec

=============================================================================
