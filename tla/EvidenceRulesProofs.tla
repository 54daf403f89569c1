------------------------- MODULE EvidenceRulesProofs -------------------------
(***************************************************************************)
(* Theorems about the evidence rules, for every list of records: the       *)
(* verdict is one about the set of the records, the normal form is a       *)
(* function of that set, and the first fault of a list is reported.        *)
(***************************************************************************)
EXTENDS EvidenceRules, RecoveryDomainProofs

\* The list holds records.
TypeOK == list \in Seq(Item)

\* It starts empty and every record it takes is one.
LEMMA ListHolds == Spec => []TypeOK
<1>1. Init => TypeOK
  BY DEF Init, TypeOK
<1>2. TypeOK /\ [Next]_list => TypeOK'
  BY DEF Next, AddRecord, TypeOK
<1> QED BY <1>1, <1>2, PTL DEF Spec

\* A list is accepted exactly when its ids are distinct and the set of its
\* records passes the rules load_plan repeats: a stored plan loads again.
THEOREM AcceptanceIsOfTheSet == Spec => []AcceptedAsSet
<1>1. TypeOK => AcceptedAsSet
  BY ListAcceptedAsSet DEF TypeOK, AcceptedAsSet, Accepted, Records
<1> QED BY <1>1, ListHolds, PTL

-----------------------------------------------------------------------------
\* The first fault.

\* What is wrong with a record depends on it and the records before it.
LEMMA FaultsStay ==
    ASSUME list \in Seq(Item), NEW item \in Item, list' = Append(list, item),
           NEW i \in 1 .. Len(list)
    PROVE  ItemError(list', i, Command) = ItemError(list, i, Command)
<1>1. list'[i] = list[i] /\ \A j \in 1 .. i - 1 : list'[j] = list[j]
  OBVIOUS
<1>2. Repeated(list', i) = Repeated(list, i)
  BY <1>1 DEF Repeated
<1> QED BY <1>1, <1>2 DEF ItemError

\* A list refused for a record it holds stays refused for that reason when
\* more records follow, unless it grows too long: the first fault is reported.
THEOREM FirstFaultStays == Spec => FirstFaultIsReported
<1> DEFINE error == EvidenceListError(list, Command)
           Reported == error \notin {"ok", "missing_log_evidence", "missing_diagnostic_evidence"}
                         => error' \in {error, "too_many_evidence"}
<1>1. TypeOK /\ [Next]_list => Reported
  <2> SUFFICES ASSUME list \in Seq(Item), NEW item \in Item, list' = Append(list, item)
               PROVE  Reported
    BY DEF Next, AddRecord, TypeOK
  <2> DEFINE n == Len(list)
  <2>1. n \in Nat /\ list' \in Seq(Item) /\ Len(list') = n + 1
    OBVIOUS
  <2>2. \A i \in 1 .. n : i \in 1 .. n + 1 /\ ItemError(list', i, Command) = ItemError(list, i, Command)
    BY <2>1, FaultsStay
  <2>3. CASE n + 1 > MaxEvidence
    BY <2>1, <2>3, ListFault
  <2>4. CASE n + 1 <= MaxEvidence
    <3> DEFINE faulty == {i \in 1 .. n : ItemError(list, i, Command) # "ok"}
    <3>1. CASE faulty = {}
      BY <2>1, <2>4, <3>1, ListFault, DomainAssumption
    <3>2. CASE faulty # {}
      <4>1. PICK k \in faulty : \A i \in faulty : k <= i
        <5>1. faulty \in SUBSET Nat
          OBVIOUS
        <5> HIDE DEF faulty
        <5> QED BY <3>2, <5>1, LeastNatural
      <4>2. \A i \in 1 .. n : i < k => ItemError(list, i, Command) = "ok"
        BY <4>1
      <4>3. error = ItemError(list, k, Command)
        BY <2>1, <2>4, <4>2, ListFault, DomainAssumption
      <4>4. \A i \in 1 .. n + 1 : i < k => ItemError(list', i, Command) = "ok"
        BY <2>1, <2>2, <4>1, <4>2
      <4>5. error' = ItemError(list', k, Command)
        BY <2>1, <2>2, <2>4, <4>4, ListFault
      <4> QED BY <2>2, <4>3, <4>5
    <3> QED BY <3>1, <3>2
  <2> QED BY <2>1, <2>3, <2>4, DomainAssumption
<1>2. Reported <=> LET e == EvidenceListError(list, Command)
                    IN  e \notin {"ok", "missing_log_evidence", "missing_diagnostic_evidence"}
                          => EvidenceListError(list', Command) \in {e, "too_many_evidence"}
  OBVIOUS
<1> HIDE DEF Reported
<1> QED BY <1>1, <1>2, ListHolds, PTL DEF FirstFaultIsReported, Spec

-----------------------------------------------------------------------------
\* The normal form.

\* Records as the request may list them: no id twice, and one of the two kinds.
Distinct(records, n) ==
    /\ n \in Nat /\ DOMAIN records = 1 .. n
    /\ \A i \in 1 .. n : records[i] \in Item
    /\ \A i, j \in 1 .. n : records[i].id = records[j].id => i = j

\* Of two records with different ids one comes before the other, not both.
LEMMA BeforeIsTotal ==
    /\ \A x \in Item : ~Before(x, x)
    /\ \A x, y \in Item : /\ x.id # y.id => Before(x, y) \/ Before(y, x)
                          /\ Before(x, y) => ~Before(y, x)
    /\ \A x, y, z \in Item : Before(x, y) /\ Before(y, z) => Before(x, z)
<1>1. \A x \in Item : x.id \in Nat /\ (x.kind = "log" \/ x.kind = "diagnostic")
  BY RulesAssumption DEF EvidenceKinds
<1>2. \A x, y \in Item : Before(x, y) <=> \/ x.kind = "log" /\ y.kind = "diagnostic"
                                          \/ x.kind = y.kind /\ x.id < y.id
  BY DEF Before
<1>3. \A x \in Item : ~Before(x, x)
  BY <1>1, <1>2
<1>4. \A x, y \in Item : /\ x.id # y.id => Before(x, y) \/ Before(y, x)
                         /\ Before(x, y) => ~Before(y, x)
  BY <1>1, <1>2
<1>5. \A x, y, z \in Item : Before(x, y) /\ Before(y, z) => Before(x, z)
  BY <1>1, <1>2
<1> QED BY <1>3, <1>4, <1>5

\* The records that come before one of the list, by their positions.
Earlier(records, i) == {j \in DOMAIN records : Before(records[j], records[i])}

\* They are some of the list, and more for a later record.
LEMMA EarlierGrows ==
    ASSUME NEW records, NEW n, Distinct(records, n), NEW i \in 1 .. n
    PROVE  /\ IsFiniteSet(Earlier(records, i)) /\ Cardinality(Earlier(records, i)) \in 0 .. n - 1
           /\ \A j \in 1 .. n : Before(records[i], records[j]) =>
                Cardinality(Earlier(records, i)) < Cardinality(Earlier(records, j))
<1> DEFINE E(k) == Earlier(records, k)
<1>1. \A k \in 1 .. n : E(k) \subseteq (1 .. n) \ {k}
  BY BeforeIsTotal DEF Distinct, Earlier
<1>2. /\ IsFiniteSet(1 .. n) /\ Cardinality(1 .. n) = n
      /\ \A k \in 1 .. n : IsFiniteSet((1 .. n) \ {k}) /\ Cardinality((1 .. n) \ {k}) = n - 1
  <2>1. IsFiniteSet(1 .. n) /\ Cardinality(1 .. n) = n
    BY FS_Interval DEF Distinct
  <2> QED BY <2>1, FS_RemoveElement
<1> HIDE DEF E
<1>3. \A k \in 1 .. n : IsFiniteSet(E(k)) /\ Cardinality(E(k)) \in Nat /\ Cardinality(E(k)) <= n - 1
  BY <1>1, <1>2, FS_Subset, FS_CardinalityType
<1>4. ASSUME NEW j \in 1 .. n, Before(records[i], records[j])
      PROVE  Cardinality(E(i)) < Cardinality(E(j))
  <2>1. E(i) \subseteq E(j)
    BY <1>4, BeforeIsTotal DEF E, Earlier, Distinct
  <2>2. i \in E(j) /\ i \notin E(i)
    BY <1>4, BeforeIsTotal DEF E, Earlier, Distinct
  <2>3. Cardinality(E(i)) <= Cardinality(E(j)) /\ Cardinality(E(i)) # Cardinality(E(j))
    BY <1>3, <2>1, <2>2, FS_Subset
  <2> QED BY <1>3, <2>3
<1>5. Cardinality(E(i)) \in 0 .. n - 1
  BY <1>3 DEF Distinct
<1> QED BY <1>3, <1>4, <1>5 DEF E

\* Distinct records can be put in order: each goes behind those before it.
LEMMA OrderExists ==
    ASSUME NEW records, NEW n, Distinct(records, n)
    PROVE  \E order \in Orders(records) : Sorts(order, records)
<1> DEFINE rank == [i \in 1 .. n |-> Cardinality(Earlier(records, i)) + 1]
           order == [k \in 1 .. n |-> CHOOSE i \in 1 .. n : rank[i] = k]
<1>1. n \in Nat /\ DOMAIN records = 1 .. n
  BY DEF Distinct
<1>2. \A i, j \in 1 .. n : Before(records[i], records[j]) => rank[i] < rank[j]
  BY EarlierGrows
<1>3. rank \in [1 .. n -> 1 .. n]
  BY <1>1, EarlierGrows
<1> HIDE DEF rank
<1>4. \A i, j \in 1 .. n : i # j => Before(records[i], records[j]) \/ Before(records[j], records[i])
  BY BeforeIsTotal DEF Distinct
<1>5. \A i, j \in 1 .. n : rank[i] = rank[j] => i = j
  BY <1>2, <1>3, <1>4
<1>6. rank \in Surjection(1 .. n, 1 .. n)
  <2>1. rank \in Injection(1 .. n, 1 .. n)
    BY <1>3, <1>5, Fun_IsInj
  <2>2. IsFiniteSet(1 .. n)
    BY <1>1, FS_Interval
  <2> QED BY <2>1, <2>2, FS_Injection
<1>7. \A k \in 1 .. n : \E i \in 1 .. n : rank[i] = k
  BY <1>6 DEF Surjection
<1>8. order \in [1 .. n -> 1 .. n] /\ \A k \in 1 .. n : rank[order[k]] = k
  BY <1>7
<1>9. \A i \in 1 .. n : order[rank[i]] = i
  BY <1>3, <1>5, <1>8
<1> HIDE DEF order
<1>10. order \in Orders(records)
  <2>1. \A a, b \in 1 .. n : order[a] = order[b] => a = b
    BY <1>8
  <2>2. \A i \in 1 .. n : \E k \in 1 .. n : order[k] = i
    BY <1>3, <1>9
  <2> QED BY <1>1, <1>8, <2>1, <2>2, Fun_IsBij DEF Orders
<1>11. Sorts(order, records)
  <2> SUFFICES ASSUME NEW i \in 1 .. n, NEW j \in 1 .. n, i < j,
                      Before(records[order[j]], records[order[i]])
               PROVE  FALSE
    BY <1>1 DEF Sorts
  <2>1. rank[order[j]] < rank[order[i]]
    BY <1>2, <1>8
  <2> QED BY <1>8, <2>1
<1> QED BY <1>10, <1>11

\* A sorted arrangement of a list with distinct ids.
Arranges(sorted, records, n) ==
    /\ Distinct(sorted, n)
    /\ {sorted[i] : i \in 1 .. n} = {records[i] : i \in 1 .. n}
    /\ \A i, j \in 1 .. n : i < j => Before(sorted[i], sorted[j])

\* A set of records has one sorted arrangement: two would differ first at some
\* position, and each record there comes after the other.
LEMMA ArrangementIsUnique ==
    ASSUME NEW records, NEW n, NEW left, NEW right,
           Arranges(left, records, n), Arranges(right, records, n)
    PROVE  \A i \in 1 .. n : left[i] = right[i]
<1> DEFINE differ == {i \in 1 .. n : left[i] # right[i]}
<1>1. n \in Nat /\ \A i \in 1 .. n : left[i] \in Item /\ right[i] \in Item
  BY DEF Arranges, Distinct
<1>2. /\ \A k \in 1 .. n : \E j \in 1 .. n : right[j] = left[k]
      /\ \A k \in 1 .. n : \E j \in 1 .. n : left[j] = right[k]
  BY DEF Arranges
<1>3. /\ \A j, k \in 1 .. n : left[j] = left[k] => j = k
      /\ \A j, k \in 1 .. n : right[j] = right[k] => j = k
  BY DEF Arranges, Distinct
<1> SUFFICES ASSUME differ # {} PROVE FALSE
  OBVIOUS
<1>4. PICK i \in differ : \A j \in differ : i <= j
  <2>1. differ \in SUBSET Nat
    OBVIOUS
  <2> HIDE DEF differ
  <2> QED BY <2>1, LeastNatural
<1>5. i \in 1 .. n /\ left[i] # right[i] /\ \A j \in 1 .. n : j < i => left[j] = right[j]
  BY <1>4
<1>6. PICK j \in 1 .. n : right[j] = left[i]
  BY <1>2, <1>5
<1>7. PICK k \in 1 .. n : left[k] = right[i]
  BY <1>2, <1>5
<1>8. i < j
  <2>1. j # i /\ (j < i => left[j] = left[i])
    BY <1>5, <1>6
  <2> QED BY <1>1, <1>3, <1>5, <2>1
<1>9. i < k
  <2>1. k # i /\ (k < i => right[k] = right[i])
    BY <1>5, <1>7
  <2> QED BY <1>1, <1>3, <1>5, <2>1
<1>10. Before(right[i], left[i]) /\ Before(left[i], right[i])
  BY <1>5, <1>6, <1>7, <1>8, <1>9 DEF Arranges
<1> QED BY <1>1, <1>5, <1>10, BeforeIsTotal

\* A reordering holds the same records, none of them twice.
LEMMA ReorderingIsDistinct ==
    ASSUME NEW records, NEW n, Distinct(records, n), NEW order \in Orders(records)
    PROVE  /\ Distinct(Reordered(records, order), n)
           /\ {Reordered(records, order)[i] : i \in 1 .. n} = {records[i] : i \in 1 .. n}
<1>1. /\ n \in Nat /\ DOMAIN records = 1 .. n
      /\ order \in [1 .. n -> 1 .. n]
      /\ \A i, j \in 1 .. n : order[i] = order[j] => i = j
      /\ \A i \in 1 .. n : \E k \in 1 .. n : order[k] = i
  BY DEF Distinct, Orders, Bijection, Injection, IsInjective, Surjection
<1>2. /\ DOMAIN Reordered(records, order) = 1 .. n
      /\ \A i \in 1 .. n : Reordered(records, order)[i] = records[order[i]]
  BY <1>1 DEF Reordered
<1>3. Distinct(Reordered(records, order), n)
  <2>1. \A i, j \in 1 .. n : Reordered(records, order)[i].id = Reordered(records, order)[j].id => i = j
    <3> SUFFICES ASSUME NEW i \in 1 .. n, NEW j \in 1 .. n,
                        records[order[i]].id = records[order[j]].id
                 PROVE  i = j
      BY <1>2
    <3>1. order[i] \in 1 .. n /\ order[j] \in 1 .. n
      BY <1>1
    <3>2. order[i] = order[j]
      BY <3>1 DEF Distinct
    <3> QED BY <1>1, <3>2
  <2>2. \A i \in 1 .. n : Reordered(records, order)[i] \in Item
    BY <1>1, <1>2 DEF Distinct
  <2> QED BY <1>1, <1>2, <2>1, <2>2 DEF Distinct
<1>4. {Reordered(records, order)[i] : i \in 1 .. n} = {records[i] : i \in 1 .. n}
  BY <1>1, <1>2
<1> QED BY <1>3, <1>4

\* The normal form is the sorted arrangement.
LEMMA NormalizedArranges ==
    ASSUME NEW records, NEW n, Distinct(records, n)
    PROVE  Arranges(Normalized(records), records, n)
<1> DEFINE order == CHOOSE order \in Orders(records) : Sorts(order, records)
           sorted == Reordered(records, order)
<1>1. order \in Orders(records) /\ Sorts(order, records)
  BY OrderExists
<1>2. Normalized(records) = sorted
  BY DEF Normalized
<1> HIDE DEF order
<1>3. /\ Distinct(sorted, n)
      /\ {sorted[i] : i \in 1 .. n} = {records[i] : i \in 1 .. n}
  BY <1>1, ReorderingIsDistinct
<1>4. \A i, j \in 1 .. n : i < j => Before(sorted[i], sorted[j])
  <2> SUFFICES ASSUME NEW i \in 1 .. n, NEW j \in 1 .. n, i < j
               PROVE  Before(sorted[i], sorted[j])
    OBVIOUS
  <2>1. /\ sorted[i] \in Item /\ sorted[j] \in Item /\ sorted[i].id # sorted[j].id
    BY <1>3 DEF Distinct
  <2>2. ~Before(sorted[j], sorted[i])
    BY <1>1 DEF Sorts, Distinct, Reordered
  <2> QED BY <2>1, <2>2, BeforeIsTotal
<1> QED BY <1>2, <1>3, <1>4 DEF Arranges

\* The order of the references in a request decides nothing: every reordering
\* of an accepted list is accepted and stored in the same normal form.
THEOREM OrderIsForgotten == Spec => []OrderDecidesNothing
<1>1. TypeOK => OrderDecidesNothing
  <2> SUFFICES ASSUME TypeOK, Accepted(list), NEW order \in Orders(list)
               PROVE  /\ Accepted(Reordered(list, order))
                      /\ Normalized(Reordered(list, order)) = Normalized(list)
    BY DEF OrderDecidesNothing
  <2> DEFINE n == Len(list)
             other == Reordered(list, order)
  <2>1. n \in Nat /\ DOMAIN list = 1 .. n /\ \A i \in 1 .. n : list[i] \in Item
    BY DEF TypeOK
  <2>2. /\ \A i, j \in 1 .. n : list[i].id = list[j].id => i = j
        /\ EvidenceAccepted({list[i] : i \in 1 .. n}, Command)
    BY <2>1, ListAcceptedAsSet DEF Accepted, TypeOK
  <2>3. Distinct(list, n)
    BY <2>1, <2>2 DEF Distinct
  <2> HIDE DEF n
  <2>4. Distinct(other, n) /\ {other[i] : i \in 1 .. n} = {list[i] : i \in 1 .. n}
    BY <2>3, ReorderingIsDistinct
  <2> HIDE DEF other
  <2>5. Accepted(other)
    <3>1. other \in Seq(Item) /\ DOMAIN other = 1 .. n
      <4>1. other = [i \in 1 .. n |-> other[i]]
        BY <2>1 DEF other, Reordered
      <4> QED BY <2>4, <4>1 DEF Distinct
    <3>2. \A i, j \in DOMAIN other : other[i].id = other[j].id => i = j
      BY <2>4, <3>1 DEF Distinct
    <3>3. EvidenceAccepted({other[i] : i \in DOMAIN other}, Command)
      BY <2>2, <2>4, <3>1
    <3> QED BY <3>1, <3>2, <3>3, ListAcceptedAsSet DEF Accepted
  <2>6. /\ Arranges(Normalized(list), list, n) /\ Arranges(Normalized(other), list, n)
    BY <2>3, <2>4, NormalizedArranges DEF Arranges
  <2>7. \A i \in 1 .. n : Normalized(other)[i] = Normalized(list)[i]
    BY <2>6, ArrangementIsUnique
  <2>8. /\ Normalized(other) = [i \in 1 .. n |-> Normalized(other)[i]]
        /\ Normalized(list) = [i \in 1 .. n |-> Normalized(list)[i]]
    <3>1. DOMAIN list = 1 .. n /\ DOMAIN other = 1 .. n
      BY <2>3, <2>4 DEF Distinct
    <3>2. \A records : Normalized(records)
                         = [i \in DOMAIN records |-> Normalized(records)[i]]
      <4>1. \A records, o : Reordered(records, o)
                              = [i \in DOMAIN records |-> Reordered(records, o)[i]]
        BY DEF Reordered
      <4> QED BY <4>1 DEF Normalized
    <3>3. /\ Normalized(other) = [i \in DOMAIN other |-> Normalized(other)[i]]
          /\ Normalized(list) = [i \in DOMAIN list |-> Normalized(list)[i]]
      BY <3>2
    <3> QED BY <3>1, <3>3
  <2>9. Normalized(other) = Normalized(list)
    BY <2>7, <2>8
  <2> QED BY <2>5, <2>9 DEF other
<1> QED BY <1>1, ListHolds, PTL
=============================================================================
