---------------------------- MODULE EvidenceRules ----------------------------
(***************************************************************************)
(* RecoveryEvidenceSet::try_new on a list that grows one record at a time, *)
(* and the normal form it stores.  RecoveryStore treats accepted evidence  *)
(* as a set and load_plan reads the records back in another order than the *)
(* request named them: both are sound only if the verdict and the normal   *)
(* form ignore the order of the list.                                      *)
(***************************************************************************)
EXTENDS RecoveryDomain, Functions

CONSTANTS
    Ids,        \* evidence ids, ordered: natural numbers
    Command,    \* the facts of the command the list is checked against
    Item        \* the records that may be listed

ASSUME RulesAssumption ==
    Ids \subseteq Nat /\ \A item \in Item : item.id \in Ids /\ item.kind \in EvidenceKinds

VARIABLE list

Init == list = <<>>

\* The next reference of the request resolves to one more record.
AddRecord(item) ==
    /\ Len(list) <= MaxEvidence
    /\ list' = Append(list, item)

Next == \E item \in Item : AddRecord(item)

Spec == Init /\ [][Next]_list

-----------------------------------------------------------------------------
\* The order records are stored and digested in: by kind, logs first, then id.
\* Mutated form: records of one kind keep the order of the request.
Before_KindOnly(left, right) ==
    left.kind = "log" /\ right.kind = "diagnostic"
Before(left, right) ==
    \/ left.kind = "log" /\ right.kind = "diagnostic"
    \/ left.kind = right.kind /\ left.id < right.id
Orders(records) == Bijection(DOMAIN records, DOMAIN records)
Reordered(records, order) == [i \in DOMAIN records |-> records[order[i]]]
Sorts(order, records) ==
    \A i, j \in DOMAIN records : i < j => ~Before(records[order[j]], records[order[i]])
Normalized(records) ==
    Reordered(records, CHOOSE order \in Orders(records) : Sorts(order, records))

Accepted(records) == EvidenceListError(records, Command) = "ok"
Records == {list[i] : i \in DOMAIN list}

-----------------------------------------------------------------------------
\* A list is accepted exactly when its ids are distinct and the set of its
\* records passes the rules load_plan repeats: a stored plan loads again.
AcceptedAsSet ==
    Accepted(list) <=>
        /\ \A i, j \in DOMAIN list : list[i].id = list[j].id => i = j
        /\ EvidenceAccepted(Records, Command)

\* The order of the references in a request decides nothing: every reordering
\* of an accepted list is accepted and stored in the same normal form.
OrderDecidesNothing ==
    Accepted(list) =>
        \A other \in {Reordered(list, order) : order \in Orders(list)} :
            Accepted(other) /\ Normalized(other) = Normalized(list)

\* A list refused for a record it holds stays refused for that reason when
\* more records follow, unless it grows too long: the first fault is reported.
FirstFaultIsReported ==
    [][LET error == EvidenceListError(list, Command)
       IN  error \notin {"ok", "missing_log_evidence", "missing_diagnostic_evidence"}
             => EvidenceListError(list', Command) \in {error, "too_many_evidence"}]_list
=============================================================================
