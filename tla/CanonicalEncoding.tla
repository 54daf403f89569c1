-------------------------- MODULE CanonicalEncoding --------------------------
(***************************************************************************)
(* The byte string a fingerprint digests: CanonicalEncoder pushes every    *)
(* field of the plan, and of each of its evidence records, behind its      *)
(* length.  RecoveryDomain identifies a fingerprint with the facts it      *)
(* digests: that needs two plans with one encoding to agree on all facts.  *)
(* SHA-256 itself is taken to be free of collisions.                       *)
(***************************************************************************)
EXTENDS Naturals, Sequences, SequencesExt

CONSTANTS
    Bytes,      \* the bytes a field may hold, lengths among them
    MaxField,   \* bound: bytes of a field
    MaxFields   \* bound: fields of an encoding

ASSUME EncodingAssumption ==
    Bytes \subseteq Nat /\ MaxField \in Nat /\ MaxFields \in Nat

VARIABLES
    fields,     \* the fields pushed so far
    bytes       \* the encoder's buffer

Field == BoundedSeq(Bytes, MaxField)

Init == fields = <<>> /\ bytes = <<>>

\* Mutated form: the value without its length.
Framed_Bare(value) == value
Framed(value) == <<Len(value)>> \o value

Push(value) ==
    /\ Len(fields) < MaxFields
    /\ fields' = Append(fields, value)
    /\ bytes' = bytes \o Framed(value)

Next == \E value \in Field : Push(value)

Spec == Init /\ [][Next]_<<fields, bytes>>

-----------------------------------------------------------------------------
\* No other list of fields has these bytes: text cannot be moved between a
\* reason, an id and a release without changing the fingerprint a human approves.
EncodingIsUnambiguous ==
    \A other \in BoundedSeq(Field, MaxFields) :
        FlattenSeq([i \in DOMAIN other |-> Framed(other[i])]) = bytes => other = fields
=============================================================================
