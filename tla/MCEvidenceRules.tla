--------------------------- MODULE MCEvidenceRules ---------------------------
(***************************************************************************)
(* A small instance of EvidenceRules: two good logs, two good diagnostics, *)
(* one of them with the id of a log, and a record with each single fault.  *)
(***************************************************************************)
EXTENDS EvidenceRules

MCCommand ==
    [session |-> "s1", service |-> "checkout-api", expected |-> "release_284",
     generation |-> 1]

Log(id) ==
    [id |-> id, kind |-> "log", session |-> "s1", service |-> "checkout-api",
     release |-> "release_284", generation |-> 1, status |-> "none",
     code |-> "DB_AUTH_METHOD_MISMATCH"]
Diagnostic(id) == [Log(id) EXCEPT !.kind = "diagnostic", !.status = "failed"]

MCItem ==
    {Log(1), Log(2), Diagnostic(2), Diagnostic(3),
     [Log(2) EXCEPT !.code = "OTHER"], [Diagnostic(3) EXCEPT !.status = "passed"],
     [Log(2) EXCEPT !.session = "s2"], [Diagnostic(3) EXCEPT !.release = "release_283"],
     [Log(1) EXCEPT !.service = "other"], [Log(1) EXCEPT !.generation = 2]}
=============================================================================
