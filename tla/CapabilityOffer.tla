---------------------------- MODULE CapabilityOffer ----------------------------
(***************************************************************************)
(* What the control room promises of the execution tool, without promises, *)
(* microtasks or effects: between tasks the browser offers the tool of the *)
(* plan it was last asked to offer, or none, and a tool that is on offer   *)
(* stays until the page asks for another one or dismisses it.              *)
(***************************************************************************)
CONSTANTS
    Plans,
    NoPlan    \* no plan's tool; not one of Plans

VARIABLES
    wanted,   \* the plan whose tool the page asked for last, or NoPlan
    offered   \* the plans an agent finds a tool for

vars == <<wanted, offered>>

Init == wanted = NoPlan /\ offered = {}

\* A tool of another plan is gone at once, one of the same plan stays.
Ask(p) == wanted' = p /\ offered' = offered \cap {p}

Dismiss == wanted' = NoPlan /\ offered' = {}

\* The browser takes the tool up some time after it was asked, or never.
Appear ==
    /\ wanted # NoPlan
    /\ offered' = {wanted}
    /\ UNCHANGED wanted

Next == (\E p \in Plans : Ask(p)) \/ Dismiss \/ Appear

Spec == Init /\ [][Next]_vars
=============================================================================
