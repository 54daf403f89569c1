---------------------------- MODULE WebMcpRegistry ----------------------------
(***************************************************************************)
(* The registry of the control room (lib/webmcp/registry.ts) over the      *)
(* browser's model context.  Both of its maps are keyed by tool name and   *)
(* no operation reads another name's entry, so one name stands for each:   *)
(* the dynamic tool, execute_approved_recovery.                            *)
(*                                                                         *)
(* An operation is an operator from the registry's state to the next one,  *)
(* since a caller makes several within one task.  The microtasks a task    *)
(* queues run in their order when it ends, before the browser's next task, *)
(* and queue no other: Drained is the state that task leaves.              *)
(***************************************************************************)
EXTENDS Naturals, Sequences

CONSTANTS
    Registrations,    \* ids of registerTool calls; one is used again when over
    NoRegistration,   \* the name has no entry in #registrations
    NoBinding         \* what a registration that is over is bound to

ASSUME RegistryAssumption == NoRegistration \notin Registrations

VARIABLE registry

\* A call of registerTool: the browser's promise, the abort signal, the
\* fingerprint it was made under and the plan its handler closed over.
Call(promise, aborted, definition, bound) ==
    [promise |-> promise, aborted |-> aborted, definition |-> definition, bound |-> bound]
Over == Call("none", TRUE, NoBinding, NoBinding)

EmptyRegistry ==
    [entry |-> NoRegistration,   \* #registrations
     cleanup |-> FALSE,          \* #cleanupTokens holds the newest token
     native |-> [i \in Registrations |-> Over],
     microtasks |-> << >>]       \* queued cleanups and rejections

Offered(g) ==
    {i \in Registrations : g.native[i].promise = "fulfilled" /\ ~g.native[i].aborted}

\* Only the newest token of a name is ever found again: a cleanup queued under
\* an older one finds another token, or none, and does nothing.
\* Mutated form: register leaves the token of the name.
Superseded_Kept(g) == g
Superseded(g) ==
    [g EXCEPT !.cleanup = FALSE,
              !.microtasks = [k \in DOMAIN @ |-> [@[k] EXCEPT !.current = FALSE]]]

\* A call whose signal is aborted is over once its promise is settled.
Abort(g, i) ==
    IF i = NoRegistration THEN g
    ELSE [g EXCEPT !.native[i] =
            IF @.promise = "pending" THEN Call("pending", TRUE, NoBinding, NoBinding) ELSE Over]

-----------------------------------------------------------------------------
\* register: an entry of the same fingerprint is kept with its handler, any
\* other one is aborted and replaced.

Kept(g, definition) ==
    g.entry # NoRegistration /\ g.native[g.entry].definition = definition

Replaced(g) == Abort(Superseded(g), g.entry)

Registered(g, definition, bound) ==
    IF Kept(g, definition) THEN Superseded(g)
    ELSE LET i == CHOOSE x \in Registrations : Replaced(g).native[x] = Over
         IN  [Replaced(g) EXCEPT !.entry = i,
                                 !.native[i] = Call("pending", FALSE, definition, bound)]

CanRegister(g, definition) ==
    Kept(g, definition) \/ \E i \in Registrations : Replaced(g).native[i] = Over

\* unregister: the entry goes in a microtask, unless a register comes first.
Unregistered(g) ==
    IF g.entry = NoRegistration THEN g
    ELSE [Superseded(g) EXCEPT
            !.cleanup = TRUE,
            !.microtasks = Append(@, [kind |-> "cleanup", of |-> g.entry, current |-> TRUE])]

Disposed(g) == [Abort(Superseded(g), g.entry) EXCEPT !.entry = NoRegistration]

-----------------------------------------------------------------------------
\* Microtasks.

Cleaned(g, task) ==
    IF ~task.current THEN g
    ELSE [Abort(g, task.of) EXCEPT
            !.cleanup = FALSE,
            !.entry = IF @ = task.of THEN NoRegistration ELSE @]

\* The catch of register deletes the entry only when it is still its own.
\* Mutated form: whatever entry the name has now is deleted.
Rejected_AnyEntry(g, task) == [Abort(g, task.of) EXCEPT !.entry = NoRegistration]
Rejected(g, task) ==
    [Abort(g, task.of) EXCEPT !.entry = IF @ = task.of THEN NoRegistration ELSE @]

Run(g, task) == IF task.kind = "cleanup" THEN Cleaned(g, task) ELSE Rejected(g, task)

Drained(g) ==
    LET queue == g.microtasks
        after[n \in 0..Len(queue)] ==
            IF n = 0 THEN [g EXCEPT !.microtasks = << >>] ELSE Run(after[n - 1], queue[n])
    IN  after[Len(queue)]

\* The browser settles the promise of registerTool, in a task of its own.
Fulfill(i) ==
    /\ registry.native[i].promise = "pending"
    /\ registry' = [registry EXCEPT !.native[i] =
                      IF @.aborted THEN Over ELSE [@ EXCEPT !.promise = "fulfilled"]]

Decline(i) ==
    /\ registry.native[i].promise = "pending"
    /\ registry' = Drained([registry EXCEPT
         !.native[i].promise = "rejected",
         !.microtasks = Append(@, [kind |-> "rejected", of |-> i, current |-> FALSE])])

Settle(i) == Fulfill(i) \/ Decline(i)
=============================================================================
