------------------------------ MODULE ControlRoom ------------------------------
(***************************************************************************)
(* One page of the control room (components/control-room.tsx, lib/api.ts)  *)
(* with its registry, in front of a server that keeps the recovery rules   *)
(* RecoveryStore models in full.  The page's functions are asynchronous:   *)
(* each is a call that sends a command, asks for the recovery state when   *)
(* the command is answered, and applies the answer to the page.  Answers   *)
(* come late, out of order, or never.  A task of the browser is one step,  *)
(* with the microtasks it queues.                                          *)
(***************************************************************************)
EXTENDS WebMcpRegistry, FiniteSets, Bags, BagsExt

CONSTANTS
    MaxPlans,      \* bound: plans prepared, numbered in their order
    MaxSessions,   \* bound: sessions created
    MaxCalls       \* bound: asynchronous calls in progress at once

Plans == 1..MaxPlans
NoPlan == 0
NoSession == 0

ASSUME ControlRoomAssumption ==
    /\ MaxPlans \in Nat /\ MaxSessions \in Nat /\ MaxCalls \in Nat
    /\ NoBinding = NoPlan

VARIABLES
    server,       \* the newest session, its incident, the plan current_recovery
                  \* finds in it, every plan's status and the plans the audit trail
                  \* has a human approval of
    cookie,       \* the session the browser's cookie names
    due,          \* plans past expiresAt on the browser's clock
    view,         \* plan and executionCapability, as last applied
    calls,        \* the calls in progress, a bag
    dirty,        \* the capability was set and its effect has not run again
    effect,       \* the plan the current effect closed over, or NoPlan
    armed,        \* its expiry timer has not fired
    asked         \* history: the plan whose tool the page asked for last

pageVars == <<view, calls, dirty, effect, armed, asked>>
vars == <<server, cookie, due, registry, pageVars>>

-----------------------------------------------------------------------------
\* The server: what the store's transactions make of a plan, seen through the
\* endpoints of one browser.  Only the newest session takes requests, and its
\* plans are those not "closed".

Active == {p \in Plans : server.status[p] \in {"prepared", "approved"}}

\* What the page can act on: the plan of the session with the newest instant,
\* while it can be decided or executed.  A finished one is shown with no button
\* and no capability.
NothingShown == [plan |-> NoPlan, status |-> "none"]
CurrentRecovery ==
    IF server.newest \in Active
    THEN [plan |-> server.newest, status |-> server.status[server.newest]]
    ELSE NothingShown

\* The plan a capability is bound to; only an approved plan has one.
\* Mutated form: a plan still to be approved has one too.
Capability_Prepared(shown) ==
    IF shown.status \in {"prepared", "approved"} THEN shown.plan ELSE NoPlan
Capability(shown) == IF shown.status = "approved" THEN shown.plan ELSE NoPlan

\* What each command is accepted for, and what it makes of the server.
Known == cookie # NoSession /\ cookie = server.session

\* A preparation reads its instant before it waits for the writer: that of an
\* earlier plan of the session may still be the newest.
NextPlan == {p \in Plans : \A q \in Plans : server.status[q] = "none" <=> q >= p}
Prepared(p) ==
    \E newest \in {p} \cup ({server.newest} \ {NoPlan}) :
        server' = [server EXCEPT !.status[p] = "prepared", !.newest = newest]

\* Mutated forms: an active plan, or a resolved incident, does not keep another
\* plan from being prepared.
Prepare_Beside == Known /\ server.incident = "active" /\ \E p \in NextPlan : Prepared(p)
Prepare_Resolved == Known /\ Active = {} /\ \E p \in NextPlan : Prepared(p)
Prepare ==
    /\ Known /\ server.incident = "active" /\ Active = {}
    /\ \E p \in NextPlan : Prepared(p)

Approve(p) ==
    /\ Known /\ p \in Active
    /\ server' = [server EXCEPT !.status[p] = "approved", !.approvals = @ \cup {p}]

RejectOrRevoke(p) ==
    /\ Known /\ p \in Active
    /\ server' = [server EXCEPT !.status[p] = "closed"]

\* A rejection of a plan already rejected and the verification of the executed
\* one change nothing the page shows; which of its plans a session closed by a
\* rejection is not kept.
RejectAgain(p) == Known /\ server.status[p] = "closed" /\ UNCHANGED server
Verify == Known /\ server.incident = "resolved" /\ UNCHANGED server

Execute(p) ==
    /\ Known /\ server.status[p] = "approved"
    /\ server' = [server EXCEPT !.status[p] = "closed", !.incident = "resolved"]

\* A new session; a reset invalidates what the session it replaces had active.
OpenSession ==
    /\ server.session < MaxSessions
    /\ server' = [server EXCEPT !.session = @ + 1, !.incident = "active", !.newest = NoPlan,
                    !.status = [p \in Plans |-> IF p \in Active THEN "closed" ELSE @[p]]]

\* The server's clock reaches the deadline of a plan still to be used: from
\* then on every transaction finds it expired.
ServerPassesDeadline(p) ==
    /\ p \in Active
    /\ server' = [server EXCEPT !.status[p] = "closed"]
    /\ UNCHANGED <<cookie, due, registry, pageVars>>

\* Deadlines need not come in the order the plans were committed in.
BrowserPassesDeadline(p) ==
    /\ server.status[p] # "none" /\ p \notin due
    /\ due' = due \cup {p}
    /\ UNCHANGED <<server, cookie, registry, pageVars>>

-----------------------------------------------------------------------------
\* The page's asynchronous calls.

\* The initial load and a reset, sent with the cookie of that moment; a reset
\* whose page is gone is deaf to its answer.
Sent(call) == [at |-> "sent", call |-> call, session |-> cookie, deaf |-> FALSE]

\* Any command answered; `named' is the session the answer's cookie names.
Answered(named) == [at |-> "answered", session |-> named]

\* refreshRecoveryState: sessionEpochRef only ever moves on, so of the epoch of
\* the sending it is enough to know whether it is still the current one.  A
\* request taken by the server later than it is sent reads what one sent later
\* reads, or is of an older epoch or of a revoked session: it is read as it is
\* sent.
Loaded(call, shown) == [at |-> "loaded", call |-> call, shown |-> shown]

Calls == BagToSet(calls)
CanCall == BagCardinality(calls) < MaxCalls
Starts(call) == CanCall /\ calls' = BagAdd(calls, call)
Becomes(call, next) == calls' = BagAdd(BagRemove(calls, call), next)
Ends(call) == calls' = BagRemove(calls, call)

Init ==
    /\ server = [session |-> NoSession, incident |-> "active", newest |-> NoPlan,
                 approvals |-> {},
                 status |-> [p \in Plans |-> "none"]]
    /\ cookie = NoSession
    /\ due = {}
    /\ registry = EmptyRegistry
    /\ view = NothingShown
    /\ calls = SetToBag({Sent("initial")})
    /\ dirty = TRUE
    /\ effect = NoPlan
    /\ armed = FALSE
    /\ asked = NoPlan

\* A command about a plan names it and its session, so that it is refused when
\* it comes too late: the server takes it as it is sent, or never.
Command(taken) ==
    /\ taken
    /\ Starts(Answered(NoSession))
    /\ UNCHANGED <<cookie, due, registry, view, dirty, effect, armed, asked>>

\* approvePlan and rejectPlan act on the plan that is shown.  prepareRecovery,
\* verifyRecovery and the execution tool are called by an agent, the last with the
\* plan its handler closed over: any other one is refused in the page.
BoundPlans == {registry.native[i].bound : i \in Offered(registry)}

ApprovePlan == view.status = "prepared" /\ Command(Approve(view.plan))
RejectPlan ==
    view.plan # NoPlan /\ Command(RejectOrRevoke(view.plan) \/ RejectAgain(view.plan))
PrepareRecovery == Command(Prepare)
VerifyRecovery == Command(Verify)
ExecuteRecovery == \E p \in BoundPlans : Command(Execute(p))

\* What a reset makes of an answer still to come: of an older epoch, it will be
\* dropped.  The initial load has no epoch.
Outdated(call) ==
    IF call.at = "loaded" /\ call.call = "refresh"
    THEN Loaded("outdated", NothingShown) ELSE call

\* resetDemo: the tool goes and the epoch moves before the command is sent.
ResetDemo ==
    /\ CanCall
    /\ calls' = BagAdd(BagOfAll(Outdated, calls), Sent("reset"))
    /\ registry' = Drained(Unregistered(registry))
    /\ asked' = NoPlan
    /\ UNCHANGED <<server, cookie, due, view, dirty, effect, armed>>

-----------------------------------------------------------------------------
\* The network.

\* createOrResumeSession is answered and the recovery state asked for.  Only
\* the cookie of a created session matters to anyone, so the server takes the
\* request as its answer is delivered.  The session the cookie names may have
\* expired by then: until it is replaced an expired session refuses every
\* request, and a call that is refused fails.
Create(call) ==
    /\ call.at = "sent" /\ call.call = "initial"
    /\ OpenSession
    /\ cookie' = server.session + 1
    /\ Becomes(call, Loaded("initial", NothingShown))
    /\ UNCHANGED <<due, registry, view, dirty, effect, armed, asked>>

Resume(call) ==
    /\ call.at = "sent" /\ call.call = "initial"
    /\ call.session # NoSession /\ call.session = server.session
    /\ Becomes(call, Loaded("initial", CurrentRecovery))
    /\ UNCHANGED <<server, cookie, due, registry, view, dirty, effect, armed, asked>>

\* The server takes a reset: the session is revoked and replaced.
ServeReset(call) ==
    /\ call.at = "sent" /\ call.call = "reset"
    /\ call.session # NoSession /\ call.session = server.session
    /\ OpenSession
    /\ IF call.deaf THEN Ends(call) ELSE Becomes(call, Answered(server.session + 1))
    /\ UNCHANGED <<cookie, due, registry, view, dirty, effect, armed, asked>>

\* An answer is delivered: its cookie is stored, the recovery state asked for.
Continue(call) ==
    /\ call.at = "answered"
    /\ cookie' = IF call.session = NoSession THEN cookie ELSE call.session
    /\ cookie' = server.session
    /\ Becomes(call, Loaded("refresh", CurrentRecovery))
    /\ UNCHANGED <<server, due, registry, view, dirty, effect, armed, asked>>

\* A call fails: refused by the server, or its request or its answer is lost.
Fail(call) ==
    /\ Ends(call)
    /\ UNCHANGED <<server, cookie, due, registry, view, dirty, effect, armed, asked>>

\* The recovery state is applied, unless a reset was clicked since it was asked
\* for; the initial load does not look.
Apply(call) ==
    /\ call.at = "loaded"
    /\ Ends(call)
    /\ IF call.call = "outdated" THEN UNCHANGED <<view, dirty>>
       ELSE view' = call.shown /\ dirty' = TRUE
    /\ UNCHANGED <<server, cookie, due, registry, effect, armed, asked>>

-----------------------------------------------------------------------------
\* The effect of the capability: its cleanup and its next run are one task.
\* Mutated forms: a static definition instead of the plan's fingerprint; a
\* timer that is not armed for a deadline already past.
Definition_Static(p) == "static"
Definition(p) == p
Arms_Ahead(p) == p \notin due
Arms(p) == TRUE

RunEffect ==
    LET p == Capability(view)
        cleaned == IF effect = NoPlan THEN registry ELSE Unregistered(registry)
    IN  /\ dirty
        /\ p # NoPlan => CanRegister(cleaned, Definition(p))
        /\ registry' = Drained(IF p = NoPlan THEN Unregistered(cleaned)
                               ELSE Registered(cleaned, Definition(p), p))
        /\ effect' = p
        /\ armed' = (p # NoPlan /\ Arms(p))
        /\ asked' = p
        /\ dirty' = FALSE
        /\ UNCHANGED <<server, cookie, due, view, calls>>

\* The expiry timer: the tool goes whether or not the refresh is answered.
\* Mutated form: the refresh is left to take it away.
TimerWithdraws_Refresh(g) == g
TimerWithdraws(g) == Unregistered(g)

ExpiryTimer ==
    /\ armed /\ effect \in due
    /\ armed' = FALSE
    /\ registry' = Drained(TimerWithdraws(registry))
    /\ asked' = NoPlan
    /\ \/ Known /\ Starts(Loaded("refresh", CurrentRecovery))
       \/ UNCHANGED calls    \* the refresh is never answered
    /\ UNCHANGED <<server, cookie, due, view, dirty, effect>>

\* The page goes and comes back with the cookie.  What it sent may still reach
\* the server, nothing comes back to it.
Orphaned == {[call EXCEPT !.deaf = TRUE] :
                call \in {c \in Calls : c.at = "sent" /\ c.call = "reset"}}

Reload ==
    /\ Cardinality(Orphaned) < MaxCalls
    /\ calls' = BagAdd(SetToBag(Orphaned), Sent("initial"))
    /\ registry' = Drained(Disposed(registry))
    /\ view' = NothingShown
    /\ dirty' = TRUE /\ effect' = NoPlan /\ armed' = FALSE /\ asked' = NoPlan
    /\ UNCHANGED <<server, cookie, due>>

SettleRegistration(i) == Settle(i) /\ UNCHANGED <<server, cookie, due, pageVars>>

Next ==
    \/ \E p \in Plans : ServerPassesDeadline(p) \/ BrowserPassesDeadline(p)
    \/ ApprovePlan \/ RejectPlan \/ PrepareRecovery \/ ExecuteRecovery \/ VerifyRecovery
    \/ ResetDemo \/ Reload
    \/ \E call \in Calls :
        \/ Create(call) \/ Resume(call) \/ ServeReset(call)
        \/ Continue(call) \/ Apply(call) \/ Fail(call)
    \/ RunEffect \/ ExpiryTimer
    \/ \E i \in Registrations : SettleRegistration(i)

\* A timer of the browser fires and the server's clock goes on.  Nobody has to
\* click, no agent to call, no request to be answered, no effect to be run and
\* no registration to be settled.
Fairness ==
    /\ WF_vars(ExpiryTimer)
    /\ \A p \in Plans : WF_vars(ServerPassesDeadline(p))

Spec == Init /\ [][Next]_vars /\ Fairness

-----------------------------------------------------------------------------
\* Properties.

\* What the page can be shown, and the calls in progress.
Views == {NothingShown} \cup [plan : Plans, status : {"prepared", "approved"}]
CallRecords ==
    [at : {"sent"}, call : {"initial", "reset"}, session : 0..MaxSessions, deaf : BOOLEAN]
      \cup [at : {"answered"}, session : 0..MaxSessions]
      \cup [at : {"loaded"}, call : {"initial", "refresh", "outdated"}, shown : Views]

TypeOK ==
    /\ server \in [session : 0..MaxSessions, incident : {"active", "resolved"},
                   newest : Plans \cup {NoPlan}, approvals : SUBSET Plans,
                   status : [Plans -> {"none", "prepared", "approved", "closed"}]]
    /\ \A p, q \in Active : p = q
    /\ cookie \in 0..MaxSessions /\ due \subseteq Plans
    /\ view \in Views /\ Calls \subseteq CallRecords
    /\ {dirty, armed} \subseteq BOOLEAN /\ {effect, asked} \subseteq Plans \cup {NoPlan}
    /\ registry.entry \in Registrations \cup {NoRegistration}

\* No registration the browser may still offer is out of the registry's reach,
\* whatever order registrations, cleanups and late rejections come in: the only
\* one not aborted is the entry, which unregister and dispose abort.
NoOrphanedTool ==
    \A i \in Registrations : ~registry.native[i].aborted => i = registry.entry

\* Between tasks, once the effect of the last capability has run, the tool an
\* agent finds is bound to the plan the page shows as approved: an equal
\* fingerprint may keep an old handler, but never one of another plan.
OfferIsShown ==
    ~dirty => BoundPlans \subseteq {Capability(view)}

\* Whatever answers were lost, late or out of order, an agent finds the tool of
\* a plan only after a human approved that plan on the server.
OfferWasApproved == BoundPlans \subseteq server.approvals

\* A tool the page offers between tasks has an expiry timer that will withdraw
\* it: no path keeps or renews the registration and loses the timer.
OfferHasTimer ==
    ~dirty => \A p \in BoundPlans : armed /\ effect = p

\* Once a plan is past its deadline its tool is withdrawn for good, though no
\* request is ever answered again, the page's answers come out of order, or the
\* browser's clock is ahead of the server's, which then gives the capability
\* back until its own clock reaches the deadline.
OverdueIsWithdrawn ==
    \A p \in Plans : (p \in due) ~> [](p \notin BoundPlans)

\* Once a plan is closed on the server, and neither the page nor an answer on
\* its way shows it as approved, its tool never comes back: not with a late
\* answer, a reload, a registration that settles or the tool of the next plan.
Forgotten(p) ==
    /\ server.status[p] = "closed" /\ asked # p /\ Capability(view) # p
    /\ \A call \in Calls : call.at = "loaded" => Capability(call.shown) # p
ForgottenForGood ==
    [][\A p \in Plans : Forgotten(p) => Forgotten(p)' /\ p \notin BoundPlans']_vars

\* The page, the registry and the browser together keep the promise of
\* CapabilityOffer: unregister followed by register in one task keeps the tool,
\* and unregister alone makes it vanish.
Offer == INSTANCE CapabilityOffer WITH wanted <- asked, offered <- BoundPlans
OfferImplemented == Offer!Spec

\* The server this module keeps has the lifecycle the transactions of
\* RecoveryStore have: both implement RecoveryAuthority.  A session's end, by a
\* reset or because no cookie names it any more, is a session opened in its
\* place.
AuthorityOf(s) ==
    IF s # server.session THEN "closed"
    ELSE IF Active = {} THEN "idle"
    ELSE IF \E p \in Active : server.status[p] = "approved" THEN "granted" ELSE "proposed"
OutcomeOf(s) ==
    IF s = server.session /\ server.incident = "resolved" THEN "recovered" ELSE "broken"

Authority == INSTANCE RecoveryAuthority WITH
    Sessions <- 1..MaxSessions,
    authority <- [s \in 1..MaxSessions |-> AuthorityOf(s)],
    outcome <- [s \in 1..MaxSessions |-> OutcomeOf(s)]
AuthorityImplemented == Authority!Spec
=============================================================================
