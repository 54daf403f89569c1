-------------------------- MODULE ControlRoomProofs --------------------------
(***************************************************************************)
(* Theorems about the control room, for any number of plans, sessions and  *)
(* registrations: what an agent may find is the tool of the plan shown, a  *)
(* human approved that plan, and a timer will withdraw it.                 *)
(***************************************************************************)
EXTENDS ControlRoom, TLAPS

-----------------------------------------------------------------------------
\* The registry between two tasks.

Parts == {"entry", "cleanup", "native", "microtasks"}
Formed(g) ==
    /\ DOMAIN g = Parts
    /\ DOMAIN g.native = Registrations
    /\ g.entry \in Registrations \cup {NoRegistration}

\* A call nobody can reach any more, and one made for the plan `p'.
Dropped == Call("pending", TRUE, NoBinding, NoBinding)
Unreachable(call) == call = Over \/ call = Dropped
Made(call, p) == \E promise \in {"pending", "fulfilled"} : call = Call(promise, FALSE, p, p)

\* Only the entry can be reached, and it was made for the plan `p'.
Serves(g, p) ==
    /\ Formed(g) /\ g.microtasks = << >>
    /\ \A i \in Registrations : i # g.entry => Unreachable(g.native[i])
    /\ g.entry # NoRegistration => p # NoPlan /\ Made(g.native[g.entry], p)

\* What the fields of a call say.
LEMMA CallFields ==
    /\ Over.promise = "none" /\ Over.aborted
    /\ Dropped.promise = "pending" /\ Dropped.aborted
    /\ Over # Dropped
    /\ \A call, p : Made(call, p) =>
         /\ call.promise \in {"pending", "fulfilled"} /\ ~call.aborted
         /\ call.definition = p /\ call.bound = p
         /\ ~Unreachable(call)
<1>1. /\ Over.promise = "none" /\ Over.aborted
      /\ Dropped.promise = "pending" /\ Dropped.aborted
  BY DEF Over, Dropped, Call
<1>2. \A call, p : Made(call, p) =>
        /\ call.promise \in {"pending", "fulfilled"} /\ ~call.aborted
        /\ call.definition = p /\ call.bound = p
  BY DEF Made, Call
<1> QED BY <1>1, <1>2 DEF Unreachable

\* A call that is unreachable is on offer to nobody.
LEMMA UnreachableFields ==
    ASSUME NEW call, Unreachable(call)
    PROVE  call.promise \in {"none", "pending"} /\ call.aborted
BY CallFields, Zenon DEF Unreachable

-----------------------------------------------------------------------------
\* Microtasks.

\* The state a task leaves when it queued no microtask.
Quiet(g) == [g EXCEPT !.microtasks = << >>]
\* A task that queued nothing leaves what it wrote.
LEMMA DrainsNone ==
    ASSUME NEW g, Len(g.microtasks) = 0
    PROVE  Drained(g) = Quiet(g)
<1> DEFINE Runs(f) == f = [n \in 0 .. 0 |-> IF n = 0 THEN Quiet(g)
                                           ELSE Run(f[n - 1], g.microtasks[n])]
           after == [n \in 0 .. 0 |-> Quiet(g)]
<1>1. Runs(after)
  OBVIOUS
<1>2. Runs(CHOOSE f : Runs(f))
  <2> HIDE DEF Runs, after
  <2> QED BY <1>1, Zenon
<1>3. Drained(g) = (CHOOSE f : Runs(f))[0]
  BY DEF Drained, Quiet
<1> QED BY <1>2, <1>3

\* When it queued one.
LEMMA DrainsOne ==
    ASSUME NEW g, Len(g.microtasks) = 1
    PROVE  Drained(g) = Run(Quiet(g), g.microtasks[1])
<1> DEFINE Runs(f) == f = [n \in 0 .. 1 |-> IF n = 0 THEN Quiet(g)
                                           ELSE Run(f[n - 1], g.microtasks[n])]
           after == [n \in 0 .. 1 |-> IF n = 0 THEN Quiet(g) ELSE Run(Quiet(g), g.microtasks[1])]
<1>1. Runs(after)
  OBVIOUS
<1>2. Runs(CHOOSE f : Runs(f))
  <2> HIDE DEF Runs, after
  <2> QED BY <1>1, Zenon
<1>3. Drained(g) = (CHOOSE f : Runs(f))[1]
  BY DEF Drained, Quiet
<1>4. \A f : Runs(f) => f[1] = Run(f[0], g.microtasks[1]) /\ f[0] = Quiet(g)
  OBVIOUS
<1> QED BY <1>2, <1>3, <1>4

\* When it queued two, which is as many as any task does.
LEMMA DrainsTwo ==
    ASSUME NEW g, Len(g.microtasks) = 2
    PROVE  Drained(g) = Run(Run(Quiet(g), g.microtasks[1]), g.microtasks[2])
<1> DEFINE first == Run(Quiet(g), g.microtasks[1])
           Runs(f) == f = [n \in 0 .. 2 |-> IF n = 0 THEN Quiet(g)
                                           ELSE Run(f[n - 1], g.microtasks[n])]
           after == [n \in 0 .. 2 |-> IF n = 0 THEN Quiet(g)
                                      ELSE IF n = 1 THEN first ELSE Run(first, g.microtasks[2])]
<1>1. Runs(after)
  <2> DEFINE step(n) == IF n = 0 THEN Quiet(g) ELSE Run(after[n - 1], g.microtasks[n])
  <2>1. /\ after[0] = Quiet(g) /\ after[1] = first /\ after[2] = Run(first, g.microtasks[2])
        /\ after = [n \in 0 .. 2 |-> after[n]]
    OBVIOUS
  <2> HIDE DEF after
  <2>2. step(0) = Quiet(g) /\ step(1) = first /\ step(2) = Run(first, g.microtasks[2])
    BY <2>1
  <2>3. \A n \in 0 .. 2 : n = 0 \/ n = 1 \/ n = 2
    OBVIOUS
  <2>4. \A n \in 0 .. 2 : after[n] = step(n)
    <3> HIDE DEF step, first
    <3> QED BY <2>1, <2>2, <2>3
  <2>5. after = [n \in 0 .. 2 |-> step(n)]
    <3> HIDE DEF step
    <3> QED BY <2>1, <2>4
  <2> QED BY <2>5
<1>2. Runs(CHOOSE f : Runs(f))
  <2> HIDE DEF Runs, after
  <2> QED BY <1>1, Zenon
<1>3. Drained(g) = (CHOOSE f : Runs(f))[2]
  BY DEF Drained, Quiet
<1>4. \A f : Runs(f) => f[2] = Run(Run(f[0], g.microtasks[1]), g.microtasks[2]) /\ f[0] = Quiet(g)
  OBVIOUS
<1> QED BY <1>2, <1>3, <1>4

-----------------------------------------------------------------------------
\* The operations of the registry, each with the microtasks it queued.

\* What an operation makes of the registry's parts.
Leaves(g, entry, native, queue) ==
    /\ DOMAIN g = Parts /\ g.entry = entry /\ g.native = native /\ g.microtasks = queue

\* Nothing is queued: nothing happens when the task ends.
LEMMA QuietLeaves ==
    ASSUME NEW g, DOMAIN g = Parts
    PROVE  Leaves(Quiet(g), g.entry, g.native, << >>)
BY DEF Quiet, Parts, Leaves

\* An empty queue has no token to supersede.
LEMMA SupersedesNothing ==
    ASSUME NEW g, DOMAIN g = Parts, g.microtasks = << >>
    PROVE  Leaves(Superseded(g), g.entry, g.native, << >>)
<1>1. [k \in DOMAIN g.microtasks |-> [g.microtasks[k] EXCEPT !.current = FALSE]] = << >>
  OBVIOUS
<1> QED BY <1>1 DEF Superseded, Parts, Leaves

\* An abort makes the call unreachable, whatever it was.
LEMMA Aborts ==
    ASSUME NEW g, Formed(g), NEW i \in Registrations
    PROVE  \E call : Unreachable(call) /\ Leaves(Abort(g, i), g.entry, [g.native EXCEPT ![i] = call], g.microtasks)
<1> DEFINE call == IF g.native[i].promise = "pending" THEN Dropped ELSE Over
<1>1. i # NoRegistration
  BY RegistryAssumption
<1>2. Abort(g, i) = [g EXCEPT !.native = [g.native EXCEPT ![i] = call]]
  BY <1>1 DEF Abort, Dropped, Formed, Parts
<1>3. Leaves(Abort(g, i), g.entry, [g.native EXCEPT ![i] = call], g.microtasks)
  <2> HIDE DEF call
  <2> QED BY <1>2 DEF Formed, Parts, Leaves
<1>4. Unreachable(call)
  BY DEF Unreachable
<1> QED BY <1>3, <1>4

\* A cleanup, still the newest of its name or not.
Cleanup(i, current) == [kind |-> "cleanup", of |-> i, current |-> current]

\* An unregister queues a cleanup of the entry, and none without an entry.
LEMMA UnregistersOne ==
    ASSUME NEW g, Formed(g), g.microtasks = << >>, g.entry # NoRegistration
    PROVE  Leaves(Unregistered(g), g.entry, g.native, <<Cleanup(g.entry, TRUE)>>)
<1>1. Leaves(Superseded(g), g.entry, g.native, << >>)
  BY SupersedesNothing DEF Formed
<1>2. Append(Superseded(g).microtasks, Cleanup(g.entry, TRUE)) = <<Cleanup(g.entry, TRUE)>>
  BY <1>1 DEF Leaves
<1> QED BY <1>1, <1>2 DEF Unregistered, Leaves, Parts, Cleanup

\* Superseding a queue of one, and what a second operation appends to it.
LEMMA QueueOfOne ==
    ASSUME NEW queue, NEW task, queue = <<task>>
    PROVE  /\ \A stale : [task EXCEPT !.current = FALSE] = stale
                => [k \in DOMAIN queue |-> [queue[k] EXCEPT !.current = FALSE]] = <<stale>>
           /\ \A next : Append(queue, next) = <<task, next>>
<1>1. DOMAIN queue = 1 .. 1 /\ queue[1] = task
  OBVIOUS
<1>2. ASSUME NEW stale, [task EXCEPT !.current = FALSE] = stale
      PROVE  [k \in DOMAIN queue |-> [queue[k] EXCEPT !.current = FALSE]] = <<stale>>
  <2>1. [k \in DOMAIN queue |-> [queue[k] EXCEPT !.current = FALSE]] = [k \in 1 .. 1 |-> stale]
    BY <1>1, <1>2
  <2>2. [k \in 1 .. 1 |-> stale] = <<stale>>
    OBVIOUS
  <2> QED BY <2>1, <2>2
<1>3. ASSUME NEW next PROVE Append(queue, next) = <<task, next>>
  <2>1. Len(<<task>>) = 1 /\ <<task>>[1] = task
    OBVIOUS
  <2>2. Append(<<task>>, next) = [k \in 1 .. 2 |-> IF k = 2 THEN next ELSE task]
    BY <2>1
  <2>3. [k \in 1 .. 2 |-> IF k = 2 THEN next ELSE task] = <<task, next>>
    OBVIOUS
  <2> QED BY <2>2, <2>3
<1> QED BY <1>2, <1>3

\* A superseded cleanup.
LEMMA CleanupIsStale ==
    ASSUME NEW i, NEW b, NEW c
    PROVE  [Cleanup(i, b) EXCEPT !.current = c] = Cleanup(i, c)
BY DEF Cleanup

\* A later operation of the task supersedes it.
LEMMA SupersedesOne ==
    ASSUME NEW g, NEW i, NEW native, Leaves(g, i, native, <<Cleanup(i, TRUE)>>)
    PROVE  Leaves(Superseded(g), i, native, <<Cleanup(i, FALSE)>>)
<1>1. [Cleanup(i, TRUE) EXCEPT !.current = FALSE] = Cleanup(i, FALSE)
  BY CleanupIsStale, Zenon
<1>2. PICK task, stale : task = Cleanup(i, TRUE) /\ stale = Cleanup(i, FALSE)
  OBVIOUS
<1>3. g.microtasks = <<task>> /\ [task EXCEPT !.current = FALSE] = stale
  BY <1>1, <1>2, Zenon DEF Leaves
<1>4. [k \in DOMAIN g.microtasks |-> [g.microtasks[k] EXCEPT !.current = FALSE]] = <<stale>>
  BY <1>3, QueueOfOne
<1>5. DOMAIN g = Parts /\ g.entry = i /\ g.native = native
  BY DEF Leaves
<1>6. Leaves(Superseded(g), i, native, <<stale>>)
  BY <1>4, <1>5 DEF Superseded, Parts, Leaves
<1> QED BY <1>2, <1>6, Zenon

\* A second unregister of the task queues another.
LEMMA UnregistersTwo ==
    ASSUME NEW g, NEW i, NEW native, i # NoRegistration,
           Leaves(g, i, native, <<Cleanup(i, TRUE)>>)
    PROVE  Leaves(Unregistered(g), i, native, <<Cleanup(i, FALSE), Cleanup(i, TRUE)>>)
<1>1. PICK stale, next : stale = Cleanup(i, FALSE) /\ next = Cleanup(i, TRUE)
  OBVIOUS
<1>2. Leaves(Superseded(g), i, native, <<stale>>)
  BY <1>1, SupersedesOne, Zenon
<1>3. Append(Superseded(g).microtasks, next) = <<stale, next>>
  BY <1>2, QueueOfOne DEF Leaves
<1>4. g.entry = i /\ next = [kind |-> "cleanup", of |-> g.entry, current |-> TRUE]
  BY <1>1, Zenon DEF Leaves, Cleanup
<1>5. Unregistered(g) = [Superseded(g) EXCEPT
                           !.cleanup = TRUE,
                           !.microtasks = Append(Superseded(g).microtasks, next)]
  BY <1>4 DEF Unregistered
<1>6. Leaves(Unregistered(g), i, native, <<stale, next>>)
  BY <1>2, <1>3, <1>5 DEF Leaves, Parts
<1> QED BY <1>1, <1>6, Zenon

\* A superseded cleanup does nothing, the newest one takes the entry away.
LEMMA RunsCleanup ==
    ASSUME NEW g, NEW i, Formed(g), g.entry = i
    PROVE  /\ Run(g, Cleanup(i, FALSE)) = g
           /\ i \in Registrations =>
                \E call : /\ Unreachable(call)
                          /\ Leaves(Run(g, Cleanup(i, TRUE)), NoRegistration,
                                    [g.native EXCEPT ![i] = call], g.microtasks)
<1>1. Run(g, Cleanup(i, FALSE)) = g
  BY DEF Run, Cleaned, Cleanup
<1>2. ASSUME i \in Registrations
      PROVE  \E call : /\ Unreachable(call)
                       /\ Leaves(Run(g, Cleanup(i, TRUE)), NoRegistration,
                                 [g.native EXCEPT ![i] = call], g.microtasks)
  <2>1. PICK call : /\ Unreachable(call)
                    /\ Leaves(Abort(g, i), g.entry, [g.native EXCEPT ![i] = call], g.microtasks)
    BY <1>2, Aborts
  <2>2. Run(g, Cleanup(i, TRUE))
          = [Abort(g, i) EXCEPT !.cleanup = FALSE,
                                !.entry = IF @ = i THEN NoRegistration ELSE @]
    BY DEF Run, Cleaned, Cleanup
  <2>3. Leaves(Run(g, Cleanup(i, TRUE)), NoRegistration, [g.native EXCEPT ![i] = call],
               g.microtasks)
    BY <2>1, <2>2 DEF Leaves, Parts
  <2> QED BY <2>1, <2>3
<1> QED BY <1>1, <1>2

-----------------------------------------------------------------------------
\* What the callers of the registry make of it in one task.

\* Nothing has an entry and no call can be reached.
LEMMA NothingServed ==
    ASSUME NEW g, NEW native, Leaves(g, NoRegistration, native, << >>),
           DOMAIN native = Registrations, \A i \in Registrations : Unreachable(native[i])
    PROVE  Serves(g, NoPlan)
BY DEF Leaves, Serves, Formed

\* An unregister, or two of them, leave nothing.
LEMMA WithdrawnIsGone ==
    ASSUME NEW g, NEW p, Serves(g, p)
    PROVE  /\ Serves(Drained(Unregistered(g)), NoPlan)
           /\ Serves(Drained(Unregistered(Unregistered(g))), NoPlan)
<1> DEFINE i == g.entry
<1>1. Formed(g) /\ g.microtasks = << >> /\ \A k \in Registrations : k # i => Unreachable(g.native[k])
  BY DEF Serves
<1>2. CASE i = NoRegistration
  <2>1. Unregistered(g) = g
    BY <1>2 DEF Unregistered
  <2>2. Drained(g) = Quiet(g)
    BY <1>1, DrainsNone
  <2>3. Leaves(Quiet(g), i, g.native, << >>)
    BY <1>1, QuietLeaves DEF Formed
  <2>4. \A k \in Registrations : Unreachable(g.native[k])
    BY <1>1, <1>2, RegistryAssumption
  <2> QED BY <1>1, <1>2, <2>1, <2>2, <2>3, <2>4, NothingServed DEF Formed
<1>3. CASE i # NoRegistration
  <2>1. Leaves(Unregistered(g), i, g.native, <<Cleanup(i, TRUE)>>)
    BY <1>1, <1>3, UnregistersOne
  <2>2. Leaves(Unregistered(Unregistered(g)), i, g.native,
               <<Cleanup(i, FALSE), Cleanup(i, TRUE)>>)
    BY <1>3, <2>1, UnregistersTwo
  <2>3. i \in Registrations /\ DOMAIN g.native = Registrations
    BY <1>1, <1>3 DEF Formed
  <2>4. ASSUME NEW h, Leaves(h, i, g.native, << >>)
        PROVE  Run(h, Cleanup(i, FALSE)) = h /\ Serves(Run(h, Cleanup(i, TRUE)), NoPlan)
    <3>1. Formed(h) /\ h.entry = i /\ h.native = g.native /\ h.microtasks = << >>
      BY <2>3, <2>4 DEF Formed, Leaves
    <3>2. PICK call : /\ Unreachable(call)
                      /\ Leaves(Run(h, Cleanup(i, TRUE)), NoRegistration,
                                [h.native EXCEPT ![i] = call], h.microtasks)
      BY <2>3, <3>1, RunsCleanup
    <3>3. \A k \in Registrations : Unreachable([h.native EXCEPT ![i] = call][k])
      BY <1>1, <2>3, <3>1, <3>2
    <3>4. DOMAIN [h.native EXCEPT ![i] = call] = Registrations
      BY <2>3, <3>1
    <3> QED BY <3>1, <3>2, <3>3, <3>4, RunsCleanup, NothingServed
  <2>5. Drained(Unregistered(g)) = Run(Quiet(Unregistered(g)), Cleanup(i, TRUE))
    <3>1. PICK task : task = Cleanup(i, TRUE)
      OBVIOUS
    <3>2. Unregistered(g).microtasks = <<task>>
      BY <2>1, <3>1, Zenon DEF Leaves
    <3>3. /\ Len(Unregistered(g).microtasks) = 1
          /\ Unregistered(g).microtasks[1] = task
      BY <3>2
    <3> QED BY <3>1, <3>3, DrainsOne, Zenon
  <2>6. Drained(Unregistered(Unregistered(g)))
          = Run(Run(Quiet(Unregistered(Unregistered(g))), Cleanup(i, FALSE)), Cleanup(i, TRUE))
    <3>1. PICK stale, task : stale = Cleanup(i, FALSE) /\ task = Cleanup(i, TRUE)
      OBVIOUS
    <3>2. Unregistered(Unregistered(g)).microtasks = <<stale, task>>
      BY <2>2, <3>1, Zenon DEF Leaves
    <3>3. /\ Len(Unregistered(Unregistered(g)).microtasks) = 2
          /\ Unregistered(Unregistered(g)).microtasks[1] = stale
          /\ Unregistered(Unregistered(g)).microtasks[2] = task
      BY <3>2
    <3> QED BY <3>1, <3>3, DrainsTwo, Zenon
  <2>7. /\ Leaves(Quiet(Unregistered(g)), i, g.native, << >>)
        /\ Leaves(Quiet(Unregistered(Unregistered(g))), i, g.native, << >>)
    BY <2>1, <2>2, QuietLeaves DEF Leaves
  <2> QED BY <2>4, <2>5, <2>6, <2>7
<1> QED BY <1>2, <1>3

\* dispose leaves nothing either.
LEMMA DisposedIsGone ==
    ASSUME NEW g, NEW p, Serves(g, p)
    PROVE  Serves(Drained(Disposed(g)), NoPlan)
<1> DEFINE i == g.entry
           h == Superseded(g)
<1>1. /\ Formed(g) /\ g.microtasks = << >>
      /\ \A k \in Registrations : k # i => Unreachable(g.native[k])
  BY DEF Serves
<1>2. Leaves(h, i, g.native, << >>) /\ Formed(h)
  BY <1>1, SupersedesNothing DEF Formed, Leaves
<1> HIDE DEF h
<1>3. PICK native : /\ Leaves(Abort(h, i), i, native, << >>) /\ DOMAIN native = Registrations
                    /\ \A k \in Registrations : Unreachable(native[k])
  <2>1. CASE i = NoRegistration
    <3>1. Abort(h, i) = h
      BY <2>1 DEF Abort
    <3>2. \A k \in Registrations : Unreachable(g.native[k])
      BY <1>1, <2>1, RegistryAssumption
    <3> QED BY <1>1, <1>2, <3>1, <3>2 DEF Formed
  <2>2. CASE i # NoRegistration
    <3>1. i \in Registrations
      BY <1>1, <2>2 DEF Formed
    <3>2. PICK call : /\ Unreachable(call)
                      /\ Leaves(Abort(h, i), h.entry, [h.native EXCEPT ![i] = call], h.microtasks)
      BY <1>2, <3>1, Aborts
    <3>3. h.entry = i /\ h.native = g.native /\ h.microtasks = << >>
      BY <1>2 DEF Leaves
    <3>4. \A k \in Registrations : Unreachable([h.native EXCEPT ![i] = call][k])
      BY <1>1, <3>2, <3>3 DEF Formed
    <3>5. DOMAIN [h.native EXCEPT ![i] = call] = Registrations
      BY <1>1, <3>3 DEF Formed
    <3> QED BY <3>2, <3>3, <3>4, <3>5
  <2> QED BY <2>1, <2>2
<1>4. Leaves(Disposed(g), NoRegistration, native, << >>)
  BY <1>3 DEF Disposed, Leaves, Parts, h
<1>5. Drained(Disposed(g)) = Quiet(Disposed(g))
  BY <1>4, DrainsNone DEF Leaves
<1>6. Leaves(Quiet(Disposed(g)), NoRegistration, native, << >>)
  BY <1>4, QuietLeaves DEF Leaves
<1> QED BY <1>3, <1>5, <1>6, NothingServed

\* Superseded cleanups change nothing when the task ends.
LEMMA StaleDrains ==
    ASSUME NEW g, NEW entry, NEW native, NEW i,
           Leaves(g, entry, native, << >>) \/ Leaves(g, entry, native, <<Cleanup(i, FALSE)>>)
    PROVE  Leaves(Drained(g), entry, native, << >>)
<1>1. Leaves(Quiet(g), entry, native, << >>)
  BY QuietLeaves DEF Leaves
<1>2. CASE Leaves(g, entry, native, << >>)
  BY <1>1, <1>2, DrainsNone DEF Leaves
<1>3. CASE Leaves(g, entry, native, <<Cleanup(i, FALSE)>>)
  <2>1. PICK stale : stale = Cleanup(i, FALSE)
    OBVIOUS
  <2>2. g.microtasks = <<stale>>
    BY <1>3, <2>1, Zenon DEF Leaves
  <2>3. Len(g.microtasks) = 1 /\ g.microtasks[1] = stale
    BY <2>2
  <2>4. Drained(g) = Run(Quiet(g), stale)
    BY <2>3, DrainsOne, Zenon
  <2>5. Run(Quiet(g), Cleanup(i, FALSE)) = Quiet(g)
    BY DEF Run, Cleaned, Cleanup
  <2> QED BY <1>1, <2>1, <2>4, <2>5
<1> QED BY <1>2, <1>3

\* A register, alone or after an unregister in the same task, keeps the entry
\* that was made for the same plan and replaces any other.
LEMMA RegisteredServes ==
    ASSUME NEW g, NEW p, Serves(g, p), NEW u \in {g, Unregistered(g)},
           NEW q \in Plans, CanRegister(u, q), NEW h, h = Drained(Registered(u, q, q))
    PROVE  /\ Serves(h, q)
           /\ \/ g.entry # NoRegistration /\ p = q /\ h.entry = g.entry /\ h.native = g.native
              \/ /\ g.entry = NoRegistration \/ p # q
                 /\ \A i \in Registrations : h.native[i].promise # "fulfilled"
<1> DEFINE e == g.entry
           s == Superseded(u)
<1>1. /\ Formed(g) /\ g.microtasks = << >>
      /\ \A i \in Registrations : i # e => Unreachable(g.native[i])
      /\ e # NoRegistration => Made(g.native[e], p)
  BY DEF Serves
<1>2. PICK queue : /\ Leaves(s, e, g.native, queue)
                   /\ queue = << >> \/ queue = <<Cleanup(e, FALSE)>>
  <2>1. CASE u = g
    BY <1>1, <2>1, SupersedesNothing DEF Formed
  <2>2. CASE u = Unregistered(g) /\ e # NoRegistration
    BY <1>1, <2>2, UnregistersOne, SupersedesOne
  <2>3. CASE u = Unregistered(g) /\ e = NoRegistration
    <3>1. Unregistered(g) = g
      BY <2>3 DEF Unregistered
    <3> QED BY <1>1, <2>3, <3>1, SupersedesNothing DEF Formed
  <2> QED BY <2>1, <2>2, <2>3
<1>3. u.entry = e /\ u.native = g.native
  <2>1. CASE e = NoRegistration
    BY <2>1 DEF Unregistered
  <2>2. CASE e # NoRegistration
    <3>1. Leaves(Unregistered(g), e, g.native, <<Cleanup(e, TRUE)>>)
      BY <1>1, <2>2, UnregistersOne
    <3> QED BY <3>1 DEF Leaves
  <2> QED BY <2>1, <2>2
<1>4. Kept(u, q) <=> e # NoRegistration /\ p = q
  BY <1>1, <1>3, CallFields DEF Kept
<1>5. q # NoPlan
  BY DEF Plans, NoPlan
<1> HIDE DEF s
<1>6. CASE Kept(u, q)
  <2>1. Registered(u, q, q) = s
    BY <1>6 DEF Registered, s
  <2>2. Leaves(h, e, g.native, << >>)
    BY <1>2, <2>1, StaleDrains
  <2>3. Serves(h, q)
    BY <1>1, <1>4, <1>5, <1>6, <2>2 DEF Serves, Formed, Leaves
  <2> QED BY <1>4, <1>6, <2>2, <2>3 DEF Leaves
<1>7. CASE ~Kept(u, q)
  <2> DEFINE r == Replaced(u)
             i == CHOOSE x \in Registrations : r.native[x] = Over
             new == Call("pending", FALSE, q, q)
  <2>1. PICK native : /\ Leaves(r, e, native, queue) /\ DOMAIN native = Registrations
                      /\ \A k \in Registrations : Unreachable(native[k])
    <3>1. CASE e = NoRegistration
      <4>1. r = s
        BY <1>3, <3>1 DEF Replaced, Abort, s
      <4>2. \A k \in Registrations : Unreachable(g.native[k])
        BY <1>1, <3>1, RegistryAssumption
      <4> QED BY <1>1, <1>2, <4>1, <4>2 DEF Formed
    <3>2. CASE e # NoRegistration
      <4>1. e \in Registrations /\ Formed(s) /\ s.native = g.native
        BY <1>1, <1>2, <3>2 DEF Formed, Leaves
      <4>2. PICK call : /\ Unreachable(call)
                        /\ Leaves(Abort(s, e), s.entry, [s.native EXCEPT ![e] = call], s.microtasks)
        BY <4>1, Aborts
      <4>3. r = Abort(s, e)
        BY <1>3 DEF Replaced, s
      <4>4. \A k \in Registrations : Unreachable([g.native EXCEPT ![e] = call][k])
        BY <1>1, <4>1, <4>2 DEF Formed
      <4>5. DOMAIN [g.native EXCEPT ![e] = call] = Registrations
        BY <1>1 DEF Formed
      <4>6. s.entry = e /\ s.microtasks = queue
        BY <1>2 DEF Leaves
      <4> QED BY <4>1, <4>2, <4>3, <4>4, <4>5, <4>6
    <3> QED BY <3>1, <3>2
  <2>2. i \in Registrations
    <3>1. \E x \in Registrations : r.native[x] = Over
      BY <1>7 DEF CanRegister
    <3> QED BY <3>1
  <2>3. Registered(u, q, q) = [r EXCEPT !.entry = i, !.native[i] = new]
    BY <1>7 DEF Registered
  <2> HIDE DEF r, i, new
  <2>4. Leaves(Registered(u, q, q), i, [native EXCEPT ![i] = new], queue)
    BY <2>1, <2>3 DEF Leaves, Parts
  <2>5. Leaves(h, i, [native EXCEPT ![i] = new], << >>)
    BY <1>2, <2>4, StaleDrains
  <2>6. Made(new, q) /\ new.promise = "pending"
    BY DEF Made, new, Call
  <2>7. Serves(h, q)
    BY <1>5, <2>1, <2>2, <2>5, <2>6 DEF Serves, Formed, Leaves
  <2>8. \A k \in Registrations : h.native[k].promise # "fulfilled"
    <3>1. \A k \in Registrations : native[k].promise # "fulfilled"
      BY <2>1, UnreachableFields
    <3>2. h.native = [native EXCEPT ![i] = new]
      BY <2>5 DEF Leaves
    <3> QED BY <2>1, <2>6, <3>1, <3>2
  <2> QED BY <1>4, <1>7, <2>7, <2>8
<1> QED BY <1>6, <1>7

\* What an agent finds is the tool of the entry, once its promise is fulfilled.
Findable(g) == g.entry # NoRegistration /\ g.native[g.entry].promise = "fulfilled"
\* No other registration is found.
LEMMA EntryIsOffered ==
    ASSUME NEW p, Serves(registry, p)
    PROVE  BoundPlans = IF Findable(registry) THEN {p} ELSE {}
<1> DEFINE e == registry.entry
<1>1. /\ e \in Registrations \cup {NoRegistration}
      /\ \A i \in Registrations : i # e => Unreachable(registry.native[i])
      /\ e # NoRegistration => Made(registry.native[e], p)
  BY DEF Serves, Formed
<1>2. \A i \in Registrations : i # e => registry.native[i].promise # "fulfilled"
  BY <1>1, UnreachableFields
<1>3. e # NoRegistration => ~registry.native[e].aborted /\ registry.native[e].bound = p
  BY <1>1, CallFields
<1>4. Offered(registry) = IF Findable(registry) THEN {e} ELSE {}
  BY <1>1, <1>2, <1>3, RegistryAssumption DEF Offered, Findable
<1> QED BY <1>3, <1>4 DEF BoundPlans, Findable

\* An agent does not find the tool of a call that was not settled yet.
LEMMA RegisteredIsFindable ==
    ASSUME NEW g, NEW p, Serves(g, p), NEW u \in {g, Unregistered(g)},
           NEW q \in Plans, CanRegister(u, q), NEW h, h = Drained(Registered(u, q, q))
    PROVE  Serves(h, q) /\ (Findable(h) <=> p = q /\ Findable(g))
<1>1. Serves(h, q)
  BY RegisteredServes
<1>2. h.entry \in Registrations \cup {NoRegistration}
  BY <1>1 DEF Serves, Formed
<1>3. CASE g.entry # NoRegistration /\ p = q /\ h.entry = g.entry /\ h.native = g.native
  BY <1>1, <1>3 DEF Findable
<1>4. CASE /\ g.entry = NoRegistration \/ p # q
           /\ \A i \in Registrations : h.native[i].promise # "fulfilled"
  BY <1>1, <1>2, <1>4 DEF Findable
<1> QED BY <1>3, <1>4, RegisteredServes

\* The promise of registerTool is settled: the entry becomes findable, or
\* disappears when it was not.
LEMMA SettledServes ==
    ASSUME NEW p, Serves(registry, p), NEW i \in Registrations, Settle(i)
    PROVE  /\ Serves(registry', p)
           /\ Findable(registry) => Findable(registry')
<1> DEFINE e == registry.entry
           call == registry.native[i]
<1>1. /\ Formed(registry) /\ registry.microtasks = << >>
      /\ \A k \in Registrations : k # e => Unreachable(registry.native[k])
      /\ e # NoRegistration => p # NoPlan /\ Made(registry.native[e], p)
  BY DEF Serves
<1>2. call.promise = "pending"
  BY DEF Settle, Fulfill, Decline
<1>3. ASSUME NEW entry, NEW native, Leaves(registry', entry, native, << >>),
             entry \in {e, NoRegistration}, entry = e \/ e = i,
             DOMAIN native = Registrations,
             \A k \in Registrations : k # i => native[k] = registry.native[k],
             IF entry # NoRegistration /\ i = e THEN Made(native[i], p) ELSE Unreachable(native[i])
      PROVE  Serves(registry', p) /\ (Findable(registry) => Findable(registry'))
  <2>1. entry \in Registrations \cup {NoRegistration}
    BY <1>1, <1>3 DEF Formed
  <2>2. \A k \in Registrations : k # entry => Unreachable(native[k])
    BY <1>1, <1>3
  <2>3. entry # NoRegistration => p # NoPlan /\ Made(native[entry], p)
    BY <1>1, <1>3, <2>1
  <2>4. Serves(registry', p)
    BY <1>3, <2>1, <2>2, <2>3 DEF Serves, Formed, Leaves
  <2>5. Findable(registry) => e # i /\ e \in Registrations
    BY <1>1, <1>2 DEF Findable, Formed
  <2> QED BY <1>3, <2>4, <2>5 DEF Findable, Leaves
<1>4. CASE Fulfill(i)
  <2>1. PICK new : /\ registry' = [registry EXCEPT !.native = [registry.native EXCEPT ![i] = new]]
                   /\ call.aborted => new = Over
                   /\ ~call.aborted => new = [call EXCEPT !.promise = "fulfilled"]
    BY <1>1, <1>4 DEF Fulfill, Formed, Parts
  <2>2. Leaves(registry', e, [registry.native EXCEPT ![i] = new], << >>)
    BY <1>1, <2>1 DEF Leaves, Formed, Parts
  <2>3. CASE i = e
    <3>1. Made(call, p)
      BY <1>1, <2>3, RegistryAssumption
    <3>2. ~call.aborted
      BY <3>1, CallFields
    <3>3. Made(new, p)
      <4>1. PICK promise : call = Call(promise, FALSE, p, p)
        BY <3>1 DEF Made
      <4>2. \A b : [Call(promise, b, p, p) EXCEPT !.promise = "fulfilled"]
                     = Call("fulfilled", b, p, p)
        BY DEF Call
      <4> QED BY <2>1, <3>2, <4>1, <4>2, Zenon DEF Made
    <3> QED BY <1>1, <1>3, <2>2, <2>3, <3>3, RegistryAssumption DEF Formed
  <2>4. CASE i # e
    <3>1. Unreachable(new)
      BY <1>1, <2>1, <2>4, UnreachableFields DEF Unreachable
    <3> QED BY <1>1, <1>3, <2>2, <2>4, <3>1 DEF Formed
  <2> QED BY <2>3, <2>4
<1>5. CASE Decline(i)
  <2> DEFINE task == [kind |-> "rejected", of |-> i, current |-> FALSE]
             refused == [registry.native EXCEPT ![i] = [call EXCEPT !.promise = "rejected"]]
             queued == [registry EXCEPT !.native[i].promise = "rejected",
                                        !.microtasks = Append(@, task)]
  <2>1. registry' = Drained(queued)
    BY <1>5 DEF Decline
  <2>2. Append(registry.microtasks, task) = <<task>>
    <3> HIDE DEF task
    <3> QED BY <1>1
  <2>3. Leaves(queued, e, refused, <<task>>)
    <3> HIDE DEF task
    <3> QED BY <1>1, <2>2 DEF Leaves, Formed, Parts
  <2>4. task.kind # "cleanup" /\ task.of = i
    OBVIOUS
  <2> HIDE DEF task, queued
  <2>5. Drained(queued) = Run(Quiet(queued), task)
    <3>1. Len(queued.microtasks) = 1 /\ queued.microtasks[1] = task
      BY <2>3 DEF Leaves
    <3> QED BY <3>1, DrainsOne, Zenon
  <2>6. Leaves(Quiet(queued), e, refused, << >>) /\ Formed(Quiet(queued))
    BY <1>1, <2>3, QuietLeaves DEF Leaves, Formed
  <2>7. PICK new : /\ Unreachable(new)
                   /\ Leaves(Abort(Quiet(queued), i), e, [refused EXCEPT ![i] = new], << >>)
    <3> DEFINE h == Quiet(queued)
    <3>1. Formed(h) /\ h.entry = e /\ h.native = refused /\ h.microtasks = << >>
      BY <2>6 DEF Leaves
    <3> HIDE DEF h, refused, e
    <3>2. PICK new : /\ Unreachable(new)
                     /\ Leaves(Abort(h, i), h.entry, [h.native EXCEPT ![i] = new], h.microtasks)
      BY <3>1, Aborts
    <3>3. Leaves(Abort(h, i), e, [refused EXCEPT ![i] = new], << >>)
      BY <3>1, <3>2
    <3> QED BY <3>2, <3>3 DEF h
  <2>8. Run(Quiet(queued), task)
          = [Abort(Quiet(queued), i) EXCEPT !.entry = IF @ = i THEN NoRegistration ELSE @]
    BY <2>4 DEF Run, Rejected
  <2> DEFINE entry == IF e = i THEN NoRegistration ELSE e
             native == [refused EXCEPT ![i] = new]
  <2>9. Leaves(registry', entry, native, << >>)
    BY <2>1, <2>5, <2>7, <2>8 DEF Leaves, Parts
  <2>10. /\ DOMAIN native = Registrations /\ native[i] = new
         /\ \A k \in Registrations : k # i => native[k] = registry.native[k]
    BY <1>1 DEF Formed
  <2>11. /\ entry \in {e, NoRegistration} /\ (entry = e \/ e = i)
         /\ ~(entry # NoRegistration /\ i = e)
    OBVIOUS
  <2> HIDE DEF refused, entry, native
  <2> QED BY <1>3, <2>7, <2>9, <2>10, <2>11
<1> QED BY <1>4, <1>5 DEF Settle

-----------------------------------------------------------------------------
\* The server.

\* The server's parts and their types.
PlanStatuses == {"none", "prepared", "approved", "closed"}
ServerType ==
    [session : 0..MaxSessions, incident : {"active", "resolved"},
     newest : Plans \cup {NoPlan}, approvals : SUBSET Plans,
     status : [Plans -> PlanStatuses]]

\* The rows a session's transactions leave: a plan that can still be used is
\* the only one, of a live session whose incident is active, and an approved
\* plan was approved.
ServerInv ==
    /\ server \in ServerType
    /\ \A p, q \in Active : p = q
    /\ Active # {} => server.session # NoSession /\ server.incident = "active"
    /\ \A p \in Plans : server.status[p] = "approved" => p \in server.approvals

\* The commands and deadlines that change a plan.
PlanMoves ==
    \/ Prepare
    \/ \E p \in Plans : Approve(p) \/ RejectOrRevoke(p) \/ Execute(p)
    \/ \E p \in Active : server' = [server EXCEPT !.status[p] = "closed"]

\* What each of them makes of the server's parts.
Sets(p, to) ==
    /\ server'.session = server.session
    /\ server'.status = [server.status EXCEPT ![p] = to]
    /\ server' \in ServerType
\* A command prepares, approves, closes or executes one plan.
LEMMA PlanMovesSet ==
    ASSUME ServerInv, PlanMoves
    PROVE  \E p \in Plans :
             \/ /\ Sets(p, "prepared") /\ server'.incident = server.incident
                /\ server'.approvals = server.approvals
                /\ Active = {} /\ server.session # NoSession /\ server.incident = "active"
                /\ server.status[p] = "none"
             \/ /\ Sets(p, "approved") /\ server'.incident = server.incident
                /\ server'.approvals = server.approvals \cup {p} /\ p \in Active
             \/ /\ Sets(p, "closed") /\ server'.incident = server.incident
                /\ server'.approvals = server.approvals /\ p \in Active
             \/ /\ Sets(p, "closed") /\ server'.incident = "resolved"
                /\ server'.approvals = server.approvals /\ server.status[p] = "approved"
<1>1. server \in ServerType
  BY DEF ServerInv
<1>2. ASSUME Prepare
      PROVE  \E p \in Plans : /\ Sets(p, "prepared") /\ server'.incident = server.incident
                              /\ server'.approvals = server.approvals
                              /\ Active = {} /\ server.session # NoSession
                              /\ server.incident = "active" /\ server.status[p] = "none"
  <2>1. PICK p \in Plans : Prepared(p) /\ server.status[p] = "none"
    <3>1. \A p \in NextPlan : p \in Plans /\ server.status[p] = "none"
      BY ControlRoomAssumption DEF NextPlan, Plans
    <3> QED BY <1>2, <3>1 DEF Prepare
  <2>2. Active = {} /\ server.session # NoSession /\ server.incident = "active"
    BY <1>2 DEF Prepare, Known
  <2>3. PICK newest \in Plans \cup {NoPlan} :
          server' = [server EXCEPT !.status[p] = "prepared", !.newest = newest]
    BY <1>1, <2>1 DEF Prepared, ServerType
  <2> QED BY <1>1, <2>1, <2>2, <2>3 DEF Sets, PlanStatuses, ServerType
<1>3. ASSUME NEW p \in Plans, Approve(p)
      PROVE  /\ Sets(p, "approved") /\ server'.incident = server.incident
             /\ server'.approvals = server.approvals \cup {p} /\ p \in Active
  BY <1>1, <1>3 DEF Approve, Sets, PlanStatuses, ServerType
<1>4. ASSUME NEW p \in Active, server' = [server EXCEPT !.status[p] = "closed"]
      PROVE  /\ Sets(p, "closed") /\ server'.incident = server.incident
             /\ server'.approvals = server.approvals /\ p \in Plans
  BY <1>1, <1>4 DEF Sets, PlanStatuses, Active, ServerType
<1>5. ASSUME NEW p \in Plans, Execute(p)
      PROVE  /\ Sets(p, "closed") /\ server'.incident = "resolved"
             /\ server'.approvals = server.approvals /\ server.status[p] = "approved"
  BY <1>1, <1>5 DEF Execute, Sets, PlanStatuses, ServerType
<1> QED BY <1>2, <1>3, <1>4, <1>5, Zenon DEF PlanMoves, RejectOrRevoke

\* A session opened in the place of the newest one closes what was active.
LEMMA OpenSets ==
    ASSUME ServerInv, OpenSession
    PROVE  /\ ServerInv' /\ Active' = {}
           /\ server'.session = server.session + 1 /\ server'.session \in 1..MaxSessions
           /\ server'.incident = "active" /\ server'.approvals = server.approvals
<1>1. server \in ServerType
  BY DEF ServerInv
<1> DEFINE closed == [p \in Plans |-> IF p \in Active THEN "closed" ELSE server.status[p]]
<1>2. closed \in [Plans -> PlanStatuses] /\ \A p \in Plans : closed[p] \notin {"prepared", "approved"}
  BY <1>1 DEF PlanStatuses, Active, ServerType
<1>3. /\ server'.session = server.session + 1 /\ server'.incident = "active"
      /\ server'.approvals = server.approvals /\ server'.status = closed
      /\ server' = [session |-> server.session + 1, incident |-> "active", newest |-> NoPlan,
                    approvals |-> server.approvals, status |-> closed]
  <2> HIDE DEF closed
  <2>1. server' = [server EXCEPT !.session = server.session + 1, !.incident = "active",
                                 !.newest = NoPlan, !.status = closed]
    BY DEF OpenSession, closed
  <2> QED BY <1>1, <2>1 DEF ServerType
<1> HIDE DEF closed
<1>4. Active' = {}
  BY <1>2, <1>3 DEF Active
<1>5. server.session \in 0..MaxSessions /\ server.session < MaxSessions /\ MaxSessions \in Nat
  BY <1>1, ControlRoomAssumption DEF OpenSession, ServerType
<1>6. server.session + 1 \in 0..MaxSessions /\ server.session + 1 \in 1..MaxSessions
  BY <1>5
<1>7. server' \in ServerType
  BY <1>1, <1>2, <1>3, <1>6 DEF ServerType
<1>8. \A p \in Plans : server'.status[p] # "approved"
  BY <1>2, <1>3
<1> QED BY <1>3, <1>4, <1>6, <1>7, <1>8 DEF ServerInv

\* A command keeps the server's rows together, and an approval is for good.
LEMMA PlanMovesInv ==
    ASSUME ServerInv, PlanMoves
    PROVE  ServerInv' /\ server.approvals \subseteq server'.approvals
<1>1. /\ server.status \in [Plans -> PlanStatuses]
      /\ \A p, q \in Active : p = q
      /\ Active # {} => server.session # NoSession /\ server.incident = "active"
      /\ \A p \in Plans : server.status[p] = "approved" => p \in server.approvals
  BY DEF ServerInv, ServerType
<1>2. ASSUME NEW p \in Plans, NEW to \in PlanStatuses, Sets(p, to)
      PROVE  /\ \A q \in Plans : server'.status[q] = IF q = p THEN to ELSE server.status[q]
             /\ server'.session = server.session
             /\ server' \in ServerType
  BY <1>1, <1>2 DEF Sets
<1>3. ASSUME NEW p \in Plans, Sets(p, "prepared"), server'.incident = server.incident,
             server'.approvals = server.approvals,
             Active = {}, server.session # NoSession, server.incident = "active"
      PROVE  ServerInv' /\ server.approvals \subseteq server'.approvals
  <2>1. Active' = {p}
    BY <1>2, <1>3 DEF Active, PlanStatuses
  <2> QED BY <1>1, <1>2, <1>3, <2>1 DEF ServerInv, PlanStatuses
<1>4. ASSUME NEW p \in Plans, Sets(p, "approved"), server'.incident = server.incident,
             server'.approvals = server.approvals \cup {p}, p \in Active
      PROVE  ServerInv' /\ server.approvals \subseteq server'.approvals
  <2>1. Active' = Active
    BY <1>2, <1>4 DEF Active, PlanStatuses
  <2> QED BY <1>1, <1>2, <1>4, <2>1 DEF ServerInv, PlanStatuses
<1>5. ASSUME NEW p \in Plans, Sets(p, "closed"), server'.approvals = server.approvals,
             p \in Active
      PROVE  ServerInv' /\ server.approvals \subseteq server'.approvals
  <2>1. Active' = Active \ {p}
    BY <1>2, <1>5 DEF Active, PlanStatuses
  <2>2. Active' = {}
    BY <1>1, <1>5, <2>1
  <2> QED BY <1>1, <1>2, <1>5, <2>2 DEF ServerInv, PlanStatuses
<1>6. \A p \in Plans : server.status[p] = "approved" => p \in Active
  BY DEF Active
<1> QED BY <1>3, <1>4, <1>5, <1>6, PlanMovesSet

-----------------------------------------------------------------------------
\* The page.

\* What is shown as approved was approved, in the view and in the answers that
\* are still to be applied.
ShownIsApproved(shown) == shown.status = "approved" => shown.plan \in server.approvals
CallInv(call) == "at" \in DOMAIN call /\ (call.at = "loaded" => ShownIsApproved(call.shown))
CallsInv == \A call \in Calls : CallInv(call)

\* The registry serves the plan asked for, which was approved, and whose timer
\* the current effect keeps; without a pending effect it is the plan shown.
PageInv ==
    /\ Serves(registry, asked)
    /\ asked # NoPlan => armed /\ effect = asked /\ asked \in server.approvals
    /\ ~dirty => effect = Capability(view)
    /\ ShownIsApproved(view)
    /\ CallsInv
RoomInv == ServerInv /\ PageInv

\* What the operations on a bag make of its elements.
LEMMA BagElements ==
    ASSUME NEW bag, NEW x, NEW S
    PROVE  /\ BagToSet(BagAdd(bag, x)) = BagToSet(bag) \cup {x}
           /\ BagToSet(BagRemove(bag, x)) \subseteq BagToSet(bag)
           /\ BagToSet(SetToBag(S)) = S
BY DEF BagToSet, BagAdd, BagRemove, SetToBag

\* A call that is sent has nothing to apply.
LEMMA SentSaysNothing ==
    ASSUME NEW kind
    PROVE  "at" \in DOMAIN Sent(kind) /\ Sent(kind).at = "sent"
BY DEF Sent
\* The answer of a command has nothing to apply.
LEMMA AnsweredSaysNothing ==
    ASSUME NEW named
    PROVE  "at" \in DOMAIN Answered(named) /\ Answered(named).at = "answered"
BY DEF Answered
\* The recovery state shows what it shows.
LEMMA LoadedSays ==
    ASSUME NEW kind, NEW shown
    PROVE  /\ "at" \in DOMAIN Loaded(kind, shown)
           /\ Loaded(kind, shown).shown = shown
BY DEF Loaded

\* The recovery state the server answers with shows what it has approved.
LEMMA CurrentIsApproved ==
    ASSUME ServerInv
    PROVE  ShownIsApproved(CurrentRecovery) /\ ShownIsApproved(NothingShown)
<1>1. ShownIsApproved(NothingShown)
  BY DEF ShownIsApproved, NothingShown
<1>2. CASE server.newest \notin Active
  BY <1>1, <1>2 DEF CurrentRecovery
<1>3. CASE server.newest \in Active
  BY <1>1, <1>3 DEF CurrentRecovery, ShownIsApproved, ServerInv, Active
<1> QED BY <1>2, <1>3

\* Calls go, or come with nothing to apply or an approved plan; what the server
\* approved stays approved.
LEMMA CallsMove ==
    ASSUME CallsInv, server.approvals \subseteq server'.approvals,
           NEW x, Calls' \subseteq Calls \cup {x}, CallInv(x)
    PROVE  CallsInv'
BY DEF CallsInv, CallInv, ShownIsApproved

\* The page's own state stays.
LEMMA PageStays ==
    ASSUME PageInv, server.approvals \subseteq server'.approvals, CallsInv',
           UNCHANGED <<registry, view, dirty, effect, armed, asked>>
    PROVE  PageInv'
BY DEF PageInv, ShownIsApproved, Capability

\* Without a plan asked for, the rest of it is up to the registry and the view.
LEMMA PageRests ==
    ASSUME PageInv, Serves(registry', asked'), asked' = NoPlan, CallsInv',
           ShownIsApproved(view)', dirty' \/ UNCHANGED <<dirty, view, effect>>
    PROVE  PageInv'
<1>1. ~dirty' => effect' = Capability(view')
  BY DEF PageInv, Capability
<1> QED BY <1>1 DEF PageInv

\* The server's own state stays.
LEMMA ServerStays == ServerInv /\ server' = server => ServerInv'
BY DEF ServerInv, Active

-----------------------------------------------------------------------------
\* The steps.

\* A command changes a plan or nothing, and its answer shows nothing.
LEMMA CommandKeeps ==
    ASSUME RoomInv, NEW taken, Command(taken), PlanMoves \/ UNCHANGED server
    PROVE  RoomInv'
<1>1. ServerInv' /\ server.approvals \subseteq server'.approvals
  BY PlanMovesInv, ServerStays DEF RoomInv
<1>2. Calls' = Calls \cup {Answered(NoSession)}
  BY BagElements DEF Command, Starts, Calls
<1>3. CallInv(Answered(NoSession))
  BY AnsweredSaysNothing DEF CallInv
<1>4. CallsInv'
  BY <1>1, <1>2, <1>3, CallsMove DEF RoomInv, PageInv
<1>5. UNCHANGED <<registry, view, dirty, effect, armed, asked>>
  BY DEF Command
<1> QED BY <1>1, <1>4, <1>5, PageStays DEF RoomInv

\* A reset withdraws the tool, and what was to be applied no longer is.
LEMMA ResetKeeps == RoomInv /\ ResetDemo => RoomInv'
<1> SUFFICES ASSUME RoomInv, ResetDemo PROVE RoomInv'
  OBVIOUS
<1>1. /\ calls' = BagAdd(BagOfAll(Outdated, calls), Sent("reset"))
      /\ registry' = Drained(Unregistered(registry)) /\ asked' = NoPlan
      /\ UNCHANGED <<server, view, dirty, effect, armed>>
  BY DEF ResetDemo
<1>2. Calls' = BagToSet(BagOfAll(Outdated, calls)) \cup {Sent("reset")}
  BY <1>1, BagElements DEF Calls
<1>3. BagToSet(BagOfAll(Outdated, calls)) = {Outdated(call) : call \in Calls}
  BY DEF BagToSet, BagOfAll, Calls
<1>4. CallInv(Sent("reset"))
  BY SentSaysNothing DEF CallInv
<1>5. ASSUME NEW call \in Calls PROVE CallInv(Outdated(call))
  <2>1. CallInv(call)
    BY DEF RoomInv, PageInv, CallsInv
  <2>2. CallInv(Loaded("outdated", NothingShown))
    BY LoadedSays, CurrentIsApproved DEF CallInv, RoomInv
  <2> QED BY <2>1, <2>2 DEF Outdated
<1>6. CallsInv'
  <2> DEFINE S == Calls'
  <2>1. \A call \in S : CallInv(call)
    BY <1>2, <1>3, <1>4, <1>5
  <2> QED BY <1>1, <2>1 DEF CallsInv, CallInv, ShownIsApproved
<1>7. Serves(registry', asked')
  BY <1>1, WithdrawnIsGone DEF RoomInv, PageInv
<1>8. ServerInv /\ ServerInv' /\ PageInv
  BY <1>1, ServerStays DEF RoomInv
<1>9. ShownIsApproved(view)'
  BY <1>1 DEF RoomInv, PageInv, ShownIsApproved
<1>10. PageInv'
  BY <1>1, <1>6, <1>7, <1>8, <1>9, PageRests
<1> QED BY <1>8, <1>10 DEF RoomInv

\* The calls a network action leaves: at most one more, and nothing it shows
\* was not approved.
LEMMA CallsCarry ==
    ASSUME NEW call, NEW next
    PROVE  /\ Becomes(call, next) => Calls' \subseteq Calls \cup {next}
           /\ Ends(call) => Calls' \subseteq Calls
           /\ Starts(next) => Calls' \subseteq Calls \cup {next}
<1>1. \A bag, x : BagToSet(BagRemove(bag, x)) \subseteq BagToSet(bag)
  BY BagElements
<1>2. \A bag, x : BagToSet(BagAdd(bag, x)) = BagToSet(bag) \cup {x}
  BY BagElements
<1> QED BY <1>1, <1>2 DEF Becomes, Ends, Starts, Calls

\* The server's part of a network action: none, or a session opened.
LEMMA ServerTurns ==
    ASSUME ServerInv, server' = server \/ OpenSession
    PROVE  ServerInv' /\ server'.approvals = server.approvals
BY ServerStays, OpenSets

\* The network changes the server and the calls, never the page.
Network(call) ==
    Create(call) \/ Resume(call) \/ ServeReset(call) \/ Continue(call) \/ Fail(call)
\* What it brings to the calls was approved.
LEMMA NetworkKeeps ==
    ASSUME RoomInv, NEW call \in Calls, Network(call)
    PROVE  RoomInv'
<1>1. /\ UNCHANGED <<registry, view, dirty, effect, armed, asked>>
      /\ server' = server \/ OpenSession
  BY DEF Network, Create, Resume, ServeReset, Continue, Fail
<1>2. ServerInv' /\ server'.approvals = server.approvals
  BY <1>1, ServerTurns DEF RoomInv
<1>3. \A named : CallInv(Answered(named))
  BY AnsweredSaysNothing DEF CallInv
<1>4. \A kind : /\ CallInv(Loaded(kind, NothingShown))
                /\ CallInv(Loaded(kind, CurrentRecovery))
  BY LoadedSays, CurrentIsApproved DEF CallInv, RoomInv
<1>5. \E x : CallInv(x) /\ Calls' \subseteq Calls \cup {x}
  <2>1. CASE Create(call)
    BY <1>4, <2>1, CallsCarry DEF Create
  <2>2. CASE Resume(call)
    BY <1>4, <2>2, CallsCarry DEF Resume
  <2>3. CASE ServeReset(call)
    BY <1>3, <2>3, CallsCarry DEF ServeReset
  <2>4. CASE Continue(call)
    BY <1>4, <2>4, CallsCarry DEF Continue
  <2>5. CASE Fail(call)
    BY <1>3, <2>5, CallsCarry DEF Fail
  <2> QED BY <2>1, <2>2, <2>3, <2>4, <2>5 DEF Network
<1>6. CallsInv'
  BY <1>2, <1>5, CallsMove DEF RoomInv, PageInv
<1> QED BY <1>1, <1>2, <1>6, PageStays DEF RoomInv

\* What is applied was shown by the server, and asks the effect to run.
LEMMA ApplyKeeps ==
    ASSUME RoomInv, NEW call \in Calls, Apply(call)
    PROVE  RoomInv'
<1>1. /\ Ends(call) /\ UNCHANGED <<server, registry, effect, armed, asked>>
      /\ UNCHANGED <<view, dirty>> \/ (view' = call.shown /\ dirty' = TRUE)
  BY DEF Apply
<1>2. Calls' \subseteq Calls
  BY <1>1, CallsCarry
<1>3. CallsInv'
  BY <1>1, <1>2 DEF RoomInv, PageInv, CallsInv, CallInv, ShownIsApproved
<1>4. ServerInv'
  BY <1>1, ServerStays DEF RoomInv
<1>5. CASE UNCHANGED <<view, dirty>>
  BY <1>1, <1>3, <1>4, <1>5, PageStays DEF RoomInv
<1>6. CASE view' = call.shown /\ dirty' = TRUE
  <2>1. ShownIsApproved(view)'
    <3>1. CallInv(call) /\ call.at = "loaded"
      BY DEF RoomInv, PageInv, CallsInv, Apply
    <3> QED BY <1>1, <1>6, <3>1 DEF CallInv, ShownIsApproved
  <2>2. Serves(registry, asked)' /\ (asked # NoPlan => armed /\ effect = asked /\ asked \in server.approvals)'
    BY <1>1 DEF RoomInv, PageInv
  <2>3. (~dirty => effect = Capability(view))'
    BY <1>6
  <2> QED BY <1>3, <1>4, <2>1, <2>2, <2>3 DEF RoomInv, PageInv
<1> QED BY <1>1, <1>5, <1>6

\* The expiry timer withdraws the tool.
LEMMA TimerKeeps == RoomInv /\ ExpiryTimer => RoomInv'
<1> SUFFICES ASSUME RoomInv, ExpiryTimer PROVE RoomInv'
  OBVIOUS
<1>1. /\ registry' = Drained(Unregistered(registry)) /\ asked' = NoPlan
      /\ UNCHANGED <<server, view, dirty, effect>>
      /\ Starts(Loaded("refresh", CurrentRecovery)) \/ UNCHANGED calls
  BY DEF ExpiryTimer, TimerWithdraws
<1>2. ServerInv /\ ServerInv' /\ PageInv
  BY <1>1, ServerStays DEF RoomInv
<1>3. CallInv(Loaded("refresh", CurrentRecovery))
  BY <1>2, LoadedSays, CurrentIsApproved DEF CallInv
<1>4. Calls' \subseteq Calls \cup {Loaded("refresh", CurrentRecovery)}
  BY <1>1, CallsCarry DEF Calls
<1>5. CallsInv'
  BY <1>1, <1>2, <1>3, <1>4, CallsMove DEF PageInv
<1>6. Serves(registry', asked')
  BY <1>1, <1>2, WithdrawnIsGone DEF PageInv
<1>7. ShownIsApproved(view)'
  BY <1>1, <1>2 DEF PageInv, ShownIsApproved
<1>8. PageInv'
  BY <1>1, <1>2, <1>5, <1>6, <1>7, PageRests
<1> QED BY <1>2, <1>8 DEF RoomInv

\* A reload leaves no tool, and nothing to apply.
LEMMA ReloadKeeps == RoomInv /\ Reload => RoomInv'
<1> SUFFICES ASSUME RoomInv, Reload PROVE RoomInv'
  OBVIOUS
<1>1. /\ calls' = BagAdd(SetToBag(Orphaned), Sent("initial"))
      /\ registry' = Drained(Disposed(registry)) /\ view' = NothingShown
      /\ dirty' = TRUE /\ asked' = NoPlan /\ server' = server
  BY DEF Reload
<1>2. ServerInv /\ ServerInv' /\ PageInv
  BY <1>1, ServerStays DEF RoomInv
<1>3. Calls' = Orphaned \cup {Sent("initial")}
  BY <1>1, BagElements DEF Calls
<1>4. ASSUME NEW call \in Orphaned PROVE "at" \in DOMAIN call /\ call.at = "sent"
  <2>1. PICK c \in Calls : c.at = "sent" /\ call = [c EXCEPT !.deaf = TRUE]
    BY <1>4 DEF Orphaned
  <2>2. "at" \in DOMAIN c
    BY <1>2 DEF PageInv, CallsInv, CallInv
  <2> QED BY <2>1, <2>2
<1>5. \A call \in Calls' : "at" \in DOMAIN call /\ call.at = "sent"
  BY <1>3, <1>4, SentSaysNothing
<1>6. CallsInv'
  BY <1>5 DEF CallsInv, CallInv
<1>7. Serves(registry', asked')
  BY <1>1, <1>2, DisposedIsGone DEF PageInv
<1>8. ShownIsApproved(view)'
  BY <1>1 DEF ShownIsApproved, NothingShown
<1>9. PageInv'
  BY <1>1, <1>2, <1>6, <1>7, <1>8, PageRests
<1> QED BY <1>2, <1>9 DEF RoomInv

\* The effect asks for the plan shown as approved, and a tool that is found
\* when it ran was found before it, for the same plan.
LEMMA EffectServes ==
    ASSUME RoomInv, RunEffect, NEW q, q = Capability(view)
    PROVE  /\ q # NoPlan => q \in Plans /\ q \in server.approvals
           /\ Serves(registry', q)
           /\ q # NoPlan => (Findable(registry') <=> asked = q /\ Findable(registry))
<1> DEFINE cleaned == IF effect = NoPlan THEN registry ELSE Unregistered(registry)
<1>1. /\ Serves(registry, asked) /\ ShownIsApproved(view) /\ server.approvals \subseteq Plans
  BY DEF RoomInv, PageInv, ServerInv, ServerType
<1>2. /\ q # NoPlan => CanRegister(cleaned, q)
      /\ registry' = Drained(IF q = NoPlan THEN Unregistered(cleaned)
                             ELSE Registered(cleaned, q, q))
  BY DEF RunEffect, Definition
<1>3. cleaned \in {registry, Unregistered(registry)}
  OBVIOUS
<1> HIDE DEF cleaned
<1>4. q # NoPlan => q \in Plans /\ q \in server.approvals
  BY <1>1 DEF Capability, ShownIsApproved
<1>5. CASE q = NoPlan
  BY <1>1, <1>2, <1>3, <1>5, WithdrawnIsGone
<1>6. CASE q # NoPlan
  <2>1. registry' = Drained(Registered(cleaned, q, q)) /\ CanRegister(cleaned, q)
    BY <1>2, <1>6
  <2>2. Serves(registry', q) /\ (Findable(registry') <=> asked = q /\ Findable(registry))
    BY <1>1, <1>3, <1>4, <1>6, <2>1, RegisteredIsFindable
  <2> QED BY <1>4, <1>6, <2>2
<1> QED BY <1>5, <1>6

\* The effect arms the timer of the tool it asks for.
LEMMA EffectKeeps == RoomInv /\ RunEffect => RoomInv'
<1> SUFFICES ASSUME RoomInv, RunEffect PROVE RoomInv'
  OBVIOUS
<1>1. PICK q : q = Capability(view)
  OBVIOUS
<1>2. /\ effect' = q /\ asked' = q /\ dirty' = FALSE /\ UNCHANGED <<server, view, calls>>
      /\ q # NoPlan => armed'
  BY <1>1 DEF RunEffect, Arms
<1>3. Serves(registry', q) /\ (q # NoPlan => q \in server.approvals)
  BY <1>1, EffectServes
<1>4. ServerInv'
  BY <1>2, ServerStays DEF RoomInv
<1>5. CallsInv' /\ ShownIsApproved(view)'
  BY <1>2 DEF RoomInv, PageInv, CallsInv, CallInv, Calls, ShownIsApproved
<1>6. effect' = Capability(view)'
  BY <1>1, <1>2 DEF Capability
<1> QED BY <1>2, <1>3, <1>4, <1>5, <1>6 DEF RoomInv, PageInv

\* A promise settled changes the registry alone.
LEMMA SettleKeeps ==
    ASSUME RoomInv, NEW i \in Registrations, SettleRegistration(i)
    PROVE  RoomInv'
<1>1. Settle(i) /\ UNCHANGED <<server, view, calls, dirty, effect, armed, asked>>
  BY DEF SettleRegistration, pageVars
<1>2. Serves(registry', asked)
  BY <1>1, SettledServes DEF RoomInv, PageInv
<1>3. ServerInv'
  BY <1>1, ServerStays DEF RoomInv
<1>4. CallsInv' /\ ShownIsApproved(view)'
  BY <1>1 DEF RoomInv, PageInv, CallsInv, CallInv, Calls, ShownIsApproved
<1>5. (~dirty => effect = Capability(view))'
  BY <1>1 DEF RoomInv, PageInv, Capability
<1> QED BY <1>1, <1>2, <1>3, <1>4, <1>5 DEF RoomInv, PageInv

\* A deadline passes, on either clock.
LEMMA DeadlineKeeps ==
    ASSUME RoomInv, NEW p \in Plans, ServerPassesDeadline(p) \/ BrowserPassesDeadline(p)
    PROVE  RoomInv'
<1>1. UNCHANGED <<registry, view, calls, dirty, effect, armed, asked>>
  BY DEF ServerPassesDeadline, BrowserPassesDeadline, pageVars
<1>2. server' = server \/ PlanMoves
  BY DEF ServerPassesDeadline, BrowserPassesDeadline, PlanMoves
<1>3. ServerInv' /\ server.approvals \subseteq server'.approvals
  BY <1>2, ServerStays, PlanMovesInv DEF RoomInv
<1>4. CallsInv'
  BY <1>1, <1>3 DEF RoomInv, PageInv, CallsInv, CallInv, Calls, ShownIsApproved
<1> QED BY <1>1, <1>3, <1>4, PageStays DEF RoomInv

\* Every command of the page.
Commands ==
    ApprovePlan \/ RejectPlan \/ PrepareRecovery \/ ExecuteRecovery \/ VerifyRecovery
\* It names a plan the server can act on, changes nothing, or is refused.
LEMMA CommandsMove ==
    ASSUME RoomInv, Commands
    PROVE  RoomInv' /\ (PlanMoves \/ UNCHANGED server) /\ \E taken : Command(taken)
<1>1. Serves(registry, asked) /\ (asked # NoPlan => asked \in Plans)
  BY DEF RoomInv, PageInv, ServerInv, ServerType
<1>2. BoundPlans \subseteq Plans
  <2>1. BoundPlans \subseteq {asked} /\ (Findable(registry) => asked # NoPlan)
    BY <1>1, EntryIsOffered DEF Serves, Findable
  <2> QED BY <1>1, <2>1, EntryIsOffered
<1>3. \E taken : Command(taken) /\ (PlanMoves \/ UNCHANGED server)
  <2>1. CASE ApprovePlan
    <3>1. Command(Approve(view.plan)) /\ Approve(view.plan) /\ view.plan \in Plans
      BY <2>1 DEF ApprovePlan, Command, Approve, Active
    <3> QED BY <3>1 DEF PlanMoves
  <2>2. CASE RejectPlan
    <3>1. /\ Command(RejectOrRevoke(view.plan) \/ RejectAgain(view.plan))
          /\ RejectOrRevoke(view.plan) \/ RejectAgain(view.plan)
      BY <2>2 DEF RejectPlan, Command
    <3>2. RejectOrRevoke(view.plan) => PlanMoves
      BY DEF RejectOrRevoke, PlanMoves, Active
    <3> QED BY <3>1, <3>2 DEF RejectAgain
  <2>3. CASE PrepareRecovery
    <3>1. Command(Prepare) /\ Prepare
      BY <2>3 DEF PrepareRecovery, Command
    <3> QED BY <3>1 DEF PlanMoves
  <2>4. CASE ExecuteRecovery
    <3>1. PICK p \in Plans : Command(Execute(p)) /\ Execute(p)
      BY <1>2, <2>4 DEF ExecuteRecovery, Command
    <3> QED BY <3>1 DEF PlanMoves
  <2>5. CASE VerifyRecovery
    BY <2>5 DEF VerifyRecovery, Command, Verify
  <2> QED BY <2>1, <2>2, <2>3, <2>4, <2>5 DEF Commands
<1> QED BY <1>3, CommandKeeps

\* The page that has just been loaded.
LEMMA RoomInit == Init => RoomInv
<1> SUFFICES ASSUME Init PROVE RoomInv
  OBVIOUS
<1>1. ServerInv
  <2>1. \A p \in Plans : server.status[p] = "none"
    BY DEF Init
  <2>2. Active = {}
    BY <2>1 DEF Active
  <2>3. server \in ServerType
    BY ControlRoomAssumption DEF Init, PlanStatuses, NoSession, ServerType
  <2> QED BY <2>1, <2>2, <2>3 DEF ServerInv
<1>2. Serves(registry, NoPlan)
  BY RegistryAssumption
     DEF Init, EmptyRegistry, Serves, Formed, Parts, Unreachable
<1>3. CallsInv
  <2>1. Calls = {Sent("initial")}
    BY BagElements DEF Init, Calls
  <2> QED BY <2>1, SentSaysNothing DEF CallsInv, CallInv
<1>4. ShownIsApproved(view)
  BY DEF Init, ShownIsApproved, NothingShown
<1> QED BY <1>1, <1>2, <1>3, <1>4 DEF Init, RoomInv, PageInv

\* Every step keeps the server and the page together.
LEMMA RoomStep == RoomInv /\ [Next]_vars => RoomInv'
<1> SUFFICES ASSUME RoomInv, [Next]_vars PROVE RoomInv'
  OBVIOUS
<1>1. ASSUME NEW p \in Plans, ServerPassesDeadline(p) \/ BrowserPassesDeadline(p)
      PROVE  RoomInv'
  BY <1>1, DeadlineKeeps
<1>2. CASE Commands
  BY <1>2, CommandsMove
<1>3. CASE ResetDemo \/ Reload
  BY <1>3, ResetKeeps, ReloadKeeps
<1>4. ASSUME NEW call \in Calls, Network(call) \/ Apply(call)
      PROVE  RoomInv'
  BY <1>4, NetworkKeeps, ApplyKeeps
<1>5. CASE RunEffect \/ ExpiryTimer
  BY <1>5, EffectKeeps, TimerKeeps
<1>6. ASSUME NEW i \in Registrations, SettleRegistration(i) PROVE RoomInv'
  BY <1>6, SettleKeeps
<1>7. CASE UNCHANGED vars
  <2>1. UNCHANGED <<server, registry, view, calls, dirty, effect, armed, asked>>
    BY <1>7 DEF vars, pageVars
  <2>2. CallsInv' /\ ServerInv'
    BY <2>1, ServerStays DEF RoomInv, PageInv, CallsInv, CallInv, Calls, ShownIsApproved
  <2> QED BY <2>1, <2>2, PageStays DEF RoomInv
<1> QED BY <1>1, <1>2, <1>3, <1>4, <1>5, <1>6, <1>7 DEF Next, Commands, Network

\* The room stays together for good.
LEMMA RoomHolds == Spec => []RoomInv
BY RoomInit, RoomStep, PTL DEF Spec

-----------------------------------------------------------------------------
\* What a step makes of the server, the page and the calls.

\* A step leaves the server alone, changes a plan, or opens a session.
LEMMA StepsTurnServer ==
    ASSUME RoomInv, [Next]_vars
    PROVE  server' = server \/ PlanMoves \/ OpenSession
<1>1. ASSUME NEW p \in Plans, ServerPassesDeadline(p) \/ BrowserPassesDeadline(p)
      PROVE  server' = server \/ PlanMoves
  BY <1>1 DEF ServerPassesDeadline, BrowserPassesDeadline, PlanMoves
<1>2. Commands => PlanMoves \/ server' = server
  BY CommandsMove
<1>3. ASSUME NEW call \in Calls, Network(call) \/ Apply(call)
      PROVE  server' = server \/ OpenSession
  BY <1>3 DEF Network, Create, Resume, ServeReset, Continue, Fail, Apply
<1>4. ASSUME NEW i \in Registrations, SettleRegistration(i) PROVE server' = server
  BY <1>4 DEF SettleRegistration
<1>5. ResetDemo \/ Reload \/ RunEffect \/ ExpiryTimer \/ UNCHANGED vars
        => server' = server
  BY DEF ResetDemo, Reload, RunEffect, ExpiryTimer, vars
<1> QED BY <1>1, <1>2, <1>3, <1>4, <1>5 DEF Next, Commands, Network

\* Where a call in progress comes from: an older one, outdated by a reset or
\* deaf since a reload, a call that is sent, or an answer.
Deaf(call) == [call EXCEPT !.deaf = TRUE]
NewSession(s) == OpenSession /\ s = server.session + 1
Comes(x) ==
    \/ x \in Calls
    \/ \E call \in Calls : x = Outdated(call)
    \/ \E call \in Calls : call.at = "sent" /\ call.call = "reset" /\ x = Deaf(call)
    \/ \E kind \in {"initial", "reset"} : x = Sent(kind)
    \/ \E s : (s = NoSession \/ NewSession(s)) /\ x = Answered(s)
    \/ \E kind \in {"initial", "refresh"} :
         x = Loaded(kind, NothingShown) \/ x = Loaded(kind, CurrentRecovery)

\* What the page, the cookie and the browser's clock can become.
PageTurns ==
    /\ \/ view' \in {view, NothingShown}
       \/ \E call \in Calls : call.at = "loaded" /\ view' = call.shown
    /\ asked' \in {asked, NoPlan, Capability(view)}
    /\ effect' \in {effect, NoPlan, Capability(view)}
    /\ dirty' \in {dirty} \cup BOOLEAN /\ armed' \in {armed} \cup BOOLEAN
    /\ \/ cookie' = cookie \/ NewSession(cookie')
       \/ \E call \in Calls : call.at = "answered" /\ cookie' = call.session
    /\ due' = due \/ \E p \in Plans : due' = due \cup {p}

\* Every step is of that kind.
LEMMA StepsTurnPage == [Next]_vars => PageTurns
<1> SUFFICES ASSUME [Next]_vars PROVE PageTurns
  OBVIOUS
<1>1. ASSUME NEW p \in Plans, ServerPassesDeadline(p) \/ BrowserPassesDeadline(p)
      PROVE  PageTurns
  BY <1>1 DEF ServerPassesDeadline, BrowserPassesDeadline, pageVars, PageTurns
<1>2. CASE Commands
  BY <1>2 DEF Commands, ApprovePlan, RejectPlan, PrepareRecovery, ExecuteRecovery,
              VerifyRecovery, Command, PageTurns
<1>3. CASE ResetDemo
  BY <1>3 DEF ResetDemo, PageTurns
<1>4. CASE Reload
  BY <1>4 DEF Reload, PageTurns
<1>5. ASSUME NEW call \in Calls, Create(call) PROVE PageTurns
  BY <1>5 DEF Create, PageTurns, NewSession
<1>6. ASSUME NEW call \in Calls, Resume(call) \/ ServeReset(call) \/ Fail(call) PROVE PageTurns
  BY <1>6 DEF Resume, ServeReset, Fail, PageTurns
<1>7. ASSUME NEW call \in Calls, Continue(call) PROVE PageTurns
  BY <1>7 DEF Continue, PageTurns
<1>8. ASSUME NEW call \in Calls, Apply(call) PROVE PageTurns
  BY <1>8 DEF Apply, PageTurns
<1>9. CASE RunEffect
  BY <1>9 DEF RunEffect, PageTurns
<1>10. CASE ExpiryTimer
  BY <1>10 DEF ExpiryTimer, PageTurns
<1>11. ASSUME NEW i \in Registrations, SettleRegistration(i) PROVE PageTurns
  BY <1>11 DEF SettleRegistration, pageVars, PageTurns
<1>12. CASE UNCHANGED vars
  BY <1>12 DEF vars, pageVars, PageTurns
<1> QED BY <1>1, <1>2, <1>3, <1>4, <1>5, <1>6, <1>7, <1>8, <1>9, <1>10, <1>11, <1>12
           DEF Next, Commands

\* So is every call in progress after a step.
LEMMA StepsCarryCalls == [Next]_vars => \A x \in Calls' : Comes(x)
<1> SUFFICES ASSUME [Next]_vars, NEW x \in Calls' PROVE Comes(x)
  OBVIOUS
<1>1. calls' = calls => Comes(x)
  BY DEF Calls, Comes
<1>2. ASSUME NEW p \in Plans, ServerPassesDeadline(p) \/ BrowserPassesDeadline(p)
      PROVE  calls' = calls
  BY <1>2 DEF ServerPassesDeadline, BrowserPassesDeadline, pageVars
<1>3. CASE Commands
  <2>1. Starts(Answered(NoSession))
    BY <1>3 DEF Commands, ApprovePlan, RejectPlan, PrepareRecovery, ExecuteRecovery,
              VerifyRecovery, Command
  <2> QED BY <2>1, CallsCarry DEF Comes
<1>4. CASE ResetDemo
  <2>1. BagToSet(BagOfAll(Outdated, calls)) = {Outdated(call) : call \in Calls}
    BY DEF BagToSet, BagOfAll, Calls
  <2>2. Calls' = BagToSet(BagOfAll(Outdated, calls)) \cup {Sent("reset")}
    BY <1>4, BagElements DEF ResetDemo, Calls
  <2> QED BY <2>1, <2>2 DEF Comes
<1>5. CASE Reload
  <2>1. Calls' = Orphaned \cup {Sent("initial")}
    BY <1>5, BagElements DEF Reload, Calls
  <2> QED BY <2>1 DEF Comes, Orphaned, Deaf
<1>6. ASSUME NEW call \in Calls, Create(call) \/ Resume(call) \/ Continue(call) PROVE Comes(x)
  <2>1. \E kind \in {"initial", "refresh"}, shown \in {NothingShown, CurrentRecovery} :
          Becomes(call, Loaded(kind, shown))
    BY <1>6 DEF Create, Resume, Continue
  <2> QED BY <2>1, CallsCarry DEF Comes
<1>7. ASSUME NEW call \in Calls, ServeReset(call) PROVE Comes(x)
  <2>1. NewSession(server.session + 1)
    BY <1>7 DEF ServeReset, NewSession
  <2>2. Ends(call) \/ Becomes(call, Answered(server.session + 1))
    BY <1>7 DEF ServeReset
  <2> QED BY <2>1, <2>2, CallsCarry DEF Comes
<1>8. ASSUME NEW call \in Calls, Apply(call) \/ Fail(call) PROVE Comes(x)
  <2>1. Ends(call)
    BY <1>8 DEF Apply, Fail
  <2> QED BY <2>1, CallsCarry DEF Comes
<1>9. RunEffect => calls' = calls
  BY DEF RunEffect
<1>10. CASE ExpiryTimer
  <2>1. Starts(Loaded("refresh", CurrentRecovery)) \/ calls' = calls
    BY <1>10 DEF ExpiryTimer
  <2> QED BY <1>1, <2>1, CallsCarry DEF Comes
<1>11. ASSUME NEW i \in Registrations, SettleRegistration(i) PROVE calls' = calls
  BY <1>11 DEF SettleRegistration, pageVars
<1>12. UNCHANGED vars => calls' = calls
  BY DEF vars, pageVars
<1> QED BY <1>1, <1>2, <1>3, <1>4, <1>5, <1>6, <1>7, <1>8, <1>9, <1>10, <1>11, <1>12
           DEF Next, Commands

-----------------------------------------------------------------------------
\* Types.

\* The server answers with something the page can show.
LEMMA CurrentIsAView ==
    ASSUME ServerInv
    PROVE  CurrentRecovery \in Views /\ NothingShown \in Views
<1>1. NothingShown \in Views
  BY DEF Views
<1>2. CASE server.newest \notin Active
  BY <1>1, <1>2 DEF CurrentRecovery
<1>3. CASE server.newest \in Active
  BY <1>1, <1>3 DEF CurrentRecovery, Views, Active
<1> QED BY <1>2, <1>3

\* What a view is of, and what its capability is bound to.
LEMMA ViewFacts ==
    ASSUME NEW shown \in Views
    PROVE  shown.plan \in Plans \cup {NoPlan} /\ Capability(shown) \in Plans \cup {NoPlan}
BY DEF Views, NothingShown, Capability

\* The three kinds of calls.
LEMMA CallKinds ==
    ASSUME NEW call \in CallRecords
    PROVE  /\ call.at \in {"sent", "answered", "loaded"}
           /\ call.at = "sent" =>
                call \in [at : {"sent"}, call : {"initial", "reset"},
                         session : 0..MaxSessions, deaf : BOOLEAN]
           /\ call.at = "answered" => call.session \in 0..MaxSessions
           /\ call.at = "loaded" => call.shown \in Views
BY DEF CallRecords

\* The parts of the page.
PageTypes ==
    /\ cookie \in 0..MaxSessions /\ due \subseteq Plans
    /\ view \in Views /\ Calls \subseteq CallRecords
    /\ {dirty, armed} \subseteq BOOLEAN /\ {effect, asked} \subseteq Plans \cup {NoPlan}

\* A session opened has one of the numbers.
LEMMA NewSessionTyped ==
    ASSUME ServerInv, NEW s, s = NoSession \/ NewSession(s)
    PROVE  s \in 0..MaxSessions
<1>1. server.session \in 0..MaxSessions /\ MaxSessions \in Nat
  BY ControlRoomAssumption DEF ServerInv, ServerType
<1> QED BY <1>1 DEF NewSession, OpenSession, NoSession

\* A call keeps to its kinds wherever it comes from.
LEMMA CallsTyped ==
    ASSUME ServerInv, PageTypes, NEW x, Comes(x)
    PROVE  x \in CallRecords
<1>1. CurrentRecovery \in Views /\ NothingShown \in Views
  BY CurrentIsAView
<1>2. Calls \subseteq CallRecords /\ cookie \in 0..MaxSessions
  BY DEF PageTypes
<1>3. \A kind \in {"initial", "refresh", "outdated"}, shown \in Views :
        Loaded(kind, shown) \in CallRecords
  BY DEF Loaded, CallRecords
<1>4. ASSUME NEW call \in Calls, x = Outdated(call) PROVE x \in CallRecords
  BY <1>1, <1>2, <1>3, <1>4 DEF Outdated
<1>5. ASSUME NEW call \in Calls, call.at = "sent", x = Deaf(call) PROVE x \in CallRecords
  <2>1. call \in [at : {"sent"}, call : {"initial", "reset"},
                 session : 0..MaxSessions, deaf : BOOLEAN]
    BY <1>2, <1>5, CallKinds
  <2>2. x \in [at : {"sent"}, call : {"initial", "reset"},
              session : 0..MaxSessions, deaf : BOOLEAN]
    BY <1>5, <2>1 DEF Deaf
  <2> QED BY <2>2 DEF CallRecords
<1>6. \A kind \in {"initial", "reset"} : Sent(kind) \in CallRecords
  BY <1>2 DEF Sent, CallRecords
<1>7. \A s \in 0..MaxSessions : Answered(s) \in CallRecords
  BY DEF Answered, CallRecords
<1> QED BY <1>1, <1>2, <1>3, <1>4, <1>5, <1>6, <1>7, NewSessionTyped DEF Comes

\* Every step keeps the page to its types.
LEMMA PageTypesStep == RoomInv /\ PageTypes /\ [Next]_vars => PageTypes'
<1> SUFFICES ASSUME RoomInv, PageTypes, [Next]_vars PROVE PageTypes'
  OBVIOUS
<1>1. PageTurns /\ \A x \in Calls' : Comes(x)
  BY StepsTurnPage, StepsCarryCalls
<1>2. ServerInv /\ NothingShown \in Views /\ Calls \subseteq CallRecords
  BY CurrentIsAView DEF RoomInv, PageTypes
<1>3. view' \in Views
  BY <1>1, <1>2, CallKinds DEF PageTurns, PageTypes
<1>4. Capability(view) \in Plans \cup {NoPlan}
  BY ViewFacts DEF PageTypes
<1>5. {effect', asked'} \subseteq Plans \cup {NoPlan}
  BY <1>1, <1>4 DEF PageTurns, PageTypes
<1>6. {dirty', armed'} \subseteq BOOLEAN
  BY <1>1 DEF PageTurns, PageTypes
<1>7. cookie' \in 0..MaxSessions
  BY <1>1, <1>2, CallKinds, NewSessionTyped DEF PageTurns, PageTypes
<1>8. due' \subseteq Plans
  BY <1>1 DEF PageTurns, PageTypes
<1>9. \A x \in Calls' : x \in CallRecords
  BY <1>1, <1>2, CallsTyped
<1> QED BY <1>3, <1>5, <1>6, <1>7, <1>8, <1>9 DEF PageTypes

\* The parts of the server, the page and the registry, and every call in
\* progress, keep to their types: no answer or reset makes a call of a kind the
\* page does not know, and no session has two plans in use.
THEOREM RoomTypeCorrect == Spec => []TypeOK
<1>1. Init => PageTypes
  <2> SUFFICES ASSUME Init PROVE PageTypes
    OBVIOUS
  <2>1. cookie \in 0..MaxSessions /\ due \subseteq Plans
    BY ControlRoomAssumption DEF Init, NoSession
  <2>2. Sent("initial") \in CallRecords
    BY <2>1 DEF Sent, CallRecords
  <2>3. Calls = {Sent("initial")}
    BY BagElements DEF Init, Calls
  <2> QED BY <2>1, <2>2, <2>3 DEF Init, PageTypes, Views
<1>2. RoomInv /\ PageTypes => TypeOK
  <2> SUFFICES ASSUME RoomInv, PageTypes PROVE TypeOK
    OBVIOUS
  <2>1. ServerInv /\ Formed(registry)
    BY DEF RoomInv, PageInv, Serves
  <2> QED BY <2>1 DEF TypeOK, ServerInv, ServerType, PageTypes, Formed, PlanStatuses
<1> QED BY <1>1, <1>2, RoomHolds, PageTypesStep, PTL DEF Spec

-----------------------------------------------------------------------------
\* What an agent may find.

\* No registration an agent may find, or that may still be settled for one, is
\* out of the registry's reach, whatever order registrations, cleanups and late
\* rejections come in.
THEOREM NoToolOrphaned == Spec => []NoOrphanedTool
<1>1. RoomInv => NoOrphanedTool
  <2> SUFFICES ASSUME RoomInv, NEW i \in Registrations, i # registry.entry
               PROVE  registry.native[i].aborted
    BY DEF NoOrphanedTool
  <2>1. Unreachable(registry.native[i])
    BY DEF RoomInv, PageInv, Serves
  <2> QED BY <2>1, UnreachableFields
<1> QED BY <1>1, RoomHolds, PTL

\* What an agent finds is the plan asked for.
LEMMA OfferedWasAsked == RoomInv => BoundPlans \subseteq {asked} /\ NoPlan \notin BoundPlans
<1> SUFFICES ASSUME RoomInv
             PROVE  BoundPlans \subseteq {asked} /\ NoPlan \notin BoundPlans
  OBVIOUS
<1>1. Serves(registry, asked) /\ (Findable(registry) => asked # NoPlan)
  BY DEF RoomInv, PageInv, Serves, Findable
<1> QED BY <1>1, EntryIsOffered

\* Between tasks, once the effect of the last capability has run, the tool an
\* agent finds is bound to the plan the page shows as approved.
THEOREM OfferedIsShown == Spec => []OfferIsShown
<1>1. RoomInv => OfferIsShown
  BY OfferedWasAsked DEF RoomInv, PageInv, OfferIsShown
<1> QED BY <1>1, RoomHolds, PTL

\* An agent finds the tool of a plan only after a human approved that plan on
\* the server, whatever answers were lost, late or out of order.
THEOREM OfferedWasApproved == Spec => []OfferWasApproved
<1>1. RoomInv => OfferWasApproved
  BY OfferedWasAsked DEF RoomInv, PageInv, OfferWasApproved
<1> QED BY <1>1, RoomHolds, PTL

\* A tool on offer has an expiry timer that will withdraw it: no path keeps or
\* renews the registration and loses the timer.
THEOREM OfferedHasTimer == Spec => []OfferHasTimer
<1>1. RoomInv => OfferHasTimer
  BY OfferedWasAsked DEF RoomInv, PageInv, OfferHasTimer
<1> QED BY <1>1, RoomHolds, PTL

-----------------------------------------------------------------------------
\* The promise of the execution tool.

\* The plans an agent finds, before and after a step.
LEMMA OfferedNext == RoomInv' => BoundPlans' \subseteq {asked'} /\ NoPlan \notin BoundPlans'
<1>1. (RoomInv => BoundPlans \subseteq {asked} /\ NoPlan \notin BoundPlans)'
  BY OfferedWasAsked, PTL
<1> QED BY <1>1
\* The same of the entry.
LEMMA EntryIsOfferedNext ==
    RoomInv' => BoundPlans' = IF Findable(registry') THEN {asked'} ELSE {}
<1>1. RoomInv => BoundPlans = IF Findable(registry) THEN {asked} ELSE {}
  BY EntryIsOffered DEF RoomInv, PageInv
<1>2. (RoomInv => BoundPlans = IF Findable(registry) THEN {asked} ELSE {})'
  BY <1>1, PTL
<1>3. (Findable(registry))' <=> Findable(registry')
  BY DEF Findable
<1> QED BY <1>2, <1>3

\* A step that asks for no plan dismisses the tool.
LEMMA DismissImplements ==
    ASSUME RoomInv', asked' = NoPlan
    PROVE  Offer!Dismiss
BY OfferedNext DEF Offer!Dismiss

\* The effect asks for a plan's tool, or dismisses it.
LEMMA EffectImplements ==
    ASSUME RoomInv, RoomInv', RunEffect
    PROVE  Offer!Next
<1>1. PICK q : q = Capability(view)
  OBVIOUS
<1>2. asked' = q
  BY <1>1 DEF RunEffect
<1>3. CASE q = NoPlan
  BY <1>2, <1>3, DismissImplements DEF Offer!Next
<1>4. CASE q # NoPlan
  <2>1. q \in Plans /\ (Findable(registry') <=> asked = q /\ Findable(registry))
    BY <1>1, <1>4, EffectServes
  <2>2. BoundPlans = IF Findable(registry) THEN {asked} ELSE {}
    BY EntryIsOffered DEF RoomInv, PageInv
  <2>3. BoundPlans' = BoundPlans \cap {q}
    BY <1>2, <2>1, <2>2, EntryIsOfferedNext
  <2> QED BY <1>2, <2>1, <2>3 DEF Offer!Next, Offer!Ask
<1> QED BY <1>3, <1>4

\* A promise settled makes the tool appear, or nothing of it.
LEMMA SettleImplements ==
    ASSUME RoomInv, RoomInv', NEW i \in Registrations, SettleRegistration(i)
    PROVE  Offer!Appear \/ UNCHANGED Offer!vars
<1>1. asked' = asked /\ Serves(registry, asked) /\ Settle(i)
  BY DEF SettleRegistration, pageVars, RoomInv, PageInv
<1>2. Findable(registry) => Findable(registry')
  BY <1>1, SettledServes
<1>3. BoundPlans = IF Findable(registry) THEN {asked} ELSE {}
  BY <1>1, EntryIsOffered
<1>4. BoundPlans' = IF Findable(registry') THEN {asked} ELSE {}
  BY <1>1, EntryIsOfferedNext
<1>5. Findable(registry') => asked # NoPlan
  BY <1>1, <1>4, OfferedNext
<1> QED BY <1>1, <1>2, <1>3, <1>4, <1>5 DEF Offer!Appear, Offer!vars

\* The tool is dismissed by a reset, a reload and the expiry timer only, asked
\* for by the effect only, and once it is on offer nothing else takes it away:
\* unregister followed by register in one task keeps it.
THEOREM RoomImplementsOffer == Spec => OfferImplemented
<1>1. Init => Offer!Init
  <2> SUFFICES ASSUME Init PROVE asked = NoPlan /\ BoundPlans = {}
    BY DEF Offer!Init
  <2>1. RoomInv /\ asked = NoPlan
    BY RoomInit DEF Init
  <2> QED BY <2>1, OfferedWasAsked
<1>2. RoomInv /\ RoomInv' /\ [Next]_vars => [Offer!Next]_(Offer!vars)
  <2> SUFFICES ASSUME RoomInv, RoomInv', [Next]_vars
               PROVE  Offer!Next \/ UNCHANGED Offer!vars
    OBVIOUS
  <2>1. ASSUME UNCHANGED <<registry, asked>> PROVE UNCHANGED Offer!vars
    BY <2>1 DEF Offer!vars, BoundPlans, Offered
  <2>2. ASSUME NEW p \in Plans, ServerPassesDeadline(p) \/ BrowserPassesDeadline(p)
        PROVE  UNCHANGED <<registry, asked>>
    BY <2>2 DEF ServerPassesDeadline, BrowserPassesDeadline, pageVars
  <2>3. ASSUME Commands PROVE UNCHANGED <<registry, asked>>
    BY <2>3, CommandsMove DEF Command
  <2>4. CASE ResetDemo \/ Reload \/ ExpiryTimer
    BY <2>4, DismissImplements DEF ResetDemo, Reload, ExpiryTimer, Offer!Next
  <2>5. ASSUME NEW call \in Calls, Network(call) \/ Apply(call)
        PROVE  UNCHANGED <<registry, asked>>
    BY <2>5 DEF Network, Create, Resume, ServeReset, Continue, Fail, Apply
  <2>6. CASE RunEffect
    BY <2>6, EffectImplements
  <2>7. ASSUME NEW i \in Registrations, SettleRegistration(i)
        PROVE  Offer!Next \/ UNCHANGED Offer!vars
    BY <2>7, SettleImplements DEF Offer!Next
  <2>8. ASSUME UNCHANGED vars PROVE UNCHANGED <<registry, asked>>
    BY <2>8 DEF vars, pageVars
  <2> QED BY <2>1, <2>2, <2>3, <2>4, <2>5, <2>6, <2>7, <2>8 DEF Next, Commands, Network
<1> QED BY <1>1, <1>2, RoomHolds, PTL DEF Spec, OfferImplemented, Offer!Spec

-----------------------------------------------------------------------------
\* A plan that is over.

\* A plan that is closed on the server is closed for good.
LEMMA ClosedStays ==
    ASSUME RoomInv, [Next]_vars, NEW p \in Plans, server.status[p] = "closed"
    PROVE  server'.status[p] = "closed"
<1>1. server.status \in [Plans -> PlanStatuses] /\ p \notin Active
  BY DEF RoomInv, ServerInv, ServerType, Active
<1>2. CASE PlanMoves
  <2>1. PICK q \in Plans : \/ Sets(q, "prepared") /\ server.status[q] = "none"
                           \/ Sets(q, "approved") /\ q \in Active
                           \/ Sets(q, "closed")
    BY <1>2, PlanMovesSet DEF RoomInv
  <2> QED BY <1>1, <2>1 DEF Sets
<1>3. CASE OpenSession
  BY <1>1, <1>3 DEF OpenSession, RoomInv, ServerInv, ServerType
<1> QED BY <1>2, <1>3, StepsTurnServer

\* What the server shows is no plan that is closed.
LEMMA CurrentIsNotClosed ==
    ASSUME NEW p \in Plans, server.status[p] = "closed"
    PROVE  Capability(CurrentRecovery) # p /\ Capability(NothingShown) # p
<1>1. Capability(NothingShown) # p
  BY ControlRoomAssumption DEF Capability, NothingShown, Plans, NoPlan
<1>2. CASE server.newest \in Active
  <2>1. server.newest # p
    BY <1>2 DEF Active
  <2> QED BY <1>1, <1>2, <2>1, ControlRoomAssumption
             DEF CurrentRecovery, Capability, Plans, NoPlan
<1> QED BY <1>1, <1>2 DEF CurrentRecovery

\* A step that finds a plan forgotten leaves it so.
LEMMA ForgottenStays ==
    ASSUME RoomInv, RoomInv', [Next]_vars, NEW p \in Plans, Forgotten(p)
    PROVE  Forgotten(p)' /\ p \notin BoundPlans'
<1>1. PageTurns /\ \A x \in Calls' : Comes(x)
  BY StepsTurnPage, StepsCarryCalls
<1>2. /\ server.status[p] = "closed" /\ asked # p /\ Capability(view) # p
      /\ \A call \in Calls : call.at = "loaded" => Capability(call.shown) # p
  BY DEF Forgotten
<1>3. server'.status[p] = "closed"
  BY <1>2, ClosedStays
<1>4. Capability(CurrentRecovery) # p /\ Capability(NothingShown) # p /\ NoPlan # p
  BY <1>2, CurrentIsNotClosed, ControlRoomAssumption DEF Plans, NoPlan
<1>5. asked' # p
  BY <1>1, <1>2, <1>4 DEF PageTurns
<1>6. Capability(view') # p
  BY <1>1, <1>2, <1>4 DEF PageTurns
<1>7. ASSUME NEW x \in Calls', x.at = "loaded" PROVE Capability(x.shown) # p
  <2>1. \A call \in Calls : "at" \in DOMAIN call
    BY DEF RoomInv, PageInv, CallsInv, CallInv
  <2>2. Comes(x)
    BY <1>1, <1>7
  <2>3. CASE x \in Calls
    BY <1>2, <1>7, <2>3
  <2>4. ASSUME NEW call \in Calls, x = Outdated(call) PROVE Capability(x.shown) # p
    BY <1>2, <1>4, <1>7, <2>4, LoadedSays DEF Outdated
  <2>5. ASSUME NEW call \in Calls, call.at = "sent", x = Deaf(call) PROVE FALSE
    BY <1>7, <2>1, <2>5 DEF Deaf
  <2>6. ASSUME NEW kind, x = Sent(kind) \/ x = Answered(kind) PROVE FALSE
    BY <1>7, <2>6, SentSaysNothing, AnsweredSaysNothing
  <2>7. ASSUME NEW kind, x = Loaded(kind, NothingShown) \/ x = Loaded(kind, CurrentRecovery)
        PROVE  Capability(x.shown) # p
    BY <1>4, <2>7, LoadedSays
  <2> QED BY <2>2, <2>3, <2>4, <2>5, <2>6, <2>7 DEF Comes
<1>8. Capability(view)' # p /\ \A x \in Calls' : x.at = "loaded" => Capability(x.shown)' # p
  BY <1>6, <1>7 DEF Capability
<1>9. Forgotten(p)'
  BY <1>3, <1>5, <1>8 DEF Forgotten
<1> QED BY <1>5, <1>9, OfferedNext

\* A plan that is closed, and that neither the page nor an answer on its way
\* shows as approved, has no tool ever again: what RunEffect, late answers,
\* reloads and registrations may bring back is another plan's.
THEOREM ForgottenPlansStayAway == Spec => ForgottenForGood
<1>1. RoomInv /\ RoomInv' /\ [Next]_vars
        => [\A p \in Plans : Forgotten(p) => Forgotten(p)' /\ p \notin BoundPlans']_vars
  BY ForgottenStays
<1> QED BY <1>1, RoomHolds, PTL DEF Spec, ForgottenForGood

-----------------------------------------------------------------------------
\* The lifecycle of the server.

\* What the mapping says: only the newest session holds any authority, that of
\* its one active plan.
MappingFacts ==
    /\ \A s \in 1..MaxSessions : s # server.session =>
         AuthorityOf(s) = "closed" /\ OutcomeOf(s) = "broken"
    /\ Active = {} => AuthorityOf(server.session) = "idle"
    /\ \A p \in Active : AuthorityOf(server.session) =
         IF server.status[p] = "prepared" THEN "proposed" ELSE "granted"
    /\ OutcomeOf(server.session) =
         IF server.incident = "resolved" THEN "recovered" ELSE "broken"
\* It holds because there is one active plan at most.
LEMMA MappingHolds == ServerInv => MappingFacts
<1> SUFFICES ASSUME ServerInv PROVE MappingFacts
  OBVIOUS
<1>1. ASSUME NEW p \in Active
      PROVE  /\ server.status[p] \in {"prepared", "approved"}
             /\ (\E q \in Active : server.status[q] = "approved")
                  <=> server.status[p] = "approved"
  BY <1>1 DEF ServerInv, Active
<1> QED BY <1>1 DEF MappingFacts, AuthorityOf, OutcomeOf

\* The same after a step.
LEMMA MappingHoldsNext == ServerInv' => MappingFacts'
<1>1. (ServerInv => MappingFacts)'
  BY MappingHolds, PTL
<1> QED BY <1>1

\* A step that leaves the server leaves the lifecycle.
LEMMA ServerStutters == server' = server => UNCHANGED Authority!vars
BY DEF Authority!vars, AuthorityOf, OutcomeOf, Active

\* A step of the newest session that moves it as an abstract action does is
\* that action.
LEMMA NewestImplements ==
    ASSUME ServerInv, ServerInv', server'.session = server.session,
           NEW s, s = server.session, s \in 1..MaxSessions
    PROVE  /\ /\ AuthorityOf(s) # "closed" /\ OutcomeOf(s) = "broken"
              /\ AuthorityOf(s)' = "proposed" /\ OutcomeOf(s)' = OutcomeOf(s)
              => Authority!Propose(s)
           /\ /\ AuthorityOf(s) = "proposed"
              /\ AuthorityOf(s)' = "granted" /\ OutcomeOf(s)' = OutcomeOf(s)
              => Authority!Grant(s)
           /\ /\ AuthorityOf(s) \in {"proposed", "granted"}
              /\ AuthorityOf(s)' = "idle" /\ OutcomeOf(s)' = OutcomeOf(s)
              => Authority!Withdraw(s)
           /\ /\ AuthorityOf(s) = "granted" /\ OutcomeOf(s) = "broken"
              /\ AuthorityOf(s)' = "idle" /\ OutcomeOf(s)' = "recovered"
              => Authority!Recover(s)
           /\ /\ AuthorityOf(s)' = AuthorityOf(s) /\ OutcomeOf(s)' = OutcomeOf(s)
              => UNCHANGED Authority!vars
<1> DEFINE before == [t \in 1..MaxSessions |-> AuthorityOf(t)]
           after == [t \in 1..MaxSessions |-> AuthorityOf(t)']
           was == [t \in 1..MaxSessions |-> OutcomeOf(t)]
           is == [t \in 1..MaxSessions |-> OutcomeOf(t)']
<1>1. \A t \in 1..MaxSessions : t # s =>
        AuthorityOf(t)' = AuthorityOf(t) /\ OutcomeOf(t)' = OutcomeOf(t)
  BY MappingHolds, MappingHoldsNext DEF MappingFacts
<1>2. /\ after = [before EXCEPT ![s] = AuthorityOf(s)']
      /\ is = [was EXCEPT ![s] = OutcomeOf(s)']
  BY <1>1
<1>3. OutcomeOf(s)' = OutcomeOf(s) => is = was
  BY <1>1
<1>4. AuthorityOf(s)' = AuthorityOf(s) => after = before
  BY <1>1
<1>5. before[s] = AuthorityOf(s) /\ was[s] = OutcomeOf(s)
  OBVIOUS
<1> QED
  BY <1>2, <1>3, <1>4, <1>5
     DEF Authority!Propose, Authority!Grant, Authority!Withdraw, Authority!Recover,
         Authority!vars

\* A command proposes, grants, withdraws or recovers, or repeats an approval.
LEMMA PlanMovesImplement ==
    ASSUME ServerInv, ServerInv', PlanMoves
    PROVE  [Authority!Next]_(Authority!vars)
<1> DEFINE s == server.session
           Implements == [Authority!Next]_(Authority!vars)
<1>1. /\ MappingFacts /\ MappingFacts' /\ server.status \in [Plans -> PlanStatuses]
      /\ \A p, q \in Active : p = q
      /\ Active # {} => s # NoSession /\ server.incident = "active"
      /\ server.session \in 0..MaxSessions
  BY MappingHolds, MappingHoldsNext DEF ServerInv, ServerType
<1>2. s # NoSession => s \in 1..MaxSessions
  BY <1>1, ControlRoomAssumption DEF NoSession
<1>3. ASSUME NEW a \in 1..MaxSessions,
             Authority!Propose(a) \/ Authority!Grant(a) \/ Authority!Withdraw(a)
             \/ Authority!Recover(a) \/ UNCHANGED Authority!vars
      PROVE  Implements
  BY <1>3 DEF Authority!Next
<1>4. ASSUME NEW p \in Plans, NEW to \in PlanStatuses, Sets(p, to)
      PROVE  /\ s' = s
             /\ \A q \in Plans : server'.status[q] = IF q = p THEN to ELSE server.status[q]
  BY <1>1, <1>4 DEF Sets
<1> HIDE DEF Implements
<1>5. ASSUME NEW p \in Plans, Sets(p, "prepared"), server'.incident = server.incident,
             Active = {}, s # NoSession, server.incident = "active"
      PROVE  Implements
  <2>1. p \in Active' /\ server'.status[p] = "prepared" /\ s' = s
    BY <1>4, <1>5 DEF Active, PlanStatuses
  <2>2. /\ AuthorityOf(s) # "closed" /\ OutcomeOf(s) = "broken"
        /\ AuthorityOf(s)' = "proposed" /\ OutcomeOf(s)' = OutcomeOf(s)
    BY <1>1, <1>5, <2>1 DEF MappingFacts
  <2> QED BY <1>2, <1>3, <1>5, <2>1, <2>2, NewestImplements
<1>6. ASSUME NEW p \in Active, Sets(p, "approved"), server'.incident = server.incident
      PROVE  Implements
  <2>1. p \in Plans /\ server.status[p] \in {"prepared", "approved"}
    BY DEF Active
  <2>2. p \in Active' /\ server'.status[p] = "approved" /\ s' = s
    BY <1>4, <1>6, <2>1 DEF Active, PlanStatuses
  <2>3. /\ AuthorityOf(s) \in {"proposed", "granted"} /\ AuthorityOf(s)' = "granted"
        /\ OutcomeOf(s)' = OutcomeOf(s)
    BY <1>1, <1>6, <2>1, <2>2 DEF MappingFacts
  <2> QED BY <1>1, <1>2, <1>3, <2>2, <2>3, NewestImplements
<1>7. ASSUME NEW p \in Active, Sets(p, "closed")
      PROVE  /\ s' = s /\ s \in 1..MaxSessions /\ AuthorityOf(s)' = "idle"
             /\ AuthorityOf(s) = IF server.status[p] = "prepared" THEN "proposed" ELSE "granted"
             /\ OutcomeOf(s) = "broken"
             /\ OutcomeOf(s)' = IF server'.incident = "resolved" THEN "recovered" ELSE "broken"
  <2>1. p \in Plans
    BY DEF Active
  <2>2. s' = s /\ Active' = Active \ {p}
    BY <1>4, <1>7, <2>1 DEF Active, PlanStatuses
  <2>3. Active' = {}
    BY <1>1, <2>2
  <2> QED BY <1>1, <1>2, <2>2, <2>3 DEF MappingFacts
<1>8. ASSUME NEW p \in Active, Sets(p, "closed"), server'.incident = server.incident
      PROVE  Implements
  <2>1. server'.incident = "active"
    BY <1>1, <1>8
  <2> QED BY <1>3, <1>7, <1>8, <2>1, NewestImplements
<1>9. ASSUME NEW p \in Plans, Sets(p, "closed"), server'.incident = "resolved",
             server.status[p] = "approved"
      PROVE  Implements
  <2>1. p \in Active
    BY <1>9 DEF Active
  <2> QED BY <1>3, <1>7, <1>9, <2>1, NewestImplements
<1>10. Implements
  BY <1>5, <1>6, <1>8, <1>9, PlanMovesSet
<1> QED BY <1>10 DEF Implements

\* A session opened ends the newest one.
LEMMA OpenImplements ==
    ASSUME ServerInv, OpenSession
    PROVE  Authority!Next
<1> DEFINE new == server.session + 1
           ended == {server.session} \cap (1..MaxSessions)
<1>1. MappingFacts /\ server.session \in 0..MaxSessions
  BY MappingHolds DEF ServerInv, ServerType
<1>2. /\ ServerInv' /\ Active' = {} /\ server'.session = new /\ new \in 1..MaxSessions
      /\ server'.incident = "active"
  BY OpenSets
<1>3. MappingFacts'
  BY <1>2, MappingHoldsNext
<1>4. AuthorityOf(new) = "closed"
  BY <1>1, <1>2 DEF MappingFacts
<1>5. \A t \in 1..MaxSessions :
        AuthorityOf(t)' = IF t = new THEN "idle" ELSE IF t \in ended THEN "closed"
                          ELSE AuthorityOf(t)
  BY <1>1, <1>2, <1>3 DEF MappingFacts
<1>6. \A t \in 1..MaxSessions :
        OutcomeOf(t)' = IF t = new \/ t \in ended THEN "broken" ELSE OutcomeOf(t)
  BY <1>1, <1>2, <1>3 DEF MappingFacts
<1>7. Authority!Open(new, ended)
  <2> HIDE DEF new, ended
  <2> QED BY <1>2, <1>4, <1>5, <1>6 DEF Authority!Open
<1>8. ended \in SUBSET (1..MaxSessions)
  OBVIOUS
<1> QED BY <1>2, <1>7, <1>8 DEF Authority!Next

\* The server the page talks to has the lifecycle the transactions of
\* RecoveryStore have: both implement RecoveryAuthority, whatever the page, its
\* commands and its late answers do.
THEOREM RoomImplementsAuthority == Spec => AuthorityImplemented
<1>1. Init => Authority!Init
  <2> SUFFICES ASSUME Init, NEW s \in 1..MaxSessions
               PROVE  AuthorityOf(s) = "closed" /\ OutcomeOf(s) = "broken"
    BY DEF Authority!Init
  <2>1. MappingFacts /\ server.session = NoSession
    BY RoomInit, MappingHolds DEF RoomInv, Init
  <2> QED BY <2>1 DEF MappingFacts, NoSession
<1>2. RoomInv /\ RoomInv' /\ [Next]_vars => [Authority!Next]_(Authority!vars)
  <2> SUFFICES ASSUME RoomInv, RoomInv', [Next]_vars
               PROVE  [Authority!Next]_(Authority!vars)
    OBVIOUS
  <2>1. server' = server \/ PlanMoves \/ OpenSession
    BY StepsTurnServer
  <2> QED
    BY <2>1, ServerStutters, PlanMovesImplement, OpenImplements DEF RoomInv
<1> QED BY <1>1, <1>2, RoomHolds, PTL DEF Spec, AuthorityImplemented, Authority!Spec
=============================================================================
