---------------------------- MODULE KeyboardInput ----------------------------
(***************************************************************************)
(* The keyboard half of the input tool (src/src/tools/input/InputTool.cpp) *)
(* with the game's keyboard back end (game/.../input/InputBackend.cpp).    *)
(* A client leases a key; the press and the release travel to the main     *)
(* thread through RunAndWait, each with a gate that lets it be revoked     *)
(* while it is queued; a watchdog releases what has expired, what a        *)
(* lifecycle message invalidated and what the game refused to release.     *)
(* What RunAndWait does inside is MainThread's: here a queued command is   *)
(* run, or revoked by its caller's timeout, never both.                    *)
(***************************************************************************)
EXTENDS Integers, Sequences, FiniteSets, SequencesExt

CONSTANTS
    Keys,       \* scan codes
    Clients,    \* listener threads
    Owner,      \* Owner[c]: in whose name c calls
    Calls,      \* Calls[c]: what c may ask, each a sequence of steps, see below
    MaxHeld,    \* kMaximumHeldKeys
    MaxGen      \* bound: the number of leases ever given

ASSUME InputAssumption == /\ Keys # {}
                          /\ MaxHeld \in Nat \ {0}
                          /\ MaxGen \in Nat \ {0}
                          /\ {"watchdog", "shutdown"} \intersect Clients = {}

Actors == Clients \union {"watchdog"}
Generations == 1..MaxGen

(***************************************************************************)
(* The steps of a call.  A plain down is <<Press(k, FALSE, FALSE)>>, a tap *)
(* <<Press(k, TRUE, FALSE), Lift(k)>>; the presses of a sequence must be   *)
(* fresh too, and it opens them: what it opened is released if it fails.   *)
(***************************************************************************)
Step(do, k, g, fresh, opens) == [do |-> do, key |-> k, gen |-> g, fresh |-> fresh, opens |-> opens]
Press(k, fresh, opens) == Step("press", k, 0, fresh, opens)
Lift(k) == Step("lift", k, 0, FALSE, FALSE)
ReleaseAll == Step("releaseAll", CHOOSE k \in Keys : TRUE, 0, FALSE, FALSE)

\* What a client may ask step by step.
Requests == {Press(k, fresh, opens) : k \in Keys, fresh, opens \in BOOLEAN}
            \union {Lift(k) : k \in Keys} \union {ReleaseAll}

ASSUME CallsAssumption ==
    \A c \in Clients : \A call \in Calls[c] :
        /\ call \in Seq(Requests)
        /\ \A i \in DOMAIN call : call[i].opens => call[i].fresh

\* A lease that a loop releases, whatever comes of it.
Release(k, g) == Step("release", k, g, FALSE, FALSE)

VARIABLES
    lease,      \* lease[k]: the entry of k in leases and active, NoLease if none
    gens,       \* the last generation handed out
    press,      \* press[g]: the gate of g's press, "none" before SubmitDown
    lift,       \* lift[g]: the gate of g's release, "none" when none is under way
    accepting,  \* accepting, and with it ready
    lifecycle,  \* lifecyclePending
    stop,       \* workerStop
    pc,         \* where each listener thread, the watchdog and Shutdown are
    todo,       \* todo[a]: the steps a has left
    opened,     \* opened[a]: the leases a's sequence opened, as Release steps
    cmd,        \* cmd[a]: the command a dispatches
    queue,      \* the main thread's commands
    run,        \* the one it runs, a sequence of length <= 1
    outcome,    \* what the back end made of it, "none" if it runs none
    held,       \* held[k]: whose synthetic press the game saw last, 0 if lifted
    overtaken   \* history: the generations whose release was decided before
                \* their press was submitted

leaseVars == <<lease, gens, press, lift>>
switches  == <<accepting, lifecycle, stop>>
actorVars == <<pc, todo, opened, cmd>>
mainVars  == <<run, outcome, held>>
vars == <<leaseVars, switches, actorVars, queue, mainVars, overtaken>>

NoLease == [gen |-> 0, owner |-> "none", phase |-> "none"]
Command(k, g, up) == [key |-> k, gen |-> g, up |-> up]
NoCommand == Command(CHOOSE k \in Keys : TRUE, 0, FALSE)

Init ==
    /\ lease = [k \in Keys |-> NoLease] /\ gens = 0
    /\ press = [g \in Generations |-> "none"]
    /\ lift = [g \in Generations |-> "none"]
    /\ accepting = TRUE /\ lifecycle = FALSE /\ stop = FALSE
    /\ pc = [a \in Actors \union {"shutdown"} |-> IF a \in Clients THEN "new" ELSE "idle"]
    /\ todo = [a \in Actors |-> <<>>]
    /\ opened = [a \in Actors |-> {}]
    /\ cmd = [a \in Actors |-> NoCommand]
    /\ queue = <<>> /\ run = <<>> /\ outcome = "none"
    /\ held = [k \in Keys |-> 0]
    /\ overtaken = {}

Goto(a, where) == pc' = [pc EXCEPT ![a] = where]
At(a, where) == pc[a] = where
Doing(a, do) == todo[a] # <<>> /\ Head(todo[a]).do = do
Held == {k \in Keys : lease[k] # NoLease}
Releases(keys) == {Release(k, lease[k].gen) : k \in keys}

-----------------------------------------------------------------------------
(* The end of a step of a's, and what a does after it.                     *)

Succeeds(a) ==
    /\ Goto(a, "idle")
    /\ cmd' = [cmd EXCEPT ![a] = NoCommand]
    /\ todo' = [todo EXCEPT ![a] = Tail(@)]
    /\ opened' = [opened EXCEPT ![a] =
           IF Doing(a, "lift") THEN {o \in @ : o.key # Head(todo[a]).key}
           ELSE IF Head(todo[a]).opens THEN @ \union {Release(cmd[a].key, cmd[a].gen)} ELSE @]

\* The call throws: the rest of it is lost, what its sequence opened is released.
Throws(a) ==
    /\ Goto(a, "idle")
    /\ cmd' = [cmd EXCEPT ![a] = NoCommand]
    /\ todo' = [todo EXCEPT ![a] = SetToSeq(opened[a])]
    /\ opened' = [opened EXCEPT ![a] = {}]

\* A loop over releases goes on after a failure.
Ends(a, ok) == IF ok \/ Doing(a, "release") THEN Succeeds(a) ELSE Throws(a)

-----------------------------------------------------------------------------
(* The completions of a command, under the service's mutex.                *)

\* OnDownComplete: a press that failed retires its lease and cancels the
\* release that is on its way.
DownComplete(k, g, ok) ==
    /\ IF lease[k].gen # g THEN UNCHANGED <<lease, lift>>
       ELSE IF ok
       THEN /\ lease' = [lease EXCEPT ![k].phase = IF @ = "downPending" THEN "pressed" ELSE @]
            /\ UNCHANGED lift
       ELSE /\ lease' = [lease EXCEPT ![k] = NoLease]
            /\ lift' = [lift EXCEPT ![g] = IF @ = "queued" THEN "cancelled" ELSE @]
    /\ press' = [press EXCEPT ![g] = IF @ = "begun" THEN "none" ELSE @]
    /\ UNCHANGED gens

\* OnReleaseComplete: the lease ends with a release that the game accepted.
UpComplete(k, g, ok) ==
    /\ lease' = [lease EXCEPT ![k] = IF @.gen # g THEN @
                                     ELSE IF ok THEN NoLease
                                     ELSE [@ EXCEPT !.phase = "releaseRetry"]]
    /\ lift' = [lift EXCEPT ![g] = "none"]
    /\ UNCHANGED <<gens, press>>

Complete(m, ok) == IF m.up THEN UpComplete(m.key, m.gen, ok) ELSE DownComplete(m.key, m.gen, ok)

-----------------------------------------------------------------------------
(* Dispatch: RunAndWait with a second's deadline.                          *)

Dispatch(a) ==
    /\ At(a, "dispatch")
    /\ queue' = Append(queue, cmd[a])
    /\ Goto(a, "wait")
    /\ UNCHANGED <<leaseVars, switches, todo, opened, cmd, mainVars, overtaken>>

\* The extender refuses the task: the completion runs on a's own thread.
DispatchFails(a) ==
    /\ At(a, "dispatch")
    /\ Complete(cmd[a], FALSE)
    /\ Ends(a, FALSE)
    /\ UNCHANGED <<switches, queue, mainVars, overtaken>>

TimeoutOnceBegun(a) ==
    /\ At(a, "wait") /\ \A i \in DOMAIN queue : queue[i] # cmd[a]
    /\ Succeeds(a)
    /\ UNCHANGED <<leaseVars, switches, queue, mainVars, overtaken>>

\* 504: a command that has not begun is revoked without a completion, one that
\* has begun completes without a waiter.  To the caller both are "pending".
Timeout(a) ==
    /\ At(a, "wait")
    /\ \/ \E i \in DOMAIN queue : queue[i] = cmd[a] /\ queue' = RemoveAt(queue, i)
       \/ (\A i \in DOMAIN queue : queue[i] # cmd[a]) /\ UNCHANGED queue
    /\ Succeeds(a)
    /\ UNCHANGED <<leaseVars, switches, mainVars, overtaken>>

-----------------------------------------------------------------------------
(* Down, on a listener thread.                                             *)

\* A call arrives, and passes the RequireReady of its first step; the later
\* steps of a tap or of a sequence check again.
Call(c) ==
    /\ At(c, "new") /\ accepting
    /\ \E call \in Calls[c] : todo' = [todo EXCEPT ![c] = call]
    /\ Goto(c, "ready")
    /\ UNCHANGED <<leaseVars, switches, opened, cmd, queue, mainVars, overtaken>>

RequireReady(c) ==
    /\ At(c, "idle") /\ todo[c] # <<>> /\ ~Doing(c, "release")
    /\ IF accepting THEN Goto(c, "ready") /\ UNCHANGED <<todo, opened, cmd>> ELSE Throws(c)
    /\ UNCHANGED <<leaseVars, switches, queue, mainVars, overtaken>>

Refused(c, k) ==
    \/ lease[k] = NoLease /\ Cardinality(Held) >= MaxHeld
    \/ lease[k] # NoLease /\ (lease[k].owner # Owner[c] \/ Head(todo[c]).fresh)

\* Down up to the end of its first critical section: refused, held already, or
\* leased.  No gate guards the press yet.
Acquire(c) ==
    /\ At(c, "ready") /\ Doing(c, "press")
    /\ LET k == Head(todo[c]).key
           g == gens + 1
       IN \/ /\ Refused(c, k) /\ Throws(c)
             /\ UNCHANGED leaseVars
          \/ /\ ~Refused(c, k) /\ lease[k] # NoLease /\ Succeeds(c)
             /\ UNCHANGED leaseVars
          \/ /\ ~Refused(c, k) /\ lease[k] = NoLease /\ g \in Generations
             /\ lease' = [lease EXCEPT ![k] = [gen |-> g, owner |-> Owner[c],
                                               phase |-> "downPending"]]
             /\ gens' = g
             /\ cmd' = [cmd EXCEPT ![c] = Command(k, g, FALSE)]
             /\ Goto(c, "submit")
             /\ UNCHANGED <<press, lift, todo, opened>>
    /\ UNCHANGED <<switches, queue, mainVars, overtaken>>

\* SubmitDown: the lease may be gone again by now.
SubmitDown(c) ==
    /\ At(c, "submit")
    /\ LET k == cmd[c].key
           g == cmd[c].gen
       IN IF lease[k].gen # g
          THEN Throws(c) /\ UNCHANGED press
          ELSE /\ press' = [press EXCEPT ![g] = "queued"]
               /\ Goto(c, "dispatch")
               /\ UNCHANGED <<todo, opened, cmd>>
    /\ UNCHANGED <<lease, gens, lift, switches, queue, mainVars, overtaken>>

-----------------------------------------------------------------------------
(* Up, releaseAll and the release of one lease.                            *)

\* Up finds the lease and checks its owner, in a critical section of its own.
Find(c) ==
    /\ At(c, "ready") /\ Doing(c, "lift")
    /\ LET k == Head(todo[c]).key
       IN \/ lease[k] = NoLease /\ Succeeds(c)
          \/ lease[k] # NoLease /\ lease[k].owner # Owner[c] /\ Throws(c)
          \/ /\ lease[k] # NoLease /\ lease[k].owner = Owner[c]
             /\ cmd' = [cmd EXCEPT ![c] = Command(k, lease[k].gen, TRUE)]
             /\ Goto(c, "release")
             /\ UNCHANGED <<todo, opened>>
    /\ UNCHANGED <<leaseVars, switches, queue, mainVars, overtaken>>

SelectOwn(c) ==
    /\ At(c, "ready") /\ Doing(c, "releaseAll")
    /\ todo' = [todo EXCEPT ![c] =
                    SetToSeq(Releases({k \in Held : lease[k].owner = Owner[c]})) \o Tail(@)]
    /\ Goto(c, "idle")
    /\ UNCHANGED <<leaseVars, switches, opened, cmd, queue, mainVars, overtaken>>

\* The lease that a is about to release.
Target(a) == IF Doing(a, "release") THEN Command(Head(todo[a]).key, Head(todo[a]).gen, TRUE)
                                    ELSE cmd[a]

\* DispatchGate::Cancel on the gate of a press.
RevokesBegun(g) == press[g] \in {"queued", "begun"}
Revokes(g) == press[g] = "queued"

AnyLease(k, g) == lease[k] # NoLease
SameLease(k, g) == lease[k].gen = g

PendingIgnored(k) == FALSE
Pending(k) == lease[k].phase = "releasePending"

\* ReleaseGeneration: nothing to do, cancelled before it was pressed, or an up
\* to dispatch.
ReleaseGeneration(a) ==
    /\ At(a, "release") \/ (At(a, "idle") /\ Doing(a, "release"))
    /\ LET k == Target(a).key
           g == Target(a).gen
       IN \/ /\ ~SameLease(k, g) \/ Pending(k)
             /\ Succeeds(a)
             /\ UNCHANGED <<leaseVars, overtaken>>
          \/ /\ SameLease(k, g) /\ lease[k].phase = "downPending" /\ Revokes(g)
             /\ press' = [press EXCEPT ![g] = "cancelled"]
             /\ lease' = [lease EXCEPT ![k] = NoLease]
             /\ Succeeds(a)
             /\ UNCHANGED <<gens, lift, overtaken>>
          \/ /\ SameLease(k, g) /\ ~Pending(k)
             /\ ~(lease[k].phase = "downPending" /\ Revokes(g))
             /\ lease' = [lease EXCEPT ![k].phase = "releasePending"]
             /\ lift' = [lift EXCEPT ![g] = "queued"]
             /\ overtaken' = IF lease[k].phase = "downPending" /\ press[g] = "none"
                             THEN overtaken \union {g} ELSE overtaken
             /\ cmd' = [cmd EXCEPT ![a] = Target(a)]
             /\ Goto(a, "dispatch")
             /\ UNCHANGED <<gens, press, todo, opened>>
    /\ UNCHANGED <<switches, queue, mainVars>>

-----------------------------------------------------------------------------
(* The main thread: the lambda of DispatchButton.                          *)

\* DispatchGate::TryBegin.
Begins(gate) == gate = "queued"

\* The next command, whose gate was revoked while it was queued or is begun now.
Took(m, begun) ==
    /\ run = <<>> /\ queue # <<>> /\ m = Head(queue)
    /\ begun = Begins(IF m.up THEN lift[m.gen] ELSE press[m.gen])
    /\ run' = <<m>> /\ queue' = Tail(queue)
    /\ lift'  = IF begun /\ m.up THEN [lift EXCEPT ![m.gen] = "begun"] ELSE lift
    /\ press' = IF begun /\ ~m.up THEN [press EXCEPT ![m.gen] = "begun"] ELSE press
    /\ UNCHANGED <<lease, gens, switches, actorVars, overtaken>>

\* ApplyButton, in one step with TryBegin: until the completion nobody sees
\* more of it than the gate.  An up for a key that the player holds by now
\* counts as done, the player's own release will follow; so does kUnknown,
\* reported when the event may or may not have been appended.
MainApplies ==
    \E m \in Range(queue) :
        /\ Took(m, TRUE)
        /\ outcome' = "ok"
        /\ held' = [held EXCEPT ![m.key] = IF m.up THEN 0 ELSE m.gen]

\* The key is physically down, the event pool full, the device missing; or the
\* command was cancelled.
MainRefuses ==
    \E m \in Range(queue), begun \in BOOLEAN :
        /\ Took(m, begun)
        /\ outcome' = "failed"
        /\ UNCHANGED held

\* The completion, and with it the answer to a caller that still waits.
MainCompletes ==
    /\ run # <<>> /\ outcome # "none"
    /\ Complete(run[1], outcome = "ok")
    /\ run' = <<>> /\ outcome' = "none"
    /\ LET waiting == {a \in Actors : At(a, "wait") /\ cmd[a] = run[1]}
       IN IF waiting = {} THEN UNCHANGED actorVars
          ELSE \E a \in waiting : Ends(a, outcome = "ok")
    /\ UNCHANGED <<switches, queue, held, overtaken>>

Main == MainApplies \/ MainRefuses \/ MainCompletes

-----------------------------------------------------------------------------
(* Lifecycle messages, the watchdog and Shutdown.                          *)

\* CancelQueuedDownsLocked.
CancelQueuedDowns ==
    LET revoked == {k \in Held : lease[k].phase = "downPending" /\ Revokes(lease[k].gen)}
    IN /\ lease' = [k \in Keys |-> IF k \in revoked THEN NoLease ELSE lease[k]]
       /\ press' = [g \in Generations |->
                        IF \E k \in revoked : lease[k].gen = g THEN "cancelled" ELSE press[g]]
       /\ UNCHANGED <<gens, lift>>

\* RequestLifecycleRelease: a game is loaded, or the main menu opens.
ReleaseForLifecycle ==
    /\ ~lifecycle
    /\ CancelQueuedDowns
    /\ lifecycle' = TRUE
    /\ UNCHANGED <<accepting, stop, actorVars, queue, mainVars, overtaken>>

WatchdogRetries ==
    /\ At("watchdog", "idle") /\ todo["watchdog"] = <<>> /\ ~stop
    /\ LET due == IF lifecycle THEN Held ELSE {k \in Held : lease[k].phase = "releaseRetry"}
       IN /\ due # {} \/ lifecycle
          /\ todo' = [todo EXCEPT !["watchdog"] = SetToSeq(Releases(due))]
    /\ lifecycle' = FALSE
    /\ UNCHANGED <<leaseVars, accepting, stop, pc, opened, cmd, queue, mainVars, overtaken>>

\* WatchdogLoop: one look at the table.  Any lease may have expired by then, and
\* a retry is due when the watchdog comes to it.
WatchdogSelects ==
    /\ At("watchdog", "idle") /\ todo["watchdog"] = <<>> /\ ~stop
    /\ \E expired \in SUBSET Held :
          LET due == IF lifecycle THEN Held
                     ELSE expired \union {k \in Held : lease[k].phase = "releaseRetry"}
          IN /\ due # {} \/ lifecycle
             /\ todo' = [todo EXCEPT !["watchdog"] = SetToSeq(Releases(due))]
    /\ lifecycle' = FALSE
    /\ UNCHANGED <<leaseVars, accepting, stop, pc, opened, cmd, queue, mainVars, overtaken>>

\* The watchdog takes up the lease of k.
Expires(k) == WatchdogSelects /\ \E i \in DOMAIN todo'["watchdog"] : todo'["watchdog"][i].key = k

WatchdogExits ==
    /\ At("watchdog", "idle") /\ todo["watchdog"] = <<>> /\ stop
    /\ Goto("watchdog", "exited")
    /\ UNCHANGED <<leaseVars, switches, todo, opened, cmd, queue, mainVars, overtaken>>

\* Shutdown up to the wait for the table to empty.  It stops accepting calls in
\* a critical section before the one that cancels: only RequireReady tells.
ShutdownBegins ==
    /\ At("shutdown", "idle")
    /\ CancelQueuedDowns
    /\ accepting' = FALSE /\ lifecycle' = TRUE
    /\ Goto("shutdown", "drain")
    /\ UNCHANGED <<stop, todo, opened, cmd, queue, mainVars, overtaken>>

\* The table is empty, or the budget of a second and a half is spent; the join
\* returns when the watchdog has exited.
ShutdownStops ==
    /\ At("shutdown", "drain")
    /\ CancelQueuedDowns
    /\ stop' = TRUE
    /\ Goto("shutdown", "join")
    /\ UNCHANGED <<accepting, lifecycle, todo, opened, cmd, queue, mainVars, overtaken>>

-----------------------------------------------------------------------------
Dispatches(a) == ReleaseGeneration(a) \/ Dispatch(a) \/ DispatchFails(a) \/ Timeout(a)
Client(c) == RequireReady(c) \/ Acquire(c) \/ SubmitDown(c) \/ Find(c) \/ SelectOwn(c)
             \/ Dispatches(c)
Watchdog == WatchdogSelects \/ WatchdogExits \/ Dispatches("watchdog")

Next ==
    \/ \E c \in Clients : Call(c) \/ Client(c)
    \/ Watchdog
    \/ Main
    \/ ReleaseForLifecycle
    \/ ShutdownBegins \/ ShutdownStops

\* The listener threads, the watchdog and the shutting thread are scheduled and
\* the clock runs.  Nothing is assumed of the main thread.
Spec == Init /\ [][Next]_vars
FairSpec == /\ Spec
            /\ \A c \in Clients : WF_vars(Client(c))
            /\ WF_vars(Watchdog)
            /\ WF_vars(ShutdownStops)
            /\ \A k \in Keys : SF_vars(Expires(k))

-----------------------------------------------------------------------------
Leases == [gen : Nat, owner : {Owner[c] : c \in Clients} \union {"none"},
           phase : {"none", "downPending", "pressed", "releasePending", "releaseRetry"}]
Commands == [key : Keys, gen : 0..MaxGen, up : BOOLEAN]
Steps == [do : {"press", "lift", "releaseAll", "release"}, key : Keys, gen : 0..MaxGen,
          fresh : BOOLEAN, opens : BOOLEAN]
Gates == {"none", "queued", "begun", "cancelled"}

\* The types of the variables; no more keys are leased than the limit, no two
\* under one generation, and the main thread's queue holds no command twice.
TypeOK ==
    /\ lease \in [Keys -> Leases] /\ gens \in 0..MaxGen
    /\ Cardinality(Held) <= MaxHeld
    /\ \A k, l \in Held : lease[k].gen = lease[l].gen => k = l
    /\ press \in [Generations -> Gates] /\ lift \in [Generations -> Gates]
    /\ accepting \in BOOLEAN /\ lifecycle \in BOOLEAN /\ stop \in BOOLEAN
    /\ \A a \in Actors : pc[a] \in {"new", "idle", "ready", "submit", "dispatch", "wait", "release", "exited"}
    /\ pc["shutdown"] \in {"idle", "drain", "join"}
    /\ todo \in [Actors -> Seq(Steps)]
    /\ opened \in [Actors -> SUBSET Steps]
    /\ cmd \in [Actors -> Commands]
    /\ queue \in Seq(Commands) /\ IsInjective(queue)
    /\ run \in Seq(Commands) /\ Len(run) <= 1
    /\ outcome \in {"none", "ok", "failed"}
    /\ held \in [Keys -> 0..MaxGen]
    /\ overtaken \in SUBSET Generations

\* A key that the game believes pressed has a lease, so that something will
\* release it, unless its release overtook its press.
HeldIsLeased == \A k \in Keys : held[k] \in {0, lease[k].gen} \union overtaken

\* A client never releases, with up, releaseAll or the cleanup of a sequence, a
\* lease of another owner, though the key changed hands since it looked.
OnlyOwnReleased ==
    [][\A c \in Clients, k \in Keys :
          (ReleaseGeneration(c) /\ lease[k] # NoLease /\ lease[k].owner # Owner[c])
              => lease'[k] = lease[k]]_vars

\* A release under way whose command is neither queued nor running nor about
\* to be: nobody will complete or retry it.
ReleaseLost(k) ==
    /\ lease[k].phase = "releasePending"
    /\ LET m == Command(k, lease[k].gen, TRUE)
       IN /\ \A i \in DOMAIN queue : queue[i] # m
          /\ run # <<m>>
          /\ \A a \in Actors : ~(At(a, "dispatch") /\ cmd[a] = m)

\* Every hold ends, by its owner or by the watchdog, if neither the extender nor
\* the game refuses commands for ever, unless its release is lost or the service
\* shuts down.
HoldsEnd ==
    (WF_vars(Main) /\ SF_vars(MainApplies) /\ SF_vars(Dispatch("watchdog")))
        => \A k \in Keys : lease[k] # NoLease ~> (lease[k] = NoLease \/ ReleaseLost(k) \/ stop)

\* Shutdown returns although the main thread may never run again.
ShutdownReturns == ~accepting ~> (stop /\ pc["watchdog"] = "exited")

-----------------------------------------------------------------------------
(* What the tool's description says ("Queued native work is                *)
(* generation-gated so cancelled, expired, or lifecycle-invalidated downs  *)
(* cannot execute later.  Releases remain leased and retry until native    *)
(* acknowledgement.").                                                     *)

\* A press whose lease has ended does not reach the game.
PressesGated ==
    [][\A k \in Keys : held'[k] \notin {0, held[k]} => lease[k].gen = held'[k]]_vars

\* A release is retried until the game takes it.
ReleasesRetry == \A k \in Keys : ~ReleaseLost(k)
=============================================================================
