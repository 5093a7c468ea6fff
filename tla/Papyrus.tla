------------------------------ MODULE Papyrus ------------------------------
(***************************************************************************)
(* The papyrus tool: a call into the script virtual machine.  The request  *)
(* thread takes a snapshot of the function's signature through a task on   *)
(* the main thread, validates the arguments against it, and queues the     *)
(* call as a second task, which resolves the target and validates again    *)
(* before it binds or dispatches anything.  The machine answers later, on  *)
(* a thread of its own; a third task turns the result into JSON.  The      *)
(* request thread waits for the outcome for a bounded time; the call it    *)
(* gave up on may still complete.                                          *)
(*                                                                         *)
(* Both back ends: "fallout4" with structs, "skyrimse" with short arrays.  *)
(* What arguments and types are, and how they are validated and converted, *)
(* is in PapyrusTypes; here it is a parameter.                             *)
(***************************************************************************)
EXTENDS Integers, Sequences

CONSTANTS
    Calls,        \* the requests, each made once
    Requests,     \* the requests: [self |-> a form, "selected" or None, args |-> <<values>>]
    GameForms,    \* the forms there are
    Signature,    \* Signature[game][form or None][is it bound]: <<types>>, or None for no such function
    ArgumentErrors(_, _), \* of arguments and types: what validation says
    Faults(_, _, _),      \* of a game, arguments and types: what converting says
    ArgForms(_),          \* of arguments: the forms that converting binds
    MaxSwitches,  \* bound on the changes of mode, selection and freezing
    None

VARIABLES
    game,      \* the back end
    request,   \* request[c]: one of Requests
    mode,      \* "playing", "menu" or "loading"
    frozen,    \* the machine is completely frozen
    selected,  \* the reference that the console has selected, or None
    bound,     \* the forms with an object in the machine
    switches,
    tasks,     \* the main thread's tasks, first in first out
    at,        \* at[c]: where the request thread is
    snapshot,  \* snapshot[c]: the signature it was given, or an error
    outcome,   \* outcome[c]: PapyrusCallState
    told,      \* told[c]: the answer
    running,   \* the calls that the machine has accepted and not ended
    asked,     \* history: the mode in which the call was queued
    touched,   \* history: what was known when the call first changed the machine
    dispatched \* history: how often the machine was given the call

gameVars == <<mode, frozen, selected, switches>>
vmVars == <<bound, running, touched, dispatched>>
callVars == <<at, snapshot, told, asked>>
vars == <<game, request, gameVars, vmVars, callVars, tasks, outcome>>

Init ==
    /\ game \in {"fallout4", "skyrimse"}
    /\ request \in [Calls -> Requests]
    /\ mode \in {"playing", "menu"}
    /\ frozen = FALSE /\ selected = None /\ switches = 0
    /\ bound = {} /\ running = {}
    /\ tasks = <<>>
    /\ at = [c \in Calls |-> "idle"]
    /\ snapshot = [c \in Calls |-> None]
    /\ outcome = [c \in Calls |-> None]
    /\ told = [c \in Calls |-> None]
    /\ asked = [c \in Calls |-> None]
    /\ touched = [c \in Calls |-> None]
    /\ dispatched = [c \in Calls |-> 0]

-----------------------------------------------------------------------------
(* What both threads use.                                                  *)

\* Complete: the first outcome stands.
Complete(c, result) ==
    outcome' = IF outcome[c] = None THEN [outcome EXCEPT ![c] = result] ELSE outcome

AddTask(kind, c) == tasks' = Append(tasks, <<kind, c>>)

\* CheckCallReadiness.
NotReady == IF mode = "playing" THEN {} ELSE {409}

Target(c) == IF request[c].self = "selected" THEN selected ELSE request[c].self

\* The function of that name that a target has: the state of its object in the
\* machine, once it is bound, may select another one.
FunctionOf(target, forms) == Signature[game][target][(target \in forms)]

\* ResolveCall, with the forms that are bound: the signature, or an error.
Resolve(c, forms) ==
    LET target == Target(c)
    IN IF request[c].self # None /\ target \notin GameForms THEN [errors |-> {404}, types |-> <<>>]
       ELSE IF FunctionOf(target, forms) = None THEN [errors |-> {404}, types |-> <<>>]
       ELSE [errors |-> {}, types |-> FunctionOf(target, forms)]

\* Slip: what the request thread has validated is taken as valid.
TargetErrors(c, resolved) == resolved.errors

ErrorsAgainst(c, resolved) ==
    IF resolved.errors # {} THEN resolved.errors ELSE ArgumentErrors(request[c].args, resolved.types)

Recheck(c, resolved) == ErrorsAgainst(c, resolved)

-----------------------------------------------------------------------------
(* The request thread: HandlePapyrus.                                      *)

\* RunOnMainThread: the metadata task, or its refusal.
Ask(c) ==
    /\ at[c] = "idle"
    /\ at' = [at EXCEPT ![c] = "resolving"]
    /\ AddTask("resolve", c)
    /\ UNCHANGED <<game, request, gameVars, vmVars, snapshot, told, asked, outcome>>

Tell(c, answer) == /\ told' = [told EXCEPT ![c] = answer]
                   /\ at' = [at EXCEPT ![c] = "done"]

\* No answer within kMainThreadTimeout; the task still runs.
MetadataTimeout(c) ==
    /\ at[c] = "resolving" /\ snapshot[c] = None
    /\ Tell(c, "noMetadata")
    /\ UNCHANGED <<game, request, gameVars, vmVars, snapshot, asked, tasks, outcome>>

Refuse(c) ==
    /\ at[c] = "resolving" /\ snapshot[c] # None
    /\ ErrorsAgainst(c, snapshot[c]) # {}
    /\ Tell(c, "invalid")
    /\ UNCHANGED <<game, request, gameVars, vmVars, snapshot, asked, tasks, outcome>>

\* QueueCall: the game must be ready now, not only when the task runs.
QueueCall(c) ==
    /\ at[c] = "resolving" /\ snapshot[c] # None
    /\ ErrorsAgainst(c, snapshot[c]) = {}
    /\ at' = [at EXCEPT ![c] = "waiting"]
    /\ asked' = [asked EXCEPT ![c] = mode]
    /\ IF NotReady # {} THEN Complete(c, "notDispatched") /\ UNCHANGED tasks
       ELSE AddTask("call", c) /\ UNCHANGED outcome
    /\ UNCHANGED <<game, request, gameVars, vmVars, snapshot, told>>

\* The script extender's task interface is gone.
NotQueued(c) ==
    /\ at[c] = "resolving" /\ snapshot[c] # None
    /\ ErrorsAgainst(c, snapshot[c]) = {}
    /\ NotReady = {}
    /\ Tell(c, "notDispatched")
    /\ UNCHANGED <<game, request, gameVars, vmVars, snapshot, asked, tasks, outcome>>

WaitFor(c) ==
    /\ at[c] = "waiting" /\ outcome[c] # None
    /\ Tell(c, outcome[c])
    /\ UNCHANGED <<game, request, gameVars, vmVars, snapshot, asked, tasks, outcome>>

WaitTimeout(c) ==
    /\ at[c] = "waiting" /\ outcome[c] = None
    /\ Tell(c, "late")
    /\ UNCHANGED <<game, request, gameVars, vmVars, snapshot, asked, tasks, outcome>>

-----------------------------------------------------------------------------
(* The main thread: one task at a time.                                    *)

RunResolve(c) ==
    /\ snapshot' = [snapshot EXCEPT ![c] = Resolve(c, bound)]
    /\ UNCHANGED <<at, told, asked, vmVars, outcome>>

\* The first thing the call does to the machine, and what held at that time.
Touch(c, valid) ==
    touched' = [touched EXCEPT ![c] = [valid |-> valid, ready |-> mode = "playing" /\ ~frozen]]

SelfForms(c) == IF request[c].self = None THEN {} ELSE {Target(c)}

\* The machine takes the call, or refuses it.
Dispatch(c) ==
    \/ /\ dispatched' = [dispatched EXCEPT ![c] = @ + 1]
       /\ running' = running \union {c}
       /\ UNCHANGED outcome
    \/ Complete(c, "refused") /\ UNCHANGED <<running, dispatched>>

\* The target is bound once the arguments fit the function that it has now;
\* binding may change that function, so the arguments are validated again.
RunCall(c) ==
    LET before == Recheck(c, Resolve(c, bound))
        withSelf == bound \union SelfForms(c)
        resolved == Resolve(c, withSelf)
        after == Recheck(c, resolved)
        faults == Faults(game, request[c].args, resolved.types)
    IN /\ IF NotReady # {} \/ frozen \/ before # {}
          THEN Complete(c, "notDispatched") /\ UNCHANGED vmVars
          ELSE /\ Touch(c, ErrorsAgainst(c, Resolve(c, bound)) = {})
               /\ \/ /\ after # {}
                     /\ Complete(c, "notDispatched")
                     /\ bound' = withSelf /\ UNCHANGED <<running, dispatched>>
                  \/ /\ after = {} /\ faults # {}
                     /\ Complete(c, IF 500 \in faults THEN "internalError" ELSE "notDispatched")
                     /\ bound' = withSelf /\ UNCHANGED <<running, dispatched>>
                  \/ /\ after = {} /\ faults = {}
                     /\ bound' = withSelf \union ArgForms(request[c].args)
                     /\ Dispatch(c)
       /\ UNCHANGED callVars

\* VariableToJson: a result may exceed its limits, or be of no known type.
Results == {"ok", "unreadable"}

RunResult(c) ==
    /\ \E result \in Results : Complete(c, result)
    /\ UNCHANGED <<callVars, vmVars>>

RunTask ==
    /\ tasks # <<>>
    /\ tasks' = Tail(tasks)
    /\ LET kind == Head(tasks)[1]
           c == Head(tasks)[2]
       IN \/ kind = "resolve" /\ RunResolve(c)
          \/ kind = "call" /\ RunCall(c)
          \/ kind = "result" /\ RunResult(c)
    /\ UNCHANGED <<game, request, gameVars>>

-----------------------------------------------------------------------------
(* The virtual machine, and the game around it.                            *)

\* The call returns on a thread of the machine: its result becomes a task.
Returns(c) ==
    /\ c \in running
    /\ running' = running \ {c}
    /\ AddTask("result", c)
    /\ UNCHANGED <<game, request, gameVars, bound, touched, dispatched, callVars, outcome>>

\* The machine cancels the call, as it does when a game is loaded.
CallCanceled(c) ==
    /\ c \in running
    /\ running' = running \ {c}
    /\ Complete(c, "canceled")
    /\ UNCHANGED <<game, request, gameVars, bound, touched, dispatched, callVars, tasks>>

\* The player: another mode, another reference, a frozen machine.
Switches ==
    /\ switches < MaxSwitches
    /\ switches' = switches + 1
    /\ \/ /\ mode' \in {"playing", "menu", "loading"} \ {mode}
          /\ UNCHANGED <<frozen, selected>>
       \/ selected' \in GameForms \ {selected} /\ UNCHANGED <<mode, frozen>>
       \/ frozen' = ~frozen /\ UNCHANGED <<mode, selected>>
    /\ UNCHANGED <<game, request, vmVars, callVars, tasks, outcome>>

Next ==
    \/ \E c \in Calls : \/ Ask(c) \/ MetadataTimeout(c) \/ Refuse(c) \/ QueueCall(c) \/ NotQueued(c)
                        \/ WaitFor(c) \/ WaitTimeout(c) \/ Returns(c) \/ CallCanceled(c)
    \/ RunTask
    \/ Switches

Spec == Init /\ [][Next]_vars

-----------------------------------------------------------------------------
Answers == {"noMetadata", "invalid", "notDispatched", "internalError", "refused", "canceled",
            "ok", "unreadable", "late"}

Modes == {"playing", "menu", "loading"}
Games == {"fallout4", "skyrimse"}

\* The signatures that the functions of a game have.
Signatures(g) == {Signature[g][form][b] : form \in GameForms \union {None}, b \in BOOLEAN} \ {None}

\* What is assumed of the constants: forms are bound that there are, and what
\* validation accepts, converting does not find to be of another shape.
PapyrusAssumption ==
    /\ None \notin Answers \union Modes /\ MaxSwitches \in Nat
    /\ \A r \in Requests : ArgForms(r.args) \subseteq GameForms
    /\ \A g \in Games : \A r \in Requests, types \in Signatures(g) :
          ArgumentErrors(r.args, types) = {} => 500 \notin Faults(g, r.args, types)

\* The shape of every variable.
TypeOK ==
    /\ game \in Games /\ request \in [Calls -> Requests]
    /\ mode \in Modes /\ frozen \in BOOLEAN
    /\ selected \in GameForms \union {None} /\ switches \in 0..MaxSwitches
    /\ bound \subseteq GameForms /\ running \subseteq Calls
    /\ tasks \in Seq({"resolve", "call", "result"} \X Calls)
    /\ at \in [Calls -> {"idle", "resolving", "waiting", "done"}]
    /\ snapshot \in [Calls -> [errors : SUBSET {404}, types : Signatures(game) \union {<<>>}] \union {None}]
    /\ outcome \in [Calls -> Answers \union {None}] /\ told \in [Calls -> Answers \union {None}]
    /\ asked \in [Calls -> Modes \union {None}] /\ dispatched \in [Calls -> 0..1]
    /\ touched \in [Calls -> [valid : BOOLEAN, ready : BOOLEAN] \union {None}]

\* A call changes the machine, by a binding or by a dispatch, only when its
\* arguments fit the function as it is at that time (the reference that is
\* selected may be another one since the first validation), the game is ready,
\* and was ready when the request was queued.
TouchesValidated ==
    \A c \in Calls : touched[c] # None => touched[c].valid /\ touched[c].ready /\ asked[c] = "playing"

\* What a caller is told is true, then and later: told that the call was not
\* dispatched, it is never dispatched; told that it has completed or was
\* cancelled, it was dispatched, and has ended.  No argument that passed
\* validation fails as an internal error.
AnswersTrue ==
    \A c \in Calls :
        /\ told[c] \in {"noMetadata", "invalid", "notDispatched"} => dispatched[c] = 0
        /\ told[c] \in {"ok", "unreadable", "canceled"} => dispatched[c] = 1 /\ c \notin running
        /\ told[c] = "ok" => outcome[c] = "ok"
        /\ outcome[c] # "internalError"
=============================================================================
