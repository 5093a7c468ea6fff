----------------------------- MODULE LaunchShim -----------------------------
(***************************************************************************)
(* devbench-launch.exe, the shim that Mod Organizer starts inside its      *)
(* virtual file system, against the broker in the bridge's helper.  The    *)
(* broker offers a launch on a named pipe; the shim proves that the offer  *)
(* is live, starts the script extender's loader, finds the game it made,   *)
(* and hands the game's handle over.  The shim then stays until the game   *)
(* ends, since its own end tears the virtual file system down.             *)
(*                                                                         *)
(* Windows reuses a process id once the process is over and no handle to   *)
(* it is open; a process is therefore a pid with its creation time.        *)
(***************************************************************************)
EXTENDS Integers, FiniteSets, Sequences

CONSTANTS
    Pids,       \* process ids
    MaxBorn,    \* bound on the processes ever created
    None        \* no process, no handle

VARIABLES
    procs,      \* procs[pid]: the process that runs under pid, or None
    born,       \* processes created so far: the next creation time
    expired,    \* the launch deadline has passed
    broker,     \* where the broker is in LaunchShim.Start
    toShim,     \* the pipe, each way
    toBroker,
    retained,   \* the broker's handle to the game
    shim,       \* where the shim is
    loader,     \* its handle to the loader
    snapshot,   \* what it has still to open of a snapshot of the processes
    seen,       \* the games that it has opened of it
    candidate,  \* the one that it takes for its own
    owned,      \* its handle to the game
    code,       \* how the shim ended
    children    \* history: the games that our loader created

envVars == <<procs, born, expired, children>>
pipeVars == <<toShim, toBroker>>
brokerVars == <<broker, retained>>
lookVars == <<snapshot, seen>>
shimVars == <<shim, loader, lookVars, candidate, owned, code>>
vars == <<envVars, pipeVars, brokerVars, shimVars>>

Init ==
    /\ procs = [p \in Pids |-> None]
    /\ born = 0
    /\ expired = FALSE
    /\ broker = "listening"
    /\ toShim = <<>> /\ toBroker = <<>>
    /\ retained = None
    /\ shim = "connect"
    /\ snapshot = None /\ seen = {}
    /\ loader = None /\ candidate = None /\ owned = None
    /\ code = "none"
    /\ children = {}

-----------------------------------------------------------------------------
(* Windows.                                                                *)

Runs(handle) == handle # None /\ procs[handle.pid] = handle

Held(pid) == \E handle \in {loader, owned, retained} : handle # None /\ handle.pid = pid

Free == {p \in Pids : procs[p] = None /\ ~Held(p)}

Process(pid, image, parent) == [pid |-> pid, born |-> born + 1, image |-> image, parent |-> parent]

Create(process) == /\ procs' = [procs EXCEPT ![process.pid] = process]
                   /\ born' = born + 1

\* The running games.
Games == {procs[p] : p \in {q \in Pids : procs[q] # None /\ procs[q].image = "game"}}

\* The loader makes the game, once, and leaves.
LoaderSpawns ==
    /\ Runs(loader) /\ children = {} /\ born < MaxBorn
    /\ \E p \in Free : LET game == Process(p, "game", loader.pid)
                       IN Create(game) /\ children' = {game}
    /\ UNCHANGED <<expired, pipeVars, brokerVars, shimVars>>

\* The player starts the same game by other means, from a process that is over
\* by now: its pid may go to the loader.
ForeignGame ==
    /\ born < MaxBorn
    /\ \E p, parent \in Free : p # parent /\ Create(Process(p, "game", parent))
    /\ UNCHANGED <<expired, children, pipeVars, brokerVars, shimVars>>

Exits ==
    /\ \E p \in Pids : procs[p] # None /\ procs' = [procs EXCEPT ![p] = None]
    /\ UNCHANGED <<born, expired, children, pipeVars, brokerVars, shimVars>>

Expires ==
    /\ ~expired
    /\ expired' = TRUE
    /\ UNCHANGED <<procs, born, children, pipeVars, brokerVars, shimVars>>

-----------------------------------------------------------------------------
(* The broker, LaunchShim.Start in the helper: external to the shim.       *)

\* The broker has let go of the pipe: what it wrote can still be read.
BrokerGone == broker \in {"failed", "done"}

Answers(from, message, to, answer) ==
    /\ broker = from
    /\ toBroker # <<>> /\ Head(toBroker) = message
    /\ toBroker' = Tail(toBroker)
    /\ broker' = to
    /\ toShim' = toShim \o answer
    /\ UNCHANGED <<envVars, shimVars>>

BrokerOffers == Answers("listening", "connected", "offered", <<"offer">>) /\ UNCHANGED retained
BrokerLaunches == Answers("offered", "nonce", "launched", <<"launch">>) /\ UNCHANGED retained

\* The handle is duplicated from the shim, which is alive behind its own handle,
\* and what it points to is compared with what the shim said.
BrokerRetains ==
    /\ Answers("launched", "owned", "done", <<"retained">>)
    /\ Runs(owned)
    /\ retained' = owned

\* A timeout, a refused peer, the shim's error, or the end of the helper.
BrokerFails ==
    /\ ~BrokerGone
    /\ broker' = "failed"
    /\ UNCHANGED <<envVars, pipeVars, retained, shimVars>>

Broker == BrokerOffers \/ BrokerLaunches \/ BrokerRetains \/ BrokerFails

-----------------------------------------------------------------------------
(* FindExactImage: one look at the running games.  A snapshot tells the id *)
(* of a process and of its parent; its creation time and its image are of  *)
(* whatever runs under that id when it is opened.                          *)

\* `was' is not known to the shim: when the process of the snapshot was created.
Entry(process) == [pid |-> process.pid, parent |-> process.parent, was |-> process.born]

Identity(entry, process) ==
    [pid |-> entry.pid, parent |-> entry.parent, was |-> entry.was, born |-> process.born]

Same(process, identity) == process.pid = identity.pid /\ process.born = identity.born

Looked == snapshot = {}

ForgetLook == snapshot' = None /\ seen' = {}

TakeSnapshot ==
    /\ shim \in {"start", "find", "search"} /\ snapshot = None
    /\ shim = "find" => ~expired
    /\ snapshot' = {Entry(game) : game \in Games}
    /\ UNCHANGED <<envVars, pipeVars, brokerVars, shim, loader, seen, candidate, owned, code>>

\* A process that is over by now is passed over.
OpenEntry ==
    /\ snapshot # None
    /\ \E entry \in snapshot :
         /\ snapshot' = snapshot \ {entry}
         /\ seen' = seen \union {Identity(entry, game) : game \in {g \in Games : g.pid = entry.pid}}
    /\ UNCHANGED <<envVars, pipeVars, brokerVars, shim, loader, candidate, owned, code>>

-----------------------------------------------------------------------------
(* The shim: Run.                                                          *)

Exit(outcome) == shim' = "exited" /\ code' = outcome

\* The catch block: an authorized launch that owns no game yet is reported to
\* the broker; then the shim waits for what it has started.
Catch ==
    CASE owned # None                   -> shim' = "linger" /\ UNCHANGED code
      [] owned = None /\ loader # None  -> shim' = "cleanup" /\ UNCHANGED code
      [] OTHER                          -> Exit("error")

Guarded == {"connect", "offer", "launch", "start", "create", "find", "retain", "handoff", "ack"}

\* Any of these steps may throw: a timeout, a peer that is gone, an offer that
\* is stale, a game that runs already or is not ours, several games, a process
\* that ended before it was opened, a process that cannot be opened.
Fails ==
    /\ shim \in Guarded
    /\ Catch
    /\ ForgetLook
    /\ UNCHANGED <<envVars, pipeVars, brokerVars, loader, candidate, owned>>

\* ConnectPipe: only a broker with a pending launch has the pipe.
Connect ==
    /\ shim = "connect"
    /\ broker = "listening"
    /\ shim' = "offer"
    /\ toBroker' = Append(toBroker, "connected")
    /\ UNCHANGED <<envVars, toShim, brokerVars, loader, lookVars, candidate, owned, code>>

Receives(from, message, to) ==
    /\ shim = from
    /\ toShim # <<>> /\ Head(toShim) = message
    /\ toShim' = Tail(toShim)
    /\ shim' = to

\* The offer names the broker, the game and the deadline; the answer is its nonce.
ReadOffer ==
    /\ ~expired /\ ~BrokerGone
    /\ Receives("offer", "offer", "launch")
    /\ toBroker' = Append(toBroker, "nonce")
    /\ UNCHANGED <<envVars, brokerVars, loader, lookVars, candidate, owned, code>>

ReadLaunch ==
    /\ ~expired
    /\ Receives("launch", "launch", "start")
    /\ UNCHANGED <<envVars, toBroker, brokerVars, loader, lookVars, candidate, owned, code>>

\* LaunchOwnedGame: no game may run.
CheckNoGame ==
    /\ shim = "start"
    /\ Looked /\ seen = {}
    /\ ForgetLook
    /\ shim' = "create"
    /\ UNCHANGED <<envVars, pipeVars, brokerVars, loader, candidate, owned, code>>

\* One may have been started by the time the loader is.
StartLoader ==
    /\ shim = "create"
    /\ ~expired /\ born < MaxBorn
    /\ \E p \in Free : LET process == Process(p, "loader", None)
                       IN Create(process) /\ loader' = process
    /\ shim' = "find"
    /\ UNCHANGED <<expired, children, pipeVars, brokerVars, lookVars, candidate, owned, code>>

\* Slip: a child of a process that had the loader's pid before is taken too.
IsOursByPid(process) == process.parent = loader.pid

\* The handle to the loader keeps its pid from a later process; the creation
\* time rules out an earlier one.
IsOurs(process) == process.parent = loader.pid /\ process.born >= loader.born

\* AcquireOwnedGame polls until one game is there, a child of the loader.
LookAgain ==
    /\ shim = "find" /\ Looked /\ seen = {}
    /\ ForgetLook
    /\ UNCHANGED <<envVars, pipeVars, brokerVars, shim, loader, candidate, owned, code>>

FindGame ==
    /\ shim = "find" /\ Looked
    /\ \E process \in seen : seen = {process} /\ IsOurs(process) /\ candidate' = process
    /\ ForgetLook
    /\ shim' = "retain"
    /\ UNCHANGED <<envVars, pipeVars, brokerVars, loader, owned, code>>

\* Slip: whatever runs under the pid by now is taken for the game.
RetainAny(from, to) ==
    /\ shim = from /\ procs[candidate.pid] # None
    /\ owned' = procs[candidate.pid]
    /\ shim' = to
    /\ UNCHANGED <<envVars, pipeVars, brokerVars, loader, lookVars, candidate, code>>

\* RetainGame: the process was let go of since it was seen, so its identity is
\* compared once the handle pins it.
Retain(from, to) ==
    /\ shim = from /\ \E game \in Games : Same(game, candidate) /\ owned' = game
    /\ shim' = to
    /\ UNCHANGED <<envVars, pipeVars, brokerVars, loader, lookVars, candidate, code>>

RetainGame == Retain("retain", "handoff")

HandOver ==
    /\ shim = "handoff" /\ ~expired /\ ~BrokerGone
    /\ toBroker' = Append(toBroker, "owned")
    /\ shim' = "ack"
    /\ UNCHANGED <<envVars, toShim, brokerVars, loader, lookVars, candidate, owned, code>>

ReadRetained ==
    /\ Receives("ack", "retained", "wait")
    /\ UNCHANGED <<envVars, toBroker, brokerVars, loader, lookVars, candidate, owned, code>>

\* WaitForProcess, with or without a broker at the other end.
GameEnds ==
    /\ shim \in {"wait", "linger"} /\ ~Runs(owned)
    /\ Exit(IF shim = "wait" THEN "ok" ELSE "error")
    /\ UNCHANGED <<envVars, pipeVars, brokerVars, loader, lookVars, candidate, owned>>

\* Windows refuses the wait.  That is reported, and the shim ends; without a
\* game it asks for a cleanup by hand.
WaitFails ==
    /\ shim \in {"wait", "linger", "cleanup"}
    /\ Exit(IF shim = "cleanup" THEN "manual" ELSE "unwaited")
    /\ UNCHANGED <<envVars, pipeVars, brokerVars, loader, lookVars, candidate, owned>>

\* A launch that failed after the loader was started: wait for the loader, which
\* may still make the game, and then for the game.
LoaderEnds ==
    /\ shim = "cleanup" /\ ~Runs(loader)
    /\ shim' = "search"
    /\ UNCHANGED <<envVars, pipeVars, brokerVars, loader, lookVars, candidate, owned, code>>

Direct == {process \in seen : IsOurs(process)}

Search ==
    /\ shim = "search" /\ Looked
    /\ IF \E process \in Direct : Direct = {process}
       THEN candidate' \in Direct /\ shim' = "reopen" /\ UNCHANGED code
       ELSE Exit("manual") /\ UNCHANGED candidate
    /\ ForgetLook
    /\ UNCHANGED <<envVars, pipeVars, brokerVars, loader, owned>>

Reopen == Retain("reopen", "linger")

\* A process of that name that cannot be opened spoils the search, and one that
\* is another by now is not taken.
CleanupFails ==
    /\ shim = "search" \/ (shim = "reopen" /\ \A game \in Games : ~Same(game, candidate))
    /\ Exit("manual")
    /\ ForgetLook
    /\ UNCHANGED <<envVars, pipeVars, brokerVars, loader, candidate, owned>>

Shim == \/ Connect \/ ReadOffer \/ ReadLaunch \/ TakeSnapshot \/ OpenEntry
        \/ CheckNoGame \/ StartLoader \/ LookAgain \/ FindGame \/ RetainGame
        \/ HandOver \/ ReadRetained \/ Fails \/ GameEnds \/ WaitFails
        \/ LoaderEnds \/ Search \/ Reopen \/ CleanupFails

-----------------------------------------------------------------------------
Next == Shim \/ Broker \/ LoaderSpawns \/ ForeignGame \/ Exits \/ Expires

Spec == Init /\ [][Next]_vars

-----------------------------------------------------------------------------
Entries == [pid : Pids, parent : Pids \union {None}, was : 1..MaxBorn]

Identities == [pid : Pids, parent : Pids \union {None}, was : 1..MaxBorn, born : 1..MaxBorn]

Processes == [pid : Pids, born : 1..MaxBorn, image : {"game", "loader"}, parent : Pids \union {None}]

\* What the theorems assume of the constants: "no process" is not a process.
ShimAssumption == MaxBorn \in Nat /\ None \notin Pids \union Processes \union Identities

\* The shape of every variable.
TypeOK ==
    /\ procs \in [Pids -> Processes \union {None}]
    /\ born \in 0..MaxBorn
    /\ expired \in BOOLEAN
    /\ broker \in {"listening", "offered", "launched", "done", "failed"}
    /\ toShim \in Seq({"offer", "launch", "retained"})
    /\ toBroker \in Seq({"connected", "nonce", "owned"})
    /\ {retained, loader, owned} \subseteq Processes \union {None}
    /\ snapshot = None \/ snapshot \in SUBSET Entries
    /\ seen \in SUBSET Identities
    /\ candidate \in Identities \union {None}
    /\ shim \in Guarded \union {"wait", "linger", "cleanup", "search", "reopen", "exited"}
    /\ code \in {"none", "ok", "error", "unwaited", "manual"}
    /\ children \in SUBSET Processes

\* What was taken for the own game is of two processes: the one of the snapshot
\* was over when its id was opened, and another had the id.
Mixed == candidate # None /\ candidate.was # candidate.born

\* What the shim waits for and what the broker may later terminate is the game
\* that this launch created, never the player's own or a process that inherited
\* its pid, unless the snapshot deceived it; and both hold the same one.
OwnsOnlyItsGame ==
    /\ owned \in children \union {None} \/ Mixed
    /\ retained # None => retained = owned

\* Not so of every snapshot: a game that has ended leaves its id to another
\* before the id is opened.
OwnedIsProven == owned \in children \union {None}

\* The shim does not end before the game it launched, whatever becomes of the
\* broker: the virtual file system stays.  Only the error that asks for a
\* cleanup by hand leaves a game behind, one that no handle was opened to, or
\* the wait itself fails.
ShimOutlivesGame ==
    (shim = "exited" /\ \E game \in children : Runs(game)) =>
        (code = "manual" /\ owned = None) \/ code = "unwaited" \/ Mixed

\* Both: the shim takes and keeps its game only, and stays as long as it runs.
ShimKeepsItsGame == OwnsOnlyItsGame /\ ShimOutlivesGame
=============================================================================
