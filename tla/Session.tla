------------------------------ MODULE Session ------------------------------
(***************************************************************************)
(* The bridge's SessionController: the asynchronous job (start or run),    *)
(* the stop and the shutdown that share the owned game, each a workflow    *)
(* that runs from one await to the next and meets the others only there.   *)
(* The requests it makes of the helper process are SessionHelper's; the    *)
(* HTTP calls to the plugin are reduced to what they can come to.          *)
(***************************************************************************)
EXTENDS SessionHelper

CONSTANTS
    Requests,       \* bound: the kinds of job, with finish and forceStop
    StopForces,     \* bound: the values of a stop's force
    MaxJobs,        \* bound: the jobs the user starts
    MaxStale,       \* bound: a stop is asked for while so few requests are pending
    SharedRemote    \* sessionConfig.runtimeFile is absent: all jobs share a RemoteClient

ASSUME SessionAssumption ==
    /\ Callers = {"job", "stop", "shutdown"}
    /\ MaxJobs \in Nat /\ MaxStale \in Nat
    /\ SharedRemote \in BOOLEAN
    /\ Requests \subseteq {"start", "run"} \X {"stop", "leave"} \X BOOLEAN
    /\ StopForces \subseteq BOOLEAN

VARIABLES
    session,    \* ownedProcess, ownershipReleased, uncertainWrite, shuttingDown, ...
    job,        \* the active JobRecord, its arguments and its locals
    pc,         \* the await at which each workflow is
    pinned,     \* the instance the shared RemoteClient is bound to
    left        \* history: left[g], the release of g to be left running, asked for or done

vars == <<helperVars, session, job, pc, pinned, left>>

NoJob == [kind |-> "start", finish |-> "stop", force |-> FALSE, abort |-> FALSE, proc |-> NoGame,
          late |-> FALSE, scenario |-> FALSE, failing |-> FALSE, lost |-> FALSE]

Init ==
    /\ HelperInit
    /\ session = [owner |-> NoGame, released |-> FALSE, uncertain |-> FALSE, shutting |-> FALSE,
                  up |-> FALSE, jobs |-> 0, force |-> FALSE]
    /\ job = NoJob
    /\ pc = [c \in Callers |-> "idle"]
    /\ pinned = NoGame
    /\ left = [g \in Games |-> "no"]

-----------------------------------------------------------------------------
(* One step of a workflow: it reads its answer, and asks for the next.     *)

Machine == <<life, helper, closed, hit>>

Goto(c, where) == pc' = [pc EXCEPT ![c] = where]

\* The workflow c resumes with one of the answers and makes no further call.
Gets(c, tags) == Handled(c) /\ Answer \in tags
Quiet == outbox # <<>> /\ outbox' = Tail(outbox) /\ UNCHANGED <<inbox, Machine>>
Asks(c, op, where) == Call(c, op, Tail(outbox)) /\ Goto(c, where) /\ UNCHANGED Machine

\* A step that has no answer to read.
Silent == UNCHANGED helperVars
Opens(c, op, where) == Call(c, op, outbox) /\ Goto(c, where) /\ UNCHANGED Machine

\* An error in the try block of a job leads to its catch block; from within the
\* catch block it ends the job without evidence.
Throws(c) ==
    IF c = "job" /\ ~job.failing
    THEN /\ job' = [job EXCEPT !.failing = TRUE]
         /\ Goto(c, "enrich")
    ELSE /\ job' = IF c = "job" THEN NoJob ELSE job
         /\ Goto(c, "idle")

Ends(c) == Goto(c, IF c = "job" THEN "evidence" ELSE "idle") /\ UNCHANGED job

-----------------------------------------------------------------------------
(* cleanup and releaseOwnership.                                           *)

Retained == session.up /\ session.owner # NoGame /\ ~session.released
Forces(c) == IF c = "job" THEN job.force ELSE session.force
Disowned == session' = [session EXCEPT !.released = TRUE]

\* Both begin with a request, unless there is no retained process.
LetsGo(c, op, where) ==
    IF Retained THEN Opens(c, op, where) /\ UNCHANGED job ELSE Silent /\ Ends(c)

CleanupStatus(c) ==
    /\ pc[c] = "cStatus"
    /\ \/ Gets(c, {"error"}) /\ Quiet /\ Throws(c) /\ UNCHANGED session
       \/ Gets(c, {"unowned"}) /\ Quiet /\ Disowned /\ Ends(c)
       \/ Gets(c, {"exited"}) /\ Asks(c, "release", "cRelease") /\ UNCHANGED <<session, job>>
       \/ Gets(c, {"running"}) /\ Asks(c, "close", "cClose") /\ UNCHANGED <<session, job>>

\* Slip: a close that timed out lets the game go.
CleanupCloseReleases(c) ==
    /\ pc[c] = "cClose"
    /\ \/ Gets(c, {"error"}) /\ Quiet /\ Throws(c)
       \/ Gets(c, {"exited"}) /\ Asks(c, "release", "cRelease") /\ UNCHANGED job
       \/ Gets(c, {"stays"}) /\ Forces(c) /\ Asks(c, "terminate", "cTerminate") /\ UNCHANGED job
       \/ Gets(c, {"stays"}) /\ ~Forces(c) /\ Asks(c, "release", "cRelease") /\ UNCHANGED job
    /\ UNCHANGED session

CleanupClose(c) ==
    /\ pc[c] = "cClose"
    /\ \/ Gets(c, {"error"}) /\ Quiet /\ Throws(c)
       \/ Gets(c, {"exited"}) /\ Asks(c, "release", "cRelease") /\ UNCHANGED job
       \/ Gets(c, {"stays"}) /\ Forces(c) /\ Asks(c, "terminate", "cTerminate") /\ UNCHANGED job
       \/ Gets(c, {"stays"}) /\ ~Forces(c) /\ Quiet /\ Ends(c)
    /\ UNCHANGED session

CleanupTerminate(c) ==
    /\ pc[c] = "cTerminate"
    /\ \/ Gets(c, {"error"}) /\ Quiet /\ Throws(c)
       \/ Gets(c, {"exited"}) /\ Asks(c, "release", "cRelease") /\ UNCHANGED job
       \/ Gets(c, {"stays"}) /\ Quiet /\ Ends(c)
    /\ UNCHANGED session

CleanupRelease(c) ==
    /\ pc[c] = "cRelease"
    /\ Quiet
    /\ \/ Gets(c, {"error"}) /\ Throws(c) /\ UNCHANGED session
       \/ Gets(c, {"ok"}) /\ Disowned /\ Ends(c)

Cleanup(c) ==
    /\ CleanupStatus(c) \/ CleanupClose(c) \/ CleanupTerminate(c) \/ CleanupRelease(c)
    /\ UNCHANGED <<pinned, left>>

\* The release of finish = "leave-running".
LeaveRelease ==
    /\ pc["job"] = "lRelease"
    /\ Quiet
    /\ \/ Gets("job", {"error"}) /\ Throws("job") /\ UNCHANGED <<session, left>>
       \/ /\ Gets("job", {"ok"}) /\ Ends("job")
          /\ Disowned
          /\ left' = [left EXCEPT ![session.owner] = "done"]
    /\ UNCHANGED pinned

-----------------------------------------------------------------------------
(* The job up to a game that is ready.                                     *)

CreateJob(kind, finish, force) ==
    /\ pc["job"] = "idle" /\ ~session.shutting /\ ~session.uncertain
    /\ session.jobs < MaxJobs
    /\ session' = [session EXCEPT !.jobs = @ + 1]
    /\ job' = [NoJob EXCEPT !.kind = kind, !.finish = finish, !.force = force]
    /\ Goto("job", "begin")
    /\ Silent /\ UNCHANGED <<pinned, left>>

\* The configuration and the launch inputs do not pass, or dropExitedOwnership
\* asks about the game that is owned, or the helper about any game at all.
Begin ==
    /\ pc["job"] = "begin"
    /\ \/ Silent /\ Throws("job") /\ UNCHANGED session
       \/ /\ session.owner # NoGame /\ ~session.released
          /\ session' = [session EXCEPT !.up = TRUE]
          /\ Opens("job", "status", "dropStatus") /\ UNCHANGED job
       \/ /\ session.owner = NoGame \/ session.released
          /\ session' = [session EXCEPT !.up = TRUE, !.owner = NoGame]
          /\ Opens("job", "status", "prior") /\ UNCHANGED job
    /\ UNCHANGED <<pinned, left>>

Disown == session' = [session EXCEPT !.released = TRUE, !.owner = NoGame]
Resolves(g) == job' = [job EXCEPT !.proc = g] /\ Goto("job", "resolve")

DropStatus ==
    /\ pc["job"] = "dropStatus"
    /\ \/ Gets("job", {"error"}) /\ Quiet /\ Throws("job") /\ UNCHANGED session
       \/ /\ Gets("job", {"running"}) /\ ~session.released
          /\ Quiet /\ Resolves(session.owner) /\ UNCHANGED session
       \/ /\ Gets("job", {"exited"})
          /\ Asks("job", "release", "dropRelease") /\ UNCHANGED <<session, job>>
       \/ /\ Gets("job", {"unowned"}) \/ (Gets("job", {"running"}) /\ session.released)
          /\ Disown /\ Asks("job", "status", "prior") /\ UNCHANGED job
    /\ UNCHANGED <<pinned, left>>

DropRelease ==
    /\ pc["job"] = "dropRelease"
    /\ \/ Gets("job", {"error"}) /\ Quiet /\ Throws("job") /\ UNCHANGED session
       \/ Gets("job", {"ok"}) /\ Disown /\ Asks("job", "status", "prior") /\ UNCHANGED job
    /\ UNCHANGED <<pinned, left>>

Prior ==
    /\ pc["job"] = "prior"
    /\ \/ Gets("job", {"error", "running", "exited"}) /\ Quiet /\ Throws("job")
       \/ Gets("job", {"unowned"}) /\ Asks("job", "start", "starting") /\ UNCHANGED job
    /\ UNCHANGED <<session, pinned, left>>

\* The answer to start; its creation time may be refused.
Starting ==
    /\ pc["job"] = "starting"
    /\ Quiet
    /\ \/ Gets("job", {"error"}) /\ Throws("job") /\ UNCHANGED session
       \/ /\ Gets("job", {"started"})
          /\ session' = [session EXCEPT !.owner = Head(outbox).game, !.released = FALSE]
          /\ Throws("job") \/ Resolves(Head(outbox).game)
    /\ UNCHANGED <<pinned, left>>

\* remote.resolve and platform.inspect: the owned game answers and matches.
Ready ==
    /\ life[job.proc] = "running"
    /\ pinned \in {NoGame, job.proc}
    /\ pinned' = IF SharedRemote THEN job.proc ELSE NoGame
    /\ Goto("job", IF job.kind = "start" THEN "evidence" ELSE "available")
    /\ Silent /\ UNCHANGED job

\* Slip: the wait for the game is without a deadline.
ResolveForever ==
    /\ pc["job"] = "resolve"
    /\ \/ job.abort /\ Silent /\ Throws("job") /\ UNCHANGED pinned
       \/ ~job.abort /\ Ready
       \/ ~job.abort /\ Opens("job", "status", "rStatus") /\ UNCHANGED <<job, pinned>>
    /\ UNCHANGED <<session, left>>

Resolve ==
    /\ pc["job"] = "resolve"
    /\ \/ /\ job.late \/ job.abort
          /\ Silent /\ Throws("job") /\ UNCHANGED pinned
       \/ ~job.late /\ ~job.abort /\ Ready
       \/ /\ ~job.late /\ ~job.abort
          /\ \/ Silent /\ Throws("job")                  \* another instance, or not as expected
             \/ Opens("job", "status", "rStatus") /\ UNCHANGED job
          /\ UNCHANGED pinned
    /\ UNCHANGED <<session, left>>

ResolveStatus ==
    /\ pc["job"] = "rStatus"
    /\ Quiet
    /\ \/ Gets("job", {"error", "exited", "unowned"}) /\ Throws("job")
       \/ Gets("job", {"running"}) /\ Goto("job", "resolve") /\ UNCHANGED job
    /\ UNCHANGED <<session, pinned, left>>

\* The startup deadline passes.
StartupExpires ==
    /\ pc["job"] \in {"resolve", "rStatus"} /\ ~job.late
    /\ job' = [job EXCEPT !.late = TRUE]
    /\ Silent /\ UNCHANGED <<session, pc, pinned, left>>

-----------------------------------------------------------------------------
(* The run: load a fixture, run a scenario, clean up.                      *)

\* A wait that polls the game comes to its end, fails, expires or is aborted.
Polls(here, next) ==
    /\ pc["job"] = here
    /\ Silent
    /\ \/ Throws("job")
       \/ ~job.abort /\ life[job.proc] = "running" /\ Goto("job", next) /\ UNCHANGED job
    /\ UNCHANGED <<session, pinned, left>>

\* A mutation is accepted, refused, or its outcome lost.
Mutates(here, next) ==
    /\ pc["job"] = here
    /\ Silent
    /\ \/ /\ life[job.proc] = "running"
          /\ job' = [job EXCEPT !.scenario = (here = "scenario")]
          /\ Goto("job", next)
          /\ UNCHANGED session
       \/ Throws("job") /\ UNCHANGED session
       \/ /\ Goto("job", "enrich")
          /\ job' = [job EXCEPT !.failing = TRUE, !.lost = TRUE]
          /\ session' = [session EXCEPT !.uncertain = TRUE]
    /\ UNCHANGED <<pinned, left>>

FinishJob ==
    IF job.finish = "stop"
    THEN LetsGo("job", "status", "cStatus") /\ UNCHANGED left
    ELSE /\ LetsGo("job", "release", "lRelease")
         /\ left' = IF Retained THEN [left EXCEPT ![session.owner] = "asked"] ELSE left

WaitForScenario ==
    /\ pc["job"] = "waitScenario"
    /\ \/ Silent /\ Throws("job") /\ UNCHANGED left
       \/ ~job.abort /\ life[job.proc] = "running" /\ FinishJob
    /\ UNCHANGED <<session, pinned>>

\* Slip: the catch block does not look whether the bridge is shutting down.
CaughtAnyway ==
    /\ pc["job"] = "enrich"
    /\ IF session.uncertain
       THEN Silent /\ Ends("job") /\ UNCHANGED left
       ELSE FinishJob
    /\ UNCHANGED <<session, pinned>>

\* The catch block, after the await in enrichFailure.
Caught ==
    /\ pc["job"] = "enrich"
    /\ IF session.uncertain \/ session.shutting
       THEN Silent /\ Ends("job") /\ UNCHANGED left
       ELSE IF job.scenario
       THEN Silent /\ Goto("job", "cancel") /\ UNCHANGED <<job, left>>
       ELSE FinishJob
    /\ UNCHANGED <<session, pinned>>

\* The scenario's cancellation: whatever comes of it, the job goes on.
ScenarioCancelled ==
    /\ pc["job"] = "cancel"
    /\ \/ FinishJob
       \/ /\ ~job.lost
          /\ job' = [job EXCEPT !.lost = TRUE]
          /\ Silent /\ UNCHANGED <<pc, left>>
    /\ UNCHANGED <<session, pinned>>

\* Slip: the end of the job leaves its record in place.
EvidenceKeepsJob ==
    /\ pc["job"] = "evidence"
    /\ Goto("job", "idle")
    /\ Silent /\ UNCHANGED <<session, job, pinned, left>>

\* finishEvidence and the end of executeJob.
Evidence ==
    /\ pc["job"] = "evidence"
    /\ Goto("job", "idle")
    /\ job' = NoJob
    /\ Silent /\ UNCHANGED <<session, pinned, left>>

JobStep ==
    \/ Begin \/ DropStatus \/ DropRelease \/ Prior \/ Starting \/ Resolve \/ ResolveStatus
    \/ Polls("available", "load") \/ Mutates("load", "waitLoad")
    \/ Polls("waitLoad", "scenario") \/ Mutates("scenario", "waitScenario")
    \/ WaitForScenario \/ Caught \/ ScenarioCancelled
    \/ Cleanup("job") \/ LeaveRelease \/ Evidence

-----------------------------------------------------------------------------
(* The requests of the MCP client.                                         *)

CancelJob ==
    /\ pc["job"] # "idle" /\ ~job.abort
    /\ job' = [job EXCEPT !.abort = TRUE]
    /\ Silent /\ UNCHANGED <<session, pc, pinned, left>>

Stop(force) ==
    /\ pc["job"] = "idle" /\ ~session.shutting /\ Retained /\ ~session.uncertain
    /\ pc["stop"] = "idle" /\ Len(inbox) < MaxStale
    /\ session' = [session EXCEPT !.force = force]
    /\ Opens("stop", "status", "cStatus")
    /\ UNCHANGED <<job, pinned, left>>

\* The bridge closes: abort the job, give the game up, and end the helper, if
\* there is one.
Shutdown ==
    /\ ~session.shutting
    /\ session' = [session EXCEPT !.shutting = TRUE, !.released = TRUE]
    /\ job' = IF pc["job"] = "idle" THEN job ELSE [job EXCEPT !.abort = TRUE]
    /\ IF session.up THEN Opens("shutdown", "release", "release")
                     ELSE Silent /\ Goto("shutdown", "done")
    /\ UNCHANGED <<pinned, left>>

ShutdownStep ==
    /\ pc["shutdown"] = "release"
    /\ Handled("shutdown")
    /\ outbox' = Tail(outbox)
    /\ closed' = TRUE
    /\ Goto("shutdown", "done")
    /\ UNCHANGED <<life, helper, inbox, hit, session, job, pinned, left>>

-----------------------------------------------------------------------------

Bridge == UNCHANGED <<session, job, pc, pinned, left>>

TimesOut(c) == CallTimesOut(c) /\ Bridge
HelperStep == session.up /\ (Serve \/ EndOfInput) /\ Bridge
Environment == ((session.up /\ HelperDies) \/ \E g \in Games : GameExits(g)) /\ Bridge

Next ==
    \/ \E r \in Requests : CreateJob(r[1], r[2], r[3])
    \/ JobStep \/ StartupExpires \/ Cleanup("stop") \/ ShutdownStep
    \/ CancelJob \/ Shutdown \/ \E force \in StopForces : Stop(force)
    \/ HelperStep \/ Environment \/ \E c \in Callers : TimesOut(c)

\* The event loop of the bridge runs its continuations and its timers; nothing
\* is assumed of the helper, of the game or of the user.
Fairness ==
    /\ WF_vars(JobStep) /\ WF_vars(Cleanup("stop")) /\ WF_vars(ShutdownStep)
    /\ WF_vars(StartupExpires)
    /\ \A c \in Callers : WF_vars(TimesOut(c))

Spec == Init /\ [][Next]_vars /\ Fairness

(* Properties.                                                             *)

\* The type invariant: a job that is active has its place, its record is reset
\* with it, and no game is owned before there is a helper.
TypeOK ==
    /\ HelperTypeOK
    /\ session \in [owner : Games \union {NoGame}, released : BOOLEAN, uncertain : BOOLEAN,
                    shutting : BOOLEAN, up : BOOLEAN, jobs : 0..MaxJobs, force : BOOLEAN]
    /\ session.owner # NoGame => session.up
    /\ job \in [kind : {"start", "run"}, finish : {"stop", "leave"}, force : BOOLEAN,
                abort : BOOLEAN, proc : Games \union {NoGame}, late : BOOLEAN,
                scenario : BOOLEAN, failing : BOOLEAN, lost : BOOLEAN]
    /\ pc["job"] = "idle" => job = NoJob
    /\ pc["job"] \in {"resolve", "available", "load", "waitLoad", "scenario", "waitScenario"}
           => job.proc \in Games
    /\ pinned \in Games \union {NoGame}
    /\ left \in [Games -> {"no", "asked", "done"}]

\* A game that was launched stays in the helper's hands while it runs, through
\* every stop, timeout and failed job, unless a run was told to leave it running,
\* the launch was never resolved, the helper died or the bridge shuts down; and
\* the controller never takes another game for its own than the helper has.
KeepsItsGame ==
    /\ \A g \in Games :
          (/\ life[g] = "running" /\ left[g] = "no"
           /\ helper.open /\ ~helper.unresolved /\ ~session.shutting) => helper.owned = g
    /\ (session.owner # NoGame /\ ~session.released) => helper.owned \in {session.owner, NoGame}

\* A game that a run was told to leave running, and has released, is never
\* closed or terminated afterwards, not by a stop that was under way.
LeftRunning == [][\A g \in hit' : left[g] = "done" => g \in hit]_vars

\* Once the bridge is shutting down and the helper has served its release, no
\* game is closed or terminated any more.
ShutdownSpares ==
    [][(session.shutting /\ ~\E i \in DOMAIN inbox : inbox[i].op = "release") => hit' = hit]_vars

\* Every job comes to its end, though the helper or the game never answers.
JobEnds == (pc["job"] # "idle") ~> (pc["job"] = "idle")

\* If the helper serves its requests, a bridge that shuts down lets go of the
\* game for good (README.md:204 of the bridge).
ShutdownLetsGo ==
    WF_vars(HelperStep) => (session.shutting ~> [](helper.owned = NoGame /\ ~helper.lease))

\* Once a mutation's outcome is lost, the job asks for no stop (README.md:157 of
\* the bridge).
HandsOff ==
    job.lost => \A i \in DOMAIN inbox :
               inbox[i].from = "job" => inbox[i].op \notin {"close", "terminate"}

\* A game that is started anew can become ready (README.md:9 of the bridge).
RestartSurvives == pc["job"] = "resolve" => pinned \in {NoGame, job.proc}

=============================================================================
