--------------------------- MODULE SessionHelper ---------------------------
(***************************************************************************)
(* The Windows helper process that launches and owns the game for the      *)
(* bridge, and the JSON-lines client in front of it.  The helper serves    *)
(* one request at a time, in the order they were written; the client times *)
(* a call out without withdrawing the request, so that it may still be     *)
(* served, its answer read by nobody.                                      *)
(*                                                                         *)
(* A game that is launched has a shim: the process that MO2 started, which *)
(* starts the game and lives until some time after it.  It matters only    *)
(* when the helper looks at it after the game's exit, and is a choice then.*)
(***************************************************************************)
EXTENDS Integers, Sequences, FiniteSets

CONSTANTS
    MaxGames,   \* bound: the instances of the game that come to run
    Callers,    \* the workflows of the bridge that call the helper
    Nobody      \* the caller of a request whose caller has timed out

ASSUME HelperAssumption == MaxGames \in Nat /\ Nobody \notin Callers

Games == 1..MaxGames        \* process instances, in the order they start
NoGame == 0

VARIABLES
    life,       \* life[g]: the game process
    helper,     \* the Controller: owned_, owned_.Running, the lease, and so on
    inbox,      \* requests written to the helper and not served
    outbox,     \* answers the bridge has not handled
    closed,     \* the client has ended the helper's input
    hit         \* history: the games sent WM_CLOSE or terminated

helperVars == <<life, helper, inbox, outbox, closed, hit>>

Answers == {"error", "ok", "started", "running", "exited", "stays", "unowned"}

HelperInit ==
    /\ life = [g \in Games |-> "none"]
    /\ helper = [owned |-> NoGame, live |-> FALSE, lease |-> FALSE, unresolved |-> FALSE,
                 open |-> TRUE]
    /\ inbox = <<>>
    /\ outbox = <<>>
    /\ closed = FALSE
    /\ hit = {}

-----------------------------------------------------------------------------
(* The client: WindowsSessionPlatform.                                     *)

\* A call writes its request, unless the client is closed or the helper gone.
Call(c, op, out) ==
    IF ~closed /\ helper.open
    THEN /\ inbox' = Append(inbox, [from |-> c, op |-> op])
         /\ outbox' = out
    ELSE /\ outbox' = Append(out, [from |-> c, game |-> NoGame,
                                   tag |-> IF closed /\ op = "release" THEN "ok" ELSE "error"])
         /\ UNCHANGED inbox

Handled(c) == outbox # <<>> /\ Head(outbox).from = c
Answer == Head(outbox).tag

\* The call's timer fires; the request stays where it is.
CallTimesOut(c) ==
    /\ \E i \in DOMAIN inbox :
          /\ inbox[i].from = c
          /\ inbox' = [inbox EXCEPT ![i].from = Nobody]
    /\ outbox' = <<[from |-> c, tag |-> "error", game |-> NoGame]>> \o outbox
    /\ UNCHANGED <<life, helper, closed, hit>>

-----------------------------------------------------------------------------
(* The helper: Controller.HandleRequest.                                   *)

Asked(ops) == helper.open /\ inbox # <<>> /\ Head(inbox).op \in ops

Respond(tag, game) ==
    /\ inbox' = Tail(inbox)
    /\ outbox' = IF Head(inbox).from = Nobody THEN outbox
                 ELSE Append(outbox, [from |-> Head(inbox).from, tag |-> tag, game |-> game])

Unleased(h) == [h EXCEPT !.lease = FALSE, !.unresolved = FALSE]

\* RefreshOwned: notice that the owned game has exited, and give the lease back
\* unless the shim is still there.
Refreshes ==
    LET gone == [helper EXCEPT !.live = FALSE]
    IN  IF helper.live /\ life[helper.owned] # "running" THEN {gone, Unleased(gone)} ELSE {helper}

GameRuns == \E g \in Games : life[g] = "running"
FirstUnused(g) == life[g] = "none" /\ \A h \in Games : life[h] = "none" => g <= h

Launch(g, how) == FirstUnused(g) /\ life' = [life EXCEPT ![g] = how]

\* Start, up to the launch: a game is owned already, a launch is unresolved, or
\* the request, another game, MO2 or the lease stand in the way.
StartRefused ==
    /\ Asked({"start"})
    /\ \E h \in Refreshes :
          helper' = IF h.live \/ h.unresolved \/ h.lease THEN h ELSE [h EXCEPT !.owned = NoGame]
    /\ Respond("error", NoGame)
    /\ UNCHANGED <<life, closed, hit>>

CanLaunch(h) == /\ h \in Refreshes
                /\ ~h.live /\ ~h.unresolved /\ ~h.lease
                /\ ~GameRuns

\* The shim hands the game's handle over.  The game may have died meanwhile: it
\* is retained all the same, and the client refuses the answer.
StartOwned ==
    /\ Asked({"start"})
    /\ \E h \in Refreshes, g \in Games :
          /\ CanLaunch(h)
          /\ \/ /\ Launch(g, "running")
                /\ helper' = [h EXCEPT !.owned = g, !.live = TRUE, !.lease = TRUE]
                /\ Respond("started", g)
             \/ /\ Launch(g, "exited")
                /\ \E lease \in BOOLEAN :
                       helper' = [h EXCEPT !.owned = g, !.live = FALSE, !.lease = lease]
                /\ Respond("error", NoGame)
    /\ UNCHANGED <<closed, hit>>

\* The transfer fails or times out; the game may run all the same, unowned.
StartUnresolved ==
    /\ Asked({"start"})
    /\ \E h \in Refreshes :
          /\ CanLaunch(h)
          /\ helper' = [h EXCEPT !.owned = NoGame, !.lease = TRUE, !.unresolved = TRUE]
    /\ (\E g \in Games : Launch(g, "running")) \/ UNCHANGED life
    /\ Respond("error", NoGame)
    /\ UNCHANGED <<closed, hit>>

Status ==
    /\ Asked({"status"})
    /\ helper' \in Refreshes
    /\ Respond(IF helper'.owned = NoGame THEN "unowned"
               ELSE IF helper'.live THEN "running" ELSE "exited", NoGame)
    /\ UNCHANGED <<life, closed, hit>>

\* Close and Terminate: of the retained handle, and of nothing else.  The game
\* may outlive the wait, and so may its shim (FinishOwnedExit).
CloseGame ==
    /\ Asked({"close", "terminate"})
    /\ \E h \in Refreshes :
          /\ h.owned # NoGame
          /\ hit' = IF h.live THEN hit \union {h.owned} ELSE hit
          /\ \/ /\ life' = [life EXCEPT ![h.owned] = "exited"]
                /\ \/ helper' = Unleased([h EXCEPT !.live = FALSE]) /\ Respond("exited", NoGame)
                   \/ /\ h.lease
                      /\ helper' = [h EXCEPT !.live = FALSE] /\ Respond("stays", NoGame)
             \/ /\ h.live
                /\ helper' = h /\ \E tag \in {"stays", "error"} : Respond(tag, NoGame)
                /\ UNCHANGED life
    /\ UNCHANGED closed

CloseNothing ==
    /\ Asked({"close", "terminate"})
    /\ helper.owned = NoGame
    /\ Respond("error", NoGame)
    /\ UNCHANGED <<life, helper, closed, hit>>

\* Slip: the release of a game that runs keeps its handle.
ReleaseKeepsHandle ==
    /\ Asked({"release"})
    /\ helper' \in Refreshes
    /\ Respond("ok", NoGame)
    /\ UNCHANGED <<life, closed, hit>>

\* Release: let go of a running game, or wait for the shim of an exited one.
Release ==
    /\ Asked({"release"})
    /\ \E h \in Refreshes :
          \/ /\ helper' = Unleased([h EXCEPT !.owned = NoGame, !.live = FALSE])
             /\ Respond("ok", NoGame)
          \/ /\ h.owned # NoGame /\ ~h.live /\ h.lease
             /\ helper' = h
             /\ Respond("error", NoGame)
    /\ UNCHANGED <<life, closed, hit>>

Serve == \/ StartRefused \/ StartOwned \/ StartUnresolved
         \/ Status \/ CloseGame \/ CloseNothing \/ Release

Disposed == Unleased([helper EXCEPT !.owned = NoGame, !.live = FALSE, !.open = FALSE])

\* The end of its input: Dispose closes the handles and no game.
EndOfInput ==
    /\ closed /\ helper.open
    /\ inbox = <<>>
    /\ helper' = Disposed
    /\ UNCHANGED <<life, inbox, outbox, closed, hit>>

\* The helper process dies; the client rejects every pending call, in their order.
HelperDies ==
    /\ helper.open
    /\ helper' = Disposed
    /\ LET pending == {i \in DOMAIN inbox : inbox[i].from # Nobody}
       IN  \E nth \in [1..Cardinality(pending) -> pending] :
              /\ \A k, m \in DOMAIN nth : k < m => nth[k] < nth[m]
              /\ outbox' = outbox \o [k \in DOMAIN nth |->
                     [from |-> inbox[nth[k]].from, tag |-> "error", game |-> NoGame]]
    /\ inbox' = <<>>
    /\ UNCHANGED <<life, closed, hit>>

-----------------------------------------------------------------------------
(* The processes.                                                          *)

GameExits(g) ==
    /\ life[g] = "running"
    /\ life' = [life EXCEPT ![g] = "exited"]
    /\ UNCHANGED <<helper, inbox, outbox, closed, hit>>

HelperTypeOK ==
    /\ life \in [Games -> {"none", "running", "exited"}]
    /\ helper \in [owned : Games \union {NoGame}, live : BOOLEAN, lease : BOOLEAN,
                   unresolved : BOOLEAN, open : BOOLEAN]
    /\ inbox \in Seq([from : Callers \union {Nobody},
                      op : {"start", "status", "close", "terminate", "release"}])
    /\ outbox \in Seq([from : Callers, tag : Answers, game : Games \union {NoGame}])
    /\ closed \in BOOLEAN
    /\ hit \in SUBSET Games
=============================================================================
