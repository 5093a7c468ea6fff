--------------------------- MODULE Session_proofs ---------------------------
(***************************************************************************)
(* Proofs about Session, for any number of games, jobs and stops.  Both    *)
(* ends see the game only through messages: the controller knows what an   *)
(* answer said when the helper gave it, and the helper serves a request    *)
(* long after it was decided on, or after its caller gave it up.  The      *)
(* invariant therefore is about what is on the way: in which order a start *)
(* and a release may be, and what an answer that was not read yet may say. *)
(***************************************************************************)
EXTENDS Session, SequenceTheorems, FiniteSetTheorems, TLAPS

\* Where a workflow awaits an answer of the helper.
Awaits == {"cStatus", "cClose", "cTerminate", "cRelease", "lRelease", "dropStatus",
           "dropRelease", "prior", "starting", "rStatus", "release"}

Places == Awaits \union
          {"idle", "begin", "resolve", "available", "load", "waitLoad", "scenario", "waitScenario",
           "enrich", "cancel", "evidence", "done"}

Requested == [from : Callers \union {Nobody},
              op : {"start", "status", "close", "terminate", "release"}]
Answered == [from : Callers, tag : Answers, game : Games \union {NoGame}]

\* The shapes of what the argument is about.
ShapeInv ==
    /\ life \in [Games -> {"none", "running", "exited"}]
    /\ helper \in [owned : Games \union {NoGame}, live : BOOLEAN, lease : BOOLEAN,
                   unresolved : BOOLEAN, open : BOOLEAN]
    /\ inbox \in Seq(Requested)
    /\ outbox \in Seq(Answered)
    /\ session \in [owner : Games \union {NoGame}, released : BOOLEAN, uncertain : BOOLEAN,
                    shutting : BOOLEAN, up : BOOLEAN, jobs : 0..MaxJobs, force : BOOLEAN]
    /\ pc \in [Callers -> Places]
    /\ left \in [Games -> {"no", "asked", "done"}]

\* What the helper knows of the game it owns; while a launch is unresolved nobody
\* owns one.
HelperInv ==
    /\ helper.live => helper.owned # NoGame
    /\ helper.owned # NoGame /\ life[helper.owned] = "running" => helper.live
    /\ helper.unresolved => helper.owned = NoGame /\ session.owner = NoGame

\* A workflow awaits one answer at a time: its request or the answer to it is on
\* the way, and never both.
AwaitInv ==
    /\ \A i \in DOMAIN inbox : inbox[i].from # Nobody => pc[inbox[i].from] \in Awaits
    /\ \A i \in DOMAIN inbox : inbox[i].from # Nobody /\ inbox[i].op = "start" =>
           inbox[i].from = "job" /\ pc["job"] = "starting"
    /\ \A i, j \in DOMAIN inbox : inbox[i].from # Nobody /\ inbox[i].from = inbox[j].from => i = j
    /\ \A k \in DOMAIN outbox :
           /\ pc[outbox[k].from] \in Awaits
           /\ \A i \in DOMAIN inbox : inbox[i].from # outbox[k].from
           /\ \A m \in DOMAIN outbox : outbox[k].from = outbox[m].from => k = m
    /\ ~session.shutting => pc["shutdown"] = "idle"

Starts == {i \in DOMAIN inbox : inbox[i].op = "start"}

\* One start is on the way at most, and while it is nobody owns a game; the answer
\* to it names the game that the helper owns, unless it has let go of it.
StartInv ==
    /\ \A i, j \in Starts : i = j
    /\ Starts # {} => helper.owned = NoGame /\ session.owner = NoGame
    /\ \A k \in DOMAIN outbox : outbox[k].tag = "started" =>
           /\ outbox[k].from = "job" /\ pc["job"] = "starting"
           /\ outbox[k].game # NoGame
           /\ helper.owned \in {outbox[k].game, NoGame}
           /\ Starts = {} /\ ~helper.unresolved

\* The answers that have found a game.
Finds == {"running", "exited", "stays"}

\* The status that a job asks for before its start is behind every other start;
\* if it finds no game, no answer behind it has found one.
PriorInv ==
    /\ pc["job"] \in {"prior", "starting"} => session.owner = NoGame
    /\ pc["job"] = "prior" =>
           /\ \A i \in DOMAIN inbox : inbox[i].from = "job" => \A j \in Starts : j < i
           /\ \A k \in DOMAIN outbox : outbox[k].from = "job" /\ outbox[k].tag = "unowned" =>
                  /\ helper.owned = NoGame /\ Starts = {}
                  /\ \A m \in DOMAIN outbox : m > k => outbox[m].tag \notin Finds

\* A release that is served now does not cost a game that is to be kept.
MayRelease ==
    /\ ~helper.unresolved
    /\ helper.owned # NoGame => life[helper.owned] # "running" \/ left[helper.owned] # "no"

\* A release is asked for when that is so, and no start comes before it.
ReleaseInv == ~session.shutting =>
    /\ \A i \in DOMAIN inbox : inbox[i].op = "release" => MayRelease /\ \A j \in Starts : i < j
    /\ \A k \in DOMAIN outbox : outbox[k].tag = "exited" => MayRelease

\* A game that was left running was let go of, and is not owned again: a launch has
\* a game of its own.
LeftInv ==
    /\ \A g \in Games : left[g] # "no" => life[g] # "none"
    /\ session.owner # NoGame => life[session.owner] # "none"
    /\ \A k \in DOMAIN outbox : outbox[k].tag = "started" => life[outbox[k].game] # "none"
    /\ \A g \in Games : left[g] = "done" => helper.owned # g
    /\ pc["job"] = "lRelease" => \A k \in DOMAIN outbox :
           outbox[k].from = "job" /\ outbox[k].tag = "ok" /\ session.owner # NoGame =>
               helper.owned # session.owner

\* The request i ends a game, or is the status that a cleanup begins with.
Endangers(i) == \/ inbox[i].op \in {"close", "terminate"}
                \/ inbox[i].from # Nobody /\ pc[inbox[i].from] = "cStatus"

\* The release of the shutdown was served, and the helper has launched a game since.
Spared == session.shutting /\ helper.live /\ ~\E i \in DOMAIN inbox : inbox[i].op = "release"

\* Nothing that may end a game comes behind a start, so that nothing is left of it
\* when there is such a game.
SpareInv ==
    /\ helper.live => session.up
    /\ \A k \in DOMAIN outbox : outbox[k].tag \in Finds => Starts = {}
    /\ \A i \in DOMAIN inbox : Endangers(i) => \A j \in Starts : i < j
    /\ Spared => /\ \A i \in DOMAIN inbox : ~Endangers(i)
                 /\ \A k \in DOMAIN outbox :
                        /\ outbox[k].tag = "running" => pc[outbox[k].from] # "cStatus"
                        /\ outbox[k].tag # "stays"

Alive == /\ ShapeInv /\ HelperInv /\ AwaitInv /\ StartInv /\ PriorInv /\ ReleaseInv
         /\ LeftInv /\ SpareInv /\ KeepsItsGame

JobRecord == [kind : {"start", "run"}, finish : {"stop", "leave"}, force : BOOLEAN,
              abort : BOOLEAN, proc : Games \union {NoGame}, late : BOOLEAN,
              scenario : BOOLEAN, failing : BOOLEAN, lost : BOOLEAN]

\* From where an aborted job comes to its end without a cleanup.
Spares == {"resolve", "enrich", "evidence", "idle"}

\* A bridge that shuts down has aborted its job; if the job adopts a game all the
\* same, it is past every cleanup.
ShutInv ==
    /\ job \in JobRecord
    /\ closed => session.shutting
    /\ session.shutting =>
           /\ pc["job"] = "idle" \/ job.abort
           /\ session.owner # NoGame /\ ~session.released => pc["job"] \in Spares

\* Without the helper there is nothing to keep.
IInv == IF helper.open THEN Alive /\ ShutInv ELSE helper.owned = NoGame

-----------------------------------------------------------------------------
(* Sequences, element by element.                                          *)

\* What is left without the head.
LEMMA TailAt ==
  ASSUME NEW S, NEW q \in Seq(S), q # <<>>
  PROVE  /\ Tail(q) \in Seq(S) /\ Head(q) = q[1] /\ 1 \in DOMAIN q /\ q[1] \in S
         /\ \A i \in DOMAIN Tail(q) : i \in Nat /\ i+1 \in DOMAIN q /\ Tail(q)[i] = q[i+1]
<1>1. /\ Len(q) \in Nat \ {0} /\ DOMAIN q = 1..Len(q) /\ Head(q) = q[1] /\ Tail(q) \in Seq(S)
      /\ DOMAIN Tail(q) = 1..Len(q)-1 /\ \A i \in 1..Len(q)-1 : Tail(q)[i] = q[i+1]
  OBVIOUS
<1>2. 1 \in DOMAIN q /\ q[1] \in S
  BY <1>1
<1> QED BY <1>1, <1>2

\* What is there with one more behind.
LEMMA AppendAt ==
  ASSUME NEW S, NEW q \in Seq(S), NEW x \in S
  PROVE  /\ Append(q, x) \in Seq(S)
         /\ \A i \in DOMAIN q : i \in Nat /\ i < Len(q) + 1
         /\ \A i \in DOMAIN Append(q, x) :
                \/ i \in DOMAIN q /\ Append(q, x)[i] = q[i]
                \/ i = Len(q) + 1 /\ Append(q, x)[i] = x /\ i \notin DOMAIN q
<1>1. /\ Len(q) \in Nat /\ DOMAIN q = 1..Len(q) /\ Append(q, x) \in Seq(S)
      /\ DOMAIN Append(q, x) = 1..Len(q)+1 /\ Append(q, x)[Len(q)+1] = x
      /\ \A i \in 1..Len(q) : Append(q, x)[i] = q[i]
  OBVIOUS
<1> QED BY <1>1

\* What is there with one more in front.
LEMMA PrependAt ==
  ASSUME NEW S, NEW q \in Seq(S), NEW x \in S
  PROVE  /\ <<x>> \o q \in Seq(S)
         /\ \A i \in DOMAIN (<<x>> \o q) :
                \/ i = 1 /\ (<<x>> \o q)[i] = x
                \/ i \in Nat /\ i > 1 /\ i-1 \in DOMAIN q /\ (<<x>> \o q)[i] = q[i-1]
<1>1. <<x>> \in Seq(S) /\ Len(<<x>>) = 1 /\ <<x>>[1] = x
  OBVIOUS
<1> DEFINE r == <<x>> \o q
<1>2. /\ r \in Seq(S) /\ Len(r) = 1 + Len(q)
      /\ \A i \in 1..1+Len(q) : r[i] = IF i <= 1 THEN x ELSE q[i-1]
  BY <1>1, ConcatProperties
<1> HIDE DEF r
<1>3. Len(q) \in Nat /\ DOMAIN q = 1..Len(q) /\ DOMAIN r = 1..1+Len(q)
  BY <1>2
<1>4. \A i \in DOMAIN r : i = 1 \/ (i \in Nat /\ i > 1 /\ i-1 \in 1..Len(q))
  BY <1>3
<1>5. \A i \in DOMAIN r : i = 1 => r[i] = x
  BY <1>2, <1>3
<1>6. \A i \in DOMAIN r : i > 1 /\ i \in Nat => r[i] = q[i-1]
  BY <1>2, <1>3
<1> QED BY <1>2, <1>3, <1>4, <1>5, <1>6 DEF r

LEMMA NotAGame == NoGame \notin Games
BY HelperAssumption DEF Games, NoGame

\* What is on the way is of the protocol.
LEMMA MessageShape ==
  ASSUME ShapeInv
  PROVE  /\ \A i \in DOMAIN inbox : inbox[i] \in Requested /\ inbox[i].from \in Callers \union {Nobody}
         /\ \A k \in DOMAIN outbox : outbox[k] \in Answered /\ outbox[k].from \in Callers
<1>1. inbox \in Seq(Requested) /\ outbox \in Seq(Answered)
  BY DEF ShapeInv
<1>2. /\ \A i \in DOMAIN inbox : inbox[i] \in Requested
      /\ \A k \in DOMAIN outbox : outbox[k] \in Answered
  BY <1>1
<1>3. /\ \A m \in Requested : m.from \in Callers \union {Nobody}
      /\ \A m \in Answered : m.from \in Callers
  BY DEF Requested, Answered
<1> QED BY <1>2, <1>3

-----------------------------------------------------------------------------
(* A step of the bridge: a workflow goes from one place to the next.       *)

\* The workflow c takes d answers, and sends a request where it is to await one.
Says(c, d, op, where) ==
    /\ \/ d = 0 /\ pc[c] \notin Awaits /\ UNCHANGED outbox /\ op = "none"
       \/ d = 1 /\ Handled(c) /\ outbox' = Tail(outbox) /\ op = "none"
       \/ d = 0 /\ pc[c] \notin Awaits /\ Call(c, op, outbox) /\ op # "none"
       \/ d = 1 /\ Handled(c) /\ Call(c, op, Tail(outbox)) /\ op # "none"
    /\ op = "none" => UNCHANGED inbox
    /\ where \in Awaits <=> op # "none"
    /\ pc' = [pc EXCEPT ![c] = where]
    /\ UNCHANGED <<life, helper>>

Ops == {"start", "status", "close", "terminate", "release"}

\* What is on the way after it: what was, less the answers it took, and one
\* message more, a request or, if there is nobody to ask, an answer.
LEMMA SaysShape ==
  ASSUME ShapeInv, AwaitInv, NEW c \in Callers, NEW d \in {0, 1}, NEW op \in Ops \union {"none"},
         NEW where \in Places, Says(c, d, op, where)
  PROVE  /\ inbox' \in Seq(Requested) /\ outbox' \in Seq(Answered) /\ pc' \in [Callers -> Places]
         /\ \A i \in DOMAIN inbox : i \in Nat /\ i < Len(inbox) + 1 /\ inbox[i].from # c
         /\ \A i \in DOMAIN inbox' :
                \/ i \in DOMAIN inbox /\ inbox'[i] = inbox[i]
                \/ /\ i = Len(inbox) + 1 /\ inbox'[i].from = c /\ inbox'[i].op = op
                   /\ op # "none" /\ where \in Awaits
         /\ \A k \in DOMAIN outbox' :
                \/ /\ k \in Nat /\ k < Len(outbox)+1-d /\ k+d \in DOMAIN outbox /\ outbox'[k] = outbox[k+d]
                   /\ outbox[k+d].from # c
                \/ /\ k = Len(outbox)+1-d
                   /\ outbox'[k].from = c /\ outbox'[k].tag \in {"ok", "error"}
                   /\ where \in Awaits
         /\ inbox' = inbox \/ \A k \in DOMAIN outbox' : outbox'[k].from # c
<1> DEFINE out == IF d = 0 THEN outbox ELSE Tail(outbox)
<1>1. inbox \in Seq(Requested) /\ outbox \in Seq(Answered) /\ pc \in [Callers -> Places]
  BY DEF ShapeInv
<1>2. pc' \in [Callers -> Places]
  BY <1>1 DEF Says
<1>3. c # Nobody
  BY HelperAssumption
<1>4. \A i \in DOMAIN inbox : inbox[i].from # c
  <2>1. CASE d = 0 /\ pc[c] \notin Awaits
    BY <1>3, <2>1 DEF AwaitInv
  <2>2. CASE d = 1 /\ Handled(c)
    <3>1. 1 \in DOMAIN outbox /\ outbox[1].from = c
      BY <1>1, <2>2, TailAt DEF Handled
    <3> QED BY <3>1 DEF AwaitInv
  <2> QED BY <2>1, <2>2 DEF Says
<1>5. /\ out \in Seq(Answered)
      /\ \A k \in DOMAIN out : k \in Nat /\ k+d \in DOMAIN outbox /\ out[k] = outbox[k+d] /\ outbox[k+d].from # c
  <2>1. CASE d = 0 /\ pc[c] \notin Awaits
    <3>1. \A k \in DOMAIN outbox : k \in Nat /\ k+0 = k /\ outbox[k].from # c
      BY <1>1, <2>1 DEF AwaitInv
    <3> QED BY <1>1, <2>1, <3>1
  <2>2. CASE d = 1 /\ Handled(c)
    <3>1. /\ Tail(outbox) \in Seq(Answered) /\ 1 \in DOMAIN outbox /\ outbox[1].from = c
          /\ \A k \in DOMAIN Tail(outbox) : k \in Nat /\ k+1 \in DOMAIN outbox /\ Tail(outbox)[k] = outbox[k+1]
      BY <1>1, <2>2, TailAt DEF Handled
    <3>2. \A k \in DOMAIN Tail(outbox) : k+1 # 1
      BY <3>1
    <3>3. \A k \in DOMAIN Tail(outbox) : outbox[k+1].from # c
      BY <3>1, <3>2 DEF AwaitInv
    <3> QED BY <2>2, <3>1, <3>3
  <2> QED BY <2>1, <2>2 DEF Says
<1>6. \/ op = "none" /\ where \notin Awaits /\ inbox' = inbox /\ outbox' = out
      \/ /\ op # "none" /\ where \in Awaits
         /\ inbox' = Append(inbox, [from |-> c, op |-> op]) /\ outbox' = out
      \/ /\ op # "none" /\ where \in Awaits /\ inbox' = inbox
         /\ \E tag \in {"ok", "error"} : outbox' = Append(out, [from |-> c, tag |-> tag, game |-> NoGame])
  <2>1. CASE op = "none"
    BY <2>1 DEF Says
  <2>2. CASE op # "none"
    <3>1. Call(c, op, out) /\ where \in Awaits
      BY <2>2 DEF Says
    <3> HIDE DEF out
    <3> QED BY <2>2, <3>1 DEF Call
  <2> QED BY <2>1, <2>2
<1> HIDE DEF out
<1>7. \A i \in DOMAIN inbox : i \in Nat /\ i < Len(inbox) + 1
  BY <1>1
<1>8. Len(out) + 1 = Len(outbox)+1-d /\ \A k \in DOMAIN out : k \in Nat /\ k < Len(out) + 1
  <2>1. CASE d = 0
    BY <1>1, <1>5, <2>1 DEF out
  <2>2. CASE d = 1
    <3>1. outbox # <<>> /\ out = Tail(outbox)
      BY <2>2 DEF out, Says, Handled
    <3> QED BY <1>1, <1>5, <2>2, <3>1
  <2> QED BY <2>1, <2>2
<1>9. CASE op = "none"
  BY <1>1, <1>2, <1>4, <1>5, <1>6, <1>7, <1>8, <1>9
<1>10. CASE op # "none" /\ inbox' = Append(inbox, [from |-> c, op |-> op]) /\ outbox' = out
  <2> DEFINE x == [from |-> c, op |-> op]
  <2>1. x \in Requested /\ x.from = c /\ x.op = op
    BY <1>10 DEF Requested, Ops
  <2>2. inbox' = Append(inbox, x) /\ where \in Awaits
    BY <1>6, <1>10
  <2> HIDE DEF x
  <2>3. inbox' \in Seq(Requested)
    BY <1>1, <2>1, <2>2, AppendAt
  <2>4. \A i \in DOMAIN inbox' :
           \/ i \in DOMAIN inbox /\ inbox'[i] = inbox[i]
           \/ i = Len(inbox) + 1 /\ inbox'[i] = x
    BY <1>1, <2>1, <2>2, AppendAt
  <2>5. \A k \in DOMAIN outbox' : outbox'[k].from # c
    BY <1>5, <1>10
  <2> QED BY <1>2, <1>4, <1>5, <1>7, <1>8, <1>10, <2>1, <2>2, <2>3, <2>4, <2>5
<1>11. ASSUME NEW tag \in {"ok", "error"}, op # "none", where \in Awaits, inbox' = inbox,
              outbox' = Append(out, [from |-> c, tag |-> tag, game |-> NoGame])
       PROVE  /\ outbox' \in Seq(Answered)
              /\ \A k \in DOMAIN outbox' :
                    \/ k \in DOMAIN out /\ outbox'[k] = out[k]
                    \/ k = Len(out) + 1 /\ outbox'[k].from = c /\ outbox'[k].tag \in {"ok", "error"}
  <2> DEFINE x == [from |-> c, tag |-> tag, game |-> NoGame]
  <2>1. x \in Answered /\ x.from = c /\ x.tag = tag
    BY DEF Answered, Answers
  <2>2. outbox' = Append(out, x)
    BY <1>11
  <2> HIDE DEF x
  <2> QED BY <1>5, <2>1, <2>2, AppendAt
<1>12. CASE op # "none" /\ where \in Awaits /\ inbox' = inbox
            /\ \E tag \in {"ok", "error"} : outbox' = Append(out, [from |-> c, tag |-> tag, game |-> NoGame])
  BY <1>1, <1>2, <1>4, <1>5, <1>7, <1>8, <1>11, <1>12
<1> QED BY <1>6, <1>9, <1>10, <1>12

\* What a step of the bridge may do to what it knows, and to what was left running.
Keeps ==
    /\ session' \in [owner : Games \union {NoGame}, released : BOOLEAN, uncertain : BOOLEAN,
                     shutting : BOOLEAN, up : BOOLEAN, jobs : 0..MaxJobs, force : BOOLEAN]
    /\ left' \in [Games -> {"no", "asked", "done"}]
    /\ session'.owner \in {session.owner, NoGame}
    /\ session.released => session'.released \/ session'.owner = NoGame
    /\ session.shutting => session'.shutting
    /\ session'.shutting => session.shutting \/ ~Spared'
    /\ session.up => session'.up
    /\ \A g \in Games :
           /\ left'[g] = "no" => left[g] = "no"
           /\ left'[g] # left[g] => g = session.owner /\ (left'[g] = "done" => helper.owned # g)

\* What the operation that it asks for needs.
Allowed(c, op, where) ==
    /\ c = "shutdown" => session'.shutting
    /\ c = "job" /\ where \in {"prior", "starting"} => session'.owner = NoGame
    /\ op = "start" =>
           /\ c = "job" /\ where = "starting"
           /\ Starts = {} /\ helper.owned = NoGame /\ session'.owner = NoGame
           /\ \A k \in DOMAIN outbox' : outbox'[k].tag \notin Finds
    /\ c = "job" /\ where = "starting" => op = "start"
    /\ c = "job" /\ where = "lRelease" => ~closed
    /\ op \in {"close", "terminate"} \/ where = "cStatus" => Starts = {} /\ ~Spared
    /\ op = "release" => session'.shutting \/ (MayRelease' /\ Starts = {})

\* Such a step keeps the invariant, part by part.
LEMMA BridgeStep ==
  ASSUME Alive, helper.open,
         NEW c \in Callers, NEW d \in {0, 1}, NEW op \in Ops \union {"none"}, NEW where \in Places,
         Says(c, d, op, where), Keeps, Allowed(c, op, where)
  PROVE  Alive' /\ helper'.open
<1> USE DEF Alive
<1>1. /\ inbox' \in Seq(Requested) /\ outbox' \in Seq(Answered) /\ pc' \in [Callers -> Places]
      /\ \A i \in DOMAIN inbox : i \in Nat /\ i < Len(inbox) + 1 /\ inbox[i].from # c
      /\ \A i \in DOMAIN inbox' :
             \/ i \in DOMAIN inbox /\ inbox'[i] = inbox[i]
             \/ /\ i = Len(inbox) + 1 /\ inbox'[i].from = c /\ inbox'[i].op = op
                /\ op # "none" /\ where \in Awaits
      /\ inbox' = inbox \/ \A k \in DOMAIN outbox' : outbox'[k].from # c
  BY SaysShape, SMTT(30)
<1> DEFINE n == Len(outbox)+1-d
<1>2. \A k \in DOMAIN outbox' :
             \/ /\ k \in Nat /\ k < n /\ k+d \in DOMAIN outbox /\ outbox'[k] = outbox[k+d]
                /\ outbox[k+d].from # c
             \/ /\ k = n /\ outbox'[k].from = c /\ outbox'[k].tag \in {"ok", "error"}
                /\ where \in Awaits
  BY SaysShape
<1> HIDE DEF n
<1>3. /\ UNCHANGED <<life, helper>> /\ pc \in [Callers -> Places]
      /\ pc'[c] = where /\ \A b \in Callers : b # c => pc'[b] = pc[b]
  BY DEF Says, ShapeInv
<1>4. c # Nobody /\ Nobody \notin Callers /\ Callers = {"job", "stop", "shutdown"}
  BY HelperAssumption, SessionAssumption
<1>5. ShapeInv'
  BY <1>1, <1>3 DEF ShapeInv, Keeps
<1>6. HelperInv'
  BY <1>3 DEF HelperInv, Keeps
<1>7. AwaitInv'
  <2>1. \A i \in DOMAIN inbox : inbox[i].from \in Callers \union {Nobody}
    BY MessageShape
  <2>2. \A k \in DOMAIN outbox : outbox[k].from \in Callers
    BY MessageShape
  <2>3. \A i \in DOMAIN inbox' : inbox'[i].from # Nobody => pc'[inbox'[i].from] \in Awaits
    BY <1>1, <1>3, <1>4, <2>1 DEF AwaitInv
  <2>4. \A i \in DOMAIN inbox' : inbox'[i].from # Nobody /\ inbox'[i].op = "start" =>
            inbox'[i].from = "job" /\ pc'["job"] = "starting"
    BY <1>1, <1>3, <1>4, <2>1 DEF AwaitInv, Allowed
  <2>5. \A i, j \in DOMAIN inbox' : inbox'[i].from # Nobody /\ inbox'[i].from = inbox'[j].from => i = j
    BY <1>1, <1>4 DEF AwaitInv
  <2>6. ASSUME NEW k \in DOMAIN outbox'
        PROVE  /\ pc'[outbox'[k].from] \in Awaits
               /\ \A i \in DOMAIN inbox' : inbox'[i].from # outbox'[k].from
               /\ \A m \in DOMAIN outbox' : outbox'[k].from = outbox'[m].from => k = m
    <3>1. CASE k \in Nat /\ k+d \in DOMAIN outbox /\ outbox'[k] = outbox[k+d] /\ outbox[k+d].from # c
      <4>1. pc'[outbox'[k].from] \in Awaits
        BY <1>3, <2>2, <3>1 DEF AwaitInv
      <4>2. \A i \in DOMAIN inbox' : inbox'[i].from # outbox'[k].from
        BY <1>1, <3>1 DEF AwaitInv
      <4>3. ASSUME NEW m \in DOMAIN outbox', outbox'[k].from = outbox'[m].from PROVE k = m
        <5>1. m \in Nat /\ m+d \in DOMAIN outbox /\ outbox'[m] = outbox[m+d]
          BY <1>2, <3>1, <4>3
        <5>2. k+d = m+d
          BY <3>1, <4>3, <5>1 DEF AwaitInv
        <5> QED BY <3>1, <5>1, <5>2
      <4> QED BY <4>1, <4>2, <4>3
    <3>2. CASE k = n /\ outbox'[k].from = c /\ where \in Awaits
      <4>1. inbox' = inbox
        BY <1>1, <3>2
      <4>2. \A m \in DOMAIN outbox' : outbox'[m].from = c => m = n
        BY <1>2
      <4> QED BY <1>1, <1>3, <3>2, <4>1, <4>2
    <3> QED BY <1>2, <3>1, <3>2
  <2>7. ~session'.shutting => pc'["shutdown"] = "idle"
    BY <1>3, <1>4 DEF AwaitInv, Keeps, Allowed
  <2> QED BY <2>3, <2>4, <2>5, <2>6, <2>7 DEF AwaitInv
<1>8. /\ op # "start" => Starts' = Starts
      /\ op = "start" => \A i \in Starts' : i = Len(inbox) + 1
      /\ \A i \in DOMAIN inbox : i \in DOMAIN inbox' /\ inbox'[i] = inbox[i]
  <2>1. \A i \in DOMAIN inbox : i \in DOMAIN inbox' /\ inbox'[i] = inbox[i]
    <3>1. inbox' = inbox \/ \E x \in Requested : inbox' = Append(inbox, x)
      <4>1. op # "none" => op \in Ops
        OBVIOUS
      <4>2. op \in Ops => [from |-> c, op |-> op] \in Requested
        BY DEF Requested, Ops
      <4> QED BY <4>1, <4>2 DEF Says, Call
    <3>2. ASSUME NEW x \in Requested, inbox' = Append(inbox, x), NEW i \in DOMAIN inbox
          PROVE  i \in DOMAIN inbox' /\ inbox'[i] = inbox[i]
      <4>1. inbox \in Seq(Requested)
        BY DEF ShapeInv
      <4> QED BY <3>2, <4>1, AppendProperties
    <3> QED BY <3>1, <3>2
  <2> QED BY <1>1, <2>1 DEF Starts, Allowed
<1>9. StartInv'
  <2>1. \A i, j \in Starts' : i = j
    BY <1>8 DEF StartInv
  <2>2. Starts' # {} => helper'.owned = NoGame /\ session'.owner = NoGame
    BY <1>3, <1>8 DEF StartInv, Keeps, Allowed
  <2>3. ASSUME NEW k \in DOMAIN outbox', outbox'[k].tag = "started"
        PROVE  /\ outbox'[k].from = "job" /\ pc'["job"] = "starting"
               /\ outbox'[k].game # NoGame
               /\ helper'.owned \in {outbox'[k].game, NoGame}
               /\ Starts' = {} /\ ~helper'.unresolved
    <3>1. k+d \in DOMAIN outbox /\ outbox'[k] = outbox[k+d] /\ outbox[k+d].from # c
      BY <1>2, <2>3
    <3>2. /\ outbox[k+d].from = "job" /\ pc["job"] = "starting" /\ outbox[k+d].game # NoGame
          /\ helper.owned \in {outbox[k+d].game, NoGame} /\ Starts = {} /\ ~helper.unresolved
      BY <2>3, <3>1 DEF StartInv
    <3>3. op # "start"
      BY <3>1, <3>2 DEF Allowed
    <3> QED BY <1>3, <1>4, <1>8, <3>1, <3>2, <3>3
  <2> QED BY <2>1, <2>2, <2>3 DEF StartInv
<1>10. PriorInv'
  <2>1. pc'["job"] \in {"prior", "starting"} => session'.owner = NoGame
    BY <1>3, <1>4 DEF PriorInv, Allowed, Keeps
  <2>2. ASSUME pc'["job"] = "prior", NEW i \in DOMAIN inbox', inbox'[i].from = "job",
               NEW j \in Starts'
        PROVE  j < i
    <3>1. op # "start"
      BY <1>3, <1>4, <2>2 DEF Allowed
    <3>2. j \in Starts /\ j \in DOMAIN inbox
      BY <1>8, <3>1 DEF Starts
    <3> QED BY <1>1, <1>3, <1>4, <2>2, <3>2 DEF PriorInv
  <2>3. ASSUME pc'["job"] = "prior", NEW k \in DOMAIN outbox', outbox'[k].from = "job",
               outbox'[k].tag = "unowned"
        PROVE  /\ helper'.owned = NoGame /\ Starts' = {}
               /\ \A m \in DOMAIN outbox' : m > k => outbox'[m].tag \notin Finds
    <3>1. /\ k \in Nat /\ k+d \in DOMAIN outbox /\ outbox'[k] = outbox[k+d] /\ c # "job"
      BY <1>2, <2>3
    <3>2. pc["job"] = "prior"
      BY <1>3, <1>4, <2>3, <3>1
    <3>3. /\ helper.owned = NoGame /\ Starts = {}
          /\ \A m \in DOMAIN outbox : m > k+d => outbox[m].tag \notin Finds
      BY <2>3, <3>1, <3>2 DEF PriorInv
    <3>4. op # "start"
      BY <3>1 DEF Allowed
    <3>5. ASSUME NEW m \in DOMAIN outbox', m > k PROVE outbox'[m].tag \notin Finds
      <4>1. CASE m \in Nat /\ m+d \in DOMAIN outbox /\ outbox'[m] = outbox[m+d]
        <5>1. m+d > k+d
          BY <3>1, <3>5, <4>1
        <5> QED BY <3>3, <4>1, <5>1
      <4>2. CASE outbox'[m].tag \in {"ok", "error"}
        BY <4>2 DEF Finds
      <4> QED BY <1>2, <4>1, <4>2
    <3> QED BY <1>3, <1>8, <3>3, <3>4, <3>5
  <2> QED BY <2>1, <2>2, <2>3 DEF PriorInv
<1>11. MayRelease => MayRelease'
  BY <1>3 DEF MayRelease, Keeps, ShapeInv
<1>12. ReleaseInv'
  <2> SUFFICES ASSUME ~session'.shutting PROVE
        /\ \A i \in DOMAIN inbox' : inbox'[i].op = "release" => MayRelease' /\ \A j \in Starts' : i < j
        /\ \A k \in DOMAIN outbox' : outbox'[k].tag = "exited" => MayRelease'
    BY DEF ReleaseInv
  <2>1. ~session.shutting
    BY DEF Keeps
  <2>2. ASSUME NEW i \in DOMAIN inbox', inbox'[i].op = "release"
        PROVE  MayRelease' /\ \A j \in Starts' : i < j
    <3>1. CASE i \in DOMAIN inbox /\ inbox'[i] = inbox[i]
      BY <1>1, <1>8, <1>11, <2>1, <2>2, <3>1 DEF ReleaseInv
    <3>2. CASE op = "release"
      BY <1>8, <3>2 DEF Allowed
    <3> QED BY <1>1, <2>2, <3>1, <3>2
  <2>3. ASSUME NEW k \in DOMAIN outbox', outbox'[k].tag = "exited"
        PROVE  MayRelease'
    <3>1. k+d \in DOMAIN outbox /\ outbox'[k] = outbox[k+d]
      BY <1>2, <2>3
    <3> QED BY <1>11, <2>1, <2>3, <3>1 DEF ReleaseInv
  <2> QED BY <2>2, <2>3
<1>13. KeepsItsGame'
  BY <1>3 DEF KeepsItsGame, Keeps, ShapeInv
<1>14. LeftInv'
  <2>1. \A g \in Games : left'[g] # "no" => life'[g] # "none"
    BY <1>3, NotAGame DEF LeftInv, Keeps
  <2>2. session'.owner # NoGame => life'[session'.owner] # "none"
    BY <1>3 DEF LeftInv, Keeps
  <2>3. \A k \in DOMAIN outbox' : outbox'[k].tag = "started" => life'[outbox'[k].game] # "none"
    BY <1>2, <1>3 DEF LeftInv
  <2>4. \A g \in Games : left'[g] = "done" => helper'.owned # g
    BY <1>3 DEF LeftInv, Keeps
  <2>5. ASSUME pc'["job"] = "lRelease", NEW k \in DOMAIN outbox', outbox'[k].from = "job",
               outbox'[k].tag = "ok", session'.owner # NoGame
        PROVE  helper'.owned # session'.owner
    <3>1. CASE c = "job"
      <4>1. ~closed /\ op # "none"
        BY <1>3, <2>5, <3>1 DEF Allowed, Says, Awaits
      <4>2. inbox' = Append(inbox, [from |-> c, op |-> op])
        BY <4>1 DEF Says, Call
      <4>3. inbox' # inbox
        BY <4>2 DEF ShapeInv
      <4> QED BY <1>1, <2>5, <3>1, <4>3
    <3>2. CASE c # "job"
      <4>1. k+d \in DOMAIN outbox /\ outbox'[k] = outbox[k+d] /\ pc["job"] = "lRelease"
        BY <1>2, <1>3, <1>4, <2>5, <3>2
      <4> QED BY <1>3, <2>5, <4>1 DEF LeftInv, Keeps
    <3> QED BY <3>1, <3>2
  <2> QED BY <2>1, <2>2, <2>3, <2>4, <2>5 DEF LeftInv
<1>15. SpareInv'
  <2>1. Spared' => Spared
    BY <1>3, <1>8 DEF Spared, Keeps
  <2>2. \A k \in DOMAIN outbox' : outbox'[k].tag \in Finds => Starts' = {}
    BY <1>2, <1>8 DEF SpareInv, Allowed, Finds
  <2>3. \A i \in DOMAIN inbox' :
            \/ i \in DOMAIN inbox /\ (Endangers(i)' => Endangers(i))
            \/ /\ i = Len(inbox) + 1
               /\ Endangers(i)' => op \in {"close", "terminate"} \/ where = "cStatus"
    <3>1. \A i \in DOMAIN inbox : inbox[i].from \in Callers \union {Nobody}
      BY MessageShape
    <3> QED BY <1>1, <1>3, <1>4, <3>1 DEF Endangers
  <2>4. ASSUME NEW i \in DOMAIN inbox', Endangers(i)', NEW j \in Starts' PROVE i < j
    <3>1. CASE i \in DOMAIN inbox /\ Endangers(i)
      BY <1>1, <1>8, <2>4, <3>1 DEF SpareInv
    <3>2. CASE op \in {"close", "terminate"} \/ where = "cStatus"
      <4>1. Starts = {} /\ op # "start"
        BY <3>2 DEF Allowed
      <4> QED BY <1>8, <2>4, <4>1
    <3> QED BY <2>3, <2>4, <3>1, <3>2
  <2>5. ASSUME Spared', NEW i \in DOMAIN inbox' PROVE ~Endangers(i)'
    BY <2>1, <2>3, <2>5 DEF SpareInv, Allowed
  <2>6. ASSUME Spared', NEW k \in DOMAIN outbox'
        PROVE  /\ outbox'[k].tag = "running" => pc'[outbox'[k].from] # "cStatus"
               /\ outbox'[k].tag # "stays"
    <3>1. \A m \in DOMAIN outbox : outbox[m].from \in Callers
      BY MessageShape
    <3> QED BY <1>2, <1>3, <2>1, <2>6, <3>1 DEF SpareInv
  <2>7. helper'.live => session'.up
    BY <1>3 DEF SpareInv, Keeps
  <2> QED BY <2>2, <2>4, <2>5, <2>6, <2>7 DEF SpareInv
<1> QED BY <1>3, <1>5, <1>6, <1>7, <1>9, <1>10, <1>12, <1>13, <1>14, <1>15

-----------------------------------------------------------------------------
(* The forms a step of the bridge has.                                     *)

\* It takes its answer and asks for nothing.
LEMMA TakesAnswer ==
  ASSUME Alive, helper.open, NEW c \in Callers, NEW where \in Places \ Awaits,
         Handled(c), Quiet, Goto(c, where), Keeps, c = "shutdown" => session'.shutting
  PROVE  Alive' /\ helper'.open
<1>1. Says(c, 1, "none", where)
  BY DEF Says, Quiet, Goto, Machine
<1>2. Allowed(c, "none", where)
  BY DEF Allowed, Awaits
<1> QED BY <1>1, <1>2, BridgeStep

\* It takes its answer and asks for the next operation.
LEMMA AsksNext ==
  ASSUME Alive, helper.open, NEW c \in Callers, NEW where \in Awaits, NEW op \in Ops,
         Handled(c), Asks(c, op, where), Keeps, Allowed(c, op, where)
  PROVE  Alive' /\ helper'.open
<1>1. Says(c, 1, op, where) /\ where \in Places
  BY DEF Says, Asks, Goto, Machine, Ops, Places
<1> QED BY <1>1, BridgeStep

\* It asks for an operation after a step that was none of the helper's.
LEMMA OpensWith ==
  ASSUME Alive, helper.open, NEW c \in Callers, NEW where \in Awaits, NEW op \in Ops,
         pc[c] \notin Awaits, Opens(c, op, where), Keeps, Allowed(c, op, where)
  PROVE  Alive' /\ helper'.open
<1>1. Says(c, 0, op, where) /\ where \in Places
  BY DEF Says, Opens, Goto, Machine, Ops, Places
<1> QED BY <1>1, BridgeStep

\* It goes on without the helper.
LEMMA Moves ==
  ASSUME Alive, helper.open, NEW c \in Callers, NEW where \in Places \ Awaits,
         pc[c] \notin Awaits, Silent, Goto(c, where), Keeps, c = "shutdown" => session'.shutting
  PROVE  Alive' /\ helper'.open
<1>1. Says(c, 0, "none", where)
  BY DEF Says, Silent, helperVars, Goto
<1>2. Allowed(c, "none", where)
  BY DEF Allowed, Awaits
<1> QED BY <1>1, <1>2, BridgeStep

\* It changes nothing but the record of the job.
LEMMA Stays ==
  ASSUME Alive, helper.open, Silent, UNCHANGED <<session, pc, left>>
  PROVE  Alive' /\ helper'.open
<1> USE DEF Silent, helperVars
<1>1. ShapeInv' /\ HelperInv' /\ AwaitInv'
  BY DEF Alive, ShapeInv, HelperInv, AwaitInv
<1>2. Starts' = Starts /\ (MayRelease <=> MayRelease')
  BY DEF Starts, MayRelease
<1>3. StartInv' /\ PriorInv' /\ ReleaseInv'
  BY <1>2 DEF Alive, StartInv, PriorInv, ReleaseInv
<1>4. KeepsItsGame' /\ LeftInv'
  BY DEF Alive, KeepsItsGame, LeftInv
<1>5. SpareInv'
  BY <1>2 DEF Alive, SpareInv, Spared, Endangers
<1> QED BY <1>1, <1>3, <1>4, <1>5 DEF Alive

\* Where an error or the end of the cleanup leads to is no place to await.
LEMMA LeadsOn ==
  ASSUME NEW c
  PROVE  /\ Throws(c) => \E where \in Places \ Awaits : Goto(c, where)
         /\ Ends(c) => \E where \in Places \ Awaits : Goto(c, where)
<1>1. {"enrich", "idle", "evidence"} \subseteq Places \ Awaits
  BY DEF Awaits, Places
<1>2. Throws(c) => Goto(c, "enrich") \/ Goto(c, "idle")
  BY DEF Throws
<1>3. Ends(c) => Goto(c, "evidence") \/ Goto(c, "idle")
  BY DEF Ends
<1> QED BY <1>1, <1>2, <1>3

\* What is known may stay as it is, or become less.
LEMMA KeepsLess ==
  ASSUME ShapeInv, UNCHANGED left,
         session' = session \/ Disowned \/ Disown
  PROVE  Keeps
<1>1. CASE session' = session
  BY <1>1 DEF Keeps, ShapeInv
<1>2. CASE Disowned
  BY <1>2 DEF Keeps, ShapeInv, Disowned
<1>3. CASE Disown
  BY <1>3 DEF Keeps, ShapeInv, Disown
<1> QED BY <1>1, <1>2, <1>3

\* An answer that the game has exited allows to ask for its release.
LEMMA ExitedReleases ==
  ASSUME Alive, NEW c \in {"job", "stop"}, Handled(c), Answer = "exited",
         NEW where \in {"cRelease", "dropRelease"},
         UNCHANGED <<session, left, life, helper>>
  PROVE  Keeps /\ Allowed(c, "release", where)
<1>1. 1 \in DOMAIN outbox /\ outbox[1].tag = "exited"
  <2>1. outbox \in Seq(Answered)
    BY DEF Alive, ShapeInv
  <2> QED BY <2>1, TailAt DEF Handled, Answer
<1>2. (~session.shutting => MayRelease) /\ Starts = {}
  BY <1>1 DEF Alive, ReleaseInv, SpareInv, Finds
<1>3. MayRelease => MayRelease'
  BY DEF MayRelease
<1>4. Allowed(c, "release", where)
  BY <1>2, <1>3 DEF Allowed
<1> QED BY <1>4, KeepsLess DEF Alive

\* An answer upon which a cleanup goes on to end the game.
LEMMA FoundEnds ==
  ASSUME Alive, NEW c, Handled(c),
         (Answer = "running" /\ pc[c] = "cStatus") \/ Answer = "stays"
  PROVE  Starts = {} /\ ~Spared
<1>1. 1 \in DOMAIN outbox /\ outbox[1].from = c /\ outbox[1].tag = Answer
  <2>1. outbox \in Seq(Answered)
    BY DEF Alive, ShapeInv
  <2> QED BY <2>1, TailAt DEF Handled, Answer
<1> QED BY <1>1 DEF Alive, SpareInv, Finds

-----------------------------------------------------------------------------
(* The actions of the bridge, each in one of those forms.                  *)

\* A workflow that got an error, or comes to its end, with its answer.
LEMMA EndsWell ==
  ASSUME Alive, helper.open, NEW c \in {"job", "stop"}, Handled(c), Quiet, Throws(c) \/ Ends(c),
         Keeps
  PROVE  Alive' /\ helper'.open
<1>1. PICK where \in Places \ Awaits : Goto(c, where)
  BY LeadsOn
<1>2. c \in Callers
  BY SessionAssumption
<1> QED BY <1>1, <1>2, TakesAnswer

LEMMA CleanupKeeps ==
  ASSUME Alive, helper.open, NEW c \in {"job", "stop"}, Cleanup(c)
  PROVE  Alive' /\ helper'.open
<1>0. c \in Callers /\ ShapeInv
  BY SessionAssumption DEF Alive
<1>1. UNCHANGED left
  BY DEF Cleanup
<1> USE DEF Gets
<1>2. CASE CleanupStatus(c)
  <2>1. CASE Gets(c, {"error"}) /\ Quiet /\ Throws(c) /\ UNCHANGED session
    BY <1>0, <1>1, <2>1, KeepsLess, EndsWell
  <2>2. CASE Gets(c, {"unowned"}) /\ Quiet /\ Disowned /\ Ends(c)
    BY <1>0, <1>1, <2>2, KeepsLess, EndsWell
  <2>3. CASE Gets(c, {"exited"}) /\ Asks(c, "release", "cRelease") /\ UNCHANGED <<session, job>>
    <3>1. Keeps /\ Allowed(c, "release", "cRelease")
      BY <1>1, <2>3, ExitedReleases DEF Asks, Machine, Awaits
    <3> QED BY <1>0, <2>3, <3>1, AsksNext DEF Awaits, Ops
  <2>4. CASE Gets(c, {"running"}) /\ Asks(c, "close", "cClose") /\ UNCHANGED <<session, job>>
    <3>1. Keeps /\ Allowed(c, "close", "cClose")
      BY <1>0, <1>1, <1>2, <2>4, KeepsLess, FoundEnds DEF Allowed, CleanupStatus
    <3> QED BY <1>0, <2>4, <3>1, AsksNext DEF Awaits, Ops
  <2> QED BY <1>2, <2>1, <2>2, <2>3, <2>4 DEF CleanupStatus
<1>3. CASE CleanupClose(c)
  <2>0. UNCHANGED session
    BY <1>3 DEF CleanupClose
  <2>1. CASE Gets(c, {"error"}) /\ Quiet /\ Throws(c)
    BY <1>0, <1>1, <2>0, <2>1, KeepsLess, EndsWell
  <2>2. CASE Gets(c, {"exited"}) /\ Asks(c, "release", "cRelease") /\ UNCHANGED job
    <3>1. Keeps /\ Allowed(c, "release", "cRelease")
      BY <1>1, <2>0, <2>2, ExitedReleases DEF Asks, Machine, Awaits
    <3> QED BY <1>0, <2>2, <3>1, AsksNext DEF Awaits, Ops
  <2>3. CASE Gets(c, {"stays"}) /\ Forces(c) /\ Asks(c, "terminate", "cTerminate") /\ UNCHANGED job
    <3>1. Keeps /\ Allowed(c, "terminate", "cTerminate")
      BY <1>0, <1>1, <2>0, <2>3, KeepsLess, FoundEnds DEF Allowed
    <3> QED BY <1>0, <2>3, <3>1, AsksNext DEF Awaits, Ops
  <2>4. CASE Gets(c, {"stays"}) /\ ~Forces(c) /\ Quiet /\ Ends(c)
    BY <1>0, <1>1, <2>0, <2>4, KeepsLess, EndsWell
  <2> QED BY <1>3, <2>1, <2>2, <2>3, <2>4 DEF CleanupClose
<1>4. CASE CleanupTerminate(c)
  <2>0. UNCHANGED session
    BY <1>4 DEF CleanupTerminate
  <2>1. CASE Gets(c, {"error"}) /\ Quiet /\ Throws(c)
    BY <1>0, <1>1, <2>0, <2>1, KeepsLess, EndsWell
  <2>2. CASE Gets(c, {"exited"}) /\ Asks(c, "release", "cRelease") /\ UNCHANGED job
    <3>1. Keeps /\ Allowed(c, "release", "cRelease")
      BY <1>1, <2>0, <2>2, ExitedReleases DEF Asks, Machine, Awaits
    <3> QED BY <1>0, <2>2, <3>1, AsksNext DEF Awaits, Ops
  <2>3. CASE Gets(c, {"stays"}) /\ Quiet /\ Ends(c)
    BY <1>0, <1>1, <2>0, <2>3, KeepsLess, EndsWell
  <2> QED BY <1>4, <2>1, <2>2, <2>3 DEF CleanupTerminate
<1>5. CASE CleanupRelease(c)
  <2>1. CASE Gets(c, {"error"}) /\ Throws(c) /\ UNCHANGED session
    BY <1>0, <1>1, <1>5, <2>1, KeepsLess, EndsWell DEF CleanupRelease
  <2>2. CASE Gets(c, {"ok"}) /\ Disowned /\ Ends(c)
    BY <1>0, <1>1, <1>5, <2>2, KeepsLess, EndsWell DEF CleanupRelease
  <2> QED BY <1>5, <2>1, <2>2 DEF CleanupRelease
<1> QED BY <1>2, <1>3, <1>4, <1>5 DEF Cleanup

\* The two ends of a job that begin with a request, or end at once.
LEMMA FinishKeeps ==
  ASSUME Alive, helper.open, pc["job"] \notin Awaits, FinishJob, UNCHANGED session,
         session.shutting => ~Retained, closed => session.shutting
  PROVE  Alive' /\ helper'.open
<1>0. "job" \in Callers /\ ShapeInv
  BY SessionAssumption DEF Alive
<1>1. CASE ~Retained
  <2>1. Silent /\ Ends("job") /\ UNCHANGED left
    BY <1>1 DEF FinishJob, LetsGo
  <2>2. PICK where \in Places \ Awaits : Goto("job", where)
    BY <2>1, LeadsOn
  <2> QED BY <1>0, <2>1, <2>2, KeepsLess, Moves
<1>2. CASE Retained /\ job.finish = "stop"
  <2>1. Opens("job", "status", "cStatus") /\ UNCHANGED left
    BY <1>2 DEF FinishJob, LetsGo
  <2>2. Starts = {} /\ ~Spared
    BY <1>2 DEF Retained, Alive, StartInv, Spared
  <2>3. Keeps /\ Allowed("job", "status", "cStatus")
    BY <1>0, <2>1, <2>2, KeepsLess DEF Allowed
  <2> QED BY <1>0, <2>1, <2>3, OpensWith DEF Awaits, Ops
<1>3. CASE Retained /\ job.finish # "stop"
  <2>1. Opens("job", "release", "lRelease") /\ left' = [left EXCEPT ![session.owner] = "asked"]
    BY <1>3 DEF FinishJob, LetsGo
  <2>2. Keeps
    BY <1>0, <2>1 DEF Keeps, ShapeInv
  <2>3. session.owner \in Games /\ session.owner # NoGame /\ helper.owned \in {session.owner, NoGame}
    BY <1>0, <1>3 DEF Retained, Alive, ShapeInv, KeepsItsGame
  <2>4. Starts = {} /\ ~helper.unresolved
    BY <2>3 DEF Alive, StartInv, HelperInv
  <2>5. MayRelease'
    <3>1. left'[session.owner] = "asked" /\ UNCHANGED <<life, helper>>
      BY <1>0, <2>1, <2>3 DEF ShapeInv, Opens, Machine
    <3> QED BY <2>3, <2>4, <3>1 DEF MayRelease
  <2>6. Allowed("job", "release", "lRelease")
    BY <1>3, <2>4, <2>5 DEF Allowed
  <2> QED BY <1>0, <2>1, <2>2, <2>6, OpensWith DEF Awaits, Ops
<1> QED BY <1>1, <1>2, <1>3

\* The answer to a start: from now on the controller owns the game that it names.
LEMMA StartedKeeps ==
  ASSUME Alive, helper.open, pc["job"] = "starting", Quiet, Gets("job", {"started"}), UNCHANGED left,
         session' = [session EXCEPT !.owner = Head(outbox).game, !.released = FALSE],
         NEW where \in Places \ Awaits, Goto("job", where)
  PROVE  Alive' /\ helper'.open
<1> USE DEF Alive, Quiet, Machine
<1>1. /\ inbox \in Seq(Requested) /\ outbox \in Seq(Answered) /\ pc \in [Callers -> Places]
      /\ outbox # <<>> /\ "job" \in Callers /\ Callers = {"job", "stop", "shutdown"}
  BY SessionAssumption DEF ShapeInv
<1>2. /\ outbox' \in Seq(Answered) /\ 1 \in DOMAIN outbox /\ Head(outbox) = outbox[1]
      /\ \A k \in DOMAIN outbox' : k \in Nat /\ k+1 \in DOMAIN outbox /\ outbox'[k] = outbox[k+1]
  BY <1>1, TailAt
<1>3. outbox[1].from = "job" /\ outbox[1].tag = "started"
  BY <1>2 DEF Gets, Handled, Answer
<1>4. /\ outbox[1].game \in Games
      /\ helper.owned \in {outbox[1].game, NoGame}
      /\ Starts = {} /\ ~helper.unresolved
  <2>1. outbox[1].game \in Games \union {NoGame} /\ outbox[1].game # NoGame
    BY <1>2, <1>3, MessageShape DEF StartInv, Answered
  <2> QED BY <1>2, <1>3, <2>1 DEF StartInv
<1>5. \A k \in DOMAIN outbox' : outbox'[k].from # "job" /\ outbox'[k].tag # "started"
  <2> SUFFICES ASSUME NEW k \in DOMAIN outbox' PROVE outbox'[k].from # "job" /\ outbox'[k].tag # "started"
    OBVIOUS
  <2>1. k+1 # 1
    BY <1>2
  <2>2. outbox[k+1].from # "job"
    BY <1>2, <1>3, <2>1 DEF AwaitInv
  <2> QED BY <1>2, <2>2 DEF StartInv
<1>6. \A i \in DOMAIN inbox : inbox[i].from # "job"
  BY <1>2, <1>3 DEF AwaitInv
<1>7. /\ pc' \in [Callers -> Places] /\ pc'["job"] \notin Awaits
      /\ \A b \in Callers : b # "job" => pc'[b] = pc[b]
  BY <1>1 DEF Goto
<1>8. /\ session'.owner = outbox[1].game /\ ~session'.released /\ session'.shutting = session.shutting
      /\ session' \in [owner : Games \union {NoGame}, released : BOOLEAN, uncertain : BOOLEAN,
                       shutting : BOOLEAN, up : BOOLEAN, jobs : 0..MaxJobs, force : BOOLEAN]
  BY <1>2, <1>4 DEF ShapeInv
<1>9. ShapeInv'
  BY <1>2, <1>7, <1>8 DEF ShapeInv
<1>10. HelperInv'
  BY <1>4 DEF HelperInv
<1>11. AwaitInv'
  <2>1. /\ \A i \in DOMAIN inbox : inbox[i].from \in Callers \union {Nobody}
        /\ \A k \in DOMAIN outbox : outbox[k].from \in Callers
    BY MessageShape
  <2>2. \A i \in DOMAIN inbox : inbox[i].from # Nobody =>
            pc'[inbox[i].from] \in Awaits /\ inbox[i].op # "start"
    BY <1>6, <1>7, <2>1 DEF AwaitInv
  <2>3. ASSUME NEW k \in DOMAIN outbox'
        PROVE  /\ pc'[outbox'[k].from] \in Awaits
               /\ \A i \in DOMAIN inbox' : inbox'[i].from # outbox'[k].from
               /\ \A m \in DOMAIN outbox' : outbox'[k].from = outbox'[m].from => k = m
    <3>1. \A m \in DOMAIN outbox' : outbox'[k].from = outbox'[m].from => k+1 = m+1
      BY <1>2 DEF AwaitInv
    <3>2. \A m \in DOMAIN outbox' : outbox'[k].from = outbox'[m].from => k = m
      BY <1>2, <3>1
    <3>3. pc'[outbox'[k].from] \in Awaits
      BY <1>2, <1>5, <1>7, <2>1 DEF AwaitInv
    <3> QED BY <1>2, <3>2, <3>3 DEF AwaitInv
  <2>4. ~session'.shutting => pc'["shutdown"] = "idle"
    BY <1>1, <1>7, <1>8 DEF AwaitInv
  <2> QED BY <2>2, <2>3, <2>4 DEF AwaitInv
<1>12. Starts' = Starts /\ (MayRelease => MayRelease')
  BY DEF Starts, MayRelease
<1>13. StartInv'
  BY <1>4, <1>5, <1>12 DEF StartInv
<1>14. PriorInv'
  BY <1>7 DEF PriorInv, Awaits
<1>15. ReleaseInv'
  BY <1>2, <1>8, <1>12 DEF ReleaseInv
<1>16. KeepsItsGame'
  BY <1>4, <1>8 DEF KeepsItsGame
<1>17. LeftInv'
  <2>1. life[outbox[1].game] # "none"
    BY <1>2, <1>3 DEF LeftInv
  <2> QED BY <1>2, <1>5, <1>7, <1>8, <2>1 DEF LeftInv, Awaits
<1>18. SpareInv'
  <2>1. \A b \in Callers : pc'[b] = "cStatus" => pc[b] = "cStatus"
    BY <1>7 DEF Awaits
  <2>2. \A i \in DOMAIN inbox : inbox[i].from \in Callers \union {Nobody}
    BY MessageShape
  <2>3. \A k \in DOMAIN outbox : outbox[k].from \in Callers
    BY MessageShape
  <2>4. (Spared' <=> Spared) /\ \A i \in DOMAIN inbox : Endangers(i)' => Endangers(i)
    BY <1>8, <2>1, <2>2 DEF Spared, Endangers
  <2>5. session'.up = session.up
    BY DEF ShapeInv
  <2> QED BY <1>2, <1>12, <2>1, <2>3, <2>4, <2>5 DEF SpareInv
<1> QED BY <1>9, <1>10, <1>11, <1>13, <1>14, <1>15, <1>16, <1>17, <1>18

\* A job up to its game: it asks for a start only behind an answer that the helper
\* owns none.
LEMMA LaunchKeeps ==
  ASSUME Alive, helper.open, Begin \/ DropStatus \/ DropRelease \/ Prior \/ Starting
  PROVE  Alive' /\ helper'.open
<1>0. "job" \in Callers /\ ShapeInv
  BY SessionAssumption DEF Alive
<1> USE DEF Gets
<1>1. UNCHANGED left
  BY DEF Begin, DropStatus, DropRelease, Prior, Starting
<1>2. CASE Begin
  <2>0. pc["job"] \notin Awaits
    BY <1>2 DEF Begin, Awaits
  <2>1. CASE Silent /\ Throws("job") /\ UNCHANGED session
    <3>1. PICK where \in Places \ Awaits : Goto("job", where)
      BY <2>1, LeadsOn
    <3> QED BY <1>0, <1>1, <2>0, <2>1, <3>1, KeepsLess, Moves
  <2>2. CASE /\ session' = [session EXCEPT !.up = TRUE]
             /\ Opens("job", "status", "dropStatus")
    <3>1. Keeps /\ Allowed("job", "status", "dropStatus")
      BY <1>0, <1>1, <2>2 DEF Keeps, Allowed, ShapeInv
    <3> QED BY <1>0, <2>0, <2>2, <3>1, OpensWith DEF Awaits, Ops
  <2>3. CASE /\ session' = [session EXCEPT !.up = TRUE, !.owner = NoGame]
             /\ Opens("job", "status", "prior")
    <3>1. Keeps /\ Allowed("job", "status", "prior")
      BY <1>0, <1>1, <2>3 DEF Keeps, Allowed, ShapeInv
    <3> QED BY <1>0, <2>0, <2>3, <3>1, OpensWith DEF Awaits, Ops
  <2> QED BY <1>2, <2>1, <2>2, <2>3 DEF Begin
<1>3. ASSUME Handled("job"), Disown, Asks("job", "status", "prior")
      PROVE  Alive' /\ helper'.open
  <2>1. Keeps /\ Allowed("job", "status", "prior")
    BY <1>0, <1>1, <1>3, KeepsLess DEF Allowed, Disown, ShapeInv
  <2> QED BY <1>0, <1>3, <2>1, AsksNext DEF Awaits, Ops
<1>4. CASE DropStatus
  <2>1. CASE Gets("job", {"error"}) /\ Quiet /\ Throws("job") /\ UNCHANGED session
    BY <1>0, <1>1, <2>1, KeepsLess, EndsWell
  <2>2. CASE Gets("job", {"running"}) /\ Quiet /\ Resolves(session.owner) /\ UNCHANGED session
    <3>1. Goto("job", "resolve") /\ "resolve" \in Places \ Awaits
      BY <2>2 DEF Resolves, Places, Awaits
    <3> QED BY <1>0, <1>1, <2>2, <3>1, KeepsLess, TakesAnswer
  <2>3. CASE Gets("job", {"exited"}) /\ Asks("job", "release", "dropRelease") /\ UNCHANGED <<session, job>>
    <3>1. Keeps /\ Allowed("job", "release", "dropRelease")
      BY <1>1, <2>3, ExitedReleases DEF Asks, Machine, Awaits
    <3> QED BY <1>0, <2>3, <3>1, AsksNext DEF Awaits, Ops
  <2>4. CASE Handled("job") /\ Disown /\ Asks("job", "status", "prior")
    BY <1>3, <2>4
  <2> QED BY <1>4, <2>1, <2>2, <2>3, <2>4 DEF DropStatus
<1>5. CASE DropRelease
  <2>1. CASE Gets("job", {"error"}) /\ Quiet /\ Throws("job") /\ UNCHANGED session
    BY <1>0, <1>1, <2>1, KeepsLess, EndsWell
  <2>2. CASE Handled("job") /\ Disown /\ Asks("job", "status", "prior")
    BY <1>3, <2>2
  <2> QED BY <1>5, <2>1, <2>2 DEF DropRelease
<1>6. CASE Prior
  <2>0. UNCHANGED session /\ pc["job"] = "prior" /\ Keeps
    BY <1>0, <1>1, <1>6, KeepsLess DEF Prior
  <2>1. CASE Gets("job", {"error", "running", "exited"}) /\ Quiet /\ Throws("job")
    BY <2>0, <2>1, EndsWell
  <2>2. CASE Gets("job", {"unowned"}) /\ Asks("job", "start", "starting")
    <3>1. /\ outbox \in Seq(Answered) /\ outbox # <<>>
      BY <1>0, <2>2 DEF ShapeInv, Handled
    <3>2. /\ 1 \in DOMAIN outbox /\ outbox[1].from = "job" /\ outbox[1].tag = "unowned"
          /\ \A k \in DOMAIN Tail(outbox) : k \in Nat /\ k+1 \in DOMAIN outbox /\ Tail(outbox)[k] = outbox[k+1]
          /\ Tail(outbox) \in Seq(Answered)
      BY <2>2, <3>1, TailAt DEF Handled, Answer
    <3>3. /\ helper.owned = NoGame /\ Starts = {} /\ session.owner = NoGame
          /\ \A m \in DOMAIN outbox : m > 1 => outbox[m].tag \notin Finds
      BY <2>0, <3>2 DEF Alive, PriorInv
    <3>4. \A k \in DOMAIN Tail(outbox) : Tail(outbox)[k].tag \notin Finds
      <4>1. \A k \in DOMAIN Tail(outbox) : k+1 > 1
        BY <3>1
      <4> QED BY <3>2, <3>3, <4>1
    <3>5. \A k \in DOMAIN outbox' : outbox'[k].tag \notin Finds
      <4>1. \/ outbox' = Tail(outbox)
            \/ \E tag \in {"ok", "error"} :
                  outbox' = Append(Tail(outbox), [from |-> "job", tag |-> tag, game |-> NoGame])
        BY <2>2 DEF Asks, Call
      <4>2. ASSUME NEW tag \in {"ok", "error"},
                   outbox' = Append(Tail(outbox), [from |-> "job", tag |-> tag, game |-> NoGame])
            PROVE  \A k \in DOMAIN outbox' : outbox'[k].tag \notin Finds
        <5> DEFINE x == [from |-> "job", tag |-> tag, game |-> NoGame]
        <5>1. x \in Answered /\ x.tag \notin Finds /\ outbox' = Append(Tail(outbox), x)
          BY <1>0, <4>2 DEF Answered, Answers, Finds
        <5> HIDE DEF x
        <5> QED BY <3>2, <3>4, <5>1, AppendAt
      <4> QED BY <3>4, <4>1, <4>2
    <3>6. Allowed("job", "start", "starting")
      BY <2>0, <3>3, <3>5 DEF Allowed
    <3> QED BY <1>0, <2>0, <2>2, <3>6, AsksNext DEF Awaits, Ops
  <2> QED BY <1>6, <2>1, <2>2 DEF Prior
<1>7. CASE Starting
  <2>1. CASE Gets("job", {"error"}) /\ Throws("job") /\ UNCHANGED session
    BY <1>0, <1>1, <1>7, <2>1, KeepsLess, EndsWell DEF Starting
  <2>2. CASE /\ Gets("job", {"started"})
             /\ session' = [session EXCEPT !.owner = Head(outbox).game, !.released = FALSE]
             /\ Throws("job") \/ Resolves(Head(outbox).game)
    <3>1. PICK where \in Places \ Awaits : Goto("job", where)
      BY <2>2, LeadsOn DEF Resolves, Places, Awaits
    <3> QED BY <1>1, <1>7, <2>2, <3>1, StartedKeeps DEF Starting
  <2> QED BY <1>7, <2>1, <2>2 DEF Starting
<1> QED BY <1>2, <1>4, <1>5, <1>6, <1>7

\* The other steps of a job, and the end of a stop.
LEMMA JobKeeps ==
  ASSUME Alive, ShutInv, helper.open, JobStep \/ StartupExpires \/ Cleanup("stop")
  PROVE  Alive' /\ helper'.open
<1>0. "job" \in Callers /\ ShapeInv
  BY SessionAssumption DEF Alive
<1> USE DEF Gets
<1>1. ASSUME Silent, pc["job"] \notin Awaits, Keeps,
             NEW where \in Places \ Awaits, Goto("job", where)
      PROVE  Alive' /\ helper'.open
  BY <1>0, <1>1, Moves
<1>2. ASSUME Silent, pc["job"] \notin Awaits, Keeps, Throws("job") \/ Ends("job")
      PROVE  Alive' /\ helper'.open
  BY <1>1, <1>2, LeadsOn
<1>3. CASE Begin \/ DropStatus \/ DropRelease \/ Prior \/ Starting
  BY <1>3, LaunchKeeps
<1>4. CASE Cleanup("job") \/ Cleanup("stop")
  BY <1>4, CleanupKeeps
<1>5. CASE Resolve
  <2>0. UNCHANGED <<session, left>> /\ pc["job"] = "resolve" /\ Keeps
    BY <1>0, <1>5, KeepsLess DEF Resolve
  <2>1. "resolve" \notin Awaits
    BY DEF Awaits
  <2>2. CASE Silent /\ Throws("job")
    BY <1>2, <2>0, <2>1, <2>2
  <2>3. CASE Ready
    <3>1. PICK where \in {"evidence", "available"} : Goto("job", where)
      BY <2>3 DEF Ready
    <3>2. where \in Places \ Awaits
      BY DEF Places, Awaits
    <3> QED BY <1>1, <2>0, <2>1, <2>3, <3>1, <3>2 DEF Ready
  <2>4. CASE Opens("job", "status", "rStatus")
    <3>1. Allowed("job", "status", "rStatus")
      BY DEF Allowed
    <3> QED BY <1>0, <2>0, <2>1, <2>4, <3>1, OpensWith DEF Awaits, Ops
  <2> QED BY <1>5, <2>2, <2>3, <2>4 DEF Resolve
<1>6. CASE ResolveStatus
  <2>0. UNCHANGED <<session, left>> /\ Quiet /\ Keeps
    BY <1>0, <1>6, KeepsLess DEF ResolveStatus
  <2>1. CASE Gets("job", {"error", "exited", "unowned"}) /\ Throws("job")
    BY <2>0, <2>1, EndsWell
  <2>2. CASE Gets("job", {"running"}) /\ Goto("job", "resolve")
    <3>1. "resolve" \in Places \ Awaits
      BY DEF Places, Awaits
    <3> QED BY <1>0, <2>0, <2>2, <3>1, TakesAnswer
  <2> QED BY <1>6, <2>1, <2>2 DEF ResolveStatus
<1>7. CASE StartupExpires
  BY <1>7, Stays DEF StartupExpires
<1>8. ASSUME NEW here \in Places \ Awaits, NEW next \in Places \ Awaits, Polls(here, next)
      PROVE  Alive' /\ helper'.open
  <2>0. UNCHANGED <<session, left>> /\ pc["job"] \notin Awaits /\ Silent /\ Keeps
    BY <1>0, <1>8, KeepsLess DEF Polls
  <2>1. Throws("job") \/ Goto("job", next)
    BY <1>8 DEF Polls
  <2> QED BY <1>1, <1>2, <2>0, <2>1
<1>9. ASSUME NEW here \in Places \ Awaits, NEW next \in Places \ Awaits, Mutates(here, next)
      PROVE  Alive' /\ helper'.open
  <2>0. UNCHANGED left /\ pc["job"] \notin Awaits /\ Silent
    BY <1>9 DEF Mutates
  <2>1. session' = session \/ session' = [session EXCEPT !.uncertain = TRUE]
    BY <1>9 DEF Mutates
  <2>2. Keeps
    <3>1. CASE session' = [session EXCEPT !.uncertain = TRUE]
      BY <1>0, <2>0, <3>1 DEF Keeps, ShapeInv
    <3> QED BY <1>0, <2>0, <2>1, <3>1, KeepsLess
  <2>3. Throws("job") \/ Goto("job", next) \/ Goto("job", "enrich")
    BY <1>9 DEF Mutates
  <2>4. "enrich" \in Places \ Awaits
    BY DEF Places, Awaits
  <2> QED BY <1>1, <1>2, <2>0, <2>2, <2>3, <2>4
<1>10. CASE \/ Polls("available", "load") \/ Mutates("load", "waitLoad")
            \/ Polls("waitLoad", "scenario") \/ Mutates("scenario", "waitScenario")
  <2>1. {"available", "load", "waitLoad", "scenario", "waitScenario"} \subseteq Places \ Awaits
    BY DEF Places, Awaits
  <2> QED BY <1>8, <1>9, <1>10, <2>1
<1>11. CASE WaitForScenario \/ Caught \/ ScenarioCancelled
  <2>0. /\ UNCHANGED session
        /\ pc["job"] \in {"waitScenario", "enrich", "cancel"}
    BY <1>11 DEF WaitForScenario, Caught, ScenarioCancelled
  <2>1. pc["job"] \notin Awaits
    BY <2>0 DEF Awaits
  <2>2. ASSUME FinishJob, pc["job"] # "enrich" \/ ~session.shutting
        PROVE  Alive' /\ helper'.open
    <3>1. closed => session.shutting
      BY DEF ShutInv
    <3>2. session.shutting => ~Retained
      BY <2>0, <2>2 DEF ShutInv, Retained, Spares
    <3> QED BY <2>0, <2>1, <2>2, <3>1, <3>2, FinishKeeps
  <2>3. CASE Silent /\ (Throws("job") \/ Ends("job") \/ Goto("job", "cancel")) /\ UNCHANGED left
    <3>1. "cancel" \in Places \ Awaits
      BY DEF Places, Awaits
    <3> QED BY <1>0, <1>1, <1>2, <2>0, <2>1, <2>3, <3>1, KeepsLess
  <2>4. CASE Silent /\ UNCHANGED <<pc, left>>
    BY <2>0, <2>4, Stays
  <2>5. WaitForScenario => \/ FinishJob /\ pc["job"] # "enrich"
                           \/ Silent /\ Throws("job") /\ UNCHANGED left
    BY DEF WaitForScenario
  <2>6. Caught => \/ FinishJob /\ ~session.shutting
                  \/ Silent /\ (Ends("job") \/ Goto("job", "cancel")) /\ UNCHANGED left
    BY DEF Caught
  <2>7. ScenarioCancelled => \/ FinishJob /\ pc["job"] # "enrich"
                             \/ Silent /\ UNCHANGED <<pc, left>>
    BY DEF ScenarioCancelled
  <2> QED BY <1>11, <2>2, <2>3, <2>4, <2>5, <2>6, <2>7
<1>12. CASE LeaveRelease
  <2>1. CASE Gets("job", {"error"}) /\ Throws("job") /\ UNCHANGED <<session, left>>
    BY <1>0, <1>12, <2>1, KeepsLess, EndsWell DEF LeaveRelease
  <2>2. CASE /\ Gets("job", {"ok"}) /\ Ends("job") /\ Disowned
             /\ left' = [left EXCEPT ![session.owner] = "done"]
    <3>1. 1 \in DOMAIN outbox /\ outbox[1].from = "job" /\ outbox[1].tag = "ok"
      <4>1. outbox \in Seq(Answered)
        BY <1>0 DEF ShapeInv
      <4> QED BY <2>2, <4>1, TailAt DEF Handled, Answer
    <3>2. session.owner # NoGame => helper.owned # session.owner
      BY <1>12, <3>1 DEF LeaveRelease, Alive, LeftInv
    <3>3. Keeps
      <4>1. /\ session' \in [owner : Games \union {NoGame}, released : BOOLEAN, uncertain : BOOLEAN,
                             shutting : BOOLEAN, up : BOOLEAN, jobs : 0..MaxJobs, force : BOOLEAN]
            /\ session'.owner = session.owner /\ session'.released
            /\ session'.shutting = session.shutting /\ session'.up = session.up
        BY <1>0, <2>2 DEF ShapeInv, Disowned
      <4>2. /\ left' \in [Games -> {"no", "asked", "done"}]
            /\ \A g \in Games : left'[g] = "no" => left[g] = "no"
            /\ \A g \in Games : left'[g] # left[g] => g = session.owner
        BY <1>0, <2>2 DEF ShapeInv
      <4> QED BY <3>2, <4>1, <4>2, NotAGame DEF Keeps
    <3> QED BY <1>12, <2>2, <3>3, EndsWell DEF LeaveRelease
  <2> QED BY <1>12, <2>1, <2>2 DEF LeaveRelease
<1>13. CASE Evidence
  <2>1. pc["job"] \notin Awaits /\ "idle" \in Places \ Awaits /\ Keeps
    BY <1>0, <1>13, KeepsLess DEF Evidence, Awaits, Places
  <2> QED BY <1>1, <1>13, <2>1 DEF Evidence
<1> QED BY <1>3, <1>4, <1>5, <1>6, <1>7, <1>10, <1>11, <1>12, <1>13 DEF JobStep

\* What the user asks for, and the end of the bridge.
LEMMA RequestsKeep ==
  ASSUME Alive, ShutInv, helper.open,
         \/ \E r \in Requests : CreateJob(r[1], r[2], r[3])
         \/ \E force \in StopForces : Stop(force)
         \/ CancelJob \/ Shutdown \/ ShutdownStep
  PROVE  Alive' /\ helper'.open
<1>0. /\ Callers = {"job", "stop", "shutdown"} /\ ShapeInv /\ MaxJobs \in Nat
      /\ {"idle", "begin", "done"} \subseteq Places \ Awaits /\ "idle" \notin Awaits
  BY SessionAssumption DEF Alive, Places, Awaits
<1>1. ASSUME NEW kind, NEW finish, NEW force, CreateJob(kind, finish, force)
      PROVE  Alive' /\ helper'.open
  <2>1. session.jobs \in 0..MaxJobs /\ session.jobs < MaxJobs /\ session' = [session EXCEPT !.jobs = @ + 1]
    BY <1>0, <1>1 DEF CreateJob, ShapeInv
  <2>2. session.jobs + 1 \in 0..MaxJobs
    BY <1>0, <2>1
  <2>3. Keeps
    BY <1>0, <1>1, <2>1, <2>2 DEF Keeps, ShapeInv, CreateJob
  <2> QED BY <1>0, <1>1, <2>3, Moves DEF CreateJob
<1>2. ASSUME NEW force \in BOOLEAN, Stop(force)
      PROVE  Alive' /\ helper'.open
  <2>1. Starts = {} /\ ~Spared
    BY <1>2 DEF Stop, Retained, Alive, StartInv, Spared
  <2>2. Keeps /\ Allowed("stop", "status", "cStatus")
    BY <1>0, <1>2, <2>1 DEF Keeps, Allowed, ShapeInv, Stop
  <2> QED BY <1>0, <1>2, <2>2, OpensWith DEF Stop, Awaits, Ops
<1>3. CASE CancelJob
  BY <1>3, Stays DEF CancelJob
<1>4. CASE Shutdown
  <2>0. ~Spared'
    <3>1. CASE Opens("shutdown", "release", "release")
      <4> DEFINE x == [from |-> "shutdown", op |-> "release"]
      <4>1. inbox' = Append(inbox, x)
        BY <1>4, <3>1 DEF Opens, Call, Shutdown, ShutInv
      <4>2. inbox \in Seq(Requested) /\ x \in Requested /\ x.op = "release"
        BY <1>0 DEF ShapeInv, Requested
      <4> HIDE DEF x
      <4>3. Len(inbox) + 1 \in DOMAIN inbox' /\ inbox'[Len(inbox) + 1] = x
        BY <4>1, <4>2
      <4> QED BY <4>2, <4>3 DEF Spared
    <3>2. CASE ~session.up /\ Silent
      BY <3>2 DEF Silent, helperVars, Spared, Alive, SpareInv
    <3> QED BY <1>4, <3>1, <3>2 DEF Shutdown
  <2>1. Keeps /\ session'.shutting /\ pc["shutdown"] = "idle"
    BY <1>0, <1>4, <2>0 DEF Keeps, ShapeInv, Shutdown, Alive, AwaitInv
  <2>2. CASE Opens("shutdown", "release", "release")
    <3>1. Allowed("shutdown", "release", "release")
      BY <2>1 DEF Allowed
    <3> QED BY <1>0, <2>1, <2>2, <3>1, OpensWith DEF Awaits, Ops
  <2>3. CASE Silent /\ Goto("shutdown", "done")
    BY <1>0, <2>1, <2>3, Moves
  <2> QED BY <1>4, <2>2, <2>3 DEF Shutdown
<1>5. CASE ShutdownStep
  <2>1. session.shutting /\ Keeps
    BY <1>0, <1>5, KeepsLess DEF ShutdownStep, Alive, AwaitInv
  <2>2. Says("shutdown", 1, "none", "done")
    BY <1>0, <1>5 DEF Says, ShutdownStep, Goto
  <2>3. Allowed("shutdown", "none", "done")
    BY <1>5, <2>1 DEF Allowed, ShutdownStep
  <2> QED BY <1>0, <2>1, <2>2, <2>3, BridgeStep
<1> QED BY <1>1, <1>2, <1>3, <1>4, <1>5, SessionAssumption

-----------------------------------------------------------------------------
(* A step of the helper: it serves the request at the head of the inbox.   *)

\* What is on the way after it: the requests behind the head, and the answers that
\* were, with one more if its caller still waits.
LEMMA ServesShape ==
  ASSUME ShapeInv, AwaitInv, inbox # <<>>, NEW tag \in Answers, NEW game \in Games \union {NoGame},
         Respond(tag, game), UNCHANGED <<pc, session>>
  PROVE  /\ inbox' \in Seq(Requested) /\ outbox' \in Seq(Answered)
         /\ 1 \in DOMAIN inbox /\ Head(inbox) = inbox[1]
         /\ \A i \in DOMAIN inbox' : i \in Nat /\ i+1 \in DOMAIN inbox /\ inbox'[i] = inbox[i+1]
         /\ \A k \in DOMAIN outbox' :
                \/ k \in DOMAIN outbox /\ outbox'[k] = outbox[k]
                \/ /\ k = Len(outbox) + 1 /\ \A m \in DOMAIN outbox' : ~(m > k)
                   /\ inbox[1].from # Nobody /\ outbox'[k].from = inbox[1].from
                   /\ outbox'[k].tag = tag /\ outbox'[k].game = game
         /\ AwaitInv'
<1>1. inbox \in Seq(Requested) /\ outbox \in Seq(Answered) /\ Len(outbox) \in Nat
  BY DEF ShapeInv
<1>2. /\ inbox' \in Seq(Requested) /\ 1 \in DOMAIN inbox /\ Head(inbox) = inbox[1]
      /\ \A i \in DOMAIN inbox' : i \in Nat /\ i+1 \in DOMAIN inbox /\ inbox'[i] = inbox[i+1]
  BY <1>1, TailAt DEF Respond
<1> DEFINE x == [from |-> inbox[1].from, tag |-> tag, game |-> game]
<1>3. /\ \/ outbox' = outbox
         \/ outbox' = Append(outbox, x) /\ inbox[1].from # Nobody
      /\ x.from = inbox[1].from /\ x.tag = tag /\ x.game = game
      /\ inbox[1].from # Nobody => x \in Answered
  BY <1>2, MessageShape DEF Respond, Answered
<1> HIDE DEF x
<1>4. /\ outbox' \in Seq(Answered)
      /\ \A k \in DOMAIN outbox' :
             \/ k \in DOMAIN outbox /\ outbox'[k] = outbox[k]
             \/ k = Len(outbox) + 1 /\ k \notin DOMAIN outbox /\ outbox'[k] = x /\ inbox[1].from # Nobody
  <2>1. CASE outbox' = outbox
    BY <1>1, <2>1
  <2>2. CASE outbox' = Append(outbox, x) /\ inbox[1].from # Nobody
    BY <1>1, <1>3, <2>2, AppendAt
  <2> QED BY <1>3, <2>1, <2>2
<1>5. ASSUME NEW m \in DOMAIN outbox' PROVE ~(m > Len(outbox) + 1)
  <2>1. \A k \in DOMAIN outbox : k \in Nat /\ k <= Len(outbox)
    BY <1>1
  <2> QED BY <1>1, <1>4, <2>1
<1>6. AwaitInv'
  <2>1. /\ \A i \in DOMAIN inbox' : inbox'[i].from # Nobody => pc'[inbox'[i].from] \in Awaits
        /\ \A i \in DOMAIN inbox' : inbox'[i].from # Nobody /\ inbox'[i].op = "start" =>
               inbox'[i].from = "job" /\ pc'["job"] = "starting"
    BY <1>2 DEF AwaitInv
  <2>2. ASSUME NEW i \in DOMAIN inbox', NEW j \in DOMAIN inbox',
               inbox'[i].from # Nobody, inbox'[i].from = inbox'[j].from
        PROVE  i = j
    <3>1. i+1 = j+1
      BY <1>2, <2>2 DEF AwaitInv
    <3> QED BY <1>2, <3>1
  <2>3. ASSUME NEW k \in DOMAIN outbox'
        PROVE  /\ pc'[outbox'[k].from] \in Awaits
               /\ \A i \in DOMAIN inbox' : inbox'[i].from # outbox'[k].from
               /\ \A m \in DOMAIN outbox' : outbox'[k].from = outbox'[m].from => k = m
    <3>1. CASE k \in DOMAIN outbox /\ outbox'[k] = outbox[k]
      BY <1>2, <1>3, <1>4, <3>1 DEF AwaitInv
    <3>2. CASE k = Len(outbox) + 1 /\ outbox'[k] = x /\ inbox[1].from # Nobody
      <4>1. \A i \in DOMAIN inbox' : i+1 # 1
        BY <1>2
      <4>2. \A i \in DOMAIN inbox' : inbox'[i].from # outbox'[k].from
        BY <1>2, <1>3, <3>2, <4>1 DEF AwaitInv
      <4>3. \A m \in DOMAIN outbox' : outbox'[k].from = outbox'[m].from => k = m
        <5>1. \A m \in DOMAIN outbox : outbox[m].from # inbox[1].from
          BY <1>2 DEF AwaitInv
        <5>2. \A m \in DOMAIN outbox' : outbox'[m].from = inbox[1].from => m = Len(outbox) + 1
          BY <1>4, <5>1
        <5> QED BY <1>3, <3>2, <5>2
      <4> QED BY <1>2, <1>3, <3>2, <4>2, <4>3 DEF AwaitInv
    <3> QED BY <1>4, <3>1, <3>2
  <2> QED BY <2>1, <2>2, <2>3 DEF AwaitInv
<1> QED BY <1>2, <1>3, <1>4, <1>5, <1>6

\* What the helper has and the games that run, after a request that is no launch.
Settles(tag) ==
    /\ life' \in [Games -> {"none", "running", "exited"}]
    /\ helper' \in [owned : Games \union {NoGame}, live : BOOLEAN, lease : BOOLEAN,
                    unresolved : BOOLEAN, open : BOOLEAN]
    /\ helper'.open = helper.open
    /\ helper'.owned \in {helper.owned, NoGame}
    /\ helper'.unresolved => helper.unresolved
    /\ \A g \in Games : life'[g] = "running" => life[g] = "running"
    /\ Head(inbox).op # "release" =>
           helper'.owned = helper.owned /\ helper'.unresolved = helper.unresolved
    /\ tag # "started"
    /\ tag = "unowned" => helper'.owned = NoGame
    /\ tag \in Finds => helper.owned # NoGame
    /\ tag = "exited" => helper'.owned # NoGame /\ life'[helper'.owned] # "running"
    /\ tag = "ok" => helper'.owned = NoGame
    /\ tag = "stays" => Head(inbox).op \in {"close", "terminate"}
    /\ helper'.live => helper.live /\ Head(inbox).op # "release"
    /\ \A g \in Games : life'[g] = "none" => life[g] = "none"

LEMMA SettlesKeeps ==
  ASSUME Alive, helper.open, inbox # <<>>, NEW tag \in Answers, NEW game \in Games \union {NoGame},
         Respond(tag, game), Settles(tag), HelperInv', UNCHANGED <<pc, session, left>>
  PROVE  Alive' /\ helper'.open
<1> USE DEF Alive
<1>1. /\ inbox' \in Seq(Requested) /\ outbox' \in Seq(Answered) /\ AwaitInv'
      /\ 1 \in DOMAIN inbox /\ Head(inbox) = inbox[1]
      /\ \A i \in DOMAIN inbox' : i \in Nat /\ i+1 \in DOMAIN inbox /\ inbox'[i] = inbox[i+1]
  BY ServesShape
<1>2. \A k \in DOMAIN outbox' :
          \/ k \in DOMAIN outbox /\ outbox'[k] = outbox[k]
          \/ /\ \A m \in DOMAIN outbox' : ~(m > k) /\ inbox[1].from # Nobody
             /\ outbox'[k].from = inbox[1].from /\ outbox'[k].tag = tag
  BY ServesShape
<1>3. \A j \in Starts' : j \in Nat /\ j+1 \in Starts
  BY <1>1 DEF Starts
<1>4. MayRelease => MayRelease'
  BY DEF MayRelease, Settles, ShapeInv
<1>5. ShapeInv'
  BY <1>1 DEF ShapeInv, Settles
<1>6. StartInv'
  <2>1. \A i, j \in Starts' : i = j
    <3>1. \A i, j \in Starts' : i+1 = j+1
      BY <1>3 DEF StartInv
    <3> QED BY <1>3, <3>1
  <2>2. \A k \in DOMAIN outbox' : outbox'[k].tag = "started" =>
            k \in DOMAIN outbox /\ outbox'[k] = outbox[k]
    BY <1>2 DEF Settles
  <2> QED BY <1>3, <2>1, <2>2 DEF StartInv, Settles
<1>7. PriorInv'
  <2>1. ASSUME pc["job"] = "prior", NEW i \in DOMAIN inbox', inbox'[i].from = "job", NEW j \in Starts'
        PROVE  j < i
    <3>1. j+1 < i+1
      BY <1>1, <1>3, <2>1 DEF PriorInv
    <3> QED BY <1>1, <1>3, <3>1
  <2>2. ASSUME pc["job"] = "prior", NEW k \in DOMAIN outbox', outbox'[k].from = "job",
               outbox'[k].tag = "unowned"
        PROVE  /\ helper'.owned = NoGame /\ Starts' = {}
               /\ \A m \in DOMAIN outbox' : m > k => outbox'[m].tag \notin Finds
    <3>1. CASE k \in DOMAIN outbox /\ outbox'[k] = outbox[k]
      <4>1. /\ helper.owned = NoGame /\ Starts = {}
            /\ \A m \in DOMAIN outbox : m > k => outbox[m].tag \notin Finds
        BY <2>2, <3>1 DEF PriorInv
      <4>2. tag \notin Finds /\ helper'.owned = NoGame
        BY <4>1 DEF Settles
      <4> QED BY <1>2, <1>3, <4>1, <4>2
    <3>2. CASE /\ \A m \in DOMAIN outbox' : ~(m > k)
               /\ outbox'[k].from = inbox[1].from /\ outbox'[k].tag = tag
      <4>1. \A j \in Starts : j < 1
        BY <1>1, <2>2, <3>2 DEF PriorInv
      <4>2. \A j \in Starts' : j+1 < 1
        BY <1>3, <4>1
      <4>3. Starts' = {}
        BY <1>3, <4>2
      <4> QED BY <2>2, <3>2, <4>3 DEF Settles
    <3> QED BY <1>2, <3>1, <3>2
  <2> QED BY <2>1, <2>2 DEF PriorInv
<1>8. ReleaseInv'
  <2> SUFFICES ASSUME ~session.shutting PROVE
        /\ \A i \in DOMAIN inbox' : inbox'[i].op = "release" => MayRelease' /\ \A j \in Starts' : i < j
        /\ \A k \in DOMAIN outbox' : outbox'[k].tag = "exited" => MayRelease'
    BY DEF ReleaseInv
  <2>1. ASSUME NEW i \in DOMAIN inbox', inbox'[i].op = "release"
        PROVE  MayRelease' /\ \A j \in Starts' : i < j
    <3>1. MayRelease /\ \A j \in Starts' : i+1 < j+1
      BY <1>1, <1>3, <2>1 DEF ReleaseInv
    <3> QED BY <1>1, <1>3, <1>4, <3>1
  <2>2. ASSUME NEW k \in DOMAIN outbox', outbox'[k].tag = "exited"
        PROVE  MayRelease'
    <3>1. CASE k \in DOMAIN outbox /\ outbox'[k] = outbox[k]
      BY <1>4, <2>2, <3>1 DEF ReleaseInv
    <3>2. CASE tag = "exited"
      BY <3>2 DEF Settles, MayRelease, HelperInv
    <3> QED BY <1>2, <2>2, <3>1, <3>2
  <2> QED BY <2>1, <2>2
<1>9. KeepsItsGame'
  <2>1. ASSUME NEW g \in Games, life'[g] = "running", left[g] = "no", ~helper'.unresolved,
               ~session.shutting
        PROVE  helper'.owned = g
    <3>0. life[g] = "running"
      BY <2>1 DEF Settles
    <3>1. CASE Head(inbox).op # "release"
      BY <2>1, <3>0, <3>1 DEF Settles, KeepsItsGame
    <3>2. CASE Head(inbox).op = "release"
      <4>1. MayRelease
        BY <1>1, <2>1, <3>2 DEF ReleaseInv
      <4>2. helper.owned = g
        BY <2>1, <3>0, <4>1 DEF KeepsItsGame, MayRelease
      <4>3. g # NoGame
        BY HelperAssumption DEF Games, NoGame
      <4> QED BY <2>1, <3>0, <4>1, <4>2, <4>3 DEF MayRelease
    <3> QED BY <3>1, <3>2
  <2>2. session.owner # NoGame /\ ~session.released => helper'.owned \in {session.owner, NoGame}
    BY DEF KeepsItsGame, Settles
  <2> QED BY <2>1, <2>2 DEF KeepsItsGame
<1>10. LeftInv'
  <2>1. /\ \A g \in Games : left'[g] # "no" => life'[g] # "none"
        /\ session'.owner # NoGame => life'[session'.owner] # "none"
        /\ \A g \in Games : left'[g] = "done" => helper'.owned # g
    BY NotAGame DEF LeftInv, Settles, ShapeInv
  <2>2. ASSUME NEW k \in DOMAIN outbox', outbox'[k].tag = "started"
        PROVE  life'[outbox'[k].game] # "none"
    <3>1. k \in DOMAIN outbox /\ outbox'[k] = outbox[k]
      BY <1>2, <2>2 DEF Settles
    <3>2. outbox[k].game \in Games
      BY <2>2, <3>1, MessageShape DEF StartInv, Answered
    <3> QED BY <2>2, <3>1, <3>2 DEF LeftInv, Settles
  <2>3. ASSUME pc["job"] = "lRelease", NEW k \in DOMAIN outbox', outbox'[k].from = "job",
               outbox'[k].tag = "ok", session.owner # NoGame
        PROVE  helper'.owned # session.owner
    <3>1. CASE k \in DOMAIN outbox /\ outbox'[k] = outbox[k]
      BY <2>3, <3>1 DEF LeftInv, Settles
    <3>2. CASE tag = "ok"
      BY <2>3, <3>2 DEF Settles
    <3> QED BY <1>2, <2>3, <3>1, <3>2
  <2> QED BY <2>1, <2>2, <2>3 DEF LeftInv
<1>11. SpareInv'
  <2>1. \A i \in DOMAIN inbox' : Endangers(i)' => Endangers(i+1)
    BY <1>1 DEF Endangers
  <2>2. ASSUME NEW k \in DOMAIN outbox', outbox'[k].tag \in Finds PROVE Starts' = {}
    <3>1. Starts = {}
      BY <1>2, <2>2 DEF SpareInv, Settles, StartInv
    <3> QED BY <1>3, <3>1
  <2>3. ASSUME NEW i \in DOMAIN inbox', Endangers(i)', NEW j \in Starts' PROVE i < j
    <3>1. i+1 < j+1
      BY <1>1, <1>3, <2>1, <2>3 DEF SpareInv
    <3> QED BY <1>1, <1>3, <3>1
  <2>4. Spared' => Spared
    <3> SUFFICES ASSUME Spared' PROVE Spared
      OBVIOUS
    <3>1. helper.live /\ inbox[1].op # "release" /\ session.shutting
      BY <1>1 DEF Settles, Spared
    <3>2. ASSUME NEW i \in DOMAIN inbox, inbox[i].op = "release" PROVE FALSE
      <4>1. i # 1 => i-1 \in DOMAIN inbox' /\ inbox'[i-1] = inbox[i]
        <5>1. inbox \in Seq(Requested) /\ inbox # <<>> /\ inbox' = Tail(inbox)
          BY DEF ShapeInv, Respond
        <5> QED BY <5>1
      <4> QED BY <3>1, <3>2, <4>1 DEF Spared
    <3> QED BY <3>1, <3>2 DEF Spared
  <2>5. ASSUME Spared', NEW k \in DOMAIN outbox'
        PROVE  /\ outbox'[k].tag = "running" => pc'[outbox'[k].from] # "cStatus"
               /\ outbox'[k].tag # "stays"
    <3>1. CASE k \in DOMAIN outbox /\ outbox'[k] = outbox[k]
      BY <2>4, <2>5, <3>1 DEF SpareInv
    <3>2. CASE /\ inbox[1].from # Nobody
               /\ outbox'[k].from = inbox[1].from /\ outbox'[k].tag = tag
      <4>1. ~Endangers(1)
        BY <1>1, <2>4, <2>5 DEF SpareInv
      <4> QED BY <1>1, <3>2, <4>1 DEF Endangers, Settles
    <3> QED BY <1>2, <3>1, <3>2
  <2>6. Spared' => \A i \in DOMAIN inbox' : ~Endangers(i)'
    BY <1>1, <2>1, <2>4 DEF SpareInv
  <2>7. helper'.live => session'.up
    BY DEF SpareInv, Settles
  <2> QED BY <2>2, <2>3, <2>5, <2>6, <2>7 DEF SpareInv
<1> QED BY <1>1, <1>5, <1>6, <1>7, <1>8, <1>9, <1>10, <1>11 DEF Settles

\* What RefreshOwned may change.
LEMMA RefreshesWhat ==
  ASSUME ShapeInv, HelperInv, NEW h \in Refreshes
  PROVE  /\ h \in [owned : Games \union {NoGame}, live : BOOLEAN, lease : BOOLEAN,
                   unresolved : BOOLEAN, open : BOOLEAN]
         /\ h.open = helper.open /\ h.owned = helper.owned /\ h.unresolved = helper.unresolved
         /\ h.live => helper.live /\ life[h.owned] = "running"
         /\ h.owned # NoGame /\ ~h.live => life[h.owned] # "running"
<1>1. CASE h = helper /\ (helper.live => life[helper.owned] = "running")
  BY <1>1 DEF ShapeInv, HelperInv
<1>2. CASE /\ helper.live /\ life[helper.owned] # "running"
           /\ h \in {[helper EXCEPT !.live = FALSE], Unleased([helper EXCEPT !.live = FALSE])}
  <2>1. ~helper.unresolved
    BY <1>2 DEF ShapeInv, HelperInv
  <2> QED BY <1>2, <2>1 DEF ShapeInv, Unleased
<1> QED BY <1>1, <1>2 DEF Refreshes

\* A start is served while nobody owns a game.
LEMMA StartServed ==
  ASSUME Alive, Asked({"start"})
  PROVE  /\ inbox # <<>> /\ 1 \in Starts /\ 1 \in DOMAIN inbox /\ inbox[1].op = "start"
         /\ helper.owned = NoGame /\ session.owner = NoGame
<1>1. inbox # <<>> /\ inbox \in Seq(Requested) /\ Head(inbox).op = "start"
  BY DEF Asked, Alive, ShapeInv
<1>2. 1 \in DOMAIN inbox /\ inbox[1].op = "start"
  BY <1>1, TailAt
<1> QED BY <1>1, <1>2 DEF Starts, Alive, StartInv

\* A request that launches nothing.
LEMMA ServesOther ==
  ASSUME Alive, helper.open, StartRefused \/ Status \/ CloseGame \/ CloseNothing \/ Release,
         UNCHANGED <<pc, session, left>>
  PROVE  Alive' /\ helper'.open
<1>0. ShapeInv /\ HelperInv /\ inbox # <<>> /\ NoGame \in Games \union {NoGame}
  BY DEF Alive, Asked, StartRefused, Status, CloseGame, CloseNothing, Release
<1>1. ASSUME NEW tag \in Answers, Respond(tag, NoGame), Settles(tag), HelperInv'
      PROVE  Alive' /\ helper'.open
  BY <1>0, <1>1, SettlesKeeps
<1>2. {"error", "ok", "running", "exited", "stays", "unowned"} \subseteq Answers
  BY DEF Answers
<1>3. CASE StartRefused
  <2>1. PICK h \in Refreshes :
            helper' = IF h.live \/ h.unresolved \/ h.lease THEN h ELSE [h EXCEPT !.owned = NoGame]
    BY <1>3 DEF StartRefused
  <2>2. UNCHANGED life /\ helper.owned = NoGame /\ Respond("error", NoGame)
    BY <1>3, StartServed DEF StartRefused
  <2>3. helper' = h
    BY <1>0, <2>1, <2>2, RefreshesWhat
  <2>4. Settles("error") /\ HelperInv'
    BY <1>0, <1>3, <2>2, <2>3, RefreshesWhat
    DEF Settles, Finds, HelperInv, ShapeInv, StartRefused, Asked
  <2> QED BY <1>1, <1>2, <2>2, <2>4
<1>4. CASE Status
  <2> DEFINE tag == IF helper'.owned = NoGame THEN "unowned"
                    ELSE IF helper'.live THEN "running" ELSE "exited"
  <2>1. helper' \in Refreshes /\ UNCHANGED life /\ Respond(tag, NoGame) /\ tag \in Answers
    BY <1>2, <1>4 DEF Status
  <2>2. Settles(tag) /\ HelperInv'
    BY <1>0, <1>4, <2>1, RefreshesWhat DEF Settles, Finds, HelperInv, ShapeInv, Status, Asked
  <2> HIDE DEF tag
  <2> QED BY <1>1, <2>1, <2>2
<1>5. CASE CloseGame
  <2>0. Head(inbox).op \in {"close", "terminate"}
    BY <1>5 DEF CloseGame, Asked
  <2>1. PICK h \in Refreshes :
          /\ h.owned # NoGame
          /\ \/ /\ life' = [life EXCEPT ![h.owned] = "exited"]
                /\ \/ helper' = Unleased([h EXCEPT !.live = FALSE]) /\ Respond("exited", NoGame)
                   \/ helper' = [h EXCEPT !.live = FALSE] /\ Respond("stays", NoGame)
             \/ /\ helper' = h /\ \E tag \in {"stays", "error"} : Respond(tag, NoGame)
                /\ UNCHANGED life
    BY <1>5 DEF CloseGame
  <2>2. /\ h \in [owned : Games \union {NoGame}, live : BOOLEAN, lease : BOOLEAN,
                  unresolved : BOOLEAN, open : BOOLEAN]
        /\ h.open = helper.open /\ h.owned = helper.owned /\ h.unresolved = helper.unresolved
        /\ h.live => helper.live
        /\ h.owned # NoGame /\ ~h.live => life[h.owned] # "running"
    BY <1>0, RefreshesWhat
  <2>3. h.owned \in Games /\ ~h.unresolved /\ ~helper.unresolved
    BY <1>0, <2>1, <2>2 DEF HelperInv
  <2>4. ASSUME life' = [life EXCEPT ![h.owned] = "exited"],
               NEW tag \in {"exited", "stays"}, Respond(tag, NoGame),
               helper' \in {[h EXCEPT !.live = FALSE], Unleased([h EXCEPT !.live = FALSE])}
        PROVE  Alive' /\ helper'.open
    <3>1. /\ life' \in [Games -> {"none", "running", "exited"}]
          /\ life'[h.owned] = "exited"
          /\ \A g \in Games : life'[g] = "running" => life[g] = "running"
          /\ \A g \in Games : life'[g] = "none" => life[g] = "none"
      BY <1>0, <2>3, <2>4 DEF ShapeInv
    <3>2. /\ helper' \in [owned : Games \union {NoGame}, live : BOOLEAN, lease : BOOLEAN,
                          unresolved : BOOLEAN, open : BOOLEAN]
          /\ helper'.open = helper.open /\ helper'.owned = h.owned /\ ~helper'.live
          /\ ~helper'.unresolved
      BY <2>2, <2>3, <2>4 DEF Unleased
    <3>3. Settles(tag) /\ HelperInv'
      BY <2>0, <2>1, <2>2, <2>3, <3>1, <3>2 DEF Settles, HelperInv
    <3> QED BY <1>1, <1>2, <2>4, <3>3
  <2>5. ASSUME helper' = h, UNCHANGED life, NEW tag \in {"stays", "error"}, Respond(tag, NoGame)
        PROVE  Alive' /\ helper'.open
    <3>1. Settles(tag) /\ HelperInv'
      BY <1>0, <2>0, <2>1, <2>2, <2>3, <2>5 DEF Settles, HelperInv, ShapeInv
    <3> QED BY <1>1, <1>2, <2>5, <3>1
  <2> QED BY <2>1, <2>4, <2>5
<1>6. CASE CloseNothing
  <2>1. UNCHANGED <<life, helper>> /\ Respond("error", NoGame)
    BY <1>6 DEF CloseNothing
  <2>2. Settles("error") /\ HelperInv'
    BY <1>0, <1>6, <2>1 DEF Settles, Finds, HelperInv, ShapeInv, CloseNothing, Asked
  <2> QED BY <1>1, <1>2, <2>1, <2>2
<1>7. CASE Release
  <2>0. Head(inbox).op = "release" /\ UNCHANGED life
    BY <1>7 DEF Release, Asked
  <2>1. PICK h \in Refreshes :
          \/ /\ helper' = Unleased([h EXCEPT !.owned = NoGame, !.live = FALSE])
             /\ Respond("ok", NoGame)
          \/ helper' = h /\ ~h.live /\ Respond("error", NoGame)
    BY <1>7 DEF Release
  <2>2. CASE helper' = h /\ ~h.live /\ Respond("error", NoGame)
    <3>1. Settles("error") /\ HelperInv'
      BY <1>0, <2>0, <2>2, RefreshesWhat DEF Settles, Finds, HelperInv, ShapeInv
    <3> QED BY <1>1, <1>2, <2>2, <3>1
  <2>3. CASE helper' = Unleased([h EXCEPT !.owned = NoGame, !.live = FALSE]) /\ Respond("ok", NoGame)
    <3>1. /\ helper' \in [owned : Games \union {NoGame}, live : BOOLEAN, lease : BOOLEAN,
                          unresolved : BOOLEAN, open : BOOLEAN]
          /\ helper'.open = helper.open /\ helper'.owned = NoGame /\ ~helper'.live
          /\ ~helper'.unresolved
      BY <1>0, <2>3, RefreshesWhat DEF Unleased
    <3>2. Settles("ok") /\ HelperInv'
      BY <1>0, <2>0, <3>1 DEF Settles, Finds, HelperInv, ShapeInv
    <3> QED BY <1>1, <1>2, <2>3, <3>2
  <2> QED BY <2>1, <2>2, <2>3
<1> QED BY <1>3, <1>4, <1>5, <1>6, <1>7

\* A start that launches: no other start is on the way, no release, and no answer
\* that has found a game.
LEMMA ServesStart ==
  ASSUME Alive, helper.open, session.up, StartOwned \/ StartUnresolved,
         UNCHANGED <<pc, session, left>>
  PROVE  Alive' /\ helper'.open
<1>0. ShapeInv /\ HelperInv /\ AwaitInv /\ Asked({"start"}) /\ NoGame \in Games \union {NoGame}
  BY DEF Alive, StartOwned, StartUnresolved
<1>1. /\ inbox # <<>> /\ 1 \in Starts /\ inbox[1].op = "start"
      /\ helper.owned = NoGame /\ session.owner = NoGame
  BY <1>0, StartServed
<1>2. \A g \in Games : g # NoGame
  BY NotAGame
<1>3. ASSUME NEW tag \in {"started", "error"}, NEW game \in Games \union {NoGame},
             Respond(tag, game), helper'.open,
             life' \in [Games -> {"none", "running", "exited"}],
             helper' \in [owned : Games \union {NoGame}, live : BOOLEAN, lease : BOOLEAN,
                          unresolved : BOOLEAN, open : BOOLEAN],
             HelperInv', KeepsItsGame',
             tag = "started" => helper'.owned = game /\ game # NoGame /\ ~helper'.unresolved
                                /\ life'[game] # "none",
             \A g \in Games : left[g] # "no" => life'[g] # "none" /\ helper'.owned # g
      PROVE  Alive' /\ helper'.open
  <2>0. tag \in Answers
    BY DEF Answers
  <2>1. /\ inbox' \in Seq(Requested) /\ outbox' \in Seq(Answered) /\ AwaitInv'
        /\ 1 \in DOMAIN inbox
        /\ \A i \in DOMAIN inbox' : i \in Nat /\ i+1 \in DOMAIN inbox /\ inbox'[i] = inbox[i+1]
    BY <1>0, <1>1, <1>3, <2>0, ServesShape
  <2>2. \A k \in DOMAIN outbox' :
            \/ k \in DOMAIN outbox /\ outbox'[k] = outbox[k]
            \/ /\ inbox[1].from # Nobody /\ outbox'[k].from = inbox[1].from
               /\ outbox'[k].tag = tag /\ outbox'[k].game = game
    BY <1>0, <1>1, <1>3, <2>0, ServesShape
  <2>3. Starts' = {}
    <3>1. \A j \in Starts' : j \in Nat /\ j+1 \in Starts
      BY <2>1 DEF Starts
    <3>2. \A j \in Starts' : j+1 = 1
      BY <1>1, <3>1 DEF Alive, StartInv
    <3>3. \A j \in DOMAIN inbox' : j+1 # 1
      BY <2>1
    <3> QED BY <3>2, <3>3 DEF Starts
  <2>4. ShapeInv'
    BY <1>0, <1>3, <2>1 DEF ShapeInv
  <2>5. \A k \in DOMAIN outbox : outbox[k].tag # "started"
    BY <1>1 DEF Alive, StartInv
  <2>6. StartInv'
    <3>1. ASSUME NEW k \in DOMAIN outbox', outbox'[k].tag = "started"
          PROVE  /\ outbox'[k].from = "job" /\ pc'["job"] = "starting"
                 /\ outbox'[k].game # NoGame
                 /\ helper'.owned \in {outbox'[k].game, NoGame}
                 /\ Starts' = {} /\ ~helper'.unresolved
      <4>1. /\ inbox[1].from # Nobody /\ outbox'[k].from = inbox[1].from
            /\ tag = "started" /\ outbox'[k].game = game
        BY <2>2, <2>5, <3>1
      <4>2. inbox[1].from = "job" /\ pc["job"] = "starting"
        BY <1>0, <1>1, <2>1, <4>1 DEF AwaitInv
      <4> QED BY <1>3, <2>3, <4>1, <4>2
    <3> QED BY <2>3, <3>1 DEF StartInv
  <2>7. PriorInv'
    <3>1. pc["job"] = "prior" => \A k \in DOMAIN outbox' :
              ~(outbox'[k].from = "job" /\ outbox'[k].tag = "unowned")
      BY <1>1, <2>2 DEF Alive, PriorInv
    <3> QED BY <1>1, <2>3, <3>1 DEF PriorInv
  <2>8. ReleaseInv'
    <3> SUFFICES ASSUME ~session.shutting PROVE
          /\ \A i \in DOMAIN inbox' : inbox'[i].op # "release"
          /\ \A k \in DOMAIN outbox' : outbox'[k].tag # "exited"
      BY DEF ReleaseInv
    <3>1. ASSUME NEW i \in DOMAIN inbox' PROVE inbox'[i].op # "release"
      <4>1. inbox[i+1].op = "release" => i+1 < 1
        BY <1>1, <2>1 DEF Alive, ReleaseInv
      <4> QED BY <2>1, <4>1
    <3>2. \A k \in DOMAIN outbox : outbox[k].tag # "exited"
      BY <1>1 DEF Alive, SpareInv, Finds
    <3> QED BY <1>3, <2>2, <3>1, <3>2
  <2>9. LeftInv'
    BY <1>1, <1>3, <2>2, <2>5 DEF LeftInv
  <2>10. SpareInv'
    <3>1. \A i \in DOMAIN inbox' : ~Endangers(i)'
      <4>1. ASSUME NEW i \in DOMAIN inbox', Endangers(i)' PROVE FALSE
        <5>1. Endangers(i+1)
          BY <2>1, <4>1 DEF Endangers
        <5>2. i+1 < 1
          BY <1>1, <2>1, <5>1 DEF Alive, SpareInv
        <5> QED BY <2>1, <5>2
      <4> QED BY <4>1
    <3>2. \A k \in DOMAIN outbox : outbox[k].tag \notin Finds
      BY <1>1 DEF Alive, SpareInv
    <3>3. \A k \in DOMAIN outbox' : outbox'[k].tag \notin Finds
      BY <2>2, <3>2 DEF Finds
    <3> QED BY <2>3, <3>1, <3>3 DEF SpareInv, Finds
  <2> QED BY <1>3, <2>1, <2>4, <2>6, <2>7, <2>8, <2>9, <2>10 DEF Alive
<1>4. CASE StartOwned
  <2>1. PICK h \in Refreshes, g \in Games :
          /\ CanLaunch(h)
          /\ \/ /\ Launch(g, "running")
                /\ helper' = [h EXCEPT !.owned = g, !.live = TRUE, !.lease = TRUE]
                /\ Respond("started", g)
             \/ /\ Launch(g, "exited")
                /\ \E lease \in BOOLEAN :
                       helper' = [h EXCEPT !.owned = g, !.live = FALSE, !.lease = lease]
                /\ Respond("error", NoGame)
    BY <1>4 DEF StartOwned
  <2>2. /\ h \in [owned : Games \union {NoGame}, live : BOOLEAN, lease : BOOLEAN,
                  unresolved : BOOLEAN, open : BOOLEAN]
        /\ h.open = helper.open
    BY <1>0, RefreshesWhat
  <2>3. ~h.unresolved /\ \A x \in Games : life[x] # "running"
    BY <2>1 DEF CanLaunch, GameRuns
  <2>4. PICK how \in {"running", "exited"} :
          /\ life' = [life EXCEPT ![g] = how]
          /\ helper'.live => how = "running"
          /\ how = "running" => helper'.live
          /\ how = "running" => Respond("started", g)
          /\ how # "running" => Respond("error", NoGame)
          /\ helper' \in [owned : Games \union {NoGame}, live : BOOLEAN, lease : BOOLEAN,
                          unresolved : BOOLEAN, open : BOOLEAN]
          /\ helper'.owned = g /\ ~helper'.unresolved /\ helper'.open = helper.open
    BY <2>1, <2>2, <2>3 DEF Launch
  <2>4a. life[g] = "none"
    BY <2>1 DEF Launch, FirstUnused
  <2>5. /\ life' \in [Games -> {"none", "running", "exited"}] /\ life'[g] = how
        /\ \A x \in Games : life'[x] = "running" => x = g
        /\ \A x \in Games : x # g => life'[x] = life[x]
    BY <1>0, <2>3, <2>4 DEF ShapeInv
  <2>6. HelperInv' /\ KeepsItsGame'
    BY <1>1, <1>2, <2>4, <2>5 DEF HelperInv, KeepsItsGame
  <2>7. \A x \in Games : left[x] # "no" => life'[x] # "none" /\ helper'.owned # x
    BY <2>4, <2>4a, <2>5 DEF Alive, LeftInv
  <2> QED BY <1>2, <1>3, <2>4, <2>5, <2>6, <2>7
<1>5. CASE StartUnresolved
  <2>1. PICK h \in Refreshes :
          /\ CanLaunch(h)
          /\ helper' = [h EXCEPT !.owned = NoGame, !.lease = TRUE, !.unresolved = TRUE]
    BY <1>5 DEF StartUnresolved
  <2>2. /\ helper' \in [owned : Games \union {NoGame}, live : BOOLEAN, lease : BOOLEAN,
                        unresolved : BOOLEAN, open : BOOLEAN]
        /\ helper'.owned = NoGame /\ ~helper'.live /\ helper'.unresolved /\ helper'.open = helper.open
    BY <1>0, <2>1, RefreshesWhat DEF CanLaunch
  <2>3. /\ life' \in [Games -> {"none", "running", "exited"}]
        /\ \A g \in Games : life'[g] = "none" => life[g] = "none"
    <3>1. ASSUME NEW g \in Games, Launch(g, "running")
          PROVE  /\ life' \in [Games -> {"none", "running", "exited"}]
                 /\ \A x \in Games : life'[x] = "none" => life[x] = "none"
      BY <1>0, <3>1 DEF Launch, ShapeInv
    <3> QED BY <1>0, <1>5, <3>1 DEF StartUnresolved, ShapeInv
  <2>4. HelperInv' /\ KeepsItsGame'
    BY <1>1, <2>2 DEF HelperInv, KeepsItsGame
  <2>5. \A g \in Games : left[g] # "no" => life'[g] # "none" /\ helper'.owned # g
    BY <1>2, <2>2, <2>3 DEF Alive, LeftInv
  <2> QED BY <1>3, <1>5, <2>2, <2>3, <2>4, <2>5 DEF StartUnresolved
<1> QED BY <1>4, <1>5

-----------------------------------------------------------------------------
(* The other steps.                                                        *)

\* A call that times out leaves its request where it is, nobody's.
LEMMA TimeoutKeeps ==
  ASSUME Alive, helper.open, NEW c \in Callers, TimesOut(c)
  PROVE  Alive' /\ helper'.open
<1> USE DEF Alive
<1>1. /\ UNCHANGED <<life, helper, session, pc, left>>
      /\ outbox' = <<[from |-> c, tag |-> "error", game |-> NoGame]>> \o outbox
  BY DEF TimesOut, CallTimesOut, Bridge
<1>2. PICK t \in DOMAIN inbox : inbox[t].from = c /\ inbox' = [inbox EXCEPT ![t].from = Nobody]
  BY DEF TimesOut, CallTimesOut
<1>3. inbox \in Seq(Requested) /\ outbox \in Seq(Answered) /\ c # Nobody
  BY HelperAssumption DEF ShapeInv
<1>4. /\ inbox' \in Seq(Requested) /\ DOMAIN inbox' = DOMAIN inbox
      /\ \A i \in DOMAIN inbox : inbox'[i].op = inbox[i].op
      /\ inbox'[t].from = Nobody
      /\ \A i \in DOMAIN inbox : i # t => inbox'[i] = inbox[i]
  <2>1. inbox[t] \in Requested
    BY <1>3
  <2> DEFINE y == [inbox[t] EXCEPT !.from = Nobody]
  <2>2. y \in Requested /\ y.op = inbox[t].op /\ y.from = Nobody
    BY <2>1 DEF Requested
  <2>3. inbox' = [inbox EXCEPT ![t] = y]
    BY <1>2
  <2> HIDE DEF y
  <2> QED BY <1>2, <1>3, <2>2, <2>3
<1>5. \A i \in DOMAIN inbox : i # t => inbox[i].from # c
  BY <1>2, <1>3 DEF AwaitInv
<1>6. pc[c] \in Awaits /\ \A k \in DOMAIN outbox : outbox[k].from # c
  BY <1>2, <1>3 DEF AwaitInv
<1> DEFINE x == [from |-> c, tag |-> "error", game |-> NoGame]
<1>7. x \in Answered /\ x.from = c /\ x.tag = "error" /\ outbox' = <<x>> \o outbox
  BY <1>1 DEF Answered, Answers
<1> HIDE DEF x
<1>8. /\ outbox' \in Seq(Answered)
      /\ \A k \in DOMAIN outbox' :
             \/ k = 1 /\ outbox'[k] = x
             \/ k \in Nat /\ k > 1 /\ k-1 \in DOMAIN outbox /\ outbox'[k] = outbox[k-1]
  BY <1>3, <1>7, PrependAt
<1>9. Starts' = Starts /\ (MayRelease <=> MayRelease')
  BY <1>1, <1>4 DEF Starts, MayRelease
<1>10. ShapeInv' /\ HelperInv'
  BY <1>1, <1>4, <1>8 DEF ShapeInv, HelperInv
<1>11. AwaitInv'
  <2>1. /\ \A i \in DOMAIN inbox' : inbox'[i].from # Nobody => pc'[inbox'[i].from] \in Awaits
        /\ \A i \in DOMAIN inbox' : inbox'[i].from # Nobody /\ inbox'[i].op = "start" =>
               inbox'[i].from = "job" /\ pc'["job"] = "starting"
        /\ \A i, j \in DOMAIN inbox' : inbox'[i].from # Nobody /\ inbox'[i].from = inbox'[j].from => i = j
    <3>1. \A i \in DOMAIN inbox' : inbox'[i].from # Nobody =>
              i \in DOMAIN inbox /\ inbox'[i] = inbox[i]
      BY <1>4
    <3>2. \A i, j \in DOMAIN inbox' : inbox'[i].from # Nobody /\ inbox'[i].from = inbox'[j].from => i = j
      BY <3>1 DEF AwaitInv
    <3> QED BY <1>1, <3>1, <3>2 DEF AwaitInv
  <2>2. \A i \in DOMAIN inbox' : inbox'[i].from # c
    BY <1>3, <1>4, <1>5
  <2>3. ASSUME NEW k \in DOMAIN outbox'
        PROVE  /\ pc'[outbox'[k].from] \in Awaits
               /\ \A i \in DOMAIN inbox' : inbox'[i].from # outbox'[k].from
               /\ \A m \in DOMAIN outbox' : outbox'[k].from = outbox'[m].from => k = m
    <3>1. CASE k = 1 /\ outbox'[k] = x
      BY <1>1, <1>6, <1>7, <1>8, <2>2, <3>1
    <3>2. CASE k \in Nat /\ k > 1 /\ k-1 \in DOMAIN outbox /\ outbox'[k] = outbox[k-1]
      <4>1. outbox[k-1].from \in Callers /\ outbox[k-1].from # c
        BY <1>6, <3>2, MessageShape
      <4>2. \A i \in DOMAIN inbox' : inbox'[i].from # outbox'[k].from
        BY <1>3, <1>4, <3>2, <4>1, HelperAssumption DEF AwaitInv
      <4>3. ASSUME NEW m \in DOMAIN outbox', outbox'[k].from = outbox'[m].from PROVE k = m
        <5>1. m \in Nat /\ m-1 \in DOMAIN outbox /\ outbox'[m] = outbox[m-1]
          BY <1>7, <1>8, <3>2, <4>1, <4>3
        <5>2. k-1 = m-1
          BY <3>2, <4>3, <5>1 DEF AwaitInv
        <5> QED BY <3>2, <5>1, <5>2
      <4> QED BY <1>1, <3>2, <4>2, <4>3 DEF AwaitInv
    <3> QED BY <1>8, <3>1, <3>2
  <2> QED BY <1>1, <2>1, <2>3 DEF AwaitInv
<1>12. \A k \in DOMAIN outbox' : outbox'[k].tag # "error" =>
           k \in Nat /\ k-1 \in DOMAIN outbox /\ outbox'[k] = outbox[k-1]
  BY <1>7, <1>8
<1>13. StartInv'
  BY <1>1, <1>9, <1>12 DEF StartInv
<1>14. PriorInv'
  <2>1. ASSUME pc["job"] = "prior", NEW i \in DOMAIN inbox', inbox'[i].from = "job", NEW j \in Starts'
        PROVE  j < i
    <3>1. i \in DOMAIN inbox /\ inbox[i].from = "job"
      BY <1>4, <2>1, SessionAssumption, HelperAssumption
    <3> QED BY <1>9, <2>1, <3>1 DEF PriorInv
  <2>2. ASSUME pc["job"] = "prior", NEW k \in DOMAIN outbox', outbox'[k].from = "job",
               outbox'[k].tag = "unowned"
        PROVE  /\ helper'.owned = NoGame /\ Starts' = {}
               /\ \A m \in DOMAIN outbox' : m > k => outbox'[m].tag \notin Finds
    <3>1. k \in Nat /\ k-1 \in DOMAIN outbox /\ outbox'[k] = outbox[k-1]
      BY <1>12, <2>2
    <3>2. /\ helper.owned = NoGame /\ Starts = {}
          /\ \A m \in DOMAIN outbox : m > k-1 => outbox[m].tag \notin Finds
      BY <2>2, <3>1 DEF PriorInv
    <3>3. ASSUME NEW m \in DOMAIN outbox', m > k, outbox'[m].tag \in Finds PROVE FALSE
      <4>1. m \in Nat /\ m-1 \in DOMAIN outbox /\ outbox'[m] = outbox[m-1]
        BY <1>12, <3>3 DEF Finds
      <4>2. m-1 > k-1
        BY <3>1, <3>3, <4>1
      <4> QED BY <3>2, <3>3, <4>1, <4>2
    <3> QED BY <1>1, <1>9, <3>2, <3>3
  <2> QED BY <1>1, <2>1, <2>2 DEF PriorInv
<1>15. ReleaseInv'
  BY <1>1, <1>4, <1>9, <1>12 DEF ReleaseInv
<1>16. KeepsItsGame'
  BY <1>1 DEF KeepsItsGame
<1>17. LeftInv'
  BY <1>1, <1>12 DEF LeftInv
<1>18. SpareInv'
  <2>1. \A i \in DOMAIN inbox' : Endangers(i)' => Endangers(i)
    BY <1>1, <1>4 DEF Endangers
  <2>2. Spared' => Spared
    BY <1>1, <1>4 DEF Spared
  <2>3. \A k \in DOMAIN outbox' : outbox'[k].tag \in Finds =>
            k-1 \in DOMAIN outbox /\ outbox'[k] = outbox[k-1]
    BY <1>12 DEF Finds
  <2>4. \A k \in DOMAIN outbox' : outbox'[k].tag \in Finds => Starts' = {}
    BY <1>9, <2>3 DEF SpareInv
  <2>5. ASSUME Spared', NEW k \in DOMAIN outbox'
        PROVE  /\ outbox'[k].tag = "running" => pc'[outbox'[k].from] # "cStatus"
               /\ outbox'[k].tag # "stays"
    BY <1>1, <2>2, <2>3, <2>5 DEF SpareInv, Finds
  <2> QED BY <1>1, <1>4, <1>9, <2>1, <2>2, <2>4, <2>5 DEF SpareInv
<1> QED BY <1>1, <1>10, <1>11, <1>13, <1>14, <1>15, <1>16, <1>17, <1>18

\* A game exits by itself.
LEMMA ExitKeeps ==
  ASSUME Alive, helper.open, NEW g \in Games, GameExits(g), Bridge
  PROVE  Alive' /\ helper'.open
<1> USE DEF Alive
<1>1. UNCHANGED <<helper, inbox, outbox, session, pc, left>>
  BY DEF GameExits, Bridge
<1>2. /\ life' \in [Games -> {"none", "running", "exited"}]
      /\ \A x \in Games : life'[x] = "running" => life[x] = "running"
      /\ \A x \in Games : life'[x] = "none" => life[x] = "none"
  BY DEF GameExits, ShapeInv
<1>3. /\ helper.owned # NoGame => helper.owned \in Games
  BY DEF ShapeInv
<1>4. ShapeInv' /\ HelperInv' /\ AwaitInv'
  BY <1>1, <1>2, <1>3 DEF ShapeInv, HelperInv, AwaitInv
<1>5. Starts' = Starts /\ (MayRelease => MayRelease')
  BY <1>1, <1>2, <1>3 DEF Starts, MayRelease
<1>6. StartInv' /\ PriorInv'
  BY <1>1, <1>5 DEF StartInv, PriorInv
<1>7. ReleaseInv'
  BY <1>1, <1>5 DEF ReleaseInv
<1>8. KeepsItsGame'
  BY <1>1, <1>2 DEF KeepsItsGame
<1>9. LeftInv'
  <2>1. session.owner # NoGame => session.owner \in Games
    BY DEF ShapeInv
  <2>2. \A k \in DOMAIN outbox : outbox[k].tag = "started" => outbox[k].game \in Games
    BY MessageShape DEF StartInv, Answered
  <2> QED BY <1>1, <1>2, <2>1, <2>2 DEF LeftInv
<1>10. SpareInv'
  BY <1>1, <1>5 DEF SpareInv, Spared, Endangers
<1> QED BY <1>1, <1>4, <1>6, <1>7, <1>8, <1>9, <1>10

-----------------------------------------------------------------------------
(* What a shutdown has left of a job.                                      *)

\* A step of the job: to its end, to where a shutdown spares, or on.
JobGoes ==
    /\ UNCHANGED closed /\ session'.shutting = session.shutting /\ job' \in JobRecord
    /\ \/ pc'["job"] = "idle"
       \/ pc["job"] # "idle" /\ pc'["job"] \in Spares /\ job'.abort = job.abort
       \/ /\ pc["job"] \notin Spares \/ ~session.shutting
          /\ job'.abort = job.abort
          /\ session'.owner \in {session.owner, NoGame}
          /\ session.released => session'.released \/ session'.owner = NoGame

LEMMA JobGoesShut ==
  ASSUME ShutInv, JobGoes
  PROVE  ShutInv'
BY DEF ShutInv, JobGoes, Spares

\* The ways it has: an error, the end of its cleanup, another place.
LEMMA JobForms ==
  ASSUME ShapeInv, ShutInv, pc["job"] # "idle", UNCHANGED closed,
         session'.shutting = session.shutting
  PROVE  /\ Throws("job") \/ Ends("job") => JobGoes
         /\ \A where \in Spares : Goto("job", where) /\ UNCHANGED job => JobGoes
         /\ \A where : /\ Goto("job", where) /\ UNCHANGED job
                       /\ pc["job"] \notin Spares \/ ~session.shutting
                       /\ session'.owner \in {session.owner, NoGame}
                       /\ session.released => session'.released \/ session'.owner = NoGame
                       => JobGoes
<1>0. pc \in [Callers -> Places] /\ "job" \in Callers /\ job \in JobRecord
  BY SessionAssumption DEF ShapeInv, ShutInv
<1>1. \A where : Goto("job", where) => pc'["job"] = where
  BY <1>0 DEF Goto
<1>2. NoJob \in JobRecord
  BY DEF NoJob, JobRecord
<1>3. CASE Throws("job")
  <2>1. \/ job' = [job EXCEPT !.failing = TRUE] /\ pc'["job"] = "enrich"
        \/ job' = NoJob /\ pc'["job"] = "idle"
    BY <1>1, <1>3 DEF Throws
  <2>2. [job EXCEPT !.failing = TRUE] \in JobRecord /\ [job EXCEPT !.failing = TRUE].abort = job.abort
    BY <1>0 DEF JobRecord
  <2> QED BY <1>2, <2>1, <2>2 DEF JobGoes, Spares
<1>4. CASE Ends("job")
  BY <1>0, <1>1, <1>4 DEF Ends, JobGoes, Spares
<1>5. \A where \in Spares : Goto("job", where) /\ UNCHANGED job => JobGoes
  BY <1>0, <1>1 DEF JobGoes
<1>6. \A where : /\ Goto("job", where) /\ UNCHANGED job
                 /\ pc["job"] \notin Spares \/ ~session.shutting
                 /\ session'.owner \in {session.owner, NoGame}
                 /\ session.released => session'.released \/ session'.owner = NoGame
                 => JobGoes
  BY <1>0 DEF JobGoes
<1> QED BY <1>3, <1>4, <1>5, <1>6

\* Each step of a job, in one of those ways.
LEMMA JobShut ==
  ASSUME ShapeInv, ShutInv, JobStep
  PROVE  JobGoes
<1> USE DEF Quiet, Asks, Silent, Opens, Machine, helperVars
<1>0. /\ session \in [owner : Games \union {NoGame}, released : BOOLEAN, uncertain : BOOLEAN,
                       shutting : BOOLEAN, up : BOOLEAN, jobs : 0..MaxJobs, force : BOOLEAN]
      /\ pc \in [Callers -> Places] /\ "job" \in Callers /\ job \in JobRecord
  BY SessionAssumption DEF ShapeInv, ShutInv
<1>1. CASE Cleanup("job")
  <2>1. /\ UNCHANGED closed /\ (session' = session \/ Disowned)
        /\ pc["job"] \in {"cStatus", "cClose", "cTerminate", "cRelease"}
        /\ \/ Throws("job") \/ Ends("job")
           \/ UNCHANGED job /\ \E where : Goto("job", where)
    BY <1>1 DEF Cleanup, CleanupStatus, CleanupClose, CleanupTerminate, CleanupRelease
  <2>2. /\ session'.shutting = session.shutting /\ session'.owner = session.owner
        /\ session.released => session'.released
    BY <1>0, <2>1 DEF Disowned
  <2> QED BY <1>0, <2>1, <2>2, JobForms DEF Spares
<1>2. CASE LeaveRelease
  <2>1. UNCHANGED closed /\ (session' = session \/ Disowned) /\ pc["job"] = "lRelease"
        /\ (Throws("job") \/ Ends("job"))
    BY <1>2 DEF LeaveRelease
  <2>2. session'.shutting = session.shutting
    BY <1>0, <2>1 DEF Disowned
  <2> QED BY <1>0, <2>1, <2>2, JobForms
<1>3. CASE Begin \/ DropStatus \/ DropRelease \/ Prior
  <2>1. /\ UNCHANGED closed /\ pc["job"] \in {"begin", "dropStatus", "dropRelease", "prior"}
        /\ \/ session' = session \/ Disown
           \/ session' = [session EXCEPT !.up = TRUE]
           \/ session' = [session EXCEPT !.up = TRUE, !.owner = NoGame]
        /\ \/ Throws("job") \/ Resolves(session.owner)
           \/ UNCHANGED job /\ \E where : Goto("job", where)
    BY <1>3 DEF Begin, DropStatus, DropRelease, Prior
  <2>2. /\ session'.shutting = session.shutting /\ session'.owner \in {session.owner, NoGame}
        /\ session.released => session'.released
    BY <1>0, <2>1 DEF Disown
  <2>3. CASE Resolves(session.owner)
    <3>1. job' = [job EXCEPT !.proc = session.owner] /\ pc'["job"] = "resolve"
      BY <1>0, <2>3 DEF Resolves, Goto
    <3>2. job' \in JobRecord /\ job'.abort = job.abort
      BY <1>0, <3>1 DEF JobRecord
    <3> QED BY <2>1, <2>2, <3>1, <3>2 DEF JobGoes, Spares
  <2> QED BY <1>0, <2>1, <2>2, <2>3, JobForms DEF Spares
<1>4. CASE Starting
  <2>1. CASE Gets("job", {"error"}) /\ Throws("job") /\ UNCHANGED session
    BY <1>0, <1>4, <2>1, JobForms DEF Starting
  <2>2. CASE /\ session' = [session EXCEPT !.owner = Head(outbox).game, !.released = FALSE]
             /\ Throws("job") \/ Resolves(Head(outbox).game)
    <3>1. session'.shutting = session.shutting
      BY <1>0, <2>2
    <3>2. CASE Throws("job")
      BY <1>0, <1>4, <3>1, <3>2, JobForms DEF Starting
    <3>3. CASE Resolves(Head(outbox).game)
      <4>1. Head(outbox).game \in Games \union {NoGame}
        <5>1. outbox \in Seq(Answered) /\ outbox # <<>>
          BY <1>4 DEF ShapeInv, Starting
        <5> QED BY <5>1, TailAt, MessageShape DEF Answered
      <4>2. job' = [job EXCEPT !.proc = Head(outbox).game] /\ pc'["job"] = "resolve"
        BY <1>0, <3>3 DEF Resolves, Goto
      <4>3. job' \in JobRecord /\ job'.abort = job.abort
        BY <1>0, <4>1, <4>2 DEF JobRecord
      <4> QED BY <1>4, <3>1, <4>2, <4>3 DEF JobGoes, Spares, Starting
    <3> QED BY <2>2, <3>2, <3>3
  <2> QED BY <1>4, <2>1, <2>2 DEF Starting
<1>5. CASE Resolve
  <2>1. /\ UNCHANGED <<closed, session>> /\ pc["job"] = "resolve"
        /\ Throws("job") \/ (~job.abort /\ UNCHANGED job /\ \E where : Goto("job", where))
    BY <1>5 DEF Resolve, Ready
  <2>2. ~job.abort => ~session.shutting
    BY <2>1 DEF ShutInv
  <2> QED BY <1>0, <2>1, <2>2, JobForms
<1>6. CASE ResolveStatus
  <2>1. /\ UNCHANGED <<closed, session>> /\ pc["job"] = "rStatus"
        /\ Throws("job") \/ (UNCHANGED job /\ Goto("job", "resolve"))
    BY <1>6 DEF ResolveStatus
  <2> QED BY <1>0, <2>1, JobForms DEF Spares
<1>7. ASSUME NEW here, here \notin Spares, NEW next, Polls(here, next)
      PROVE  JobGoes
  <2>1. /\ UNCHANGED <<closed, session>> /\ pc["job"] \notin Spares
        /\ Throws("job") \/ (UNCHANGED job /\ Goto("job", next))
    BY <1>7 DEF Polls
  <2> QED BY <1>0, <2>1, JobForms DEF Spares
<1>8. ASSUME NEW here, here \notin Spares, NEW next, Mutates(here, next)
      PROVE  JobGoes
  <2>1. /\ UNCHANGED closed /\ pc["job"] \notin Spares
        /\ session' = session \/ session' = [session EXCEPT !.uncertain = TRUE]
    BY <1>8 DEF Mutates
  <2>2. /\ session'.shutting = session.shutting /\ session'.owner = session.owner
        /\ session'.released = session.released
    BY <1>0, <2>1
  <2>3. CASE Throws("job")
    BY <1>0, <2>1, <2>2, <2>3, JobForms DEF Spares
  <2>4. CASE \/ job' = [job EXCEPT !.scenario = (here = "scenario")]
             \/ job' = [job EXCEPT !.failing = TRUE, !.lost = TRUE]
    <3>1. job' \in JobRecord /\ job'.abort = job.abort
      BY <1>0, <2>4 DEF JobRecord
    <3> QED BY <2>1, <2>2, <3>1 DEF JobGoes
  <2> QED BY <1>8, <2>3, <2>4 DEF Mutates
<1>9. CASE \/ Polls("available", "load") \/ Mutates("load", "waitLoad")
           \/ Polls("waitLoad", "scenario") \/ Mutates("scenario", "waitScenario")
  BY <1>7, <1>8, <1>9 DEF Spares
<1>10. FinishJob => /\ UNCHANGED closed
                    /\ Ends("job") \/ (UNCHANGED job /\ \E where : Goto("job", where))
  BY DEF FinishJob, LetsGo
<1>11. CASE WaitForScenario \/ Caught \/ ScenarioCancelled
  <2>0. UNCHANGED session /\ pc["job"] \in {"waitScenario", "enrich", "cancel"}
    BY <1>11 DEF WaitForScenario, Caught, ScenarioCancelled
  <2>1. CASE FinishJob /\ (pc["job"] # "enrich" \/ ~session.shutting)
    BY <1>0, <1>10, <2>0, <2>1, JobForms DEF Spares
  <2>2. CASE /\ UNCHANGED closed
             /\ \/ Throws("job") \/ Ends("job")
                \/ ~session.shutting /\ Goto("job", "cancel") /\ UNCHANGED job
    BY <1>0, <2>0, <2>2, JobForms
  <2>3. CASE UNCHANGED <<closed, pc>> /\ pc["job"] = "cancel" /\ job' = [job EXCEPT !.lost = TRUE]
    <3>1. job' \in JobRecord /\ job'.abort = job.abort
      BY <1>0, <2>3 DEF JobRecord
    <3> QED BY <2>0, <2>3, <3>1 DEF JobGoes, Spares
  <2>4. WaitForScenario => \/ FinishJob /\ pc["job"] # "enrich"
                           \/ UNCHANGED closed /\ Throws("job")
    BY DEF WaitForScenario
  <2>5. Caught => \/ FinishJob /\ ~session.shutting
                  \/ /\ UNCHANGED closed
                     /\ Ends("job") \/ (~session.shutting /\ Goto("job", "cancel") /\ UNCHANGED job)
    BY DEF Caught
  <2>6. ScenarioCancelled => \/ FinishJob /\ pc["job"] # "enrich"
                             \/ /\ UNCHANGED <<closed, pc>> /\ pc["job"] = "cancel"
                                /\ job' = [job EXCEPT !.lost = TRUE]
    BY DEF ScenarioCancelled
  <2> QED BY <1>11, <2>1, <2>2, <2>3, <2>4, <2>5, <2>6
<1>12. CASE Evidence
  <2>1. UNCHANGED <<closed, session>> /\ job' = NoJob /\ pc'["job"] = "idle"
    BY <1>0, <1>12 DEF Evidence, Goto
  <2> QED BY <2>1 DEF JobGoes, NoJob, JobRecord
<1> QED BY <1>1, <1>2, <1>3, <1>4, <1>5, <1>6, <1>9, <1>11, <1>12 DEF JobStep

LEMMA ShutKeeps ==
  ASSUME Alive, ShutInv, [Next]_vars
  PROVE  ShutInv'
<1> USE DEF Quiet, Asks, Silent, Opens, Machine, helperVars
<1>0. /\ session \in [owner : Games \union {NoGame}, released : BOOLEAN, uncertain : BOOLEAN,
                       shutting : BOOLEAN, up : BOOLEAN, jobs : 0..MaxJobs, force : BOOLEAN]
      /\ pc \in [Callers -> Places] /\ "job" \in Callers /\ job \in JobRecord /\ ShapeInv
  BY SessionAssumption DEF Alive, ShapeInv, ShutInv
<1>1. CASE JobStep
  BY <1>0, <1>1, JobShut, JobGoesShut
<1>2. ASSUME UNCHANGED <<closed, job>>, pc'["job"] = pc["job"], session'.shutting = session.shutting,
             session'.owner = session.owner, session.released => session'.released
      PROVE  ShutInv'
  BY <1>2 DEF ShutInv
<1>3. CASE Cleanup("stop")
  <2>1. /\ UNCHANGED closed /\ (session' = session \/ Disowned)
        /\ \/ Throws("stop") \/ Ends("stop")
           \/ UNCHANGED job /\ \E where : Goto("stop", where)
    BY <1>3 DEF Cleanup, CleanupStatus, CleanupClose, CleanupTerminate, CleanupRelease
  <2>2. /\ session'.shutting = session.shutting /\ session'.owner = session.owner
        /\ session.released => session'.released
    BY <1>0, <2>1 DEF Disowned
  <2>3. UNCHANGED job /\ \E where : Goto("stop", where)
    BY <2>1 DEF Throws, Ends
  <2>4. pc'["job"] = pc["job"]
    BY <1>0, <2>3 DEF Goto
  <2> QED BY <1>2, <2>1, <2>2, <2>3, <2>4
<1>4. ASSUME NEW r \in Requests, CreateJob(r[1], r[2], r[3])
      PROVE  ShutInv'
  <2>1. r[1] \in {"start", "run"} /\ r[2] \in {"stop", "leave"} /\ r[3] \in BOOLEAN
    BY SessionAssumption
  <2>2. job' \in JobRecord
    BY <1>4, <2>1 DEF CreateJob, NoJob, JobRecord
  <2>3. ~session'.shutting /\ UNCHANGED closed /\ ~session.shutting
    BY <1>0, <1>4 DEF CreateJob
  <2> QED BY <2>2, <2>3 DEF ShutInv
<1>5. ASSUME NEW force, Stop(force) PROVE ShutInv'
  <2>1. UNCHANGED <<closed, job>> /\ ~session'.shutting /\ ~session.shutting
    BY <1>0, <1>5 DEF Stop
  <2> QED BY <2>1 DEF ShutInv
<1>6. ASSUME UNCHANGED <<closed, session, pc>>,
             \/ job' = [job EXCEPT !.late = TRUE]
             \/ job' = [job EXCEPT !.abort = TRUE]
      PROVE  ShutInv'
  <2>1. job' \in JobRecord /\ (job.abort => job'.abort)
    BY <1>0, <1>6 DEF JobRecord
  <2> QED BY <1>6, <2>1 DEF ShutInv
<1>7. CASE StartupExpires \/ CancelJob
  BY <1>6, <1>7 DEF StartupExpires, CancelJob
<1>8. CASE Shutdown
  <2>1. UNCHANGED closed /\ session'.shutting /\ session'.released /\ pc'["job"] = pc["job"]
    <3>1. \E where : Goto("shutdown", where)
      BY <1>8 DEF Shutdown
    <3> QED BY <1>0, <1>8, <3>1 DEF Shutdown, Goto
  <2>2. job' \in JobRecord /\ (pc["job"] = "idle" \/ job'.abort)
    BY <1>0, <1>8 DEF Shutdown, JobRecord
  <2> QED BY <2>1, <2>2 DEF ShutInv
<1>9. CASE ShutdownStep
  <2>1. UNCHANGED <<session, job>> /\ pc'["job"] = pc["job"] /\ session.shutting
    BY <1>0, <1>9 DEF ShutdownStep, Goto, Alive, AwaitInv
  <2> QED BY <2>1 DEF ShutInv
<1>10. ASSUME UNCHANGED <<closed, session, job, pc>> PROVE ShutInv'
  BY <1>10 DEF ShutInv
<1>11. CASE HelperStep \/ Environment
  <2>1. UNCHANGED closed
    BY <1>11 DEF HelperStep, Environment, Serve, EndOfInput, HelperDies, GameExits, StartRefused,
                 StartOwned, StartUnresolved, Status, CloseGame, CloseNothing, Release
  <2> QED BY <1>10, <1>11, <2>1 DEF HelperStep, Environment, Bridge
<1>12. ASSUME NEW c, TimesOut(c) PROVE ShutInv'
  BY <1>10, <1>12 DEF TimesOut, CallTimesOut, Bridge
<1>13. CASE UNCHANGED vars
  BY <1>10, <1>13 DEF vars
<1> QED BY <1>1, <1>3, <1>4, <1>5, <1>7, <1>8, <1>9, <1>11, <1>12, <1>13 DEF Next

-----------------------------------------------------------------------------
(* All steps together.                                                     *)

\* What the helper has and which games it ended is the helper's to change.
LEMMA OthersLeave ==
  ASSUME [Next]_vars
  PROVE  HelperStep \/ Environment \/ UNCHANGED <<helper, hit>>
<1> USE DEF Quiet, Asks, Silent, Opens, Machine, helperVars
<1>1. LetsGo("job", "status", "cStatus") \/ LetsGo("job", "release", "lRelease") => UNCHANGED <<helper, hit>>
  BY DEF LetsGo
<1>2. FinishJob => UNCHANGED <<helper, hit>>
  BY <1>1 DEF FinishJob
<1>3. ASSUME NEW c, Cleanup(c) PROVE UNCHANGED <<helper, hit>>
  BY <1>3 DEF Cleanup, CleanupStatus, CleanupClose, CleanupTerminate, CleanupRelease
<1>4. Begin \/ DropStatus \/ DropRelease \/ Prior \/ Starting => UNCHANGED <<helper, hit>>
  BY DEF Begin, DropStatus, DropRelease, Prior, Starting
<1>5. Resolve \/ ResolveStatus \/ StartupExpires \/ LeaveRelease \/ Evidence => UNCHANGED <<helper, hit>>
  BY DEF Resolve, Ready, ResolveStatus, StartupExpires, LeaveRelease, Evidence
<1>6. ASSUME NEW here, NEW next, Polls(here, next) \/ Mutates(here, next) PROVE UNCHANGED <<helper, hit>>
  BY <1>6 DEF Polls, Mutates
<1>7. WaitForScenario \/ Caught \/ ScenarioCancelled => UNCHANGED <<helper, hit>>
  BY <1>2 DEF WaitForScenario, Caught, ScenarioCancelled
<1>8. JobStep \/ StartupExpires \/ Cleanup("stop") => UNCHANGED <<helper, hit>>
  BY <1>3, <1>4, <1>5, <1>6, <1>7 DEF JobStep
<1>9. ASSUME NEW a, NEW b, NEW c, CreateJob(a, b, c) PROVE UNCHANGED <<helper, hit>>
  BY <1>9 DEF CreateJob
<1>10. ASSUME NEW force, Stop(force) PROVE UNCHANGED <<helper, hit>>
  BY <1>10 DEF Stop
<1>11. CancelJob \/ Shutdown \/ ShutdownStep => UNCHANGED <<helper, hit>>
  BY DEF CancelJob, Shutdown, ShutdownStep
<1>12. ASSUME NEW c, TimesOut(c) PROVE UNCHANGED <<helper, hit>>
  BY <1>12 DEF TimesOut, CallTimesOut
<1>13. CASE UNCHANGED vars
  BY <1>13 DEF vars
<1> QED BY <1>8, <1>9, <1>10, <1>11, <1>12, <1>13 DEF Next

\* A helper that is gone stays so.
LEMMA GoneKeeps ==
  ASSUME ~helper.open, [Next]_vars
  PROVE  UNCHANGED helper
<1>1. ~HelperStep
  BY DEF HelperStep, Serve, EndOfInput, Asked, StartRefused, StartOwned, StartUnresolved, Status,
         CloseGame, CloseNothing, Release
<1>2. Environment => UNCHANGED helper
  BY DEF Environment, HelperDies, GameExits
<1> QED BY <1>1, <1>2, OthersLeave

\* Only the requests to close and to terminate end a game.
LEMMA OnlyCloseHits ==
  ASSUME [Next]_vars
  PROVE  hit' = hit \/ CloseGame
<1>1. HelperStep => hit' = hit \/ CloseGame
  BY DEF HelperStep, Serve, EndOfInput, StartRefused, StartOwned, StartUnresolved, Status,
         CloseNothing, Release
<1>2. Environment => hit' = hit
  BY DEF Environment, HelperDies, GameExits
<1> QED BY <1>1, <1>2, OthersLeave

\* The game that is ended is the one that is owned, if it runs.
LEMMA HitsOwned ==
  ASSUME IInv, [Next]_vars
  PROVE  /\ hit' = hit \/ (helper.open /\ helper.live /\ hit' = hit \union {helper.owned})
         /\ hit' # hit => inbox # <<>> /\ Head(inbox).op \in {"close", "terminate"}
<1>1. CASE CloseGame
  <2>1. Alive /\ inbox # <<>> /\ Head(inbox).op \in {"close", "terminate"} /\ helper.open
    BY <1>1 DEF IInv, CloseGame, Asked
  <2>2. PICK h \in Refreshes : hit' = IF h.live THEN hit \union {h.owned} ELSE hit
    BY <1>1 DEF CloseGame
  <2>3. h.owned = helper.owned /\ (h.live => helper.live)
    BY <2>1, RefreshesWhat DEF Alive
  <2> QED BY <2>1, <2>2, <2>3
<1> QED BY <1>1, OnlyCloseHits

\* The game left running is another than the one owned.
LEMMA LeftStep ==
  ASSUME IInv, [Next]_vars, NEW g \in hit', left[g] = "done"
  PROVE  g \in hit
<1> SUFFICES ASSUME g \notin hit PROVE FALSE
  OBVIOUS
<1>1. helper.open /\ helper.live /\ g = helper.owned
  BY HitsOwned
<1>2. g \in Games
  BY <1>1 DEF IInv, Alive, ShapeInv, HelperInv
<1> QED BY <1>1, <1>2 DEF IInv, Alive, LeftInv

\* A game that runs now has no request before it that ends it.
LEMMA SparesStep ==
  ASSUME IInv, [Next]_vars, session.shutting, ~\E i \in DOMAIN inbox : inbox[i].op = "release"
  PROVE  hit' = hit
<1> SUFFICES ASSUME hit' # hit PROVE FALSE
  OBVIOUS
<1>1. /\ helper.open /\ helper.live /\ inbox # <<>> /\ Head(inbox).op \in {"close", "terminate"}
  BY HitsOwned
<1>2. 1 \in DOMAIN inbox /\ Head(inbox) = inbox[1]
  <2>1. inbox \in Seq(Requested)
    BY <1>1 DEF IInv, Alive, ShapeInv
  <2> QED BY <1>1, <2>1, TailAt
<1> QED BY <1>1, <1>2 DEF IInv, Alive, SpareInv, Spared, Endangers

LEMMA Initially == Init => IInv
<1> SUFFICES ASSUME Init PROVE IInv
  OBVIOUS
<1> USE DEF Init, HelperInit
<1>1. helper.open /\ inbox = <<>> /\ outbox = <<>> /\ DOMAIN inbox = {} /\ DOMAIN outbox = {}
  OBVIOUS
<1>2. /\ inbox \in Seq(Requested) /\ outbox \in Seq(Answered)
  BY <1>1
<1>3. pc \in [Callers -> Places] /\ pc["job"] = "idle" /\ pc["shutdown"] = "idle"
  BY SessionAssumption DEF Places
<1>4. ShapeInv
  BY <1>2, <1>3, SessionAssumption DEF ShapeInv
<1>5. HelperInv /\ AwaitInv /\ ShutInv
  BY <1>1, <1>3 DEF HelperInv, AwaitInv, ShutInv, NoJob, JobRecord
<1>6. LeftInv /\ SpareInv /\ StartInv /\ PriorInv /\ ReleaseInv
  BY <1>1, <1>3, NotAGame DEF LeftInv, SpareInv, Spared, StartInv, PriorInv, ReleaseInv, Starts
<1>7. KeepsItsGame
  BY DEF KeepsItsGame
<1> QED BY <1>1, <1>4, <1>5, <1>6, <1>7 DEF IInv, Alive

LEMMA EachStep == IInv /\ [Next]_vars => IInv'
<1> SUFFICES ASSUME IInv, [Next]_vars PROVE IInv'
  OBVIOUS
<1>1. CASE ~helper.open
  BY <1>1, GoneKeeps DEF IInv
<1>2. CASE helper.open
  <2>0. Alive /\ ShutInv
    BY <1>2 DEF IInv
  <2>00. ShutInv'
    BY <2>0, ShutKeeps
  <2> SUFFICES (Alive' /\ helper'.open) \/ (helper'.owned = NoGame /\ ~helper'.open)
    BY <2>00 DEF IInv
  <2>1. CASE JobStep \/ StartupExpires \/ Cleanup("stop")
    BY <1>2, <2>0, <2>1, JobKeeps
  <2>2. CASE \/ \E r \in Requests : CreateJob(r[1], r[2], r[3])
             \/ \E force \in StopForces : Stop(force)
             \/ CancelJob \/ Shutdown \/ ShutdownStep
    BY <1>2, <2>0, <2>2, RequestsKeep
  <2>3. CASE Serve /\ Bridge /\ session.up
    <3>1. UNCHANGED <<pc, session, left>>
      BY <2>3 DEF Bridge
    <3> QED BY <1>2, <2>0, <2>3, <3>1, ServesOther, ServesStart DEF Serve
  <2>4. CASE EndOfInput \/ HelperDies
    <3>1. helper' = Disposed
      BY <2>4 DEF EndOfInput, HelperDies
    <3> QED BY <2>0, <3>1 DEF Disposed, Unleased, Alive, ShapeInv
  <2>5. ASSUME NEW g \in Games, GameExits(g), Bridge PROVE Alive' /\ helper'.open
    BY <1>2, <2>0, <2>5, ExitKeeps
  <2>6. ASSUME NEW c \in Callers, TimesOut(c) PROVE Alive' /\ helper'.open
    BY <1>2, <2>0, <2>6, TimeoutKeeps
  <2>7. CASE UNCHANGED vars
    <3>1. Silent /\ UNCHANGED <<session, pc, left>>
      BY <2>7 DEF vars, Silent
    <3> QED BY <1>2, <2>0, <3>1, Stays
  <2> QED BY <2>1, <2>2, <2>3, <2>4, <2>5, <2>6, <2>7 DEF Next, HelperStep, Environment
<1> QED BY <1>1, <1>2

\* The invariant implies what is to be kept, also when the helper is gone.
LEMMA Implied == IInv => KeepsItsGame
<1>1. helper.open => (IInv => KeepsItsGame)
  BY DEF IInv, Alive
<1>2. ~helper.open => (IInv => KeepsItsGame)
  BY DEF IInv, KeepsItsGame
<1> QED BY <1>1, <1>2

\* The inductive invariant.
THEOREM Invariant == Spec => []IInv
<1>1. Spec => Init /\ [][Next]_vars
  BY DEF Spec
<1> QED BY <1>1, Initially, EachStep, PTL

\* A game that was launched stays in the helper's hands while it runs, through every
\* stop, timeout and failed job of the controller, and the controller never takes
\* another game for its own (SessionController and Controller.HandleRequest).
THEOREM GameKept == Spec => []KeepsItsGame
<1> QED BY Invariant, Implied, PTL

\* A game that a run was told to leave running, and has released, is never closed
\* or terminated, whichever stop was under way (LeaveRelease against cleanup).
THEOREM LeftAlone == Spec => LeftRunning
<1>1. IInv /\ [Next]_vars => [\A g \in hit' : left[g] = "done" => g \in hit]_vars
  BY LeftStep
<1>2. Spec => Init /\ [][Next]_vars
  BY DEF Spec
<1> QED BY <1>1, <1>2, Invariant, PTL DEF LeftRunning

\* Once the bridge is shutting down and the helper has served its release, no game
\* is closed or terminated any more, not even one that a late start launches
\* (SessionController.shutdown against the requests on the way).
THEOREM NoneEndedLate == Spec => ShutdownSpares
<1>1. IInv /\ [Next]_vars =>
          [(session.shutting /\ ~\E i \in DOMAIN inbox : inbox[i].op = "release") => hit' = hit]_vars
  BY SparesStep
<1>2. Spec => Init /\ [][Next]_vars
  BY DEF Spec
<1> QED BY <1>1, <1>2, Invariant, PTL DEF ShutdownSpares

-----------------------------------------------------------------------------
(* The types.  They hold whether there is a helper or not, so they have an *)
(* invariant of their own, that says nothing of what the helper owns.      *)

SessionRecord == [owner : Games \union {NoGame}, released : BOOLEAN, uncertain : BOOLEAN,
                  shutting : BOOLEAN, up : BOOLEAN, jobs : 0..MaxJobs, force : BOOLEAN]
HelperRecord == [owned : Games \union {NoGame}, live : BOOLEAN, lease : BOOLEAN,
                 unresolved : BOOLEAN, open : BOOLEAN]

\* The answers that name a game where they are to.
Truthful == {m \in Answered : m.tag = "started" => m.game # NoGame}

\* Where a job has a game, and where it has asked the helper for one.
Going == {"resolve", "rStatus", "available", "load", "waitLoad", "scenario", "waitScenario"}
Asking == {"dropStatus", "dropRelease", "prior", "starting"}

\* The record of a job and the place where it is agree.
Ties ==
    /\ session.owner # NoGame => session.up
    /\ pc["job"] = "idle" => job = NoJob
    /\ pc["job"] \in Going => job.proc \in Games
    /\ pc["job"] \in Asking => session.up
    /\ pc["job"] = "dropStatus" => session.owner # NoGame

BridgeTyped ==
    /\ session \in SessionRecord /\ job \in JobRecord /\ pc \in [Callers -> Places]
    /\ pinned \in Games \union {NoGame}
    /\ left \in [Games -> {"no", "asked", "done"}]
    /\ Ties

Mailed == inbox \in Seq(Requested) /\ outbox \in Seq(Truthful)

Machined ==
    /\ life \in [Games -> {"none", "running", "exited"}]
    /\ helper \in HelperRecord
    /\ closed \in BOOLEAN
    /\ hit \in SUBSET Games

TypeInv == BridgeTyped /\ Mailed /\ Machined

-----------------------------------------------------------------------------
(* The types of what is on the way.                                        *)

\* A step of the bridge takes an answer at most, and sends one message at most.
Posts ==
    \/ UNCHANGED <<inbox, outbox>>
    \/ outbox # <<>> /\ outbox' = Tail(outbox) /\ UNCHANGED inbox
    \/ \E c \in Callers, op \in Ops :
           Call(c, op, outbox) \/ (outbox # <<>> /\ Call(c, op, Tail(outbox)))

LEMMA TruthfulAnswers ==
  /\ \A out \in Seq(Truthful) : out \in Seq(Answered)
  /\ \A m \in Answered : m.tag # "started" => m \in Truthful
<1>1. Truthful \subseteq Answered
  BY DEF Truthful
<1>2. ASSUME NEW out \in Seq(Truthful) PROVE out \in Seq(Answered)
  BY <1>1
<1>3. \A m \in Answered : m.tag # "started" => m \in Truthful
  BY DEF Truthful
<1> QED BY <1>2, <1>3

LEMMA PostsMail ==
  ASSUME Mailed, Posts
  PROVE  Mailed'
<1>1. ASSUME NEW c \in Callers, NEW op \in Ops, NEW out \in Seq(Truthful), Call(c, op, out)
      PROVE  Mailed'
  <2> DEFINE q == [from |-> c, op |-> op]
             a(tag) == [from |-> c, game |-> NoGame, tag |-> tag]
  <2>1. q \in Requested
    BY DEF Requested, Ops
  <2>2. ASSUME NEW tag \in {"ok", "error"} PROVE a(tag) \in Truthful
    <3>1. a(tag) \in Answered /\ a(tag).tag # "started"
      BY DEF Answered, Answers
    <3> HIDE DEF a
    <3> QED BY <3>1, TruthfulAnswers
  <2>3. \/ inbox' = Append(inbox, q) /\ outbox' = out
        \/ inbox' = inbox /\ \E tag \in {"ok", "error"} : outbox' = Append(out, a(tag))
    <3>1. CASE ~closed /\ helper.open
      BY <1>1, <3>1 DEF Call
    <3>2. CASE ~(~closed /\ helper.open)
      <4>1. /\ inbox' = inbox
            /\ outbox' = Append(out, a(IF closed /\ op = "release" THEN "ok" ELSE "error"))
        BY <1>1, <3>2 DEF Call
      <4> QED BY <4>1
    <3> QED BY <3>1, <3>2
  <2> HIDE DEF q, a
  <2>4. inbox \in Seq(Requested)
    BY DEF Mailed
  <2>5. CASE inbox' = Append(inbox, q) /\ outbox' = out
    BY <2>1, <2>4, <2>5 DEF Mailed
  <2>6. ASSUME NEW tag \in {"ok", "error"}, inbox' = inbox, outbox' = Append(out, a(tag))
        PROVE  Mailed'
    <3>1. a(tag) \in Truthful
      BY <2>2
    <3> QED BY <2>4, <2>6, <3>1 DEF Mailed
  <2> QED BY <2>3, <2>5, <2>6
<1>2. ASSUME outbox # <<>> PROVE Tail(outbox) \in Seq(Truthful)
  BY <1>2 DEF Mailed
<1>3. CASE UNCHANGED <<inbox, outbox>>
  BY <1>3 DEF Mailed
<1>4. CASE outbox # <<>> /\ outbox' = Tail(outbox) /\ UNCHANGED inbox
  BY <1>2, <1>4 DEF Mailed
<1>5. outbox \in Seq(Truthful)
  BY DEF Mailed
<1> QED BY <1>1, <1>2, <1>3, <1>4, <1>5 DEF Posts

\* Each step of the bridge does no more than that, and does not touch the helper.
BridgeMail == Posts /\ UNCHANGED <<life, helper, hit>> /\ closed' \in {closed, TRUE}

LEMMA BridgePosts ==
  ASSUME [Next]_vars
  PROVE  HelperStep \/ Environment \/ (\E c \in Callers : TimesOut(c)) \/ BridgeMail
<1> USE DEF BridgeMail
<1>0. Callers = {"job", "stop", "shutdown"}
  BY SessionAssumption
<1>1. /\ Silent => BridgeMail
      /\ outbox # <<>> /\ Quiet => BridgeMail
  BY DEF Silent, helperVars, Quiet, Machine, Posts
<1>2. ASSUME NEW c \in Callers, NEW op \in Ops, NEW where
      PROVE  /\ Opens(c, op, where) => BridgeMail
             /\ outbox # <<>> /\ Asks(c, op, where) => BridgeMail
  BY DEF Opens, Asks, Machine, Posts
<1>3. \A c, tags : Gets(c, tags) => outbox # <<>>
  BY DEF Gets, Handled
<1>4. FinishJob => BridgeMail
  BY <1>0, <1>1, <1>2 DEF FinishJob, LetsGo, Ops
<1>5. ASSUME NEW c \in Callers, Cleanup(c) PROVE BridgeMail
  BY <1>1, <1>2, <1>3, <1>5 DEF Cleanup, CleanupStatus, CleanupClose, CleanupTerminate, CleanupRelease, Ops
<1>6. Begin \/ DropStatus \/ DropRelease \/ Prior \/ Starting => BridgeMail
  BY <1>0, <1>1, <1>2, <1>3 DEF Begin, DropStatus, DropRelease, Prior, Starting, Ops
<1>7. Resolve \/ ResolveStatus \/ StartupExpires \/ LeaveRelease \/ Evidence => BridgeMail
  BY <1>0, <1>1, <1>2, <1>3 DEF Resolve, Ready, ResolveStatus, StartupExpires, LeaveRelease, Evidence, Ops
<1>8. ASSUME NEW here, NEW next, Polls(here, next) \/ Mutates(here, next) PROVE BridgeMail
  BY <1>1, <1>8 DEF Polls, Mutates
<1>9. WaitForScenario \/ Caught \/ ScenarioCancelled => BridgeMail
  BY <1>1, <1>4 DEF WaitForScenario, Caught, ScenarioCancelled
<1>10. JobStep \/ StartupExpires \/ Cleanup("stop") => BridgeMail
  BY <1>0, <1>5, <1>6, <1>7, <1>8, <1>9 DEF JobStep
<1>11. ASSUME NEW a, NEW b, NEW c, CreateJob(a, b, c) PROVE BridgeMail
  BY <1>1, <1>11 DEF CreateJob
<1>12. ASSUME NEW force, Stop(force) PROVE BridgeMail
  BY <1>0, <1>2, <1>12 DEF Stop, Ops
<1>13. CancelJob \/ Shutdown => BridgeMail
  BY <1>0, <1>1, <1>2 DEF CancelJob, Shutdown, Ops
<1>14. ShutdownStep => BridgeMail
  BY DEF ShutdownStep, Handled, Posts
<1>15. CASE UNCHANGED vars
  BY <1>1, <1>15 DEF vars, Silent
<1> QED BY <1>10, <1>11, <1>12, <1>13, <1>14, <1>15 DEF Next

-----------------------------------------------------------------------------
(* The types of what the helper has.                                       *)

LEMMA RespondMail ==
  ASSUME Mailed, inbox # <<>>, NEW tag \in Answers, NEW game \in Games \union {NoGame},
         tag = "started" => game # NoGame, Respond(tag, game)
  PROVE  Mailed'
<1> DEFINE a == [from |-> Head(inbox).from, tag |-> tag, game |-> game]
<1>1. Tail(inbox) \in Seq(Requested) /\ Head(inbox) \in Requested
  BY DEF Mailed
<1>2. ASSUME Head(inbox).from # Nobody PROVE a \in Truthful
  <2>1. a \in Answered /\ a.tag = tag /\ a.game = game
    BY <1>1, <1>2 DEF Answered, Requested
  <2> HIDE DEF a
  <2> QED BY <2>1 DEF Truthful
<1>3. inbox' = Tail(inbox) /\ outbox' = IF Head(inbox).from = Nobody THEN outbox ELSE Append(outbox, a)
  BY DEF Respond
<1> HIDE DEF a
<1>4. outbox' \in Seq(Truthful)
  <2>1. CASE Head(inbox).from = Nobody
    BY <1>3, <2>1 DEF Mailed
  <2>2. CASE Head(inbox).from # Nobody
    <3>1. outbox \in Seq(Truthful) /\ outbox' = Append(outbox, a) /\ a \in Truthful
      BY <1>2, <1>3, <2>2 DEF Mailed
    <3> QED BY <3>1
  <2> QED BY <2>1, <2>2
<1> QED BY <1>1, <1>3, <1>4 DEF Mailed

LEMMA RecordForms ==
  ASSUME NEW h \in HelperRecord
  PROVE  /\ Unleased(h) \in HelperRecord
         /\ [h EXCEPT !.live = FALSE] \in HelperRecord
         /\ [h EXCEPT !.owned = NoGame] \in HelperRecord
         /\ Unleased([h EXCEPT !.live = FALSE]) \in HelperRecord
         /\ Unleased([h EXCEPT !.owned = NoGame, !.live = FALSE]) \in HelperRecord
         /\ Unleased([h EXCEPT !.owned = NoGame, !.live = FALSE, !.open = FALSE]) \in HelperRecord
BY DEF HelperRecord, Unleased

LEMMA RefreshTyped ==
  ASSUME Machined, NEW h \in Refreshes
  PROVE  h \in HelperRecord
<1>1. \/ h = helper \/ h = [helper EXCEPT !.live = FALSE]
      \/ h = Unleased([helper EXCEPT !.live = FALSE])
  BY DEF Refreshes
<1> QED BY <1>1, RecordForms DEF Machined

LEMMA ServeTyped ==
  ASSUME Mailed, Machined, Serve
  PROVE  Mailed' /\ Machined'
<1> USE RefreshTyped
<1>0. inbox # <<>> /\ NoGame \in Games \union {NoGame}
  BY DEF Serve, Asked, StartRefused, StartOwned, StartUnresolved, Status, CloseGame, CloseNothing,
         Release
<1>1. \A tag \in Answers : tag # "started" /\ Respond(tag, NoGame) => Mailed'
  BY <1>0, RespondMail
<1>2. CASE StartRefused
  <2>1. Mailed'
    BY <1>1, <1>2 DEF StartRefused, Answers
  <2>2. helper' \in HelperRecord
    BY <1>2, RecordForms DEF StartRefused
  <2> QED BY <1>2, <2>1, <2>2 DEF StartRefused, Machined
<1>3. CASE StartOwned
  <2>1. PICK h \in Refreshes, g \in Games :
          /\ CanLaunch(h)
          /\ \/ /\ Launch(g, "running")
                /\ helper' = [h EXCEPT !.owned = g, !.live = TRUE, !.lease = TRUE]
                /\ Respond("started", g)
             \/ /\ Launch(g, "exited")
                /\ \E lease \in BOOLEAN :
                       helper' = [h EXCEPT !.owned = g, !.live = FALSE, !.lease = lease]
                /\ Respond("error", NoGame)
    BY <1>3 DEF StartOwned
  <2>2. helper' \in HelperRecord
    <3>1. h \in HelperRecord
      OBVIOUS
    <3> QED BY <2>1, <3>1 DEF HelperRecord
  <2>3. life' \in [Games -> {"none", "running", "exited"}]
    BY <2>1 DEF Launch, Machined
  <2>4. Mailed'
    BY <1>0, <1>1, <2>1, NotAGame, RespondMail DEF Answers
  <2> QED BY <1>3, <2>2, <2>3, <2>4 DEF StartOwned, Machined
<1>4. CASE StartUnresolved
  <2>1. Mailed'
    BY <1>1, <1>4 DEF StartUnresolved, Answers
  <2>2. helper' \in HelperRecord
    <3>1. PICK h \in Refreshes : helper' = [h EXCEPT !.owned = NoGame, !.lease = TRUE, !.unresolved = TRUE]
      BY <1>4 DEF StartUnresolved
    <3>2. h \in HelperRecord
      OBVIOUS
    <3> QED BY <3>1, <3>2 DEF HelperRecord
  <2>3. life' \in [Games -> {"none", "running", "exited"}]
    BY <1>4 DEF StartUnresolved, Launch, Machined
  <2> QED BY <1>4, <2>1, <2>2, <2>3 DEF StartUnresolved, Machined
<1>5. CASE Status
  <2>1. \E tag \in {"unowned", "running", "exited"} : Respond(tag, NoGame)
    BY <1>5 DEF Status
  <2>2. Mailed'
    BY <1>1, <2>1 DEF Answers
  <2> QED BY <1>5, <2>2 DEF Status, Machined
<1>6. CASE CloseGame
  <2>1. PICK h \in Refreshes :
          /\ h.owned # NoGame
          /\ hit' = IF h.live THEN hit \union {h.owned} ELSE hit
          /\ \/ /\ life' = [life EXCEPT ![h.owned] = "exited"]
                /\ \/ helper' = Unleased([h EXCEPT !.live = FALSE]) /\ Respond("exited", NoGame)
                   \/ /\ h.lease
                      /\ helper' = [h EXCEPT !.live = FALSE] /\ Respond("stays", NoGame)
             \/ /\ h.live
                /\ helper' = h /\ \E tag \in {"stays", "error"} : Respond(tag, NoGame)
                /\ UNCHANGED life
    BY <1>6 DEF CloseGame
  <2>2. h \in HelperRecord
    OBVIOUS
  <2>3. helper' \in HelperRecord
    BY <2>1, <2>2, RecordForms
  <2>4. hit' \in SUBSET Games
    <3>1. h.owned \in Games
      BY <2>1, <2>2 DEF HelperRecord
    <3> QED BY <2>1, <3>1 DEF Machined
  <2>5. life' \in [Games -> {"none", "running", "exited"}]
    BY <2>1 DEF Machined
  <2>6. Mailed'
    BY <1>1, <2>1 DEF Answers
  <2> QED BY <1>6, <2>3, <2>4, <2>5, <2>6 DEF CloseGame, Machined
<1>7. CASE CloseNothing
  BY <1>1, <1>7 DEF CloseNothing, Machined, Answers
<1>8. CASE Release
  <2>1. Mailed'
    BY <1>1, <1>8 DEF Release, Answers
  <2>2. helper' \in HelperRecord
    BY <1>8, RecordForms DEF Release
  <2> QED BY <1>8, <2>1, <2>2 DEF Release, Machined
<1> QED BY <1>2, <1>3, <1>4, <1>5, <1>6, <1>7, <1>8 DEF Serve

LEMMA TimeoutMail ==
  ASSUME Mailed, NEW c \in Callers, CallTimesOut(c)
  PROVE  Mailed'
<1> DEFINE a == [from |-> c, tag |-> "error", game |-> NoGame]
<1>1. a \in Truthful
  <2>1. a \in Answered /\ a.tag # "started"
    BY DEF Answered, Answers
  <2> HIDE DEF a
  <2> QED BY <2>1, TruthfulAnswers
<1>2. outbox' = <<a>> \o outbox /\ outbox \in Seq(Truthful)
  BY DEF CallTimesOut, Mailed
<1> HIDE DEF a
<1>3. outbox' \in Seq(Truthful)
  BY <1>1, <1>2, PrependAt
<1>4. PICK i \in DOMAIN inbox : inbox' = [inbox EXCEPT ![i].from = Nobody]
  BY DEF CallTimesOut
<1>5. inbox' \in Seq(Requested)
  <2>1. Len(inbox) \in Nat /\ DOMAIN inbox = 1..Len(inbox) /\ inbox \in [1..Len(inbox) -> Requested]
    BY DEF Mailed
  <2>2. [inbox[i] EXCEPT !.from = Nobody] \in Requested
    <3>1. inbox[i] \in Requested
      BY <2>1
    <3> QED BY <3>1 DEF Requested
  <2>3. inbox' \in [1..Len(inbox) -> Requested]
    BY <1>4, <2>1, <2>2
  <2> QED BY <2>1, <2>3
<1> QED BY <1>3, <1>5 DEF Mailed

\* What the client rejects when its helper dies.
LEMMA RejectsMail ==
  ASSUME Mailed, HelperDies
  PROVE  Mailed'
<1> DEFINE pending == {i \in DOMAIN inbox : inbox[i].from # Nobody}
<1>1. PICK nth \in [1..Cardinality(pending) -> pending] :
          outbox' = outbox \o [k \in DOMAIN nth |->
                        [from |-> inbox[nth[k]].from, tag |-> "error", game |-> NoGame]]
  BY DEF HelperDies
<1>2. Cardinality(pending) \in Nat
  <2>1. Len(inbox) \in Nat /\ DOMAIN inbox = 1..Len(inbox)
    BY DEF Mailed
  <2>2. IsFiniteSet(1..Len(inbox))
    BY <2>1, FS_Interval
  <2> QED BY <2>1, <2>2, FS_Subset, FS_CardinalityType
<1> DEFINE a(k) == [from |-> inbox[nth[k]].from, tag |-> "error", game |-> NoGame]
           r == [k \in DOMAIN nth |-> a(k)]
<1>3. ASSUME NEW k \in DOMAIN nth PROVE a(k) \in Truthful
  <2>1. nth[k] \in DOMAIN inbox /\ inbox[nth[k]].from # Nobody
    BY <1>1
  <2>2. inbox[nth[k]] \in Requested
    BY <2>1 DEF Mailed
  <2>3. a(k) \in Answered /\ a(k).tag # "started"
    BY <2>1, <2>2 DEF Answered, Answers, Requested
  <2> HIDE DEF a
  <2> QED BY <2>3, TruthfulAnswers
<1>4. r \in [1..Cardinality(pending) -> Truthful]
  BY <1>1, <1>3
<1>5. outbox' = outbox \o r /\ inbox' = <<>>
  BY <1>1 DEF HelperDies
<1> HIDE DEF r, pending
<1>6. r \in Seq(Truthful)
  BY <1>2, <1>4
<1> QED BY <1>5, <1>6 DEF Mailed

\* All of it, whoever takes the step.
LEMMA MachineTyped ==
  ASSUME Mailed, Machined, [Next]_vars
  PROVE  Mailed' /\ Machined'
<1>1. CASE HelperStep
  <2>1. CASE EndOfInput
    BY <2>1, RecordForms DEF EndOfInput, Disposed, Mailed, Machined
  <2> QED BY <1>1, <2>1, ServeTyped DEF HelperStep
<1>2. CASE Environment
  <2>1. CASE HelperDies
    BY <2>1, RejectsMail, RecordForms DEF HelperDies, Disposed, Machined
  <2>2. ASSUME NEW g \in Games, GameExits(g) PROVE Mailed' /\ Machined'
    BY <2>2 DEF GameExits, Mailed, Machined
  <2> QED BY <1>2, <2>1, <2>2 DEF Environment
<1>3. ASSUME NEW c \in Callers, TimesOut(c) PROVE Mailed' /\ Machined'
  <2>1. CallTimesOut(c) /\ UNCHANGED <<life, helper, closed, hit>>
    BY <1>3 DEF TimesOut, CallTimesOut
  <2> QED BY <2>1, TimeoutMail DEF Machined
<1>4. CASE BridgeMail
  BY <1>4, PostsMail DEF BridgeMail, Machined
<1> QED BY <1>1, <1>2, <1>3, <1>4, BridgePosts

-----------------------------------------------------------------------------
(* The types of what the bridge knows.                                     *)

\* What a step of the bridge may do to the session, to which it ties the job.
SessionTyped ==
    /\ session' \in SessionRecord
    /\ session.up => session'.up
    /\ session'.owner # NoGame => session'.up
    /\ pinned' \in Games \union {NoGame}
    /\ left' \in [Games -> {"no", "asked", "done"}]

\* The ways a job goes, and what each needs.
LEMMA JobTypes ==
  ASSUME BridgeTyped, SessionTyped
  PROVE  /\ Throws("job") \/ Ends("job") => BridgeTyped'
         /\ \A where \in Places :
               /\ Goto("job", where) /\ job' \in JobRecord
               /\ where = "idle" => job' = NoJob
               /\ where \in Going => job'.proc \in Games
               /\ where \in Asking => session'.up
               /\ where = "dropStatus" => session'.owner # NoGame
               => BridgeTyped'
<1>0. pc \in [Callers -> Places] /\ "job" \in Callers /\ job \in JobRecord /\ NoJob \in JobRecord
  BY SessionAssumption DEF BridgeTyped, NoJob, JobRecord
<1>1. ASSUME NEW where \in Places, Goto("job", where), job' \in JobRecord,
             where = "idle" => job' = NoJob,
             where \in Going => job'.proc \in Games,
             where \in Asking => session'.up,
             where = "dropStatus" => session'.owner # NoGame
      PROVE  BridgeTyped'
  <2>1. pc' \in [Callers -> Places] /\ pc'["job"] = where
    BY <1>0, <1>1 DEF Goto
  <2>2. Ties'
    BY <1>1, <2>1 DEF Ties, SessionTyped
  <2> QED BY <1>1, <2>1, <2>2 DEF BridgeTyped, SessionTyped
<1>2. /\ {"enrich", "idle", "evidence"} \subseteq Places
      /\ \A where \in {"enrich", "idle", "evidence"} :
             where \notin Going /\ where \notin Asking /\ where # "dropStatus"
  BY DEF Places, Going, Asking
<1>3. CASE Throws("job")
  <2>1. \/ job' = [job EXCEPT !.failing = TRUE] /\ Goto("job", "enrich")
        \/ job' = NoJob /\ Goto("job", "idle")
    BY <1>3 DEF Throws
  <2>2. [job EXCEPT !.failing = TRUE] \in JobRecord
    BY <1>0 DEF JobRecord
  <2> QED BY <1>0, <1>1, <1>2, <2>1, <2>2
<1>4. CASE Ends("job")
  BY <1>0, <1>1, <1>2, <1>4 DEF Ends
<1> QED BY <1>1, <1>3, <1>4

\* The steps of the others are no concern of the job's.
LEMMA OthersTyped ==
  ASSUME BridgeTyped, SessionTyped, session'.owner = session.owner, pc' \in [Callers -> Places],
         pc'["job"] = pc["job"], job' \in JobRecord, job'.proc = job.proc,
         pc["job"] = "idle" => job' = job
  PROVE  BridgeTyped'
<1>1. Ties'
  BY DEF BridgeTyped, Ties, SessionTyped
<1> QED BY <1>1 DEF BridgeTyped, SessionTyped

\* What the session may be after a step.
LEMMA SessionForms ==
  ASSUME BridgeTyped, UNCHANGED <<pinned, left>>
  PROVE  /\ UNCHANGED session \/ Disowned \/ Disown => SessionTyped
         /\ session' = [session EXCEPT !.uncertain = TRUE] => SessionTyped
         /\ session' = [session EXCEPT !.up = TRUE] => SessionTyped /\ session'.up /\ session'.owner = session.owner
         /\ session' = [session EXCEPT !.up = TRUE, !.owner = NoGame] => SessionTyped /\ session'.up
<1>1. session \in SessionRecord /\ (session.owner # NoGame => session.up)
  BY DEF BridgeTyped, Ties
<1>2. UNCHANGED session \/ Disowned \/ Disown => SessionTyped
  BY <1>1 DEF SessionTyped, BridgeTyped, SessionRecord, Disowned, Disown
<1>3. session' = [session EXCEPT !.uncertain = TRUE] => SessionTyped
  BY <1>1 DEF SessionTyped, BridgeTyped, SessionRecord
<1>4. session' = [session EXCEPT !.up = TRUE] => SessionTyped /\ session'.up /\ session'.owner = session.owner
  BY <1>1 DEF SessionTyped, BridgeTyped, SessionRecord
<1>5. session' = [session EXCEPT !.up = TRUE, !.owner = NoGame] => SessionTyped /\ session'.up
  BY <1>1 DEF SessionTyped, BridgeTyped, SessionRecord
<1> QED BY <1>2, <1>3, <1>4, <1>5

\* The job up to a game: what it resolves is a game.
LEMMA LaunchTyped ==
  ASSUME BridgeTyped, Mailed, Begin \/ DropStatus \/ DropRelease \/ Prior \/ Starting
  PROVE  BridgeTyped'
<1> USE DEF Asks, Opens, Going, Asking
<1>0. /\ session \in SessionRecord /\ job \in JobRecord /\ UNCHANGED <<pinned, left>>
      /\ {"dropStatus", "dropRelease", "prior", "starting", "resolve"} \subseteq Places
  BY DEF BridgeTyped, Begin, DropStatus, DropRelease, Prior, Starting, Places, Awaits
<1>1. ASSUME NEW g \in Games, Resolves(g), SessionTyped PROVE BridgeTyped'
  <2>1. job' = [job EXCEPT !.proc = g] /\ Goto("job", "resolve")
    BY <1>1 DEF Resolves
  <2>2. job' \in JobRecord /\ job'.proc = g
    BY <1>0, <2>1 DEF JobRecord
  <2> QED BY <1>0, <1>1, <2>1, <2>2, JobTypes
<1>2. ASSUME NEW where \in {"dropRelease", "prior", "starting"}, Goto("job", where), UNCHANGED job,
             SessionTyped, session'.up
      PROVE  BridgeTyped'
  BY <1>0, <1>2, JobTypes
<1>3. CASE Begin
  <2>1. CASE Throws("job") /\ UNCHANGED session
    BY <1>0, <2>1, SessionForms, JobTypes
  <2>2. CASE /\ session.owner # NoGame /\ session' = [session EXCEPT !.up = TRUE]
             /\ Opens("job", "status", "dropStatus") /\ UNCHANGED job
    <3>1. SessionTyped /\ session'.up /\ session'.owner # NoGame
      BY <1>0, <2>2, SessionForms
    <3> QED BY <1>0, <2>2, <3>1, JobTypes
  <2>3. CASE /\ session' = [session EXCEPT !.up = TRUE, !.owner = NoGame]
             /\ Opens("job", "status", "prior") /\ UNCHANGED job
    BY <1>0, <1>2, <2>3, SessionForms
  <2> QED BY <1>3, <2>1, <2>2, <2>3 DEF Begin
<1>4. pc["job"] \in Asking => session.up
  BY DEF BridgeTyped, Ties
<1>5. Disown => session'.up = session.up
  BY <1>0 DEF Disown, SessionRecord
<1>6. CASE DropStatus
  <2>1. session.up /\ session.owner \in Games
    BY <1>0, <1>4, <1>6 DEF DropStatus, BridgeTyped, Ties, SessionRecord
  <2>2. CASE UNCHANGED session /\ (Throws("job") \/ Resolves(session.owner))
    BY <1>0, <1>1, <2>1, <2>2, SessionForms, JobTypes
  <2>3. CASE Asks("job", "release", "dropRelease") /\ UNCHANGED <<session, job>>
    BY <1>0, <1>2, <2>1, <2>3, SessionForms
  <2>4. CASE Disown /\ Asks("job", "status", "prior") /\ UNCHANGED job
    BY <1>0, <1>2, <1>5, <2>1, <2>4, SessionForms
  <2> QED BY <1>6, <2>2, <2>3, <2>4 DEF DropStatus
<1>7. CASE DropRelease
  <2>1. session.up
    BY <1>4, <1>7 DEF DropRelease
  <2>2. CASE Throws("job") /\ UNCHANGED session
    BY <1>0, <2>2, SessionForms, JobTypes
  <2>3. CASE Disown /\ Asks("job", "status", "prior") /\ UNCHANGED job
    BY <1>0, <1>2, <1>5, <2>1, <2>3, SessionForms
  <2> QED BY <1>7, <2>2, <2>3 DEF DropRelease
<1>8. CASE Prior
  <2>1. session.up /\ SessionTyped /\ UNCHANGED session
    BY <1>0, <1>4, <1>8, SessionForms DEF Prior
  <2>2. CASE Throws("job")
    BY <2>1, <2>2, JobTypes
  <2>3. CASE Asks("job", "start", "starting") /\ UNCHANGED job
    BY <1>2, <2>1, <2>3
  <2> QED BY <1>8, <2>2, <2>3 DEF Prior
<1>9. CASE Starting
  <2>1. CASE Throws("job") /\ UNCHANGED session
    BY <1>0, <2>1, SessionForms, JobTypes
  <2>2. CASE /\ Gets("job", {"started"})
             /\ session' = [session EXCEPT !.owner = Head(outbox).game, !.released = FALSE]
             /\ Throws("job") \/ Resolves(Head(outbox).game)
    <3>1. Head(outbox) \in Truthful /\ Head(outbox).tag = "started"
      BY <2>2 DEF Gets, Handled, Answer, Mailed
    <3>2. Head(outbox).game \in Games
      BY <3>1 DEF Truthful, Answered
    <3>3. session.up
      BY <1>4, <1>9 DEF Starting
    <3>4. SessionTyped
      BY <1>0, <2>2, <3>2, <3>3 DEF SessionTyped, SessionRecord, BridgeTyped
    <3> QED BY <1>1, <2>2, <3>2, <3>4, JobTypes
  <2> QED BY <1>9, <2>1, <2>2 DEF Starting
<1> QED BY <1>3, <1>6, <1>7, <1>8, <1>9

\* The job from there to its end.
LEMMA JobTyped ==
  ASSUME BridgeTyped, Mailed, JobStep
  PROVE  BridgeTyped'
<1> USE DEF Asks, Opens
<1>0. /\ session \in SessionRecord /\ job \in JobRecord /\ Ties
      /\ pinned \in Games \union {NoGame} /\ left \in [Games -> {"no", "asked", "done"}]
      /\ Awaits \subseteq Places
  BY DEF BridgeTyped, Places
<1>1. ASSUME SessionTyped, NEW where \in Places, Goto("job", where), UNCHANGED job,
             where # "idle", where \notin Going, where \notin Asking
      PROVE  BridgeTyped'
  <2>1. where # "dropStatus"
    BY <1>1 DEF Asking
  <2> QED BY <1>0, <1>1, <2>1, JobTypes
<1>2. ASSUME SessionTyped, NEW where \in Going \union {"evidence"}, Goto("job", where),
             job' \in JobRecord, job'.proc = job.proc, pc["job"] \in Going
      PROVE  BridgeTyped'
  <2>1. where \in Places /\ where # "idle" /\ where \notin Asking /\ where # "dropStatus"
    BY <1>2 DEF Going, Asking, Places, Awaits
  <2>2. job'.proc \in Games
    BY <1>0, <1>2 DEF Ties
  <2> QED BY <1>2, <2>1, <2>2, JobTypes
<1>3. /\ {"cStatus", "cClose", "cTerminate", "cRelease", "lRelease", "cancel"} \subseteq Places
      /\ \A where \in {"cStatus", "cClose", "cTerminate", "cRelease", "lRelease", "cancel"} :
             where # "idle" /\ where \notin Going /\ where \notin Asking
  BY DEF Places, Awaits, Going, Asking
<1>4. CASE Begin \/ DropStatus \/ DropRelease \/ Prior \/ Starting
  BY <1>4, LaunchTyped
<1>5. CASE Cleanup("job")
  <2>1. /\ UNCHANGED <<pinned, left>> /\ (UNCHANGED session \/ Disowned)
        /\ \/ Throws("job") \/ Ends("job")
           \/ UNCHANGED job /\ \E where \in {"cClose", "cTerminate", "cRelease"} : Goto("job", where)
    BY <1>5 DEF Cleanup, CleanupStatus, CleanupClose, CleanupTerminate, CleanupRelease
  <2>2. SessionTyped
    BY <2>1, SessionForms
  <2> QED BY <1>1, <1>3, <2>1, <2>2, JobTypes
<1>6. CASE LeaveRelease
  <2>1. UNCHANGED pinned /\ (Throws("job") \/ Ends("job"))
    BY <1>6 DEF LeaveRelease
  <2>2. CASE UNCHANGED <<session, left>>
    BY <2>1, <2>2, SessionForms, JobTypes
  <2>3. CASE Disowned /\ left' = [left EXCEPT ![session.owner] = "done"]
    <3>1. SessionTyped
      BY <1>0, <2>1, <2>3 DEF SessionTyped, SessionRecord, Disowned, Ties
    <3> QED BY <2>1, <3>1, JobTypes
  <2> QED BY <1>6, <2>2, <2>3 DEF LeaveRelease
<1>7. CASE Resolve
  <2>0. UNCHANGED <<session, left>> /\ pc["job"] = "resolve" /\ pc["job"] \in Going
    BY <1>7 DEF Resolve, Going
  <2>1. CASE UNCHANGED pinned /\ Throws("job")
    BY <2>0, <2>1, SessionForms, JobTypes
  <2>2. CASE Ready
    <3>1. SessionTyped
      BY <1>0, <2>0, <2>2 DEF SessionTyped, Ready, Ties, Going
    <3>2. UNCHANGED job /\ \E where \in {"evidence", "available"} : Goto("job", where)
      BY <2>2 DEF Ready
    <3>3. {"evidence", "available"} \subseteq Going \union {"evidence"}
      BY DEF Going
    <3> QED BY <1>0, <1>2, <2>0, <3>1, <3>2, <3>3
  <2>3. CASE UNCHANGED <<pinned, job>> /\ Goto("job", "rStatus")
    BY <1>0, <1>2, <2>0, <2>3, SessionForms DEF Going
  <2> QED BY <1>7, <2>1, <2>2, <2>3 DEF Resolve
<1>8. CASE ResolveStatus
  <2>0. UNCHANGED <<session, pinned, left>> /\ pc["job"] \in Going /\ SessionTyped
    BY <1>8, SessionForms DEF ResolveStatus, Going
  <2>1. Throws("job") \/ (Goto("job", "resolve") /\ UNCHANGED job)
    BY <1>8 DEF ResolveStatus
  <2> QED BY <1>0, <1>2, <2>0, <2>1, JobTypes DEF Going
<1>9. ASSUME NEW here \in Going, NEW next \in Going, Polls(here, next) PROVE BridgeTyped'
  <2>0. UNCHANGED <<session, pinned, left>> /\ pc["job"] \in Going /\ SessionTyped
    BY <1>9, SessionForms DEF Polls
  <2>1. Throws("job") \/ (Goto("job", next) /\ UNCHANGED job)
    BY <1>9 DEF Polls
  <2> QED BY <1>0, <1>2, <2>0, <2>1, JobTypes
<1>10. ASSUME NEW here \in Going, NEW next \in Going, Mutates(here, next) PROVE BridgeTyped'
  <2>0. UNCHANGED <<pinned, left>> /\ pc["job"] \in Going /\ SessionTyped
    BY <1>10, SessionForms DEF Mutates
  <2>1. CASE Throws("job")
    BY <2>0, <2>1, JobTypes
  <2>2. CASE job' = [job EXCEPT !.scenario = (here = "scenario")] /\ Goto("job", next)
    <3>1. job' \in JobRecord /\ job'.proc = job.proc
      BY <1>0, <2>2 DEF JobRecord
    <3> QED BY <1>2, <2>0, <2>2, <3>1
  <2>3. CASE job' = [job EXCEPT !.failing = TRUE, !.lost = TRUE] /\ Goto("job", "enrich")
    <3>1. job' \in JobRecord
      BY <1>0, <2>3 DEF JobRecord
    <3>2. "enrich" \in Places /\ "enrich" \notin Going /\ "enrich" \notin Asking
      BY DEF Places, Going, Asking
    <3> QED BY <2>0, <2>3, <3>1, <3>2, JobTypes
  <2> QED BY <1>10, <2>1, <2>2, <2>3 DEF Mutates
<1>11. CASE \/ Polls("available", "load") \/ Mutates("load", "waitLoad")
            \/ Polls("waitLoad", "scenario") \/ Mutates("scenario", "waitScenario")
  BY <1>9, <1>10, <1>11 DEF Going
<1>12. ASSUME UNCHANGED <<session, pinned>>, FinishJob PROVE BridgeTyped'
  <2>1. left' \in [Games -> {"no", "asked", "done"}]
    BY <1>0, <1>12 DEF FinishJob
  <2>2. SessionTyped
    BY <1>0, <1>12, <2>1 DEF SessionTyped, Ties
  <2>3. Ends("job") \/ (UNCHANGED job /\ \E where \in {"cStatus", "lRelease"} : Goto("job", where))
    BY <1>12 DEF FinishJob, LetsGo
  <2> QED BY <1>1, <1>3, <2>2, <2>3, JobTypes
<1>13. CASE WaitForScenario \/ Caught \/ ScenarioCancelled
  <2>0. UNCHANGED <<session, pinned>>
    BY <1>13 DEF WaitForScenario, Caught, ScenarioCancelled
  <2>1. CASE FinishJob
    BY <1>12, <2>0, <2>1
  <2>2. CASE UNCHANGED left /\ (Throws("job") \/ Ends("job"))
    BY <2>0, <2>2, SessionForms, JobTypes
  <2>3. CASE UNCHANGED <<job, left>> /\ Goto("job", "cancel")
    BY <1>1, <1>3, <2>0, <2>3, SessionForms
  <2>4. CASE pc["job"] = "cancel" /\ job' = [job EXCEPT !.lost = TRUE] /\ UNCHANGED <<pc, left>>
    <3>1. job' \in JobRecord /\ job'.proc = job.proc
      BY <1>0, <2>4 DEF JobRecord
    <3>2. SessionTyped /\ pc' \in [Callers -> Places]
      BY <2>0, <2>4, SessionForms DEF BridgeTyped
    <3> QED BY <2>0, <2>4, <3>1, <3>2, OthersTyped
  <2>5. /\ WaitForScenario => FinishJob \/ (UNCHANGED left /\ Throws("job"))
        /\ Caught => \/ FinishJob \/ (UNCHANGED left /\ Ends("job"))
                     \/ UNCHANGED <<job, left>> /\ Goto("job", "cancel")
        /\ ScenarioCancelled =>
              \/ FinishJob
              \/ pc["job"] = "cancel" /\ job' = [job EXCEPT !.lost = TRUE] /\ UNCHANGED <<pc, left>>
    BY DEF WaitForScenario, Caught, ScenarioCancelled
  <2> QED BY <1>13, <2>1, <2>2, <2>3, <2>4, <2>5
<1>14. CASE Evidence
  <2>1. SessionTyped /\ job' = NoJob /\ Goto("job", "idle")
    BY <1>14, SessionForms DEF Evidence
  <2>2. /\ NoJob \in JobRecord /\ "idle" \in Places /\ "idle" \notin Going /\ "idle" \notin Asking
    BY DEF NoJob, JobRecord, Places, Going, Asking
  <2> QED BY <2>1, <2>2, JobTypes
<1> QED BY <1>4, <1>5, <1>6, <1>7, <1>8, <1>11, <1>13, <1>14 DEF JobStep

\* The other workflows, and what is no step of the bridge at all.
LEMMA BridgeKeepsTypes ==
  ASSUME BridgeTyped, Mailed, [Next]_vars
  PROVE  BridgeTyped'
<1> USE DEF Asks, Opens
<1>0. /\ session \in SessionRecord /\ job \in JobRecord /\ Ties /\ pc \in [Callers -> Places]
      /\ pinned \in Games \union {NoGame} /\ left \in [Games -> {"no", "asked", "done"}]
      /\ Callers = {"job", "stop", "shutdown"} /\ Awaits \subseteq Places
  BY SessionAssumption DEF BridgeTyped, Places
<1>1. CASE JobStep
  BY <1>1, JobTyped
<1>2. ASSUME NEW c \in {"stop", "shutdown"}, NEW where \in Places, Goto(c, where), UNCHANGED job,
             SessionTyped, session'.owner = session.owner
      PROVE  BridgeTyped'
  <2>1. pc' \in [Callers -> Places] /\ pc'["job"] = pc["job"]
    BY <1>0, <1>2 DEF Goto
  <2> QED BY <1>0, <1>2, <2>1, OthersTyped
<1>3. CASE Cleanup("stop")
  <2>1. /\ UNCHANGED <<pinned, left>> /\ (UNCHANGED session \/ Disowned)
        /\ \/ Throws("stop") \/ Ends("stop")
           \/ UNCHANGED job /\ \E where \in {"cClose", "cTerminate", "cRelease"} : Goto("stop", where)
    BY <1>3 DEF Cleanup, CleanupStatus, CleanupClose, CleanupTerminate, CleanupRelease
  <2>2. UNCHANGED job /\ \E where \in {"cClose", "cTerminate", "cRelease", "idle"} : Goto("stop", where)
    BY <2>1 DEF Throws, Ends
  <2>3. {"cClose", "cTerminate", "cRelease", "idle"} \subseteq Places
    BY DEF Places, Awaits
  <2>4. SessionTyped /\ session'.owner = session.owner
    BY <1>0, <2>1, SessionForms DEF Disowned, SessionRecord
  <2> QED BY <1>2, <2>2, <2>3, <2>4
<1>4. ASSUME NEW r \in Requests, CreateJob(r[1], r[2], r[3])
      PROVE  BridgeTyped'
  <2>1. r[1] \in {"start", "run"} /\ r[2] \in {"stop", "leave"} /\ r[3] \in BOOLEAN /\ MaxJobs \in Nat
    BY SessionAssumption
  <2>2. job' \in JobRecord
    BY <1>4, <2>1 DEF CreateJob, NoJob, JobRecord
  <2>3. session.jobs \in 0..MaxJobs /\ session.jobs < MaxJobs /\ session' = [session EXCEPT !.jobs = @ + 1]
    BY <1>0, <1>4 DEF CreateJob, SessionRecord
  <2>4. session.jobs + 1 \in 0..MaxJobs
    BY <2>1, <2>3
  <2>5. SessionTyped
    BY <1>0, <1>4, <2>3, <2>4 DEF SessionTyped, SessionRecord, CreateJob, Ties
  <2>6. /\ "begin" \in Places /\ "begin" \notin Going /\ "begin" \notin Asking
    BY DEF Places, Going, Asking
  <2> QED BY <1>4, <2>2, <2>5, <2>6, JobTypes DEF CreateJob
<1>5. ASSUME NEW force \in StopForces, Stop(force) PROVE BridgeTyped'
  <2>1. session' = [session EXCEPT !.force = force] /\ force \in BOOLEAN
    BY <1>5, SessionAssumption DEF Stop
  <2>2. SessionTyped /\ session'.owner = session.owner
    BY <1>0, <1>5, <2>1 DEF SessionTyped, SessionRecord, Stop, Ties
  <2>3. "cStatus" \in Places
    BY DEF Places, Awaits
  <2> QED BY <1>2, <1>5, <2>2, <2>3 DEF Stop
<1>6. ASSUME UNCHANGED <<session, pc, pinned, left>>, pc["job"] # "idle",
             \/ job' = [job EXCEPT !.late = TRUE]
             \/ job' = [job EXCEPT !.abort = TRUE]
      PROVE  BridgeTyped'
  <2>1. job' \in JobRecord /\ job'.proc = job.proc
    BY <1>0, <1>6 DEF JobRecord
  <2>2. SessionTyped
    BY <1>6, SessionForms
  <2> QED BY <1>0, <1>6, <2>1, <2>2, OthersTyped
<1>7. CASE StartupExpires \/ CancelJob
  BY <1>6, <1>7 DEF StartupExpires, CancelJob
<1>8. CASE Shutdown
  <2>1. session' = [session EXCEPT !.shutting = TRUE, !.released = TRUE]
    BY <1>8 DEF Shutdown
  <2>2. SessionTyped /\ session'.owner = session.owner
    BY <1>0, <1>8, <2>1 DEF SessionTyped, SessionRecord, Shutdown, Ties
  <2>3. \E where \in {"release", "done"} : Goto("shutdown", where)
    BY <1>8 DEF Shutdown
  <2>4. pc' \in [Callers -> Places] /\ pc'["job"] = pc["job"]
    BY <1>0, <2>3 DEF Goto, Places, Awaits
  <2>5. job' \in JobRecord /\ job'.proc = job.proc /\ (pc["job"] = "idle" => job' = job)
    BY <1>0, <1>8 DEF Shutdown, JobRecord
  <2> QED BY <2>2, <2>4, <2>5, OthersTyped
<1>9. CASE ShutdownStep
  <2>1. SessionTyped /\ session'.owner = session.owner /\ "done" \in Places
    BY <1>9, SessionForms DEF ShutdownStep, Places
  <2> QED BY <1>2, <1>9, <2>1 DEF ShutdownStep
<1>10. CASE UNCHANGED <<session, job, pc, pinned, left>>
  <2>1. SessionTyped /\ pc' \in [Callers -> Places]
    BY <1>0, <1>10, SessionForms
  <2> QED BY <1>0, <1>10, <2>1, OthersTyped
<1>11. \/ HelperStep \/ Environment \/ (\E c \in Callers : TimesOut(c)) \/ UNCHANGED vars
       => UNCHANGED <<session, job, pc, pinned, left>>
  BY DEF HelperStep, Environment, TimesOut, Bridge, vars
<1> QED BY <1>1, <1>3, <1>4, <1>5, <1>7, <1>8, <1>9, <1>10, <1>11 DEF Next

\* Each answer, each game and each record is of its kind, and a job has a game
\* wherever it looks at one, whatever the helper has answered before it died
\* (SessionController's runJob, whose process is the one it resolved).
THEOREM TypeCorrect == Spec => []TypeOK
<1>1. Init => TypeInv
  <2> SUFFICES ASSUME Init PROVE TypeInv
    OBVIOUS
  <2>1. Mailed /\ Machined
    <3>1. inbox = <<>> /\ outbox = <<>>
      BY DEF Init, HelperInit
    <3>2. Machined
      BY DEF Init, HelperInit, Machined, HelperRecord
    <3> QED BY <3>1, <3>2 DEF Mailed
  <2>2. pc = [c \in Callers |-> "idle"] /\ job = NoJob /\ pc["job"] = "idle"
    BY SessionAssumption DEF Init
  <2>3. Ties
    BY <2>2 DEF Ties, Going, Asking, Init
  <2>4. session \in SessionRecord
    BY SessionAssumption DEF Init, SessionRecord
  <2>5. job \in JobRecord /\ pc \in [Callers -> Places]
    BY <2>2 DEF NoJob, JobRecord, Places
  <2> QED BY <2>1, <2>3, <2>4, <2>5 DEF TypeInv, BridgeTyped, Init
<1>2. TypeInv /\ [Next]_vars => TypeInv'
  BY BridgeKeepsTypes, MachineTyped DEF TypeInv
<1>3. TypeInv => TypeOK
  <2> SUFFICES ASSUME TypeInv PROVE TypeOK
    OBVIOUS
  <2>1. HelperTypeOK
    BY TruthfulAnswers DEF TypeInv, Mailed, Machined, HelperTypeOK, HelperRecord, Requested, Answered
  <2>2. Ties /\ BridgeTyped
    BY DEF TypeInv, BridgeTyped
  <2> QED BY <2>1, <2>2 DEF TypeOK, BridgeTyped, SessionRecord, JobRecord, Ties, Going
<1>4. Spec => Init /\ [][Next]_vars
  BY DEF Spec
<1> QED BY <1>1, <1>2, <1>3, <1>4, PTL

=============================================================================
