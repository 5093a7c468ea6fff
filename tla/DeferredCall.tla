---------------------------- MODULE DeferredCall ----------------------------
(***************************************************************************)
(* What every tool call that is marshalled to the game's main thread       *)
(* promises its caller, whatever protocol carries it: the answer is given  *)
(* once, it tells the truth about the body, and a body that has not        *)
(* started when its caller is answered never starts.  The last point is    *)
(* what makes the "did not start" answer safe to retry.                    *)
(***************************************************************************)
CONSTANT Calls

VARIABLES
    body,   \* body[c]: what the main thread did of c's function
    reply   \* reply[c]: what c's caller was told

vars == <<body, reply>>

BodyStates == {"none", "running", "done"}

(***************************************************************************)
(*   result      the function's value, or the exception it threw           *)
(*   notStarted  504, revoked before it started                            *)
(*   uncertain   504, started and may still complete                       *)
(*   dropped     the null result of a caller that stopped waiting          *)
(*   refused     500 or 503, never queued                                  *)
(***************************************************************************)
Answers == {"result", "notStarted", "uncertain", "dropped", "refused"}

TypeOK == /\ body \in [Calls -> BodyStates]
          /\ reply \in [Calls -> Answers \union {"none"}]

Init == /\ body = [c \in Calls |-> "none"]
        /\ reply = [c \in Calls |-> "none"]

Start(c) == /\ body[c] = "none"
            /\ reply[c] = "none"
            /\ body' = [body EXCEPT ![c] = "running"]
            /\ UNCHANGED reply

Finish(c) == /\ body[c] = "running"
             /\ body' = [body EXCEPT ![c] = "done"]
             /\ UNCHANGED reply

\* The answers that are true of a call whose body is in state b.
Truthful(b) == CASE b = "none"    -> {"notStarted", "dropped", "refused"}
                 [] b = "running" -> {"uncertain", "dropped"}
                 [] b = "done"    -> {"result", "uncertain", "dropped"}

Answer(c) == /\ reply[c] = "none"
             /\ \E a \in Truthful(body[c]) : reply' = [reply EXCEPT ![c] = a]
             /\ UNCHANGED body

Next == \E c \in Calls : Start(c) \/ Finish(c) \/ Answer(c)

Spec == Init /\ [][Next]_vars
=============================================================================
