-------------------------- MODULE MCKeyboardInput ---------------------------
(* One key and two owners: a sequence that presses and releases it, against *)
(* a plain hold or a releaseAll.                                            *)
EXTENDS KeyboardInput
CONSTANTS k1, c1, c2

MCOwner == [c \in {c1, c2} |-> IF c = c1 THEN "left" ELSE "right"]
MCCalls == [c \in {c1, c2} |->
               IF c = c1 THEN {<<Press(k1, TRUE, TRUE), Lift(k1)>>}
                         ELSE {<<Press(k1, FALSE, FALSE)>>, <<ReleaseAll>>}]
=============================================================================
