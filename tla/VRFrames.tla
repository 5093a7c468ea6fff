------------------------------ MODULE VRFrames ------------------------------
(***************************************************************************)
(* What a sequence of tracked-set frames must be to be played.             *)
(***************************************************************************)
EXTENDS Integers, Sequences, FiniteSets

\* ParseVRTrackedInputFrames: from time 0 on, ever later, of one origin, with
\* three devices that keep their indices.
Valid(f) ==
    /\ f # <<>> /\ f[1].at = 0
    /\ \A i \in DOMAIN f :
        /\ f[i].hmd = 0 /\ Cardinality({0, f[i].left, f[i].right}) = 3 /\ f[i].seq > 0
        /\ f[i].left = f[1].left /\ f[i].right = f[1].right /\ f[i].origin = f[1].origin
    /\ \A i \in 2..Len(f) : f[i].at > f[i - 1].at /\ f[i].seq > f[i - 1].seq
=============================================================================
