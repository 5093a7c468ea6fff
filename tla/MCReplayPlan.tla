---------------------------- MODULE MCReplayPlan ----------------------------
(***************************************************************************)
(* Short recordings, replayed with and without a restoration of the scene. *)
(***************************************************************************)
EXTENDS ReplayPlan

MCEvents == [kind : {"save", "cell", "console"}, at : 0..2]
MCRecordings == [samples : {<<0, 2>>}, activity : {<<>>} \union {<<e>> : e \in MCEvents},
                 checkpoints : {<<>>, <<1>>}, tracked : {0, 4}]
=============================================================================
