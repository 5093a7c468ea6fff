----------------------------- MODULE MCSession -----------------------------
(* Session on two games: the one that a job starts first, and the one that  *)
(* a second job may start after it.                                         *)
EXTENDS Session

MCCallers == {"job", "stop", "shutdown"}

\* start, which never forces; run with each finish.
MCRequests == {<<"start", "stop", FALSE>>, <<"run", "stop", TRUE>>, <<"run", "leave", FALSE>>}
=============================================================================
