---------------------------- MODULE MCVerifyRun -----------------------------
(* A small instance of VerifyRun for TLC. *)
EXTENDS VerifyRun, TLC

(* A person gives up on a task in verify. *)
MCGiveUp == {<<"verify", "failed">>}

(* A check that prints nothing, one that misses a threshold, and one that
   prints a line Record refuses. *)
MCOutputs == {<<>>, <<"missed">>, <<"badname">>}
=============================================================================
