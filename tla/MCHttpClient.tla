---------------------------- MODULE MCHttpClient ----------------------------
(* HttpClient for TLC: a few tasks and a window of a few ticks. All values   *)
(* are in the configuration; tasks are not taken as symmetric, since a       *)
(* liveness property tells them apart.                                       *)
EXTENDS HttpClient
=============================================================================
