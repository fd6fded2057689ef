----------------------------- MODULE MCSloSearch -----------------------------
(* An instance of SloSearch for TLC: both methods, every start and limit up *)
(* to 16 and step up to 6, and services that may pass up to 20.             *)
EXTENDS SloSearch

MCMethods         == {"binary", "stopN"}
MCInitConcurrents == 1 .. 16
MCMaxConcurrents  == 0 .. 16
MCStopNs          == 1 .. 6
=============================================================================
