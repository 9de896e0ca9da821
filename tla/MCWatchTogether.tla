------------------------------- MODULE MCWatchTogether -------------------------------
(* Small instances of WatchTogether for TLC. *)
EXTENDS WatchTogether, TLC

CONSTANTS host, viewer, h1

\* Every socket but h1 is the viewer's.
MCUserOf == [s \in Sockets |-> IF s = h1 THEN host ELSE viewer]
=============================================================================
