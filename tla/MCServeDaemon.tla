----------------------------- MODULE MCServeDaemon -----------------------------
(* One command at a time, and two daemons in the life of the system.        *)
EXTENDS ServeDaemon

CONSTANTS c1, d1, d2
================================================================================
