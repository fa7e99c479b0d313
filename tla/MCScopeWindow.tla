---------------------------- MODULE MCScopeWindow ----------------------------
(* Instances of ScopeWindow for TLC.                                       *)
EXTENDS ScopeWindow

CONSTANTS a, b

NoCounter   == {}
OneCounter  == {a}
TwoCounters == {a, b}

\* Samples, log records and reinitialisations with at most one command, or more commands and
\* one reinitialisation without samples.
Reads    == Len(ctl) + Len(sent) <= 1
Commands == produced = [c \in Counters |-> 0] /\ logged = 0 /\ updates <= 1

MCSpec == Init /\ [][Next /\ (Reads \/ Commands)']_vars /\ Fairness

=============================================================================
