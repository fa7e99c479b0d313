---------------------------- MODULE MCZoomBridge ----------------------------
(* Instances of ZoomBridge for TLC.                                        *)
EXTENDS ZoomBridge

CONSTANTS s1, s2, c1

TwoSessions == {s1, s2}
OneClient   == {c1}
SomeFeeds   == {"nav", "att", "mot"}

\* s1 is a recording with two navigation frames; s2 may be live
Recordings == [s \in Sessions |-> [f \in Feeds |->
                 IF s = s1 THEN [nav |-> 2, att |-> 1, mot |-> 0][f] ELSE [nav |-> 1, att |-> 0, mot |-> 1][f]]]
Scan       == {{s1, s2}}
Between    == {0, 3}

\* the scan comes before the first command; s2 goes on while it is read
MCInit  == InitWith(Recordings) /\ alive = {s2}
MCNext  == Next /\ (scans' # scans => commands = 0) /\ (topicVars' # topicVars => reader.session = s2)
MCSpec  == MCInit /\ [][MCNext]_vars /\ Fairness

=============================================================================
