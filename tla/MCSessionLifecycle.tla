------------------------- MODULE MCSessionLifecycle -------------------------
(* Instance of SessionLifecycle for TLC.                                   *)
EXTENDS SessionLifecycle

CONSTANTS s1, s2, c1

TwoSessions == {s1, s2}
OneCounter  == {c1}

NoStatus == [s \in Sessions |-> [state |-> "Unknown", hb |-> FALSE]]
NoQuick  == [s \in Sessions |-> "unknown"]

Looks(p) == probe[p] # NoProbe \/ IF p = "scope" THEN status # NoStatus ELSE quick # NoQuick

\* Time passes for one session that writes no log, and one of the two programs looks at it; or ...
Timing ==
  /\ phase[s2] = "absent" /\ \A t \in Tools : tool[t] = Idle
  /\ <<s1, "log">> \notin DOMAIN newest /\ \A i \in DOMAIN queue[s1] : queue[s1][i].topic # "log"
  /\ \E p \in Probers : ~Looks(p)

\* ... the tools are at work on two sessions, the second of which has only a control topic,
\* before the first heartbeat and with a broker that answers; their programs crash.
Deleting ==
  /\ \E t \in Tools : tool[t] # Idle
  /\ ~late /\ \A p \in Probers : ~Looks(p)
  /\ \A k \in DOMAIN newest : newest[k].age = 0
  /\ \A s \in Sessions :
       /\ phase[s] \in {"absent", "running", "died"} /\ hb[s].at \in {"sleep", "none"}
       /\ \A i \in DOMAIN queue[s] : queue[s][i].age = 0
  /\ registered[s2] = {} /\ queue[s2] = << >> /\ (phase[s2] # "absent" => registered[s1] # {})
  /\ tool["scope"].at # "channel" /\ spoilt = {}

Bounded == Timing \/ Deleting

MCNext == Next /\ Bounded'

Fairness ==
  /\ \A s \in Sessions :
       /\ WF_vars(HeartbeatWakes(s) /\ Bounded') /\ WF_vars(Beat(s) /\ Bounded')
       /\ WF_vars(StopHeartbeat(s) /\ Bounded') /\ WF_vars(SayGoodbye(s) /\ Bounded')
       /\ WF_vars(DestroyProducer(s) /\ Bounded') /\ WF_vars(Deliver(s) /\ Bounded')
  /\ WF_vars(BrokerBack /\ Bounded') /\ WF_vars(Tick /\ Bounded')
  /\ \A p \in Probers : \A s \in Sessions : WF_vars(BeginProbe(p, s) /\ Bounded')
  /\ \A p \in Probers : WF_vars(QueryWatermark(p) /\ Bounded') /\ WF_vars(ReadFails(p) /\ Bounded')
  /\ WF_vars(ReadHeartbeat /\ Bounded') /\ WF_vars(DataRecency /\ Bounded') /\ WF_vars(QuickCheckLiveness /\ Bounded')

MCSpec == Init /\ [][MCNext]_vars /\ Fairness

=============================================================================
