--------------------------- MODULE MCAlertForward ---------------------------
(* Instances of AlertForward for TLC.                                      *)
EXTENDS AlertCards, TLC

CONSTANTS hook, none, cpu

Firing(n)   == [name |-> n, status |-> "firing"]
Resolved(n) == [name |-> n, status |-> "resolved"]
Unknown(n)  == [name |-> n, status |-> "unknown"]
Broken(n)   == [name |-> n, status |-> "malformed"]

Post(alerts)        == [webhook |-> hook, alerts |-> alerts]
PostDefault(alerts) == [webhook |-> none, alerts |-> alerts]

\* Alerts of one key, to make groups of several cards; and the requests and
\* alerts that the handler passes over.
CardRequests == {Post(<<Firing(cpu), Firing(cpu)>>),
                 Post(<<Unknown(cpu), Firing(cpu)>>),
                 Post(<<>>)}

\* Firing and resolved alerts of one name, and a request that is cut short.
MixedRequests == {Post(<<Firing(cpu), Resolved(cpu)>>),
                  PostDefault(<<Resolved(cpu), Broken(cpu)>>)}

SingleRequests == {Post(<<Firing(cpu)>>), Post(<<Resolved(cpu)>>)}

HandlerSymmetry == Permutations(Handlers)

\* The arrival numbers that the requests of a run can reach.
EveryAlertEndsMC == \A t \in 1 .. 2 * MaxRequests : EveryAlertEnds(t)
=============================================================================
