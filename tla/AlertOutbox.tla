----------------------------- MODULE AlertOutbox -----------------------------
(***************************************************************************)
(* What the alert forwarder promises, without threads, groups, windows or  *)
(* retries: an accepted alert waits under its key until it is delivered or *)
(* lost, never both and never twice, and what is delivered from a key is   *)
(* always the oldest of what waits there.  AlertForward implements it.     *)
(***************************************************************************)
EXTENDS Integers

CONSTANT Keys

VARIABLES
    accepted,   \* how many alerts have been accepted
    waiting,    \* per key, the alerts that wait
    delivered,  \* the alerts delivered
    lost        \* the alerts given up or lost

vars == <<accepted, waiting, delivered, lost>>

Init ==
    /\ accepted  = 0
    /\ waiting   = [k \in Keys |-> {}]
    /\ delivered = {}
    /\ lost      = {}

Accept(k) ==
    /\ accepted' = accepted + 1
    /\ waiting'  = [waiting EXCEPT ![k] = @ \cup {accepted + 1}]
    /\ UNCHANGED <<delivered, lost>>

\* S holds the oldest alerts of T.
OldestOf(S, T) ==
    /\ S \subseteq T
    /\ \A s \in S, t \in T \ S : s < t

Deliver(k, S) ==
    /\ OldestOf(S, waiting[k])
    /\ waiting'   = [waiting EXCEPT ![k] = @ \ S]
    /\ delivered' = delivered \cup S
    /\ UNCHANGED <<accepted, lost>>

Lose(k, S) ==
    /\ S \subseteq waiting[k]
    /\ waiting' = [waiting EXCEPT ![k] = @ \ S]
    /\ lost'    = lost \cup S
    /\ UNCHANGED <<accepted, delivered>>

LoseAll ==
    /\ waiting' = [k \in Keys |-> {}]
    /\ lost'    = lost \cup UNION {waiting[k] : k \in Keys}
    /\ UNCHANGED <<accepted, delivered>>

Next ==
    \/ \E k \in Keys : Accept(k)
    \/ \E k \in Keys : \E S \in SUBSET waiting[k] : Deliver(k, S) \/ Lose(k, S)
    \/ LoseAll

Spec == Init /\ [][Next]_vars
=============================================================================
