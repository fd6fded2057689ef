---------------------------- MODULE AlertForward ----------------------------
(***************************************************************************)
(* The alert forwarder k8s-yaml/observe/alert/app.py: Flask handler        *)
(* threads put the alerts that Alertmanager posts into an in-memory buffer *)
(* of groups, one group per (webhook, alertname, status); one daemon       *)
(* thread takes the groups whose window has elapsed out of the buffer and  *)
(* sends each to Feishu in cards of at most MAX_MERGE_COUNT alerts, with   *)
(* retries of a card and re-queueing of a group.                           *)
(*                                                                         *)
(* Data is abstracted.  An accepted alert is the number of its arrival     *)
(* (1, 2, ...), in the order in which the handlers took _buffer_lock, so   *)
(* the list group["alerts"], which only ever grows by append, is a set of  *)
(* arrival numbers read in increasing order.  A time stamp first_seen is   *)
(* the time elapsed since, cut off at DEBOUNCE_SECONDS: the code compares  *)
(* it with nothing else.  It is less than 0 if the clock, time.time(), has *)
(* been set back.  Cards, labels and logging are left out.                 *)
(***************************************************************************)
EXTENDS Integers, Sequences, FiniteSets

CONSTANTS
    Webhooks,                 \* the Feishu URLs
    NoWebhook,                \* what a request without a webhook carries
    WebhookUrl,               \* the configured default, webhook_url
    Names,                    \* the alertname labels
    Handlers,                 \* Flask's request threads
    Requests,                 \* the bodies Alertmanager posts
    DEBOUNCE_SECONDS,
    MAX_MERGE_COUNT,
    SEND_MAX_ATTEMPTS,
    SEND_REQUEUE_MAX_RETRIES,
    MaxRequests,              \* bound: how many requests are posted
    MaxDisturbances           \* bound: how often the pod is restarted or the
                              \* clock set back

Statuses == {"firing", "resolved"}
Keys     == Webhooks \X Names \X Statuses
NoKey    == <<>>

\* An alert of a request.  Any status but the two known ones is "unknown";
\* "malformed" is an alert whose handling raises (labels: null, say).
Alert == [name : Names, status : Statuses \cup {"unknown", "malformed"}]

ASSUME ConfigAssumption ==
    /\ WebhookUrl \in Webhooks
    /\ DEBOUNCE_SECONDS \in Nat
    /\ MAX_MERGE_COUNT \in Nat \ {0}
    /\ SEND_MAX_ATTEMPTS \in Nat \ {0}
    /\ SEND_REQUEUE_MAX_RETRIES \in Nat

ASSUME RequestAssumption ==
    /\ Requests \subseteq [webhook : Webhooks \cup {NoWebhook},
                           alerts  : Seq(Alert)]
    /\ MaxRequests \in Nat
    /\ MaxDisturbances \in Nat

VARIABLES
    buffer,     \* _alert_buffer; a key that is absent maps to NoGroup
    inserts,    \* how many keys were ever inserted: gives dict order
    handler,    \* the local state of receive_alert, per thread
    flight,     \* ready_groups of _flush_loop, less those dealt with
    flushPc,    \* where the flush thread is
    current,    \* the key of the group being dispatched, NoKey outside
    start,      \* start_index of the chunk being sent
    attempt,    \* the attempt of send_alert at that chunk
    allOk,      \* all_ok of _dispatch_group
    stamp,      \* the new first_seen of a group that is about to be put back
    received,   \* how many requests have been posted
    crashes,    \* how many restarts there have been
    setbacks,   \* by how many seconds the clock has been set back
    issued,     \* history: how many alerts have been buffered
    ledger      \* history: what became of each of them

handlerVars == <<handler, received>>
bufferVars  == <<buffer, inserts>>
chunkVars   == <<start, attempt, allOk, stamp>>
flushVars   == <<flight, flushPc, current, chunkVars>>
disturbances == <<crashes, setbacks>>
history     == <<issued, ledger>>
vars        == <<handlerVars, bufferVars, flushVars, disturbances, history>>

-----------------------------------------------------------------------------
(* Groups, and the ledger that follows every accepted alert.               *)

\* now - first_seen
Elapsed == {i \in Int : i <= DEBOUNCE_SECONDS}

Group == [slot    : Nat,         \* position in dict order
          waited  : Elapsed,
          since   : Nat,         \* history: inserts when first_seen was read
          alerts  : SUBSET Nat,
          retries : 0 .. SEND_REQUEUE_MAX_RETRIES]

NoGroup == [slot |-> 0, waited |-> 0, since |-> 0, alerts |-> {}, retries |-> 0]
NoStamp == [waited |-> 0, since |-> 0]

InBuffer == {k \in Keys : buffer[k].alerts # {}}
InFlight == {k \in Keys : flight[k].alerts # {}}
Held     == UNION {buffer[k].alerts \cup flight[k].alerts : k \in Keys}
Due      == {k \in InBuffer : buffer[k].waited = DEBOUNCE_SECONDS}

\* fate: where the alert is, or how it ended.  rounds: dispatches of a group
\* that held it.  posts: attempts to send a card that showed it.  carded: one
\* of these attempts succeeded.  acked: its request was answered 202.
Fates == {"queued", "sent", "dropped", "overwritten", "crashed"}
Entry == [fate : Fates, rounds : Nat, posts : Nat,
          carded : BOOLEAN, acked : BOOLEAN]
NewEntry == [fate |-> "queued", rounds |-> 0, posts |-> 0,
             carded |-> FALSE, acked |-> FALSE]

\* The ledger with f applied to the entries of the alerts in S.
Update(S, f(_)) ==
    [t \in 1 .. issued |-> IF t \in S THEN f(ledger[t]) ELSE ledger[t]]

Ended(S, fate) == LET end(e) == [e EXCEPT !.fate = fate] IN Update(S, end)

IdleHandler == [busy |-> FALSE, webhook |-> WebhookUrl,
                todo |-> <<>>, mine |-> {}]

Init ==
    /\ buffer   = [k \in Keys |-> NoGroup]
    /\ inserts  = 0
    /\ handler  = [h \in Handlers |-> IdleHandler]
    /\ flight   = [k \in Keys |-> NoGroup]
    /\ flushPc  = "scan"
    /\ current  = NoKey
    /\ start    = 0
    /\ attempt  = 1
    /\ allOk    = TRUE
    /\ stamp    = NoStamp
    /\ received = 0
    /\ crashes  = 0
    /\ setbacks = 0
    /\ issued   = 0
    /\ ledger   = [t \in 1 .. 0 |-> NewEntry]

-----------------------------------------------------------------------------
(* receive_alert, one step per acquisition of _buffer_lock.                *)

\* A request without alerts is answered 200 and changes nothing else.
ReceiveNothing(h, r) ==
    /\ ~handler[h].busy
    /\ received < MaxRequests
    /\ r.alerts = <<>>
    /\ received' = received + 1
    /\ UNCHANGED <<handler, bufferVars, flushVars, disturbances, history>>

\* The query string names the webhook, or the configured one is used.
ResolveWebhook(w) == IF w \in Webhooks THEN w ELSE WebhookUrl

ReceiveAlerts(h, r) ==
    /\ ~handler[h].busy
    /\ received < MaxRequests
    /\ r.alerts # <<>>
    /\ received' = received + 1
    /\ handler' = [handler EXCEPT ![h] =
                     [busy |-> TRUE, webhook |-> ResolveWebhook(r.webhook),
                      todo |-> r.alerts, mine |-> {}]]
    /\ UNCHANGED <<bufferVars, flushVars, disturbances, history>>

\* The handler is about to treat an alert of one of these statuses.
AtAlert(h, statuses) ==
    /\ handler[h].busy
    /\ handler[h].todo # <<>>
    /\ Head(handler[h].todo).status \in statuses

KeyOf(h) == <<handler[h].webhook, Head(handler[h].todo).name,
              Head(handler[h].todo).status>>

\* Under the lock: open the group of the alert's key if there is none, and
\* append the alert to it.
BufferAlert(h) ==
    LET k    == KeyOf(h)
        new  == issued + 1
        open == [slot |-> inserts + 1, waited |-> 0, since |-> inserts + 1,
                 alerts |-> {new}, retries |-> 0]
    IN  /\ AtAlert(h, Statuses)
        /\ \/ /\ k \notin InBuffer
              /\ buffer' = [buffer EXCEPT ![k] = open]
              /\ inserts' = inserts + 1
           \/ /\ k \in InBuffer
              /\ buffer' = [buffer EXCEPT ![k].alerts = @ \cup {new}]
              /\ UNCHANGED inserts
        /\ issued' = new
        /\ ledger' = [t \in 1 .. new |->
                        IF t = new THEN NewEntry ELSE ledger[t]]
        /\ handler' = [handler EXCEPT ![h].todo = Tail(@),
                                      ![h].mine = @ \cup {new}]
        /\ UNCHANGED <<received, flushVars, disturbances>>

SkipAlert(h) ==
    /\ AtAlert(h, {"unknown"})
    /\ handler' = [handler EXCEPT ![h].todo = Tail(@)]
    /\ UNCHANGED <<received, bufferVars, flushVars, disturbances, history>>

\* The except clause: 500.  What the loop has buffered stays buffered.
RejectRequest(h) ==
    /\ AtAlert(h, {"malformed"})
    /\ handler' = [handler EXCEPT ![h] = IdleHandler]
    /\ UNCHANGED <<received, bufferVars, flushVars, disturbances, history>>

\* 202: "accepted, n alert(s) queued for aggregation".
AcceptRequest(h) ==
    /\ handler[h].busy
    /\ handler[h].todo = <<>>
    /\ LET ack(e) == [e EXCEPT !.acked = TRUE]
       IN  ledger' = Update(handler[h].mine, ack)
    /\ handler' = [handler EXCEPT ![h] = IdleHandler]
    /\ UNCHANGED <<received, bufferVars, flushVars, disturbances, issued>>

HandlerStep(h) ==
    \/ BufferAlert(h)
    \/ SkipAlert(h)
    \/ RejectRequest(h)
    \/ AcceptRequest(h)

-----------------------------------------------------------------------------
(* _flush_loop, _dispatch_group and send_alert: the one daemon thread.     *)

\* The buffer without the groups that are due.  (Mutant: no del.)
UndeletedBuffer == buffer
RemainingBuffer == [k \in Keys |-> IF k \in Due THEN NoGroup ELSE buffer[k]]

\* Under the lock: every due group leaves the buffer.  A scan that finds
\* nothing due changes nothing.
ScanBuffer ==
    /\ flushPc = "scan"
    /\ Due # {}
    /\ flight' = [k \in Keys |-> IF k \in Due THEN buffer[k] ELSE NoGroup]
    /\ buffer' = RemainingBuffer
    /\ flushPc' = "next"
    /\ UNCHANGED <<inserts, current, chunkVars, handlerVars, disturbances, history>>

\* The next group of ready_groups, which is in dict order.
DispatchGroup(k) ==
    /\ flushPc = "next"
    /\ k \in InFlight
    /\ \A j \in InFlight : flight[k].slot <= flight[j].slot
    /\ current' = k
    /\ flushPc' = "send"
    /\ LET count(e) == [e EXCEPT !.rounds = @ + 1]
       IN  ledger' = Update(flight[k].alerts, count)
    /\ UNCHANGED <<flight, chunkVars, bufferVars, handlerVars, disturbances, issued>>

\* All of ready_groups is dealt with: sleep(1), and scan again.
EndOfRound ==
    /\ flushPc = "next"
    /\ InFlight = {}
    /\ flushPc' = "scan"
    /\ UNCHANGED <<flight, current, chunkVars, bufferVars, handlerVars,
                   disturbances, history>>

Alerts      == flight[current].alerts
Rank(t, S)  == Cardinality({u \in S : u <= t})
Chunk       == {t \in Alerts : start < Rank(t, Alerts)
                             /\ Rank(t, Alerts) <= start + MAX_MERGE_COUNT}
MoreChunks  == start + MAX_MERGE_COUNT < Cardinality(Alerts)

\* This chunk is done with; a group of one alert is a single chunk.
NextChunk ==
    /\ attempt' = 1
    /\ \/ /\ MoreChunks
          /\ start' = start + MAX_MERGE_COUNT
          /\ UNCHANGED flushPc
       \/ /\ ~MoreChunks
          /\ flushPc' = "settle"
          /\ UNCHANGED start

\* Mutant: all_ok is the result of the last chunk.
PostSucceedsAndForgets ==
    /\ flushPc = "send"
    /\ LET card(e) == [e EXCEPT !.posts = @ + 1, !.carded = TRUE]
       IN  ledger' = Update(Chunk, card)
    /\ NextChunk
    /\ allOk' = TRUE
    /\ UNCHANGED <<stamp, flight, current, bufferVars, handlerVars, disturbances, issued>>

\* requests.post and raise_for_status return normally.
PostSucceeds ==
    /\ flushPc = "send"
    /\ LET card(e) == [e EXCEPT !.posts = @ + 1, !.carded = TRUE]
       IN  ledger' = Update(Chunk, card)
    /\ NextChunk
    /\ UNCHANGED <<allOk, stamp, flight, current, bufferVars, handlerVars,
                   disturbances, issued>>

\* A RequestException: a refused connection, a timeout (Feishu may have
\* shown the card all the same), an HTTP error.  The last attempt gives the
\* chunk up, and the next chunk is sent regardless.
PostFails ==
    /\ flushPc = "send"
    /\ LET post(e) == [e EXCEPT !.posts = @ + 1]
       IN  ledger' = Update(Chunk, post)
    /\ \/ /\ attempt < SEND_MAX_ATTEMPTS
          /\ attempt' = attempt + 1
          /\ UNCHANGED <<start, allOk, flushPc>>
       \/ /\ attempt = SEND_MAX_ATTEMPTS
          /\ allOk' = FALSE
          /\ NextChunk
    /\ UNCHANGED <<stamp, flight, current, bufferVars, handlerVars, disturbances,
                   issued>>

\* Mutant: without the try, the exception ends the thread.
DispatchRaisesUncaught ==
    /\ flushPc = "send"
    /\ flushPc' = "dead"
    /\ UNCHANGED <<chunkVars, flight, current, bufferVars, handlerVars,
                   disturbances, history>>

\* Any other exception, from formatting a card (a severity that is not a
\* string, say) or from the HTTP library, ends the dispatch of the group.
DispatchRaises ==
    /\ flushPc = "send"
    /\ allOk' = FALSE
    /\ flushPc' = "settle"
    /\ UNCHANGED <<start, attempt, stamp, flight, current, bufferVars,
                   handlerVars, disturbances, history>>

\* The locals of a dispatch end with it.
EndOfDispatch ==
    /\ current' = NoKey
    /\ start' = 0
    /\ attempt' = 1
    /\ allOk' = TRUE
    /\ stamp' = NoStamp

\* Mutant: ready_groups is not emptied.
LeaveFlightListed ==
    /\ flushPc' = "next"
    /\ EndOfDispatch
    /\ UNCHANGED <<flight, handlerVars, disturbances, issued>>

LeaveFlight ==
    /\ flushPc' = "next"
    /\ flight' = [flight EXCEPT ![current] = NoGroup]
    /\ EndOfDispatch
    /\ UNCHANGED <<handlerVars, disturbances, issued>>

GroupSent ==
    /\ flushPc = "settle"
    /\ allOk
    /\ ledger' = Ended(Alerts, "sent")
    /\ LeaveFlight
    /\ UNCHANGED bufferVars

\* The group has been queued again often enough.  (Mutants: one time too
\* early, one time too late.)
ExhaustedEarly == flight[current].retries + 1 >= SEND_REQUEUE_MAX_RETRIES
ExhaustedLate  == flight[current].retries > SEND_REQUEUE_MAX_RETRIES
Exhausted      == flight[current].retries + 1 > SEND_REQUEUE_MAX_RETRIES

GroupDropped ==
    /\ flushPc = "settle"
    /\ ~allOk
    /\ Exhausted
    /\ ledger' = Ended(Alerts, "dropped")
    /\ LeaveFlight
    /\ UNCHANGED bufferVars

\* first_seen is set to the time that is read here, without the lock.
StampGroup ==
    /\ flushPc = "settle"
    /\ ~allOk
    /\ ~Exhausted
    /\ stamp' = [waited |-> 0, since |-> inserts]
    /\ flushPc' = "requeue"
    /\ UNCHANGED <<flight, current, start, attempt, allOk, bufferVars,
                   handlerVars, disturbances, history>>

\* The group with first_seen and requeue_retries set, in the place that the
\* dict gives it.  (Mutants: first_seen is kept; the count starts again; only
\* the alerts that were on no card are kept.)
RequeuedPlace   == IF current \in InBuffer THEN buffer[current].slot
                                           ELSE inserts + 1
RequeuedStale   == [flight[current] EXCEPT
                      !.slot = RequeuedPlace, !.since = stamp.since,
                      !.retries = @ + 1]
RequeuedAnew    == [flight[current] EXCEPT
                      !.slot = RequeuedPlace, !.waited = stamp.waited,
                      !.since = stamp.since, !.retries = 0]
RequeuedPartly  == [flight[current] EXCEPT
                      !.slot = RequeuedPlace, !.waited = stamp.waited,
                      !.since = stamp.since, !.retries = @ + 1,
                      !.alerts = {t \in @ : ~ledger[t].carded}]
RequeuedGroup   == [flight[current] EXCEPT
                      !.slot = RequeuedPlace, !.waited = stamp.waited,
                      !.since = stamp.since, !.retries = @ + 1]

\* Under the lock: _alert_buffer[key] = group.  A group that the handlers
\* opened for this key in the meantime is replaced; the key then keeps its
\* place in the dict.
GroupRequeued ==
    /\ flushPc = "requeue"
    /\ buffer' = [buffer EXCEPT ![current] = RequeuedGroup]
    /\ inserts' = IF current \in InBuffer THEN inserts ELSE inserts + 1
    /\ ledger' = Ended(buffer[current].alerts, "overwritten")
    /\ LeaveFlight

FlushStep ==
    \/ ScanBuffer
    \/ \E k \in Keys : DispatchGroup(k)
    \/ EndOfRound
    \/ PostSucceeds
    \/ PostFails
    \/ DispatchRaises
    \/ GroupSent
    \/ GroupDropped
    \/ StampGroup
    \/ GroupRequeued

-----------------------------------------------------------------------------
(* Time, restarts, and the whole system.                                   *)

Stamped == flushPc = "requeue"

\* A second passes for every group that is not due yet.
Tick ==
    /\ InBuffer # Due \/ (Stamped /\ stamp.waited < DEBOUNCE_SECONDS)
    /\ buffer' = [k \in Keys |->
                    IF k \in InBuffer \ Due
                    THEN [buffer[k] EXCEPT !.waited = @ + 1]
                    ELSE buffer[k]]
    /\ stamp' = IF Stamped /\ stamp.waited < DEBOUNCE_SECONDS
                THEN [stamp EXCEPT !.waited = @ + 1] ELSE stamp
    /\ UNCHANGED <<inserts, handlerVars, flight, flushPc, current, start,
                   attempt, allOk, disturbances, history>>

\* The clock is set back by a second.  A group that is due stays due if it was
\* so for longer.
SetClockBack ==
    /\ crashes + setbacks < MaxDisturbances
    /\ setbacks' = setbacks + 1
    /\ \E overdue \in SUBSET Due :
         buffer' = [k \in Keys |->
                      IF k \in InBuffer \ overdue
                      THEN [buffer[k] EXCEPT !.waited = @ - 1]
                      ELSE buffer[k]]
    /\ \/ Stamped /\ stamp' = [stamp EXCEPT !.waited = @ - 1]
       \/ Stamped /\ stamp.waited = DEBOUNCE_SECONDS /\ UNCHANGED stamp
       \/ ~Stamped /\ UNCHANGED stamp
    /\ UNCHANGED <<inserts, handlerVars, flight, flushPc, current, start,
                   attempt, allOk, crashes, history>>

\* The process ends and the Deployment starts it again: nothing is stored.
Crash ==
    /\ crashes + setbacks < MaxDisturbances
    /\ crashes' = crashes + 1
    /\ buffer'  = [k \in Keys |-> NoGroup]
    /\ flight'  = [k \in Keys |-> NoGroup]
    /\ handler' = [h \in Handlers |-> IdleHandler]
    /\ flushPc' = "scan"
    /\ ledger'  = Ended(Held, "crashed")
    /\ inserts' = 0
    /\ EndOfDispatch
    /\ UNCHANGED <<received, setbacks, issued>>

HandlerNext ==
    \E h \in Handlers :
        \/ \E r \in Requests : ReceiveNothing(h, r) \/ ReceiveAlerts(h, r)
        \/ HandlerStep(h)

Next == HandlerNext \/ FlushStep \/ Tick \/ SetClockBack \/ Crash

Spec == Init /\ [][Next]_vars

\* Threads are scheduled, requests.post has a timeout and time passes.
Fairness ==
    /\ \A h \in Handlers : WF_vars(HandlerStep(h))
    /\ WF_vars(FlushStep)
    /\ WF_vars(Tick)

FairSpec == Spec /\ Fairness

-----------------------------------------------------------------------------
(* Properties.                                                             *)

TypeOK ==
    /\ buffer   \in [Keys -> Group]
    /\ inserts  \in Nat
    /\ handler  \in [Handlers -> [busy : BOOLEAN, webhook : Webhooks,
                                  todo : Seq(Alert), mine : SUBSET Nat]]
    /\ flight   \in [Keys -> Group]
    /\ flushPc  \in {"scan", "next", "send", "settle", "requeue"}
    /\ current  \in Keys \cup {NoKey}
    /\ start    \in Nat
    /\ attempt  \in 1 .. SEND_MAX_ATTEMPTS
    /\ allOk    \in BOOLEAN
    /\ stamp    \in [waited : Elapsed, since : Nat]
    /\ received \in 0 .. MaxRequests
    /\ crashes  \in Nat
    /\ setbacks \in Nat
    /\ crashes + setbacks <= MaxDisturbances
    /\ issued   \in Nat
    /\ ledger   \in [1 .. issued -> Entry]

Fate(t) == ledger[t].fate

\* An alert that a handler has buffered is in exactly one group, of the
\* buffer or in flight, until its fate is recorded; no group holds an alert
\* whose fate is sealed, and no two groups hold the same alert.
Conservation ==
    /\ \A k \in Keys : buffer[k].alerts \cap flight[k].alerts = {}
    /\ \A j, k \in Keys : j # k =>
         (buffer[j].alerts \cup flight[j].alerts)
           \cap (buffer[k].alerts \cup flight[k].alerts) = {}
    /\ Held = {t \in 1 .. issued : Fate(t) = "queued"}

\* A group counts as sent only if every one of its alerts was on a card that
\* Feishu took: a failed chunk is not forgotten when later chunks succeed.
SentWasCarded ==
    \A t \in 1 .. issued : Fate(t) = "sent" => ledger[t].carded

\* However failures, arrivals and re-queueing interleave, an alert takes part
\* in at most SEND_REQUEUE_MAX_RETRIES + 1 dispatches, each of which posts it
\* at most SEND_MAX_ATTEMPTS times: this bounds the duplicate cards.
PostsBounded ==
    \A t \in 1 .. issued :
        /\ ledger[t].rounds <= SEND_REQUEUE_MAX_RETRIES + 1
        /\ ledger[t].posts  <= ledger[t].rounds * SEND_MAX_ATTEMPTS

\* While a group is being sent, whatever waits in the buffer under the same
\* key arrived later: alerts of a key are sent in the order of arrival.
FlightIsOlder ==
    \A k \in Keys : \A t \in flight[k].alerts, u \in buffer[k].alerts : t < u

\* Groups that are due are sent in dict order.  As long as the clock is not
\* set back and no re-queued group replaces another, that is oldest window
\* first with one exception, a re-queued group: it comes after the groups that
\* were opened between the reading of its new first_seen and its insertion.
OldestWindowFirst ==
    setbacks = 0 /\ (\A t \in 1 .. issued : Fate(t) # "overwritten") =>
        \A j, k \in InBuffer :
            buffer[j].slot < buffer[k].slot /\ buffer[j].slot <= buffer[k].since
                => buffer[j].waited >= buffer[k].waited

\* Alerts merged into one group have one fate: they are all dispatched,
\* re-queued, sent, dropped, overwritten or lost together.
GroupStaysWhole ==
    [][\A k \in Keys :
        \A S \in {buffer[k].alerts, flight[k].alerts} \ {{}} :
            \/ S \subseteq buffer'[k].alerts
            \/ S \subseteq flight'[k].alerts
            \/ \E f \in Fates \ {"queued"} : \A t \in S : ledger'[t].fate = f]_vars

\* A group is given up only when its oldest alert has been dispatched
\* SEND_REQUEUE_MAX_RETRIES + 1 times.  (Alerts that joined it after it was
\* re-queued are given up with it after fewer dispatches.)
DropsAreExhausted ==
    [][\A t \in 1 .. issued :
        Fate(t) = "queued" /\ ledger'[t].fate = "dropped" =>
            \E u \in 1 .. t :
                /\ ledger[u].rounds = SEND_REQUEUE_MAX_RETRIES + 1
                /\ Fate(u) = "queued" /\ ledger'[u].fate = "dropped"]_vars

\* What the outbox sees of the forwarder.
Waiting   == [k \in Keys |-> buffer[k].alerts \cup flight[k].alerts]
Delivered == {t \in 1 .. issued : Fate(t) = "sent"}
Lost      == {t \in 1 .. issued : Fate(t) \in {"dropped", "overwritten", "crashed"}}

Outbox == INSTANCE AlertOutbox WITH
    accepted <- issued, waiting <- Waiting, delivered <- Delivered, lost <- Lost

\* The forwarder implements the outbox: what is delivered under a key is the
\* oldest that waits there, and an alert ends once.
ImplementsOutbox == Outbox!Spec

\* Every buffered alert ends: no stream of arrivals, failures or re-queued
\* groups keeps an alert in the forwarder for ever.
EveryAlertEnds(t) == (t <= issued) ~> (t <= issued /\ Fate(t) # "queued")

\* The docstring of _flush_loop: failed groups are queued again, "so that
\* network jitter does not lose alerts for ever".  So an alert whose request
\* was answered 202 should not be replaced by a re-queued group.
NoAckedAlertOverwritten ==
    \A t \in 1 .. issued : ~(ledger[t].acked /\ Fate(t) = "overwritten")

\* The docstring of _flush_loop: a group is taken out once it has "not been
\* updated for DEBOUNCE_SECONDS".  So a group that has just been appended to
\* should not be due.
UpdateRestartsWindow ==
    [][\A k \in InBuffer :
        buffer'[k].alerts \ buffer[k].alerts # {}
            => buffer'[k].waited < DEBOUNCE_SECONDS]_vars
=============================================================================
