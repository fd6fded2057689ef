-------------------------- MODULE AlertForwardProofs --------------------------
(***************************************************************************)
(* Proofs about the alert forwarder, for every set of webhooks, names and  *)
(* handlers, every debounce window, chunk size and retry limit.            *)
(***************************************************************************)
EXTENDS AlertForward, FiniteSetTheorems, TLAPS

LEMMA RequestType ==
    ASSUME NEW r \in Requests
    PROVE  ResolveWebhook(r.webhook) \in Webhooks /\ r.alerts \in Seq(Alert)
BY RequestAssumption, ConfigAssumption DEF ResolveWebhook

LEMMA NoGroupType ==
    /\ 0 \in Elapsed
    /\ NoGroup \in Group
    /\ NoStamp \in [waited : Elapsed, since : Nat]
<1>1. 0 \in Elapsed
  BY ConfigAssumption DEF Elapsed
<1>2. QED
  BY <1>1, ConfigAssumption DEF NoGroup, NoStamp, Group

LEMMA IdleHandlerType ==
    IdleHandler \in [busy : BOOLEAN, webhook : Webhooks,
                     todo : Seq(Alert), mine : SUBSET Nat]
BY ConfigAssumption DEF IdleHandler

LEMMA InitTypeOK == Init => TypeOK
BY ConfigAssumption, RequestAssumption, NoGroupType, IdleHandlerType
   DEF Init, TypeOK

-----------------------------------------------------------------------------
(* The type invariant, one lemma per thread.                               *)

LEMMA HandlerTypeOK ==
    ASSUME TypeOK, HandlerNext
    PROVE  TypeOK'
<1> USE DEF TypeOK
<1>1. ASSUME NEW h \in Handlers, NEW r \in Requests, ReceiveNothing(h, r)
      PROVE  TypeOK'
  BY <1>1, RequestAssumption
     DEF ReceiveNothing, bufferVars, flushVars, chunkVars, disturbances, history
<1>2. ASSUME NEW h \in Handlers, NEW r \in Requests, ReceiveAlerts(h, r)
      PROVE  TypeOK'
  BY <1>2, RequestAssumption, RequestType
     DEF ReceiveAlerts, bufferVars, flushVars, chunkVars, disturbances, history
<1>3. ASSUME NEW h \in Handlers, BufferAlert(h)
      PROVE  TypeOK'
  <2> DEFINE k   == KeyOf(h)
             new == issued + 1
  <2>1. /\ handler[h].todo \in Seq(Alert) /\ handler[h].todo # <<>>
        /\ handler[h].webhook \in Webhooks
        /\ Head(handler[h].todo).status \in Statuses
    BY <1>3 DEF BufferAlert, AtAlert
  <2>2. k \in Keys
    <3>1. Head(handler[h].todo) \in Alert
      BY <2>1
    <3>2. QED
      BY <2>1, <3>1 DEF KeyOf, Keys, Alert
  <2>3. new \in Nat
    OBVIOUS
  <2>4. buffer' \in [Keys -> Group] /\ inserts' \in Nat
    <3>1. CASE k \notin InBuffer
      <4> DEFINE open == [slot |-> inserts + 1, waited |-> 0,
                          since |-> inserts + 1,
                          alerts |-> {new}, retries |-> 0]
      <4>1. /\ buffer' = [buffer EXCEPT ![k] = open]
            /\ inserts' = inserts + 1
        BY <1>3, <3>1 DEF BufferAlert
      <4>2. open \in Group
        BY <2>3, NoGroupType, ConfigAssumption DEF Group
      <4>3. inserts + 1 \in Nat
        OBVIOUS
      <4> HIDE DEF open
      <4>4. QED
        BY <2>2, <4>1, <4>2, <4>3
    <3>2. CASE k \in InBuffer
      <4>1. buffer' = [buffer EXCEPT ![k].alerts = @ \cup {new}]
            /\ inserts' = inserts
        BY <1>3, <3>2 DEF BufferAlert
      <4> DEFINE g == [buffer[k] EXCEPT !.alerts = @ \cup {new}]
      <4>2. g \in Group
        <5>1. buffer[k] \in Group
          BY <2>2
        <5>2. buffer[k].alerts \cup {new} \in SUBSET Nat
          BY <2>3, <5>1 DEF Group
        <5>3. QED
          BY <5>1, <5>2 DEF Group
      <4>3. buffer' = [buffer EXCEPT ![k] = g]
        BY <4>1
      <4> HIDE DEF g
      <4>4. QED
        BY <2>2, <4>1, <4>2, <4>3
    <3>3. QED
      BY <3>1, <3>2
  <2>5. issued' \in Nat /\ ledger' \in [1 .. issued' -> Entry]
    <3>1. NewEntry \in Entry
      BY DEF NewEntry, Entry, Fates
    <3>2. /\ issued' = new
          /\ ledger' = [t \in 1 .. new |-> IF t = new THEN NewEntry ELSE ledger[t]]
      BY <1>3 DEF BufferAlert
    <3>3. \A t \in 1 .. new : t # new => t \in 1 .. issued
      OBVIOUS
    <3>4. \A t \in 1 .. issued : ledger[t] \in Entry
      OBVIOUS
    <3> HIDE DEF new
    <3>5. QED
      BY <2>3, <3>1, <3>2, <3>3, <3>4
  <2>6. handler' \in [Handlers -> [busy : BOOLEAN, webhook : Webhooks,
                                   todo : Seq(Alert), mine : SUBSET Nat]]
    <3>1. handler' = [handler EXCEPT ![h].todo = Tail(@),
                                     ![h].mine = @ \cup {new}]
      BY <1>3 DEF BufferAlert
    <3> DEFINE H == [busy : BOOLEAN, webhook : Webhooks,
                     todo : Seq(Alert), mine : SUBSET Nat]
               r == [handler[h] EXCEPT !.todo = Tail(@), !.mine = @ \cup {new}]
    <3>2. Tail(handler[h].todo) \in Seq(Alert)
      BY <2>1
    <3>3. handler[h] \in H /\ handler \in [Handlers -> H]
      OBVIOUS
    <3>4. r \in H
      BY <2>3, <3>2, <3>3
    <3>5. handler' = [handler EXCEPT ![h] = r]
      BY <3>1
    <3> HIDE DEF H, r
    <3>6. handler' \in [Handlers -> H]
      BY <3>3, <3>4, <3>5
    <3>7. QED
      BY <3>6 DEF H
  <2>7. QED
    BY <1>3, <2>4, <2>5, <2>6
       DEF BufferAlert, flushVars, chunkVars, disturbances
<1>4. ASSUME NEW h \in Handlers, SkipAlert(h)
      PROVE  TypeOK'
  <2>1. Tail(handler[h].todo) \in Seq(Alert)
    BY <1>4 DEF SkipAlert, AtAlert
  <2>2. QED
    BY <1>4, <2>1
       DEF SkipAlert, bufferVars, flushVars, chunkVars, disturbances, history
<1>5. ASSUME NEW h \in Handlers, RejectRequest(h)
      PROVE  TypeOK'
  BY <1>5, IdleHandlerType
     DEF RejectRequest, bufferVars, flushVars, chunkVars, disturbances, history
<1>6. ASSUME NEW h \in Handlers, AcceptRequest(h)
      PROVE  TypeOK'
  <2>1. ledger' \in [1 .. issued -> Entry]
    BY <1>6 DEF AcceptRequest, Update, Entry
  <2>2. QED
    BY <1>6, <2>1, IdleHandlerType
       DEF AcceptRequest, bufferVars, flushVars, chunkVars, disturbances
<1>7. QED
  BY <1>1, <1>2, <1>3, <1>4, <1>5, <1>6 DEF HandlerNext, HandlerStep

\* Where the flush thread is, and what it has in hand.
FlushCoherent ==
    /\ flushPc = "scan" => InFlight = {}
    /\ flushPc \in {"send", "settle", "requeue"} => current \in InFlight
    /\ flushPc = "requeue" => ~allOk /\ ~Exhausted

LEMMA NextChunkType ==
    ASSUME TypeOK, flushPc = "send", NextChunk
    PROVE  /\ start' \in Nat
           /\ attempt' \in 1 .. SEND_MAX_ATTEMPTS
           /\ flushPc' \in {"send", "settle"}
<1>1. start + MAX_MERGE_COUNT \in Nat /\ 1 \in 1 .. SEND_MAX_ATTEMPTS
  BY ConfigAssumption DEF TypeOK
<1>2. QED
  BY <1>1 DEF TypeOK, NextChunk

LEMMA LeaveFlightType ==
    ASSUME TypeOK, LeaveFlight
    PROVE  /\ flight' \in [Keys -> Group]
           /\ flushPc' = "next" /\ current' = NoKey
           /\ start' \in Nat /\ attempt' \in 1 .. SEND_MAX_ATTEMPTS
           /\ allOk' \in BOOLEAN
           /\ stamp' \in [waited : Elapsed, since : Nat]
           /\ UNCHANGED <<handler, received, crashes, setbacks, issued>>
<1>1. 1 \in 1 .. SEND_MAX_ATTEMPTS
  BY ConfigAssumption
<1>2. QED
  BY <1>1, NoGroupType
     DEF TypeOK, LeaveFlight, EndOfDispatch, handlerVars, disturbances

LEMMA RequeuedGroupType ==
    ASSUME TypeOK, current \in Keys, ~Exhausted
    PROVE  RequeuedGroup \in Group /\ RequeuedGroup.alerts = Alerts
<1>1. flight[current] \in Group /\ buffer[current] \in Group
  BY DEF TypeOK
<1>2. RequeuedPlace \in Nat /\ stamp.waited \in Elapsed /\ stamp.since \in Nat
  BY <1>1 DEF RequeuedPlace, Group, TypeOK
<1>3. flight[current].retries + 1 \in 0 .. SEND_REQUEUE_MAX_RETRIES
  BY <1>1, ConfigAssumption DEF Exhausted, Group
<1>4. PICK g \in Group : g = flight[current]
  BY <1>1
<1>5. PICK p \in Nat, w \in Elapsed, i \in Nat, r \in 0 .. SEND_REQUEUE_MAX_RETRIES :
         p = RequeuedPlace /\ w = stamp.waited /\ i = stamp.since /\ r = g.retries + 1
  BY <1>2, <1>3, <1>4
<1> DEFINE q == [g EXCEPT !.slot = p, !.waited = w, !.since = i, !.retries = r]
<1>6. RequeuedGroup = q
  BY <1>4, <1>5 DEF RequeuedGroup, Group
<1>7. q \in Group /\ q.alerts = g.alerts
  BY DEF Group
<1>8. QED
  BY <1>4, <1>6, <1>7 DEF Alerts

\* What the three steps that count in the ledger do to an entry.
LEMMA CountType ==
    ASSUME NEW e \in Entry
    PROVE  /\ [e EXCEPT !.rounds = @ + 1] \in Entry
           /\ [e EXCEPT !.posts = @ + 1] \in Entry
           /\ [e EXCEPT !.posts = @ + 1, !.carded = TRUE] \in Entry
<1>1. e.rounds + 1 \in Nat /\ e.posts + 1 \in Nat
  BY DEF Entry
<1>2. QED
  BY <1>1 DEF Entry

LEMMA EndedType ==
    ASSUME TypeOK, NEW S, NEW fate \in Fates
    PROVE  Ended(S, fate) \in [1 .. issued -> Entry]
BY DEF TypeOK, Ended, Update, Entry

LEMMA FlushTypeOK ==
    ASSUME TypeOK, FlushCoherent, FlushStep
    PROVE  TypeOK'
<1>1. CASE ScanBuffer
  BY <1>1, NoGroupType
     DEF TypeOK, ScanBuffer, RemainingBuffer, chunkVars, handlerVars, disturbances,
         history
<1>2. ASSUME NEW k \in Keys, DispatchGroup(k)
      PROVE  TypeOK'
  <2>1. ledger' \in [1 .. issued -> Entry]
    <3>1. ledger' = [t \in 1 .. issued |->
                       IF t \in flight[k].alerts
                       THEN [ledger[t] EXCEPT !.rounds = @ + 1] ELSE ledger[t]]
      BY <1>2 DEF DispatchGroup, Update
    <3>2. QED
      BY <3>1, CountType DEF TypeOK
  <2>2. QED
    BY <1>2, <2>1 DEF TypeOK, DispatchGroup, chunkVars, bufferVars, handlerVars, disturbances
<1>3. CASE EndOfRound
  BY <1>3 DEF TypeOK, EndOfRound, chunkVars, bufferVars, handlerVars, disturbances,
         history
<1>4. CASE PostSucceeds
  <2>1. ledger' \in [1 .. issued -> Entry]
    <3>1. ledger' = [t \in 1 .. issued |->
                       IF t \in Chunk
                       THEN [ledger[t] EXCEPT !.posts = @ + 1, !.carded = TRUE] ELSE ledger[t]]
      BY <1>4 DEF PostSucceeds, Update
    <3>2. QED
      BY <3>1, CountType DEF TypeOK
  <2>2. QED
    BY <1>4, <2>1, NextChunkType DEF TypeOK, PostSucceeds, bufferVars, handlerVars, disturbances
<1>5. CASE PostFails
  <2>1. ledger' \in [1 .. issued -> Entry]
    <3>1. ledger' = [t \in 1 .. issued |->
                       IF t \in Chunk
                       THEN [ledger[t] EXCEPT !.posts = @ + 1] ELSE ledger[t]]
      BY <1>5 DEF PostFails, Update
    <3>2. QED
      BY <3>1, CountType DEF TypeOK
  <2>2. /\ start' \in Nat
        /\ attempt' \in 1 .. SEND_MAX_ATTEMPTS
        /\ allOk' \in BOOLEAN
        /\ flushPc' \in {"send", "settle"}
    <3>1. CASE /\ attempt < SEND_MAX_ATTEMPTS
               /\ attempt' = attempt + 1
               /\ UNCHANGED <<start, allOk, flushPc>>
      <4>1. attempt + 1 \in 1 .. SEND_MAX_ATTEMPTS
        BY <3>1, ConfigAssumption DEF TypeOK
      <4>2. QED
        BY <1>5, <3>1, <4>1 DEF TypeOK, PostFails
    <3>2. CASE allOk' = FALSE /\ NextChunk
      BY <1>5, <3>2, NextChunkType DEF PostFails
    <3>3. QED
      BY <1>5, <3>1, <3>2 DEF PostFails
  <2>3. QED
    BY <1>5, <2>1, <2>2 DEF TypeOK, PostFails, bufferVars, handlerVars, disturbances
<1>6. CASE DispatchRaises
  BY <1>6 DEF TypeOK, DispatchRaises, bufferVars, handlerVars, disturbances,
         history
<1>7. CASE GroupSent
  <2>1. ledger' \in [1 .. issued -> Entry]
    BY <1>7, EndedType DEF GroupSent, Fates
  <2>2. QED
    BY <1>7, <2>1, LeaveFlightType DEF TypeOK, GroupSent, bufferVars
<1>8. CASE GroupDropped
  <2>1. ledger' \in [1 .. issued -> Entry]
    BY <1>8, EndedType DEF GroupDropped, Fates
  <2>2. QED
    BY <1>8, <2>1, LeaveFlightType DEF TypeOK, GroupDropped, bufferVars
<1>9. CASE StampGroup
  BY <1>9, NoGroupType DEF TypeOK, StampGroup, bufferVars, handlerVars,
     disturbances, history
<1>10. CASE GroupRequeued
  <2>1. ledger' \in [1 .. issued -> Entry]
    BY <1>10, EndedType DEF GroupRequeued, Fates
  <2>2. buffer' \in [Keys -> Group]
    BY <1>10, RequeuedGroupType DEF TypeOK, GroupRequeued, FlushCoherent, InFlight
  <2>3. inserts' \in Nat
    <3>1. inserts \in Nat /\ inserts + 1 \in Nat
      BY DEF TypeOK
    <3>2. QED
      BY <1>10, <3>1 DEF GroupRequeued
  <2>4. QED
    BY <1>10, <2>1, <2>2, <2>3, LeaveFlightType DEF TypeOK, GroupRequeued
<1>11. QED
  BY <1>1, <1>2, <1>3, <1>4, <1>5, <1>6, <1>7, <1>8, <1>9, <1>10 DEF FlushStep

LEMMA TickTypeOK ==
    ASSUME TypeOK, Tick
    PROVE  TypeOK'
<1>1. ASSUME NEW w \in Elapsed, w # DEBOUNCE_SECONDS
      PROVE  w + 1 \in Elapsed
  BY <1>1, ConfigAssumption DEF Elapsed
<1>2. ASSUME NEW k \in InBuffer \ Due
      PROVE  [buffer[k] EXCEPT !.waited = @ + 1] \in Group
  <2>1. buffer[k] \in Group /\ buffer[k].waited # DEBOUNCE_SECONDS
    BY DEF TypeOK, InBuffer, Due
  <2>2. buffer[k].waited + 1 \in Elapsed
    BY <1>1, <2>1 DEF Group
  <2>3. QED
    BY <2>1, <2>2 DEF Group
<1>3. buffer' \in [Keys -> Group]
  BY <1>2 DEF Tick, TypeOK
<1>4. stamp' \in [waited : Elapsed, since : Nat]
  <2>1. stamp.waited \in Elapsed
    BY DEF TypeOK
  <2>2. stamp.waited < DEBOUNCE_SECONDS => stamp.waited + 1 \in Elapsed
    BY <1>1, <2>1, ConfigAssumption DEF Elapsed
  <2>3. QED
    BY <2>2 DEF Tick, TypeOK
<1>5. QED
  BY <1>3, <1>4 DEF Tick, TypeOK, handlerVars, disturbances, history

LEMMA SetbackTypeOK ==
    ASSUME TypeOK, SetClockBack
    PROVE  TypeOK'
<1>1. ASSUME NEW w \in Elapsed
      PROVE  w - 1 \in Elapsed
  BY <1>1, ConfigAssumption DEF Elapsed
<1>2. ASSUME NEW k \in Keys
      PROVE  [buffer[k] EXCEPT !.waited = @ - 1] \in Group
  <2>1. buffer[k] \in Group
    BY DEF TypeOK
  <2>2. buffer[k].waited - 1 \in Elapsed
    BY <1>1, <2>1 DEF Group
  <2>3. QED
    BY <2>1, <2>2 DEF Group
<1>3. buffer' \in [Keys -> Group]
  BY <1>2 DEF SetClockBack, TypeOK
<1>4. stamp' \in [waited : Elapsed, since : Nat]
  <2>1. stamp.waited - 1 \in Elapsed
    BY <1>1 DEF TypeOK
  <2>2. QED
    BY <2>1 DEF SetClockBack, TypeOK
<1>5. setbacks' \in Nat /\ crashes' \in Nat /\ crashes' + setbacks' <= MaxDisturbances
  BY RequestAssumption DEF SetClockBack, TypeOK
<1>6. QED
  BY <1>3, <1>4, <1>5 DEF SetClockBack, TypeOK, handlerVars, history

LEMMA CrashTypeOK ==
    ASSUME TypeOK, Crash
    PROVE  TypeOK'
<1>1. ledger' \in [1 .. issued -> Entry]
  BY EndedType DEF Crash, Fates
<1>2. /\ crashes' \in Nat /\ setbacks' \in Nat
      /\ crashes' + setbacks' <= MaxDisturbances
      /\ 1 \in 1 .. SEND_MAX_ATTEMPTS
  BY ConfigAssumption, RequestAssumption DEF Crash, TypeOK
<1>3. QED
  BY <1>1, <1>2, NoGroupType, IdleHandlerType DEF Crash, TypeOK, EndOfDispatch

LEMMA NextTypeOK ==
    ASSUME TypeOK, FlushCoherent, [Next]_vars
    PROVE  TypeOK'
<1>1. CASE UNCHANGED vars
  BY <1>1 DEF TypeOK, vars, handlerVars, bufferVars, flushVars, chunkVars,
            disturbances, history
<1>2. QED
  BY <1>1, HandlerTypeOK, FlushTypeOK, TickTypeOK, SetbackTypeOK,
     CrashTypeOK DEF Next

-----------------------------------------------------------------------------
(* Conservation, and that what is in flight is older than what waits.      *)

At(k) == buffer[k].alerts \cup flight[k].alerts

LEMMA NextFlushCoherent ==
    ASSUME TypeOK, FlushCoherent, [Next]_vars
    PROVE  FlushCoherent'
<1> USE DEF FlushCoherent, InFlight, Exhausted
<1>1. CASE HandlerNext \/ Tick \/ SetClockBack \/ UNCHANGED vars
  <2>1. UNCHANGED <<flight, flushPc, current, allOk>>
    BY <1>1 DEF HandlerNext, HandlerStep, ReceiveNothing, ReceiveAlerts,
         BufferAlert, SkipAlert, RejectRequest, AcceptRequest, Tick,
         SetClockBack, vars, flushVars, chunkVars
  <2>2. QED
    BY <2>1
<1>2. CASE FlushStep
  <2>1. CASE ScanBuffer \/ EndOfRound
    BY <2>1 DEF ScanBuffer, EndOfRound
  <2>2. ASSUME NEW k \in Keys, DispatchGroup(k) PROVE FlushCoherent'
    BY <2>2 DEF DispatchGroup
  <2>3. CASE PostSucceeds \/ PostFails \/ DispatchRaises
    <3>1. /\ UNCHANGED <<flight, current>>
          /\ flushPc = "send" /\ flushPc' \in {"send", "settle"}
      BY <2>3 DEF PostSucceeds, PostFails, DispatchRaises, NextChunk
    <3>2. QED
      BY <3>1
  <2>4. CASE GroupSent \/ GroupDropped \/ GroupRequeued
    BY <2>4 DEF GroupSent, GroupDropped, GroupRequeued, LeaveFlight
  <2>5. CASE StampGroup
    BY <2>5 DEF StampGroup
  <2>6. QED
    BY <1>2, <2>1, <2>2, <2>3, <2>4, <2>5 DEF FlushStep
<1>3. CASE Crash
  BY <1>3 DEF Crash, NoGroup
<1>4. QED
  BY <1>1, <1>2, <1>3 DEF Next

\* Conservation is kept by a step that takes the alerts S, and no others, out
\* of the groups and gives them a fate; groups may move.
LEMMA ConservationAfterRemoval ==
    ASSUME Conservation, NEW S,
           issued' = issued,
           \A k \in Keys : At(k)' = At(k) \ S,
           \A k \in Keys : buffer'[k].alerts \cap flight'[k].alerts = {},
           \A t \in 1 .. issued :
               ledger'[t].fate = "queued" <=> Fate(t) = "queued" /\ t \notin S
    PROVE  Conservation'
<1>1. \A j, k \in Keys : j # k => At(j)' \cap At(k)' = {}
  BY DEF Conservation, At
<1>2. Held' = Held \ S
  BY DEF Held, At
<1>3. Held' = {t \in 1 .. issued' : ledger'[t].fate = "queued"}
  BY <1>2 DEF Conservation
<1>4. QED
  BY <1>1, <1>3 DEF Conservation, At, Fate

LEMMA BufferedAlertIsNew ==
    ASSUME TypeOK, Conservation, NEW k \in Keys, NEW t \in At(k)
    PROVE  t \in 1 .. issued
BY DEF Conservation, Held, At

\* What BufferAlert does to the groups.
LEMMA BufferAlertEffect ==
    ASSUME TypeOK, NEW h \in Handlers, BufferAlert(h)
    PROVE  /\ KeyOf(h) \in Keys
           /\ flight' = flight
           /\ issued' = issued + 1
           /\ \A k \in Keys : buffer'[k].alerts =
                IF k = KeyOf(h) THEN buffer[k].alerts \cup {issued + 1}
                                ELSE buffer[k].alerts
<1>1. KeyOf(h) \in Keys
  <2>1. /\ handler[h].todo \in Seq(Alert) /\ handler[h].todo # <<>>
        /\ handler[h].webhook \in Webhooks
        /\ Head(handler[h].todo).status \in Statuses
    BY DEF TypeOK, BufferAlert, AtAlert
  <2>2. Head(handler[h].todo) \in Alert
    BY <2>1
  <2>3. QED
    BY <2>1, <2>2 DEF KeyOf, Keys, Alert
<1>2. CASE KeyOf(h) \notin InBuffer
  <2>1. buffer' = [buffer EXCEPT ![KeyOf(h)] =
                     [slot |-> inserts + 1, waited |-> 0,
                      since |-> inserts + 1,
                      alerts |-> {issued + 1}, retries |-> 0]]
    BY <1>2 DEF BufferAlert
  <2>2. buffer[KeyOf(h)].alerts = {}
    BY <1>1, <1>2 DEF InBuffer
  <2>3. flight' = flight /\ issued' = issued + 1
    BY DEF BufferAlert, flushVars
  <2>4. \A k \in Keys : buffer'[k].alerts =
           IF k = KeyOf(h) THEN {issued + 1} ELSE buffer[k].alerts
    BY <1>1, <2>1 DEF TypeOK
  <2>5. QED
    BY <1>1, <2>2, <2>3, <2>4
<1>3. CASE KeyOf(h) \in InBuffer
  <2>1. buffer' = [buffer EXCEPT ![KeyOf(h)].alerts = @ \cup {issued + 1}]
    BY <1>3 DEF BufferAlert
  <2>2. buffer[KeyOf(h)] \in Group
    BY <1>1 DEF TypeOK
  <2>3. QED
    BY <1>1, <2>1, <2>2 DEF TypeOK, BufferAlert, flushVars, Group
<1>4. QED
  BY <1>2, <1>3

LEMMA BufferAlertConserves ==
    ASSUME TypeOK, Conservation, NEW h \in Handlers, BufferAlert(h)
    PROVE  Conservation'
<1> DEFINE new == issued + 1
           key == KeyOf(h)
<1>1. new \in Nat /\ new \notin 1 .. issued /\ 1 .. new = 1 .. issued \cup {new}
  BY DEF TypeOK
<1>2. \A k \in Keys : new \notin At(k)
  BY <1>1, BufferedAlertIsNew
<1>3. \A k \in Keys : At(k)' = IF k = key THEN At(k) \cup {new} ELSE At(k)
  BY BufferAlertEffect DEF At
<1>4. \A k \in Keys : buffer'[k].alerts \cap flight'[k].alerts = {}
  BY <1>2, BufferAlertEffect DEF Conservation, At
<1>5. \A j, k \in Keys : j # k => At(j)' \cap At(k)' = {}
  BY <1>2, <1>3 DEF Conservation, At
<1>6. Held' = Held \cup {new}
  BY <1>3, BufferAlertEffect DEF Held, At
<1>7. {t \in 1 .. issued' : ledger'[t].fate = "queued"}
        = {t \in 1 .. issued : ledger[t].fate = "queued"} \cup {new}
  <2>1. \A t \in 1 .. new : ledger'[t] = IF t = new THEN NewEntry ELSE ledger[t]
    BY DEF BufferAlert
  <2>2. NewEntry.fate = "queued"
    BY DEF NewEntry
  <2>3. issued' = new
    BY DEF BufferAlert
  <2> HIDE DEF new
  <2>4. QED
    BY <1>1, <2>1, <2>2, <2>3
<1>8. QED
  BY <1>4, <1>5, <1>6, <1>7 DEF Conservation, At, Fate

LEMMA EndedFate ==
    ASSUME TypeOK, NEW S, NEW fate \in Fates, NEW t \in 1 .. issued,
           ledger' = Ended(S, fate)
    PROVE  ledger'[t].fate = IF t \in S THEN fate ELSE Fate(t)
<1>1. ledger'[t] = IF t \in S THEN [ledger[t] EXCEPT !.fate = fate] ELSE ledger[t]
  BY DEF Ended, Update
<1>2. ledger[t] \in Entry
  BY DEF TypeOK
<1>3. QED
  BY <1>1, <1>2 DEF Entry, Fate

\* The steps that count in the ledger leave the fates alone.
LEMMA CountedFate ==
    ASSUME TypeOK, NEW t \in 1 .. issued,
           \/ \E h \in Handlers : AcceptRequest(h)
           \/ \E k \in Keys : DispatchGroup(k)
           \/ PostSucceeds
           \/ PostFails
    PROVE  ledger'[t].fate = Fate(t)
<1>1. ledger[t] \in Entry
  BY DEF TypeOK
<1>2. ASSUME NEW h \in Handlers, AcceptRequest(h) PROVE ledger'[t].fate = Fate(t)
  BY <1>1, <1>2 DEF AcceptRequest, Update, Entry, Fate
<1>3. ASSUME NEW k \in Keys, DispatchGroup(k) PROVE ledger'[t].fate = Fate(t)
  BY <1>1, <1>3 DEF DispatchGroup, Update, Entry, Fate
<1>4. CASE PostSucceeds
  BY <1>1, <1>4 DEF PostSucceeds, Update, Entry, Fate
<1>5. CASE PostFails
  BY <1>1, <1>5 DEF PostFails, Update, Entry, Fate
<1>6. QED
  BY <1>2, <1>3, <1>4, <1>5

\* The steps that move no alert and seal no fate.
QuietStep ==
    \/ \E h \in Handlers, r \in Requests : ReceiveNothing(h, r) \/ ReceiveAlerts(h, r)
    \/ \E h \in Handlers : SkipAlert(h) \/ RejectRequest(h) \/ AcceptRequest(h)
    \/ \E k \in Keys : DispatchGroup(k)
    \/ EndOfRound \/ PostSucceeds \/ PostFails \/ DispatchRaises
    \/ StampGroup
    \/ UNCHANGED vars

LEMMA QuietStepEffect ==
    ASSUME TypeOK, QuietStep
    PROVE  /\ UNCHANGED <<buffer, flight, issued>>
           /\ \A t \in 1 .. issued : ledger'[t].fate = Fate(t)
<1> USE DEF bufferVars, flushVars, chunkVars, handlerVars, history
<1>1. CASE \/ \E h \in Handlers, r \in Requests :
                 ReceiveNothing(h, r) \/ ReceiveAlerts(h, r)
           \/ \E h \in Handlers : SkipAlert(h) \/ RejectRequest(h)
           \/ EndOfRound \/ DispatchRaises \/ StampGroup
           \/ UNCHANGED vars
  <2>1. UNCHANGED <<buffer, flight, issued, ledger>>
    BY <1>1 DEF ReceiveNothing, ReceiveAlerts, SkipAlert, RejectRequest,
                EndOfRound, DispatchRaises, StampGroup, vars
  <2>2. QED
    BY <2>1 DEF Fate
<1>2. CASE \/ \E h \in Handlers : AcceptRequest(h)
           \/ \E k \in Keys : DispatchGroup(k)
           \/ PostSucceeds \/ PostFails
  <2>1. UNCHANGED <<buffer, flight, issued>>
    BY <1>2 DEF AcceptRequest, DispatchGroup, PostSucceeds, PostFails
  <2>2. QED
    BY <1>2, <2>1, CountedFate
<1>3. QED
  BY <1>1, <1>2 DEF QuietStep

\* Where the alerts are after the steps that move groups.
LEMMA ScanEffect ==
    ASSUME TypeOK, FlushCoherent, ScanBuffer
    PROVE  /\ UNCHANGED <<issued, ledger>>
           /\ \A k \in Keys : /\ At(k)' = At(k)
                              /\ \/ buffer'[k].alerts = {}
                                 \/ flight'[k].alerts = {}
<1>1. \A k \in Keys : flight[k].alerts = {}
  BY DEF FlushCoherent, ScanBuffer, InFlight
<1>2. \A k \in Keys :
         /\ flight'[k].alerts = IF k \in Due THEN buffer[k].alerts ELSE {}
         /\ buffer'[k].alerts = IF k \in Due THEN {} ELSE buffer[k].alerts
  BY DEF ScanBuffer, RemainingBuffer, NoGroup
<1>3. QED
  BY <1>1, <1>2 DEF At, ScanBuffer, history

LEMMA LeaveFlightEffect ==
    ASSUME TypeOK, LeaveFlight
    PROVE  /\ issued' = issued
           /\ \A k \in Keys : flight'[k].alerts =
                IF k = current THEN {} ELSE flight[k].alerts
BY DEF TypeOK, LeaveFlight, NoGroup

LEMMA RequeueEffect ==
    ASSUME TypeOK, FlushCoherent, GroupRequeued
    PROVE  \A k \in Keys : buffer'[k].alerts =
                IF k = current THEN Alerts ELSE buffer[k].alerts
<1>1. current \in Keys
  BY DEF FlushCoherent, GroupRequeued, InFlight
<1>2. RequeuedGroup.alerts = Alerts
  BY <1>1, RequeuedGroupType DEF GroupRequeued, FlushCoherent
<1>3. buffer' = [buffer EXCEPT ![current] = RequeuedGroup]
  BY DEF GroupRequeued
<1>4. QED
  BY <1>1, <1>2, <1>3 DEF TypeOK

\* The steps of the clock.
ClockStep == Tick \/ SetClockBack

LEMMA ClockEffect ==
    ASSUME TypeOK, ClockStep
    PROVE  /\ UNCHANGED <<flight, issued, ledger>>
           /\ \A k \in Keys : buffer'[k].alerts = buffer[k].alerts
<1>1. \A k \in Keys : buffer[k] \in Group
  BY DEF TypeOK
<1>2. CASE Tick
  BY <1>1, <1>2 DEF Tick, history, Group
<1>3. CASE SetClockBack
  BY <1>1, <1>3 DEF SetClockBack, history, Group
<1>4. QED
  BY <1>2, <1>3 DEF ClockStep

LEMMA NextConserves ==
    ASSUME TypeOK, FlushCoherent, Conservation, [Next]_vars
    PROVE  Conservation'
<1>1. CASE QuietStep
  BY <1>1, QuietStepEffect, ConservationAfterRemoval DEF At, Conservation
<1>2. ASSUME NEW h \in Handlers, BufferAlert(h) PROVE Conservation'
  BY <1>2, BufferAlertConserves
<1>3. CASE ScanBuffer
  BY <1>3, ScanEffect, ConservationAfterRemoval DEF Fate
<1>4. CASE GroupSent \/ GroupDropped
  <2>1. current \in Keys /\ LeaveFlight /\ buffer' = buffer
    BY <1>4 DEF GroupSent, GroupDropped, FlushCoherent, InFlight, bufferVars
  <2>2. \A t \in 1 .. issued :
           ledger'[t].fate = "queued" <=> Fate(t) = "queued" /\ t \notin Alerts
    BY <1>4, EndedFate DEF GroupSent, GroupDropped, Fates
  <2>3. \A k \in Keys : At(k)' = At(k) \ Alerts
    BY <2>1, LeaveFlightEffect DEF At, Alerts, Conservation
  <2>4. \A k \in Keys : buffer'[k].alerts \cap flight'[k].alerts = {}
    BY <2>1, LeaveFlightEffect DEF Conservation
  <2>5. QED
    BY <2>1, <2>2, <2>3, <2>4, LeaveFlightEffect, ConservationAfterRemoval
<1>5. CASE GroupRequeued
  <2> DEFINE old == buffer[current].alerts
  <2>1. current \in Keys /\ LeaveFlight
    BY <1>5 DEF GroupRequeued, FlushCoherent, InFlight
  <2>2. \A t \in 1 .. issued :
           ledger'[t].fate = "queued" <=> Fate(t) = "queued" /\ t \notin old
    BY <1>5, EndedFate DEF GroupRequeued, Fates
  <2>3. \A k \in Keys : At(k)' = At(k) \ old
    BY <1>5, <2>1, LeaveFlightEffect, RequeueEffect DEF At, Alerts, Conservation
  <2>4. \A k \in Keys : buffer'[k].alerts \cap flight'[k].alerts = {}
    BY <1>5, <2>1, LeaveFlightEffect, RequeueEffect DEF Conservation
  <2>5. QED
    BY <2>1, <2>2, <2>3, <2>4, LeaveFlightEffect, ConservationAfterRemoval
<1>6. CASE ClockStep
  BY <1>6, ClockEffect, ConservationAfterRemoval DEF At, Conservation, Fate
<1>7. CASE Crash
  <2>1. \A k \in Keys : /\ buffer'[k].alerts = {} /\ flight'[k].alerts = {}
                        /\ At(k) \subseteq Held
    BY <1>7 DEF Crash, NoGroup, Held, At
  <2>2. \A t \in 1 .. issued :
           ledger'[t].fate = "queued" <=> Fate(t) = "queued" /\ t \notin Held
    BY <1>7, EndedFate DEF Crash, Fates
  <2>3. \A k \in Keys : At(k)' = At(k) \ Held
    BY <2>1 DEF At
  <2>4. QED
    BY <1>7, <2>1, <2>2, <2>3, ConservationAfterRemoval DEF Crash
<1>8. QED
  BY <1>1, <1>2, <1>3, <1>4, <1>5, <1>6, <1>7
     DEF Next, ClockStep, HandlerNext, HandlerStep, FlushStep, QuietStep

LEMMA NextFlightIsOlder ==
    ASSUME TypeOK, FlushCoherent, Conservation, FlightIsOlder, [Next]_vars
    PROVE  FlightIsOlder'
<1> USE DEF FlightIsOlder
<1>1. CASE QuietStep
  BY <1>1, QuietStepEffect
<1>2. ASSUME NEW h \in Handlers, BufferAlert(h) PROVE FlightIsOlder'
  <2>1. \A k \in Keys : \A t \in flight[k].alerts : t < issued + 1
    BY BufferedAlertIsNew DEF At, TypeOK
  <2>2. QED
    BY <1>2, <2>1, BufferAlertEffect
<1>3. CASE ScanBuffer
  BY <1>3, ScanEffect
<1>4. CASE GroupSent \/ GroupDropped
  <2>1. LeaveFlight /\ buffer' = buffer
    BY <1>4 DEF GroupSent, GroupDropped, bufferVars
  <2>2. QED
    BY <2>1, LeaveFlightEffect
<1>5. CASE GroupRequeued
  <2>1. LeaveFlight
    BY <1>5 DEF GroupRequeued
  <2>2. QED
    BY <1>5, <2>1, LeaveFlightEffect, RequeueEffect
<1>6. CASE ClockStep
  BY <1>6, ClockEffect
<1>7. CASE Crash
  BY <1>7 DEF Crash, NoGroup
<1>8. QED
  BY <1>1, <1>2, <1>3, <1>4, <1>5, <1>6, <1>7
     DEF Next, ClockStep, HandlerNext, HandlerStep, FlushStep, QuietStep

-----------------------------------------------------------------------------
(* The theorems about the buffer.                                          *)

BufferInv == TypeOK /\ FlushCoherent /\ Conservation /\ FlightIsOlder

LEMMA InitBufferInv == Init => BufferInv
<1> SUFFICES ASSUME Init PROVE BufferInv
  OBVIOUS
<1>1. TypeOK
  BY InitTypeOK
<1>2. FlushCoherent /\ FlightIsOlder
  BY DEF Init, FlushCoherent, FlightIsOlder, InFlight, NoGroup
<1>3. Conservation
  BY DEF Init, Conservation, Held, NoGroup
<1>4. QED
  BY <1>1, <1>2, <1>3 DEF BufferInv

THEOREM BufferInvariant == Spec => []BufferInv
<1>1. BufferInv /\ [Next]_vars => BufferInv'
  BY NextTypeOK, NextFlushCoherent, NextConserves, NextFlightIsOlder DEF BufferInv
<1>2. QED
  BY InitBufferInv, <1>1, PTL DEF Spec

\* Every variable keeps its type; in particular no group is queued again more
\* than SEND_REQUEUE_MAX_RETRIES times.
THEOREM TypeCorrect == Spec => []TypeOK
<1>1. BufferInv => TypeOK
  BY DEF BufferInv
<1>2. QED
  BY <1>1, BufferInvariant, PTL

\* Every buffered alert is in exactly one group until its fate is recorded.
THEOREM AlertsAreConserved == Spec => []Conservation
<1>1. BufferInv => Conservation
  BY DEF BufferInv
<1>2. QED
  BY <1>1, BufferInvariant, PTL

\* Alerts of a key that are being sent arrived before those that wait.
THEOREM AlertsAreSentInOrder == Spec => []FlightIsOlder
<1>1. BufferInv => FlightIsOlder
  BY DEF BufferInv
<1>2. QED
  BY <1>1, BufferInvariant, PTL

-----------------------------------------------------------------------------
(* The forwarder implements the outbox.                                    *)

\* How the outbox sees a step that ends the alerts S: they stop waiting ...
LEMMA WaitingAfterRemoval ==
    ASSUME NEW k \in Keys, NEW S, S \subseteq At(k), Conservation,
           \A j \in Keys : At(j)' = At(j) \ S
    PROVE  Waiting' = [Waiting EXCEPT ![k] = @ \ S]
<1>1. \A j \in Keys : j # k => At(j) \ S = At(j)
  BY DEF Conservation, At
<1>2. QED
  BY <1>1 DEF Waiting, At

\* ... and are delivered, or lost.
LEMMA SentSets ==
    ASSUME TypeOK, NEW S, S \subseteq {t \in 1 .. issued : Fate(t) = "queued"},
           issued' = issued, ledger' = Ended(S, "sent")
    PROVE  Delivered' = Delivered \cup S /\ Lost' = Lost
<1>1. \A t \in 1 .. issued : ledger'[t].fate = IF t \in S THEN "sent" ELSE Fate(t)
  BY EndedFate DEF Fates
<1>2. QED
  BY <1>1 DEF Delivered, Lost, Fate

LEMMA LostSets ==
    ASSUME TypeOK, NEW S, S \subseteq {t \in 1 .. issued : Fate(t) = "queued"},
           NEW fate \in {"dropped", "overwritten", "crashed"}, issued' = issued,
           ledger' = Ended(S, fate)
    PROVE  Delivered' = Delivered /\ Lost' = Lost \cup S
<1>1. \A t \in 1 .. issued : ledger'[t].fate = IF t \in S THEN fate ELSE Fate(t)
  BY EndedFate DEF Fates
<1>2. QED
  BY <1>1 DEF Delivered, Lost, Fate

LEMMA UnchangedOutbox ==
    ASSUME \A k \in Keys : At(k)' = At(k), issued' = issued,
           \A t \in 1 .. issued : ledger'[t].fate = Fate(t)
    PROVE  UNCHANGED <<issued, Waiting, Delivered, Lost>>
BY DEF Waiting, Delivered, Lost, Fate, At

LEMMA OutboxStep ==
    ASSUME BufferInv, [Next]_vars
    PROVE  [Outbox!Next]_(Outbox!vars)
<1> USE DEF BufferInv
<1>0. /\ Outbox!vars = <<issued, Waiting, Delivered, Lost>>
      /\ Outbox!vars' = <<issued', Waiting', Delivered', Lost'>>
  BY DEF Outbox!vars
<1>1. CASE QuietStep
  BY <1>0, <1>1, QuietStepEffect, UnchangedOutbox DEF At
<1>2. ASSUME NEW h \in Handlers, BufferAlert(h)
      PROVE  Outbox!Next
  <2> DEFINE new == issued + 1
  <2>1. /\ KeyOf(h) \in Keys /\ issued' = new
        /\ Waiting' = [Waiting EXCEPT ![KeyOf(h)] = @ \cup {new}]
    BY <1>2, BufferAlertEffect DEF Waiting, At
  <2>2. UNCHANGED <<Delivered, Lost>>
    <3>1. \A t \in 1 .. new : ledger'[t] = IF t = new THEN NewEntry ELSE ledger[t]
      BY <1>2 DEF BufferAlert
    <3>2. NewEntry.fate = "queued"
      BY DEF NewEntry
    <3>3. new \notin 1 .. issued /\ 1 .. new = 1 .. issued \cup {new}
      BY DEF TypeOK
    <3>4. issued' = new
      BY <2>1
    <3> HIDE DEF new
    <3>5. QED
      BY <3>1, <3>2, <3>3, <3>4 DEF Delivered, Lost, Fate
  <2>3. Outbox!Accept(KeyOf(h))
    BY <2>1, <2>2 DEF Outbox!Accept
  <2>4. QED
    BY <2>1, <2>3 DEF Outbox!Next
<1>3. CASE ScanBuffer
  BY <1>0, <1>3, ScanEffect, UnchangedOutbox DEF Fate
<1>4. CASE ClockStep
  BY <1>0, <1>4, ClockEffect, UnchangedOutbox DEF At, Fate
<1>5. CASE GroupSent \/ GroupDropped
  <2>1. /\ current \in Keys /\ LeaveFlight /\ buffer' = buffer
        /\ issued' = issued
    BY <1>5, LeaveFlightEffect
       DEF GroupSent, GroupDropped, FlushCoherent, InFlight, bufferVars
  <2>2. \A k \in Keys : At(k)' = At(k) \ Alerts
    BY <2>1, LeaveFlightEffect DEF At, Alerts, Conservation
  <2>3. /\ Alerts \in SUBSET Waiting[current]
        /\ Alerts \subseteq {t \in 1 .. issued : Fate(t) = "queued"}
    BY <2>1 DEF Alerts, Waiting, Conservation, Held
  <2>4. Waiting' = [Waiting EXCEPT ![current] = @ \ Alerts]
    BY <2>1, <2>2, <2>3, WaitingAfterRemoval DEF Waiting, At
  <2>5. CASE GroupSent
    <3>1. Delivered' = Delivered \cup Alerts /\ Lost' = Lost
      BY <2>1, <2>3, <2>5, SentSets DEF GroupSent
    <3>2. Outbox!OldestOf(Alerts, Waiting[current])
      BY <2>1, <2>3 DEF Outbox!OldestOf, FlightIsOlder, Waiting, Alerts
    <3>3. Outbox!Deliver(current, Alerts)
      BY <2>1, <2>4, <3>1, <3>2 DEF Outbox!Deliver
    <3>4. QED
      BY <2>1, <2>3, <3>3 DEF Outbox!Next
  <2>6. CASE GroupDropped
    <3>1. Delivered' = Delivered /\ Lost' = Lost \cup Alerts
      BY <2>1, <2>3, <2>6, LostSets DEF GroupDropped
    <3>2. Outbox!Lose(current, Alerts)
      BY <2>1, <2>3, <2>4, <3>1 DEF Outbox!Lose
    <3>3. QED
      BY <2>1, <2>3, <3>2 DEF Outbox!Next
  <2>7. QED
    BY <1>5, <2>5, <2>6
<1>6. CASE GroupRequeued
  <2> DEFINE old == buffer[current].alerts
  <2>1. /\ current \in Keys /\ LeaveFlight /\ issued' = issued
    BY <1>6, LeaveFlightEffect DEF GroupRequeued, FlushCoherent, InFlight
  <2>2. \A k \in Keys : At(k)' = At(k) \ old
    BY <1>6, <2>1, LeaveFlightEffect, RequeueEffect DEF At, Alerts, Conservation
  <2>3. /\ old \in SUBSET Waiting[current]
        /\ old \subseteq {t \in 1 .. issued : Fate(t) = "queued"}
    BY <2>1 DEF Waiting, Conservation, Held
  <2>4. ledger' = Ended(old, "overwritten")
    BY <1>6 DEF GroupRequeued
  <2> HIDE DEF old
  <2>5. Waiting' = [Waiting EXCEPT ![current] = @ \ old]
    BY <2>1, <2>2, <2>3, WaitingAfterRemoval DEF Waiting, At
  <2>6. Delivered' = Delivered /\ Lost' = Lost \cup old
    BY <2>1, <2>3, <2>4, LostSets
  <2>7. Outbox!Lose(current, old)
    BY <2>1, <2>3, <2>5, <2>6 DEF Outbox!Lose
  <2>8. QED
    BY <2>1, <2>3, <2>7 DEF Outbox!Next
<1>7. CASE Crash
  <2>1. \A k \in Keys : At(k)' = {}
    BY <1>7 DEF Crash, NoGroup, At
  <2>2. Delivered' = Delivered /\ Lost' = Lost \cup Held
    BY <1>7, LostSets DEF Crash, Conservation
  <2>3. Held = UNION {Waiting[k] : k \in Keys}
    BY DEF Held, Waiting, At
  <2>4. Outbox!LoseAll
    BY <1>7, <2>1, <2>2, <2>3 DEF Crash, Outbox!LoseAll, Waiting, At
  <2>5. QED
    BY <2>4 DEF Outbox!Next
<1>8. QED
  BY <1>0, <1>1, <1>2, <1>3, <1>4, <1>5, <1>6, <1>7
     DEF Next, ClockStep, HandlerNext, HandlerStep, FlushStep, QuietStep

\* Every behaviour of the forwarder is one of the outbox: an accepted alert is
\* delivered at most once as a settled alert, in the order of arrival under
\* its key, or it is lost; never both.
THEOREM ForwarderImplementsOutbox == Spec => ImplementsOutbox
<1>1. Init => Outbox!Init
  BY DEF Init, Outbox!Init, NoGroup, Waiting, Delivered, Lost
<1>2. BufferInv /\ [Next]_vars => [Outbox!Next]_(Outbox!vars)
  BY OutboxStep
<1>3. QED
  BY <1>1, <1>2, BufferInvariant, PTL DEF Spec, ImplementsOutbox, Outbox!Spec

-----------------------------------------------------------------------------
(* A group counts as sent only if every alert of it was on a card that      *)
(* Feishu took, whichever of its chunks failed on the way.                 *)


\* The chunks below start have been sent, as long as none of them failed; at
\* the end of the dispatch that is all of the group; and no dispatch begins
\* with the locals of another.
ChunksCarded ==
    /\ flushPc \in {"scan", "next"} => start = 0
    /\ flushPc = "send" /\ allOk =>
         \A t \in Alerts : Rank(t, Alerts) <= start => ledger[t].carded
    /\ flushPc = "settle" /\ allOk => \A t \in Alerts : ledger[t].carded

CardInv == BufferInv /\ ChunksCarded /\ SentWasCarded

\* The rank of an alert in a group is between 1 and the size of the group.
LEMMA RankBounds ==
    ASSUME NEW n \in Nat, NEW S \in SUBSET (1 .. n), NEW t \in S
    PROVE  /\ Rank(t, S) \in Nat
           /\ 1 <= Rank(t, S)
           /\ Rank(t, S) <= Cardinality(S)
           /\ Cardinality(S) \in Nat
<1> DEFINE T == {u \in S : u <= t}
<1>1. IsFiniteSet(1 .. n)
  BY FS_Interval
<1>2. IsFiniteSet(S) /\ Cardinality(S) \in Nat
  BY <1>1, FS_Subset, FS_CardinalityType
<1>3. /\ IsFiniteSet(T) /\ Cardinality(T) <= Cardinality(S)
      /\ Cardinality(T) \in Nat
  BY <1>2, FS_Subset, FS_CardinalityType
<1>4. t \in T
  OBVIOUS
<1>5. Cardinality(T) # 0
  BY <1>3, <1>4, FS_EmptySet
<1>6. QED
  BY <1>2, <1>3, <1>5 DEF Rank

\* The group that is being dispatched consists of alerts of the ledger.
LEMMA DispatchedAlerts ==
    ASSUME BufferInv
    PROVE  /\ \A k \in Keys : flight[k].alerts \in SUBSET (1 .. issued)
           /\ flushPc \in {"send", "settle", "requeue"} => Alerts \in SUBSET (1 .. issued)
           /\ \A t \in 1 .. issued : ledger[t] \in Entry
<1> USE DEF BufferInv
<1>1. \A k \in Keys : flight[k].alerts \in SUBSET (1 .. issued)
  BY DEF Conservation, Held
<1>2. flushPc \in {"send", "settle", "requeue"} => current \in Keys
  BY DEF FlushCoherent, InFlight
<1>3. QED
  BY <1>1, <1>2 DEF Alerts, TypeOK

\* Steps that neither dispatch a group nor end an alert.
LEMMA OutsideKeepsCards ==
    ASSUME CardInv,
           UNCHANGED <<flight, flushPc, current, start, allOk>>,
           issued <= issued', issued' \in Nat,
           \A t \in 1 .. issued : /\ ledger'[t].carded = ledger[t].carded
                                  /\ ledger'[t].fate = Fate(t),
           \A t \in 1 .. issued' : t \in 1 .. issued \/ ledger'[t].fate = "queued"
    PROVE  ChunksCarded' /\ SentWasCarded'
<1>1. ChunksCarded'
  BY DispatchedAlerts DEF CardInv, ChunksCarded, Alerts, Rank
<1>2. SentWasCarded'
  BY DEF CardInv, SentWasCarded, Fate
<1>3. QED
  BY <1>1, <1>2

\* Steps that end alerts and leave the dispatch, or the process.
LEMMA EndingKeepsCards ==
    ASSUME CardInv, issued' = issued, EndOfDispatch,
           flushPc' \in {"scan", "next"},
           NEW S, NEW fate \in Fates, ledger' = Ended(S, fate),
           fate = "sent" => \A t \in S \cap (1 .. issued) : ledger[t].carded
    PROVE  ChunksCarded' /\ SentWasCarded'
<1>1. ChunksCarded'
  BY DEF ChunksCarded, EndOfDispatch
<1>2. ASSUME NEW t \in 1 .. issued
      PROVE  /\ ledger'[t].carded = ledger[t].carded
             /\ ledger'[t].fate = IF t \in S THEN fate ELSE Fate(t)
  <2>1. ledger'[t] = IF t \in S THEN [ledger[t] EXCEPT !.fate = fate] ELSE ledger[t]
    BY DEF Ended, Update
  <2>2. ledger[t] \in Entry
    BY DispatchedAlerts DEF CardInv
  <2>3. QED
    BY <2>1, <2>2 DEF Entry, Fate
<1>3. SentWasCarded'
  BY <1>2 DEF CardInv, SentWasCarded, Fate
<1>4. QED
  BY <1>1, <1>3

LEMMA DispatchKeepsCards ==
    ASSUME CardInv, NEW k \in Keys, DispatchGroup(k)
    PROVE  ChunksCarded' /\ SentWasCarded'
<1>1. /\ flushPc = "next" /\ flushPc' = "send" /\ current' = k
      /\ flight' = flight /\ issued' = issued /\ start' = start
  BY DEF DispatchGroup, chunkVars
<1>2. start' = 0
  BY <1>1 DEF CardInv, ChunksCarded
<1>3. \A t \in 1 .. issued : /\ ledger'[t].carded = ledger[t].carded
                             /\ ledger'[t].fate = Fate(t)
  <2>1. TAKE t \in 1 .. issued
  <2>2. ledger'[t] = IF t \in flight[k].alerts
                     THEN [ledger[t] EXCEPT !.rounds = @ + 1] ELSE ledger[t]
    BY DEF DispatchGroup, Update
  <2>3. ledger[t] \in Entry
    BY DispatchedAlerts DEF CardInv
  <2>4. QED
    BY <2>2, <2>3 DEF Entry, Fate
<1>4. Alerts' = flight[k].alerts /\ flight[k].alerts \in SUBSET (1 .. issued)
  BY <1>1, DispatchedAlerts DEF CardInv, Alerts
<1>5. \A t \in flight[k].alerts : ~(Rank(t, flight[k].alerts) <= 0)
  <2>1. issued \in Nat
    BY DEF CardInv, BufferInv, TypeOK
  <2>2. TAKE t \in flight[k].alerts
  <2>3. /\ Rank(t, flight[k].alerts) \in Nat
        /\ 1 <= Rank(t, flight[k].alerts)
    BY <1>4, <2>1, <2>2, RankBounds
  <2>4. QED
    BY <2>3
<1>6. ChunksCarded'
  <2>1. \A t \in Alerts' : Rank(t, Alerts)' = Rank(t, flight[k].alerts)
    BY <1>4 DEF Rank
  <2>2. QED
    BY <1>1, <1>2, <1>4, <1>5, <2>1 DEF ChunksCarded
<1>7. SentWasCarded'
  BY <1>1, <1>3 DEF CardInv, SentWasCarded, Fate
<1>8. QED
  BY <1>6, <1>7

LEMMA SuccessKeepsCards ==
    ASSUME CardInv, PostSucceeds
    PROVE  ChunksCarded' /\ SentWasCarded'
<1>1. /\ flushPc = "send" /\ NextChunk
      /\ UNCHANGED <<allOk, flight, current, issued>>
  BY DEF PostSucceeds
<1>2. /\ Alerts' = Alerts
      /\ \A t \in Alerts : Rank(t, Alerts)' = Rank(t, Alerts)
  BY <1>1 DEF Alerts, Rank
<1>3. \A t \in 1 .. issued :
         /\ ledger'[t].carded = (ledger[t].carded \/ t \in Chunk)
         /\ ledger'[t].fate = Fate(t)
  <2>1. TAKE t \in 1 .. issued
  <2>2. ledger'[t] = IF t \in Chunk
                     THEN [ledger[t] EXCEPT !.posts = @ + 1, !.carded = TRUE]
                     ELSE ledger[t]
    BY DEF PostSucceeds, Update
  <2>3. ledger[t] \in Entry
    BY DispatchedAlerts DEF CardInv
  <2>4. QED
    BY <2>2, <2>3 DEF Entry, Fate
<1>4. SentWasCarded'
  BY <1>1, <1>3 DEF CardInv, SentWasCarded, Fate
<1>5. Alerts \in SUBSET (1 .. issued) /\ issued \in Nat
  BY <1>1, DispatchedAlerts DEF CardInv, BufferInv, TypeOK
<1>6. \A t \in Alerts : /\ Rank(t, Alerts) \in Nat
                        /\ Rank(t, Alerts) <= Cardinality(Alerts)
                        /\ Cardinality(Alerts) \in Nat
  BY <1>5, RankBounds
<1>7. start \in Nat /\ start + MAX_MERGE_COUNT \in Nat
  BY ConfigAssumption DEF CardInv, BufferInv, TypeOK
<1>8. ASSUME allOk, NEW t \in Alerts, Rank(t, Alerts) <= start + MAX_MERGE_COUNT
      PROVE  ledger'[t].carded
  <2>1. CASE Rank(t, Alerts) <= start
    BY <1>1, <1>3, <1>5, <1>8, <2>1 DEF CardInv, ChunksCarded
  <2>2. CASE ~(Rank(t, Alerts) <= start)
    <3>1. t \in Chunk
      BY <1>6, <1>7, <1>8, <2>2 DEF Chunk
    <3>2. QED
      BY <1>3, <1>5, <3>1
  <2>3. QED
    BY <2>1, <2>2
<1>9. CASE MoreChunks
  <2>1. start' = start + MAX_MERGE_COUNT /\ flushPc' = "send"
    BY <1>1, <1>9 DEF NextChunk
  <2>2. QED
    BY <1>1, <1>2, <1>4, <1>8, <2>1 DEF ChunksCarded
<1>10. CASE ~MoreChunks
  <2>1. flushPc' = "settle"
    BY <1>1, <1>10 DEF NextChunk
  <2>2. \A t \in Alerts : Rank(t, Alerts) <= start + MAX_MERGE_COUNT
    BY <1>6, <1>7, <1>10 DEF MoreChunks
  <2>3. QED
    BY <1>1, <1>2, <1>4, <1>8, <2>1, <2>2 DEF ChunksCarded
<1>11. QED
  BY <1>9, <1>10

LEMMA FailureKeepsCards ==
    ASSUME CardInv, PostFails
    PROVE  ChunksCarded' /\ SentWasCarded'
<1>1. flushPc = "send" /\ UNCHANGED <<flight, current, issued>>
  BY DEF PostFails
<1>2. \A t \in 1 .. issued : /\ ledger'[t].carded = ledger[t].carded
                             /\ ledger'[t].fate = Fate(t)
  <2>1. TAKE t \in 1 .. issued
  <2>2. ledger'[t] = IF t \in Chunk
                     THEN [ledger[t] EXCEPT !.posts = @ + 1] ELSE ledger[t]
    BY DEF PostFails, Update
  <2>3. ledger[t] \in Entry
    BY DispatchedAlerts DEF CardInv
  <2>4. QED
    BY <2>2, <2>3 DEF Entry, Fate
<1>3. CASE UNCHANGED <<start, allOk, flushPc>>
  BY <1>1, <1>2, <1>3, OutsideKeepsCards DEF CardInv, BufferInv, TypeOK
<1>4. CASE allOk' = FALSE /\ NextChunk
  <2>1. flushPc' \in {"send", "settle"}
    BY <1>1, <1>4 DEF NextChunk
  <2>2. ChunksCarded'
    BY <1>4, <2>1 DEF ChunksCarded
  <2>3. SentWasCarded'
    BY <1>1, <1>2 DEF CardInv, SentWasCarded, Fate
  <2>4. QED
    BY <2>2, <2>3
<1>5. QED
  BY <1>3, <1>4 DEF PostFails

LEMMA NextKeepsCards ==
    ASSUME CardInv, [Next]_vars
    PROVE  ChunksCarded' /\ SentWasCarded'
<1>0. TypeOK /\ issued \in Nat
  BY DEF CardInv, BufferInv, TypeOK
<1>1. CASE \/ \E h \in Handlers, r \in Requests :
                 ReceiveNothing(h, r) \/ ReceiveAlerts(h, r)
           \/ \E h \in Handlers : SkipAlert(h) \/ RejectRequest(h)
           \/ ClockStep \/ UNCHANGED vars
  <2>1. UNCHANGED <<flight, flushPc, current, start, allOk, issued, ledger>>
    BY <1>1 DEF ReceiveNothing, ReceiveAlerts, SkipAlert, RejectRequest,
                ClockStep, Tick, SetClockBack, vars, flushVars, chunkVars, history
  <2>2. QED
    BY <1>0, <2>1, OutsideKeepsCards DEF Fate
<1>2. ASSUME NEW h \in Handlers, AcceptRequest(h)
      PROVE  ChunksCarded' /\ SentWasCarded'
  <2>1. UNCHANGED <<flight, flushPc, current, start, allOk, issued>>
    BY <1>2 DEF AcceptRequest, flushVars, chunkVars
  <2>2. \A t \in 1 .. issued : /\ ledger'[t].carded = ledger[t].carded
                               /\ ledger'[t].fate = Fate(t)
    <3>1. TAKE t \in 1 .. issued
    <3>2. ledger'[t] = IF t \in handler[h].mine
                       THEN [ledger[t] EXCEPT !.acked = TRUE] ELSE ledger[t]
      BY <1>2 DEF AcceptRequest, Update
    <3>3. ledger[t] \in Entry
      BY DispatchedAlerts DEF CardInv
    <3>4. QED
      BY <3>2, <3>3 DEF Entry, Fate
  <2>3. QED
    BY <1>0, <2>1, <2>2, OutsideKeepsCards
<1>3. ASSUME NEW h \in Handlers, BufferAlert(h)
      PROVE  ChunksCarded' /\ SentWasCarded'
  <2> DEFINE new == issued + 1
  <2>1. /\ UNCHANGED <<flight, flushPc, current, start, allOk>>
        /\ issued' = new
        /\ ledger' = [t \in 1 .. new |-> IF t = new THEN NewEntry ELSE ledger[t]]
    BY <1>3 DEF BufferAlert, flushVars, chunkVars
  <2>2. /\ new \in Nat /\ issued <= new /\ new \notin 1 .. issued
        /\ 1 .. new = 1 .. issued \cup {new}
    BY <1>0
  <2>3. NewEntry.fate = "queued"
    BY DEF NewEntry
  <2> HIDE DEF new
  <2>4. /\ \A t \in 1 .. issued : ledger'[t] = ledger[t]
        /\ ledger'[new] = NewEntry
    BY <2>1, <2>2
  <2>5. QED
    BY <2>1, <2>2, <2>3, <2>4, OutsideKeepsCards DEF Fate
<1>4. CASE ScanBuffer \/ EndOfRound
  <2>1. /\ flushPc \in {"scan", "next"} /\ flushPc' \in {"scan", "next"}
        /\ UNCHANGED <<start, issued, ledger>>
    BY <1>4 DEF ScanBuffer, EndOfRound, chunkVars, history
  <2>2. QED
    BY <2>1 DEF CardInv, ChunksCarded, SentWasCarded, Fate
<1>5. ASSUME NEW k \in Keys, DispatchGroup(k)
      PROVE  ChunksCarded' /\ SentWasCarded'
  BY <1>5, DispatchKeepsCards
<1>6. CASE PostSucceeds
  BY <1>6, SuccessKeepsCards
<1>7. CASE PostFails
  BY <1>7, FailureKeepsCards
<1>8. CASE DispatchRaises
  <2>1. flushPc' = "settle" /\ allOk' = FALSE /\ UNCHANGED <<issued, ledger>>
    BY <1>8 DEF DispatchRaises, history
  <2>2. QED
    BY <2>1 DEF CardInv, ChunksCarded, SentWasCarded, Fate
<1>9. CASE GroupSent
  <2>1. /\ flushPc = "settle" /\ allOk /\ ledger' = Ended(Alerts, "sent")
        /\ issued' = issued /\ EndOfDispatch /\ flushPc' = "next"
    BY <1>9 DEF GroupSent, LeaveFlight
  <2>2. \A t \in Alerts : ledger[t].carded
    BY <2>1 DEF CardInv, ChunksCarded
  <2>3. QED
    BY <2>1, <2>2, EndingKeepsCards DEF Fates
<1>10. CASE GroupDropped
  <2>1. /\ ledger' = Ended(Alerts, "dropped")
        /\ issued' = issued /\ EndOfDispatch /\ flushPc' = "next"
    BY <1>10 DEF GroupDropped, LeaveFlight
  <2>2. QED
    BY <2>1, EndingKeepsCards DEF Fates
<1>11. CASE GroupRequeued
  <2>1. /\ ledger' = Ended(buffer[current].alerts, "overwritten")
        /\ issued' = issued /\ EndOfDispatch /\ flushPc' = "next"
    BY <1>11 DEF GroupRequeued, LeaveFlight
  <2>2. QED
    BY <2>1, EndingKeepsCards DEF Fates
<1>12. CASE StampGroup
  <2>1. flushPc' = "requeue" /\ UNCHANGED <<issued, ledger>>
    BY <1>12 DEF StampGroup, history
  <2>2. QED
    BY <2>1 DEF CardInv, ChunksCarded, SentWasCarded, Fate
<1>13. CASE Crash
  <2>1. /\ ledger' = Ended(Held, "crashed")
        /\ issued' = issued /\ EndOfDispatch /\ flushPc' = "scan"
    BY <1>13 DEF Crash
  <2>2. QED
    BY <2>1, EndingKeepsCards DEF Fates
<1>14. QED
  BY <1>1, <1>2, <1>3, <1>4, <1>5, <1>6, <1>7, <1>8, <1>9, <1>10, <1>11, <1>12,
     <1>13
     DEF Next, ClockStep, HandlerNext, HandlerStep, FlushStep

\* A group counts as sent only if every alert of it was on a card that Feishu
\* took: no failed chunk is forgotten, whatever else happens meanwhile.
THEOREM SentGroupsWereCarded == Spec => []SentWasCarded
<1>1. Init => CardInv
  BY InitBufferInv DEF Init, CardInv, ChunksCarded, SentWasCarded
<1>2. CardInv /\ [Next]_vars => CardInv'
  <2>1. BufferInv /\ [Next]_vars => BufferInv'
    BY NextTypeOK, NextFlushCoherent, NextConserves, NextFlightIsOlder
       DEF BufferInv
  <2>2. QED
    BY <2>1, NextKeepsCards DEF CardInv
<1>3. CardInv => SentWasCarded
  BY DEF CardInv
<1>4. QED
  BY <1>1, <1>2, <1>3, PTL DEF Spec
=============================================================================
