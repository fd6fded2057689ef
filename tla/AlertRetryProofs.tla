--------------------------- MODULE AlertRetryProofs ---------------------------
(***************************************************************************)
(* Proofs that re-queueing keeps the promises of the buffer: groups stay   *)
(* in the order of their windows up to what the reading of the clock       *)
(* outside of the lock allows, and no alert is dispatched or posted more   *)
(* often than the limits say.                                              *)
(***************************************************************************)
EXTENDS AlertForwardProofs

-----------------------------------------------------------------------------
(* The order of the windows.                                               *)

NoneOverwritten == \A t \in 1 .. issued : Fate(t) # "overwritten"
Steady          == setbacks = 0 /\ NoneOverwritten

\* A key that is assigned to again gets the next slot, or keeps the one that
\* it has, so that no slot is beyond the count.
SlotsAreCounted ==
    /\ \A k \in InBuffer : buffer[k].slot <= inserts
    /\ Stamped => stamp.since <= inserts

\* No window lies in the future.
WindowsArePast ==
    setbacks = 0 => /\ \A k \in InBuffer : buffer[k].waited >= 0
                    /\ Stamped => stamp.waited >= 0

\* The groups that were in the buffer when the clock was read are no younger
\* than the time that was read.
StampIsNewest ==
    Steady /\ Stamped =>
        \A k \in InBuffer : buffer[k].slot <= stamp.since
                              => buffer[k].waited >= stamp.waited

WindowOrder ==
    SlotsAreCounted /\ WindowsArePast /\ StampIsNewest /\ OldestWindowFirst

WindowInv == BufferInv /\ WindowOrder

\* A fate is final: a group that was replaced is not forgotten.
LEMMA OverwritingIsFinal ==
    ASSUME BufferInv, [Next]_vars, NoneOverwritten'
    PROVE  NoneOverwritten
<1> USE DEF NoneOverwritten
<1>0. TypeOK /\ FlushCoherent /\ Conservation /\ issued \in Nat
  BY DEF BufferInv, TypeOK
<1>1. CASE QuietStep \/ ScanBuffer \/ ClockStep
  <2>1. CASE QuietStep
    BY <1>0, <2>1, QuietStepEffect DEF Fate
  <2>2. CASE ScanBuffer \/ ClockStep
    BY <1>0, <2>2, ScanEffect, ClockEffect DEF Fate
  <2>3. QED
    BY <1>1, <2>1, <2>2
<1>2. ASSUME NEW h \in Handlers, BufferAlert(h) PROVE NoneOverwritten
  <2>1. /\ issued' = issued + 1
        /\ \A t \in 1 .. issued + 1 :
             ledger'[t] = IF t = issued + 1 THEN NewEntry ELSE ledger[t]
    BY <1>2 DEF BufferAlert
  <2>2. \A t \in 1 .. issued : t \in 1 .. issued + 1 /\ t # issued + 1
    BY <1>0
  <2>3. QED
    BY <2>1, <2>2 DEF Fate
<1>3. ASSUME NEW S, NEW fate \in Fates, S \subseteq Held,
             ledger' = Ended(S, fate), issued' = issued
      PROVE  NoneOverwritten
  <2>1. \A t \in S : t \in 1 .. issued /\ Fate(t) = "queued"
    BY <1>0, <1>3 DEF Conservation
  <2>2. QED
    BY <1>0, <1>3, <2>1, EndedFate DEF Fate
<1>4. CASE GroupSent \/ GroupDropped \/ GroupRequeued
  <2>1. current \in Keys /\ issued' = issued
    BY <1>4 DEF BufferInv, FlushCoherent, InFlight, GroupSent, GroupDropped,
                GroupRequeued, LeaveFlight
  <2>2. Alerts \subseteq Held /\ buffer[current].alerts \subseteq Held
    BY <2>1 DEF Alerts, Held
  <2>3. QED
    BY <1>3, <1>4, <2>1, <2>2 DEF GroupSent, GroupDropped, GroupRequeued, Fates
<1>5. CASE Crash
  BY <1>3, <1>5 DEF Crash, Fates
<1>6. QED
  BY <1>1, <1>2, <1>4, <1>5
     DEF Next, ClockStep, HandlerNext, HandlerStep, FlushStep, QuietStep

LEMMA WindowTypes ==
    ASSUME WindowInv
    PROVE  /\ inserts \in Nat /\ stamp.waited \in Int /\ stamp.since \in Nat
           /\ \A k \in Keys : /\ buffer[k] \in Group
                              /\ buffer[k].slot \in Nat /\ buffer[k].since \in Nat
                              /\ buffer[k].waited \in Int
                              /\ buffer[k].waited <= DEBOUNCE_SECONDS
           /\ \A k \in InBuffer : k \in Keys
<1>1. TypeOK
  BY DEF WindowInv, BufferInv
<1>2. \A w \in Elapsed : w \in Int /\ w <= DEBOUNCE_SECONDS
  BY DEF Elapsed
<1>3. QED
  BY <1>1, <1>2 DEF TypeOK, Group, InBuffer

\* Steps that put nothing into the buffer, leave the rest as it is and do not
\* read the clock.
LEMMA LeavingKeepsWindows ==
    ASSUME WindowInv, NoneOverwritten' => NoneOverwritten,
           inserts' = inserts, setbacks' = setbacks, InBuffer' \subseteq InBuffer,
           \A k \in InBuffer' : /\ buffer'[k].slot = buffer[k].slot
                                /\ buffer'[k].waited = buffer[k].waited
                                /\ buffer'[k].since = buffer[k].since,
           Stamped' => Stamped /\ stamp' = stamp
    PROVE  WindowOrder'
<1>1. Steady' => Steady
  BY DEF Steady
<1>2. SlotsAreCounted' /\ WindowsArePast'
  BY DEF WindowInv, WindowOrder, SlotsAreCounted, WindowsArePast
<1>3. StampIsNewest'
  BY <1>1 DEF WindowInv, WindowOrder, StampIsNewest
<1>4. OldestWindowFirst'
  BY <1>1 DEF WindowInv, WindowOrder, OldestWindowFirst, Steady, NoneOverwritten
<1>5. QED
  BY <1>2, <1>3, <1>4 DEF WindowOrder

\* Steps that put a group into the next slot, whose window began when those
\* that its history says were there had begun.
LEMMA OpeningKeepsWindows ==
    ASSUME WindowInv, NoneOverwritten' => NoneOverwritten,
           NEW key \in Keys, key \notin InBuffer,
           inserts' = inserts + 1, setbacks' = setbacks,
           InBuffer' \subseteq InBuffer \cup {key},
           buffer'[key].slot = inserts + 1, buffer'[key].waited \in Int,
           setbacks = 0 => buffer'[key].waited >= 0,
           Steady => \A k \in InBuffer : buffer[k].slot <= buffer'[key].since
                        => buffer[k].waited >= buffer'[key].waited,
           \A k \in InBuffer : buffer'[k] = buffer[k],
           Stamped' => Stamped /\ stamp' = stamp
    PROVE  WindowOrder'
<1>1. /\ inserts \in Nat /\ stamp.since \in Nat /\ stamp.waited \in Int
      /\ \A k \in InBuffer : /\ buffer[k].slot \in Nat
                             /\ buffer[k].waited \in Int
                             /\ buffer[k].slot <= inserts
  BY WindowTypes DEF WindowInv, WindowOrder, SlotsAreCounted
<1>2. Steady' => Steady
  BY DEF Steady
<1>3. SlotsAreCounted'
  BY <1>1 DEF WindowInv, WindowOrder, SlotsAreCounted
<1>4. WindowsArePast'
  BY DEF WindowInv, WindowOrder, WindowsArePast
<1>5. StampIsNewest'
  <2>1. SUFFICES ASSUME Steady, Stamped, stamp' = stamp, NEW k \in InBuffer',
                        buffer'[k].slot <= stamp.since
                 PROVE  buffer'[k].waited >= stamp.waited
    BY <1>2 DEF StampIsNewest
  <2>2. stamp.since <= inserts
    BY <2>1 DEF WindowInv, WindowOrder, SlotsAreCounted
  <2>3. k # key
    BY <1>1, <2>1, <2>2
  <2>4. QED
    BY <2>1, <2>3 DEF WindowInv, WindowOrder, StampIsNewest
<1>6. OldestWindowFirst'
  <2>1. SUFFICES ASSUME Steady, NEW j \in InBuffer', NEW k \in InBuffer',
                        buffer'[j].slot < buffer'[k].slot,
                        buffer'[j].slot <= buffer'[k].since
                 PROVE  buffer'[j].waited >= buffer'[k].waited
    BY <1>2 DEF OldestWindowFirst, Steady, NoneOverwritten
  <2>2. CASE j \in InBuffer /\ k \in InBuffer
    BY <2>1, <2>2
       DEF WindowInv, WindowOrder, OldestWindowFirst, Steady, NoneOverwritten
  <2>3. CASE j \in InBuffer /\ k = key
    BY <2>1, <2>3
  <2>4. CASE j = key
    <3>1. CASE k \in InBuffer
      BY <1>1, <2>1, <2>4, <3>1
    <3>2. CASE k = key
      BY <1>1, <2>1, <2>4, <3>2
    <3>3. QED
      BY <3>1, <3>2
  <2>5. QED
    BY <2>2, <2>3, <2>4
<1>7. QED
  BY <1>3, <1>4, <1>5, <1>6 DEF WindowOrder

LEMMA BufferAlertKeepsWindows ==
    ASSUME WindowInv, NoneOverwritten' => NoneOverwritten,
           NEW h \in Handlers, BufferAlert(h)
    PROVE  WindowOrder'
<1> DEFINE key == KeyOf(h)
<1>1. TypeOK /\ key \in Keys
  BY BufferAlertEffect DEF WindowInv, BufferInv
<1>2. setbacks' = setbacks /\ flushPc' = flushPc /\ stamp' = stamp
  BY DEF BufferAlert, flushVars, chunkVars, disturbances
<1>3. CASE key \notin InBuffer
  <2>1. buffer' = [buffer EXCEPT ![key] =
                     [slot |-> inserts + 1, waited |-> 0, since |-> inserts + 1,
                      alerts |-> {issued + 1}, retries |-> 0]]
        /\ inserts' = inserts + 1
    BY <1>3 DEF BufferAlert
  <2>2. \A k \in Keys : k # key => buffer'[k] = buffer[k]
    BY <1>1, <2>1 DEF TypeOK
  <2>3. buffer'[key].slot = inserts + 1 /\ buffer'[key].waited = 0
    BY <1>1, <2>1 DEF TypeOK
  <2>4. InBuffer' \subseteq InBuffer \cup {key}
    BY <2>2 DEF InBuffer
  <2>5. \A k \in InBuffer : buffer'[k] = buffer[k]
    BY <1>3, <2>2 DEF InBuffer
  <2>6. setbacks = 0 => \A k \in InBuffer : buffer[k].waited >= 0
    BY DEF WindowInv, WindowOrder, WindowsArePast
  <2> HIDE DEF key
  <2>7. QED
    BY <1>1, <1>2, <1>3, <2>1, <2>3, <2>4, <2>5, <2>6, OpeningKeepsWindows
       DEF Stamped, Steady
<1>4. CASE key \in InBuffer
  <2>1. buffer' = [buffer EXCEPT ![key].alerts = @ \cup {issued + 1}]
        /\ inserts' = inserts
    BY <1>4 DEF BufferAlert
  <2>2. \A k \in Keys : buffer[k] \in Group
    BY <1>1 DEF TypeOK
  <2>3. \A k \in Keys : /\ buffer'[k].slot = buffer[k].slot
                        /\ buffer'[k].waited = buffer[k].waited
                        /\ buffer'[k].since = buffer[k].since
                        /\ k # key => buffer'[k] = buffer[k]
    <3> DEFINE g == [buffer[key] EXCEPT !.alerts = @ \cup {issued + 1}]
    <3>1. /\ g.slot = buffer[key].slot /\ g.waited = buffer[key].waited
          /\ g.since = buffer[key].since
      BY <1>1, <2>2 DEF Group
    <3>2. buffer'[key] = g
      BY <1>1, <2>1 DEF TypeOK
    <3>3. \A k \in Keys : k # key => buffer'[k] = buffer[k]
      BY <1>1, <2>1 DEF TypeOK
    <3> HIDE DEF key, g
    <3>4. QED
      BY <3>1, <3>2, <3>3
  <2>4. InBuffer' \subseteq InBuffer
    <3> HIDE DEF key
    <3>1. SUFFICES ASSUME NEW k \in Keys, buffer'[k].alerts # {}, k # key
                   PROVE  buffer[k].alerts # {}
      BY <1>4 DEF InBuffer
    <3>2. buffer'[k] = buffer[k]
      BY <2>3, <3>1
    <3>3. QED
      BY <3>1, <3>2
  <2>5. \A k \in InBuffer' : k \in Keys
    BY DEF InBuffer
  <2>6. QED
    BY <1>2, <2>1, <2>3, <2>4, <2>5, LeavingKeepsWindows DEF Stamped
<1>5. QED
  BY <1>3, <1>4

\* A second ages the windows that are not due; those that are due are the
\* oldest already.
LEMMA TickKeepsWindows ==
    ASSUME WindowInv, NoneOverwritten' => NoneOverwritten, Tick
    PROVE  WindowOrder'
<1> DEFINE Older(w) == IF w < DEBOUNCE_SECONDS THEN w + 1 ELSE w
<1>1. \A v, w \in Int : v >= w => Older(v) >= Older(w)
  BY ConfigAssumption
<1>2. \A w \in Int : w >= 0 => Older(w) >= 0
  OBVIOUS
<1>3. \A k \in Keys :
         /\ buffer'[k].slot = buffer[k].slot
         /\ buffer'[k].since = buffer[k].since
         /\ buffer'[k].alerts = buffer[k].alerts
         /\ buffer'[k].waited = IF k \in InBuffer \ Due
                                THEN buffer[k].waited + 1 ELSE buffer[k].waited
  BY WindowTypes DEF Tick, Group
<1>4. /\ InBuffer' = InBuffer /\ inserts' = inserts /\ setbacks' = setbacks
      /\ flushPc' = flushPc /\ stamp'.since = stamp.since
  <2>1. stamp' = stamp \/ stamp' = [stamp EXCEPT !.waited = @ + 1]
    BY DEF Tick
  <2>2. stamp \in [waited : Elapsed, since : Nat]
    BY DEF WindowInv, BufferInv, TypeOK
  <2>3. stamp'.since = stamp.since
    BY <2>1, <2>2
  <2>4. QED
    BY <1>3, <2>3 DEF InBuffer, Tick, disturbances
<1>5. \A k \in InBuffer : k \in Keys /\ buffer'[k].waited = Older(buffer[k].waited)
  <2>1. \A k \in InBuffer : k \in Due <=> buffer[k].waited = DEBOUNCE_SECONDS
    BY DEF Due
  <2>2. \A k \in InBuffer : k \in Due <=> ~(buffer[k].waited < DEBOUNCE_SECONDS)
    BY <2>1, WindowTypes, ConfigAssumption
  <2>3. QED
    BY <1>3, <2>2 DEF InBuffer
<1>6. Stamped => stamp'.waited = Older(stamp.waited)
  <2>1. stamp \in [waited : Elapsed, since : Nat]
    BY DEF WindowInv, BufferInv, TypeOK
  <2>2. QED
    BY <2>1 DEF Tick
<1> HIDE DEF Older
<1>7. Steady' => Steady
  BY <1>4 DEF Steady
<1>8. SlotsAreCounted' /\ WindowsArePast'
  BY <1>2, <1>3, <1>4, <1>5, <1>6, WindowTypes
     DEF WindowInv, WindowOrder, SlotsAreCounted, WindowsArePast, Stamped
<1>9. StampIsNewest'
  BY <1>1, <1>3, <1>4, <1>5, <1>6, <1>7, WindowTypes
     DEF WindowInv, WindowOrder, StampIsNewest, Stamped
<1>10. OldestWindowFirst'
  BY <1>1, <1>3, <1>4, <1>5, <1>7, WindowTypes
     DEF WindowInv, WindowOrder, OldestWindowFirst, Steady, NoneOverwritten
<1>11. QED
  BY <1>8, <1>9, <1>10 DEF WindowOrder

\* Once the clock has been set back, nothing is said of the windows.
LEMMA SetbackKeepsWindows ==
    ASSUME WindowInv, SetClockBack
    PROVE  WindowOrder'
<1>1. setbacks' # 0
  BY DEF WindowInv, BufferInv, TypeOK, SetClockBack
<1>2. \A k \in Keys : /\ buffer'[k].slot = buffer[k].slot
                      /\ buffer'[k].alerts = buffer[k].alerts
  BY WindowTypes DEF SetClockBack, Group
<1>3. /\ InBuffer' = InBuffer /\ inserts' = inserts
      /\ flushPc' = flushPc /\ stamp'.since = stamp.since
  <2>1. stamp' = stamp \/ stamp' = [stamp EXCEPT !.waited = @ - 1]
    BY DEF SetClockBack
  <2>2. stamp \in [waited : Elapsed, since : Nat]
    BY DEF WindowInv, BufferInv, TypeOK
  <2>3. stamp'.since = stamp.since
    BY <2>1, <2>2
  <2>4. QED
    BY <1>2, <2>3 DEF InBuffer, SetClockBack
<1>4. SlotsAreCounted'
  BY <1>2, <1>3, WindowTypes DEF WindowInv, WindowOrder, SlotsAreCounted, Stamped
<1>5. QED
  BY <1>1, <1>4
     DEF WindowOrder, WindowsArePast, StampIsNewest, OldestWindowFirst, Steady

\* When the clock is read for a failed group, every window of the buffer has
\* begun.
LEMMA StampKeepsWindows ==
    ASSUME WindowInv, NoneOverwritten' => NoneOverwritten, StampGroup
    PROVE  WindowOrder'
<1>1. /\ stamp' = [waited |-> 0, since |-> inserts]
      /\ UNCHANGED <<buffer, inserts, setbacks>>
  BY DEF StampGroup, bufferVars, disturbances
<1>2. InBuffer' = InBuffer /\ (Steady' => Steady)
  BY <1>1 DEF InBuffer, Steady
<1>3. stamp'.waited = 0 /\ stamp'.since = inserts
  BY <1>1
<1>4. SlotsAreCounted' /\ WindowsArePast'
  BY <1>1, <1>2, <1>3, WindowTypes
     DEF WindowInv, WindowOrder, SlotsAreCounted, WindowsArePast
<1>5. StampIsNewest'
  BY <1>1, <1>2, <1>3
     DEF WindowInv, WindowOrder, WindowsArePast, StampIsNewest, Steady
<1>6. OldestWindowFirst'
  BY <1>1, <1>2
     DEF WindowInv, WindowOrder, OldestWindowFirst, Steady, NoneOverwritten
<1>7. QED
  BY <1>4, <1>5, <1>6 DEF WindowOrder

\* A failed group that is put back takes the next slot, with the time that was
\* read for it; one that replaces another ends the promise.
LEMMA RequeueKeepsWindows ==
    ASSUME WindowInv, NoneOverwritten' => NoneOverwritten, GroupRequeued
    PROVE  WindowOrder'
<1>1. /\ TypeOK /\ FlushCoherent /\ Conservation /\ current \in Keys
      /\ inserts \in Nat /\ issued' = issued /\ Stamped /\ ~Stamped'
      /\ setbacks' = setbacks
  BY DEF WindowInv, BufferInv, FlushCoherent, GroupRequeued, InFlight, TypeOK,
         LeaveFlight, Stamped, disturbances
<1>2. buffer' = [buffer EXCEPT ![current] = RequeuedGroup]
  BY DEF GroupRequeued
<1>3. \A k \in Keys : k # current => buffer'[k] = buffer[k]
  BY <1>1, <1>2 DEF TypeOK
<1>4. /\ buffer'[current].slot = RequeuedPlace
      /\ buffer'[current].waited = stamp.waited
      /\ buffer'[current].since = stamp.since
  <2>1. flight[current] \in Group
    BY <1>1 DEF TypeOK
  <2>2. /\ RequeuedGroup.slot = RequeuedPlace
        /\ RequeuedGroup.waited = stamp.waited
        /\ RequeuedGroup.since = stamp.since
    BY <2>1 DEF RequeuedGroup, Group
  <2>3. QED
    BY <1>1, <1>2, <2>2 DEF TypeOK
<1>5. InBuffer' \subseteq InBuffer \cup {current}
  BY <1>3 DEF InBuffer
<1>6. /\ setbacks = 0 => stamp.waited >= 0
      /\ Steady => \A k \in InBuffer : buffer[k].slot <= stamp.since
                                          => buffer[k].waited >= stamp.waited
  BY <1>1 DEF WindowInv, WindowOrder, WindowsArePast, StampIsNewest
<1>7. CASE current \notin InBuffer
  <2>1. inserts' = inserts + 1 /\ RequeuedPlace = inserts + 1
    BY <1>7 DEF GroupRequeued, RequeuedPlace
  <2>2. \A k \in InBuffer : buffer'[k] = buffer[k]
    BY <1>3, <1>7 DEF InBuffer
  <2>3. QED
    BY <1>1, <1>4, <1>5, <1>6, <1>7, <2>1, <2>2, WindowTypes, OpeningKeepsWindows
<1>8. CASE current \in InBuffer
  <2>1. inserts' = inserts /\ RequeuedPlace = buffer[current].slot
    BY <1>8 DEF GroupRequeued, RequeuedPlace
  <2>2. \A k \in InBuffer' : k \in InBuffer /\ k \in Keys
    BY <1>5, <1>8 DEF InBuffer
  <2>3. SlotsAreCounted'
    BY <1>1, <1>3, <1>4, <1>8, <2>1, <2>2
       DEF SlotsAreCounted, WindowInv, WindowOrder
  <2>4. WindowsArePast'
    BY <1>1, <1>3, <1>4, <1>6, <2>2 DEF WindowsArePast, WindowInv, WindowOrder
  <2>5. PICK t \in buffer[current].alerts : TRUE
    BY <1>8 DEF InBuffer
  <2>6. t \in 1 .. issued
    BY <1>1, <2>5 DEF Conservation, Held
  <2>7. ledger'[t].fate = "overwritten"
    BY <1>1, <2>5, <2>6, EndedFate DEF GroupRequeued, Fates
  <2>8. ~ NoneOverwritten'
    BY <1>1, <2>6, <2>7 DEF NoneOverwritten, Fate
  <2>9. QED
    BY <1>1, <2>3, <2>4, <2>8
       DEF WindowOrder, StampIsNewest, OldestWindowFirst, NoneOverwritten
<1>9. QED
  BY <1>7, <1>8

LEMMA NextKeepsWindows ==
    ASSUME WindowInv, [Next]_vars
    PROVE  WindowOrder'
<1>0. /\ TypeOK /\ FlushCoherent
      /\ NoneOverwritten' => NoneOverwritten
  BY OverwritingIsFinal DEF WindowInv, BufferInv
<1>1. CASE (QuietStep /\ ~StampGroup) \/ GroupSent \/ GroupDropped
  <2>1. /\ buffer' = buffer /\ inserts' = inserts /\ setbacks' = setbacks
        /\ Stamped' => Stamped /\ stamp' = stamp
    <3> USE DEF bufferVars, flushVars, chunkVars, handlerVars, disturbances,
                history, vars, Stamped
    <3>1. CASE QuietStep /\ ~StampGroup
      <4>1. CASE \/ \E k \in Keys : DispatchGroup(k)
                 \/ EndOfRound \/ PostSucceeds \/ PostFails \/ DispatchRaises
        BY <4>1 DEF DispatchGroup, EndOfRound, PostSucceeds, PostFails,
                    DispatchRaises, NextChunk
      <4>2. CASE \/ \E h \in Handlers, r \in Requests :
                       ReceiveNothing(h, r) \/ ReceiveAlerts(h, r)
                 \/ \E h \in Handlers :
                       SkipAlert(h) \/ RejectRequest(h) \/ AcceptRequest(h)
                 \/ UNCHANGED vars
        BY <4>2 DEF ReceiveNothing, ReceiveAlerts, SkipAlert, RejectRequest,
                    AcceptRequest
      <4>3. QED
        BY <3>1, <4>1, <4>2 DEF QuietStep
    <3>2. CASE GroupSent \/ GroupDropped
      BY <3>2 DEF GroupSent, GroupDropped, LeaveFlight
    <3>3. QED
      BY <1>1, <3>1, <3>2
  <2>2. InBuffer' = InBuffer
    BY <2>1 DEF InBuffer
  <2>3. QED
    BY <1>0, <2>1, <2>2, LeavingKeepsWindows
<1>2. ASSUME NEW h \in Handlers, BufferAlert(h)
      PROVE  WindowOrder'
  BY <1>0, <1>2, BufferAlertKeepsWindows
<1>3. CASE ScanBuffer
  <2>1. /\ inserts' = inserts /\ setbacks' = setbacks /\ ~Stamped'
        /\ \A k \in Keys : k \notin Due => buffer'[k] = buffer[k]
        /\ \A k \in Keys : k \in Due => buffer'[k].alerts = {}
    BY <1>3 DEF ScanBuffer, RemainingBuffer, NoGroup, Stamped, disturbances
  <2>2. \A k \in InBuffer' : k \in InBuffer /\ buffer'[k] = buffer[k]
    BY <2>1 DEF InBuffer
  <2>3. QED
    BY <1>0, <2>1, <2>2, LeavingKeepsWindows
<1>4. CASE StampGroup
  BY <1>0, <1>4, StampKeepsWindows
<1>5. CASE GroupRequeued
  BY <1>0, <1>5, RequeueKeepsWindows
<1>6. CASE Tick
  BY <1>0, <1>6, TickKeepsWindows
<1>7. CASE SetClockBack
  BY <1>7, SetbackKeepsWindows
<1>8. CASE Crash
  <2>1. InBuffer' = {} /\ ~Stamped'
    BY <1>8 DEF Crash, NoGroup, InBuffer, Stamped
  <2>2. QED
    BY <2>1 DEF WindowOrder, SlotsAreCounted, WindowsArePast, StampIsNewest,
                OldestWindowFirst
<1>9. QED
  BY <1>1, <1>2, <1>3, <1>4, <1>5, <1>6, <1>7, <1>8
     DEF Next, HandlerNext, HandlerStep, FlushStep, QuietStep

\* Through any arrivals, restarts and re-queueing, as long as the clock is not
\* set back and no group that was put back has replaced another, dict order,
\* in which groups are sent, is the order of the windows; only a re-queued
\* group may stand behind younger ones, those that were opened after its new
\* first_seen was read and before it was in the buffer again.
THEOREM WindowsAreOrdered == Spec => []OldestWindowFirst
<1>1. Init => WindowInv
  BY InitBufferInv
     DEF Init, WindowInv, WindowOrder, SlotsAreCounted, WindowsArePast,
         StampIsNewest, OldestWindowFirst, InBuffer, NoGroup, Stamped
<1>2. WindowInv /\ [Next]_vars => WindowInv'
  <2>1. BufferInv /\ [Next]_vars => BufferInv'
    BY NextTypeOK, NextFlushCoherent, NextConserves, NextFlightIsOlder
       DEF BufferInv
  <2>2. QED
    BY <2>1, NextKeepsWindows DEF WindowInv
<1>3. WindowInv => OldestWindowFirst
  BY DEF WindowInv, WindowOrder
<1>4. QED
  BY <1>1, <1>2, <1>3, PTL DEF Spec
-----------------------------------------------------------------------------
(* The counts of dispatches and posts.                                     *)

\* The oldest of the alerts S has taken part in n dispatches according to the
\* ledger L, and none of them in more.
Counts(S, n, L) ==
    S # {} => \E u \in S : /\ L[u].rounds = n
                           /\ \A t \in S : u <= t /\ L[t].rounds <= n

\* 1 for the group that is being dispatched.
Turn(k) == IF flushPc \in {"send", "settle", "requeue"} /\ k = current THEN 1 ELSE 0

\* requeue_retries counts the dispatches of the oldest alert of a group: those
\* that joined it later have had fewer.
RoundsFollowRetries ==
    \A k \in Keys :
        /\ Counts(buffer[k].alerts, buffer[k].retries, ledger)
        /\ Counts(flight[k].alerts, flight[k].retries + Turn(k), ledger)

\* The alerts that this dispatch has not posted yet have all of its attempts
\* left, and those of the chunk being sent all but the attempts made.
PostsFollowAttempts ==
    /\ flushPc \in {"scan", "next"} => attempt = 1
    /\ flushPc = "send" =>
         \A t \in Alerts : start < Rank(t, Alerts) =>
             ledger[t].posts + SEND_MAX_ATTEMPTS
               <= ledger[t].rounds * SEND_MAX_ATTEMPTS
                    + (IF t \in Chunk THEN attempt - 1 ELSE 0)

RetryInv == /\ BufferInv /\ ChunksCarded /\ SentWasCarded
            /\ RoundsFollowRetries /\ PostsFollowAttempts /\ PostsBounded

LEMMA CountsAreKept ==
    ASSUME NEW S, NEW n, NEW L, NEW M, Counts(S, n, L),
           \A t \in S : M[t].rounds = L[t].rounds
    PROVE  Counts(S, n, M)
BY DEF Counts

\* The alerts of every group are in the ledger.
LEMMA GroupsAreIssued ==
    ASSUME BufferInv
    PROVE  \A k \in Keys : /\ buffer[k].alerts \subseteq 1 .. issued
                           /\ flight[k].alerts \subseteq 1 .. issued
BY DEF BufferInv, Conservation, Held

\* What the steps other than a dispatch and a post do to the counts.
LEMMA CountsOfOthers ==
    ASSUME TypeOK, NEW t \in 1 .. issued,
           \/ \E h \in Handlers : AcceptRequest(h)
           \/ \E S : \E fate \in Fates : ledger' = Ended(S, fate)
    PROVE  /\ ledger'[t].rounds = ledger[t].rounds
           /\ ledger'[t].posts = ledger[t].posts
<1>1. ledger[t] \in Entry
  BY DEF TypeOK
<1>2. CASE \E h \in Handlers : AcceptRequest(h)
  BY <1>1, <1>2 DEF AcceptRequest, Update, Entry
<1>3. CASE \E S : \E fate \in Fates : ledger' = Ended(S, fate)
  BY <1>1, <1>3 DEF Ended, Update, Entry
<1>4. QED
  BY <1>2, <1>3

\* What a post does to them.
LEMMA CountsOfPosts ==
    ASSUME TypeOK, NEW t \in 1 .. issued, PostSucceeds \/ PostFails
    PROVE  /\ ledger'[t].rounds = ledger[t].rounds
           /\ ledger'[t].posts = ledger[t].posts + (IF t \in Chunk THEN 1 ELSE 0)
<1>1. ledger[t] \in Entry
  BY DEF TypeOK
<1>2. CASE PostSucceeds
  <2>1. ledger'[t] = IF t \in Chunk
                     THEN [ledger[t] EXCEPT !.posts = @ + 1, !.carded = TRUE]
                     ELSE ledger[t]
    BY <1>2 DEF PostSucceeds, Update
  <2>2. QED
    BY <1>1, <2>1 DEF Entry
<1>3. CASE PostFails
  <2>1. ledger'[t] = IF t \in Chunk
                     THEN [ledger[t] EXCEPT !.posts = @ + 1] ELSE ledger[t]
    BY <1>3 DEF PostFails, Update
  <2>2. QED
    BY <1>1, <2>1 DEF Entry
<1>4. QED
  BY <1>2, <1>3

-----------------------------------------------------------------------------
(* Rounds follow retries.                                                  *)

\* Steps after which a group is as it was, or gone, and no dispatch begins.
LEMMA StayingKeepsRounds ==
    ASSUME BufferInv, RoundsFollowRetries,
           \A t \in 1 .. issued : ledger'[t].rounds = ledger[t].rounds,
           \A k \in Keys : \/ buffer'[k].alerts = {}
                           \/ /\ buffer'[k].alerts = buffer[k].alerts
                              /\ buffer'[k].retries = buffer[k].retries,
           \A k \in Keys : \/ flight'[k].alerts = {}
                           \/ flight'[k] = flight[k] /\ Turn(k)' = Turn(k)
    PROVE  RoundsFollowRetries'
<1>1. ASSUME NEW k \in Keys
      PROVE  Counts(buffer'[k].alerts, buffer'[k].retries, ledger')
  <2>1. CASE buffer'[k].alerts = {}
    BY <2>1 DEF Counts
  <2>2. CASE /\ buffer'[k].alerts = buffer[k].alerts
             /\ buffer'[k].retries = buffer[k].retries
    <3>1. Counts(buffer[k].alerts, buffer[k].retries, ledger)
      BY DEF RoundsFollowRetries
    <3>2. \A t \in buffer[k].alerts : ledger'[t].rounds = ledger[t].rounds
      BY GroupsAreIssued
    <3>3. QED
      BY <2>2, <3>1, <3>2, CountsAreKept
  <2>3. QED
    BY <2>1, <2>2
<1>2. ASSUME NEW k \in Keys
      PROVE  Counts(flight'[k].alerts, flight'[k].retries + Turn(k)', ledger')
  <2>1. CASE flight'[k].alerts = {}
    BY <2>1 DEF Counts
  <2>2. CASE flight'[k] = flight[k] /\ Turn(k)' = Turn(k)
    <3>1. Counts(flight[k].alerts, flight[k].retries + Turn(k), ledger)
      BY DEF RoundsFollowRetries
    <3>2. \A t \in flight[k].alerts : ledger'[t].rounds = ledger[t].rounds
      BY GroupsAreIssued
    <3>3. QED
      BY <2>2, <3>1, <3>2, CountsAreKept
  <2>3. QED
    BY <2>1, <2>2
<1>3. QED
  BY <1>1, <1>2 DEF RoundsFollowRetries

\* An alert that joins a group is its youngest, and new to the ledger.
LEMMA BufferAlertKeepsRounds ==
    ASSUME BufferInv, RoundsFollowRetries, NEW h \in Handlers, BufferAlert(h)
    PROVE  RoundsFollowRetries'
<1> DEFINE key == KeyOf(h)
           new == issued + 1
<1>1. /\ TypeOK /\ key \in Keys /\ flight' = flight
      /\ \A k \in Keys : buffer[k] \in Group /\ flight[k] \in Group
      /\ issued \in Nat /\ new \in Nat
      /\ \A t \in 1 .. issued : t \in 1 .. new /\ t < new
  BY BufferAlertEffect DEF BufferInv, TypeOK
<1>2. /\ ledger'[new] = NewEntry
      /\ \A t \in 1 .. issued : ledger'[t] = ledger[t]
  <2>1. ledger' = [t \in 1 .. new |-> IF t = new THEN NewEntry ELSE ledger[t]]
    BY DEF BufferAlert
  <2>2. new \in 1 .. new
    BY <1>1
  <2> HIDE DEF new
  <2>3. QED
    BY <1>1, <2>1, <2>2
<1>3. \A k \in Keys : Turn(k)' = Turn(k)
  BY DEF Turn, BufferAlert, flushVars
<1>4. ASSUME NEW k \in Keys
      PROVE  Counts(flight'[k].alerts, flight'[k].retries + Turn(k)', ledger')
  <2>1. Counts(flight[k].alerts, flight[k].retries + Turn(k), ledger)
    BY DEF RoundsFollowRetries
  <2>2. \A t \in flight[k].alerts : ledger'[t].rounds = ledger[t].rounds
    BY <1>2, GroupsAreIssued
  <2>3. QED
    BY <1>1, <1>3, <2>1, <2>2, CountsAreKept
<1>5. /\ \A k \in Keys : k # key => buffer'[k] = buffer[k]
      /\ buffer'[key].alerts = buffer[key].alerts \cup {new}
      /\ buffer'[key].retries = IF key \in InBuffer THEN buffer[key].retries ELSE 0
  <2>1. CASE key \notin InBuffer
    <3>1. buffer' = [buffer EXCEPT ![key] =
                       [slot |-> inserts + 1, waited |-> 0,
                        since |-> inserts + 1, alerts |-> {new}, retries |-> 0]]
      BY <2>1 DEF BufferAlert
    <3>2. buffer[key].alerts = {}
      BY <1>1, <2>1 DEF InBuffer
    <3> HIDE DEF key, new
    <3>3. QED
      BY <1>1, <2>1, <3>1, <3>2 DEF TypeOK
  <2>2. CASE key \in InBuffer
    <3>1. buffer' = [buffer EXCEPT ![key].alerts = @ \cup {new}]
      BY <2>2 DEF BufferAlert
    <3>2. buffer'[key] = [buffer[key] EXCEPT !.alerts = @ \cup {new}]
      BY <1>1, <3>1 DEF TypeOK
    <3>3. /\ [buffer[key] EXCEPT !.alerts = @ \cup {new}].alerts
               = buffer[key].alerts \cup {new}
          /\ [buffer[key] EXCEPT !.alerts = @ \cup {new}].retries
               = buffer[key].retries
      BY <1>1 DEF Group
    <3>4. \A k \in Keys : k # key => buffer'[k] = buffer[k]
      BY <1>1, <3>1 DEF TypeOK
    <3> HIDE DEF key, new
    <3>5. QED
      BY <2>2, <3>2, <3>3, <3>4
  <2>3. QED
    BY <2>1, <2>2
<1>6. ASSUME NEW k \in Keys, k # key
      PROVE  Counts(buffer'[k].alerts, buffer'[k].retries, ledger')
  <2>1. Counts(buffer[k].alerts, buffer[k].retries, ledger)
    BY DEF RoundsFollowRetries
  <2>2. \A t \in buffer[k].alerts : ledger'[t].rounds = ledger[t].rounds
    BY <1>2, GroupsAreIssued
  <2>3. buffer'[k] = buffer[k]
    BY <1>5, <1>6
  <2>4. QED
    BY <2>1, <2>2, <2>3, CountsAreKept
<1>7. Counts(buffer'[key].alerts, buffer'[key].retries, ledger')
  <2>1. ledger'[new].rounds = 0
    BY <1>2 DEF NewEntry
  <2>2. \A t \in buffer[key].alerts :
           t <= new /\ ledger'[t].rounds = ledger[t].rounds
    BY <1>1, <1>2, GroupsAreIssued
  <2>3. CASE key \notin InBuffer
    <3>1. buffer[key].alerts = {}
      BY <1>1, <2>3 DEF InBuffer
    <3> HIDE DEF key
    <3>2. buffer'[key].alerts = {new} /\ buffer'[key].retries = 0
      BY <1>5, <2>3, <3>1
    <3>3. QED
      BY <1>1, <2>1, <3>2 DEF Counts
  <2>4. CASE key \in InBuffer
    <3>1. PICK u \in buffer[key].alerts :
             /\ ledger[u].rounds = buffer[key].retries
             /\ \A t \in buffer[key].alerts :
                  u <= t /\ ledger[t].rounds <= buffer[key].retries
      BY <1>1, <2>4 DEF RoundsFollowRetries, Counts, InBuffer
    <3>2. buffer[key].retries \in Nat
      BY <1>1, ConfigAssumption DEF Group
    <3>3. /\ buffer'[key].alerts = buffer[key].alerts \cup {new}
          /\ buffer'[key].retries = buffer[key].retries
      BY <1>5, <2>4
    <3> HIDE DEF key, new
    <3>4. QED
      BY <2>1, <2>2, <3>1, <3>2, <3>3 DEF Counts
  <2>5. QED
    BY <2>3, <2>4
<1>8. QED
  BY <1>4, <1>6, <1>7 DEF RoundsFollowRetries

\* A dispatch counts for every alert of the group.
LEMMA DispatchKeepsRounds ==
    ASSUME BufferInv, RoundsFollowRetries, NEW key \in Keys, DispatchGroup(key)
    PROVE  RoundsFollowRetries'
<1>1. /\ flushPc = "next" /\ flushPc' = "send" /\ current' = key
      /\ flight' = flight /\ buffer' = buffer
  BY DEF DispatchGroup, bufferVars
<1>2. \A t \in 1 .. issued :
         ledger'[t].rounds = ledger[t].rounds
                               + (IF t \in flight[key].alerts THEN 1 ELSE 0)
  <2>1. TAKE t \in 1 .. issued
  <2>2. ledger'[t] = IF t \in flight[key].alerts
                     THEN [ledger[t] EXCEPT !.rounds = @ + 1] ELSE ledger[t]
    BY DEF DispatchGroup, Update
  <2>3. ledger[t] \in Entry
    BY DEF BufferInv, TypeOK
  <2>4. QED
    BY <2>2, <2>3 DEF Entry
<1>3. \A t \in 1 .. issued : ledger[t].rounds \in Nat
  BY DEF BufferInv, TypeOK, Entry
<1>4. ASSUME NEW k \in Keys
      PROVE  Counts(buffer'[k].alerts, buffer'[k].retries, ledger')
  <2>1. Counts(buffer[k].alerts, buffer[k].retries, ledger)
    BY DEF RoundsFollowRetries
  <2>2. \A t \in buffer[k].alerts : t \in 1 .. issued /\ t \notin flight[key].alerts
    BY GroupsAreIssued DEF BufferInv, Conservation
  <2>3. \A t \in buffer[k].alerts : ledger'[t].rounds = ledger[t].rounds
    BY <1>2, <1>3, <2>2
  <2>4. QED
    BY <1>1, <2>1, <2>3, CountsAreKept
<1>5. ASSUME NEW k \in Keys, k # key
      PROVE  Counts(flight'[k].alerts, flight'[k].retries + Turn(k)', ledger')
  <2>1. Counts(flight[k].alerts, flight[k].retries + Turn(k), ledger)
    BY DEF RoundsFollowRetries
  <2>2. \A t \in flight[k].alerts : t \in 1 .. issued /\ t \notin flight[key].alerts
    BY <1>5, GroupsAreIssued DEF BufferInv, Conservation
  <2>3. \A t \in flight[k].alerts : ledger'[t].rounds = ledger[t].rounds
    BY <1>2, <1>3, <2>2
  <2>4. Turn(k)' = Turn(k)
    BY <1>1, <1>5 DEF Turn
  <2>5. QED
    BY <1>1, <2>1, <2>3, <2>4, CountsAreKept
<1>6. Counts(flight'[key].alerts, flight'[key].retries + Turn(key)', ledger')
  <2>1. Turn(key) = 0 /\ Turn(key)' = 1
    BY <1>1 DEF Turn
  <2>2. flight[key].retries \in Nat
    BY ConfigAssumption DEF BufferInv, TypeOK, Group
  <2>3. key \in InFlight
    BY DEF DispatchGroup
  <2>4. PICK u \in flight[key].alerts :
           /\ ledger[u].rounds = flight[key].retries
           /\ \A t \in flight[key].alerts :
                u <= t /\ ledger[t].rounds <= flight[key].retries
    BY <2>1, <2>2, <2>3 DEF RoundsFollowRetries, Counts, InFlight
  <2>5. \A t \in flight[key].alerts :
           /\ ledger[t].rounds \in Nat
           /\ ledger'[t].rounds = ledger[t].rounds + 1
    BY <1>2, <1>3, GroupsAreIssued
  <2>6. QED
    BY <1>1, <2>1, <2>2, <2>4, <2>5 DEF Counts
<1>7. QED
  BY <1>4, <1>5, <1>6 DEF RoundsFollowRetries

\* The scan moves groups with their counts.
LEMMA ScanKeepsRounds ==
    ASSUME BufferInv, RoundsFollowRetries, ScanBuffer
    PROVE  RoundsFollowRetries'
<1>1. /\ ledger' = ledger /\ flushPc' = "next"
      /\ \A k \in Keys : /\ flight'[k] = IF k \in Due THEN buffer[k] ELSE NoGroup
                         /\ buffer'[k] = IF k \in Due THEN NoGroup ELSE buffer[k]
  BY DEF ScanBuffer, RemainingBuffer, history
<1>2. \A k \in Keys : Turn(k)' = 0
  BY <1>1 DEF Turn
<1>3. \A k \in Keys : buffer[k].retries + 0 = buffer[k].retries
  BY ConfigAssumption DEF BufferInv, TypeOK, Group
<1>4. \A n : Counts(NoGroup.alerts, n, ledger)
  BY DEF Counts, NoGroup
<1>5. \A k \in Keys : Counts(buffer[k].alerts, buffer[k].retries, ledger)
  BY DEF RoundsFollowRetries
<1>6. \A k \in Keys : /\ Counts(buffer'[k].alerts, buffer'[k].retries, ledger')
                      /\ Counts(flight'[k].alerts, flight'[k].retries + 0, ledger')
  BY <1>1, <1>3, <1>4, <1>5
<1>7. QED
  BY <1>2, <1>6 DEF RoundsFollowRetries

\* A group that is put back counts the dispatch that failed.
LEMMA RequeueKeepsRounds ==
    ASSUME BufferInv, RoundsFollowRetries, GroupRequeued
    PROVE  RoundsFollowRetries'
<1>1. /\ TypeOK /\ current \in Keys /\ flushPc = "requeue"
      /\ flushPc' = "next" /\ ~Exhausted
  BY DEF BufferInv, FlushCoherent, GroupRequeued, InFlight, LeaveFlight
<1>2. \A t \in 1 .. issued : ledger'[t].rounds = ledger[t].rounds
  BY <1>1, CountsOfOthers DEF GroupRequeued, Fates
<1>3. buffer' = [buffer EXCEPT ![current] = RequeuedGroup]
  BY DEF GroupRequeued
<1>4. RequeuedGroup.retries = flight[current].retries + 1
  <2>1. flight[current] \in Group
    BY <1>1 DEF TypeOK
  <2>2. QED
    BY <2>1 DEF RequeuedGroup, Group
<1>5. /\ buffer'[current].alerts = flight[current].alerts
      /\ buffer'[current].retries = flight[current].retries + 1
      /\ \A k \in Keys : k # current => buffer'[k] = buffer[k]
  BY <1>1, <1>3, <1>4, RequeuedGroupType DEF TypeOK, Alerts
<1>6. ASSUME NEW k \in Keys
      PROVE  Counts(buffer'[k].alerts, buffer'[k].retries, ledger')
  <2>1. CASE k = current
    <3>1. Turn(k) = 1
      BY <1>1, <2>1 DEF Turn
    <3>2. Counts(flight[k].alerts, flight[k].retries + 1, ledger)
      BY <3>1 DEF RoundsFollowRetries
    <3>3. \A t \in flight[k].alerts : ledger'[t].rounds = ledger[t].rounds
      BY <1>2, GroupsAreIssued
    <3>4. QED
      BY <1>5, <2>1, <3>2, <3>3, CountsAreKept
  <2>2. CASE k # current
    <3>1. Counts(buffer[k].alerts, buffer[k].retries, ledger)
      BY DEF RoundsFollowRetries
    <3>2. \A t \in buffer[k].alerts : ledger'[t].rounds = ledger[t].rounds
      BY <1>2, GroupsAreIssued
    <3>3. QED
      BY <1>5, <2>2, <3>1, <3>2, CountsAreKept
  <2>3. QED
    BY <2>1, <2>2
<1>7. ASSUME NEW k \in Keys
      PROVE  Counts(flight'[k].alerts, flight'[k].retries + Turn(k)', ledger')
  <2>1. CASE k = current
    <3>1. flight'[k].alerts = {}
      BY <2>1, <1>1, LeaveFlightEffect DEF GroupRequeued
    <3>2. QED
      BY <3>1 DEF Counts
  <2>2. CASE k # current
    <3>1. flight'[k] = flight[k]
      BY <2>2, <1>1 DEF GroupRequeued, LeaveFlight, TypeOK
    <3>2. Turn(k) = 0 /\ Turn(k)' = 0
      BY <1>1, <2>2 DEF Turn
    <3>3. Counts(flight[k].alerts, flight[k].retries + 0, ledger)
      BY <3>2 DEF RoundsFollowRetries
    <3>4. \A t \in flight[k].alerts : ledger'[t].rounds = ledger[t].rounds
      BY <1>2, GroupsAreIssued
    <3>5. QED
      BY <3>1, <3>2, <3>3, <3>4, CountsAreKept
  <2>3. QED
    BY <2>1, <2>2
<1>8. QED
  BY <1>6, <1>7 DEF RoundsFollowRetries

\* The steps that leave the groups and their counts as they are.
LEMMA IdleStepEffect ==
    ASSUME TypeOK,
           \/ \E h \in Handlers, r \in Requests :
                 ReceiveNothing(h, r) \/ ReceiveAlerts(h, r)
           \/ \E h \in Handlers : SkipAlert(h) \/ RejectRequest(h) \/ AcceptRequest(h)
           \/ UNCHANGED vars
    PROVE  /\ UNCHANGED <<bufferVars, flushVars, issued>>
           /\ \A t \in 1 .. issued : /\ ledger'[t].rounds = ledger[t].rounds
                                     /\ ledger'[t].posts = ledger[t].posts
<1>1. CASE \E h \in Handlers : AcceptRequest(h)
  BY <1>1, CountsOfOthers DEF AcceptRequest
<1>2. CASE \/ \E h \in Handlers, r \in Requests :
                 ReceiveNothing(h, r) \/ ReceiveAlerts(h, r)
           \/ \E h \in Handlers : SkipAlert(h) \/ RejectRequest(h)
           \/ UNCHANGED vars
  BY <1>2 DEF ReceiveNothing, ReceiveAlerts, SkipAlert, RejectRequest, vars, history
<1>3. QED
  BY <1>1, <1>2

\* The steps that end alerts.
LEMMA EndingStepEffect ==
    ASSUME TypeOK, GroupSent \/ GroupDropped \/ GroupRequeued \/ Crash
    PROVE  /\ issued' = issued /\ flushPc' \in {"scan", "next"} /\ attempt' = 1
           /\ \A t \in 1 .. issued : /\ ledger'[t].rounds = ledger[t].rounds
                                     /\ ledger'[t].posts = ledger[t].posts
<1>1. \E S : \E fate \in Fates : ledger' = Ended(S, fate)
  BY DEF GroupSent, GroupDropped, GroupRequeued, Crash, Fates
<1>2. issued' = issued /\ flushPc' \in {"scan", "next"} /\ attempt' = 1
  BY DEF GroupSent, GroupDropped, GroupRequeued, Crash, LeaveFlight, EndOfDispatch
<1>3. QED
  BY <1>1, <1>2, CountsOfOthers

LEMMA NextKeepsRounds ==
    ASSUME BufferInv, RoundsFollowRetries, [Next]_vars
    PROVE  RoundsFollowRetries'
<1>0. TypeOK /\ FlushCoherent
  BY DEF BufferInv
<1>1. CASE \/ \E h \in Handlers, r \in Requests :
                 ReceiveNothing(h, r) \/ ReceiveAlerts(h, r)
           \/ \E h \in Handlers : SkipAlert(h) \/ RejectRequest(h) \/ AcceptRequest(h)
           \/ UNCHANGED vars
  <2>1. /\ UNCHANGED <<buffer, flight, flushPc, current>>
        /\ \A t \in 1 .. issued : ledger'[t].rounds = ledger[t].rounds
    BY <1>0, <1>1, IdleStepEffect DEF bufferVars, flushVars
  <2>2. \A k \in Keys : Turn(k)' = Turn(k)
    BY <2>1 DEF Turn
  <2>3. QED
    BY <2>1, <2>2, StayingKeepsRounds
<1>2. ASSUME NEW h \in Handlers, BufferAlert(h) PROVE RoundsFollowRetries'
  BY <1>2, BufferAlertKeepsRounds
<1>3. CASE ScanBuffer
  BY <1>3, ScanKeepsRounds
<1>4. ASSUME NEW k \in Keys, DispatchGroup(k) PROVE RoundsFollowRetries'
  BY <1>4, DispatchKeepsRounds
<1>5. CASE EndOfRound \/ DispatchRaises \/ StampGroup
  <2>1. UNCHANGED <<buffer, flight, current, issued, ledger>>
    BY <1>5 DEF EndOfRound, DispatchRaises, StampGroup, bufferVars, history
  <2>2. \A k \in Keys : Turn(k)' = Turn(k)
    BY <1>5, <2>1 DEF Turn, EndOfRound, DispatchRaises, StampGroup
  <2>3. QED
    BY <2>1, <2>2, StayingKeepsRounds
<1>6. CASE PostSucceeds \/ PostFails
  <2>1. UNCHANGED <<buffer, flight, current>>
    BY <1>6 DEF PostSucceeds, PostFails, bufferVars
  <2>2. \A k \in Keys : Turn(k)' = Turn(k)
    BY <1>6, <2>1 DEF Turn, PostSucceeds, PostFails, NextChunk
  <2>3. QED
    BY <1>0, <1>6, <2>1, <2>2, CountsOfPosts, StayingKeepsRounds
<1>7. CASE GroupSent \/ GroupDropped
  <2>1. /\ buffer' = buffer /\ LeaveFlight /\ flushPc = "settle"
        /\ flushPc' = "next"
    BY <1>7 DEF GroupSent, GroupDropped, bufferVars, LeaveFlight
  <2>2. \A k \in Keys : \/ flight'[k].alerts = {}
                        \/ flight'[k] = flight[k] /\ Turn(k)' = Turn(k)
    <3>1. TAKE k \in Keys
    <3>2. CASE k = current
      BY <1>0, <2>1, <3>2, LeaveFlightEffect
    <3>3. CASE k # current
      BY <1>0, <2>1, <3>3 DEF LeaveFlight, TypeOK, Turn
    <3>4. QED
      BY <3>2, <3>3
  <2>3. QED
    BY <1>0, <1>7, <2>1, <2>2, EndingStepEffect, StayingKeepsRounds
<1>8. CASE GroupRequeued
  BY <1>8, RequeueKeepsRounds
<1>9. CASE ClockStep
  <2>1. UNCHANGED <<flight, flushPc, current, issued, ledger>>
    BY <1>9 DEF ClockStep, Tick, SetClockBack, history
  <2>2. \A k \in Keys : Turn(k)' = Turn(k)
    BY <2>1 DEF Turn
  <2>3. \A k \in Keys : buffer'[k].retries = buffer[k].retries
    <3>1. \A k \in Keys : buffer[k] \in Group
      BY <1>0 DEF TypeOK
    <3>2. QED
      BY <1>9, <3>1 DEF ClockStep, Tick, SetClockBack, Group
  <2>4. QED
    BY <1>0, <1>9, <2>1, <2>2, <2>3, ClockEffect, StayingKeepsRounds
<1>10. CASE Crash
  <2>1. \A k \in Keys : buffer'[k].alerts = {} /\ flight'[k].alerts = {}
    BY <1>10 DEF Crash, NoGroup
  <2>2. QED
    BY <1>0, <1>10, <2>1, EndingStepEffect, StayingKeepsRounds
<1>11. QED
  BY <1>1, <1>2, <1>3, <1>4, <1>5, <1>6, <1>7, <1>8, <1>9, <1>10
     DEF Next, ClockStep, HandlerNext, HandlerStep, FlushStep

-----------------------------------------------------------------------------
(* Posts follow attempts.                                                  *)

LEMMA Product ==
    ASSUME NEW r \in Nat
    PROVE  /\ r * SEND_MAX_ATTEMPTS \in Nat
           /\ (r + 1) * SEND_MAX_ATTEMPTS = r * SEND_MAX_ATTEMPTS + SEND_MAX_ATTEMPTS
           /\ 0 * SEND_MAX_ATTEMPTS = 0
           /\ SEND_MAX_ATTEMPTS \in Nat \ {0}
BY ConfigAssumption

LEMMA EntryCounts ==
    ASSUME TypeOK, NEW t \in 1 .. issued
    PROVE  ledger[t].rounds \in Nat /\ ledger[t].posts \in Nat
BY DEF TypeOK, Entry

\* Steps that neither dispatch nor post.
LEMMA OutsideKeepsPosts ==
    ASSUME RetryInv, issued <= issued', issued' \in Nat,
           \A t \in 1 .. issued : /\ ledger'[t].rounds = ledger[t].rounds
                                  /\ ledger'[t].posts = ledger[t].posts,
           \A t \in 1 .. issued' :
               \/ t \in 1 .. issued
               \/ ledger'[t].rounds = 0 /\ ledger'[t].posts = 0,
           \/ UNCHANGED <<flight, flushPc, current, start, attempt>>
           \/ flushPc' \in {"scan", "next"} /\ attempt' = 1
           \/ flushPc' \in {"settle", "requeue"}
    PROVE  PostsFollowAttempts' /\ PostsBounded'
<1>1. PostsBounded'
  <2>1. SEND_REQUEUE_MAX_RETRIES + 1 \in Nat
    BY ConfigAssumption
  <2>2. 0 * SEND_MAX_ATTEMPTS = 0
    BY Product
  <2>3. QED
    BY <2>1, <2>2 DEF RetryInv, PostsBounded
<1>2. CASE UNCHANGED <<flight, flushPc, current, start, attempt>>
  <2>1. /\ Alerts' = Alerts /\ Chunk' = Chunk
        /\ \A t \in Alerts : Rank(t, Alerts)' = Rank(t, Alerts)
    BY <1>2 DEF Alerts, Chunk, Rank
  <2>2. flushPc = "send" => Alerts \subseteq 1 .. issued
    BY DispatchedAlerts DEF RetryInv
  <2>3. QED
    BY <1>1, <1>2, <2>1, <2>2 DEF RetryInv, PostsFollowAttempts
<1>3. CASE flushPc' \in {"scan", "next"} /\ attempt' = 1
  BY <1>1, <1>3 DEF PostsFollowAttempts
<1>4. CASE flushPc' \in {"settle", "requeue"}
  BY <1>1, <1>4 DEF PostsFollowAttempts
<1>5. QED
  BY <1>2, <1>3, <1>4

\* A dispatch grants every alert of the group another SEND_MAX_ATTEMPTS posts.
LEMMA DispatchKeepsPosts ==
    ASSUME RetryInv, NEW k \in Keys, DispatchGroup(k)
    PROVE  PostsFollowAttempts' /\ PostsBounded'
<1>1. /\ TypeOK /\ flushPc = "next" /\ flushPc' = "send" /\ current' = k
      /\ flight' = flight /\ issued' = issued /\ attempt' = attempt
      /\ k \in InFlight /\ flight[k].alerts \subseteq 1 .. issued
  BY GroupsAreIssued DEF RetryInv, BufferInv, DispatchGroup, chunkVars
<1>2. attempt' = 1
  BY <1>1 DEF RetryInv, PostsFollowAttempts
<1>3. \A t \in 1 .. issued :
         /\ ledger'[t].rounds = ledger[t].rounds
                                  + (IF t \in flight[k].alerts THEN 1 ELSE 0)
         /\ ledger'[t].posts = ledger[t].posts
  <2>1. TAKE t \in 1 .. issued
  <2>2. ledger'[t] = IF t \in flight[k].alerts
                     THEN [ledger[t] EXCEPT !.rounds = @ + 1] ELSE ledger[t]
    BY DEF DispatchGroup, Update
  <2>3. ledger[t] \in Entry
    BY <1>1 DEF TypeOK
  <2>4. QED
    BY <2>2, <2>3 DEF Entry
<1>4. \A t \in flight[k].alerts :
         /\ ledger[t].rounds \in Nat
         /\ ledger[t].rounds <= SEND_REQUEUE_MAX_RETRIES
  <2>1. Turn(k) = 0
    BY <1>1 DEF Turn
  <2>2. /\ flight[k].retries \in Nat
        /\ flight[k].retries <= SEND_REQUEUE_MAX_RETRIES
    BY <1>1, ConfigAssumption DEF TypeOK, Group
  <2>3. \A t \in flight[k].alerts : ledger[t].rounds <= flight[k].retries
    BY <1>1, <2>1, <2>2 DEF RetryInv, RoundsFollowRetries, Counts, InFlight
  <2>4. \A t \in flight[k].alerts : ledger[t].rounds \in Nat
    BY <1>1, EntryCounts
  <2>5. QED
    BY <2>2, <2>3, <2>4, ConfigAssumption
<1>5. ASSUME NEW t \in 1 .. issued
      PROVE  /\ ledger'[t].rounds <= SEND_REQUEUE_MAX_RETRIES + 1
             /\ ledger'[t].posts <= ledger'[t].rounds * SEND_MAX_ATTEMPTS
             /\ t \in flight[k].alerts =>
                  ledger'[t].posts + SEND_MAX_ATTEMPTS
                    <= ledger'[t].rounds * SEND_MAX_ATTEMPTS
  <2>1. /\ ledger[t].rounds <= SEND_REQUEUE_MAX_RETRIES + 1
        /\ ledger[t].posts <= ledger[t].rounds * SEND_MAX_ATTEMPTS
        /\ ledger[t].rounds \in Nat /\ ledger[t].posts \in Nat
    BY <1>1, EntryCounts DEF RetryInv, PostsBounded
  <2>2. /\ ledger[t].rounds * SEND_MAX_ATTEMPTS \in Nat
        /\ SEND_MAX_ATTEMPTS \in Nat
        /\ (ledger[t].rounds + 1) * SEND_MAX_ATTEMPTS
             = ledger[t].rounds * SEND_MAX_ATTEMPTS + SEND_MAX_ATTEMPTS
    BY <2>1, Product
  <2>3. CASE t \in flight[k].alerts
    <3>1. ledger'[t].rounds = ledger[t].rounds + 1
          /\ ledger'[t].posts = ledger[t].posts
      BY <1>3, <2>3
    <3>2. ledger'[t].rounds * SEND_MAX_ATTEMPTS
            = ledger[t].rounds * SEND_MAX_ATTEMPTS + SEND_MAX_ATTEMPTS
      BY <2>2, <3>1
    <3>3. ledger[t].rounds <= SEND_REQUEUE_MAX_RETRIES
      BY <1>4, <2>3
    <3>4. QED
      BY <2>1, <2>2, <3>1, <3>2, <3>3, ConfigAssumption
  <2>4. CASE t \notin flight[k].alerts
    <3>1. ledger'[t].rounds = ledger[t].rounds
          /\ ledger'[t].posts = ledger[t].posts
      BY <1>3, <2>1, <2>4
    <3>2. QED
      BY <2>1, <2>4, <3>1
  <2>5. QED
    BY <2>3, <2>4
<1>6. PostsBounded'
  BY <1>1, <1>5 DEF PostsBounded
<1>7. PostsFollowAttempts'
  <2>1. Alerts' = flight[k].alerts
    BY <1>1 DEF Alerts
  <2>2. \A t \in flight[k].alerts :
           /\ ledger'[t].posts \in Nat /\ SEND_MAX_ATTEMPTS \in Nat
           /\ ledger'[t].rounds * SEND_MAX_ATTEMPTS \in Nat
           /\ ledger'[t].posts + SEND_MAX_ATTEMPTS
                <= ledger'[t].rounds * SEND_MAX_ATTEMPTS
    <3>1. TAKE t \in flight[k].alerts
    <3>2. /\ ledger'[t].rounds = ledger[t].rounds + 1
          /\ ledger'[t].posts = ledger[t].posts
          /\ ledger[t].rounds \in Nat /\ ledger[t].posts \in Nat
      BY <1>1, <1>3, EntryCounts
    <3>3. ledger[t].rounds + 1 \in Nat
      BY <3>2
    <3>4. ledger'[t].rounds * SEND_MAX_ATTEMPTS \in Nat /\ SEND_MAX_ATTEMPTS \in Nat
      BY <3>2, <3>3, Product
    <3>5. QED
      BY <1>1, <1>5, <3>2, <3>4
  <2>3. attempt' - 1 = 0
    BY <1>2
  <2>4. QED
    BY <1>1, <2>1, <2>2, <2>3 DEF PostsFollowAttempts
<1>8. QED
  BY <1>6, <1>7

\* A post takes one of the attempts that are left to the alerts of the chunk.
LEMMA PostKeepsPosts ==
    ASSUME RetryInv, PostSucceeds \/ PostFails
    PROVE  PostsFollowAttempts' /\ PostsBounded'
<1> DEFINE A == SEND_MAX_ATTEMPTS
           Quota(t) == ledger[t].rounds * A
<1>1. /\ TypeOK /\ flushPc = "send" /\ UNCHANGED <<flight, current, issued>>
      /\ Alerts \in SUBSET (1 .. issued) /\ issued \in Nat
  BY DispatchedAlerts DEF RetryInv, BufferInv, TypeOK, PostSucceeds, PostFails
<1>2. /\ Alerts' = Alerts
      /\ \A t \in Alerts : Rank(t, Alerts)' = Rank(t, Alerts)
  BY <1>1 DEF Alerts, Rank
<1>3. /\ A \in Nat \ {0} /\ attempt \in Nat /\ 1 <= attempt /\ attempt <= A
      /\ start \in Nat /\ MAX_MERGE_COUNT \in Nat \ {0}
      /\ start + MAX_MERGE_COUNT \in Nat
  BY <1>1, ConfigAssumption DEF TypeOK
<1>4. \A t \in 1 .. issued : /\ Quota(t) \in Nat
                             /\ ledger[t].rounds \in Nat
                             /\ ledger[t].posts \in Nat
  BY <1>1, EntryCounts, Product
<1>5. \A t \in 1 .. issued :
         /\ ledger'[t].rounds = ledger[t].rounds
         /\ ledger'[t].posts = ledger[t].posts + (IF t \in Chunk THEN 1 ELSE 0)
  BY <1>1, CountsOfPosts
<1>6. \A t \in Alerts : Rank(t, Alerts) \in Nat
  BY <1>1, RankBounds
<1>7. \A t \in Chunk : /\ t \in Alerts /\ t \in 1 .. issued
                       /\ start < Rank(t, Alerts)
                       /\ Rank(t, Alerts) <= start + MAX_MERGE_COUNT
  BY <1>1 DEF Chunk
<1>8. \A t \in Chunk : ledger[t].posts + A <= Quota(t) + attempt - 1
  <2>1. TAKE t \in Chunk
  <2>2. ledger[t].posts + A <= Quota(t) + (attempt - 1)
    BY <1>1, <1>7 DEF RetryInv, PostsFollowAttempts
  <2>3. QED
    BY <1>3, <1>4, <1>7, <2>2
<1>9. PostsBounded'
  <2>1. ASSUME NEW t \in 1 .. issued
        PROVE  /\ ledger'[t].rounds <= SEND_REQUEUE_MAX_RETRIES + 1
               /\ ledger'[t].posts <= ledger'[t].rounds * A
    <3>1. /\ ledger[t].rounds <= SEND_REQUEUE_MAX_RETRIES + 1
          /\ ledger[t].posts <= Quota(t)
      BY DEF RetryInv, PostsBounded
    <3>2. ledger'[t].rounds = ledger[t].rounds
      BY <1>5
    <3>3. CASE t \in Chunk
      <4>1. ledger[t].posts + A <= Quota(t) + attempt - 1
        BY <1>8, <3>3
      <4>2. ledger'[t].posts = ledger[t].posts + 1
        BY <1>5, <3>3
      <4>3. Quota(t) = ledger'[t].rounds * A
        BY <3>2
      <4>4. ledger'[t].posts <= Quota(t)
        <5> HIDE DEF Quota
        <5>1. QED
          BY <1>3, <1>4, <4>1, <4>2
      <4>5. QED
        BY <3>1, <3>2, <4>3, <4>4
    <3>4. CASE t \notin Chunk
      BY <1>4, <1>5, <3>1, <3>2, <3>4
    <3>5. QED
      BY <3>3, <3>4
  <2>2. QED
    BY <1>1, <2>1 DEF PostsBounded
<1>10. CASE NextChunk /\ ~MoreChunks
  BY <1>9, <1>10 DEF NextChunk, PostsFollowAttempts
<1>11. CASE NextChunk /\ MoreChunks
  <2>1. /\ start' = start + MAX_MERGE_COUNT /\ attempt' = 1
        /\ flushPc' = "send"
    BY <1>1, <1>11 DEF NextChunk
  <2>2. ASSUME NEW t \in Alerts, start' < Rank(t, Alerts)
        PROVE  ledger'[t].posts + A
                 <= ledger'[t].rounds * A + (IF t \in Chunk' THEN attempt' - 1 ELSE 0)
    <3>1. t \notin Chunk /\ start < Rank(t, Alerts) /\ t \in 1 .. issued
      BY <1>1, <1>3, <1>6, <1>7, <2>1, <2>2
    <3>2. ledger[t].posts + A <= Quota(t) + 0
      BY <1>1, <2>2, <3>1 DEF RetryInv, PostsFollowAttempts
    <3>3. (IF t \in Chunk' THEN attempt' - 1 ELSE 0) = 0
      BY <2>1
    <3>4. ledger'[t].posts = ledger[t].posts /\ ledger'[t].rounds = ledger[t].rounds
      BY <1>4, <1>5, <3>1
    <3>5. QED
      BY <3>2, <3>3, <3>4
  <2>3. QED
    BY <1>2, <1>9, <2>1, <2>2 DEF PostsFollowAttempts
<1>12. CASE attempt' = attempt + 1 /\ UNCHANGED <<start, flushPc>>
  <2>1. Chunk' = Chunk
    BY <1>12, <1>1 DEF Chunk, Alerts, Rank
  <2>2. ASSUME NEW t \in Alerts, start' < Rank(t, Alerts)
        PROVE  ledger'[t].posts + A
                 <= ledger'[t].rounds * A + (IF t \in Chunk THEN attempt' - 1 ELSE 0)
    <3>1. t \in 1 .. issued /\ ledger'[t].rounds = ledger[t].rounds
      BY <1>1, <1>5
    <3>2. Quota(t) = ledger'[t].rounds * A
      BY <3>1
    <3>3. CASE t \in Chunk
      <4>1. ledger[t].posts + A <= Quota(t) + attempt - 1
        BY <1>8, <3>3
      <4>2. ledger'[t].posts = ledger[t].posts + 1
        BY <1>5, <3>1, <3>3
      <4> HIDE DEF Quota
      <4>3. ledger'[t].posts + A <= Quota(t) + (attempt' - 1)
        BY <1>3, <1>4, <1>12, <3>1, <4>1, <4>2
      <4>4. QED
        BY <3>2, <3>3, <4>3
    <3>4. CASE t \notin Chunk
      <4>1. ledger[t].posts + A <= Quota(t) + 0
        BY <1>1, <1>12, <2>2, <3>4 DEF RetryInv, PostsFollowAttempts
      <4>2. ledger'[t].posts = ledger[t].posts
        BY <1>4, <1>5, <3>1, <3>4
      <4>3. QED
        BY <3>2, <3>4, <4>1, <4>2
    <3>5. QED
      BY <3>3, <3>4
  <2>3. flushPc' = "send"
    BY <1>1, <1>12
  <2>4. QED
    BY <1>2, <1>9, <2>1, <2>2, <2>3 DEF PostsFollowAttempts
<1>13. QED
  BY <1>10, <1>11, <1>12 DEF PostSucceeds, PostFails

LEMMA NextKeepsPosts ==
    ASSUME RetryInv, [Next]_vars
    PROVE  PostsFollowAttempts' /\ PostsBounded'
<1>0. TypeOK /\ issued \in Nat
  BY DEF RetryInv, BufferInv, TypeOK
<1>1. CASE \/ \E h \in Handlers, r \in Requests :
                 ReceiveNothing(h, r) \/ ReceiveAlerts(h, r)
           \/ \E h \in Handlers : SkipAlert(h) \/ RejectRequest(h) \/ AcceptRequest(h)
           \/ UNCHANGED vars
  <2>1. UNCHANGED <<flight, flushPc, current, start, attempt, issued>>
    BY <1>0, <1>1, IdleStepEffect DEF flushVars, chunkVars
  <2>2. QED
    BY <1>0, <1>1, <2>1, IdleStepEffect, OutsideKeepsPosts
<1>2. ASSUME NEW h \in Handlers, BufferAlert(h)
      PROVE  PostsFollowAttempts' /\ PostsBounded'
  <2> DEFINE new == issued + 1
  <2>1. /\ UNCHANGED <<flight, flushPc, current, start, attempt>>
        /\ issued' = new
        /\ ledger' = [t \in 1 .. new |-> IF t = new THEN NewEntry ELSE ledger[t]]
    BY <1>2 DEF BufferAlert, flushVars, chunkVars
  <2>2. /\ new \in Nat /\ issued <= new /\ new \notin 1 .. issued
        /\ 1 .. new = 1 .. issued \cup {new}
    BY <1>0
  <2>3. NewEntry.rounds = 0 /\ NewEntry.posts = 0
    BY DEF NewEntry
  <2> HIDE DEF new
  <2>4. /\ \A t \in 1 .. issued : ledger'[t] = ledger[t]
        /\ ledger'[new] = NewEntry
    BY <2>1, <2>2
  <2>5. QED
    BY <2>1, <2>2, <2>3, <2>4, OutsideKeepsPosts
<1>3. CASE ScanBuffer \/ EndOfRound \/ DispatchRaises \/ StampGroup \/ ClockStep
  <2>1. /\ UNCHANGED <<issued, ledger>>
        /\ \/ UNCHANGED <<flight, flushPc, current, start, attempt>>
           \/ flushPc \in {"scan", "next"} /\ attempt' = attempt
                /\ flushPc' \in {"scan", "next"}
           \/ flushPc' \in {"settle", "requeue"}
    BY <1>3 DEF ScanBuffer, EndOfRound, DispatchRaises, StampGroup, ClockStep,
                Tick, SetClockBack, chunkVars, history
  <2>2. flushPc \in {"scan", "next"} => attempt = 1
    BY DEF RetryInv, PostsFollowAttempts
  <2>3. QED
    BY <1>0, <2>1, <2>2, OutsideKeepsPosts
<1>4. ASSUME NEW k \in Keys, DispatchGroup(k)
      PROVE  PostsFollowAttempts' /\ PostsBounded'
  BY <1>4, DispatchKeepsPosts
<1>5. CASE PostSucceeds \/ PostFails
  BY <1>5, PostKeepsPosts
<1>6. CASE GroupSent \/ GroupDropped \/ GroupRequeued \/ Crash
  BY <1>0, <1>6, EndingStepEffect, OutsideKeepsPosts
<1>7. QED
  BY <1>1, <1>2, <1>3, <1>4, <1>5, <1>6
     DEF Next, ClockStep, HandlerNext, HandlerStep, FlushStep

LEMMA RetryInvariant == Spec => []RetryInv
<1>1. Init => RetryInv
  <2> SUFFICES ASSUME Init PROVE RetryInv
    OBVIOUS
  <2>1. BufferInv
    BY InitBufferInv
  <2>2. ChunksCarded /\ SentWasCarded /\ PostsBounded /\ PostsFollowAttempts
    BY DEF Init, ChunksCarded, SentWasCarded, PostsBounded, PostsFollowAttempts
  <2>3. RoundsFollowRetries
    BY DEF Init, RoundsFollowRetries, Counts, NoGroup
  <2>4. QED
    BY <2>1, <2>2, <2>3 DEF RetryInv
<1>2. RetryInv /\ [Next]_vars => RetryInv'
  <2> SUFFICES ASSUME RetryInv, [Next]_vars PROVE RetryInv'
    OBVIOUS
  <2>1. BufferInv'
    BY NextTypeOK, NextFlushCoherent, NextConserves, NextFlightIsOlder
       DEF RetryInv, BufferInv
  <2>2. ChunksCarded' /\ SentWasCarded'
    BY NextKeepsCards DEF RetryInv, CardInv
  <2>3. RoundsFollowRetries'
    BY NextKeepsRounds DEF RetryInv
  <2>4. PostsFollowAttempts' /\ PostsBounded'
    BY NextKeepsPosts
  <2>5. QED
    BY <2>1, <2>2, <2>3, <2>4 DEF RetryInv
<1>3. QED
  BY <1>1, <1>2, PTL DEF Spec

\* An alert takes part in at most SEND_REQUEUE_MAX_RETRIES + 1 dispatches, and
\* each of them posts it at most SEND_MAX_ATTEMPTS times, whatever joins or
\* replaces its group: the number of duplicate cards is bounded.
THEOREM RetriesAreBounded == Spec => []PostsBounded
<1>1. RetryInv => PostsBounded
  BY DEF RetryInv
<1>2. QED
  BY <1>1, RetryInvariant, PTL

-----------------------------------------------------------------------------
(* What no step may do to a group.                                         *)

\* Only GroupDropped gives "dropped" for a fate, and only to the group that
\* is being dispatched.
LEMMA DroppedAreInFlight ==
    ASSUME BufferInv, [Next]_vars, NEW t \in 1 .. issued,
           Fate(t) = "queued", ledger'[t].fate = "dropped"
    PROVE  GroupDropped /\ t \in Alerts
<1>0. TypeOK /\ FlushCoherent
  BY DEF BufferInv
<1>1. ~QuietStep
  BY <1>0, QuietStepEffect
<1>2. ~ScanBuffer /\ ~ClockStep
  BY <1>0, ScanEffect, ClockEffect DEF Fate
<1>3. \A h \in Handlers : ~BufferAlert(h)
  <2>1. SUFFICES ASSUME NEW h \in Handlers, BufferAlert(h) PROVE FALSE
    OBVIOUS
  <2>2. /\ ledger' = [n \in 1 .. issued + 1 |->
                        IF n = issued + 1 THEN NewEntry ELSE ledger[n]]
        /\ t \in 1 .. issued + 1 /\ t # issued + 1
    BY <1>0, <2>1 DEF BufferAlert, TypeOK
  <2>3. QED
    BY <2>2 DEF Fate
<1>4. ~GroupSent /\ ~GroupRequeued /\ ~Crash
  BY <1>0, EndedFate DEF GroupSent, GroupRequeued, Crash, Fates
<1>5. GroupDropped
  BY <1>1, <1>2, <1>3, <1>4
     DEF Next, ClockStep, HandlerNext, HandlerStep, FlushStep, QuietStep
<1>6. t \in Alerts
  BY <1>0, <1>5, EndedFate DEF GroupDropped, Fates
<1>7. QED
  BY <1>5, <1>6

\* A group is given up only when its oldest alert has been dispatched
\* SEND_REQUEUE_MAX_RETRIES + 1 times: no restart of the count, no alert that
\* joins and no group that is replaced brings the end forward.
THEOREM DropsTakeAllRounds == Spec => DropsAreExhausted
<1>1. ASSUME RetryInv, [Next]_vars, NEW t \in 1 .. issued,
             Fate(t) = "queued", ledger'[t].fate = "dropped"
      PROVE  \E u \in 1 .. t :
                /\ ledger[u].rounds = SEND_REQUEUE_MAX_RETRIES + 1
                /\ Fate(u) = "queued" /\ ledger'[u].fate = "dropped"
  <2>1. GroupDropped /\ t \in Alerts /\ TypeOK /\ Conservation
    BY <1>1, DroppedAreInFlight DEF RetryInv, BufferInv
  <2>2. /\ current \in Keys /\ flushPc = "settle"
        /\ Alerts \subseteq 1 .. issued
    BY <1>1, <2>1, GroupsAreIssued
       DEF RetryInv, BufferInv, FlushCoherent, InFlight, GroupDropped, Alerts
  <2>3. flight[current].retries + 1 = SEND_REQUEUE_MAX_RETRIES + 1
    <3>1. flight[current].retries \in 0 .. SEND_REQUEUE_MAX_RETRIES
      BY <2>1, <2>2 DEF TypeOK, Group
    <3>2. QED
      BY <2>1, <3>1, ConfigAssumption DEF GroupDropped, Exhausted
  <2>4. Counts(Alerts, SEND_REQUEUE_MAX_RETRIES + 1, ledger)
    <3>1. Turn(current) = 1
      BY <2>2 DEF Turn
    <3>2. Counts(flight[current].alerts, flight[current].retries + Turn(current),
                 ledger)
      BY <1>1, <2>2 DEF RetryInv, RoundsFollowRetries
    <3>3. QED
      BY <2>3, <3>1, <3>2 DEF Alerts
  <2>5. PICK u \in Alerts : /\ ledger[u].rounds = SEND_REQUEUE_MAX_RETRIES + 1
                            /\ \A v \in Alerts : u <= v
    BY <2>1, <2>4 DEF Counts
  <2>6. u \in 1 .. issued /\ u <= t /\ t \in 1 .. issued
    BY <2>1, <2>2, <2>5
  <2>7. u \in 1 .. t
    BY <2>1, <2>6 DEF TypeOK
  <2>8. Fate(u) = "queued"
    BY <2>1, <2>2, <2>5 DEF Conservation, Held, Alerts
  <2>9. ledger'[u].fate = "dropped"
    BY <2>1, <2>5, <2>6, EndedFate DEF GroupDropped, Fates
  <2>10. QED
    BY <2>5, <2>7, <2>8, <2>9
<1>2. RetryInv /\ [Next]_vars =>
        [\A t \in 1 .. issued :
           Fate(t) = "queued" /\ ledger'[t].fate = "dropped" =>
             \E u \in 1 .. t :
                /\ ledger[u].rounds = SEND_REQUEUE_MAX_RETRIES + 1
                /\ Fate(u) = "queued" /\ ledger'[u].fate = "dropped"]_vars
  BY <1>1
<1>3. QED
  BY <1>2, RetryInvariant, PTL DEF Spec, DropsAreExhausted

\* What becomes of the alerts S in a step: they stay together in a group of
\* the key k, or end together.
Together(k, S) ==
    \/ S \subseteq buffer'[k].alerts
    \/ S \subseteq flight'[k].alerts
    \/ \E f \in Fates \ {"queued"} : \A t \in S : ledger'[t].fate = f

LEMMA EndTogether ==
    ASSUME BufferInv, NEW k \in Keys, NEW S \in SUBSET (1 .. issued),
           NEW T, S \subseteq T,
           NEW f \in Fates \ {"queued"}, ledger' = Ended(T, f)
    PROVE  Together(k, S)
<1>1. \A t \in S : ledger'[t].fate = f
  BY EndedFate DEF BufferInv
<1>2. QED
  BY <1>1 DEF Together

\* The alerts of a group are dispatched, re-queued, sent, given up,
\* overwritten or lost together.
THEOREM GroupsStayWhole == Spec => GroupStaysWhole
<1>1. ASSUME BufferInv, [Next]_vars, NEW k \in Keys
      PROVE  Together(k, buffer[k].alerts) /\ Together(k, flight[k].alerts)
  <2>0. /\ TypeOK /\ FlushCoherent
        /\ buffer[k].alerts \in SUBSET (1 .. issued)
        /\ flight[k].alerts \in SUBSET (1 .. issued)
    BY <1>1, GroupsAreIssued DEF BufferInv
  <2>1. CASE QuietStep \/ ClockStep
    BY <2>0, <2>1, QuietStepEffect, ClockEffect DEF Together
  <2>2. ASSUME NEW h \in Handlers, BufferAlert(h)
        PROVE  Together(k, buffer[k].alerts) /\ Together(k, flight[k].alerts)
    BY <2>0, <2>2, BufferAlertEffect DEF Together
  <2>3. CASE ScanBuffer
    BY <2>0, <2>3, ScanEffect DEF Together, At
  <2>4. CASE GroupSent \/ GroupDropped
    <3>1. LeaveFlight /\ buffer' = buffer
      BY <2>4 DEF GroupSent, GroupDropped, bufferVars
    <3>2. \E f \in Fates \ {"queued"} : ledger' = Ended(Alerts, f)
      BY <2>4 DEF GroupSent, GroupDropped, Fates
    <3>3. CASE k = current
      BY <1>1, <2>0, <3>1, <3>2, <3>3, EndTogether DEF Together, Alerts
    <3>4. CASE k # current
      BY <2>0, <3>1, <3>4, LeaveFlightEffect DEF Together
    <3>5. QED
      BY <3>3, <3>4
  <2>5. CASE GroupRequeued
    <3>1. /\ LeaveFlight
          /\ ledger' = Ended(buffer[current].alerts, "overwritten")
          /\ "overwritten" \in Fates \ {"queued"}
      BY <2>5 DEF GroupRequeued, Fates
    <3>2. CASE k = current
      <4>1. Together(k, buffer[k].alerts)
        BY <1>1, <2>0, <3>1, <3>2, EndTogether
      <4>2. Together(k, flight[k].alerts)
        BY <2>0, <2>5, <3>2, RequeueEffect DEF Together, Alerts
      <4>3. QED
        BY <4>1, <4>2
    <3>3. CASE k # current
      BY <2>0, <2>5, <3>1, <3>3, RequeueEffect, LeaveFlightEffect DEF Together
    <3>4. QED
      BY <3>2, <3>3
  <2>6. CASE Crash
    <3>1. /\ ledger' = Ended(Held, "crashed")
          /\ "crashed" \in Fates \ {"queued"}
      BY <2>6 DEF Crash, Fates
    <3>2. buffer[k].alerts \subseteq Held /\ flight[k].alerts \subseteq Held
      BY DEF Held
    <3>3. QED
      BY <1>1, <2>0, <3>1, <3>2, EndTogether
  <2>7. QED
    BY <1>1, <2>1, <2>2, <2>3, <2>4, <2>5, <2>6
       DEF Next, ClockStep, HandlerNext, HandlerStep, FlushStep, QuietStep
<1>2. BufferInv /\ [Next]_vars =>
        [\A k \in Keys :
           \A S \in {buffer[k].alerts, flight[k].alerts} \ {{}} :
             \/ S \subseteq buffer'[k].alerts
             \/ S \subseteq flight'[k].alerts
             \/ \E f \in Fates \ {"queued"} : \A t \in S : ledger'[t].fate = f]_vars
  BY <1>1 DEF Together
<1>3. QED
  BY <1>2, BufferInvariant, PTL DEF Spec, GroupStaysWhole
=============================================================================
