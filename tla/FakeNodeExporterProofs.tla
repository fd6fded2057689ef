----------------------- MODULE FakeNodeExporterProofs -----------------------
(***************************************************************************)
(* Proofs about the fake node exporter, for any list of nodes, any number  *)
(* of workers, any batch size and interval, however long it runs and       *)
(* however often the clock is set back.                                    *)
(***************************************************************************)
EXTENDS FakeNodeExporter, TLAPS

-----------------------------------------------------------------------------
(* The names never change, and no node is in two batches.                  *)

LEMMA SameNodes ==
    ASSUME names' = names
    PROVE  /\ Nodes' = Nodes
           /\ AllBatches' = AllBatches
           /\ \A b : Batch(b)' = Batch(b)
BY DEF Nodes, AllBatches, Batch, Places, First

LEMMA BatchesAreDisjoint ==
    ASSUME NEW b, NEW c, b # c
    PROVE  Batch(b) \cap Batch(c) = {}
<1> SUFFICES ASSUME NEW n, n \in Batch(b), n \in Batch(c) PROVE b = c
  OBVIOUS
<1>1. PICK p : Places(n) = {p}
  BY DEF Places
<1>2. p \div BATCH_SIZE = b /\ p \div BATCH_SIZE = c
  BY <1>1 DEF Batch
<1>3. QED
  BY <1>2

LEMMA EveryNodeHasABatch ==
    ASSUME NEW n \in Nodes
    PROVE  \E b \in AllBatches : n \in Batch(b)
<1>1. PICK p : p \in Places(n)
  BY DEF Places
<1> DEFINE b == p \div BATCH_SIZE
<1>2. b \in AllBatches
  BY <1>1 DEF AllBatches
<1>3. n \in Batch(b)
  BY <1>1 DEF Batch
<1>4. QED
  BY <1>2, <1>3

-----------------------------------------------------------------------------
(* Products of natural numbers, for the CPU time.                          *)

LEMMA NatProduct ==
    ASSUME NEW a \in Nat, NEW b \in Nat
    PROVE  a * b \in Nat
OBVIOUS

LEMMA Monotone ==
    ASSUME NEW a \in Nat, NEW b \in Nat, NEW c \in Nat, a <= b
    PROVE  a * c <= b * c
OBVIOUS

SumOfModes(t) == t["user"] + t["system"] + t["iowait"] + t["steal"] + t["idle"]

\* What is left of an interval for the idle mode is not negative, so that it
\* is not cut off, and the modes add up to the interval.
LEMMA ModesOfAnInterval ==
    ASSUME NEW dt \in Nat, NEW raw \in Int
    PROVE  /\ CpuTime(dt, Clamped(raw)) \in [Modes -> Nat]
           /\ SumOfModes(CpuTime(dt, Clamped(raw))) = 100000 * CpuWeight * dt
<1> DEFINE pct  == Clamped(raw)
           q    == pct * dt
           idle == IdleTime(dt, pct)
<1>1. pct \in 0 .. 100
  BY DEF Clamped
<1>2. q \in Nat /\ q <= 100 * dt
  BY <1>1, NatProduct, Monotone
<1>3. /\ 600 * pct * dt = 600 * q
      /\ 300 * pct * dt = 300 * q
      /\ 80 * pct * dt = 80 * q
  BY <1>1
<1>4. idle = 100000 * dt - 980 * q - 200 * dt /\ idle \in Nat
  <2> HIDE DEF pct, q
  <2>1. idle = LET rest == 100000 * dt - 600 * q - 300 * q - 80 * q - 200 * dt
               IN  IF rest < 0 THEN 0 ELSE rest
    BY <1>3 DEF IdleTime
  <2>2. QED
    BY <1>2, <2>1
<1> DEFINE w == CpuWeight
<1>5. w \in Nat
  BY ExporterAssumption
<1>6. /\ w * 600 * pct * dt = w * (600 * q)
      /\ w * 300 * pct * dt = w * (300 * q)
      /\ w * 80 * pct * dt = w * (80 * q)
      /\ w * 200 * dt = w * (200 * dt)
  BY <1>1, <1>5
<1> HIDE DEF pct, q, idle, w
<1>7. CpuTime(dt, pct) = [user   |-> w * (600 * q),
                          system |-> w * (300 * q),
                          iowait |-> w * (80 * q),
                          steal  |-> w * (200 * dt),
                          idle   |-> w * idle]
  BY <1>6 DEF CpuTime, w, idle
<1>8. /\ w * (600 * q) \in Nat
      /\ w * (300 * q) \in Nat
      /\ w * (80 * q) \in Nat
      /\ w * (200 * dt) \in Nat
      /\ w * idle \in Nat
  BY <1>2, <1>4, <1>5, NatProduct
<1>9. w * (600 * q) + w * (300 * q) + w * (80 * q) + w * (200 * dt) + w * idle
        = 100000 * w * dt
  <2>1. w * (600 * q) + w * (300 * q) + w * (80 * q) + w * (200 * dt) + w * idle
          = w * (600 * q + 300 * q + 80 * q + 200 * dt + idle)
    BY <1>2, <1>4, <1>5
  <2>2. 600 * q + 300 * q + 80 * q + 200 * dt + idle = 100000 * dt
    BY <1>2, <1>4
  <2>3. w * (100000 * dt) = 100000 * w * dt
    BY <1>5
  <2>4. QED
    BY <2>1, <2>2, <2>3
<1>10. QED
  BY <1>7, <1>8, <1>9 DEF Modes, SumOfModes, pct, w

-----------------------------------------------------------------------------
(* The type invariant.                                                     *)

NodeRecord == [created : Int, last_update : Int, static_set : BOOLEAN,
               counted : [Sections -> Nat], lost : [Sections -> Nat],
               cpu : [Modes -> Nat]]

WorkerRecord == [pc : {"idle", "next", "measured", "static", "dynamic"},
                 now : Int, todo : SUBSET Nodes,
                 node : Nodes \cup {<<>>}, dt : Nat, section : Sections]

LEMMA NewNodeType ==
    ASSUME NEW t \in Int
    PROVE  NewNode(t) \in NodeRecord
BY DEF NewNode, NodeRecord, Sections, CPU, OTHERS, Modes

LEMMA IdleWorkerType == IdleWorker \in WorkerRecord
BY DEF IdleWorker, WorkerRecord, Sections, CPU, OTHERS

LEMMA InitTypeOK == Init => TypeOK
<1> SUFFICES ASSUME Init PROVE TypeOK
  OBVIOUS
<1>1. state \in [Nodes -> NodeRecord]
  BY NewNodeType DEF Init
<1>2. worker \in [Workers -> WorkerRecord]
  BY IdleWorkerType DEF Init
<1>3. Updating = {}
  BY DEF Init, Updating, IdleWorker
<1>4. QED
  BY <1>1, <1>2, <1>3, ExporterAssumption
     DEF Init, TypeOK, NodeRecord, WorkerRecord

\* A step of one worker that keeps the rest of the type.
LEMMA WorkerStepType ==
    ASSUME TypeOK, NEW w \in Workers, names' = names,
           NEW r \in WorkerRecord,
           worker' = [worker EXCEPT ![w] = r],
           r.pc \in {"measured", "static", "dynamic"} =>
               r.node \in Nodes /\ r.dt > 0
    PROVE  /\ worker' \in [Workers -> WorkerRecord']
           /\ (\A v \in Updating : worker[v].node \in Nodes /\ worker[v].dt > 0)'
<1>1. Nodes' = Nodes
  BY SameNodes
<1>2. worker \in [Workers -> WorkerRecord]
  BY DEF TypeOK, WorkerRecord
<1>3. worker' \in [Workers -> WorkerRecord]
  BY <1>2
<1>4. ASSUME NEW v \in Updating'
      PROVE  worker'[v].node \in Nodes /\ worker'[v].dt > 0
  <2>1. v \in Workers /\ worker'[v].pc \in {"measured", "static", "dynamic"}
    BY <1>4 DEF Updating
  <2>2. CASE v = w
    BY <1>2, <2>1, <2>2
  <2>3. CASE v # w
    <3>1. worker'[v] = worker[v]
      BY <1>2, <2>1, <2>3
    <3>2. v \in Updating
      BY <2>1, <3>1 DEF Updating
    <3>3. QED
      BY <3>1, <3>2 DEF TypeOK
  <2>4. QED
    BY <2>2, <2>3
<1>5. WorkerRecord' = WorkerRecord
  BY <1>1 DEF WorkerRecord
<1>6. QED
  BY <1>1, <1>3, <1>4, <1>5

LEMMA TypeParts ==
    ASSUME TypeOK
    PROVE  /\ state \in [Nodes -> NodeRecord]
           /\ worker \in [Workers -> WorkerRecord]
           /\ clock \in Int
BY DEF TypeOK, NodeRecord, WorkerRecord

\* What a worker's step leaves to show for the type invariant.
LEMMA WorkerTypeOK ==
    ASSUME TypeOK, NEW w \in Workers, NEW r \in WorkerRecord,
           worker' = [worker EXCEPT ![w] = r],
           r.pc \in {"measured", "static", "dynamic"} =>
               r.node \in Nodes /\ r.dt > 0,
           state' \in [Nodes -> NodeRecord],
           UNCHANGED <<names, timeVars, restarts, loopVars>>,
           raises' \in 0 .. MaxRaises,
           queue' \subseteq queue
    PROVE  TypeOK'
<1>1. Nodes' = Nodes /\ AllBatches' = AllBatches
  BY SameNodes
<1>2. /\ worker' \in [Workers -> WorkerRecord']
      /\ (\A v \in Updating : worker[v].node \in Nodes /\ worker[v].dt > 0)'
  BY WorkerStepType
<1>3. QED
  BY <1>1, <1>2 DEF TypeOK, timeVars, loopVars, NodeRecord, WorkerRecord

LEMMA SectionsType == CPU \in Sections /\ OTHERS \in Sections /\ CPU # OTHERS
BY DEF Sections, CPU, OTHERS

LEMMA WorkersTypeOK ==
    ASSUME TypeOK, NEW w \in Workers, WorkerStep(w)
    PROVE  TypeOK'
<1> USE TypeParts, SectionsType
<1>1. ASSUME NEW b \in AllBatches, TakeBatch(w, b)
      PROVE  TypeOK'
  <2> DEFINE r == [IdleWorker EXCEPT !.pc = "next", !.now = clock, !.todo = Batch(b)]
  <2>1. Batch(b) \subseteq Nodes
    BY DEF Batch
  <2>2. r \in WorkerRecord /\ r.pc = "next"
    BY <2>1, IdleWorkerType DEF WorkerRecord, IdleWorker
  <2>3. QED
    BY <1>1, <2>2, WorkerTypeOK DEF TakeBatch, bounds, TypeOK
<1>2. ASSUME NEW n \in Nodes, SkipNode(w, n)
      PROVE  TypeOK'
  <2> DEFINE r == [worker[w] EXCEPT !.todo = @ \ {n}]
  <2>1. r \in WorkerRecord /\ r.pc = "next"
    BY <1>2 DEF WorkerRecord, SkipNode, NextNode, At
  <2>2. worker' = [worker EXCEPT ![w] = r]
    BY <1>2 DEF SkipNode
  <2> HIDE DEF r
  <2>3. QED
    BY <1>2, <2>1, <2>2, WorkerTypeOK
       DEF SkipNode, OnlyWorker, OnlyWorkerAndState, bounds, TypeOK
<1>3. ASSUME NEW n \in Nodes, MeasureNode(w, n)
      PROVE  TypeOK'
  <2> DEFINE r == [worker[w] EXCEPT !.pc = "measured", !.node = n,
                                    !.dt = Elapsed(w, n), !.todo = @ \ {n}]
  <2>1. Elapsed(w, n) \in Nat /\ Elapsed(w, n) > 0
    BY <1>3 DEF MeasureNode, Elapsed, NodeRecord, WorkerRecord
  <2>2. r \in WorkerRecord /\ r.node = n /\ r.dt > 0
    BY <2>1 DEF WorkerRecord
  <2>3. worker' = [worker EXCEPT ![w] = r]
    BY <1>3 DEF MeasureNode
  <2> HIDE DEF r
  <2>4. QED
    BY <1>3, <2>2, <2>3, WorkerTypeOK
       DEF MeasureNode, OnlyWorker, OnlyWorkerAndState, bounds, TypeOK
<1>4. ASSUME worker[w].pc \in {"measured", "static", "dynamic"}
      PROVE  worker[w].node \in Nodes /\ worker[w].dt > 0 /\ worker[w].dt \in Nat
  BY <1>4 DEF TypeOK, Updating, WorkerRecord
<1>5. ASSUME AdvanceNode(w)
      PROVE  TypeOK'
  <2> DEFINE n == worker[w].node
             r == [worker[w] EXCEPT !.pc = IF state[n].static_set
                                           THEN "dynamic" ELSE "static"]
  <2>1. n \in Nodes /\ r \in WorkerRecord /\ r.node = n /\ r.dt > 0
    BY <1>4, <1>5 DEF WorkerRecord, AdvanceNode, At
  <2>2. worker' = [worker EXCEPT ![w] = r]
    BY <1>5 DEF AdvanceNode
  <2>3. state' \in [Nodes -> NodeRecord]
    <3>1. worker[w].now \in Int
      BY DEF WorkerRecord
    <3>2. state' = [state EXCEPT ![n].last_update = worker[w].now]
      BY <1>5 DEF AdvanceNode
    <3>3. [state[n] EXCEPT !.last_update = worker[w].now] \in NodeRecord
      BY <2>1, <3>1 DEF NodeRecord
    <3>4. QED
      BY <2>1, <3>2, <3>3
  <2> HIDE DEF r
  <2>4. QED
    BY <1>5, <2>1, <2>2, <2>3, WorkerTypeOK
       DEF AdvanceNode, OnlyWorkerAndState, bounds, TypeOK
<1>6. ASSUME SetStatic(w)
      PROVE  TypeOK'
  <2> DEFINE r == [worker[w] EXCEPT !.pc = "dynamic"]
  <2>1. r \in WorkerRecord /\ r.node \in Nodes /\ r.dt > 0
    BY <1>4, <1>6 DEF WorkerRecord, SetStatic, At
  <2>2. worker' = [worker EXCEPT ![w] = r]
    BY <1>6 DEF SetStatic
  <2>3. state' \in [Nodes -> NodeRecord]
    <3> DEFINE n == worker[w].node
               x == [state[n] EXCEPT !.static_set = TRUE]
    <3>1. n \in Nodes /\ state \in [Nodes -> NodeRecord] /\ state[n] \in NodeRecord
      BY <2>1, TypeParts
    <3>2. x \in NodeRecord
      BY <3>1 DEF NodeRecord
    <3>3. state' = [state EXCEPT ![n] = x]
      BY <1>6 DEF SetStatic
    <3> HIDE DEF n, x
    <3>4. QED
      BY <3>1, <3>2, <3>3
  <2> HIDE DEF r
  <2>4. QED
    BY <1>6, <2>1, <2>2, <2>3, WorkerTypeOK
       DEF SetStatic, OnlyWorkerAndState, bounds, TypeOK
<1>7. ASSUME AddCpuTime(w)
      PROVE  TypeOK'
  <2> DEFINE n == worker[w].node
             r == [worker[w] EXCEPT !.section = OTHERS]
  <2>1. r \in WorkerRecord /\ n \in Nodes /\ r.node = n /\ r.dt > 0 /\ worker[w].dt \in Nat
    <3>1. worker[w].pc = "dynamic"
      BY <1>7 DEF AddCpuTime, At
    <3>2. QED
      BY <1>4, <3>1 DEF WorkerRecord
  <2>2. worker' = [worker EXCEPT ![w] = r]
    BY <1>7 DEF AddCpuTime
  <2>3. state' \in [Nodes -> NodeRecord]
    <3>1. PICK raw \in RawLevels :
            LET time == CpuTime(worker[w].dt, Clamped(raw))
            IN  state' = [state EXCEPT
                            ![n].cpu = [m \in Modes |-> @[m] + time[m]],
                            ![n].counted[CPU] = @ + worker[w].dt]
      BY <1>7 DEF AddCpuTime
    <3> DEFINE time == CpuTime(worker[w].dt, Clamped(raw))
    <3>2. time \in [Modes -> Nat]
      <4>1. raw \in Int
        <5>1. raw \in RawLevels /\ RawLevels \subseteq Int
          BY ExporterAssumption
        <5>2. QED
          BY <5>1
      <4>2. \A dt \in Nat, x \in Int : CpuTime(dt, Clamped(x)) \in [Modes -> Nat]
        BY ModesOfAnInterval
      <4>3. worker[w].dt \in Nat
        BY <2>1
      <4>4. QED
        BY <4>1, <4>2, <4>3
    <3> HIDE DEF time
    <3>3. state[n] \in NodeRecord
      BY <2>1
    <3>4. [m \in Modes |-> state[n].cpu[m] + time[m]] \in [Modes -> Nat]
      BY <3>2, <3>3 DEF NodeRecord
    <3>5. [state[n].counted EXCEPT ![CPU] = @ + worker[w].dt] \in [Sections -> Nat]
      BY <2>1, <3>3 DEF NodeRecord
    <3>6. state' = [state EXCEPT ![n] =
              [@ EXCEPT !.cpu = [m \in Modes |-> state[n].cpu[m] + time[m]],
                        !.counted = [state[n].counted EXCEPT ![CPU] = @ + worker[w].dt]]]
      BY <2>1, <3>1, <3>3 DEF time, NodeRecord
    <3> DEFINE cpu     == [m \in Modes |-> state[n].cpu[m] + time[m]]
               counted == [state[n].counted EXCEPT ![CPU] = @ + worker[w].dt]
    <3>7. /\ state' = [state EXCEPT ![n] = [@ EXCEPT !.cpu = cpu, !.counted = counted]]
          /\ cpu \in [Modes -> Nat] /\ counted \in [Sections -> Nat]
      BY <3>4, <3>5, <3>6
    <3> HIDE DEF cpu, counted
    <3>8. [state[n] EXCEPT !.cpu = cpu, !.counted = counted] \in NodeRecord
      BY <3>3, <3>7 DEF NodeRecord
    <3>9. QED
      BY <2>1, <3>7, <3>8
  <2> HIDE DEF r
  <2>4. QED
    <3>1. /\ UNCHANGED <<names, timeVars, restarts, loopVars>>
          /\ raises' = raises /\ queue' = queue
      BY <1>7 DEF AddCpuTime, OnlyWorkerAndState, bounds
    <3>2. raises \in 0 .. MaxRaises
      BY DEF TypeOK
    <3>3. r.pc \in {"measured", "static", "dynamic"} => r.node \in Nodes /\ r.dt > 0
      BY <2>1
    <3>4. QED
      BY <2>1, <2>2, <2>3, <3>1, <3>2, <3>3, WorkerTypeOK
<1>8. ToNextNode(worker[w]) \in WorkerRecord /\ ToNextNode(worker[w]).pc = "next"
  BY DEF ToNextNode, WorkerRecord
<1>9. ASSUME AddOthers(w)
      PROVE  TypeOK'
  <2>1. worker[w].node \in Nodes /\ worker[w].dt \in Nat
    BY <1>4, <1>9 DEF AddOthers, At
  <2>2. state' \in [Nodes -> NodeRecord]
    <3> DEFINE n == worker[w].node
    <3>1. state' = [state EXCEPT ![n].counted[OTHERS] = @ + worker[w].dt]
      BY <1>9 DEF AddOthers
    <3>2. state[n] \in NodeRecord
      BY <2>1
    <3>3. [state[n].counted EXCEPT ![OTHERS] = @ + worker[w].dt] \in [Sections -> Nat]
      BY <2>1, <3>2 DEF NodeRecord
    <3>4. state' = [state EXCEPT ![n] = [@ EXCEPT !.counted =
                      [state[n].counted EXCEPT ![OTHERS] = @ + worker[w].dt]]]
      BY <2>1, <3>1, <3>2 DEF NodeRecord
    <3>5. QED
      BY <2>1, <3>2, <3>3, <3>4 DEF NodeRecord
  <2>3. worker' = [worker EXCEPT ![w] = ToNextNode(worker[w])]
    BY <1>9 DEF AddOthers
  <2>4. QED
    BY <1>8, <1>9, <2>2, <2>3, WorkerTypeOK
       DEF AddOthers, OnlyWorkerAndState, bounds, TypeOK
<1>10. ASSUME UpdateRaises(w)
       PROVE  TypeOK'
  <2>1. worker[w].node \in Nodes /\ worker[w].dt \in Nat
    BY <1>4, <1>10 DEF UpdateRaises
  <2>2. state' \in [Nodes -> NodeRecord]
    <3>1. [s \in Sections |-> IF worker[w].section <= s
                              THEN state[worker[w].node].lost[s] + worker[w].dt
                              ELSE state[worker[w].node].lost[s]] \in [Sections -> Nat]
      BY <2>1 DEF NodeRecord
    <3>2. PICK lost \in [Sections -> Nat] :
            state' = [state EXCEPT ![worker[w].node].lost = lost]
      BY <1>10, <2>1, <3>1 DEF UpdateRaises, LoseInterval
    <3>3. state[worker[w].node] \in NodeRecord
      BY <2>1
    <3>4. [state[worker[w].node] EXCEPT !.lost = lost] \in NodeRecord
      BY <3>3 DEF NodeRecord
    <3>5. state' = [state EXCEPT ![worker[w].node] =
                       [state[worker[w].node] EXCEPT !.lost = lost]]
      BY <3>2
    <3>6. QED
      BY <2>1, <3>4, <3>5
  <2>3. worker' = [worker EXCEPT ![w] = ToNextNode(worker[w])]
    BY <1>10 DEF UpdateRaises
  <2>4. raises' \in 0 .. MaxRaises
    <3>1. raises \in 0 .. MaxRaises
      BY DEF TypeOK
    <3>2. raises < MaxRaises /\ raises' = raises + 1
      BY <1>10 DEF UpdateRaises, LoseInterval
    <3>3. QED
      BY <3>1, <3>2, ExporterAssumption
  <2>5. QED
    BY <1>8, <1>10, <2>2, <2>3, <2>4, WorkerTypeOK DEF UpdateRaises
<1>11. ASSUME FinishBatch(w)
       PROVE  TypeOK'
  BY <1>11, IdleWorkerType, WorkerTypeOK
     DEF FinishBatch, IdleWorker, OnlyWorker, OnlyWorkerAndState, bounds, TypeOK
<1>12. QED
  BY <1>1, <1>2, <1>3, <1>5, <1>6, <1>7, <1>9, <1>10, <1>11 DEF WorkerStep

LEMMA OthersTypeOK ==
    ASSUME TypeOK, LoopStep \/ Tick \/ SetClockBack \/ Restart
    PROVE  TypeOK'
<1>1. names' = names /\ Nodes' = Nodes /\ AllBatches' = AllBatches
  BY SameNodes DEF LoopStep, SubmitBatches, LeavePool, GoToSleep, WakeUp, Tick,
                   SetClockBack, Restart
<1>2. ASSUME worker' = worker
      PROVE  Updating' = Updating
  BY <1>2 DEF Updating
<1>3. CASE SubmitBatches
  BY <1>1, <1>2, <1>3 DEF SubmitBatches, TypeOK, timeVars, bounds
<1>4. CASE LeavePool
  BY <1>1, <1>2, <1>4, ExporterAssumption
     DEF LeavePool, GoToSleep, SleepTime, TypeOK, timeVars, bounds
<1>5. CASE WakeUp
  BY <1>1, <1>2, <1>5 DEF WakeUp, TypeOK, timeVars, bounds
<1>6. CASE Tick
  BY <1>1, <1>2, <1>6 DEF Tick, TypeOK, bounds
<1>7. CASE SetClockBack
  BY <1>1, <1>2, <1>7, ExporterAssumption
     DEF SetClockBack, TypeOK, bounds, loopVars
<1>8. CASE Restart
  <2>1. state' \in [Nodes -> NodeRecord] /\ worker' \in [Workers -> WorkerRecord]
    BY <1>8, TypeParts, NewNodeType, IdleWorkerType DEF Restart
  <2>2. Updating' = {}
    BY <1>8 DEF Restart, Updating, IdleWorker
  <2>3. QED
    BY <1>1, <1>8, <2>1, <2>2, ExporterAssumption
       DEF Restart, TypeOK, timeVars, NodeRecord, WorkerRecord
<1>9. QED
  BY <1>3, <1>4, <1>5, <1>6, <1>7, <1>8 DEF LoopStep

LEMMA StutterTypeOK ==
    ASSUME TypeOK, UNCHANGED vars
    PROVE  TypeOK'
<1>1. Nodes' = Nodes /\ AllBatches' = AllBatches /\ Updating' = Updating
  BY SameNodes DEF vars, Updating
<1>2. QED
  BY <1>1 DEF vars, timeVars, bounds, loopVars, TypeOK

\* The state of the exporter has its type, and a node that is being updated
\* has an interval to count.
THEOREM ExporterTypeCorrect == Spec => []TypeOK
<1>1. TypeOK /\ [Next]_vars => TypeOK'
  BY WorkersTypeOK, OthersTypeOK, StutterTypeOK DEF Next
<1>2. QED
  BY InitTypeOK, <1>1, PTL DEF Spec

-----------------------------------------------------------------------------
(* No two threads update one node.                                         *)

Busy(p) == p \in {"measured", "static", "dynamic"}

\* The nodes that a worker has in hand.
Work(w) == worker[w].todo \cup (IF Busy(worker[w].pc) THEN {worker[w].node} ELSE {})

\* OneUpdaterPerNode is not inductive: a worker gets its next node from its
\* batch.  What workers have in hand is disjoint, and disjoint from what is
\* queued; and there is no work outside of a round.
WorkIsApart ==
    /\ phase # "await" => queue = {} /\ \A w \in Workers : At(w, "idle")
    /\ \A w \in Workers : At(w, "idle") => worker[w].todo = {}
    /\ \A w \in Workers : Busy(worker[w].pc) => worker[w].node \notin worker[w].todo
    /\ \A v, w \in Workers : v # w => Work(v) \cap Work(w) = {}
    /\ \A w \in Workers, b \in queue : Work(w) \cap Batch(b) = {}

\* A worker that goes on with what it has in hand.
LEMMA ApartStep ==
    ASSUME TypeOK, WorkIsApart, NEW w \in Workers, NEW r \in WorkerRecord,
           worker' = [worker EXCEPT ![w] = r],
           ~At(w, "idle"),
           UNCHANGED <<names, phase, queue>>,
           r.pc = "idle" => r.todo = {},
           r.todo \subseteq worker[w].todo,
           Busy(r.pc) => r.node \notin r.todo /\ r.node \in Work(w)
    PROVE  WorkIsApart'
<1>1. worker \in [Workers -> WorkerRecord]
  BY TypeParts
<1>2. worker'[w] = r /\ \A v \in Workers \ {w} : worker'[v] = worker[v]
  BY <1>1
<1>3. \A v \in Workers : Work(v)' \subseteq Work(v)
  BY <1>2 DEF Work
<1>4. phase = "await"
  BY DEF WorkIsApart
<1>5. \A b : Batch(b)' = Batch(b)
  BY SameNodes
<1>6. (\A v \in Workers : At(v, "idle") => worker[v].todo = {})'
  BY <1>2 DEF WorkIsApart, At
<1>7. (\A v \in Workers : Busy(worker[v].pc) => worker[v].node \notin worker[v].todo)'
  BY <1>2 DEF WorkIsApart, Busy
<1>8. (\A u, v \in Workers : u # v => Work(u) \cap Work(v) = {})'
  BY <1>3 DEF WorkIsApart
<1>9. (\A v \in Workers, b \in queue : Work(v) \cap Batch(b) = {})'
  BY <1>3, <1>5 DEF WorkIsApart
<1>10. QED
  BY <1>4, <1>6, <1>7, <1>8, <1>9 DEF WorkIsApart

LEMMA ApartTake ==
    ASSUME TypeOK, WorkIsApart, NEW w \in Workers, NEW b \in AllBatches,
           TakeBatch(w, b)
    PROVE  WorkIsApart'
<1>1. worker \in [Workers -> WorkerRecord]
  BY TypeParts
<1>2. /\ worker'[w] = [IdleWorker EXCEPT !.pc = "next", !.now = clock, !.todo = Batch(b)]
      /\ \A v \in Workers \ {w} : worker'[v] = worker[v]
  BY <1>1 DEF TakeBatch
<1>3. worker'[w].pc = "next" /\ worker'[w].todo = Batch(b)
  BY <1>2 DEF IdleWorker
<1>4. /\ names' = names /\ phase' = phase
      /\ b \in queue /\ queue' = queue \ {b}
  BY DEF TakeBatch, loopVars
<1>5. Work(w)' = Batch(b) /\ \A v \in Workers \ {w} : Work(v)' = Work(v)
  BY <1>2, <1>3 DEF Work, Busy
<1>6. \A c : Batch(c)' = Batch(c)
  BY <1>4, SameNodes
<1>7. \A v \in Workers \ {w} : Work(v) \cap Batch(b) = {}
  BY <1>4 DEF WorkIsApart
<1>8. phase = "await"
  BY <1>4 DEF WorkIsApart
<1>9. (\A v \in Workers : At(v, "idle") => worker[v].todo = {})'
  BY <1>2, <1>3 DEF WorkIsApart, At
<1>10. (\A v \in Workers : Busy(worker[v].pc) => worker[v].node \notin worker[v].todo)'
  BY <1>2, <1>3 DEF WorkIsApart, Busy
<1>11. (\A u, v \in Workers : u # v => Work(u) \cap Work(v) = {})'
  BY <1>5, <1>7 DEF WorkIsApart
<1>12. (\A v \in Workers, c \in queue : Work(v) \cap Batch(c) = {})'
  BY <1>4, <1>5, <1>6, BatchesAreDisjoint DEF WorkIsApart
<1>13. QED
  BY <1>4, <1>8, <1>9, <1>10, <1>11, <1>12 DEF WorkIsApart

LEMMA ApartWorker ==
    ASSUME TypeOK, WorkIsApart, NEW w \in Workers, WorkerStep(w)
    PROVE  WorkIsApart'
<1>1. worker[w] \in WorkerRecord /\ worker'[w] \in WorkerRecord
  <2>1. names' = names /\ TypeOK'
    BY WorkersTypeOK
       DEF WorkerStep, TakeBatch, SkipNode, MeasureNode, AdvanceNode, SetStatic,
           AddCpuTime, AddOthers, UpdateRaises, FinishBatch, OnlyWorker,
           OnlyWorkerAndState
  <2>2. Nodes' = Nodes
    BY <2>1, SameNodes
  <2>3. QED
    BY <2>1, <2>2 DEF TypeOK, WorkerRecord
<1>2. worker \in [Workers -> WorkerRecord]
  BY TypeParts
<1>3. CASE \E b \in AllBatches : TakeBatch(w, b)
  BY <1>3, ApartTake
<1>4. ASSUME NEW n \in Nodes, SkipNode(w, n)
      PROVE  WorkIsApart'
  <2> DEFINE r == [worker[w] EXCEPT !.todo = @ \ {n}]
  <2>1. r \in WorkerRecord /\ r.pc = "next" /\ r.todo \subseteq worker[w].todo
    BY <1>1, <1>4 DEF WorkerRecord, SkipNode, NextNode, At
  <2>2. worker' = [worker EXCEPT ![w] = r] /\ At(w, "next")
    BY <1>4 DEF SkipNode, NextNode
  <2> HIDE DEF r
  <2>3. QED
    BY <1>4, <2>1, <2>2, ApartStep
       DEF SkipNode, OnlyWorker, OnlyWorkerAndState, loopVars, At, Busy
<1>5. ASSUME NEW n \in Nodes, MeasureNode(w, n)
      PROVE  WorkIsApart'
  <2> DEFINE r == worker'[w]
  <2>1. /\ r.node = n /\ r.pc = "measured"
        /\ r.todo = worker[w].todo \ {n} /\ n \in worker[w].todo
    BY <1>1, <1>2, <1>5 DEF MeasureNode, NextNode, WorkerRecord
  <2>2. worker' = [worker EXCEPT ![w] = r] /\ At(w, "next")
    BY <1>2, <1>5 DEF MeasureNode, NextNode
  <2>3. r \in WorkerRecord
    BY <1>1
  <2> HIDE DEF r
  <2>4. QED
    BY <1>5, <2>1, <2>2, <2>3, ApartStep
       DEF MeasureNode, OnlyWorker, OnlyWorkerAndState, loopVars, At, Work
<1>6. ASSUME AdvanceNode(w) \/ SetStatic(w) \/ AddCpuTime(w)
      PROVE  WorkIsApart'
  <2> DEFINE r == worker'[w]
  <2>1. /\ r.node = worker[w].node /\ r.todo = worker[w].todo
        /\ Busy(r.pc) /\ Busy(worker[w].pc)
    BY <1>1, <1>2, <1>6 DEF AdvanceNode, SetStatic, AddCpuTime, At, Busy, WorkerRecord
  <2>2. worker' = [worker EXCEPT ![w] = r]
    BY <1>2, <1>6 DEF AdvanceNode, SetStatic, AddCpuTime
  <2>3. r \in WorkerRecord
    BY <1>1
  <2>4. UNCHANGED <<names, phase, queue>>
    BY <1>6 DEF AdvanceNode, SetStatic, AddCpuTime, OnlyWorkerAndState, loopVars
  <2> HIDE DEF r
  <2>5. QED
    BY <2>1, <2>2, <2>3, <2>4, ApartStep DEF WorkIsApart, At, Work, Busy
<1>7. ASSUME AddOthers(w) \/ UpdateRaises(w) \/ FinishBatch(w)
      PROVE  WorkIsApart'
  <2> DEFINE r == worker'[w]
  <2>1. /\ r.todo = worker[w].todo /\ ~Busy(r.pc) /\ ~At(w, "idle")
        /\ r.pc = "idle" => r.todo = {}
    <3>1. ASSUME AddOthers(w) \/ UpdateRaises(w)
          PROVE  r = ToNextNode(worker[w]) /\ Busy(worker[w].pc)
      BY <1>2, <3>1 DEF AddOthers, UpdateRaises, At, Busy
    <3>2. ToNextNode(worker[w]).pc = "next" /\ ToNextNode(worker[w]).todo = worker[w].todo
      BY <1>1 DEF ToNextNode, WorkerRecord
    <3>3. ASSUME FinishBatch(w)
          PROVE  r = IdleWorker /\ At(w, "next") /\ worker[w].todo = {}
      BY <1>2, <3>3 DEF FinishBatch
    <3>4. IdleWorker.pc = "idle" /\ IdleWorker.todo = {}
      BY DEF IdleWorker
    <3>5. QED
      BY <1>7, <3>1, <3>2, <3>3, <3>4 DEF At, Busy
  <2>2. worker' = [worker EXCEPT ![w] = r]
    BY <1>2, <1>7 DEF AddOthers, UpdateRaises, FinishBatch
  <2>3. r \in WorkerRecord
    BY <1>1
  <2>4. UNCHANGED <<names, phase, queue>>
    BY <1>7 DEF AddOthers, UpdateRaises, FinishBatch, OnlyWorker,
                OnlyWorkerAndState, loopVars
  <2> HIDE DEF r
  <2>5. QED
    BY <2>1, <2>2, <2>3, <2>4, ApartStep
<1>8. QED
  BY <1>3, <1>4, <1>5, <1>6, <1>7 DEF WorkerStep

LEMMA ApartOthers ==
    ASSUME TypeOK, WorkIsApart,
           LoopStep \/ Tick \/ SetClockBack \/ Restart \/ UNCHANGED vars
    PROVE  WorkIsApart'
<1>1. names' = names /\ \A b : Batch(b)' = Batch(b)
  BY SameNodes DEF LoopStep, SubmitBatches, LeavePool, GoToSleep, WakeUp, Tick,
                   SetClockBack, Restart, vars
<1>2. ASSUME UNCHANGED <<phase, queue, worker>>
      PROVE  WorkIsApart'
  BY <1>1, <1>2 DEF WorkIsApart, At, Work
<1>3. CASE SubmitBatches
  <2>1. worker' = worker /\ phase' = "await" /\ \A w \in Workers : At(w, "idle")
    BY <1>3 DEF SubmitBatches, WorkIsApart
  <2>2. \A w \in Workers : worker[w].pc = "idle" /\ worker[w].todo = {}
    BY <2>1 DEF WorkIsApart, At
  <2>3. \A w \in Workers : Work(w)' = {}
    BY <2>1, <2>2 DEF Work, Busy
  <2>4. QED
    BY <2>1, <2>2, <2>3 DEF WorkIsApart, At, Busy
<1>4. CASE LeavePool
  <2>1. UNCHANGED <<queue, worker>> /\ queue = {} /\ \A w \in Workers : At(w, "idle")
    BY <1>4 DEF LeavePool, GoToSleep
  <2>2. QED
    BY <1>1, <2>1 DEF WorkIsApart, At, Work
<1>5. CASE WakeUp
  <2>1. UNCHANGED <<queue, worker>> /\ queue = {} /\ \A w \in Workers : At(w, "idle")
    BY <1>5 DEF WakeUp, WorkIsApart
  <2>2. QED
    BY <1>1, <2>1 DEF WorkIsApart, At, Work
<1>6. CASE Restart
  <2>1. \A w \in Workers : worker'[w] = IdleWorker
    BY <1>6 DEF Restart
  <2>2. \A w \in Workers : Work(w)' = {} /\ worker'[w].pc = "idle" /\ worker'[w].todo = {}
    BY <2>1 DEF Work, Busy, IdleWorker
  <2>3. queue' = {}
    BY <1>6 DEF Restart
  <2>4. QED
    BY <2>2, <2>3 DEF WorkIsApart, At, Busy
<1>7. QED
  BY <1>2, <1>3, <1>4, <1>5, <1>6
     DEF LoopStep, Tick, SetClockBack, loopVars, vars

LEMMA ApartInit == Init => WorkIsApart
<1> SUFFICES ASSUME Init PROVE WorkIsApart
  OBVIOUS
<1>1. \A w \in Workers : worker[w].pc = "idle" /\ worker[w].todo = {}
  BY DEF Init, IdleWorker
<1>2. QED
  BY <1>1 DEF Init, WorkIsApart, Work, Busy, At

LEMMA ExporterApart == Spec => [](TypeOK /\ WorkIsApart)
<1>1. Init => TypeOK /\ WorkIsApart
  BY InitTypeOK, ApartInit
<1>2. TypeOK /\ WorkIsApart /\ [Next]_vars => TypeOK' /\ WorkIsApart'
  BY WorkersTypeOK, OthersTypeOK, StutterTypeOK, ApartWorker, ApartOthers DEF Next
<1>3. QED
  BY <1>1, <1>2, PTL DEF Spec

\* However batches are cut, and however long workers take, no two threads
\* update one node.
THEOREM NodesHaveOneUpdater == Spec => []OneUpdaterPerNode
<1>1. TypeOK /\ WorkIsApart => OneUpdaterPerNode
  BY DEF WorkIsApart, OneUpdaterPerNode, Updating, Work, Busy
<1>2. QED
  BY ExporterApart, <1>1, PTL

-----------------------------------------------------------------------------
(* Every second is counted once.                                           *)

Known(n, s) == state[n].counted[s] + state[n].lost[s]
Life(n)     == state[n].last_update - state[n].created

\* The account of a section of a node.
Balanced(n, s) ==
    /\ \A w \in Pending(n, s) : Known(n, s) + worker[w].dt = Life(n)
    /\ Pending(n, s) = {} => Known(n, s) = Life(n)

\* SecondsCountedOnce is not inductive: when last_update is advanced, the
\* interval in the worker's hands must still be the one up to now, and no
\* section of it may have been counted.
Accounts ==
    /\ \A w \in Workers :
          worker[w].pc = "measured" =>
              worker[w].dt = worker[w].now - state[worker[w].node].last_update
    /\ \A w \in Workers :
          worker[w].pc \in {"next", "measured", "static"} => worker[w].section = CPU
    /\ \A n \in Nodes, s \in Sections : Balanced(n, s)

LEMMA PendingIs ==
    ASSUME NEW n, NEW s, NEW w \in Workers
    PROVE  w \in Pending(n, s) <=> /\ worker[w].pc \in {"static", "dynamic"}
                                   /\ worker[w].node = n
                                   /\ worker[w].section <= s
BY DEF Pending, Updating

LEMMA OnlyPending ==
    ASSUME TypeOK, WorkIsApart, NEW w \in Workers, Busy(worker[w].pc),
           NEW n, n = worker[w].node
    PROVE  \A v \in Workers : v # w => ~(Busy(worker[v].pc) /\ worker[v].node = n)
BY DEF WorkIsApart, Work

\* A step of w that neither works on n nor changes it.
LEMMA NotConcerned ==
    ASSUME TypeOK, NEW w \in Workers, NEW r, worker' = [worker EXCEPT ![w] = r],
           NEW n, NEW s, w \notin Pending(n, s), w \notin Pending(n, s)',
           state'[n] = state[n], Balanced(n, s)
    PROVE  Balanced(n, s)'
<1>1. \A v \in Workers \ {w} : worker'[v] = worker[v]
  BY TypeParts
<1>2. Pending(n, s)' = Pending(n, s)
  BY <1>1 DEF Pending, Updating
<1>3. \A v \in Pending(n, s) : worker'[v] = worker[v]
  BY <1>1 DEF Pending, Updating
<1>4. Known(n, s)' = Known(n, s) /\ Life(n)' = Life(n)
  BY DEF Known, Life
<1>5. QED
  BY <1>2, <1>3, <1>4 DEF Balanced

\* A step of w on its node n: the account before and after.
LEMMA Concerned ==
    ASSUME TypeOK, WorkIsApart, NEW w \in Workers, Busy(worker[w].pc),
           NEW n, n = worker[w].node, NEW r, worker' = [worker EXCEPT ![w] = r],
           NEW s, Balanced(n, s)
    PROVE  /\ w \in Pending(n, s) => Known(n, s) + worker[w].dt = Life(n)
           /\ w \notin Pending(n, s) => Known(n, s) = Life(n)
           /\ (w \in Pending(n, s) /\ Known(n, s) + worker[w].dt = Life(n))'
                => Balanced(n, s)'
           /\ (w \notin Pending(n, s) /\ Known(n, s) = Life(n))'
                => Balanced(n, s)'
<1>1. \A v \in Workers \ {w} : worker'[v] = worker[v]
  BY TypeParts
<1>2. Pending(n, s) \subseteq {w}
  BY OnlyPending DEF Pending, Updating, Busy
<1>3. Pending(n, s)' \subseteq {w}
  BY <1>1, OnlyPending DEF Pending, Updating, Busy
<1>4. /\ w \in Pending(n, s) => Known(n, s) + worker[w].dt = Life(n)
      /\ w \notin Pending(n, s) => Known(n, s) = Life(n)
  BY <1>2 DEF Balanced
<1>5. ASSUME (w \in Pending(n, s) /\ Known(n, s) + worker[w].dt = Life(n))'
      PROVE  Balanced(n, s)'
  BY <1>3, <1>5 DEF Balanced
<1>6. ASSUME (w \notin Pending(n, s) /\ Known(n, s) = Life(n))'
      PROVE  Balanced(n, s)'
  BY <1>3, <1>6 DEF Balanced
<1>7. QED
  BY <1>4, <1>5, <1>6

\* The account of n, when w makes a step on it that changes only what the
\* sections from k on have been given, and passes them by.
LEMMA AccountOfStep ==
    ASSUME TypeOK, WorkIsApart, Accounts, NEW w \in Workers,
           AdvanceNode(w) \/ SetStatic(w) \/ AddCpuTime(w)
             \/ AddOthers(w) \/ UpdateRaises(w),
           NEW s \in Sections, NEW n, n = worker[w].node
    PROVE  Balanced(n, s)'
<1> DEFINE r == worker'[w]
<1>1. /\ Busy(worker[w].pc) /\ n \in Nodes /\ worker[w].dt \in Nat /\ worker[w].dt > 0
      /\ worker[w].section \in Sections /\ worker[w].now \in Int
      /\ worker \in [Workers -> WorkerRecord] /\ worker[w] \in WorkerRecord
  <2>1. Busy(worker[w].pc)
    BY DEF AdvanceNode, SetStatic, AddCpuTime, AddOthers, UpdateRaises, At, Busy
  <2>2. n \in Nodes /\ worker[w].dt > 0
    BY <2>1 DEF TypeOK, Updating, Busy
  <2>3. QED
    BY <2>1, <2>2, TypeParts DEF WorkerRecord
<1>2. worker' = [worker EXCEPT ![w] = r]
  BY <1>1 DEF AdvanceNode, SetStatic, AddCpuTime, AddOthers, UpdateRaises
<1>3. state[n] \in NodeRecord /\ state \in [Nodes -> NodeRecord]
  BY <1>1, TypeParts
<1>4. Balanced(n, s)
  BY <1>1 DEF Accounts
<1> HIDE DEF r
<1>5. /\ w \in Pending(n, s) => Known(n, s) + worker[w].dt = Life(n)
      /\ w \notin Pending(n, s) => Known(n, s) = Life(n)
      /\ (w \in Pending(n, s) /\ Known(n, s) + worker[w].dt = Life(n))'
           => Balanced(n, s)'
      /\ (w \notin Pending(n, s) /\ Known(n, s) = Life(n))' => Balanced(n, s)'
  BY <1>1, <1>2, <1>4, Concerned
<1>6. /\ w \in Pending(n, s) <=> /\ worker[w].pc \in {"static", "dynamic"}
                                 /\ worker[w].section <= s
      /\ w \in Pending(n, s)' <=> /\ r.pc \in {"static", "dynamic"}
                                  /\ r.node = n /\ r.section <= s
  BY PendingIs DEF r, Pending, Updating
<1>7. /\ state[n].counted[s] \in Nat /\ state[n].lost[s] \in Nat
      /\ state[n].last_update \in Int /\ state[n].created \in Int
  BY <1>3, <1>1 DEF NodeRecord
<1>8. CASE AdvanceNode(w)
  <2>1. worker[w].pc = "measured"
    BY <1>8 DEF AdvanceNode, At
  <2>2. worker[w].section = CPU /\ worker[w].dt = worker[w].now - state[n].last_update
    BY <2>1 DEF Accounts
  <2>3. /\ state'[n].last_update = worker[w].now
        /\ state'[n].created = state[n].created
        /\ state'[n].counted = state[n].counted /\ state'[n].lost = state[n].lost
    BY <1>1, <1>3, <1>8 DEF AdvanceNode, NodeRecord
  <2>4. r.pc \in {"static", "dynamic"} /\ r.node = n /\ r.section = CPU
    BY <1>1, <1>8, <2>2 DEF AdvanceNode, WorkerRecord, r
  <2>5. r.dt = worker[w].dt
    BY <1>1, <1>8 DEF AdvanceNode, WorkerRecord, r
  <2>6. w \notin Pending(n, s) /\ w \in Pending(n, s)'
    BY <1>6, <2>1, <2>4 DEF Sections, CPU, OTHERS
  <2>7. (Known(n, s) + worker[w].dt = Life(n))'
    BY <1>1, <1>5, <1>7, <2>2, <2>3, <2>5, <2>6 DEF Known, Life, r
  <2>8. QED
    BY <1>5, <2>6, <2>7
<1>9. CASE SetStatic(w)
  <2>1. worker[w].pc = "static" /\ r = [worker[w] EXCEPT !.pc = "dynamic"]
    BY <1>1, <1>9 DEF SetStatic, At, r
  <2>2. r.pc = "dynamic" /\ r.node = n /\ r.section = worker[w].section /\ r.dt = worker[w].dt
    BY <1>1, <2>1 DEF WorkerRecord
  <2>3. state'[n] = [state[n] EXCEPT !.static_set = TRUE]
    BY <1>1, <1>3, <1>9 DEF SetStatic
  <2>4. Known(n, s)' = Known(n, s) /\ Life(n)' = Life(n)
    BY <1>3, <2>3 DEF Known, Life, NodeRecord
  <2>5. w \in Pending(n, s)' <=> w \in Pending(n, s)
    BY <1>6, <2>1, <2>2
  <2>6. QED
    BY <1>5, <2>2, <2>4, <2>5 DEF r
<1>10. CASE AddCpuTime(w)
  <2>1. worker[w].pc = "dynamic" /\ worker[w].section = CPU
    BY <1>10 DEF AddCpuTime, At
  <2>2. r.pc = "dynamic" /\ r.node = n /\ r.section = OTHERS /\ r.dt = worker[w].dt
    BY <1>1, <1>10, <2>1, SectionsType DEF AddCpuTime, WorkerRecord, r
  <2>3. /\ state'[n].last_update = state[n].last_update
        /\ state'[n].created = state[n].created
        /\ state'[n].counted = [state[n].counted EXCEPT ![CPU] = @ + worker[w].dt]
        /\ state'[n].lost = state[n].lost
    <3>1. PICK raw \in RawLevels :
            LET time == CpuTime(worker[w].dt, Clamped(raw))
            IN  state' = [state EXCEPT
                            ![worker[w].node].cpu = [m \in Modes |-> @[m] + time[m]],
                            ![worker[w].node].counted[CPU] = @ + worker[w].dt]
      BY <1>10 DEF AddCpuTime
    <3> DEFINE time == CpuTime(worker[w].dt, Clamped(raw))
               cpu  == [m \in Modes |-> state[n].cpu[m] + time[m]]
    <3>2. state' = [state EXCEPT ![n] =
              [@ EXCEPT !.cpu = cpu,
                        !.counted = [state[n].counted EXCEPT ![CPU] = @ + worker[w].dt]]]
      <4> HIDE DEF time
      <4>1. state' = [state EXCEPT
                        ![n].cpu = [m \in Modes |-> @[m] + time[m]],
                        ![n].counted[CPU] = @ + worker[w].dt]
        BY <3>1 DEF time
      <4>2. QED
        BY <1>1, <1>3, <4>1 DEF NodeRecord
    <3> HIDE DEF cpu
    <3>3. QED
      BY <1>1, <1>3, <3>2 DEF NodeRecord
  <2>4. CASE s = CPU
    <3>1. w \in Pending(n, s) /\ w \notin Pending(n, s)'
      BY <1>6, <2>1, <2>2, <2>4 DEF CPU, OTHERS
    <3>2. state'[n].counted[s] = state[n].counted[s] + worker[w].dt
      BY <1>3, <2>3, <2>4 DEF NodeRecord
    <3>3. (Known(n, s) = Life(n))'
      BY <1>1, <1>5, <1>7, <2>3, <3>1, <3>2 DEF Known, Life
    <3>4. QED
      BY <1>5, <3>1, <3>3
  <2>5. CASE s = OTHERS
    <3>1. w \in Pending(n, s) /\ w \in Pending(n, s)'
      BY <1>6, <2>1, <2>2, <2>5 DEF CPU, OTHERS
    <3>2. state'[n].counted[s] = state[n].counted[s]
      BY <1>3, <2>3, <2>5, SectionsType DEF NodeRecord
    <3>3. (Known(n, s) + worker[w].dt = Life(n))'
      BY <1>1, <1>5, <1>7, <2>2, <2>3, <3>1, <3>2 DEF Known, Life, r
    <3>4. QED
      BY <1>5, <3>1, <3>3
  <2>6. QED
    BY <2>4, <2>5 DEF Sections
<1>11. CASE AddOthers(w)
  <2>1. worker[w].pc = "dynamic" /\ worker[w].section = OTHERS
    BY <1>11 DEF AddOthers, At
  <2>2. r.pc = "next"
    BY <1>1, <1>11 DEF AddOthers, ToNextNode, WorkerRecord, r
  <2>3. /\ state'[n].last_update = state[n].last_update
        /\ state'[n].created = state[n].created
        /\ state'[n].counted = [state[n].counted EXCEPT ![OTHERS] = @ + worker[w].dt]
        /\ state'[n].lost = state[n].lost
    BY <1>1, <1>3, <1>11 DEF AddOthers, NodeRecord
  <2>4. w \notin Pending(n, s)'
    BY <1>6, <2>2
  <2>5. (Known(n, s) = Life(n))'
    <3>1. CASE s = CPU
      <4>1. w \notin Pending(n, s)
        BY <1>6, <2>1, <3>1 DEF CPU, OTHERS
      <4>2. state'[n].counted[s] = state[n].counted[s]
        BY <1>3, <2>3, <3>1, SectionsType DEF NodeRecord
      <4>3. QED
        BY <1>5, <2>3, <4>1, <4>2 DEF Known, Life
    <3>2. CASE s = OTHERS
      <4>1. w \in Pending(n, s)
        BY <1>6, <2>1, <3>2 DEF CPU, OTHERS
      <4>2. state'[n].counted[s] = state[n].counted[s] + worker[w].dt
        BY <1>3, <2>3, <3>2 DEF NodeRecord
      <4>3. QED
        BY <1>1, <1>5, <1>7, <2>3, <4>1, <4>2 DEF Known, Life
    <3>3. QED
      BY <3>1, <3>2 DEF Sections
  <2>6. QED
    BY <1>5, <2>4, <2>5
<1>12. CASE UpdateRaises(w)
  <2>1. worker[w].pc \in {"static", "dynamic"}
    BY <1>12 DEF UpdateRaises
  <2>2. r.pc = "next"
    BY <1>1, <1>12 DEF UpdateRaises, ToNextNode, WorkerRecord, r
  <2>3. /\ state'[n].last_update = state[n].last_update
        /\ state'[n].created = state[n].created
        /\ state'[n].counted = state[n].counted
        /\ state'[n].lost[s] = IF worker[w].section <= s
                               THEN state[n].lost[s] + worker[w].dt
                               ELSE state[n].lost[s]
    BY <1>1, <1>3, <1>12 DEF UpdateRaises, LoseInterval, NodeRecord
  <2>4. w \notin Pending(n, s)'
    BY <1>6, <2>2
  <2>5. (Known(n, s) = Life(n))'
    <3>1. CASE worker[w].section <= s
      <4>1. w \in Pending(n, s)
        BY <1>6, <2>1, <3>1
      <4>2. QED
        BY <1>1, <1>5, <1>7, <2>3, <3>1, <4>1 DEF Known, Life
    <3>2. CASE ~(worker[w].section <= s)
      <4>1. w \notin Pending(n, s)
        BY <1>6, <2>1, <3>2
      <4>2. QED
        BY <1>5, <2>3, <3>2, <4>1 DEF Known, Life
    <3>3. QED
      BY <3>1, <3>2
  <2>6. QED
    BY <1>5, <2>4, <2>5
<1>13. QED
  BY <1>8, <1>9, <1>10, <1>11, <1>12

Working(w) == \/ AdvanceNode(w) \/ SetStatic(w) \/ AddCpuTime(w)
              \/ AddOthers(w) \/ UpdateRaises(w)

\* What a step on a node leaves alone: the other nodes and the other workers.
LEMMA WorkingStep ==
    ASSUME TypeOK, NEW w \in Workers, Working(w)
    PROVE  /\ Busy(worker[w].pc)
           /\ worker' = [worker EXCEPT ![w] = worker'[w]]
           /\ worker'[w].pc \in {"static", "dynamic", "next"}
           /\ worker'[w].pc = "static" => worker[w].pc = "measured"
                                          /\ worker'[w].section = worker[w].section
           /\ worker'[w].pc = "next" => worker'[w].section = CPU
           /\ names' = names
           /\ \A n \in Nodes : n # worker[w].node => state'[n] = state[n]
<1>1. /\ worker \in [Workers -> WorkerRecord] /\ worker[w] \in WorkerRecord
      /\ state \in [Nodes -> NodeRecord]
  BY TypeParts
<1>2. worker' = [worker EXCEPT ![w] = worker'[w]]
  BY <1>1 DEF Working, AdvanceNode, SetStatic, AddCpuTime, AddOthers, UpdateRaises
<1>3. Busy(worker[w].pc) /\ names' = names
  BY DEF Working, AdvanceNode, SetStatic, AddCpuTime, AddOthers, UpdateRaises,
         OnlyWorkerAndState, At, Busy
<1>4. \A n \in Nodes : n # worker[w].node => state'[n] = state[n]
  BY <1>1 DEF Working, AdvanceNode, SetStatic, AddCpuTime, AddOthers,
              UpdateRaises, LoseInterval
<1>5. CASE AdvanceNode(w)
  <2>1. /\ worker[w].pc = "measured"
        /\ worker'[w] = [worker[w] EXCEPT !.pc = IF state[worker[w].node].static_set
                                                 THEN "dynamic" ELSE "static"]
    BY <1>1, <1>5 DEF AdvanceNode, At
  <2>2. /\ worker'[w].pc \in {"static", "dynamic"}
        /\ worker'[w].section = worker[w].section
    BY <1>1, <2>1 DEF WorkerRecord
  <2>3. QED
    BY <1>2, <1>3, <1>4, <2>1, <2>2
<1>6. CASE SetStatic(w) \/ AddCpuTime(w)
  <2>1. worker'[w].pc = "dynamic"
    BY <1>1, <1>6 DEF SetStatic, AddCpuTime, At, WorkerRecord
  <2>2. QED
    BY <1>2, <1>3, <1>4, <2>1
<1>7. CASE AddOthers(w) \/ UpdateRaises(w)
  <2>1. worker'[w] = ToNextNode(worker[w])
    BY <1>1, <1>7 DEF AddOthers, UpdateRaises
  <2>2. worker'[w].pc = "next" /\ worker'[w].section = CPU
    BY <1>1, <2>1 DEF ToNextNode, WorkerRecord
  <2>3. QED
    BY <1>2, <1>3, <1>4, <2>2
<1>8. QED
  BY <1>5, <1>6, <1>7 DEF Working

LEMMA AccountsWorking ==
    ASSUME TypeOK, WorkIsApart, Accounts, NEW w \in Workers, Working(w)
    PROVE  Accounts'
<1>1. worker' = [worker EXCEPT ![w] = worker'[w]]
  BY WorkingStep
<1>2. \A v \in Workers \ {w} : worker'[v] = worker[v]
  BY <1>1, TypeParts
<1>3. Nodes' = Nodes /\ Busy(worker[w].pc)
  BY WorkingStep, SameNodes
<1>4. ASSUME NEW v \in Workers, worker'[v].pc = "measured"
      PROVE  worker'[v].dt = worker'[v].now - state'[worker'[v].node].last_update
  <2>1. v # w
    BY <1>4, WorkingStep
  <2>2. worker'[v] = worker[v] /\ worker[v].pc = "measured"
    BY <1>2, <1>4, <2>1
  <2>3. worker[v].node \in Nodes
    BY <2>2 DEF TypeOK, Updating
  <2>4. worker[v].node # worker[w].node
    BY <1>3, <2>1, <2>2, OnlyPending DEF Busy
  <2>5. state'[worker[v].node] = state[worker[v].node]
    BY <2>3, <2>4, WorkingStep
  <2>6. QED
    BY <2>2, <2>5 DEF Accounts
<1>5. ASSUME NEW v \in Workers, worker'[v].pc \in {"next", "measured", "static"}
      PROVE  worker'[v].section = CPU
  <2>1. CASE v = w
    BY <1>5, <2>1, WorkingStep DEF Accounts
  <2>2. CASE v # w
    BY <1>2, <1>5, <2>2 DEF Accounts
  <2>3. QED
    BY <2>1, <2>2
<1>6. ASSUME NEW n \in Nodes, NEW s \in Sections
      PROVE  Balanced(n, s)'
  <2>1. CASE n = worker[w].node
    BY <2>1, AccountOfStep DEF Working
  <2>2. CASE n # worker[w].node
    <3>1. state'[n] = state[n]
      BY <2>2, WorkingStep
    <3>2. w \notin Pending(n, s)
      BY <2>2 DEF Pending
    <3>3. w \notin Pending(n, s)'
      <4>1. worker'[w].pc \in {"static", "dynamic"} => worker'[w].node = worker[w].node
        <5>1. worker[w] \in WorkerRecord /\ worker \in [Workers -> WorkerRecord]
          BY TypeParts
        <5>2. CASE AddOthers(w) \/ UpdateRaises(w)
          <6>1. worker'[w] = ToNextNode(worker[w])
            BY <5>1, <5>2 DEF AddOthers, UpdateRaises
          <6>2. QED
            BY <5>1, <6>1 DEF ToNextNode, WorkerRecord
        <5>3. CASE AdvanceNode(w) \/ SetStatic(w) \/ AddCpuTime(w)
          BY <5>1, <5>3 DEF AdvanceNode, SetStatic, AddCpuTime, WorkerRecord
        <5>4. QED
          BY <5>2, <5>3 DEF Working
      <4>2. QED
        BY <2>2, <4>1 DEF Pending, Updating
    <3>4. Balanced(n, s)
      BY DEF Accounts
    <3>5. QED
      BY <1>1, <3>1, <3>2, <3>3, <3>4, NotConcerned
  <2>3. QED
    BY <2>1, <2>2
<1>7. (\A v \in Workers : worker[v].pc = "measured" =>
          worker[v].dt = worker[v].now - state[worker[v].node].last_update)'
  BY <1>4
<1>8. (\A v \in Workers :
          worker[v].pc \in {"next", "measured", "static"} => worker[v].section = CPU)'
  BY <1>5
<1>9. (\A n \in Nodes, s \in Sections : Balanced(n, s))'
  BY <1>3, <1>6
<1>10. QED
  BY <1>7, <1>8, <1>9 DEF Accounts

\* Steps of a worker between its nodes: no account is touched.
LEMMA AccountsBetween ==
    ASSUME TypeOK, WorkIsApart, Accounts, NEW w \in Workers,
           NEW r, worker' = [worker EXCEPT ![w] = r],
           UNCHANGED <<names, state>>,
           worker[w].pc \in {"idle", "next"},
           r.pc \in {"idle", "next", "measured"},
           r.pc # "idle" => r.section = CPU,
           r.pc = "measured" => r.dt = r.now - state[r.node].last_update
    PROVE  Accounts'
<1>1. worker'[w] = r /\ \A v \in Workers \ {w} : worker'[v] = worker[v]
  BY TypeParts
<1>2. Nodes' = Nodes
  BY SameNodes
<1>3. ASSUME NEW n \in Nodes, NEW s \in Sections
      PROVE  Balanced(n, s)'
  <2>1. w \notin Pending(n, s) /\ w \notin Pending(n, s)'
    BY <1>1 DEF Pending, Updating
  <2>2. Balanced(n, s) /\ state'[n] = state[n]
    BY DEF Accounts
  <2>3. QED
    BY <2>1, <2>2, NotConcerned
<1>4. (\A v \in Workers : worker[v].pc = "measured" =>
          worker[v].dt = worker[v].now - state[worker[v].node].last_update)'
  BY <1>1 DEF Accounts
<1>5. (\A v \in Workers :
          worker[v].pc \in {"next", "measured", "static"} => worker[v].section = CPU)'
  BY <1>1 DEF Accounts
<1>6. (\A n \in Nodes, s \in Sections : Balanced(n, s))'
  BY <1>2, <1>3
<1>7. QED
  BY <1>4, <1>5, <1>6 DEF Accounts

LEMMA AccountsWorker ==
    ASSUME TypeOK, WorkIsApart, Accounts, NEW w \in Workers, WorkerStep(w)
    PROVE  Accounts'
<1>1. worker \in [Workers -> WorkerRecord] /\ worker[w] \in WorkerRecord
  BY TypeParts
<1> DEFINE r == worker'[w]
<1>2. CASE \E b \in AllBatches : TakeBatch(w, b)
  <2>1. /\ worker[w].pc = "idle" /\ UNCHANGED <<names, state>>
        /\ worker' = [worker EXCEPT ![w] = r]
        /\ r.pc = "next" /\ r.section = CPU
    BY <1>1, <1>2 DEF TakeBatch, At, IdleWorker
  <2> HIDE DEF r
  <2>2. QED
    BY <2>1, AccountsBetween
<1>3. CASE \E n \in Nodes : SkipNode(w, n)
  <2>1. /\ worker[w].pc = "next" /\ UNCHANGED <<names, state>>
        /\ worker' = [worker EXCEPT ![w] = r]
        /\ r.pc = "next" /\ r.section = worker[w].section
    BY <1>1, <1>3
       DEF SkipNode, NextNode, At, OnlyWorker, OnlyWorkerAndState, WorkerRecord
  <2>2. r.section = CPU
    BY <2>1 DEF Accounts
  <2> HIDE DEF r
  <2>3. QED
    BY <2>1, <2>2, AccountsBetween
<1>4. CASE \E n \in Nodes : MeasureNode(w, n)
  <2>1. /\ worker[w].pc = "next" /\ UNCHANGED <<names, state>>
        /\ worker' = [worker EXCEPT ![w] = r]
        /\ r.pc = "measured" /\ r.section = worker[w].section
        /\ r.dt = r.now - state[r.node].last_update
    <3>1. PICK n \in Nodes : MeasureNode(w, n)
      BY <1>4
    <3>2. /\ worker[w].pc = "next" /\ UNCHANGED <<names, state>>
          /\ r = [worker[w] EXCEPT !.pc = "measured", !.node = n,
                                   !.dt = Elapsed(w, n), !.todo = @ \ {n}]
          /\ worker' = [worker EXCEPT ![w] = r]
      BY <1>1, <3>1
         DEF MeasureNode, NextNode, At, OnlyWorker, OnlyWorkerAndState
    <3>3. /\ r.pc = "measured" /\ r.node = n /\ r.dt = Elapsed(w, n)
          /\ r.now = worker[w].now /\ r.section = worker[w].section
      BY <1>1, <3>2 DEF WorkerRecord
    <3> HIDE DEF r
    <3>4. QED
      BY <3>2, <3>3 DEF Elapsed
  <2>2. r.section = CPU
    BY <2>1 DEF Accounts
  <2> HIDE DEF r
  <2>3. QED
    BY <2>1, <2>2, AccountsBetween
<1>5. CASE FinishBatch(w)
  <2>1. /\ worker[w].pc = "next" /\ UNCHANGED <<names, state>>
        /\ worker' = [worker EXCEPT ![w] = r] /\ r.pc = "idle"
    BY <1>1, <1>5
       DEF FinishBatch, At, OnlyWorker, OnlyWorkerAndState, IdleWorker
  <2> HIDE DEF r
  <2>2. QED
    BY <2>1, AccountsBetween
<1>6. CASE Working(w)
  BY <1>6, AccountsWorking
<1>7. QED
  BY <1>2, <1>3, <1>4, <1>5, <1>6 DEF WorkerStep, Working

\* New nodes have no life yet.
LEMMA NewAccounts ==
    ASSUME NEW t \in Int, NEW n, NEW s \in Sections,
           state'[n] = NewNode(t), \A w \in Workers : worker'[w] = IdleWorker
    PROVE  Balanced(n, s)'
<1>1. (Pending(n, s) = {})'
  BY DEF Pending, Updating, IdleWorker
<1>2. Known(n, s)' = 0 /\ Life(n)' = 0
  BY DEF Known, Life, NewNode
<1>3. QED
  BY <1>1, <1>2 DEF Balanced

LEMMA AccountsOthers ==
    ASSUME TypeOK, Accounts,
           LoopStep \/ Tick \/ SetClockBack \/ Restart \/ UNCHANGED vars
    PROVE  Accounts'
<1>1. CASE Restart
  <2>1. /\ \A n \in Nodes : state'[n] = NewNode(clock)
        /\ \A w \in Workers : worker'[w] = IdleWorker
        /\ names' = names
    BY <1>1 DEF Restart
  <2>2. Nodes' = Nodes /\ clock \in Int
    BY <2>1, SameNodes DEF TypeOK
  <2>3. \A n \in Nodes, s \in Sections : Balanced(n, s)'
    BY <2>1, <2>2, NewAccounts
  <2>4. QED
    BY <2>1, <2>2, <2>3 DEF Accounts, IdleWorker
<1>2. CASE ~Restart
  <2>1. UNCHANGED <<names, state, worker>>
    BY <1>2 DEF LoopStep, SubmitBatches, LeavePool, GoToSleep, WakeUp, Tick,
                SetClockBack, vars
  <2>2. Nodes' = Nodes
    BY <2>1, SameNodes
  <2>3. \A n, s : Pending(n, s)' = Pending(n, s)
    BY <2>1 DEF Pending, Updating
  <2>4. \A n, s : Balanced(n, s)' <=> Balanced(n, s)
    BY <2>1, <2>3 DEF Balanced, Known, Life
  <2>5. QED
    BY <2>1, <2>2, <2>4 DEF Accounts
<1>3. QED
  BY <1>1, <1>2

LEMMA AccountsInit == Init => Accounts
<1> SUFFICES ASSUME Init PROVE Accounts
  OBVIOUS
<1>1. \A w \in Workers : worker[w].pc = "idle"
  BY DEF Init, IdleWorker
<1>2. \A n, s : Pending(n, s) = {}
  BY <1>1 DEF Pending, Updating
<1>3. \A n \in Nodes, s \in Sections : Known(n, s) = 0 /\ Life(n) = 0
  BY DEF Init, Known, Life, NewNode
<1>4. QED
  BY <1>1, <1>2, <1>3 DEF Accounts, Balanced

\* Every second of a node's life is counted once in every section, or is about
\* to be, or fell to an exception: for any clock, any batches and any workers.
THEOREM SecondsAreCountedOnce == Spec => []SecondsCountedOnce
<1>1. Init => TypeOK /\ WorkIsApart /\ Accounts
  BY InitTypeOK, ApartInit, AccountsInit
<1>2. TypeOK /\ WorkIsApart /\ Accounts /\ [Next]_vars
        => TypeOK' /\ WorkIsApart' /\ Accounts'
  BY WorkersTypeOK, OthersTypeOK, StutterTypeOK, ApartWorker, ApartOthers,
     AccountsWorker, AccountsOthers DEF Next
<1>3. Accounts => SecondsCountedOnce
  BY DEF Accounts, Balanced, SecondsCountedOnce, Known, Life
<1>4. QED
  BY <1>1, <1>2, <1>3, PTL DEF Spec

\* The step AddCpuTime of w on its node n, for a division of the interval.
Divided(w, n, time) ==
    /\ SumOfModes(time) = 100000 * CpuWeight * worker[w].dt
    /\ state' = [state EXCEPT ![n] =
         [@ EXCEPT !.cpu = [m \in Modes |-> state[n].cpu[m] + time[m]],
                   !.counted = [state[n].counted EXCEPT ![CPU] = @ + worker[w].dt]]]

LEMMA CpuTimeAdded ==
    ASSUME TypeOK, NEW w \in Workers, AddCpuTime(w),
           NEW n, n = worker[w].node
    PROVE  /\ n \in Nodes /\ worker[w].dt \in Nat
           /\ \E time \in [Modes -> Nat] : Divided(w, n, time)
<1>1. n \in Nodes /\ worker[w].dt \in Nat /\ state[n] \in NodeRecord
  BY TypeParts DEF AddCpuTime, At, TypeOK, Updating, WorkerRecord
<1>2. PICK raw \in RawLevels :
        LET time == CpuTime(worker[w].dt, Clamped(raw))
        IN  state' = [state EXCEPT
                        ![worker[w].node].cpu = [m \in Modes |-> @[m] + time[m]],
                        ![worker[w].node].counted[CPU] = @ + worker[w].dt]
  BY DEF AddCpuTime
<1> DEFINE time == CpuTime(worker[w].dt, Clamped(raw))
<1>3. raw \in Int
  BY <1>2, ExporterAssumption
<1>4. /\ time \in [Modes -> Nat]
      /\ SumOfModes(time) = 100000 * CpuWeight * worker[w].dt
  <2>1. PICK dt \in Nat : dt = worker[w].dt
    BY <1>1
  <2>2. /\ CpuTime(dt, Clamped(raw)) \in [Modes -> Nat]
        /\ SumOfModes(CpuTime(dt, Clamped(raw))) = 100000 * CpuWeight * dt
    BY <1>3, ModesOfAnInterval
  <2>3. time = CpuTime(dt, Clamped(raw))
    BY <2>1
  <2>4. 100000 * CpuWeight * worker[w].dt = 100000 * CpuWeight * dt
    BY <2>1
  <2> HIDE DEF time
  <2>5. QED
    BY <2>2, <2>3, <2>4
<1>5. state' = [state EXCEPT ![n].cpu = [m \in Modes |-> @[m] + time[m]],
                             ![n].counted[CPU] = @ + worker[w].dt]
  BY <1>2
<1> HIDE DEF time
<1> DEFINE cpu == [m \in Modes |-> state[n].cpu[m] + time[m]]
<1>6. state' = [state EXCEPT ![n] =
          [@ EXCEPT !.cpu = cpu,
                    !.counted = [state[n].counted EXCEPT ![CPU] = @ + worker[w].dt]]]
  BY <1>1, <1>5, TypeParts DEF NodeRecord
<1>7. Divided(w, n, time)
  BY <1>4, <1>6 DEF Divided
<1>8. QED
  BY <1>1, <1>4, <1>7

LEMMA CpuTimeKeepsUpdate ==
    ASSUME TypeOK, NEW w \in Workers, AddCpuTime(w), NEW n \in Nodes
    PROVE  state'[n].last_update = state[n].last_update
<1>1. PICK k : k = worker[w].node
  OBVIOUS
<1>2. k \in Nodes /\ \E time \in [Modes -> Nat] : Divided(w, k, time)
  BY <1>1, CpuTimeAdded
<1>3. PICK time \in [Modes -> Nat] : Divided(w, k, time)
  BY <1>2
<1> DEFINE cpu     == [m \in Modes |-> state[k].cpu[m] + time[m]]
           counted == [state[k].counted EXCEPT ![CPU] = @ + worker[w].dt]
<1>4. state' = [state EXCEPT ![k] = [@ EXCEPT !.cpu = cpu, !.counted = counted]]
  BY <1>3 DEF Divided
<1> HIDE DEF cpu, counted
<1>5. QED
  BY <1>2, <1>4, TypeParts DEF NodeRecord

-----------------------------------------------------------------------------
(* A round reaches every node.                                             *)

Reached(n) == state[n].last_update >= roundStart

\* The round has yet to come to node n.
Waits(n) == \/ \E b \in queue : n \in Batch(b)
            \/ \E w \in Workers : n \in worker[w].todo
            \/ \E w \in Workers : worker[w].pc = "measured" /\ worker[w].node = n

\* RoundReachesEveryNode is about the end of a round: until then a node has
\* been reached, or waits, and who comes to it took the time in this round.
NoneIsLeft ==
    /\ clock >= 0
    /\ setbacks = 0 =>
          /\ roundStart <= clock
          /\ phase = "await" => \A w \in Workers :
                                    ~At(w, "idle") => worker[w].now >= roundStart
          /\ phase = "await" => \A n \in Nodes : Waits(n) \/ Reached(n)
          /\ phase = "sleep" => \A n \in Nodes : Reached(n)

LEMMA NoneIsLeftInit == Init => NoneIsLeft
BY DEF Init, NoneIsLeft

\* The steps of workers happen in a round and leave its frame alone.
LEMMA RoundFrame ==
    ASSUME TypeOK, WorkIsApart, NEW w \in Workers, WorkerStep(w)
    PROVE  /\ phase = "await"
           /\ UNCHANGED <<names, timeVars, loopVars>>
           /\ worker' = [worker EXCEPT ![w] = worker'[w]]
           /\ Nodes' = Nodes /\ \A b : Batch(b)' = Batch(b)
<1>1. UNCHANGED <<names, timeVars, loopVars>>
  BY DEF WorkerStep, TakeBatch, SkipNode, MeasureNode, AdvanceNode, SetStatic,
         AddCpuTime, AddOthers, UpdateRaises, FinishBatch, OnlyWorker,
         OnlyWorkerAndState
<1>2. worker' = [worker EXCEPT ![w] = worker'[w]]
  BY TypeParts
     DEF WorkerStep, TakeBatch, SkipNode, MeasureNode, AdvanceNode, SetStatic,
         AddCpuTime, AddOthers, UpdateRaises, FinishBatch
<1>3. queue # {} \/ ~At(w, "idle")
  BY DEF WorkerStep, TakeBatch, SkipNode, MeasureNode, NextNode, AdvanceNode,
         SetStatic, AddCpuTime, AddOthers, UpdateRaises, FinishBatch, At
<1>4. phase = "await"
  BY <1>3 DEF WorkIsApart
<1>5. QED
  BY <1>1, <1>2, <1>4, SameNodes

\* What a worker's step leaves to show.
LEMMA NoneIsLeftStep ==
    ASSUME TypeOK, WorkIsApart, NoneIsLeft, NEW w \in Workers, WorkerStep(w),
           setbacks = 0 => /\ worker'[w].pc # "idle" => worker'[w].now >= roundStart
                           /\ \A n \in Nodes : (Waits(n) \/ Reached(n))'
    PROVE  NoneIsLeft'
<1>1. /\ phase = "await" /\ phase' = phase
      /\ UNCHANGED <<clock, setbacks, roundStart>>
      /\ Nodes' = Nodes
      /\ \A v \in Workers \ {w} : worker'[v] = worker[v]
  BY RoundFrame, TypeParts DEF timeVars, loopVars
<1>2. ASSUME setbacks = 0, NEW v \in Workers, worker'[v].pc # "idle"
      PROVE  worker'[v].now >= roundStart
  BY <1>1, <1>2 DEF NoneIsLeft, At
<1>3. QED
  BY <1>1, <1>2 DEF NoneIsLeft, At

LEMMA NoneIsLeftWorker ==
    ASSUME TypeOK, WorkIsApart, NoneIsLeft, NEW w \in Workers, WorkerStep(w)
    PROVE  NoneIsLeft'
<1>1. /\ worker \in [Workers -> WorkerRecord] /\ worker[w] \in WorkerRecord
      /\ state \in [Nodes -> NodeRecord]
      /\ clock \in Int /\ roundStart \in Int
  BY TypeParts DEF TypeOK
<1>2. /\ phase = "await" /\ UNCHANGED <<clock, setbacks, roundStart>>
      /\ Nodes' = Nodes /\ \A b : Batch(b)' = Batch(b)
      /\ \A v \in Workers \ {w} : worker'[v] = worker[v]
  BY RoundFrame, <1>1 DEF timeVars, loopVars
<1> SUFFICES ASSUME setbacks = 0
             PROVE  /\ worker'[w].pc # "idle" => worker'[w].now >= roundStart
                    /\ \A n \in Nodes : (Waits(n) \/ Reached(n))'
  BY NoneIsLeftStep
<1>3. /\ ~At(w, "idle") => worker[w].now >= roundStart
      /\ \A n \in Nodes : Waits(n) \/ Reached(n)
      /\ clock >= roundStart
  BY <1>1, <1>2 DEF NoneIsLeft
<1>4. ASSUME NEW b \in AllBatches, TakeBatch(w, b)
      PROVE  /\ worker'[w].pc # "idle" => worker'[w].now >= roundStart
             /\ \A n \in Nodes : (Waits(n) \/ Reached(n))'
  <2>1. /\ worker[w].pc = "idle" /\ worker[w].todo = {}
        /\ queue' = queue \ {b} /\ state' = state
    BY <1>4 DEF TakeBatch, At, WorkIsApart
  <2>2. worker'[w].now = clock /\ worker'[w].todo = Batch(b)
    BY <1>1, <1>4 DEF TakeBatch, IdleWorker
  <2>3. ASSUME NEW n \in Nodes, Waits(n)
        PROVE  Waits(n)'
    BY <1>2, <2>1, <2>2, <2>3 DEF Waits
  <2>4. QED
    BY <1>2, <1>3, <2>1, <2>2, <2>3 DEF Reached
<1>5. ASSUME NEW k \in Nodes, SkipNode(w, k)
      PROVE  /\ worker'[w].pc # "idle" => worker'[w].now >= roundStart
             /\ \A n \in Nodes : (Waits(n) \/ Reached(n))'
  <2>1. /\ worker[w].pc = "next" /\ state' = state /\ queue' = queue
        /\ worker[w].now - state[k].last_update <= 0
        /\ worker'[w] = [worker[w] EXCEPT !.todo = @ \ {k}]
    BY <1>1, <1>5
       DEF SkipNode, NextNode, Elapsed, At, OnlyWorker, OnlyWorkerAndState
  <2>2. worker'[w].now = worker[w].now /\ worker'[w].todo = worker[w].todo \ {k}
    BY <1>1, <2>1 DEF WorkerRecord
  <2>3. Reached(k)'
    BY <1>1, <1>2, <1>3, <2>1 DEF Reached, At, WorkerRecord, NodeRecord
  <2>4. ASSUME NEW n \in Nodes, n # k, Waits(n)
        PROVE  Waits(n)'
    BY <1>2, <2>1, <2>2, <2>4 DEF Waits
  <2>5. QED
    BY <1>2, <1>3, <2>1, <2>2, <2>3, <2>4 DEF Reached, At
<1>6. ASSUME NEW k \in Nodes, MeasureNode(w, k)
      PROVE  /\ worker'[w].pc # "idle" => worker'[w].now >= roundStart
             /\ \A n \in Nodes : (Waits(n) \/ Reached(n))'
  <2>1. /\ worker[w].pc = "next" /\ state' = state /\ queue' = queue
        /\ worker'[w] = [worker[w] EXCEPT !.pc = "measured", !.node = k,
                            !.dt = Elapsed(w, k), !.todo = @ \ {k}]
    BY <1>1, <1>6 DEF MeasureNode, NextNode, At, OnlyWorker, OnlyWorkerAndState
  <2>2. /\ worker'[w].now = worker[w].now /\ worker'[w].todo = worker[w].todo \ {k}
        /\ worker'[w].pc = "measured" /\ worker'[w].node = k
    BY <1>1, <2>1 DEF WorkerRecord
  <2>3. ASSUME NEW n \in Nodes, Waits(n)
        PROVE  Waits(n)'
    BY <1>2, <2>1, <2>2, <2>3 DEF Waits
  <2>4. QED
    BY <1>2, <1>3, <2>1, <2>2, <2>3 DEF Reached, At
<1>7. ASSUME AdvanceNode(w)
      PROVE  /\ worker'[w].pc # "idle" => worker'[w].now >= roundStart
             /\ \A n \in Nodes : (Waits(n) \/ Reached(n))'
  <2> DEFINE k == worker[w].node
  <2>1. /\ worker[w].pc = "measured" /\ queue' = queue
        /\ worker'[w] = [worker[w] EXCEPT !.pc = IF state[k].static_set
                                                 THEN "dynamic" ELSE "static"]
        /\ state' = [state EXCEPT ![k].last_update = worker[w].now]
    BY <1>1, <1>7 DEF AdvanceNode, At, OnlyWorkerAndState
  <2>2. worker'[w].now = worker[w].now /\ worker'[w].todo = worker[w].todo
    BY <1>1, <2>1 DEF WorkerRecord
  <2>3. k \in Nodes
    BY <2>1 DEF TypeOK, Updating
  <2>4. state'[k].last_update = worker[w].now
    BY <1>1, <2>1, <2>3 DEF NodeRecord
  <2>5. worker[w].now >= roundStart
    BY <1>3, <2>1 DEF At
  <2>6. ASSUME NEW n \in Nodes
        PROVE  (Waits(n) \/ Reached(n))'
    <3>1. CASE n = k
      BY <1>2, <2>4, <2>5, <3>1 DEF Reached
    <3>2. CASE n # k
      <4>1. state'[n] = state[n]
        BY <1>1, <2>1, <3>2
      <4>2. Waits(n) => Waits(n)'
        BY <1>2, <2>1, <2>2, <3>2 DEF Waits
      <4>3. QED
        BY <1>2, <1>3, <4>1, <4>2 DEF Reached
    <3>3. QED
      BY <3>1, <3>2
  <2>7. QED
    BY <2>2, <2>5, <2>6
<1>8. ASSUME SetStatic(w) \/ AddCpuTime(w) \/ AddOthers(w) \/ UpdateRaises(w)
      PROVE  /\ worker'[w].pc # "idle" => worker'[w].now >= roundStart
             /\ \A n \in Nodes : (Waits(n) \/ Reached(n))'
  <2>1. worker[w].pc \in {"static", "dynamic"} /\ queue' = queue
    BY <1>8 DEF SetStatic, AddCpuTime, AddOthers, UpdateRaises, At, OnlyWorkerAndState
  <2>2. worker'[w].now = worker[w].now /\ worker'[w].todo = worker[w].todo
    <3>1. CASE SetStatic(w)
      BY <1>1, <3>1 DEF SetStatic, WorkerRecord
    <3>2. CASE AddCpuTime(w)
      <4>1. worker'[w] = [worker[w] EXCEPT !.section = OTHERS]
        BY <1>1, <3>2 DEF AddCpuTime
      <4>2. QED
        BY <1>1, <4>1 DEF WorkerRecord
    <3>3. CASE AddOthers(w) \/ UpdateRaises(w)
      <4>1. worker'[w] = ToNextNode(worker[w])
        BY <1>1, <3>3 DEF AddOthers, UpdateRaises
      <4>2. QED
        BY <1>1, <4>1 DEF ToNextNode, WorkerRecord
    <3>4. QED
      BY <1>8, <3>1, <3>2, <3>3
  <2>3. worker[w].node \in Nodes
    BY <2>1 DEF TypeOK, Updating
  <2>4. ASSUME NEW n \in Nodes
        PROVE  state'[n].last_update = state[n].last_update
    <3>1. CASE SetStatic(w)
      BY <1>1, <2>3, <3>1 DEF SetStatic, NodeRecord
    <3>2. CASE AddCpuTime(w)
      BY <3>2, CpuTimeKeepsUpdate
    <3>3. CASE AddOthers(w)
      BY <1>1, <2>3, <3>3 DEF AddOthers, NodeRecord
    <3>4. CASE UpdateRaises(w)
      BY <1>1, <2>3, <3>4 DEF UpdateRaises, LoseInterval, NodeRecord
    <3>5. QED
      BY <1>8, <3>1, <3>2, <3>3, <3>4
  <2>5. ASSUME NEW n \in Nodes, Waits(n)
        PROVE  Waits(n)'
    BY <1>2, <2>1, <2>2, <2>5 DEF Waits
  <2>6. QED
    BY <1>2, <1>3, <2>1, <2>2, <2>4, <2>5 DEF Reached, At
<1>9. ASSUME FinishBatch(w)
      PROVE  /\ worker'[w].pc # "idle" => worker'[w].now >= roundStart
             /\ \A n \in Nodes : (Waits(n) \/ Reached(n))'
  <2>1. /\ worker[w].pc = "next" /\ state' = state /\ queue' = queue
        /\ worker[w].todo = {} /\ worker'[w].pc = "idle"
    BY <1>1, <1>9
       DEF FinishBatch, At, OnlyWorker, OnlyWorkerAndState, IdleWorker
  <2>2. ASSUME NEW n \in Nodes, Waits(n)
        PROVE  Waits(n)'
    BY <1>2, <2>1, <2>2 DEF Waits
  <2>3. QED
    BY <1>2, <1>3, <2>1, <2>2 DEF Reached
<1>10. QED
  BY <1>4, <1>5, <1>6, <1>7, <1>8, <1>9 DEF WorkerStep

LEMMA NoneIsLeftOthers ==
    ASSUME TypeOK, WorkIsApart, NoneIsLeft,
           LoopStep \/ Tick \/ SetClockBack \/ Restart \/ UNCHANGED vars
    PROVE  NoneIsLeft'
<1>1. /\ names' = names /\ Nodes' = Nodes /\ AllBatches' = AllBatches
      /\ \A b : Batch(b)' = Batch(b)
  BY SameNodes DEF LoopStep, SubmitBatches, LeavePool, GoToSleep, WakeUp, Tick,
                   SetClockBack, Restart, vars
<1>2. clock \in Int /\ roundStart \in Int /\ setbacks \in Nat
  BY DEF TypeOK
<1>3. CASE SubmitBatches
  <2>1. /\ phase' = "await" /\ roundStart' = clock /\ queue' = AllBatches
        /\ UNCHANGED <<clock, setbacks, worker>>
        /\ \A w \in Workers : At(w, "idle")
    BY <1>3 DEF SubmitBatches, timeVars, WorkIsApart
  <2>2. \A n \in Nodes : Waits(n)'
    BY <1>1, <2>1, EveryNodeHasABatch DEF Waits
  <2>3. QED
    BY <1>1, <1>2, <2>1, <2>2 DEF NoneIsLeft, At
<1>4. CASE LeavePool
  <2>1. /\ phase = "await" /\ phase' = "sleep" /\ queue = {}
        /\ \A w \in Workers : At(w, "idle")
        /\ UNCHANGED <<state, clock, setbacks, roundStart>>
    BY <1>4 DEF LeavePool, GoToSleep, timeVars
  <2>2. \A n \in Nodes : ~Waits(n)
    BY <2>1 DEF Waits, At, WorkIsApart
  <2>3. QED
    BY <1>1, <2>1, <2>2 DEF NoneIsLeft, Reached
<1>5. CASE WakeUp
  BY <1>5 DEF WakeUp, timeVars, NoneIsLeft
<1>6. CASE Tick
  <2>1. /\ clock' = clock + 1
        /\ UNCHANGED <<state, setbacks, phase, roundStart, queue, worker>>
    BY <1>6 DEF Tick
  <2>2. \A n : Waits(n)' = Waits(n) /\ Reached(n)' = Reached(n)
    BY <1>1, <2>1 DEF Waits, Reached
  <2>3. QED
    BY <1>1, <1>2, <2>1, <2>2 DEF NoneIsLeft, At
<1>7. CASE SetClockBack
  <2>1. clock > 0 /\ clock' = clock - 1 /\ setbacks' # 0
    BY <1>2, <1>7 DEF SetClockBack
  <2>2. QED
    BY <1>2, <2>1 DEF NoneIsLeft
<1>8. CASE Restart
  BY <1>8 DEF Restart, timeVars, NoneIsLeft
<1>9. CASE UNCHANGED vars
  <2>1. UNCHANGED <<state, clock, setbacks, phase, roundStart, queue, worker>>
    BY <1>9 DEF vars, timeVars, loopVars
  <2>2. \A n : Waits(n)' = Waits(n) /\ Reached(n)' = Reached(n)
    BY <1>1, <2>1 DEF Waits, Reached
  <2>3. QED
    BY <1>1, <2>1, <2>2 DEF NoneIsLeft, At
<1>10. QED
  BY <1>3, <1>4, <1>5, <1>6, <1>7, <1>8, <1>9 DEF LoopStep

\* Whatever the batches and the workers, and though updates raise, a round
\* has brought every node up to its start, if the clock was not set back.
THEOREM RoundsReachEveryNode == Spec => []RoundReachesEveryNode
<1>1. NoneIsLeft => RoundReachesEveryNode
  BY DEF NoneIsLeft, RoundReachesEveryNode, Reached
<1>2. TypeOK /\ WorkIsApart /\ NoneIsLeft /\ [Next]_vars => NoneIsLeft'
  BY NoneIsLeftWorker, NoneIsLeftOthers DEF Next
<1>3. QED
  BY ExporterApart, NoneIsLeftInit, <1>1, <1>2, PTL DEF Spec

-----------------------------------------------------------------------------
(* The modes of the CPU, and the pace of the rounds.                       *)

LEMMA SumsAdd ==
    ASSUME NEW a \in [Modes -> Nat], NEW b \in [Modes -> Nat]
    PROVE  SumOfModes([m \in Modes |-> a[m] + b[m]]) = SumOfModes(a) + SumOfModes(b)
BY DEF Modes, SumOfModes

\* The CPU time of a node is that of the seconds that its first section has.
CpuIs(n) == SumOfModes(state[n].cpu) = 100000 * CpuWeight * state[n].counted[CPU]

LEMMA CpuOfStep ==
    ASSUME TypeOK, NEW w \in Workers, AddCpuTime(w), NEW n \in Nodes, CpuIs(n)
    PROVE  CpuIs(n)'
<1>1. PICK k : k = worker[w].node
  OBVIOUS
<1>2. k \in Nodes /\ worker[w].dt \in Nat
      /\ \E time \in [Modes -> Nat] : Divided(w, k, time)
  BY <1>1, CpuTimeAdded
<1>3. PICK time \in [Modes -> Nat] : Divided(w, k, time)
  BY <1>2
<1> DEFINE cpu     == [m \in Modes |-> state[k].cpu[m] + time[m]]
           counted == [state[k].counted EXCEPT ![CPU] = @ + worker[w].dt]
<1>4. state' = [state EXCEPT ![k] = [@ EXCEPT !.cpu = cpu, !.counted = counted]]
  BY <1>3 DEF Divided
<1>5. state \in [Nodes -> NodeRecord]
  BY TypeParts
<1>6. CASE n # k
  <2>1. state'[n] = state[n]
    BY <1>4, <1>5, <1>6
  <2>2. QED
    BY <2>1 DEF CpuIs
<1>7. CASE n = k
  <2>1. SumOfModes(cpu) = SumOfModes(state[k].cpu) + SumOfModes(time)
    BY <1>2, <1>3, <1>5, SumsAdd DEF NodeRecord
  <2>2. counted[CPU] = state[k].counted[CPU] + worker[w].dt
        /\ state[k].counted[CPU] \in Nat
    BY <1>2, <1>5, SectionsType DEF NodeRecord
  <2>3. SumOfModes(time) = 100000 * CpuWeight * worker[w].dt
    BY <1>3 DEF Divided
  <2> HIDE DEF cpu, counted
  <2>4. state'[k].cpu = cpu /\ state'[k].counted = counted
    BY <1>2, <1>4, <1>5 DEF NodeRecord
  <2>5. 100000 * CpuWeight * (state[k].counted[CPU] + worker[w].dt)
          = 100000 * CpuWeight * state[k].counted[CPU]
              + 100000 * CpuWeight * worker[w].dt
    BY <1>2, <2>2, ExporterAssumption
  <2>6. SumOfModes(cpu) = 100000 * CpuWeight * counted[CPU]
    BY <1>7, <2>1, <2>2, <2>3, <2>5 DEF CpuIs
  <2>7. QED
    BY <1>7, <2>4, <2>6 DEF CpuIs
<1>8. QED
  BY <1>6, <1>7

\* The other steps of workers leave what the modes are about alone.
LEMMA CpuUntouched ==
    ASSUME TypeOK, NEW w \in Workers, WorkerStep(w), ~AddCpuTime(w), NEW n \in Nodes
    PROVE  /\ state'[n].cpu = state[n].cpu
           /\ state'[n].counted[CPU] = state[n].counted[CPU]
<1>1. state \in [Nodes -> NodeRecord] /\ state[n] \in NodeRecord
  BY TypeParts
<1>2. CASE \/ \E b \in AllBatches : TakeBatch(w, b)
           \/ \E k \in Nodes : SkipNode(w, k) \/ MeasureNode(w, k)
           \/ FinishBatch(w)
  BY <1>2 DEF TakeBatch, SkipNode, MeasureNode, FinishBatch, OnlyWorker
<1>3. CASE AdvanceNode(w)
  BY <1>1, <1>3 DEF AdvanceNode, NodeRecord
<1>4. CASE SetStatic(w)
  BY <1>1, <1>4 DEF SetStatic, NodeRecord
<1>5. CASE AddOthers(w)
  BY <1>1, <1>5, SectionsType DEF AddOthers, NodeRecord
<1>6. CASE UpdateRaises(w)
  BY <1>1, <1>6 DEF UpdateRaises, LoseInterval, NodeRecord
<1>7. QED
  BY <1>2, <1>3, <1>4, <1>5, <1>6 DEF WorkerStep

LEMMA CpuOfNewNode ==
    ASSUME NEW t, NEW n, state'[n] = NewNode(t)
    PROVE  CpuIs(n)'
<1>1. SumOfModes(NewNode(t).cpu) = 0 /\ NewNode(t).counted[CPU] = 0
  BY SectionsType DEF NewNode, SumOfModes, Modes
<1>2. 100000 * CpuWeight * 0 = 0
  BY ExporterAssumption
<1>3. QED
  BY <1>1, <1>2 DEF CpuIs

\* However the usage of a node varies, the modes of its CPU add up to the time
\* it was counted for, with nothing cut off from the idle mode.
THEOREM CpuModesAddUp == Spec => []ModesAddUp
<1> DEFINE Inv == \A n \in Nodes : CpuIs(n)
<1>1. Init => Inv
  <2> SUFFICES ASSUME Init, NEW n \in Nodes PROVE CpuIs(n)
    OBVIOUS
  <2>1. SumOfModes(state[n].cpu) = 0 /\ state[n].counted[CPU] = 0
    BY SectionsType DEF Init, NewNode, SumOfModes, Modes
  <2>2. 100000 * CpuWeight * 0 = 0
    BY ExporterAssumption
  <2>3. QED
    BY <2>1, <2>2 DEF CpuIs
<1>2. TypeOK /\ Inv /\ [Next]_vars => Inv'
  <2> SUFFICES ASSUME TypeOK, Inv, [Next]_vars PROVE Inv'
    OBVIOUS
  <2>1. ASSUME NEW w \in Workers, WorkerStep(w)
        PROVE  Inv'
    <3>1. names' = names
      BY <2>1 DEF WorkerStep, TakeBatch, SkipNode, MeasureNode, AdvanceNode,
                  SetStatic, AddCpuTime, AddOthers, UpdateRaises, FinishBatch,
                  OnlyWorker, OnlyWorkerAndState
    <3>2. Nodes' = Nodes
      BY <3>1, SameNodes
    <3>3. ASSUME NEW n \in Nodes
          PROVE  CpuIs(n)'
      <4>1. CASE AddCpuTime(w)
        BY <4>1, CpuOfStep
      <4>2. CASE ~AddCpuTime(w)
        BY <2>1, <4>2, CpuUntouched DEF CpuIs, SumOfModes
      <4>3. QED
        BY <4>1, <4>2
    <3>4. QED
      BY <3>2, <3>3
  <2>2. CASE Restart
    <3>1. names' = names /\ \A n \in Nodes : state'[n] = NewNode(clock)
      BY <2>2 DEF Restart
    <3>2. QED
      BY <3>1, SameNodes, CpuOfNewNode
  <2>3. CASE LoopStep \/ Tick \/ SetClockBack \/ UNCHANGED vars
    <3>1. UNCHANGED <<names, state>>
      BY <2>3 DEF LoopStep, SubmitBatches, LeavePool, GoToSleep, WakeUp, Tick,
                  SetClockBack, vars
    <3>2. QED
      BY <3>1, SameNodes DEF CpuIs
  <2>4. QED
    BY <2>1, <2>2, <2>3 DEF Next
<1>3. Inv => ModesAddUp
  BY DEF CpuIs, SumOfModes, ModesAddUp
<1>4. QED
  BY ExporterTypeCorrect, <1>1, <1>2, <1>3, PTL DEF Spec

\* The loop wakes up one interval after the start of the round, or at once.
THEOREM LoopKeepsPace == Spec => []RoundsKeepPace
<1>1. Init => RoundsKeepPace
  BY DEF Init, RoundsKeepPace
<1>2. TypeOK /\ RoundsKeepPace /\ [Next]_vars => RoundsKeepPace'
  <2> SUFFICES ASSUME TypeOK, RoundsKeepPace, [Next]_vars PROVE RoundsKeepPace'
    OBVIOUS
  <2>1. /\ clock \in Int /\ roundStart \in Int /\ sleep \in Nat
        /\ setbacks \in Nat /\ UPDATE_INTERVAL \in Nat
    BY ExporterAssumption DEF TypeOK
  <2>2. ASSUME NEW w \in Workers, WorkerStep(w)
        PROVE  RoundsKeepPace'
    BY <2>2 DEF RoundsKeepPace, timeVars, loopVars, WorkerStep, TakeBatch,
                SkipNode, MeasureNode, AdvanceNode, SetStatic, AddCpuTime,
                AddOthers, UpdateRaises, FinishBatch, OnlyWorker,
                OnlyWorkerAndState
  <2>3. CASE SubmitBatches \/ WakeUp \/ Restart
    BY <2>3 DEF SubmitBatches, WakeUp, Restart, RoundsKeepPace
  <2>4. CASE LeavePool
    BY <2>1, <2>4 DEF LeavePool, GoToSleep, SleepTime, timeVars, RoundsKeepPace
  <2>5. CASE Tick
    BY <2>1, <2>5 DEF Tick, RoundsKeepPace
  <2>6. CASE SetClockBack
    BY <2>1, <2>6 DEF SetClockBack, RoundsKeepPace
  <2>7. CASE UNCHANGED vars
    BY <2>7 DEF vars, timeVars, loopVars, RoundsKeepPace
  <2>8. QED
    BY <2>2, <2>3, <2>4, <2>5, <2>6, <2>7 DEF Next, LoopStep
<1>3. QED
  BY ExporterTypeCorrect, <1>1, <1>2, PTL DEF Spec

-----------------------------------------------------------------------------
(* What a scraper sees of one process: counters that only grow.             *)

Grown(n) ==
    /\ state'[n].created = state[n].created
    /\ state'[n].last_update >= state[n].last_update
    /\ \A m \in Modes : state'[n].cpu[m] >= state[n].cpu[m]
    /\ \A s \in Sections : state'[n].counted[s] >= state[n].counted[s]

CountersGrow == restarts' = restarts => \A n \in Nodes : Grown(n)

LEMMA UntouchedIsGrown ==
    ASSUME TypeOK, NEW n \in Nodes, state'[n] = state[n]
    PROVE  Grown(n)
<1>1. state[n] \in NodeRecord
  BY TypeParts
<1>2. /\ state[n].last_update \in Int
      /\ \A m \in Modes : state[n].cpu[m] \in Nat
      /\ \A s \in Sections : state[n].counted[s] \in Nat
  BY <1>1 DEF NodeRecord
<1>3. QED
  BY <1>2 DEF Grown

LEMMA CpuTimeGrows ==
    ASSUME TypeOK, NEW w \in Workers, AddCpuTime(w), NEW n, n = worker[w].node
    PROVE  Grown(n)
<1>1. /\ n \in Nodes /\ worker[w].dt \in Nat
      /\ \E time \in [Modes -> Nat] : Divided(w, n, time)
  BY CpuTimeAdded
<1>2. PICK time \in [Modes -> Nat] : Divided(w, n, time)
  BY <1>1
<1> DEFINE cpu     == [m \in Modes |-> state[n].cpu[m] + time[m]]
           counted == [state[n].counted EXCEPT ![CPU] = @ + worker[w].dt]
<1>3. state' = [state EXCEPT ![n] = [@ EXCEPT !.cpu = cpu, !.counted = counted]]
  BY <1>2 DEF Divided
<1>4. state \in [Nodes -> NodeRecord] /\ state[n] \in NodeRecord
  BY <1>1, TypeParts
<1>5. /\ state[n].cpu \in [Modes -> Nat] /\ state[n].counted \in [Sections -> Nat]
      /\ state[n].last_update \in Int
  BY <1>4 DEF NodeRecord
<1>6. \A m \in Modes : cpu[m] >= state[n].cpu[m]
  BY <1>2, <1>5
<1>7. \A s \in Sections : counted[s] >= state[n].counted[s]
  BY <1>1, <1>5
<1> HIDE DEF cpu, counted
<1>8. /\ state'[n].cpu = cpu /\ state'[n].counted = counted
      /\ state'[n].created = state[n].created
      /\ state'[n].last_update = state[n].last_update
  BY <1>1, <1>3, <1>4 DEF NodeRecord
<1>9. QED
  BY <1>5, <1>6, <1>7, <1>8 DEF Grown

\* The other steps of an update.  The time that last_update is advanced to is
\* later than the old one, though the clock may have been set back since it
\* was read: the interval in hand is above zero and still ends there.
LEMMA UpdateGrows ==
    ASSUME TypeOK, Accounts, NEW w \in Workers,
           AdvanceNode(w) \/ SetStatic(w) \/ AddOthers(w) \/ UpdateRaises(w),
           NEW n, n = worker[w].node
    PROVE  Grown(n)
<1>1. Busy(worker[w].pc)
  BY DEF AdvanceNode, SetStatic, AddOthers, UpdateRaises, At, Busy
<1>2. /\ n \in Nodes /\ worker[w].dt > 0 /\ worker[w].dt \in Nat
      /\ worker[w].now \in Int
  BY <1>1, TypeParts DEF TypeOK, Updating, Busy, WorkerRecord
<1>3. state \in [Nodes -> NodeRecord] /\ state[n] \in NodeRecord
  BY <1>2, TypeParts
<1>4. /\ state[n].cpu \in [Modes -> Nat] /\ state[n].counted \in [Sections -> Nat]
      /\ state[n].last_update \in Int
  BY <1>3 DEF NodeRecord
<1>5. /\ \A m \in Modes : state[n].cpu[m] \in Nat
      /\ \A s \in Sections : state[n].counted[s] \in Nat
  BY <1>4
<1>6. CASE AdvanceNode(w)
  <2>1. state' = [state EXCEPT ![n].last_update = worker[w].now]
    BY <1>6 DEF AdvanceNode
  <2>2. worker[w].dt = worker[w].now - state[n].last_update
    BY <1>6 DEF AdvanceNode, At, Accounts
  <2>3. worker[w].now >= state[n].last_update
    BY <1>2, <1>4, <2>2
  <2>4. state'[n] = [state[n] EXCEPT !.last_update = worker[w].now]
    BY <1>2, <1>3, <2>1
  <2>5. QED
    BY <1>3, <1>5, <2>3, <2>4 DEF Grown, NodeRecord
<1>7. CASE SetStatic(w)
  <2>1. state'[n] = [state[n] EXCEPT !.static_set = TRUE]
    BY <1>2, <1>3, <1>7 DEF SetStatic
  <2>2. QED
    BY <1>3, <1>4, <1>5, <2>1 DEF Grown, NodeRecord
<1>8. CASE AddOthers(w)
  <2> DEFINE counted == [state[n].counted EXCEPT ![OTHERS] = @ + worker[w].dt]
  <2>1. state'[n] = [state[n] EXCEPT !.counted = counted]
    BY <1>2, <1>3, <1>8 DEF AddOthers
  <2>2. \A s \in Sections : counted[s] >= state[n].counted[s]
    BY <1>2, <1>4
  <2> HIDE DEF counted
  <2>3. /\ state'[n].created = state[n].created
        /\ state'[n].last_update = state[n].last_update
        /\ state'[n].cpu = state[n].cpu /\ state'[n].counted = counted
    BY <1>3, <2>1 DEF NodeRecord
  <2>4. QED
    BY <1>4, <1>5, <2>2, <2>3 DEF Grown
<1>9. CASE UpdateRaises(w)
  <2>1. /\ state'[n].created = state[n].created
        /\ state'[n].last_update = state[n].last_update
        /\ state'[n].cpu = state[n].cpu /\ state'[n].counted = state[n].counted
    BY <1>2, <1>3, <1>9 DEF UpdateRaises, LoseInterval, NodeRecord
  <2>2. QED
    BY <1>4, <1>5, <2>1 DEF Grown
<1>10. QED
  BY <1>6, <1>7, <1>8, <1>9

\* As long as the process lives, no counter of a node and no last_update goes
\* back: neither a clock that is set back, nor an update that raises, nor the
\* division of the CPU time makes a scraper see a reset that was none.
THEOREM CountersOnlyGrow == Spec => [][CountersGrow]_vars
<1> DEFINE Inv == TypeOK /\ WorkIsApart /\ Accounts
<1>1. Init => Inv
  BY InitTypeOK, ApartInit, AccountsInit
<1>2. Inv /\ [Next]_vars => Inv'
  BY WorkersTypeOK, OthersTypeOK, StutterTypeOK, ApartWorker, ApartOthers,
     AccountsWorker, AccountsOthers DEF Next
<1>3. Inv /\ [Next]_vars => [CountersGrow]_vars
  <2> SUFFICES ASSUME Inv, Next, restarts' = restarts, NEW n \in Nodes
               PROVE  Grown(n)
    BY DEF CountersGrow
  <2>1. ASSUME NEW w \in Workers, WorkerStep(w)
        PROVE  Grown(n)
    <3>1. CASE Working(w) /\ n = worker[w].node
      BY <3>1, CpuTimeGrows, UpdateGrows DEF Working
    <3>2. CASE Working(w) /\ n # worker[w].node
      BY <3>2, WorkingStep, UntouchedIsGrown
    <3>3. CASE ~Working(w)
      <4>1. state' = state
        BY <2>1, <3>3 DEF WorkerStep, Working, TakeBatch, SkipNode, MeasureNode,
                          FinishBatch, OnlyWorker
      <4>2. QED
        BY <4>1, UntouchedIsGrown
    <3>4. QED
      BY <3>1, <3>2, <3>3
  <2>2. CASE LoopStep \/ Tick \/ SetClockBack
    <3>1. state' = state
      BY <2>2 DEF LoopStep, SubmitBatches, LeavePool, GoToSleep, WakeUp, Tick,
                  SetClockBack
    <3>2. QED
      BY <3>1, UntouchedIsGrown
  <2>3. ~Restart
    BY DEF Restart, TypeOK
  <2>4. QED
    BY <2>1, <2>2, <2>3 DEF Next
<1>4. QED
  BY <1>1, <1>2, <1>3, PTL DEF Spec

-----------------------------------------------------------------------------
(* A round moves on.                                                       *)

\* How far a worker is with its node: sections are numbered from 1.
Stage(r) == CASE r.pc = "measured" -> 1
              [] r.pc = "static"   -> 2
              [] r.pc = "dynamic"  -> 2 + r.section
              [] r.pc = "next"     -> 5
              [] r.pc = "idle"     -> 6

\* The worker has fewer nodes to do, or is further with the one it has.
MovesOn(w) ==
    /\ \A v \in Workers \ {w} : worker'[v] = worker[v]
    /\ \/ worker'[w].todo \subseteq worker[w].todo /\ worker'[w].todo # worker[w].todo
       \/ worker'[w].todo = worker[w].todo /\ Stage(worker'[w]) > Stage(worker[w])

RoundAdvances ==
    restarts' = restarts =>
        \/ phase' # phase /\ worker' = worker
        \/ phase' = phase /\ queue' \subseteq queue /\ queue' # queue
        \/ phase' = phase /\ queue' = queue /\ \E w \in Workers : MovesOn(w)
        \/ UNCHANGED <<state, phase, queue, worker>>

LEMMA WorkerMovesOn ==
    ASSUME TypeOK, NEW w \in Workers, WorkerStep(w), queue' = queue
    PROVE  MovesOn(w)
<1>1. worker \in [Workers -> WorkerRecord] /\ worker[w] \in WorkerRecord
  BY TypeParts
<1>2. \A v \in Workers \ {w} : worker'[v] = worker[v]
  BY <1>1 DEF WorkerStep, TakeBatch, SkipNode, MeasureNode, AdvanceNode, SetStatic,
              AddCpuTime, AddOthers, UpdateRaises, FinishBatch
<1>3. worker[w].section \in {1, 2}
  BY <1>1 DEF WorkerRecord, Sections, CPU, OTHERS
<1>4. ~\E b \in AllBatches : TakeBatch(w, b)
  BY DEF TakeBatch
<1>5. ASSUME NEW n \in Nodes, SkipNode(w, n) \/ MeasureNode(w, n)
      PROVE  MovesOn(w)
  <2>1. n \in worker[w].todo
    BY <1>5 DEF SkipNode, MeasureNode, NextNode
  <2>2. worker'[w].todo = worker[w].todo \ {n}
    BY <1>1, <1>5 DEF SkipNode, MeasureNode, WorkerRecord
  <2>3. QED
    BY <1>2, <2>1, <2>2 DEF MovesOn
<1>6. CASE AdvanceNode(w)
  <2>1. /\ worker[w].pc = "measured" /\ worker'[w].pc \in {"static", "dynamic"}
        /\ worker'[w].todo = worker[w].todo
        /\ worker'[w].section = worker[w].section
    BY <1>1, <1>6 DEF AdvanceNode, At, WorkerRecord
  <2>2. Stage(worker[w]) = 1 /\ Stage(worker'[w]) \in {2, 3, 4}
    BY <1>3, <2>1 DEF Stage
  <2>3. QED
    BY <1>2, <2>1, <2>2 DEF MovesOn
<1>7. CASE SetStatic(w)
  <2>1. /\ worker[w].pc = "static" /\ worker'[w].pc = "dynamic"
        /\ worker'[w].todo = worker[w].todo
        /\ worker'[w].section = worker[w].section
    BY <1>1, <1>7 DEF SetStatic, At, WorkerRecord
  <2>2. Stage(worker[w]) = 2 /\ Stage(worker'[w]) \in {3, 4}
    BY <1>3, <2>1 DEF Stage
  <2>3. QED
    BY <1>2, <2>1, <2>2 DEF MovesOn
<1>8. CASE AddCpuTime(w)
  <2>1. /\ worker[w].pc = "dynamic" /\ worker'[w].pc = "dynamic"
        /\ worker[w].section = 1 /\ worker'[w].section = 2
        /\ worker'[w].todo = worker[w].todo
    BY <1>1, <1>8 DEF AddCpuTime, At, WorkerRecord, CPU, OTHERS
  <2>2. Stage(worker[w]) = 3 /\ Stage(worker'[w]) = 4
    BY <2>1 DEF Stage
  <2>3. QED
    BY <1>2, <2>1, <2>2 DEF MovesOn
<1>9. CASE AddOthers(w) \/ UpdateRaises(w)
  <2>1. worker'[w] = ToNextNode(worker[w])
    BY <1>1, <1>9 DEF AddOthers, UpdateRaises
  <2>2. worker'[w].pc = "next" /\ worker'[w].todo = worker[w].todo
    BY <1>1, <2>1 DEF ToNextNode, WorkerRecord
  <2>3. worker[w].pc \in {"static", "dynamic"}
    BY <1>9 DEF AddOthers, UpdateRaises, At
  <2>4. Stage(worker[w]) \in {2, 3, 4} /\ Stage(worker'[w]) = 5
    BY <1>3, <2>2, <2>3 DEF Stage
  <2>5. QED
    BY <1>2, <2>2, <2>4 DEF MovesOn
<1>10. CASE FinishBatch(w)
  <2>1. /\ worker[w].pc = "next" /\ worker'[w].pc = "idle"
        /\ worker[w].todo = {} /\ worker'[w].todo = {}
    BY <1>1, <1>10 DEF FinishBatch, At, IdleWorker
  <2>2. Stage(worker[w]) = 5 /\ Stage(worker'[w]) = 6
    BY <2>1 DEF Stage
  <2>3. QED
    BY <1>2, <2>1, <2>2 DEF MovesOn
<1>11. QED
  BY <1>4, <1>5, <1>6, <1>7, <1>8, <1>9, <1>10 DEF WorkerStep

\* Every step of the pool takes a batch from the queue, a node from the rest of
\* a batch, or a worker further with its node; only the loop fills the queue,
\* and it is at another place after each of its steps.  So no exception and no
\* setting of the clock makes a round go round in circles: the safety half of
\* EveryRoundEnds.
THEOREM RoundsAdvance == Spec => [][RoundAdvances]_vars
<1>1. TypeOK /\ [Next]_vars => [RoundAdvances]_vars
  <2> SUFFICES ASSUME TypeOK, Next, restarts' = restarts
               PROVE  \/ phase' # phase /\ worker' = worker
                      \/ phase' = phase /\ queue' \subseteq queue /\ queue' # queue
                      \/ phase' = phase /\ queue' = queue /\ \E w \in Workers : MovesOn(w)
                      \/ UNCHANGED <<state, phase, queue, worker>>
    BY DEF RoundAdvances
  <2>1. ASSUME NEW w \in Workers, WorkerStep(w)
        PROVE  /\ phase' = phase
               /\ queue' = queue \/ (queue' \subseteq queue /\ queue' # queue)
    BY <2>1 DEF WorkerStep, TakeBatch, SkipNode, MeasureNode, AdvanceNode, SetStatic,
                AddCpuTime, AddOthers, UpdateRaises, FinishBatch, OnlyWorker,
                OnlyWorkerAndState, loopVars
  <2>2. CASE LoopStep
    BY <2>2 DEF LoopStep, SubmitBatches, LeavePool, GoToSleep, WakeUp
  <2>3. CASE Tick \/ SetClockBack
    BY <2>3 DEF Tick, SetClockBack, loopVars
  <2>4. ~Restart
    BY DEF Restart, TypeOK
  <2>5. QED
    BY <2>1, <2>2, <2>3, <2>4, WorkerMovesOn DEF Next
<1>2. QED
  BY ExporterTypeCorrect, <1>1, PTL DEF Spec
=============================================================================
