------------------------- MODULE FakeNodeExporter -------------------------
(***************************************************************************)
(* The fake node exporter k8s-yaml/fake-node-exporter: a loop thread cuts  *)
(* the list of mock nodes into batches, a pool of workers brings the       *)
(* metrics of each batch up to date, and the loop waits for the pool and   *)
(* sleeps until the next round.  A node's counters grow by the time that   *)
(* has passed since its last update.                                       *)
(*                                                                         *)
(* Data is abstracted.  Time is in seconds of the wall clock, which may be *)
(* set back.  The counters of a section of update_dynamic_metrics are the  *)
(* sum of the intervals they were advanced by: rates and factors are left  *)
(* out, save the division of the CPU time into modes, and the rare events. *)
(* Gauges are overwritten in every update and left out; scrapes only read. *)
(***************************************************************************)
EXTENDS Integers, FiniteSets, Sequences

CONSTANTS
    NodeLists,        \* what generate_nodes_from_config may return
    Workers,          \* the threads of the pool, runtime.workers
    BATCH_SIZE,       \* runtime.batch_size
    UPDATE_INTERVAL,  \* schedule.interval_seconds
    CpuWeight,        \* what an interval counts for: the cores in mode
                      \* aggregate, 1 for each CPU of mode sampled
    RawLevels,        \* the values of SmoothValue.current, in percent
    MaxClock,         \* bound: of the clock
    MaxSetbacks,      \* bound: how often the clock is set back a second
    MaxRestarts,      \* bound: how often the pod is restarted
    MaxRaises         \* bound: how many updates raise an exception

ASSUME ExporterAssumption ==
    /\ \A list \in NodeLists : DOMAIN list = 1 .. Len(list)
    /\ BATCH_SIZE \in Nat \ {0}
    /\ UPDATE_INTERVAL \in Nat
    /\ CpuWeight \in Nat
    /\ RawLevels \subseteq Int
    /\ MaxClock \in Nat
    /\ MaxSetbacks \in Nat
    /\ MaxRestarts \in Nat
    /\ MaxRaises \in Nat

VARIABLES
    names,       \* the configured list of names, which may hold duplicates
    state,       \* self.nodes, and the counters of each node
    clock,       \* time.time()
    setbacks,    \* how often the clock was set back
    restarts,    \* how often the process was restarted
    raises,      \* how many updates have raised an exception
    phase,       \* where update_metrics_loop is
    roundStart,  \* its start_time
    sleep,       \* what is left of its time.sleep
    queue,       \* the batches that no worker has taken
    worker       \* update_node_batch, per thread

timeVars == <<clock, setbacks>>
loopVars == <<phase, roundStart, sleep>>
bounds   == <<restarts, raises>>
vars     == <<names, state, timeVars, bounds, loopVars, queue, worker>>

-----------------------------------------------------------------------------
(* Nodes, batches and counters.                                            *)

\* The keys of the dict self.nodes.
Nodes == {names[i] : i \in DOMAIN names}

First(n) == CHOOSE i \in DOMAIN names :
                names[i] = n /\ \A j \in 1 .. i - 1 : names[j] # n

\* Where a node stands in list(self.nodes.keys()): a dict keeps the first of
\* equal names.  (Mutant: the configured list is cut into batches.)
EveryPlace(n) == {i - 1 : i \in {j \in DOMAIN names : names[j] = n}}
Places(n)     == {Cardinality({m \in Nodes : First(m) < First(n)})}

Batch(b)   == {n \in Nodes : \E p \in Places(n) : p \div BATCH_SIZE = b}
AllBatches == UNION {{p \div BATCH_SIZE : p \in Places(n)} : n \in Nodes}

\* The counters of update_dynamic_metrics, in order: first the CPU, then the
\* others (disk, network, system), which are taken as one section.
CPU      == 1
OTHERS   == 2
Sections == {CPU, OTHERS}

\* The value that SmoothValue.next returns.  (Mutant: it is not cut off.)
Unclamped(raw) == raw
Clamped(raw)   == IF raw < 0 THEN 0 ELSE IF raw > 100 THEN 100 ELSE raw

\* The CPU time of dt seconds by mode, at a usage of pct percent, in units of
\* 10 microseconds.
Modes == {"user", "system", "iowait", "steal", "idle"}
IdleTime(dt, pct) ==
    LET rest == 100000 * dt - 600 * pct * dt - 300 * pct * dt
                            - 80 * pct * dt - 200 * dt
    IN  IF rest < 0 THEN 0 ELSE rest
CpuTime(dt, pct) ==
    [user   |-> CpuWeight * 600 * pct * dt,
     system |-> CpuWeight * 300 * pct * dt,
     iowait |-> CpuWeight * 80 * pct * dt,
     steal  |-> CpuWeight * 200 * dt,
     idle   |-> CpuWeight * IdleTime(dt, pct)]

\* NodeState, with the node's counters: the seconds that each section was
\* advanced by and those that an exception left out (a history), and
\* node_cpu_seconds_total by mode.
NewNode(t) == [created     |-> t,
               last_update |-> t,
               static_set  |-> FALSE,
               counted     |-> [s \in Sections |-> 0],
               lost        |-> [s \in Sections |-> 0],
               cpu         |-> [m \in Modes |-> 0]]

IdleWorker == [pc |-> "idle", now |-> 0, todo |-> {},
               node |-> <<>>, dt |-> 0, section |-> CPU]

\* The worker is done with its node.
ToNextNode(r) == [r EXCEPT !.pc = "next", !.node = <<>>, !.dt = 0, !.section = CPU]

Init ==
    /\ names \in NodeLists
    /\ state = [n \in Nodes |-> NewNode(0)]
    /\ clock = 0
    /\ setbacks = 0
    /\ restarts = 0
    /\ raises = 0
    /\ phase = "submit"
    /\ roundStart = 0
    /\ sleep = 0
    /\ queue = {}
    /\ worker = [w \in Workers |-> IdleWorker]

-----------------------------------------------------------------------------
(* update_node_batch in a worker thread.                                   *)

At(w, pc) == worker[w].pc = pc

\* The pool gives the batch that was submitted first to an idle thread.
TakeBatch(w, b) ==
    /\ At(w, "idle")
    /\ b \in queue
    /\ \A c \in queue : b <= c
    /\ queue' = queue \ {b}
    /\ worker' = [worker EXCEPT ![w] =
                    [IdleWorker EXCEPT !.pc = "next", !.now = clock,
                                       !.todo = Batch(b)]]
    /\ UNCHANGED <<names, state, timeVars, bounds, loopVars>>

OnlyWorkerAndState == UNCHANGED <<names, timeVars, bounds, loopVars, queue>>
OnlyWorker         == OnlyWorkerAndState /\ UNCHANGED state

\* n is the next node of w's batch.
NextNode(w, n) ==
    /\ At(w, "next")
    /\ n \in worker[w].todo
    /\ \A m \in worker[w].todo : First(n) <= First(m)

Elapsed(w, n) == worker[w].now - state[n].last_update

\* Mutant: without the continue, the node is tried again.
RetryNode(w, n) ==
    /\ NextNode(w, n)
    /\ Elapsed(w, n) <= 0
    /\ worker' = [worker EXCEPT ![w].dt = 0]
    /\ OnlyWorker

\* No time has passed since the last update, or the clock was set back.
SkipNode(w, n) ==
    /\ NextNode(w, n)
    /\ Elapsed(w, n) <= 0
    /\ worker' = [worker EXCEPT ![w].todo = @ \ {n}]
    /\ OnlyWorker

\* Mutant: without the test of dt.
MeasureAnyway(w, n) ==
    /\ NextNode(w, n)
    /\ worker' = [worker EXCEPT ![w].pc = "measured", ![w].node = n,
                                ![w].dt = Elapsed(w, n), ![w].todo = @ \ {n}]
    /\ OnlyWorker

MeasureNode(w, n) ==
    /\ NextNode(w, n)
    /\ Elapsed(w, n) > 0
    /\ worker' = [worker EXCEPT ![w].pc = "measured", ![w].node = n,
                                ![w].dt = Elapsed(w, n), ![w].todo = @ \ {n}]
    /\ OnlyWorker

\* last_update is advanced before anything is published.
AdvanceNode(w) ==
    LET n == worker[w].node
    IN  /\ At(w, "measured")
        /\ state' = [state EXCEPT ![n].last_update = worker[w].now]
        /\ worker' = [worker EXCEPT ![w].pc = IF state[n].static_set
                                              THEN "dynamic" ELSE "static"]
        /\ OnlyWorkerAndState

\* update_static_metrics.
SetStatic(w) ==
    /\ At(w, "static")
    /\ state' = [state EXCEPT ![worker[w].node].static_set = TRUE]
    /\ worker' = [worker EXCEPT ![w].pc = "dynamic"]
    /\ OnlyWorkerAndState

\* The first section also divides the interval into the modes of the CPU.
AddCpuTime(w) ==
    LET n == worker[w].node
        dt == worker[w].dt
    IN  /\ At(w, "dynamic")
        /\ worker[w].section = CPU
        /\ \E raw \in RawLevels :
              LET time == CpuTime(dt, Clamped(raw))
              IN  state' = [state EXCEPT
                              ![n].cpu = [m \in Modes |-> @[m] + time[m]],
                              ![n].counted[CPU] = @ + dt]
        /\ worker' = [worker EXCEPT ![w].section = OTHERS]
        /\ OnlyWorkerAndState

AddOthers(w) ==
    /\ At(w, "dynamic")
    /\ worker[w].section = OTHERS
    /\ state' = [state EXCEPT ![worker[w].node].counted[OTHERS] = @ + worker[w].dt]
    /\ worker' = [worker EXCEPT ![w] = ToNextNode(@)]
    /\ OnlyWorkerAndState

\* The section that raises, and those after it, miss the interval for good.
LoseInterval(w) ==
    /\ raises < MaxRaises
    /\ raises' = raises + 1
    /\ state' = [state EXCEPT ![worker[w].node].lost =
                    [s \in Sections |-> IF worker[w].section <= s
                                        THEN @[s] + worker[w].dt ELSE @[s]]]

\* Mutant: the try is around the loop, so that the batch ends.
UpdateRaisesOut(w) ==
    /\ worker[w].pc \in {"static", "dynamic"}
    /\ LoseInterval(w)
    /\ worker' = [worker EXCEPT ![w] = [ToNextNode(@) EXCEPT !.todo = {}]]
    /\ UNCHANGED <<names, timeVars, restarts, loopVars, queue>>

\* An exception (a quantity of the configuration that is no number, say)
\* before the static metrics are complete or in a section: it is logged.
UpdateRaises(w) ==
    /\ worker[w].pc \in {"static", "dynamic"}
    /\ LoseInterval(w)
    /\ worker' = [worker EXCEPT ![w] = ToNextNode(@)]
    /\ UNCHANGED <<names, timeVars, restarts, loopVars, queue>>

FinishBatch(w) ==
    /\ At(w, "next")
    /\ worker[w].todo = {}
    /\ worker' = [worker EXCEPT ![w] = IdleWorker]
    /\ OnlyWorker

WorkerStep(w) ==
    \/ \E b \in AllBatches : TakeBatch(w, b)
    \/ \E n \in Nodes : SkipNode(w, n) \/ MeasureNode(w, n)
    \/ AdvanceNode(w)
    \/ SetStatic(w)
    \/ AddCpuTime(w)
    \/ AddOthers(w)
    \/ UpdateRaises(w)
    \/ FinishBatch(w)

-----------------------------------------------------------------------------
(* update_metrics_loop.                                                    *)

SubmitBatches ==
    /\ phase = "submit"
    /\ phase' = "await"
    /\ roundStart' = clock
    /\ queue' = AllBatches
    /\ UNCHANGED <<names, state, timeVars, bounds, sleep, worker>>

\* max(0.1, interval - elapsed); a tenth of a second is less than the unit.
\* (Mutant: the time that the round took is not deducted.)
FullInterval == UPDATE_INTERVAL
SleepTime    == LET left == UPDATE_INTERVAL - (clock - roundStart)
                IN  IF left < 0 THEN 0 ELSE left

GoToSleep ==
    /\ phase = "await"
    /\ phase' = "sleep"
    /\ sleep' = SleepTime
    /\ UNCHANGED <<names, state, timeVars, bounds, roundStart, queue, worker>>

\* Results and time-outs of the futures are only logged, but the end of the
\* with block joins the threads of the pool.  (Mutant: it does not, as with
\* executor.shutdown(wait=False).)
LeavePoolEarly == GoToSleep
LeavePool ==
    /\ queue = {}
    /\ \A w \in Workers : At(w, "idle")
    /\ GoToSleep

WakeUp ==
    /\ phase = "sleep"
    /\ sleep = 0
    /\ phase' = "submit"
    /\ UNCHANGED <<names, state, timeVars, bounds, roundStart, sleep,
                   queue, worker>>

LoopStep == SubmitBatches \/ LeavePool \/ WakeUp

-----------------------------------------------------------------------------
(* Time, restarts, and the whole system.                                   *)

Tick ==
    /\ clock < MaxClock
    /\ clock' = clock + 1
    /\ sleep' = IF sleep = 0 THEN 0 ELSE sleep - 1
    /\ UNCHANGED <<names, state, setbacks, bounds, phase, roundStart,
                   queue, worker>>

\* The wall clock is corrected; sleeping is not affected.
SetClockBack ==
    /\ setbacks < MaxSetbacks
    /\ clock > 0
    /\ clock' = clock - 1
    /\ setbacks' = setbacks + 1
    /\ UNCHANGED <<names, state, bounds, loopVars, queue, worker>>

\* The process ends, with its daemon thread, and the pod starts a new one.
Restart ==
    /\ restarts < MaxRestarts
    /\ restarts' = restarts + 1
    /\ state' = [n \in Nodes |-> NewNode(clock)]
    /\ phase' = "submit"
    /\ roundStart' = 0
    /\ sleep' = 0
    /\ queue' = {}
    /\ worker' = [w \in Workers |-> IdleWorker]
    /\ UNCHANGED <<names, timeVars, raises>>

Next ==
    \/ \E w \in Workers : WorkerStep(w)
    \/ LoopStep
    \/ Tick
    \/ SetClockBack
    \/ Restart

Spec == Init /\ [][Next]_vars

\* The threads are scheduled: an update calls nothing that blocks.
Fairness ==
    /\ \A w \in Workers : WF_vars(WorkerStep(w))
    /\ WF_vars(LoopStep)

FairSpec == Spec /\ Fairness

-----------------------------------------------------------------------------
(* Properties.                                                             *)

Updating == {w \in Workers : worker[w].pc \in {"measured", "static", "dynamic"}}

TypeOK ==
    /\ names \in NodeLists
    /\ state \in [Nodes -> [created : Int, last_update : Int,
                            static_set : BOOLEAN,
                            counted : [Sections -> Nat],
                            lost : [Sections -> Nat],
                            cpu : [Modes -> Nat]]]
    /\ clock \in Int
    /\ setbacks \in 0 .. MaxSetbacks
    /\ restarts \in 0 .. MaxRestarts
    /\ raises \in 0 .. MaxRaises
    /\ phase \in {"submit", "await", "sleep"}
    /\ roundStart \in Int
    /\ sleep \in Nat
    /\ queue \subseteq AllBatches
    /\ worker \in [Workers ->
           [pc : {"idle", "next", "measured", "static", "dynamic"},
            now : Int, todo : SUBSET Nodes,
            node : Nodes \cup {<<>>}, dt : Nat, section : Sections]]
    /\ \A w \in Updating : worker[w].node \in Nodes /\ worker[w].dt > 0

\* No two threads update one node, though NodeState has no lock: neither two
\* batches of a round, whatever the configured list, nor a slow batch and the
\* next round, though future.result may give up on it.
OneUpdaterPerNode ==
    \A v, w \in Updating : worker[v].node = worker[w].node => v = w

\* The interval of the update that has yet to reach section s of node n.
Pending(n, s) ==
    {w \in Updating : /\ worker[w].node = n
                      /\ worker[w].pc # "measured"
                      /\ worker[w].section <= s}

\* Every second of a node's life up to its last update is in each section
\* exactly once, or is about to be, or fell to an exception: neither slow
\* rounds, nor a clock that is set back, count a second twice.
SecondsCountedOnce ==
    \A n \in Nodes, s \in Sections :
        LET known == state[n].counted[s] + state[n].lost[s]
            life  == state[n].last_update - state[n].created
        IN  \/ Pending(n, s) = {} /\ known = life
            \/ \E w \in Pending(n, s) : known + worker[w].dt = life

\* The modes of the CPU add up to the counted seconds, of each core or of
\* each sampled CPU, at any level of usage: rate() over them gives the cores.
ModesAddUp ==
    \A n \in Nodes :
        state[n].cpu["user"] + state[n].cpu["system"] + state[n].cpu["iowait"]
            + state[n].cpu["steal"] + state[n].cpu["idle"]
          = 100000 * CpuWeight * state[n].counted[CPU]

\* A round leaves no node behind, even if the updates of others raised: at
\* its end every node has been updated since its start.  (If the clock was set
\* back, nodes wait until it is past their last update.)
RoundReachesEveryNode ==
    phase = "sleep" /\ setbacks = 0 =>
        \A n \in Nodes : state[n].last_update >= roundStart

\* The loop sleeps only as long as keeps the rounds UPDATE_INTERVAL apart.
\* (If the clock is set back in a round, the loop sleeps longer by that much.)
RoundsKeepPace ==
    phase = "sleep" /\ sleep > 0 /\ setbacks = 0 =>
        clock + sleep = roundStart + UPDATE_INTERVAL

\* Every round ends, for any number of batches and workers, exceptions and
\* time-outs: the loop never waits for a pool that waits for it.
EveryRoundEnds == phase = "await" ~> phase # "await"
=============================================================================
