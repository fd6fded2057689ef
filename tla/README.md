# A verification development for DevLLMOps

The repository collects the tools of an LLM operations team.  Most of it is
configuration (Helm charts, dashboards, manifests); its own logic is in a few
programs.  This directory models five of them in TLA+: the alert forwarder, the
performance evaluation tool, the fake node exporter, the merging of dashboards
and the realtime verification.  TLC model-checks them, and TLAPS checks proofs
of theorems about each of them.

Paths of source files below are relative to `src/`: `app.py` is
`k8s-yaml/observe/alert/app.py`, `llm-perf-eval.py` is
`LLMOps/Benchmark/llm-perf-eval.py`.

## 1. Inventory

### Alert forwarder (`app.py`) — modelled

* **State.** `_alert_buffer`, a dict from `(webhook, alertname, status)` to a
  group `{first_seen, alerts, requeue_retries}`, guarded by `_buffer_lock`; the
  locals of each Flask request thread and of the one flush thread.  Nothing is
  persisted.
* **Operations.** `receive_alert` buffers the alerts of a request, one
  acquisition of the lock per alert, and answers 200, 202 or 500. `_flush_loop`
  wakes every second, takes the groups whose window has elapsed out of the
  buffer under the lock, and then, without the lock, sends each with
  `_dispatch_group`: one card per `MAX_MERGE_COUNT` alerts, each with up to
  `SEND_MAX_ATTEMPTS` attempts of `send_alert`.  A group of which a card failed
  is put back into the buffer, or given up after `SEND_REQUEUE_MAX_RETRIES`.
* **Interaction.** Request threads and the flush thread share the buffer; Feishu
  is reached over HTTP; the Deployment restarts the process.
* **Hard.** Arrivals while a group of the same key is in flight; partial failure
  of a group; retries of cards and of groups combined; an exception in the only
  thread that sends; restarts.
* **Cards** (`format_*`, `_dispatch_group`).  A card is computed from the group
  that is being sent.  Hard: its numbers are computed per chunk while chunks are
  posted again.  Correct if the cards of a dispatch are one list.
* **Correct if** every accepted alert is in one group or has a recorded fate, a
  group that counts as sent was shown entirely, alerts of a key are sent in
  order, retries are bounded, and every alert ends.

### Performance evaluation (`llm-perf-eval.py`)

* **SLO search** (`_search_max_concurrency`, `_stopn_step`, `_binary_step`) —
  modelled.  State: the next concurrency, two bounds, the best result, the
  concurrencies tested.  Hard: termination, off-by-one at convergence and at 1,
  verdicts that contradict each other, the limit.  Correct if it ends with the
  maximum.
* **Mode 2 runner with `ModelManager` and `Mode2ResultWriter`** — modelled.
  State: loop positions, `current_running_cmd`, `context_best_map`, the rows of
  the sheets, what of them is in the file, and, outside of the program, the
  containers of a host.  Hard: starts, stops and health checks that fail or are
  given up though they take effect; containers that die; models kept from one
  context to the next; interruption.  Correct if a row reports what was measured
  with the parameters it is recorded under, every context of a group that is not
  skipped leaves one summary row, and the file keeps up.
* **Mode 1 runner and workbook** — not modelled.  A list of fixed cases per
  parameter group, with its own copies of the failure paths.
* **Command parsing** (`parse_model_cmd_args`, `apply_override_args`,
  `_cmds_are_equivalent`) — `SloRun` takes a parsed command as given: which of
  its tokens were parsed, and which were passed over.
* **Configuration, entry point, benchmark execution** — read files once, or call
  the evalscope library; what the runner relies on appears as assumptions.

### Fake node exporter (`k8s-yaml/fake-node-exporter/fake-node-exporter.py`) — modelled

* **State.** `self.nodes`, a dict from names to `NodeState` (`last_update`,
  `static_set`, the smoothed usage), the counters that Prometheus scrapes, and
  the locals of the loop thread and of the threads of a pool. Nothing is locked,
  nothing is persisted.
* **Operations.** `generate_nodes_from_config` expands patterns to names.
  `update_metrics_loop` cuts the names into batches, gives them to the pool,
  waits for it and sleeps.  `update_node_batch` advances each node of a batch by
  the time since its last update.
* **Interaction.** The loop and the pool share the nodes; the wall clock is
  outside; a restart of the pod loses everything.
* **Hard.** A round longer than the interval; names that are configured twice;
  an exception in the middle of an update; a clock that is set back.
* **Correct if** a node is never updated by two threads, every second is counted
  once in every counter, the modes of the CPU add up, a round reaches every
  node, rounds keep their pace and end.

### Dashboard merging (`LLMOps/monitor/*/merge-dashboards.py`) — modelled

A script, in two copies that differ in a constant, the target variables, and in
the names of the files that they read and write (the copy in
`grafana-dashboards/` loads `vllm-performance_statistics.json`, while the file
beside it is `vllm-performance-statistics.json`, and so with
`vllm-query_statistics.json`), with the state of one pass: the dashboards that
it changes in place, the panels it collects, the next id and the next free line.
Hard: panels without a place, closed rows, empty dashboards, names that begin
with another name, definitions of one name in two files.  Correct if ids are
unique, every panel is kept once with the layout of its file, no section reaches
into another, and every reference finds the variable that it meant.

### Realtime verification (`LLM/ASR/voxtral-realtime-verify.py`) — modelled

A client of a vLLM server.  State: where the protocol is, what was sent, the
exit code; the connection with what is under way in both directions.  Hard:
events in any order, errors that arrive while audio is still being sent, a
server that is silent, stops reading or goes away, other events between. Correct
if the exit code tells the truth in both directions, and the script ends.

### Not modelled

* `scripts/gen-kubeconfig/gen-kubeconfig.sh` creates, changes and deletes a
  ServiceAccount, a token Secret and bindings, one kubectl call at a time under
  `set -e`.  It would be worth a module, but its main operation does not run:
  every path of `gen` expands `${#namespaces[@]:-0}` (line 743; 397, 407, 730
  and 731 are alike), which bash rejects as a bad substitution.  A model of it
  would be a guess at what was meant.
* Mode 1 of the evaluation has no search and no comparison of commands, and the
  algorithms of the command parsing work on the characters of shell words.
* Single passes over a list with one external call each
  (`swr-update-repo-attr.py`, `image-sync.sh`,
  `generate-grafana-dashboard-crd.sh`), sequences of system commands
  (`precheck.sh`, `miner-check.sh`, `nginx-log-rsync.yaml`,
  `kubesphere-prometheus-delete.sh`, the start scripts under `LLM/`), a load
  generator that prints counts (`rate-test.py`), declarative configuration of
  other projects (`charts`, `helmfile`, `AI/dify`, `archive`), third-party tools
  (`crack`): they keep no state between steps that a model could relate.

`PROJECT.json` lists each with its reason, and the hazards with the properties
that cover them.

## 2. Modules

| module | models | uses |
| --- | --- | --- |
| `AlertOutbox` | what the forwarder promises, abstractly | |
| `AlertForward` | `app.py`: buffer, flush thread, sending | `AlertOutbox` (refinement) |
| `AlertCards` | `app.py`: the cards | extends `AlertForward` |
| `AlertForwardProofs`, `AlertRetryProofs` | theorems | `AlertForward` |
| `AlertContinueProofs` | theorem | `AlertCards` |
| `SloSearch` | the search | |
| `SloSearchProofs` | theorems | `SloSearch` |
| `SloRun` | mode 2 | `SloSearch` (composition) |
| `SloRunProofs` | theorems | `SloRun`, `SloSearchProofs` (by INSTANCE) |
| `NodeNames` | the names that a configuration stands for | |
| `FakeNodeExporter` | the exporter | names from `NodeNames` in its instance |
| `FakeNodeExporterProofs` | theorems | `FakeNodeExporter` |
| `MergeDashboards` | `merge-dashboards.py` | |
| `MergeDashboardsProofs` | theorems | `MergeDashboards` |
| `RealtimeVerify` | the client and its server | |
| `RealtimeVerifyProofs` | theorems | `RealtimeVerify` |
| `MC...` | instances for TLC (`RealtimeVerify` needs none) | |

### AlertForward

An alert is the number of its arrival.  `group["alerts"]` only grows by append,
so the list is the set of its members read in increasing order.  `first_seen` is
the time elapsed since, `waited`, cut off at `DEBOUNCE_SECONDS`, because the
code compares it with nothing else.  `slot` is the place of a key in the dict:
Python keeps insertion order, and assigning to a key that exists keeps its
place. Removed groups are `NoGroup`.

| code | action |
| --- | --- |
| `receive_alert`, no alerts (130-132) | `ReceiveNothing` |
| `receive_alert`, up to the loop | `ReceiveAlerts` |
| loop body under the lock (166-180) | `BufferAlert` |
| unknown status (161-164) | `SkipAlert` |
| `except` (185-187) / 202 (183) | `RejectRequest` / `AcceptRequest` |
| `_flush_loop`, scan under the lock (195-206) | `ScanBuffer` |
| next group of `ready_groups` / end of the list | `DispatchGroup` / `EndOfRound` |
| an attempt in `send_alert` | `PostSucceeds`, `PostFails` |
| `except Exception` around the dispatch | `DispatchRaises` |
| after the dispatch: sent / given up | `GroupSent` / `GroupDropped` |
| the clock is read for a new `first_seen` (225) | `StampGroup` |
| the group is put back under the lock (227-228) | `GroupRequeued` |
| a second passes / the clock is set back / the process restarts | `Tick` / `SetClockBack` / `Crash` |

The new `first_seen` of a failed group is read before the lock is taken and used
under it.  They are two steps: time may pass between them, and handlers may open
groups, which then stand before the group that is put back although their
windows are younger. The scan reads the clock one line before it takes the lock
(197), which delays a group by a scan at most and is part of `ScanBuffer`.
`waited` is negative when the clock was set back; `since` is a history, the
count of insertions when a group's `first_seen` was read. `PostFails` covers a
timeout after which Feishu shows the card all the same: `carded` says only what
the forwarder may rely on. `issued` and `ledger` are history variables that no
guard reads: how many alerts were buffered and what became of each, with counts
of dispatches and posts.

### SloSearch

One action, `Turn(valid)`, is one turn of the loop: limit, test, record the
best, choose the next concurrency with `StopNStep` or `BinaryStep`; `Leave` is
the `break` for a concurrency that was tested.  The verdict is nondeterministic,
so the service may be noisy; `Capacity` is a concurrency beyond which no service
meets the SLO, without which a search with no limit need not end. 0 stands for
`None`.

### SloRun

`phase` follows the control of `run_mode2`; the search of a context is
`SloSearch` itself, instantiated over the variables of the same names, so that
`SearchTurn` is `Turn` together with the row it appends and the save.  A command
is a record of what `parse_model_cmd_args` extracts (`params`) and the tokens it
passes over (`unparsed`); two commands are equivalent when `params` agree.
`StopModel`, `Cleanup` and `StartModel` are `ModelManager`; what they do to
`host` is external: a command may fail, or take effect though it was given up
after its timeout; Docker refuses a name that is taken; the first container has
the port; a container may die at any time.  `saved` is how many summary rows are
in the file: `SearchEnds` saves before it adds the row, in the order of the
code.  `trouble` is a history variable: a stop failed or a failed start left a
container.  `Abort` is what `main` catches or does not (an interrupt, an
exception of the workbook, the `SystemExit` of a warm-up).  A save is one step:
an interrupt in the middle of openpyxl's writing, which may leave a damaged
file, is not modelled.  A failed health check before a `bench_only` run
(1279-1284) skips its only group without a row; `OneSummaryRowEach` says so.

### AlertCards

Operators over the state of `AlertForward`, since a card is a function of it.
`Card` is `_dispatch_group`'s choice among the three formats; a card keeps what
tells the cards of a group apart or joins them.

### FakeNodeExporter

| code | action |
| --- | --- |
| `ThreadPoolExecutor.submit`, a thread begins (471-474) | `SubmitBatches`, `TakeBatch` |
| `dt <= 0: continue` (480) / a positive `dt` | `SkipNode` / `MeasureNode` |
| `state.last_update = now` (482) | `AdvanceNode` |
| `update_static_metrics` | `SetStatic` |
| `update_dynamic_metrics`, CPU / the other counters | `AddCpuTime` / `AddOthers` |
| `except` (487) | `UpdateRaises` |
| the end of the batch / of the `with` block / of the sleep | `FinishBatch` / `LeavePool` / `WakeUp` |

Time is in seconds of the wall clock; a sleep does not depend on it.  `counted`
is the sum of the intervals that a section of counters was advanced by, and
`cpu` divides it into modes in exact multiples of the constants in the code;
rates and rare events are left out, gauges are overwritten in every update.
`lost` and `created` are histories.  `SmoothValue` is any value, cut off to the
range the code gives it.  `future.result` may give up, which only logs: what
waits for the batch is the end of the `with` block.  `NodeNames` translates the
expansion of patterns; a name is its numbers and how many digits they have, so
that `[9..10]` and `[09..10]` share one name.

### MergeDashboards

| code | action |
| --- | --- |
| `namespace_dashboard_vars` of one dashboard (152-154) | `NamespaceVars` |
| one panel of the loop of `flatten_panels` | `FlattenPanel` |
| `make_expanded_row`, the ids, `current_y` (160-197) | `MakeExpandedRow` |
| one variable of the loops of `merge_template_vars` | `MergeVar` |
| its next dashboard | `NextVars` |

The loops are steps and not folds, so that what a loop has done so far is a
state that an invariant can speak of; `dash` is changed in place, as in the
code, and `source` keeps what was read.  A panel is its place, the references in
its texts and its nested panels, and `from`, where it comes from.
`OrderAssumption` says that a file lists a variable below those that its query
refers to, as the dashboards in the repository do; the code relies on it and
does not check it.  Out of the model: `${name:format}`, which the code does not
rewrite and the dashboards at hand do not use for the renamed variables; that
the two vLLM files may define one variable differently, of which the first
definition stays.

`flatten_panels` opens a closed row where its panels are stored and does not
push down what follows the row, so that a panel which was visible below a closed
row may be covered in the merged dashboard. `EveryPanelIsKept` is exact about
this: two panels overlap exactly if they come from one file and their stored
places overlap, and no header and no other section is ever covered.  It is no
promise that nothing is hidden; that needs the stored places of a file not to
overlap, as in the dashboards of the repository, where no row has panels nested
in it.

### RealtimeVerify

`pc` follows `main` and `realtime_transcribe`.  Messages and events are queues
of types.  The server is external: `Greet`, `Handle`, `MakeNoise`, `Transcribe`
and `Break` are what the script's description of the protocol lets it do, at any
speed, and `faults` is a history of what went wrong outside of the client. What
was sent and not read yet fits into `Capacity` messages (in bytes, the write
limit of the library and the buffers of the two hosts); beyond that `await
ws.send` (125, 126, 131, 140) waits, and no `wait_for` bounds it.  A message
counts as written when its send returns.  A server that stops reading because
nobody reads what it sends is one that stops reading: nothing else follows for
the client, which reads no event before it has sent everything.  The conversion
of samples to 16 bits and the measured times are left out.

## 3. Runs

| run | shows | states | bounds |
| --- | --- | --- | --- |
| `AlertForwardSafety` | `Conservation`, `FlightIsOlder`, `OldestWindowFirst`, and that `AlertOutbox` is implemented | 4.4 million | two threads, two requests of two alerts out of two keys, one restart or setback, one re-queueing |
| `AlertForwardCards` | `SentWasCarded`, `PostsBounded`, `GroupStaysWhole`, `DropsAreExhausted`, `CardsContinue`, `EveryAlertEnds` | 535 000 | up to four alerts of one key, two per card, two attempts, one re-queueing |
| `AlertForwardOverwrite`, `AlertForwardWindow` | findings 1 and 2 | | two requests of one alert |
| `SloSearch` | termination, limit, consistent bounds, the maximum is found | 67 000 | starts and limits to 16, steps to 6, capacity 20 |
| `SloRun` | rows, colours, containers, file, termination | 18 000 | two groups of three contexts on one engine, `bench_only` or not |
| `SloRunUnparsed`, `SloRunEngines`, `SloRunDuplicates` | findings 3, 4 and 5 | | one property each |
| `FakeNodeExporter` | one updater per node, seconds counted once, modes, rounds complete, paced and ended | 178 000 | two workers, two or three nodes in batches of two, a clock to 2, one setback, one restart, one exception |
| `MergeDashboards` | ids, every panel kept once and in its place, references, order of variables | 5 300 | every choice of three out of six dashboards |
| `RealtimeVerify` | the exit code tells the truth, the script ends or is blocked in a send | 10 000 | two chunks, two messages unread, two ignored events |

Every property of a passing run has a mutant in `PROJECT.json`: a plausible
error in the code under which the run finds the property violated.

**Why the bounds are enough.** A second request of one thread is what it takes
to append to a group, to open a group while the old one is in flight, and to
have a re-queued group meet it; two threads interleave their alerts; two keys
order groups.  Two alerts per card and four alerts make a group of two full
cards, one of three a last card that is not full, and one re-queueing reaches
both sides of the limit.  `MaxRequests` and `MaxDisturbances`, which counts
restarts and setbacks of the clock, are the only bounds in guards of
`AlertForward`; `SloSearch` and `SloRun` have none but `Capacity`. In `SloRun`
the contexts have limits between one and three, so that every search is short;
longer ones are covered by `SloSearch`.

In `FakeNodeExporter` a name is configured twice and three nodes make two
batches, the second not full, for two workers; an interval of one second and a
clock to two let a round take longer than the interval and a second round meet
what the first has left; the usage is 120 before it is cut off. The counts of
setbacks, restarts and exceptions and the clock are bounded in guards.  Six
dashboards have panels side by side and below each other, open and closed rows,
an empty list, a panel without a place, queries that refer to variables and a
name that begins with another; three sections are what the script has.  Two
chunks make the first, the last and the loop between differ; two ignored events
come between any two others; with room for two messages unread, each of the five
sends but the first two may find the buffers full. `MaxChunks` bounds the
initial states, `MaxNoise` is in a guard.

`CHECK_DEADLOCK FALSE`: requests are bounded, an idle forwarder waits; the runs,
the search and the scripts end; the exporter sleeps when the bounded clock
stands.

**Fairness.** `AlertForward`: each request thread that is in a request, the
flush thread, and time.  Threads are scheduled by the operating system,
`requests.post` has a timeout, and every sleep is finite.  Nothing is assumed of
Feishu: posts may fail for ever, and arrivals and restarts are not fair.
`SloSearch` and `SloRun`: weak fairness of the program's own steps; every
command has a timeout, the health check a number of retries.  A benchmark itself
has no timeout of its own in the tool; that evalscope returns is an assumption.
`FakeNodeExporter`: the loop and each thread of the pool; an update calls
nothing that blocks.  Time is not fair, because no property needs it.
`RealtimeVerify`: the client only, whose every recv has a time-out. Nothing is
assumed of the server, save that it does not send ignored events for ever: the
time-out is that of one event (hazard at line 145).  In particular it is not
assumed to read.  A send has no time-out, although the help of `--timeout`
speaks of the time-out of the websocket (line 190), and a keep-alive ping waits
behind the blocked send; so `EveryVerificationEnds` says that the script ends or
stays in a send that waits for the server (`Blocked`). The second happens in the
run.

## 4. What the violations say

1. **`AlertForwardOverwrite`** (app.py:228).  A failed group is assigned to its
   key without looking for a group opened meanwhile, which is lost although its
   alerts were accepted with 202.
2. **`AlertForwardWindow`** (app.py:201).  The window runs from the first alert,
   as the comment on the constant says and the docstring does not.
3. **`SloRunUnparsed`** (llm-perf-eval.py:99).  `--tp=8` is not seen as a
   parameter, so that a context that overrides it is measured on the model of
   the context before.
4. **`SloRunEngines`** (llm-perf-eval.py:1364).  Mode 2 does not stop a
   container after a failed start; it may answer for the next engine.
5. **`SloRunDuplicates`** (llm-perf-eval.py:1401).  A context that is listed
   twice has one entry for its colour.

`LeavesNoContainer` assumes that no stop failed and no failed start left a
container; of finding 4 it says nothing, and of finding 1 `Conservation` says
nothing either, since to be overwritten is a recorded fate.

Hence two restrictions of `SloRun.cfg`, stated by its constants: one engine and
commands whose parameters are all parsed, and distinct contexts. There
`RecordedAsMeasured` and `ColoursAreTrue` hold.

## 5. Proofs

All theorems hold for every value of the constants under the named assumptions:
`ConfigAssumption` and `RequestAssumption` (forwarder), `CardAssumption`
(cards), `SearchAssumption` (search), `RunAssumption` and `LimitAssumption`
(run; the second is what the search assumes), `ExporterAssumption`,
`VerifyAssumption`, `MergeAssumption` and `OrderAssumption` (merge).  They hold
for any number of threads, keys, requests, nodes, contexts, chunks, restarts,
dashboards, panels and variables.

* **`AlertForwardProofs`.** `Conservation` is not inductive: that a step does
  not lose or duplicate an alert depends on where the flush thread is.
  `BufferInv` adds `FlushCoherent`, that nothing is in flight while the thread
  scans and that `current` is a key in flight while it sends or settles, to
  `TypeOK`, `Conservation` and `FlightIsOlder`; there is one lemma per conjunct
  and, in it, one step per action.  `AlertsAreConserved`, `AlertsAreSentInOrder`
  and `TypeCorrect` follow. `ForwarderImplementsOutbox` uses it to map each step
  to a step of `AlertOutbox`: a sent group is the oldest of what waits because
  whatever is in the buffer under its key is younger (`FlightIsOlder`); a
  re-queued group that replaces another is a loss of the latter. The module also
  holds the theorem on cards: `SentWasCarded` needs to know which alerts have
  been on a card when `start` and `allOk` have given values: `ChunksCarded` says
  that, as long as nothing failed, the alerts of rank up to `start` are carded.
  The lemmas on ranks are about cardinalities of initial segments of finite
  sets.
* **`AlertRetryProofs`.** `WindowInv` strengthens `OldestWindowFirst`: no slot
  is beyond the count of insertions (`SlotsAreCounted`), no window lies in the
  future while the clock is not set back (`WindowsArePast`), and between the
  reading of a new `first_seen` and its use, the groups that stood in the buffer
  when it was read are no younger than it (`StampIsNewest`).  A group that was
  replaced is not forgotten (`OverwritingIsFinal`), so that the premise held
  before the step. `PostsBounded` relates the counts of an alert to those of its
  group: `RetryInv` says that `requeue_retries` counts the dispatches of the
  oldest alert of a group and bounds those of the others
  (`RoundsFollowRetries`), and that an alert that waits for its card has the
  attempts of this round left (`PostsFollowAttempts`).  `DropsTakeAllRounds` is
  about that oldest alert. `GroupsStayWhole` needs `BufferInv` only.
* **`AlertContinueProofs`.** The number of an alert on its card is its rank in
  the group, if `start` is a multiple of the size of a card (`ChunksAligned`,
  added to the invariant of `SentWasCarded`).  That every rank is reached, so
  that no number is left out, would be an induction over the set; it is proved
  from the least element of a set of numbers, which the well-foundedness of the
  order gives.
* **`SloSearchProofs`.** `Bracketed` is not inductive: a turn keeps it only if
  it tests between the bounds, and the bounds are tight only if they are
  results. `IInv` adds `BoundsAreResults` (each bound that is set has been
  tested with that verdict, and `best` is `lower_bound`) and `NextIsBetween`
  (the next concurrency lies strictly between the bounds) to the properties.  At
  the end of the loop the two methods are separate cases.  `WithinMax`,
  `Bracketed`, `BestIsTight` and `FindsMaximum` follow.  `SearchIsBounded` says
  that no concurrency is tested beyond a bound that the start, the step and
  twice the capacity give, because a turn goes up only from a concurrency that
  passed; with it `SearchAdvances` shows that each turn ends the loop or leaves
  fewer concurrencies to test.
* **`SloRunProofs`.** `SloSearchProofs` is instantiated: `IInv` holds of the
  search of each context, and with the types and ranges of the loop positions it
  is `RunInv`.  Each property has its own strengthening: `RowsInv` ties the
  number of summary rows to group and context at every phase, and between groups
  to the groups so far, unless a `bench_only` run was skipped (`Complete`),
  `TidyInv` says that no engine but that of the group has a container, and when
  that one has none; `MeasuredInv` that its container runs
  `current_running_cmd`, which in a search is the command that the rows are
  recorded under; `ColourInv` that a row that shows the result of its context
  has the verdict of its colour. `RowsAreMeasured` assumes `ParamsTellAll`
  (commands with equal parameters are equal) and `OneEngine`, or, in
  `RowsAreMeasuredWithoutTrouble`, that nothing has gone wrong with a container;
  `ColoursTellVerdicts` assumes `DistinctContexts`. Findings 3, 4 and 5 are the
  runs without these assumptions: the theorems say that nothing else can break
  the properties. `RunFindsMaxima` carries what the search finds over to the
  searches of a run. `RunAdvances` orders the states of a run by group, stage,
  context, step and what the search has left to test: whatever fails, every step
  goes forward in that order or is a container that dies.
* **`FakeNodeExporterProofs`.** `OneUpdaterPerNode` follows from `WorkIsApart`:
  what is queued and what workers have taken are disjoint, because batches are,
  and nothing is taken while the loop is outside the pool. `SecondsCountedOnce`
  is proved as `Accounts`, one equation per section of a node, from which the
  thread in the node is missing its interval; only that thread can change it.
  `NoneIsLeft` says that in a round each node waits in a batch or with a worker
  that took the time in this round, or has been reached. `ModesAddUp` is
  arithmetic: the shares of the modes stay below the whole at any usage that is
  cut off to 100. `CountersOnlyGrow` is an action property of every step but a
  restart: with `Accounts`, the time in a worker's hands is later than the
  `last_update` that it replaces, also when the clock was set back after it was
  read, and what is added to a counter is never negative. `RoundsAdvance` orders
  what is left of a round: the queued batches, then the nodes of each worker,
  then the place in the update of one node.
* **`RealtimeVerifyProofs`.** `Stream` counts the chunks the server has heard
  and those under way, and says that nothing follows the final commit; `Earned`
  then says that a `transcription.done` that is under way is about the whole
  audio, and `Deserved` that as long as nothing outside went wrong the
  connection is open, no error is under way, and the first event is
  `session.created`.
* **`MergeDashboardsProofs`.** Types apart, the properties are not inductive.
  `MergeInv` says what each loop has done so far: a dashboard that was reached
  is `Namespaced` of its source and every other is its source (`DashCoherent`);
  `flat` has each content panel up to `place` once (`FlatCoherent`); `panels`
  has, for each section so far, the header and each content panel once, the id
  of a panel is its place in the list, panels of different sections are one
  below the other, and those of one section are as far apart as they were
  (`PanelsCoherent`), so that two of them overlap exactly if they did; `merged`
  has the first definition of each name that was visited (`VarsCoherent`).  A
  reference is renamed exactly if its variable is, which is why it finds one.
  `Min` and `Max` are defined by CHOOSE; that a list of numbers has a least and
  a greatest one is an induction, which is replaced by the well-foundedness of
  the order, applied to the shortest beginning of the list without an upper
  bound.

**Only model-checked.** Liveness (`EveryAlertEnds`, `Terminates`, `Finishes`,
`EveryRoundEnds`, `EveryVerificationEnds`): it needs fairness and ENABLED, which
the prover does not handle.  Of `Terminates` and `Finishes` the half that needs
neither is proved: `SearchAdvances` and `RunAdvances` leave no endless sequence
of steps, and what the runs add is that the program does not stop on the way.
`RoundsAdvance` does the same for `EveryRoundEnds`, and `PostsBounded` for the
retries in `EveryAlertEnds`.  `NodeNames` has no state and no theorem: its names
are built by folds, and what a fold computes for every list is an induction over
data, which is out of the prover's reach.  The modules declare no RECURSIVE
operator.

## 6. Plan

Done: the modules above, and a theorem for every safety property of a passing
run.  What is left, in order:

1. `CaseRun`: mode 1 over the same host as `SloRun`: every case of every group
   has one row, no container is left.
2. `OverrideArgs`: `parse_model_cmd_args` and `apply_override_args` on sequences
   of tokens, checked against a reference definition (an override that is parsed
   again yields the value; a deletion yields none; other parameters stay).
3. `gen-kubeconfig.sh`, once its `gen` runs.
