------------------------------- MODULE SloRun -------------------------------
(***************************************************************************)
(* run_mode2 of LLMOps/Benchmark/llm-perf-eval.py with ModelManager and    *)
(* Mode2ResultWriter: for every parameter group of every engine and every  *)
(* context, (re)start the model's container where its parameters have      *)
(* changed, search the highest concurrency that meets the SLO (SloSearch), *)
(* and record what was found in a workbook that is saved as it grows.      *)
(*                                                                         *)
(* A launch command is what parse_model_cmd_args makes of it, its params,  *)
(* and the tokens it overlooks, unparsed: the order of arguments is left   *)
(* out.  The host that runs the containers is external: Docker refuses to  *)
(* run a container under a name that is taken, the first container to      *)
(* listen gets the port of the one url that is benchmarked, and a command  *)
(* may fail, or be given up after its timeout though it takes effect.      *)
(***************************************************************************)
EXTENDS Integers, Sequences, FiniteSets

CONSTANTS
    Engines,
    EngineOf,       \* the engine of each parameter group, in order
    Contexts,       \* slo.contexts: [context, init_concurrent, max_concurrent]
    EffectiveCmd,   \* per group and context, the command to run it with
    External,       \* the command of a service that is not managed here
    BenchOnly,      \* the values of bench_only
    HealthFirst,    \* bench_only_healthcheck
    SearchMethod, StopN, DefaultInit, DefaultMax,   \* of slo; 0 is null
    Methods, InitConcurrents, MaxConcurrents, StopNs, Capacity

VARIABLES
    bench_only,
    phase,          \* where run_mode2 is
    group,          \* the parameter group, over all engines
    item,           \* the index of the context
    running,        \* current_running_cmd
    results,        \* context_best_map: per context value, what is painted
    detail,         \* the rows of the group's detail sheet
    painted,        \* the rows that highlight_best_rows has painted
    summary,        \* summary_rows, over all engines
    saved,          \* how many of them are in the file
    host,           \* external: the containers, and who has the port
    trouble,        \* history: a stop failed, or a failed start left one
    conf, pc, concurrent, lower_bound, upper_bound, best, tested, passed

searchVars == <<conf, pc, concurrent, lower_bound, upper_bound, best, tested,
                passed>>
hostVars   == <<host, trouble>>
bookVars   == <<detail, painted, summary, saved>>
vars       == <<bench_only, phase, group, item, running, results, bookVars,
                hostVars, searchVars>>

\* The variables of the search are those of SloSearch.
Search == INSTANCE SloSearch

NoCmd    == [params |-> "none", unparsed |-> "none"]
NoEngine == "none"
Cmds     == {EffectiveCmd[g][i] : g \in DOMAIN EngineOf, i \in DOMAIN Contexts}

\* "item.get(...) or default": null is replaced by the default.
OrDefault(n, default) == IF n = 0 THEN default ELSE n
SearchConf(i) ==
    [search_method   |-> SearchMethod,
     init_concurrent |-> OrDefault(Contexts[i].init_concurrent, DefaultInit),
     max_concurrent  |-> OrDefault(Contexts[i].max_concurrent, DefaultMax),
     stop_n          |-> StopN]

ASSUME RunAssumption ==
    /\ EngineOf \in Seq(Engines)
    /\ TRUE \in BenchOnly => EngineOf # <<>>
    /\ NoEngine \notin Engines
    /\ Len(Contexts) \in Nat \ {0} /\ DOMAIN Contexts = 1 .. Len(Contexts)
    /\ \A i \in DOMAIN Contexts : SearchConf(i) \in Search!Conf
    /\ DOMAIN EffectiveCmd = DOMAIN EngineOf
    /\ \A g \in DOMAIN EngineOf : DOMAIN EffectiveCmd[g] = DOMAIN Contexts
    /\ NoCmd \notin Cmds \cup {External}
    /\ BenchOnly \subseteq BOOLEAN
    /\ HealthFirst \in BOOLEAN

\* What SloSearch assumes.
ASSUME LimitAssumption ==
    /\ Methods \subseteq {"binary", "stopN"}
    /\ InitConcurrents \subseteq Nat \ {0}
    /\ MaxConcurrents \subseteq Nat
    /\ StopNs \subseteq Nat \ {0}
    /\ Capacity \in Nat

\* main gives bench_only one engine with one command.
Groups    == IF bench_only THEN 1 .. 1 ELSE DOMAIN EngineOf
Engine    == EngineOf[group]
Effective == EffectiveCmd[group][item]
Values    == {Contexts[i].context : i \in DOMAIN Contexts}
NoResult  == [concurrency |-> 0, colour |-> "none"]

\* The command of the container that answers at the url.
Answering == IF host.port = NoEngine THEN NoCmd ELSE host.containers[host.port]

Empty == [containers |-> [e \in Engines |-> NoCmd], port |-> NoEngine]
ServedBy(e) == [containers |-> [Empty.containers EXCEPT ![e] = External],
                port |-> e]

Init ==
    /\ bench_only \in BenchOnly
    /\ phase   = "command"
    /\ group   = 1
    /\ item    = 1
    /\ running = NoCmd
    /\ results = [v \in Values |-> NoResult]
    /\ detail  = <<>>
    /\ painted = {}
    /\ summary = <<>>
    /\ saved   = 0
    /\ host \in IF bench_only THEN {Empty, ServedBy(EngineOf[1])} ELSE {Empty}
    /\ trouble = FALSE
    /\ conf = SearchConf(1)
    /\ Search!Init

-----------------------------------------------------------------------------
(* ModelManager: what its commands may do to the host.                     *)

Without(e, h) == [containers |-> [h.containers EXCEPT ![e] = NoCmd],
                  port       |-> IF h.port = e THEN NoEngine ELSE h.port]
With(e, cmd, h) == [containers |-> [h.containers EXCEPT ![e] = cmd],
                    port       |-> IF h.port = NoEngine THEN e ELSE h.port]

\* stop_model: a failure is only logged.
StopModel(e) ==
    /\ host' \in {host, Without(e, host)}
    /\ trouble' = (trouble \/ host'.containers[e] # NoCmd)

\* cleanup: stop_cmd again, its result ignored.
Cleanup(e) == {host, Without(e, host)}

\* start_model: clean up, then run the container.  The host starts it only
\* under a name that is free; and it may start it and still report a failure.
StartModel(e, cmd, success) ==
    \E h \in Cleanup(e) :
        /\ \/ ~success /\ host' = h
           \/ h.containers[e] = NoCmd /\ host' = With(e, cmd, h)
        /\ trouble' = (trouble \/ (~success /\ host'.containers[e] # NoCmd))

\* A container dies, or the host kills it.
ServiceDies(e) ==
    /\ host.containers[e] # NoCmd
    /\ phase \notin {"finished", "aborted"}
    /\ host' = Without(e, host)
    /\ UNCHANGED <<bench_only, phase, group, item, running, results, bookVars,
                   trouble, searchVars>>

-----------------------------------------------------------------------------
(* run_mode2.                                                              *)

Rows(S) == 1 .. Len(S)

BeginCommand ==
    /\ phase = "command"
    /\ group \in Groups
    /\ phase' = IF bench_only /\ HealthFirst THEN "precheck" ELSE "context"
    /\ item' = 1
    /\ running' = NoCmd
    /\ results' = [v \in Values |-> NoResult]
    /\ detail' = <<>>
    /\ painted' = {}
    /\ UNCHANGED <<bench_only, group, summary, saved, hostVars, searchVars>>

\* The health check of bench_only; a failure skips the command.
Precheck(healthy) ==
    /\ phase = "precheck"
    /\ healthy => Answering # NoCmd
    /\ \/ /\ healthy
          /\ phase' = "context"
          /\ UNCHANGED <<group, saved>>
       \/ /\ ~healthy
          /\ phase' = "command"
          /\ group' = group + 1
          /\ saved' = Len(summary)
    /\ UNCHANGED <<bench_only, item, running, results, detail, painted, summary,
                   hostVars, searchVars>>

AtContext == phase = "context" /\ item \in DOMAIN Contexts

\* _cmds_are_equivalent.
Equivalent(c, d) == c.params = d.params

\* (Mutant: whatever runs is kept.)
NeedsNothing  == bench_only \/ running # NoCmd
RunningSuits  == bench_only \/ (running # NoCmd /\ Equivalent(Effective, running))

\* The model that runs, or the external service, is searched as it is.
KeepModel ==
    /\ AtContext
    /\ RunningSuits
    /\ phase' = "search"
    /\ Search!Begin(SearchConf(item))
    /\ UNCHANGED <<bench_only, group, item, running, results, bookVars, hostVars>>

ReplaceModel ==
    /\ AtContext
    /\ ~RunningSuits
    /\ phase' = "start"
    /\ IF running # NoCmd THEN StopModel(Engine) ELSE UNCHANGED hostVars
    /\ UNCHANGED <<bench_only, group, item, running, results, bookVars,
                   searchVars>>

Marker == [item |-> item, concurrency |-> 0, passed |-> FALSE, cmd |-> NoCmd]

\* Mutants: the summary gets no row; the context is tried again.
GiveUpUnrecorded ==
    /\ detail' = Append(detail, Marker)
    /\ running' = NoCmd
    /\ item' = item + 1
    /\ phase' = "context"
    /\ UNCHANGED <<bench_only, group, results, painted, summary, saved, searchVars>>
TryContextAgain ==
    /\ running' = NoCmd
    /\ phase' = "context"
    /\ UNCHANGED <<bench_only, group, item, results, bookVars, searchVars>>

\* A failure marker in the detail sheet and a row in the summary, saved.
GiveUpContext ==
    /\ detail' = Append(detail, Marker)
    /\ summary' = Append(summary, <<group, item>>)
    /\ saved' = Len(summary')
    /\ running' = NoCmd
    /\ item' = item + 1
    /\ phase' = "context"
    /\ UNCHANGED <<bench_only, group, results, painted, searchVars>>

StartSucceeds ==
    /\ phase = "start"
    /\ StartModel(Engine, Effective, TRUE)
    /\ phase' = "health"
    /\ UNCHANGED <<bench_only, group, item, running, results, bookVars,
                   searchVars>>

StartFails ==
    /\ phase = "start"
    /\ StartModel(Engine, Effective, FALSE)
    /\ GiveUpContext

\* 200 from the url, whoever answers; the warm-up changes nothing.
HealthCheckPasses ==
    /\ phase = "health"
    /\ Answering # NoCmd
    /\ running' = Effective
    /\ phase' = "search"
    /\ Search!Begin(SearchConf(item))
    /\ UNCHANGED <<bench_only, group, item, results, bookVars, hostVars>>

HealthCheckFails ==
    /\ phase = "health"
    /\ StopModel(Engine)
    /\ GiveUpContext

\* (Mutant: the workbook is saved without writing the summary again.)
SavedAsWritten == saved
SavedSummary   == Len(summary)

\* One turn of the search: a benchmark, its row, and the workbook saved.
SearchTurn(valid) ==
    /\ phase = "search"
    /\ valid => Answering # NoCmd
    /\ Search!Turn(valid)
    /\ detail' = Append(detail, [item |-> item,
                                 concurrency |-> Search!Limited(concurrent),
                                 passed |-> valid, cmd |-> Answering])
    /\ saved' = SavedSummary
    /\ UNCHANGED <<bench_only, phase, group, item, running, results, painted,
                   summary, hostVars>>

LeaveSearch ==
    /\ phase = "search"
    /\ Search!Leave
    /\ UNCHANGED <<bench_only, phase, group, item, running, results, bookVars,
                   hostVars>>

\* best, or else min_tested.
Found == IF best # Search!None
         THEN [concurrency |-> best, colour |-> "green"]
         ELSE [concurrency |-> CHOOSE c \in tested : \A d \in tested : c <= d,
               colour |-> "yellow"]

\* The workbook is saved as last written, then the summary gets its row.
\* The locals of the search end with it.
SearchEnds ==
    /\ phase = "search"
    /\ pc = "done"
    /\ results' = [results EXCEPT ![Contexts[item].context] = Found]
    /\ summary' = Append(summary, <<group, item>>)
    /\ item' = item + 1
    /\ phase' = "context"
    /\ Search!Begin(SearchConf(1))
    /\ UNCHANGED <<bench_only, group, running, detail, painted, saved, hostVars>>

\* The rows of the context value v that show its result; the first of them is
\* painted.  (Mutant: the context of the row is not compared.)
MatchingAnyContext(v) ==
    {r \in Rows(detail) : detail[r].concurrency = results[v].concurrency}
Matching(v) ==
    {r \in Rows(detail) : /\ Contexts[detail[r].item].context = v
                          /\ detail[r].concurrency = results[v].concurrency}

FirstMatching(v) == CHOOSE r \in Matching(v) : \A s \in Matching(v) : r <= s

\* highlight_best_rows.  (Mutant: contexts without a result are not skipped.)
HighlightedAll ==
    {[row |-> FirstMatching(v), colour |-> results[v].colour] :
        v \in {w \in Values : Matching(w) # {}}}
Highlighted ==
    {[row |-> FirstMatching(v), colour |-> results[v].colour] :
        v \in {w \in Values : results[w] # NoResult /\ Matching(w) # {}}}

\* (Mutant: the last model is left running.)
FinalStopForgotten == UNCHANGED hostVars
FinalStop ==
    IF running # NoCmd THEN StopModel(Engine) ELSE UNCHANGED hostVars

\* All contexts are done: stop the model, paint, write, save.
CloseCommand ==
    /\ phase = "context"
    /\ item \notin DOMAIN Contexts
    /\ FinalStop
    /\ painted' = Highlighted
    /\ saved' = Len(summary)
    /\ phase' = "command"
    /\ group' = group + 1
    /\ UNCHANGED <<bench_only, item, running, results, detail, summary, searchVars>>

FinishRun ==
    /\ phase = "command"
    /\ group \notin Groups
    /\ saved' = Len(summary)
    /\ phase' = "finished"
    /\ UNCHANGED <<bench_only, group, item, running, results, detail, painted,
                   summary, hostVars, searchVars>>

\* main catches what is raised (KeyboardInterrupt, the SystemExit of a warm-up
\* passes by, an error of the workbook) and the program ends.
Abort ==
    /\ phase \notin {"finished", "aborted"}
    /\ phase' = "aborted"
    /\ UNCHANGED <<bench_only, group, item, running, results, bookVars, hostVars,
                   searchVars>>

RunStep ==
    \/ BeginCommand
    \/ \E healthy \in BOOLEAN : Precheck(healthy)
    \/ KeepModel
    \/ ReplaceModel
    \/ StartSucceeds
    \/ StartFails
    \/ HealthCheckPasses
    \/ HealthCheckFails
    \/ \E valid \in BOOLEAN : SearchTurn(valid)
    \/ LeaveSearch
    \/ SearchEnds
    \/ CloseCommand
    \/ FinishRun

Next == RunStep \/ Abort \/ \E e \in Engines : ServiceDies(e)

Spec == Init /\ [][Next]_vars

\* Every command the program runs has a timeout, so that it always goes on.
FairSpec == Spec /\ WF_vars(RunStep)

-----------------------------------------------------------------------------
(* Properties.                                                             *)

Row == [item : DOMAIN Contexts, concurrency : Nat, passed : BOOLEAN,
        cmd : Cmds \cup {NoCmd, External}]

TypeOK ==
    /\ bench_only \in BOOLEAN
    /\ phase \in {"command", "precheck", "context", "start", "health", "search",
                  "finished", "aborted"}
    /\ group \in 1 .. Len(EngineOf) + 1
    /\ item \in 1 .. Len(Contexts) + 1
    /\ running \in Cmds \cup {NoCmd}
    /\ results \in [Values -> [concurrency : Nat,
                               colour : {"none", "green", "yellow"}]]
    /\ detail \in Seq(Row)
    /\ painted \subseteq [row : Nat, colour : {"green", "yellow"}]
    /\ summary \in Seq((DOMAIN EngineOf) \X (DOMAIN Contexts))
    /\ saved \in 0 .. Len(summary)
    /\ host \in [containers : [Engines -> Cmds \cup {NoCmd, External}],
                 port : Engines \cup {NoEngine}]
    /\ host.port # NoEngine => host.containers[host.port] # NoCmd
    /\ trouble \in BOOLEAN
    /\ Search!TypeOK

\* What a row reports was measured on a service that runs with the parameters
\* the row is recorded under: failed stops, failed starts, dead containers and
\* models that are kept from one context to the next notwithstanding.
RecordedAsMeasured ==
    ~bench_only /\ phase \in {"context", "start", "health", "search"} =>
        \A r \in Rows(detail) :
            detail[r].cmd \in {NoCmd, EffectiveCmd[group][detail[r].item]}

\* The summary has exactly one row of each context so far, in order: failed
\* starts and health checks neither skip a context nor report it twice.  A run
\* that finishes has one of each context of each group, with one exception: if
\* the health check before a bench_only run fails, its group is skipped before
\* its first context, and the summary is empty.
OneSummaryRowEach ==
    /\ \A k \in Rows(summary) :
         summary[k] = <<((k - 1) \div Len(Contexts)) + 1,
                        ((k - 1) % Len(Contexts)) + 1>>
    /\ phase \in {"context", "start", "health", "search"} =>
         Len(summary) = (group - 1) * Len(Contexts) + item - 1
    /\ phase = "finished" =>
         /\ group \notin Groups
         /\ IF bench_only /\ item = 1
            THEN HealthFirst /\ summary = <<>>
            ELSE Len(summary) = (group - 1) * Len(Contexts)

\* However the program ends, the file lacks at most the row of the context
\* that was searched last, and none once the next benchmark is recorded or the
\* group is closed.
FileLagsByOneRow ==
    /\ Len(summary) - saved <= 1
    /\ phase \in {"command", "finished"} \/ (phase = "search" /\ tested # {}) =>
         saved = Len(summary)

\* A green row shows a concurrency that met the SLO, a yellow one shows one
\* that did not.
ColoursAreTrue ==
    \A p \in painted : detail[p.row].passed <=> p.colour = "green"

\* A run that ends normally leaves no container behind, unless a stop command
\* failed or a failed start left one.
LeavesNoContainer ==
    phase = "finished" /\ ~bench_only /\ ~trouble =>
        \A e \in Engines : host.containers[e] = NoCmd

\* The run ends, whatever the service, its host and the searches do.
Finishes == <>(phase \in {"finished", "aborted"})
=============================================================================
