----------------------------- MODULE SloRunProofs -----------------------------
(***************************************************************************)
(* Proofs about a run of mode 2, for any engines, groups, contexts and     *)
(* commands: types, the rows of the summary and what of them is in the     *)
(* file, the containers that are left, and, under the restrictions that    *)
(* findings 3, 4 and 5 call for, what the rows and their colours mean.     *)
(***************************************************************************)
EXTENDS SloRun, WellFoundedInduction, TLAPS

\* The theorems about the search hold of the searches of a run.
Proved == INSTANCE SloSearchProofs

-----------------------------------------------------------------------------
(* The search within the run.                                              *)

SearchInv == Proved!IInv

LEMMA SameConf == Search!Conf = Proved!Conf
BY DEF Search!Conf, Proved!Conf

LEMMA SameType == Proved!TypeOK => Search!TypeOK
BY SameConf DEF Search!TypeOK, Proved!TypeOK

LEMMA SameLimited == \A c : Search!Limited(c) = Proved!Limited(c)
BY DEF Search!Limited, Proved!Limited, Search!Capped, Proved!Capped,
       Search!Smaller, Proved!Smaller, Search!None, Proved!None

LEMMA SameTurn ==
    ASSUME NEW valid \in BOOLEAN, Search!Turn(valid)
    PROVE  Proved!Turn(valid)
BY DEF Search!Turn, Proved!Turn, Search!Limited, Proved!Limited,
       Search!Capped, Proved!Capped, Search!Smaller, Proved!Smaller,
       Search!None, Proved!None, Search!AlreadyTested, Proved!AlreadyTested,
       Search!TestedWith, Proved!TestedWith,
       Search!StopNStep, Proved!StopNStep, Search!BinaryStep, Proved!BinaryStep,
       Search!Larger, Proved!Larger, Search!Midpoint, Proved!Midpoint,
       Search!UpperAfter, Proved!UpperAfter, Search!StepDown, Proved!StepDown,
       Search!Converged, Proved!Converged

LEMMA SameLeave == Search!Leave => Proved!Leave
BY SameLimited
   DEF Search!Leave, Proved!Leave, Search!AlreadyTested, Proved!AlreadyTested

LEMMA InitSearchInv ==
    ASSUME Init
    PROVE  SearchInv
<1>1. Proved!Init
  BY SameConf DEF Init, Search!Init, Proved!Init, Search!First, Proved!First,
                  Search!Capped, Proved!Capped, Search!Smaller, Proved!Smaller,
                  Search!None, Proved!None
<1>2. QED
  BY <1>1, LimitAssumption, Proved!InitIInv DEF SearchInv

\* A search begins as the first one does.
LEMMA BeginSearch ==
    ASSUME NEW i \in DOMAIN Contexts, Search!Begin(SearchConf(i))
    PROVE  SearchInv' /\ tested' = {} /\ pc' = "search"
<1>1. SearchConf(i) \in Search!Conf
  BY RunAssumption
<1>2. PICK cf \in Search!Conf : cf = SearchConf(i)
  BY <1>1
<1>3. /\ conf' = cf /\ pc' = "search" /\ concurrent' = Search!First(cf)
      /\ lower_bound' = 0 /\ upper_bound' = 0 /\ best' = 0
      /\ tested' = {} /\ passed' = {}
  BY <1>2 DEF Search!Begin, Search!None
<1>4. /\ cf.init_concurrent \in Nat \ {0} /\ cf.max_concurrent \in Nat
  BY LimitAssumption DEF Search!Conf
<1>5. /\ concurrent' \in Nat \ {0}
      /\ cf.max_concurrent # 0 => concurrent' <= cf.max_concurrent
  BY <1>3, <1>4 DEF Search!First, Search!Capped, Search!Smaller, Search!None
<1>6. Proved!TypeOK'
  BY <1>3, <1>5, SameConf DEF Proved!TypeOK
<1>7. Proved!IInv'
  BY <1>3, <1>5, <1>6
     DEF Proved!IInv, Proved!WithinMax, Proved!Bracketed, Proved!BoundsAreResults,
         Proved!NextIsBetween, Proved!BestIsTight, Proved!failed, Proved!None
<1>8. QED
  BY <1>3, <1>7 DEF SearchInv

\* What a turn of the search adds: a concurrency and its verdict.
LEMMA TurnEffect ==
    ASSUME SearchInv, NEW valid \in BOOLEAN, Search!Turn(valid)
    PROVE  /\ SearchInv'
           /\ Search!Limited(concurrent) \in Nat \ {0}
           /\ Search!Limited(concurrent) \notin tested
           /\ tested' = tested \cup {Search!Limited(concurrent)}
           /\ passed' = IF valid THEN passed \cup {Search!Limited(concurrent)}
                                 ELSE passed
<1>1. Proved!Turn(valid)
  BY SameTurn
<1>2. SearchInv'
  BY <1>1, LimitAssumption, Proved!TurnPreservesIInv DEF SearchInv
<1>3. /\ pc = "search"
      /\ Search!Limited(concurrent) \notin tested
      /\ tested' = tested \cup {Search!Limited(concurrent)}
      /\ passed' = IF valid THEN passed \cup {Search!Limited(concurrent)}
                            ELSE passed
  BY DEF Search!Turn, Search!AlreadyTested, Search!TestedWith
<1>4. Search!Limited(concurrent) \in Nat \ {0}
  BY <1>2, <1>3 DEF SearchInv, Proved!IInv, Proved!TypeOK
<1>5. QED
  BY <1>2, <1>3, <1>4

LEMMA LeaveEffect ==
    ASSUME SearchInv, Search!Leave
    PROVE  SearchInv' /\ tested' = tested /\ passed' = passed
BY SameLeave, LimitAssumption, Proved!LeavePreservesIInv DEF SearchInv, Search!Leave

LEMMA UnchangedSearch ==
    ASSUME SearchInv, UNCHANGED searchVars
    PROVE  SearchInv'
BY DEF SearchInv, searchVars, Proved!IInv, Proved!TypeOK, Proved!WithinMax,
       Proved!Bracketed, Proved!BoundsAreResults, Proved!NextIsBetween,
       Proved!BestIsTight, Proved!failed

\* What the end of a search says of the verdicts.
LEMMA SearchResult ==
    ASSUME SearchInv, pc = "done"
    PROVE  /\ tested # {} /\ tested \subseteq Nat \ {0} /\ passed \subseteq tested
           /\ best \in Nat
           /\ best # 0 => best \in passed
           /\ best = 0 => passed = {}
<1>1. /\ tested \subseteq Nat \ {0} /\ passed \subseteq tested
      /\ best \in Nat /\ best = lower_bound
  BY DEF SearchInv, Proved!IInv, Proved!TypeOK, Proved!BoundsAreResults
<1>2. best # 0 => best \in passed
  BY DEF SearchInv, Proved!IInv, Proved!BestIsTight, Proved!None
<1>3. best = 0 => 1 \in tested
  BY DEF SearchInv, Proved!IInv, Proved!BestIsTight, Proved!None, Proved!failed
<1>4. best = 0 => passed = {}
  BY <1>1 DEF SearchInv, Proved!IInv, Proved!Bracketed
<1>5. QED
  BY <1>1, <1>2, <1>3, <1>4

\* Every set of concurrencies that is not empty has a smallest member.
LEMMA LessIsWellFounded ==
    IsWellFoundedOn({ss \in Nat \X Nat : ss[1] < ss[2]}, Nat)
BY NatLessThanWellFounded, Zenon DEF OpToRel

LEMMA LeastExists ==
    ASSUME NEW T \in SUBSET Nat, T # {}
    PROVE  \E m \in T : \A n \in T : m <= n
<1> DEFINE R == {ss \in Nat \X Nat : ss[1] < ss[2]}
<1>1. IsWellFoundedOn(R, Nat)
  BY LessIsWellFounded
<1> HIDE DEF R
<1>2. PICK x \in T : \A y \in T : ~(<<y, x>> \in R)
  BY <1>1, WFMin
<1>3. ASSUME NEW y \in T PROVE x <= y
  <2>1. x \in Nat /\ y \in Nat
    OBVIOUS
  <2>2. y < x => <<y, x>> \in R
    <3> DEFINE p == <<y, x>>
    <3>1. p \in Nat \X Nat /\ p[1] = y /\ p[2] = x
      BY <2>1
    <3> HIDE DEF p
    <3>2. y < x => p \in R
      BY <3>1 DEF R
    <3>3. QED
      BY <3>2 DEF p
  <2>3. ~(y < x)
    BY <1>2, <2>2
  <2>4. QED
    BY <2>1, <2>3
<1>4. QED
  BY <1>3

LEMMA FoundType ==
    ASSUME SearchInv, pc = "done"
    PROVE  /\ Found \in [concurrency : Nat, colour : {"green", "yellow"}]
           /\ Found.colour = "green" <=> best # 0
           /\ best # 0 => Found.concurrency = best
<1>1. CASE best # 0
  BY <1>1, SearchResult DEF Found, Search!None
<1>2. CASE best = 0
  <2> DEFINE least == CHOOSE c \in tested : \A d \in tested : c <= d
  <2>1. tested \in SUBSET Nat /\ tested # {}
    BY SearchResult
  <2>2. \E c \in tested : \A d \in tested : c <= d
    BY <2>1, LeastExists
  <2>3. least \in tested
    BY <2>2
  <2>4. Found = [concurrency |-> least, colour |-> "yellow"]
    BY <1>2 DEF Found, Search!None
  <2> HIDE DEF least
  <2>5. QED
    BY <1>2, <2>1, <2>3, <2>4
<1>3. QED
  BY <1>1, <1>2

-----------------------------------------------------------------------------
(* The host: the containers and who has the port.                          *)

Hosts == [containers : [Engines -> Cmds \cup {NoCmd, External}],
          port : Engines \cup {NoEngine}]

\* Whoever has the port runs.
HostCoherent(h) == /\ h \in Hosts
                   /\ h.port # NoEngine => h.containers[h.port] # NoCmd

LEMMA WithoutEffect ==
    ASSUME NEW e \in Engines, NEW h, HostCoherent(h)
    PROVE  /\ HostCoherent(Without(e, h))
           /\ \A d \in Engines : Without(e, h).containers[d] =
                                   IF d = e THEN NoCmd ELSE h.containers[d]
<1> DEFINE new  == [h.containers EXCEPT ![e] = NoCmd]
           port == IF h.port = e THEN NoEngine ELSE h.port
<1>1. /\ h.containers \in [Engines -> Cmds \cup {NoCmd, External}]
      /\ h.port \in Engines \cup {NoEngine}
      /\ h.port # NoEngine => h.containers[h.port] # NoCmd
  BY DEF HostCoherent, Hosts
<1>2. /\ new \in [Engines -> Cmds \cup {NoCmd, External}]
      /\ \A d \in Engines : new[d] = IF d = e THEN NoCmd ELSE h.containers[d]
  BY <1>1
<1>3. /\ port \in Engines \cup {NoEngine}
      /\ port # NoEngine => new[port] # NoCmd
  BY <1>1, <1>2
<1>4. Without(e, h) = [containers |-> new, port |-> port]
  BY DEF Without
<1> HIDE DEF new, port
<1>5. QED
  BY <1>2, <1>3, <1>4 DEF HostCoherent, Hosts

LEMMA WithEffect ==
    ASSUME NEW e \in Engines, NEW cmd \in Cmds, NEW h, HostCoherent(h)
    PROVE  /\ HostCoherent(With(e, cmd, h))
           /\ \A d \in Engines : With(e, cmd, h).containers[d] =
                                   IF d = e THEN cmd ELSE h.containers[d]
<1> DEFINE new  == [h.containers EXCEPT ![e] = cmd]
           port == IF h.port = NoEngine THEN e ELSE h.port
<1>1. /\ h.containers \in [Engines -> Cmds \cup {NoCmd, External}]
      /\ h.port \in Engines \cup {NoEngine}
      /\ h.port # NoEngine => h.containers[h.port] # NoCmd
  BY DEF HostCoherent, Hosts
<1>2. cmd # NoCmd
  BY RunAssumption
<1>3. /\ new \in [Engines -> Cmds \cup {NoCmd, External}]
      /\ \A d \in Engines : new[d] = IF d = e THEN cmd ELSE h.containers[d]
  BY <1>1
<1>4. /\ port \in Engines \cup {NoEngine}
      /\ port # NoEngine => new[port] # NoCmd
  BY <1>1, <1>2, <1>3
<1>5. With(e, cmd, h) = [containers |-> new, port |-> port]
  BY DEF With
<1> HIDE DEF new, port
<1>6. QED
  BY <1>3, <1>4, <1>5 DEF HostCoherent, Hosts

\* A stop leaves the other engines alone, and is trouble if it had no effect.
LEMMA StopEffect ==
    ASSUME NEW e \in Engines, HostCoherent(host), trouble \in BOOLEAN, StopModel(e)
    PROVE  /\ HostCoherent(host') /\ trouble' \in BOOLEAN
           /\ trouble => trouble'
           /\ trouble' \/ host'.containers[e] = NoCmd
           /\ host'.containers[e] \in {NoCmd, host.containers[e]}
           /\ \A d \in Engines \ {e} : host'.containers[d] = host.containers[d]
<1>1. CASE host' = host
  BY <1>1 DEF StopModel
<1>2. CASE host' = Without(e, host)
  BY <1>2, WithoutEffect DEF StopModel
<1>3. QED
  BY <1>1, <1>2 DEF StopModel

\* A start leaves the other engines alone; a success runs the command; a
\* failure that leaves a container is trouble.
LEMMA StartEffect ==
    ASSUME NEW e \in Engines, NEW cmd \in Cmds, NEW success \in BOOLEAN,
           HostCoherent(host), trouble \in BOOLEAN, StartModel(e, cmd, success)
    PROVE  /\ HostCoherent(host') /\ trouble' \in BOOLEAN
           /\ trouble => trouble'
           /\ success => host'.containers[e] = cmd /\ trouble' = trouble
           /\ ~success => trouble' \/ host'.containers[e] = NoCmd
           /\ \A d \in Engines \ {e} : host'.containers[d] = host.containers[d]
<1>1. PICK h \in Cleanup(e) :
         /\ \/ ~success /\ host' = h
            \/ h.containers[e] = NoCmd /\ host' = With(e, cmd, h)
         /\ trouble' = (trouble \/ (~success /\ host'.containers[e] # NoCmd))
  BY DEF StartModel
<1>2. /\ HostCoherent(h)
      /\ \A d \in Engines \ {e} : h.containers[d] = host.containers[d]
  BY WithoutEffect DEF Cleanup
<1>3. CASE ~success /\ host' = h
  BY <1>1, <1>2, <1>3
<1>4. CASE host' = With(e, cmd, h)
  <2>1. /\ HostCoherent(host')
        /\ \A d \in Engines : host'.containers[d] =
                               IF d = e THEN cmd ELSE h.containers[d]
    BY <1>2, <1>4, WithEffect
  <2>2. /\ trouble' \in BOOLEAN
        /\ trouble => trouble'
        /\ success => trouble' = trouble
        /\ ~success => trouble' \/ host'.containers[e] = NoCmd
    BY <1>1
  <2>3. /\ host'.containers[e] = cmd
        /\ \A d \in Engines \ {e} : host'.containers[d] = host.containers[d]
    BY <1>2, <2>1
  <2>4. QED
    BY <2>1, <2>2, <2>3
<1>5. QED
  BY <1>1, <1>3, <1>4

-----------------------------------------------------------------------------
(* Types, and where the run is.                                            *)

Places ==
    /\ bench_only \in BenchOnly
    /\ phase \in {"precheck", "context", "start", "health", "search"} =>
         group \in Groups
    /\ phase \in {"start", "health", "search"} => item \in DOMAIN Contexts
    /\ phase = "precheck" => bench_only /\ item = 1

ResultsColoured ==
    \A v \in Values : results[v] = NoResult \/ results[v].colour \in {"green", "yellow"}

RunInv == TypeOK /\ Places /\ ResultsColoured /\ SearchInv

LEMMA GroupsInRange ==
    ASSUME bench_only \in BenchOnly, NEW g \in Groups
    PROVE  /\ g \in DOMAIN EngineOf
           /\ EngineOf[g] \in Engines
           /\ g + 1 \in 1 .. Len(EngineOf) + 1
           /\ \A i \in DOMAIN Contexts : EffectiveCmd[g][i] \in Cmds
<1>1. /\ DOMAIN EngineOf = 1 .. Len(EngineOf) /\ Len(EngineOf) \in Nat
      /\ \A n \in 1 .. Len(EngineOf) : EngineOf[n] \in Engines
      /\ EngineOf # <<>> => Len(EngineOf) # 0
  BY RunAssumption
<1>2. g \in DOMAIN EngineOf
  <2>1. CASE bench_only
    <3>1. bench_only = TRUE
      BY <2>1, RunAssumption
    <3>2. EngineOf # <<>> /\ g \in 1 .. 1
      BY <2>1, <3>1, RunAssumption DEF Groups
    <3>3. QED
      BY <1>1, <3>2
  <2>2. CASE ~bench_only
    BY <2>2 DEF Groups
  <2>3. QED
    BY <2>1, <2>2
<1>3. QED
  BY <1>1, <1>2 DEF Cmds

LEMMA NextItem ==
    ASSUME NEW i \in DOMAIN Contexts
    PROVE  i + 1 \in 1 .. Len(Contexts) + 1 /\ Contexts[i].context \in Values
BY RunAssumption DEF Values

LEMMA AnsweringType ==
    ASSUME HostCoherent(host)
    PROVE  Answering \in Cmds \cup {NoCmd, External}
BY DEF HostCoherent, Hosts, Answering

\* The parts of TypeOK, by what the steps do to them.
ControlOK ==
    /\ bench_only \in BOOLEAN
    /\ phase \in {"command", "precheck", "context", "start", "health", "search",
                  "finished", "aborted"}
    /\ group \in 1 .. Len(EngineOf) + 1
    /\ item \in 1 .. Len(Contexts) + 1
    /\ running \in Cmds \cup {NoCmd}

ResultsOK == results \in [Values -> [concurrency : Nat,
                                     colour : {"none", "green", "yellow"}]]

BookOK ==
    /\ detail \in Seq(Row)
    /\ painted \subseteq [row : Nat, colour : {"green", "yellow"}]
    /\ summary \in Seq((DOMAIN EngineOf) \X (DOMAIN Contexts))
    /\ saved \in 0 .. Len(summary)

HostOK == HostCoherent(host) /\ trouble \in BOOLEAN

LEMMA TypeParts ==
    TypeOK <=> ControlOK /\ ResultsOK /\ BookOK /\ HostOK /\ Search!TypeOK
BY DEF TypeOK, ControlOK, ResultsOK, BookOK, HostOK, HostCoherent, Hosts

LEMMA InitRunInv == Init => RunInv
<1> SUFFICES ASSUME Init PROVE RunInv
  OBVIOUS
<1>1. SearchInv
  BY InitSearchInv
<1>2. ControlOK
  BY RunAssumption DEF Init, ControlOK
<1>3. ResultsOK /\ ResultsColoured
  BY DEF Init, ResultsOK, ResultsColoured, NoResult
<1>4. BookOK
  BY DEF Init, BookOK
<1>5. HostOK
  <2>1. HostCoherent(Empty)
    BY DEF HostCoherent, Hosts, Empty
  <2>2. ASSUME bench_only PROVE HostCoherent(ServedBy(EngineOf[1]))
    <3>1. EngineOf[1] \in Engines
      BY <2>2, GroupsInRange DEF Groups, Init
    <3>2. External # NoCmd
      BY RunAssumption
    <3> DEFINE new == [Empty.containers EXCEPT ![EngineOf[1]] = External]
    <3>3. /\ new \in [Engines -> Cmds \cup {NoCmd, External}]
          /\ new[EngineOf[1]] = External
      BY <3>1 DEF Empty
    <3>4. ServedBy(EngineOf[1]) = [containers |-> new, port |-> EngineOf[1]]
      BY DEF ServedBy
    <3> HIDE DEF new
    <3>5. QED
      BY <3>1, <3>2, <3>3, <3>4 DEF HostCoherent, Hosts
  <2>3. QED
    BY <2>1, <2>2 DEF Init, HostOK
<1>6. Places
  BY DEF Init, Places
<1>7. QED
  BY <1>1, <1>2, <1>3, <1>4, <1>5, <1>6, TypeParts, SameType
     DEF RunInv, SearchInv, Proved!IInv

LEMMA RunInvFromParts ==
    ASSUME ControlOK', ResultsOK', BookOK', HostOK', Places', ResultsColoured',
           SearchInv'
    PROVE  RunInv'
<1>1. Proved!TypeOK'
  BY DEF SearchInv, Proved!IInv
<1>2. Search!TypeOK'
  BY <1>1, SameConf DEF Search!TypeOK, Proved!TypeOK
<1>3. QED
  BY <1>2, TypeParts
     DEF RunInv, TypeOK, ControlOK, ResultsOK, BookOK, HostOK, HostCoherent, Hosts

LEMMA Parts ==
    ASSUME RunInv
    PROVE  /\ ControlOK /\ ResultsOK /\ BookOK /\ HostOK
           /\ Places /\ ResultsColoured /\ SearchInv
BY TypeParts DEF RunInv

\* A row is added to the detail sheet.
LEMMA DetailRow ==
    ASSUME BookOK, NEW r \in Row
    PROVE  /\ Append(detail, r) \in Seq(Row)
           /\ Len(Append(detail, r)) = Len(detail) + 1
           /\ \A n \in 1 .. Len(detail) : Append(detail, r)[n] = detail[n]
           /\ Append(detail, r)[Len(detail) + 1] = r
BY DEF BookOK

\* A context gets its row in the summary.
LEMMA SummaryRow ==
    ASSUME BookOK, NEW g \in DOMAIN EngineOf, NEW i \in DOMAIN Contexts
    PROVE  /\ Append(summary, <<g, i>>) \in Seq((DOMAIN EngineOf) \X (DOMAIN Contexts))
           /\ Len(Append(summary, <<g, i>>)) = Len(summary) + 1
           /\ \A n \in 1 .. Len(summary) : Append(summary, <<g, i>>)[n] = summary[n]
           /\ Append(summary, <<g, i>>)[Len(summary) + 1] = <<g, i>>
           /\ Len(summary) \in Nat
<1>1. PICK S : S = (DOMAIN EngineOf) \X (DOMAIN Contexts)
  OBVIOUS
<1>2. PICK p \in S : p = <<g, i>>
  BY <1>1
<1>3. summary \in Seq(S)
  BY <1>1 DEF BookOK
<1>4. /\ Append(summary, p) \in Seq(S)
      /\ Len(Append(summary, p)) = Len(summary) + 1
      /\ \A n \in 1 .. Len(summary) : Append(summary, p)[n] = summary[n]
      /\ Append(summary, p)[Len(summary) + 1] = p
      /\ Len(summary) \in Nat
  BY <1>2, <1>3
<1>5. QED
  BY <1>1, <1>2, <1>4

\* What a context that is given up leaves behind.
LEMMA GiveUpEffect ==
    ASSUME RunInv, phase \in {"start", "health"}, GiveUpContext
    PROVE  /\ ControlOK' /\ ResultsOK' /\ BookOK' /\ Places' /\ ResultsColoured'
           /\ SearchInv'
<1>1. /\ ControlOK /\ ResultsOK /\ BookOK /\ Places /\ ResultsColoured
      /\ SearchInv
  BY Parts
<1>2. item \in DOMAIN Contexts /\ group \in Groups /\ group \in DOMAIN EngineOf
  BY <1>1, GroupsInRange DEF Places
<1>3. Marker \in Row
  BY <1>2 DEF Marker, Row
<1>4. ControlOK' /\ Places'
  <2>1. item + 1 \in 1 .. Len(Contexts) + 1
    BY <1>2, NextItem
  <2>2. Groups' = Groups
    BY DEF GiveUpContext, Groups
  <2>3. QED
    BY <1>1, <1>2, <2>1, <2>2 DEF GiveUpContext, ControlOK, Places
<1>5. ResultsOK' /\ ResultsColoured'
  BY <1>1 DEF GiveUpContext, ResultsOK, ResultsColoured
<1>6. BookOK'
  <2>1. detail' \in Seq(Row)
    BY <1>1, <1>3, DetailRow DEF GiveUpContext
  <2>2. /\ summary' \in Seq((DOMAIN EngineOf) \X (DOMAIN Contexts))
        /\ saved' = Len(summary') /\ Len(summary') \in Nat
    BY <1>1, <1>2, SummaryRow DEF GiveUpContext
  <2>3. painted' = painted
    BY DEF GiveUpContext
  <2>4. QED
    BY <1>1, <2>1, <2>2, <2>3 DEF BookOK
<1>7. SearchInv'
  BY <1>1, UnchangedSearch DEF GiveUpContext
<1>8. QED
  BY <1>4, <1>5, <1>6, <1>7

\* The rows that highlight_best_rows paints.
LEMMA HighlightedType ==
    ASSUME RunInv
    PROVE  /\ \A v \in Values : Matching(v) # {} => FirstMatching(v) \in Matching(v)
           /\ Highlighted \subseteq [row : Nat, colour : {"green", "yellow"}]
<1>1. \A v \in Values : Matching(v) \in SUBSET Nat
  BY DEF Matching, Rows
<1>2. \A v \in Values : Matching(v) # {} => FirstMatching(v) \in Matching(v)
  <2>1. TAKE v \in Values
  <2>2. Matching(v) # {} =>
           \E r \in Matching(v) : \A n \in Matching(v) : r <= n
    BY <1>1, LeastExists
  <2>3. QED
    BY <2>2 DEF FirstMatching
<1>3. ASSUME NEW v \in Values, results[v] # NoResult, Matching(v) # {}
      PROVE  [row |-> FirstMatching(v), colour |-> results[v].colour]
               \in [row : Nat, colour : {"green", "yellow"}]
  <2>1. FirstMatching(v) \in Nat
    BY <1>1, <1>2, <1>3
  <2>2. results[v].colour \in {"green", "yellow"}
    BY <1>3 DEF RunInv, ResultsColoured
  <2>3. QED
    BY <2>1, <2>2
<1>4. Highlighted \subseteq [row : Nat, colour : {"green", "yellow"}]
  BY <1>3 DEF Highlighted
<1>5. QED
  BY <1>2, <1>4

LEMMA NextRunInv ==
    ASSUME RunInv, [Next]_vars
    PROVE  RunInv'
<1>0. /\ ControlOK /\ ResultsOK /\ BookOK /\ HostOK /\ Places /\ ResultsColoured
      /\ SearchInv
  BY Parts
<1> USE RunAssumption
<1>1. CASE BeginCommand
  <2>1. ControlOK' /\ Places'
    BY <1>0, <1>1 DEF BeginCommand, ControlOK, Places, Groups
  <2>2. ResultsOK' /\ ResultsColoured'
    BY <1>1 DEF BeginCommand, ResultsOK, ResultsColoured, NoResult
  <2>3. BookOK'
    BY <1>0, <1>1 DEF BeginCommand, BookOK
  <2>4. HostOK'
    BY <1>0, <1>1 DEF BeginCommand, HostOK, hostVars
  <2>5. SearchInv'
    BY <1>0, <1>1, UnchangedSearch DEF BeginCommand
  <2>6. QED
    BY <2>1, <2>2, <2>3, <2>4, <2>5, RunInvFromParts
<1>2. ASSUME NEW healthy \in BOOLEAN, Precheck(healthy)
      PROVE  RunInv'
  <2>1. group + 1 \in 1 .. Len(EngineOf) + 1
    BY <1>0, <1>2, GroupsInRange DEF Precheck, Places
  <2>2. ControlOK' /\ Places'
    BY <1>0, <1>2, <2>1 DEF Precheck, ControlOK, Places, Groups
  <2>3. ResultsOK' /\ ResultsColoured'
    BY <1>0, <1>2 DEF Precheck, ResultsOK, ResultsColoured
  <2>4. BookOK'
    BY <1>0, <1>2 DEF Precheck, BookOK
  <2>5. HostOK'
    BY <1>0, <1>2 DEF Precheck, HostOK, hostVars
  <2>6. SearchInv'
    BY <1>0, <1>2, UnchangedSearch DEF Precheck
  <2>7. QED
    BY <2>2, <2>3, <2>4, <2>5, <2>6, RunInvFromParts
<1>3. CASE KeepModel
  <2>1. ControlOK' /\ Places'
    BY <1>0, <1>3 DEF KeepModel, AtContext, ControlOK, Places, Groups
  <2>2. ResultsOK' /\ ResultsColoured'
    BY <1>0, <1>3 DEF KeepModel, ResultsOK, ResultsColoured
  <2>3. BookOK'
    BY <1>0, <1>3 DEF KeepModel, bookVars, BookOK
  <2>4. HostOK'
    BY <1>0, <1>3 DEF KeepModel, HostOK, hostVars
  <2>5. SearchInv'
    BY <1>3, BeginSearch DEF KeepModel, AtContext
  <2>6. QED
    BY <2>1, <2>2, <2>3, <2>4, <2>5, RunInvFromParts
<1>4. CASE ReplaceModel
  <2>1. ControlOK' /\ Places'
    BY <1>0, <1>4 DEF ReplaceModel, AtContext, ControlOK, Places, Groups
  <2>2. ResultsOK' /\ ResultsColoured'
    BY <1>0, <1>4 DEF ReplaceModel, ResultsOK, ResultsColoured
  <2>3. BookOK'
    BY <1>0, <1>4 DEF ReplaceModel, bookVars, BookOK
  <2>4. HostOK'
    <3>1. Engine \in Engines
      BY <1>0, <1>4, GroupsInRange DEF Engine, ReplaceModel, AtContext, Places
    <3>2. CASE running # NoCmd
      BY <1>0, <1>4, <3>1, <3>2, StopEffect DEF ReplaceModel, HostOK
    <3>3. CASE running = NoCmd
      BY <1>0, <1>4, <3>3 DEF ReplaceModel, HostOK, hostVars
    <3>4. QED
      BY <3>2, <3>3
  <2>5. SearchInv'
    BY <1>0, <1>4, UnchangedSearch DEF ReplaceModel
  <2>6. QED
    BY <2>1, <2>2, <2>3, <2>4, <2>5, RunInvFromParts
<1>5. CASE StartSucceeds \/ StartFails
  <2>1. HostOK'
    <3>1. Engine \in Engines /\ Effective \in Cmds
      BY <1>0, <1>5, GroupsInRange
         DEF Engine, Effective, StartSucceeds, StartFails, Places
    <3>2. \E success \in BOOLEAN : StartModel(Engine, Effective, success)
      BY <1>5 DEF StartSucceeds, StartFails
    <3>3. QED
      BY <1>0, <3>1, <3>2, StartEffect DEF HostOK
  <2>2. CASE StartSucceeds
    <3>1. ControlOK' /\ Places'
      BY <1>0, <2>2 DEF StartSucceeds, ControlOK, Places, Groups
    <3>2. ResultsOK' /\ ResultsColoured'
      BY <1>0, <2>2 DEF StartSucceeds, ResultsOK, ResultsColoured
    <3>3. BookOK'
      BY <1>0, <2>2 DEF StartSucceeds, bookVars, BookOK
    <3>4. SearchInv'
      BY <1>0, <2>2, UnchangedSearch DEF StartSucceeds
    <3>5. QED
      BY <2>1, <3>1, <3>2, <3>3, <3>4, RunInvFromParts
  <2>3. CASE StartFails
    BY <2>1, <2>3, GiveUpEffect, RunInvFromParts DEF StartFails
  <2>4. QED
    BY <1>5, <2>2, <2>3
<1>6. CASE HealthCheckPasses
  <2>1. ControlOK' /\ Places'
    <3>1. Effective \in Cmds
      BY <1>0, <1>6, GroupsInRange DEF Effective, HealthCheckPasses, Places
    <3>2. QED
      BY <1>0, <1>6, <3>1 DEF HealthCheckPasses, ControlOK, Places, Groups
  <2>2. ResultsOK' /\ ResultsColoured'
    BY <1>0, <1>6 DEF HealthCheckPasses, ResultsOK, ResultsColoured
  <2>3. BookOK'
    BY <1>0, <1>6 DEF HealthCheckPasses, bookVars, BookOK
  <2>4. HostOK'
    BY <1>0, <1>6 DEF HealthCheckPasses, HostOK, hostVars
  <2>5. SearchInv'
    BY <1>0, <1>6, BeginSearch DEF HealthCheckPasses, Places
  <2>6. QED
    BY <2>1, <2>2, <2>3, <2>4, <2>5, RunInvFromParts
<1>7. CASE HealthCheckFails
  <2>1. Engine \in Engines
    BY <1>0, <1>7, GroupsInRange DEF Engine, HealthCheckFails, Places
  <2>2. HostOK'
    BY <1>0, <1>7, <2>1, StopEffect DEF HealthCheckFails, HostOK
  <2>3. QED
    BY <1>7, <2>2, GiveUpEffect, RunInvFromParts DEF HealthCheckFails
<1>8. ASSUME NEW valid \in BOOLEAN, SearchTurn(valid)
      PROVE  RunInv'
  <2>1. ControlOK' /\ Places'
    BY <1>0, <1>8 DEF SearchTurn, ControlOK, Places, Groups
  <2>2. ResultsOK' /\ ResultsColoured'
    BY <1>0, <1>8 DEF SearchTurn, ResultsOK, ResultsColoured
  <2>3. SearchInv' /\ Search!Limited(concurrent) \in Nat
    BY <1>0, <1>8, TurnEffect DEF SearchTurn
  <2>4. BookOK'
    <3> DEFINE r == [item |-> item, concurrency |-> Search!Limited(concurrent),
                     passed |-> valid, cmd |-> Answering]
    <3>1. r \in Row
      BY <1>0, <1>8, <2>3, AnsweringType DEF Row, SearchTurn, Places, HostOK
    <3>2. detail' = Append(detail, r) /\ saved' = Len(summary)
          /\ UNCHANGED <<painted, summary>>
      BY <1>8 DEF SearchTurn, SavedSummary
    <3> HIDE DEF r
    <3>3. detail' \in Seq(Row)
      BY <1>0, <3>1, <3>2, DetailRow
    <3>4. QED
      BY <1>0, <3>2, <3>3 DEF BookOK
  <2>5. HostOK'
    BY <1>0, <1>8 DEF SearchTurn, HostOK, hostVars
  <2>6. QED
    BY <2>1, <2>2, <2>3, <2>4, <2>5, RunInvFromParts
<1>9. CASE LeaveSearch
  <2>1. ControlOK' /\ Places'
    BY <1>0, <1>9 DEF LeaveSearch, ControlOK, Places, Groups
  <2>2. ResultsOK' /\ ResultsColoured'
    BY <1>0, <1>9 DEF LeaveSearch, ResultsOK, ResultsColoured
  <2>3. BookOK'
    BY <1>0, <1>9 DEF LeaveSearch, bookVars, BookOK
  <2>4. HostOK'
    BY <1>0, <1>9 DEF LeaveSearch, HostOK, hostVars
  <2>5. SearchInv'
    BY <1>0, <1>9, LeaveEffect DEF LeaveSearch
  <2>6. QED
    BY <2>1, <2>2, <2>3, <2>4, <2>5, RunInvFromParts
<1>10. CASE SearchEnds
  <2>1. item \in DOMAIN Contexts /\ group \in Groups /\ group \in DOMAIN EngineOf
    BY <1>0, <1>10, GroupsInRange DEF Places, SearchEnds
  <2>2. ControlOK' /\ Places'
    <3>1. item + 1 \in 1 .. Len(Contexts) + 1
      BY <2>1, NextItem
    <3>2. QED
      BY <1>0, <1>10, <3>1 DEF SearchEnds, ControlOK, Places, Groups
  <2>3. ResultsOK' /\ ResultsColoured'
    <3>1. Found \in [concurrency : Nat, colour : {"green", "yellow"}]
      BY <1>0, <1>10, FoundType DEF SearchEnds
    <3>2. PICK f \in [concurrency : Nat, colour : {"green", "yellow"}] : f = Found
      BY <3>1
    <3>3. results' = [results EXCEPT ![Contexts[item].context] = f]
      BY <1>10, <3>2 DEF SearchEnds
    <3>4. Contexts[item].context \in Values
      BY <2>1, NextItem
    <3>5. f \in [concurrency : Nat, colour : {"none", "green", "yellow"}]
          /\ f.colour \in {"green", "yellow"}
      OBVIOUS
    <3>6. ResultsOK'
      BY <1>0, <3>3, <3>5 DEF ResultsOK
    <3>7. ResultsColoured'
      BY <1>0, <3>3, <3>4, <3>5 DEF ResultsOK, ResultsColoured
    <3>8. QED
      BY <3>6, <3>7
  <2>4. BookOK'
    <3>1. /\ summary' \in Seq((DOMAIN EngineOf) \X (DOMAIN Contexts))
          /\ Len(summary') = Len(summary) + 1 /\ Len(summary) \in Nat
      BY <1>0, <1>10, <2>1, SummaryRow DEF SearchEnds
    <3>2. UNCHANGED <<detail, painted, saved>>
      BY <1>10 DEF SearchEnds
    <3>3. saved' \in 0 .. Len(summary')
      BY <1>0, <3>1, <3>2 DEF BookOK
    <3>4. QED
      BY <1>0, <3>1, <3>2, <3>3 DEF BookOK
  <2>5. HostOK'
    BY <1>0, <1>10 DEF SearchEnds, HostOK, hostVars
  <2>6. SearchInv'
    <3>1. 1 \in DOMAIN Contexts
      OBVIOUS
    <3>2. QED
      BY <1>10, <3>1, BeginSearch DEF SearchEnds
  <2>7. QED
    BY <2>2, <2>3, <2>4, <2>5, <2>6, RunInvFromParts
<1>11. CASE CloseCommand
  <2>1. group \in Groups /\ Engine \in Engines
        /\ group + 1 \in 1 .. Len(EngineOf) + 1
    BY <1>0, <1>11, GroupsInRange DEF Places, CloseCommand, Engine
  <2>2. ControlOK' /\ Places'
    BY <1>0, <1>11, <2>1 DEF CloseCommand, ControlOK, Places
  <2>3. ResultsOK' /\ ResultsColoured'
    BY <1>0, <1>11 DEF CloseCommand, ResultsOK, ResultsColoured
  <2>4. BookOK'
    <3>1. /\ painted' = Highlighted /\ saved' = Len(summary)
          /\ UNCHANGED <<detail, summary>>
      BY <1>11 DEF CloseCommand
    <3>2. QED
      BY <1>0, <3>1, HighlightedType DEF BookOK
  <2>5. HostOK'
    <3>1. CASE running # NoCmd
      BY <1>0, <1>11, <2>1, <3>1, StopEffect DEF CloseCommand, FinalStop, HostOK
    <3>2. CASE running = NoCmd
      BY <1>0, <1>11, <3>2 DEF CloseCommand, FinalStop, HostOK, hostVars
    <3>3. QED
      BY <3>1, <3>2
  <2>6. SearchInv'
    BY <1>0, <1>11, UnchangedSearch DEF CloseCommand
  <2>7. QED
    BY <2>2, <2>3, <2>4, <2>5, <2>6, RunInvFromParts
<1>12. CASE FinishRun \/ Abort \/ UNCHANGED vars
  <2>1. ControlOK' /\ Places'
    BY <1>0, <1>12 DEF FinishRun, Abort, vars, ControlOK, Places, Groups
  <2>2. ResultsOK' /\ ResultsColoured'
    BY <1>0, <1>12 DEF FinishRun, Abort, vars, ResultsOK, ResultsColoured
  <2>3. BookOK'
    BY <1>0, <1>12 DEF FinishRun, Abort, vars, bookVars, BookOK
  <2>4. HostOK'
    BY <1>0, <1>12 DEF FinishRun, Abort, vars, HostOK, hostVars
  <2>5. SearchInv'
    BY <1>0, <1>12, UnchangedSearch DEF FinishRun, Abort, vars
  <2>6. QED
    BY <2>1, <2>2, <2>3, <2>4, <2>5, RunInvFromParts
<1>13. ASSUME NEW e \in Engines, ServiceDies(e)
       PROVE  RunInv'
  <2>1. ControlOK' /\ Places'
    BY <1>0, <1>13 DEF ServiceDies, ControlOK, Places, Groups
  <2>2. ResultsOK' /\ ResultsColoured'
    BY <1>0, <1>13 DEF ServiceDies, ResultsOK, ResultsColoured
  <2>3. BookOK'
    BY <1>0, <1>13 DEF ServiceDies, bookVars, BookOK
  <2>4. HostOK'
    BY <1>0, <1>13, WithoutEffect DEF ServiceDies, HostOK
  <2>5. SearchInv'
    BY <1>0, <1>13, UnchangedSearch DEF ServiceDies
  <2>6. QED
    BY <2>1, <2>2, <2>3, <2>4, <2>5, RunInvFromParts
<1>14. QED
  BY <1>1, <1>2, <1>3, <1>4, <1>5, <1>6, <1>7, <1>8, <1>9, <1>10, <1>11, <1>12,
     <1>13 DEF Next, RunStep

LEMMA RunInvariant == Spec => []RunInv
<1>1. RunInv /\ [Next]_vars => RunInv'
  BY NextRunInv
<1>2. QED
  BY InitRunInv, <1>1, PTL DEF Spec

\* Every variable keeps its type; in particular whoever has the port runs, and
\* nothing is saved that the summary does not hold.
THEOREM RunTypeCorrect == Spec => []TypeOK
<1>1. RunInv => TypeOK
  BY DEF RunInv
<1>2. QED
  BY <1>1, RunInvariant, PTL

-----------------------------------------------------------------------------
(* The rows of the summary and the file.                                   *)

\* A search leaves a row to save only after a benchmark has saved the others.
LEMMA NextFileLags ==
    ASSUME RunInv, FileLagsByOneRow, [Next]_vars
    PROVE  FileLagsByOneRow'
<1>0. /\ saved \in 0 .. Len(summary) /\ Len(summary) \in Nat
      /\ SearchInv /\ HostOK /\ Places
  BY TypeParts DEF RunInv, BookOK
<1>1. CASE BeginCommand
  BY <1>0, <1>1 DEF BeginCommand, FileLagsByOneRow
<1>2. ASSUME NEW healthy \in BOOLEAN, Precheck(healthy)
      PROVE  FileLagsByOneRow'
  BY <1>0, <1>2 DEF Precheck, FileLagsByOneRow
<1>3. CASE KeepModel \/ HealthCheckPasses
  <2>1. tested' = {}
    <3>1. item \in DOMAIN Contexts
      BY <1>0, <1>3 DEF KeepModel, AtContext, HealthCheckPasses, Places
    <3>2. QED
      BY <1>3, <3>1, BeginSearch DEF KeepModel, HealthCheckPasses
  <2>2. phase' = "search" /\ UNCHANGED <<summary, saved>>
    BY <1>3 DEF KeepModel, HealthCheckPasses, bookVars
  <2>3. QED
    BY <1>0, <2>1, <2>2 DEF FileLagsByOneRow
<1>4. CASE ReplaceModel \/ StartSucceeds
  BY <1>0, <1>4 DEF ReplaceModel, StartSucceeds, bookVars, FileLagsByOneRow
<1>5. CASE StartFails \/ HealthCheckFails
  <2>1. phase' = "context" /\ saved' = Len(summary')
        /\ summary' = Append(summary, <<group, item>>)
    BY <1>5 DEF StartFails, HealthCheckFails, GiveUpContext
  <2>2. Len(summary') \in Nat
    BY <1>0, <2>1, TypeParts DEF RunInv, BookOK
  <2>3. QED
    BY <2>1, <2>2 DEF FileLagsByOneRow
<1>6. ASSUME NEW valid \in BOOLEAN, SearchTurn(valid)
      PROVE  FileLagsByOneRow'
  BY <1>0, <1>6 DEF SearchTurn, SavedSummary, FileLagsByOneRow
<1>7. CASE LeaveSearch
  BY <1>0, <1>7, LeaveEffect DEF LeaveSearch, bookVars, FileLagsByOneRow
<1>8. CASE SearchEnds
  <2>1. saved = Len(summary)
    BY <1>0, <1>8, SearchResult DEF SearchEnds, FileLagsByOneRow
  <2>2. /\ phase' = "context" /\ saved' = saved
        /\ summary' = Append(summary, <<group, item>>)
    BY <1>8 DEF SearchEnds
  <2>3. Len(summary') = Len(summary) + 1
    BY <2>2, TypeParts DEF RunInv, BookOK
  <2>4. QED
    BY <1>0, <2>1, <2>2, <2>3 DEF FileLagsByOneRow
<1>9. CASE CloseCommand \/ FinishRun
  BY <1>0, <1>9 DEF CloseCommand, FinishRun, FileLagsByOneRow
<1>10. CASE Abort \/ UNCHANGED vars
  BY <1>0, <1>10 DEF Abort, vars, bookVars, searchVars, FileLagsByOneRow
<1>11. ASSUME NEW e \in Engines, ServiceDies(e)
       PROVE  FileLagsByOneRow'
  BY <1>0, <1>11 DEF ServiceDies, bookVars, searchVars, FileLagsByOneRow
<1>12. QED
  BY <1>1, <1>2, <1>3, <1>4, <1>5, <1>6, <1>7, <1>8, <1>9, <1>10, <1>11
     DEF Next, RunStep

\* Wherever the program ends, the file lacks at most the row of the search
\* that ended last; a benchmark, a failure and the end of a group save it.
THEOREM FileIsNearlyComplete == Spec => []FileLagsByOneRow
<1>1. Init => FileLagsByOneRow
  BY DEF Init, FileLagsByOneRow
<1>2. RunInv /\ FileLagsByOneRow /\ [Next]_vars => FileLagsByOneRow'
  BY NextFileLags
<1>3. QED
  BY <1>1, <1>2, RunInvariant, PTL DEF Spec

LEMMA DivisionOf ==
    ASSUME NEW N \in Nat \ {0}, NEW q \in Nat, NEW r \in 0 .. N - 1
    PROVE  (q * N + r) \div N = q /\ (q * N + r) % N = r
OBVIOUS

\* How many rows the groups before the nth have left.
Before(n) == (n - 1) * Len(Contexts)

LEMMA BeforeNext ==
    ASSUME NEW g \in Nat \ {0}
    PROVE  Before(g) \in Nat /\ Before(g + 1) = Before(g) + Len(Contexts)
<1>1. PICK N \in Nat : N = Len(Contexts)
  BY RunAssumption
<1>2. (g - 1) * N \in Nat /\ ((g + 1) - 1) * N = (g - 1) * N + N
  OBVIOUS
<1>3. QED
  BY <1>1, <1>2 DEF Before

Ordered(rows) ==
    \A k \in Rows(rows) :
        rows[k] = <<((k - 1) \div Len(Contexts)) + 1,
                    ((k - 1) % Len(Contexts)) + 1>>

\* The row of a context takes the place that its group and index say.
LEMMA NextRow ==
    ASSUME NEW g \in DOMAIN EngineOf, NEW i \in DOMAIN Contexts,
           NEW rows \in Seq((DOMAIN EngineOf) \X (DOMAIN Contexts)),
           Ordered(rows), Len(rows) = Before(g) + i - 1
    PROVE  /\ Ordered(Append(rows, <<g, i>>))
           /\ Len(Append(rows, <<g, i>>)) = Before(g) + (i + 1) - 1
<1> DEFINE more == Append(rows, <<g, i>>)
<1>1. PICK N \in Nat \ {0} : N = Len(Contexts)
  BY RunAssumption
<1>2. g \in Nat \ {0} /\ i \in 1 .. N
  BY <1>1, RunAssumption
<1>3. Before(g) \in Nat /\ Before(g) = (g - 1) * N
  BY <1>1, <1>2, BeforeNext DEF Before
<1>4. <<g, i>> \in (DOMAIN EngineOf) \X (DOMAIN Contexts)
  OBVIOUS
<1>5. /\ Len(more) = Len(rows) + 1 /\ more[Len(rows) + 1] = <<g, i>>
      /\ \A k \in 1 .. Len(rows) : more[k] = rows[k]
  BY <1>4
<1>6. ((g - 1) * N + (i - 1)) \div N = g - 1 /\ ((g - 1) * N + (i - 1)) % N = i - 1
  <2>1. g - 1 \in Nat /\ i - 1 \in 0 .. N - 1
    BY <1>2
  <2>2. QED
    BY <2>1, DivisionOf
<1> HIDE DEF more
<1>7. (Len(rows) + 1) - 1 = (g - 1) * N + (i - 1)
  BY <1>2, <1>3
<1>8. ASSUME NEW k \in 1 .. Len(rows) + 1
      PROVE  more[k] = <<((k - 1) \div N) + 1, ((k - 1) % N) + 1>>
  <2>1. CASE k = Len(rows) + 1
    <3>1. k - 1 = (g - 1) * N + (i - 1)
      BY <1>7, <2>1
    <3>2. (k - 1) \div N = g - 1 /\ (k - 1) % N = i - 1
      BY <1>6, <3>1
    <3>3. ((k - 1) \div N) + 1 = g /\ ((k - 1) % N) + 1 = i
      BY <1>2, <3>2
    <3>4. QED
      BY <1>5, <2>1, <3>3
  <2>2. CASE k # Len(rows) + 1
    <3>1. k \in 1 .. Len(rows)
      BY <2>2, <1>5
    <3>2. QED
      BY <1>1, <1>5, <3>1 DEF Ordered, Rows
  <2>3. QED
    BY <2>1, <2>2
<1>9. Len(more) = Before(g) + (i + 1) - 1
  BY <1>2, <1>3, <1>5
<1>10. QED
  BY <1>1, <1>5, <1>8, <1>9 DEF more, Ordered, Rows

\* Between two groups there are as many rows as the groups so far call for; a
\* precheck that fails leaves its rows out, but no group follows it.
Complete ==
    IF bench_only /\ group \notin Groups /\ item = 1
    THEN HealthFirst /\ summary = <<>>
    ELSE Len(summary) = Before(group)

RowsInv ==
    /\ Ordered(summary)
    /\ phase \in {"context", "start", "health", "search"} =>
         Len(summary) = Before(group) + item - 1
    /\ phase \in {"command", "precheck", "finished"} => Complete
    /\ phase = "precheck" => HealthFirst
    /\ phase = "finished" => group \notin Groups

LEMMA GiveUpRow ==
    ASSUME RunInv, RowsInv, phase \in {"start", "health"}, GiveUpContext
    PROVE  RowsInv'
<1>1. group \in DOMAIN EngineOf /\ item \in DOMAIN Contexts
      /\ Len(summary) = Before(group) + item - 1
  BY GroupsInRange DEF RunInv, Places, RowsInv
<1>2. summary \in Seq((DOMAIN EngineOf) \X (DOMAIN Contexts)) /\ Ordered(summary)
  BY TypeParts DEF RunInv, BookOK, RowsInv
<1>3. summary' = Append(summary, <<group, item>>) /\ item' = item + 1
      /\ phase' = "context" /\ group' = group
  BY DEF GiveUpContext
<1>4. Ordered(summary') /\ Len(summary') = Before(group') + item' - 1
  BY <1>1, <1>2, <1>3, NextRow DEF Before
<1>5. QED
  BY <1>3, <1>4 DEF RowsInv

LEMMA NextRowsInv ==
    ASSUME RunInv, RowsInv, [Next]_vars
    PROVE  RowsInv'
<1>0. /\ group \in 1 .. Len(EngineOf) + 1 /\ item \in 1 .. Len(Contexts) + 1
      /\ Len(EngineOf) \in Nat /\ Len(Contexts) \in Nat
      /\ summary \in Seq((DOMAIN EngineOf) \X (DOMAIN Contexts))
      /\ Places /\ group \in Nat \ {0}
  BY TypeParts, RunAssumption DEF RunInv, ControlOK, BookOK
<1>1. CASE BeginCommand
  <2>1. /\ phase = "command" /\ group \in Groups /\ item' = 1 /\ group' = group
        /\ summary' = summary /\ phase' \in {"precheck", "context"}
        /\ phase' = "precheck" => HealthFirst
        /\ bench_only' = bench_only
    BY <1>1 DEF BeginCommand
  <2>2. Before(group) \in Nat
    BY <1>0, BeforeNext
  <2>3. Len(summary) = Before(group) /\ Ordered(summary)
    BY <2>1 DEF RowsInv, Complete
  <2>4. Complete'
    BY <2>1, <2>3 DEF Complete, Before, Groups
  <2>5. QED
    BY <2>1, <2>2, <2>3, <2>4 DEF RowsInv, Before, Ordered, Rows
<1>2. ASSUME NEW healthy \in BOOLEAN, Precheck(healthy)
      PROVE  RowsInv'
  <2>1. /\ group \in Groups /\ Groups = 1 .. 1 /\ bench_only' = bench_only
        /\ phase = "precheck" /\ item' = item /\ summary' = summary
        /\ bench_only /\ item = 1
    BY <1>0, <1>2 DEF Precheck, Places, Groups
  <2>2. Len(summary) = Before(group) /\ Ordered(summary) /\ HealthFirst
    BY <2>1 DEF RowsInv, Complete
  <2>3. CASE phase' = "context" /\ group' = group
    <3>1. Before(group) \in Nat
      BY <1>0, BeforeNext
    <3>2. QED
      BY <2>1, <2>2, <2>3, <3>1 DEF RowsInv, Before, Ordered, Rows
  <2>4. CASE phase' = "command" /\ group' = group + 1
    <3>1. group' \notin Groups' /\ group = 1
      BY <2>1, <2>4 DEF Groups
    <3>2. summary = <<>>
      <4>1. Before(1) = 0
        BY RunAssumption DEF Before
      <4>2. QED
        BY <1>0, <2>2, <3>1, <4>1
    <3>3. Complete'
      BY <2>1, <2>2, <3>1, <3>2 DEF Complete
    <3>4. QED
      BY <2>1, <2>2, <2>4, <3>3 DEF RowsInv, Ordered, Rows
  <2>5. QED
    BY <1>2, <2>3, <2>4 DEF Precheck
<1>3. CASE KeepModel \/ ReplaceModel \/ StartSucceeds \/ HealthCheckPasses
  <2>1. /\ phase \in {"context", "start", "health"}
        /\ phase' \in {"start", "health", "search"}
        /\ UNCHANGED <<group, item, summary>>
    BY <1>3 DEF KeepModel, AtContext, ReplaceModel, StartSucceeds,
                HealthCheckPasses, bookVars
  <2>2. QED
    BY <2>1 DEF RowsInv, Before, Ordered, Rows
<1>4. CASE StartFails
  BY <1>4, GiveUpRow DEF StartFails
<1>5. CASE HealthCheckFails
  BY <1>5, GiveUpRow DEF HealthCheckFails
<1>6. CASE LeaveSearch \/ \E valid \in BOOLEAN : SearchTurn(valid)
  <2>1. phase = "search" /\ UNCHANGED <<phase, group, item, summary>>
    BY <1>6 DEF LeaveSearch, SearchTurn, bookVars
  <2>2. QED
    BY <2>1 DEF RowsInv, Before, Ordered, Rows
<1>7. CASE SearchEnds
  <2>1. group \in DOMAIN EngineOf /\ item \in DOMAIN Contexts
        /\ Len(summary) = Before(group) + item - 1 /\ Ordered(summary)
    BY <1>0, <1>7, GroupsInRange DEF Places, RowsInv, SearchEnds
  <2>2. summary' = Append(summary, <<group, item>>) /\ item' = item + 1
        /\ phase' = "context" /\ group' = group
    BY <1>7 DEF SearchEnds
  <2>3. Ordered(summary') /\ Len(summary') = Before(group') + item' - 1
    BY <1>0, <2>1, <2>2, NextRow DEF Before
  <2>4. QED
    BY <2>2, <2>3 DEF RowsInv
<1>8. CASE CloseCommand
  <2>1. phase = "context" /\ item \notin DOMAIN Contexts /\ phase' = "command"
        /\ group' = group + 1 /\ summary' = summary
    BY <1>8 DEF CloseCommand
  <2>2. item = Len(Contexts) + 1
    BY <1>0, <2>1, RunAssumption
  <2>3. Before(group) \in Nat /\ Before(group + 1) = Before(group) + Len(Contexts)
    BY <1>0, BeforeNext
  <2>4. Len(summary) = Before(group) + item - 1 /\ Ordered(summary)
    BY <2>1 DEF RowsInv
  <2>5. Len(summary) = Before(group + 1)
    BY <1>0, <2>2, <2>3, <2>4
  <2>6. item' # 1
    BY <1>0, <1>8, <2>2, RunAssumption DEF CloseCommand
  <2>7. Complete'
    BY <2>1, <2>5, <2>6 DEF Complete, Before
  <2>8. QED
    BY <2>1, <2>4, <2>7 DEF RowsInv, Ordered, Rows
<1>9. CASE FinishRun \/ Abort
  <2>1. /\ UNCHANGED <<bench_only, group, item, summary>>
        /\ \/ phase' = "aborted"
           \/ phase = "command" /\ group \notin Groups /\ phase' = "finished"
    BY <1>9 DEF FinishRun, Abort, bookVars
  <2>2. Complete' = Complete /\ Groups' = Groups
    BY <2>1 DEF Complete, Groups, Before
  <2>3. QED
    BY <2>1, <2>2 DEF RowsInv, Ordered, Rows
<1>10. CASE UNCHANGED vars \/ \E e \in Engines : ServiceDies(e)
  <2>1. UNCHANGED <<bench_only, phase, group, item, summary>>
    BY <1>10 DEF ServiceDies, vars, bookVars
  <2>2. Complete' = Complete /\ Groups' = Groups
    BY <2>1 DEF Complete, Groups, Before
  <2>3. QED
    BY <2>1, <2>2 DEF RowsInv, Before, Ordered, Rows
<1>11. QED
  BY <1>1, <1>2, <1>3, <1>4, <1>5, <1>6, <1>7, <1>8, <1>9, <1>10
     DEF Next, RunStep

\* Failed starts and health checks notwithstanding, the rows of the summary are
\* those of the contexts so far, one each and in their order, and in the end of
\* all contexts, unless the health check before a bench_only run failed.
THEOREM EveryContextIsReported == Spec => []OneSummaryRowEach
<1>1. Init => RowsInv
  <2> SUFFICES ASSUME Init PROVE RowsInv
    OBVIOUS
  <2>1. phase = "command" /\ group = 1 /\ summary = <<>>
    BY DEF Init
  <2>2. Before(1) = 0
    BY RunAssumption DEF Before
  <2>3. group \in Groups \/ ~bench_only
    BY <2>1 DEF Groups
  <2>4. QED
    BY <2>1, <2>2, <2>3 DEF RowsInv, Complete, Ordered, Rows
<1>2. RunInv /\ RowsInv /\ [Next]_vars => RowsInv'
  BY NextRowsInv
<1>3. RowsInv => OneSummaryRowEach
  BY DEF RowsInv, OneSummaryRowEach, Complete, Before, Ordered
<1>4. QED
  BY <1>1, <1>2, <1>3, RunInvariant, PTL DEF Spec

-----------------------------------------------------------------------------
(* The containers that are left.                                           *)

Idle(e) == host.containers[e] = NoCmd

\* As long as the commands that stop and start containers tell the truth, only
\* the engine of the group has one, and none when the next is to start.
TidyInv ==
    ~bench_only /\ ~trouble =>
        /\ phase \in {"command", "start", "finished"} => \A e \in Engines : Idle(e)
        /\ phase \in {"context", "health", "search"} =>
             \A e \in Engines \ {Engine} : Idle(e)
        /\ phase = "context" /\ running = NoCmd => \A e \in Engines : Idle(e)
        /\ phase = "search" => running # NoCmd

LEMMA NextTidyInv ==
    ASSUME RunInv, TidyInv, [Next]_vars
    PROVE  TidyInv'
<1>0. /\ bench_only \in BOOLEAN /\ trouble \in BOOLEAN /\ HostOK /\ Places
      /\ running \in Cmds \cup {NoCmd}
  BY TypeParts DEF RunInv, ControlOK, HostOK
<1> SUFFICES ASSUME ~bench_only', ~trouble' PROVE TidyInv'
  BY DEF TidyInv
<1>1. CASE BeginCommand
  <2>1. \A e \in Engines : Idle(e)
    BY <1>1 DEF BeginCommand, hostVars, TidyInv
  <2>2. phase' # "search" /\ host' = host
    BY <1>1 DEF BeginCommand, hostVars
  <2>3. QED
    BY <2>1, <2>2 DEF TidyInv, Idle
<1>2. ASSUME NEW healthy \in BOOLEAN, Precheck(healthy)
      PROVE  FALSE
  BY <1>0, <1>2 DEF Precheck, Places
<1>3. CASE KeepModel
  <2>1. /\ phase = "context" /\ phase' = "search" /\ running # NoCmd
        /\ UNCHANGED <<bench_only, group, running, host, trouble>>
    BY <1>3 DEF KeepModel, AtContext, RunningSuits, hostVars
  <2>2. QED
    BY <2>1 DEF TidyInv, Engine, Idle
<1>4. CASE ReplaceModel
  <2>1. /\ phase = "context" /\ phase' = "start" /\ Engine \in Engines
        /\ bench_only' = bench_only
    BY <1>0, <1>4, GroupsInRange DEF ReplaceModel, AtContext, Places, Engine
  <2>2. CASE running # NoCmd
    <3>1. StopModel(Engine)
      BY <1>4, <2>2 DEF ReplaceModel
    <3>2. /\ ~trouble /\ host'.containers[Engine] = NoCmd
          /\ \A d \in Engines \ {Engine} : host'.containers[d] = host.containers[d]
      BY <1>0, <2>1, <3>1, StopEffect DEF HostOK
    <3>3. \A d \in Engines \ {Engine} : Idle(d)
      BY <2>1, <3>2 DEF TidyInv
    <3>4. QED
      BY <2>1, <3>2, <3>3 DEF TidyInv, Idle
  <2>3. CASE running = NoCmd
    <3>1. host' = host /\ trouble' = trouble
      BY <1>4, <2>3 DEF ReplaceModel, hostVars
    <3>2. QED
      BY <2>1, <2>3, <3>1 DEF TidyInv, Idle
  <2>4. QED
    BY <2>2, <2>3
<1>5. CASE StartSucceeds
  <2>1. /\ phase = "start" /\ phase' = "health" /\ Engine \in Engines
        /\ UNCHANGED <<bench_only, group>>
        /\ Effective \in Cmds /\ StartModel(Engine, Effective, TRUE)
    BY <1>0, <1>5, GroupsInRange DEF StartSucceeds, Places, Engine, Effective
  <2>2. /\ ~trouble
        /\ \A d \in Engines \ {Engine} : host'.containers[d] = host.containers[d]
    BY <1>0, <2>1, StartEffect DEF HostOK
  <2>3. QED
    BY <2>1, <2>2 DEF TidyInv, Idle, Engine
<1>6. CASE StartFails
  <2>1. /\ phase = "start" /\ phase' = "context" /\ Engine \in Engines
        /\ UNCHANGED <<bench_only, group>>
        /\ Effective \in Cmds /\ StartModel(Engine, Effective, FALSE)
    BY <1>0, <1>6, GroupsInRange
       DEF StartFails, GiveUpContext, Places, Engine, Effective
  <2>2. /\ ~trouble /\ host'.containers[Engine] = NoCmd
        /\ \A d \in Engines \ {Engine} : host'.containers[d] = host.containers[d]
    BY <1>0, <2>1, StartEffect DEF HostOK
  <2>3. QED
    BY <2>1, <2>2 DEF TidyInv, Idle, Engine
<1>7. CASE HealthCheckPasses
  <2>1. /\ phase = "health" /\ phase' = "search" /\ running' = Effective
        /\ Effective # NoCmd
        /\ UNCHANGED <<bench_only, group, host, trouble>>
    BY <1>0, <1>7, GroupsInRange, RunAssumption
       DEF HealthCheckPasses, Places, Effective, hostVars
  <2>2. QED
    BY <2>1 DEF TidyInv, Engine, Idle
<1>8. CASE HealthCheckFails
  <2>1. /\ phase = "health" /\ phase' = "context" /\ Engine \in Engines
        /\ UNCHANGED <<bench_only, group>> /\ StopModel(Engine)
    BY <1>0, <1>8, GroupsInRange DEF HealthCheckFails, GiveUpContext, Places, Engine
  <2>2. /\ ~trouble /\ host'.containers[Engine] = NoCmd
        /\ \A d \in Engines \ {Engine} : host'.containers[d] = host.containers[d]
    BY <1>0, <2>1, StopEffect DEF HostOK
  <2>3. QED
    BY <2>1, <2>2 DEF TidyInv, Idle, Engine
<1>9. CASE LeaveSearch \/ \E valid \in BOOLEAN : SearchTurn(valid)
  <2>1. /\ phase = "search"
        /\ UNCHANGED <<bench_only, phase, group, running, host, trouble>>
    BY <1>9 DEF LeaveSearch, SearchTurn, hostVars
  <2>2. QED
    BY <2>1 DEF TidyInv, Engine, Idle
<1>10. CASE SearchEnds
  <2>1. /\ phase = "search" /\ phase' = "context"
        /\ UNCHANGED <<bench_only, group, running, host, trouble>>
    BY <1>10 DEF SearchEnds, hostVars
  <2>2. QED
    BY <2>1 DEF TidyInv, Engine, Idle
<1>11. CASE CloseCommand
  <2>1. /\ phase = "context" /\ phase' = "command" /\ Engine \in Engines
        /\ bench_only' = bench_only
    BY <1>0, <1>11, GroupsInRange DEF CloseCommand, Places, Engine
  <2>2. CASE running # NoCmd
    <3>1. StopModel(Engine)
      BY <1>11, <2>2 DEF CloseCommand, FinalStop
    <3>2. /\ ~trouble /\ host'.containers[Engine] = NoCmd
          /\ \A d \in Engines \ {Engine} : host'.containers[d] = host.containers[d]
      BY <1>0, <2>1, <3>1, StopEffect DEF HostOK
    <3>3. \A d \in Engines \ {Engine} : Idle(d)
      BY <2>1, <3>2 DEF TidyInv
    <3>4. QED
      BY <2>1, <3>2, <3>3 DEF TidyInv, Idle
  <2>3. CASE running = NoCmd
    <3>1. host' = host /\ trouble' = trouble
      BY <1>11, <2>3 DEF CloseCommand, FinalStop, hostVars
    <3>2. QED
      BY <2>1, <2>3, <3>1 DEF TidyInv, Idle
  <2>4. QED
    BY <2>2, <2>3
<1>12. CASE FinishRun
  <2>1. phase = "command" /\ phase' = "finished"
        /\ UNCHANGED <<bench_only, host, trouble>>
    BY <1>12 DEF FinishRun, hostVars
  <2>2. QED
    BY <2>1 DEF TidyInv, Idle
<1>13. CASE Abort
  BY <1>13 DEF Abort, TidyInv
<1>14. ASSUME NEW e \in Engines, ServiceDies(e)
       PROVE  TidyInv'
  <2>1. /\ \A d \in Engines : Idle(d) => Idle(d)'
        /\ UNCHANGED <<bench_only, phase, group, running, trouble>>
    BY <1>0, <1>14, WithoutEffect DEF ServiceDies, Idle, HostOK
  <2>2. QED
    BY <2>1 DEF TidyInv, Engine
<1>15. CASE UNCHANGED vars
  BY <1>15 DEF vars, hostVars, TidyInv, Engine, Idle
<1>16. QED
  BY <1>1, <1>2, <1>3, <1>4, <1>5, <1>6, <1>7, <1>8, <1>9, <1>10, <1>11, <1>12,
     <1>13, <1>14, <1>15 DEF Next, RunStep

\* A run that ends normally leaves no container, unless a command to stop or to
\* start one did not do what it reported.
THEOREM ContainersAreStopped == Spec => []LeavesNoContainer
<1>1. Init => TidyInv
  BY DEF Init, TidyInv, Idle, Empty
<1>2. RunInv /\ TidyInv /\ [Next]_vars => TidyInv'
  BY NextTidyInv
<1>3. TidyInv => LeavesNoContainer
  BY DEF TidyInv, LeavesNoContainer, Idle
<1>4. QED
  BY <1>1, <1>2, <1>3, RunInvariant, PTL DEF Spec

-----------------------------------------------------------------------------
(* What the rows were measured on, where the params of a command tell all    *)
(* of it (finding 3).                                                        *)

ParamsTellAll == \A c, d \in Cmds : c.params = d.params => c = d
OneEngine     == \A d, e \in Engines : d = e

\* Nobody but the engine of the group may answer (finding 4): there is no other
\* engine, or nothing that went wrong has left its container.
Alone == OneEngine \/ ~trouble

MeasuredInv ==
    ~bench_only /\ Alone =>
        /\ RecordedAsMeasured
        /\ phase = "context" /\ running # NoCmd =>
             host.containers[Engine] \in {NoCmd, running}
        /\ phase \in {"health", "search"} =>
             host.containers[Engine] \in {NoCmd, Effective}
        /\ phase = "search" => running = Effective

\* The engine of the group answers, or nobody does.
LEMMA OneAnswers ==
    ASSUME RunInv, TidyInv, ~bench_only, Alone,
           phase = "search" \/ phase = "health"
    PROVE  Answering \in {NoCmd, host.containers[Engine]}
<1>1. HostCoherent(host) /\ Engine \in Engines
  BY Parts, GroupsInRange DEF HostOK, Places, Engine
<1>2. CASE host.port = NoEngine
  BY <1>2 DEF Answering
<1>3. CASE host.port # NoEngine
  <2>1. /\ host.port \in Engines /\ host.containers[host.port] # NoCmd
        /\ Answering = host.containers[host.port]
    BY <1>1, <1>3 DEF HostCoherent, Hosts, Answering
  <2>2. host.port = Engine
    BY <1>1, <2>1 DEF Alone, OneEngine, TidyInv, Idle
  <2>3. QED
    BY <2>1, <2>2
<1>4. QED
  BY <1>2, <1>3

\* A row that was measured on what it is recorded under can be added.
LEMMA MeasuredRow ==
    ASSUME RunInv, ~bench_only, phase \in {"start", "health", "search"},
           RecordedAsMeasured, NEW r \in Row, r.item = item,
           r.cmd \in {NoCmd, Effective}, detail' = Append(detail, r),
           group' = group
    PROVE  RecordedAsMeasured'
<1>1. /\ Len(detail') = Len(detail) + 1 /\ Len(detail) \in Nat
      /\ \A n \in 1 .. Len(detail) : detail'[n] = detail[n]
      /\ detail'[Len(detail) + 1] = r
  BY Parts, DetailRow DEF BookOK
<1>2. ASSUME NEW n \in 1 .. Len(detail')
      PROVE  detail'[n].cmd \in {NoCmd, EffectiveCmd[group][detail'[n].item]}
  <2>1. CASE n = Len(detail) + 1
    BY <1>1, <2>1 DEF Effective
  <2>2. CASE n \in 1 .. Len(detail)
    BY <1>1, <2>2 DEF RecordedAsMeasured, Rows
  <2>3. QED
    BY <1>1, <2>1, <2>2
<1>3. QED
  BY <1>2 DEF RecordedAsMeasured, Rows

LEMMA NextMeasuredInv ==
    ASSUME ParamsTellAll, RunInv, TidyInv, MeasuredInv, [Next]_vars
    PROVE  MeasuredInv'
<1>0. /\ bench_only \in BOOLEAN /\ trouble \in BOOLEAN /\ HostOK /\ Places
      /\ running \in Cmds \cup {NoCmd}
  BY TypeParts DEF RunInv, ControlOK, HostOK
<1> SUFFICES ASSUME ~bench_only', Alone' PROVE MeasuredInv'
  BY DEF MeasuredInv
<1>1. CASE BeginCommand
  BY <1>1 DEF BeginCommand, MeasuredInv, RecordedAsMeasured, Rows
<1>2. ASSUME NEW healthy \in BOOLEAN, Precheck(healthy)
      PROVE  FALSE
  BY <1>0, <1>2 DEF Precheck, Places
<1>3. CASE KeepModel
  <2>1. /\ phase = "context" /\ phase' = "search" /\ running # NoCmd
        /\ UNCHANGED <<bench_only, group, item, running, detail, host, trouble>>
        /\ Equivalent(Effective, running)
        /\ Effective \in Cmds
    BY <1>0, <1>3, GroupsInRange
       DEF KeepModel, AtContext, RunningSuits, bookVars, hostVars, Places, Effective
  <2>2. running = Effective
    BY <1>0, <2>1 DEF ParamsTellAll, Equivalent
  <2>3. QED
    BY <2>1, <2>2 DEF MeasuredInv, Alone, Engine, Effective, RecordedAsMeasured, Rows
<1>4. CASE ReplaceModel
  <2>1. /\ phase = "context" /\ phase' = "start" /\ Engine \in Engines
        /\ UNCHANGED <<bench_only, group, detail>>
    BY <1>0, <1>4, GroupsInRange
       DEF ReplaceModel, AtContext, Places, Engine, bookVars
  <2>2. trouble => trouble'
    BY <1>0, <1>4, <2>1, StopEffect DEF ReplaceModel, HostOK, hostVars
  <2>3. RecordedAsMeasured
    BY <2>1, <2>2 DEF MeasuredInv, Alone
  <2>4. QED
    BY <2>1, <2>3 DEF MeasuredInv, RecordedAsMeasured, Rows
<1>5. CASE StartSucceeds
  <2>1. /\ phase = "start" /\ phase' = "health" /\ Engine \in Engines
        /\ UNCHANGED <<bench_only, group, item, detail>>
        /\ Effective \in Cmds /\ StartModel(Engine, Effective, TRUE)
    BY <1>0, <1>5, GroupsInRange
       DEF StartSucceeds, Places, Engine, Effective, bookVars
  <2>2. trouble' = trouble /\ host'.containers[Engine] = Effective
    BY <1>0, <2>1, StartEffect DEF HostOK
  <2>3. RecordedAsMeasured
    BY <2>1, <2>2 DEF MeasuredInv, Alone
  <2>4. QED
    BY <2>1, <2>2, <2>3
       DEF MeasuredInv, Engine, Effective, RecordedAsMeasured, Rows
<1>6. CASE StartFails \/ HealthCheckFails
  <2>1. /\ phase \in {"start", "health"} /\ phase' = "context" /\ running' = NoCmd
        /\ detail' = Append(detail, Marker)
        /\ UNCHANGED <<bench_only, group>>
        /\ Engine \in Engines /\ Effective \in Cmds /\ item \in DOMAIN Contexts
    BY <1>0, <1>6, GroupsInRange
       DEF StartFails, HealthCheckFails, GiveUpContext, Places, Engine, Effective
  <2>2. trouble => trouble'
    BY <1>0, <1>6, <2>1, StartEffect, StopEffect
       DEF StartFails, HealthCheckFails, HostOK
  <2>3. RecordedAsMeasured
    BY <2>1, <2>2 DEF MeasuredInv, Alone
  <2>4. Marker \in Row /\ Marker.item = item /\ Marker.cmd = NoCmd
    BY <2>1 DEF Marker, Row
  <2>5. RecordedAsMeasured'
    BY <2>1, <2>3, <2>4, MeasuredRow
  <2>6. QED
    BY <2>1, <2>5 DEF MeasuredInv
<1>7. CASE HealthCheckPasses
  <2>1. /\ phase = "health" /\ phase' = "search" /\ running' = Effective
        /\ UNCHANGED <<bench_only, group, item, detail, host, trouble>>
    BY <1>7 DEF HealthCheckPasses, bookVars, hostVars
  <2>2. QED
    BY <2>1 DEF MeasuredInv, Alone, Engine, Effective, RecordedAsMeasured, Rows
<1>8. ASSUME NEW valid \in BOOLEAN, SearchTurn(valid)
      PROVE  MeasuredInv'
  <2> DEFINE r == [item |-> item, concurrency |-> Search!Limited(concurrent),
                   passed |-> valid, cmd |-> Answering]
  <2>1. /\ phase = "search" /\ detail' = Append(detail, r)
        /\ UNCHANGED <<bench_only, phase, group, item, running, host, trouble>>
        /\ Search!Turn(valid)
    BY <1>8 DEF SearchTurn, hostVars
  <2>2. Answering \in {NoCmd, Effective}
    BY <2>1, OneAnswers DEF MeasuredInv, Alone
  <2>3. r \in Row /\ r.item = item /\ r.cmd = Answering
    <3>1. Search!Limited(concurrent) \in Nat
      BY <2>1, Parts, TurnEffect
    <3>2. QED
      BY <1>0, <2>1, <3>1, AnsweringType DEF Row, Places, HostOK
  <2> HIDE DEF r
  <2>4. RecordedAsMeasured'
    BY <2>1, <2>2, <2>3, MeasuredRow DEF MeasuredInv, Alone
  <2>5. QED
    BY <2>1, <2>4 DEF MeasuredInv, Alone, Engine, Effective
<1>9. CASE LeaveSearch
  <2>1. UNCHANGED <<bench_only, phase, group, item, running, detail, host, trouble>>
    BY <1>9 DEF LeaveSearch, hostVars, bookVars
  <2>2. QED
    BY <2>1 DEF MeasuredInv, Alone, Engine, Effective, RecordedAsMeasured, Rows
<1>10. CASE SearchEnds
  <2>1. /\ phase = "search" /\ phase' = "context"
        /\ UNCHANGED <<bench_only, group, running, detail, host, trouble>>
    BY <1>10 DEF SearchEnds, hostVars
  <2>2. QED
    BY <2>1 DEF MeasuredInv, Alone, Engine, Effective, RecordedAsMeasured, Rows
<1>11. CASE CloseCommand \/ FinishRun \/ Abort
  BY <1>11
     DEF CloseCommand, FinishRun, Abort, MeasuredInv, RecordedAsMeasured
<1>12. ASSUME NEW e \in Engines, ServiceDies(e)
       PROVE  MeasuredInv'
  <2>1. /\ \A d \in Engines : host'.containers[d] \in {NoCmd, host.containers[d]}
        /\ UNCHANGED <<bench_only, phase, group, item, running, detail, trouble>>
    BY <1>0, <1>12, WithoutEffect DEF ServiceDies, HostOK, bookVars
  <2>2. phase \in {"context", "health", "search"} => Engine \in Engines
    BY <1>0, GroupsInRange DEF Places, Engine
  <2>3. QED
    BY <2>1, <2>2 DEF MeasuredInv, Alone, Engine, Effective, RecordedAsMeasured, Rows
<1>13. CASE UNCHANGED vars
  BY <1>13 DEF vars, hostVars, bookVars, MeasuredInv, Alone, Engine, Effective,
               RecordedAsMeasured, Rows
<1>14. QED
  BY <1>1, <1>2, <1>3, <1>4, <1>5, <1>6, <1>7, <1>8, <1>9, <1>10, <1>11, <1>12,
     <1>13 DEF Next, RunStep

LEMMA MeasuredInvariant ==
    ASSUME ParamsTellAll
    PROVE  Spec => []MeasuredInv
<1>1. Init => TidyInv /\ MeasuredInv
  BY DEF Init, TidyInv, Idle, Empty, MeasuredInv, RecordedAsMeasured
<1>2. RunInv /\ TidyInv /\ [Next]_vars => TidyInv'
  BY NextTidyInv
<1>3. RunInv /\ TidyInv /\ MeasuredInv /\ [Next]_vars => MeasuredInv'
  BY NextMeasuredInv
<1>4. QED
  BY <1>1, <1>2, <1>3, RunInvariant, PTL DEF Spec

\* With one engine and commands that their params tell apart, every row was
\* measured on the model it is recorded under, whatever fails or dies.
THEOREM RowsAreMeasured ==
    ASSUME ParamsTellAll, OneEngine
    PROVE  Spec => []RecordedAsMeasured
<1>1. RunInv /\ MeasuredInv => RecordedAsMeasured
  BY DEF MeasuredInv, Alone, RecordedAsMeasured
<1>2. QED
  BY <1>1, RunInvariant, MeasuredInvariant, PTL

\* With several engines that holds as long as no stop has failed and no failed
\* start has left a container.
THEOREM RowsAreMeasuredWithoutTrouble ==
    ASSUME ParamsTellAll
    PROVE  Spec => [](~trouble => RecordedAsMeasured)
<1>1. RunInv /\ MeasuredInv => (~trouble => RecordedAsMeasured)
  BY DEF MeasuredInv, Alone, RecordedAsMeasured
<1>2. QED
  BY <1>1, RunInvariant, MeasuredInvariant, PTL

-----------------------------------------------------------------------------
(* What the colours mean, where every context has a value of its own         *)
(* (finding 5).                                                              *)

DistinctContexts ==
    \A i, j \in DOMAIN Contexts : Contexts[i].context = Contexts[j].context => i = j

Shown(i) == results[Contexts[i].context]

\* A row that shows the result of its context shows the verdict of its colour.
RowTrue(r) ==
    Shown(r.item) # NoResult /\ r.concurrency = Shown(r.item).concurrency =>
        (r.passed <=> Shown(r.item).colour = "green")

\* The rows of the search that goes on are its verdicts.
RowTested(r) ==
    phase = "search" /\ r.item = item =>
        r.concurrency \in tested /\ (r.passed <=> r.concurrency \in passed)

RowInv(r) == /\ r.item <= item
             /\ phase # "search" => r.item < item
             /\ RowTrue(r)
             /\ RowTested(r)

ColourInv ==
    /\ phase = "precheck" => detail = <<>> /\ painted = {}
                             /\ \A v \in Values : results[v] = NoResult
    /\ phase \in {"context", "start", "health", "search"} =>
         /\ painted = {}
         /\ \A i \in DOMAIN Contexts : i >= item => Shown(i) = NoResult
         /\ \A n \in Rows(detail) : RowInv(detail[n])

\* A verdict on a row that is still true after the step.
StillTested(r) == r.concurrency \in tested' /\ (r.passed <=> r.concurrency \in passed')

\* A new row of a context without a result is added to the others.
LEMMA ColouredRow ==
    ASSUME RunInv, ColourInv, phase \in {"start", "health", "search"},
           NEW r \in Row, r.item = item, detail' = Append(detail, r),
           UNCHANGED <<painted, results>>,
           \/ phase' = "context" /\ item' = item + 1
           \/ /\ phase' = "search" /\ item' = item
              /\ StillTested(r)
              /\ \A n \in Rows(detail) :
                   detail[n].item = item => StillTested(detail[n])
    PROVE  ColourInv'
<1>1. /\ Len(detail') = Len(detail) + 1 /\ Len(detail) \in Nat
      /\ \A n \in 1 .. Len(detail) : detail'[n] = detail[n]
      /\ detail'[Len(detail) + 1] = r
  BY Parts, DetailRow DEF BookOK
<1>2. item \in DOMAIN Contexts /\ item \in Nat
  BY Parts, RunAssumption DEF Places, ControlOK
<1>3. ASSUME NEW n \in 1 .. Len(detail')
      PROVE  RowInv(detail[n])'
  <2>1. CASE n = Len(detail) + 1
    <3>1. detail'[n] = r
      BY <1>1, <2>1
    <3>2. r.item <= item' /\ (phase' # "search" => r.item < item')
      BY <1>2
    <3>3. RowTrue(detail[n])'
      BY <1>2, <3>1 DEF RowTrue, Shown, ColourInv
    <3>4. RowTested(detail[n])'
      BY <3>1 DEF RowTested, StillTested
    <3>5. QED
      BY <3>1, <3>2, <3>3, <3>4 DEF RowInv
  <2>2. CASE n \in 1 .. Len(detail)
    <3>1. RowInv(detail[n]) /\ detail'[n] = detail[n]
      BY <1>1, <2>2 DEF ColourInv, Rows
    <3>2. detail[n] \in Row /\ detail[n].item \in Nat
      <4>1. detail \in Seq(Row)
        BY Parts DEF BookOK
      <4>2. detail[n] \in Row
        BY <2>2, <4>1
      <4>3. QED
        BY <4>2, RunAssumption DEF Row
    <3>3. detail[n].item <= item' /\ (phase' # "search" => detail[n].item < item')
      BY <1>2, <3>1, <3>2 DEF RowInv
    <3>4. RowTrue(detail[n])'
      BY <3>1 DEF RowInv, RowTrue, Shown
    <3>5. RowTested(detail[n])'
      BY <2>2, <3>1 DEF RowTested, StillTested, Rows
    <3>6. QED
      BY <3>1, <3>3, <3>4, <3>5 DEF RowInv
  <2>3. QED
    BY <1>1, <2>1, <2>2
<1>4. \A i \in DOMAIN Contexts : i >= item' => Shown(i)' = NoResult
  <2>1. ASSUME NEW i \in DOMAIN Contexts, i >= item'
        PROVE  Shown(i)' = NoResult
    <3>1. i \in Nat
      <4>1. DOMAIN Contexts = 1 .. Len(Contexts) /\ Len(Contexts) \in Nat
        BY RunAssumption
      <4>2. QED
        BY <4>1
    <3>2. i >= item
      BY <1>2, <2>1, <3>1
    <3>3. Shown(i) = NoResult
      BY <3>2 DEF ColourInv
    <3>4. QED
      BY <3>3 DEF Shown
  <2>2. QED
    BY <2>1
<1>5. painted' = {}
  BY DEF ColourInv
<1>6. phase' # "precheck"
  OBVIOUS
<1>7. QED
  BY <1>3, <1>4, <1>5, <1>6 DEF ColourInv, Rows

\* Where neither rows nor results change, the search may begin.
LEMMA KeptRows ==
    ASSUME RunInv, ColourInv, phase \in {"context", "start", "health", "search"},
           phase' \in {"start", "health", "search"}, phase # "search" \/ phase' = "search",
           UNCHANGED <<item, detail, painted, results>>,
           phase = "search" => UNCHANGED <<tested, passed>>
    PROVE  ColourInv'
<1>1. item \in Nat /\ detail \in Seq(Row)
  BY Parts, RunAssumption DEF ControlOK, BookOK
<1>2. ASSUME NEW n \in Rows(detail)
      PROVE  RowInv(detail[n])'
  <2>1. RowInv(detail[n])
    BY <1>2 DEF ColourInv
  <2>2. detail[n].item \in Nat
    <3>1. detail[n] \in Row
      BY <1>1, <1>2 DEF Rows
    <3>2. QED
      BY <3>1, RunAssumption DEF Row
  <2>3. CASE phase = "search"
    <3>1. phase' = "search"
      BY <2>3
    <3>2. QED
      BY <2>1, <2>3, <3>1 DEF RowInv, RowTrue, RowTested, Shown
  <2>4. CASE phase # "search"
    <3>1. detail[n].item < item
      BY <2>1, <2>4 DEF RowInv
    <3>2. detail[n].item # item /\ detail[n].item <= item
      BY <1>1, <2>2, <3>1
    <3>3. QED
      BY <2>1, <3>1, <3>2 DEF RowInv, RowTrue, RowTested, Shown
  <2>5. QED
    BY <2>3, <2>4
<1>3. phase' # "precheck"
  OBVIOUS
<1>4. QED
  BY <1>2, <1>3 DEF ColourInv, Shown, Rows

\* The end of a search gives its context a result that its rows agree with.
LEMMA SearchEndsColour ==
    ASSUME DistinctContexts, RunInv, ColourInv, SearchEnds
    PROVE  ColourInv'
<1>1. /\ item \in DOMAIN Contexts /\ item \in Nat
      /\ results \in [Values -> [concurrency : Nat,
                                 colour : {"none", "green", "yellow"}]]
      /\ detail \in Seq(Row)
      /\ \A i \in DOMAIN Contexts : i \in Nat /\ Contexts[i].context \in Values
  <2>1. item \in DOMAIN Contexts /\ item \in Nat
    BY Parts, NextItem DEF SearchEnds, Places, ControlOK
  <2>2. results \in [Values -> [concurrency : Nat,
                                colour : {"none", "green", "yellow"}]]
    BY Parts DEF ResultsOK
  <2>3. detail \in Seq(Row)
    BY Parts DEF BookOK
  <2>4. \A i \in DOMAIN Contexts : i \in Nat
    <3>1. Len(Contexts) \in Nat /\ DOMAIN Contexts = 1 .. Len(Contexts)
      BY RunAssumption
    <3>2. QED
      BY <3>1
  <2>5. \A i \in DOMAIN Contexts : Contexts[i].context \in Values
    BY DEF Values
  <2>6. QED
    BY <2>1, <2>2, <2>3, <2>4, <2>5
<1>2. /\ phase = "search" /\ phase' = "context" /\ item' = item + 1
      /\ results' = [results EXCEPT ![Contexts[item].context] = Found]
      /\ UNCHANGED <<detail, painted>>
      /\ pc = "done"
  BY DEF SearchEnds
<1>3. results'[Contexts[item].context] = Found
  BY <1>1, <1>2
<1>4. \A i \in DOMAIN Contexts : i # item => Shown(i)' = Shown(i)
  BY <1>1, <1>2 DEF Shown, DistinctContexts
<1>5. ASSUME NEW n \in Rows(detail)
      PROVE  RowInv(detail[n])'
  <2>1. RowInv(detail[n])
    BY <1>2, <1>5 DEF ColourInv
  <2>2. detail[n].item \in DOMAIN Contexts /\ detail[n].item \in Nat
    <3>1. detail[n] \in Row
      BY <1>1, <1>5 DEF Rows
    <3>2. QED
      BY <1>1, <3>1 DEF Row
  <2>3. detail[n].item <= item' /\ detail[n].item < item'
    BY <1>1, <1>2, <2>1, <2>2 DEF RowInv
  <2>4. RowTrue(detail[n])'
    <3>1. CASE detail[n].item = item
      <4>1. /\ detail[n].concurrency \in tested
            /\ detail[n].passed <=> detail[n].concurrency \in passed
        BY <1>2, <2>1, <3>1 DEF RowInv, RowTested
      <4>2. CASE best # 0
        <5>1. /\ best \in passed
              /\ Found.colour = "green" /\ Found.concurrency = best
          BY <1>2, <4>2, Parts, SearchResult, FoundType
        <5>2. QED
          BY <1>2, <1>3, <3>1, <4>1, <5>1 DEF RowTrue, Shown
      <4>3. CASE best = 0
        <5>1. passed = {} /\ Found.colour # "green"
          BY <1>2, <4>3, Parts, SearchResult, FoundType
        <5>2. QED
          BY <1>2, <1>3, <3>1, <4>1, <5>1 DEF RowTrue, Shown
      <4>4. QED
        BY <4>2, <4>3
    <3>2. CASE detail[n].item # item
      <4>1. RowTrue(detail[n])
        BY <2>1 DEF RowInv
      <4>2. Shown(detail[n].item)' = Shown(detail[n].item)
        BY <1>2, <1>4, <2>2, <3>2 DEF Shown
      <4>3. QED
        BY <1>2, <4>1, <4>2 DEF RowTrue, Shown
    <3>3. QED
      BY <3>1, <3>2
  <2>5. RowTested(detail[n])'
    BY <1>2 DEF RowTested
  <2>6. QED
    BY <1>2, <2>3, <2>4, <2>5 DEF RowInv
<1>6. ASSUME NEW i \in DOMAIN Contexts, i >= item'
      PROVE  Shown(i)' = NoResult
  <2>1. i \in Nat /\ i # item /\ i >= item
    BY <1>1, <1>2, <1>6
  <2>2. Shown(i) = NoResult
    BY <1>2, <2>1 DEF ColourInv
  <2>3. QED
    BY <1>4, <2>1, <2>2
<1>7. painted' = {} /\ phase' # "precheck" /\ Rows(detail') = Rows(detail)
  BY <1>2 DEF ColourInv
<1>8. QED
  BY <1>5, <1>6, <1>7 DEF ColourInv, Shown, Rows

LEMMA NextColourInv ==
    ASSUME DistinctContexts, RunInv, ColourInv, [Next]_vars
    PROVE  ColourInv'
<1>0. /\ ControlOK /\ Places /\ SearchInv /\ BookOK /\ HostOK
      /\ \A i \in DOMAIN Contexts : Contexts[i].context \in Values
      /\ detail \in Seq(Row)
  BY Parts, NextItem DEF BookOK
<1>1. CASE BeginCommand
  <2>1. /\ detail' = <<>> /\ painted' = {} /\ \A v \in Values : results'[v] = NoResult
        /\ phase' \in {"precheck", "context"}
    BY <1>1 DEF BeginCommand
  <2>2. Rows(detail') = {}
    BY <2>1 DEF Rows
  <2>3. QED
    BY <1>0, <2>1, <2>2 DEF ColourInv, Shown
<1>2. ASSUME NEW healthy \in BOOLEAN, Precheck(healthy)
      PROVE  ColourInv'
  <2>1. /\ detail = <<>> /\ painted = {} /\ \A v \in Values : results[v] = NoResult
        /\ UNCHANGED <<detail, painted, results>>
        /\ phase' # "precheck"
    BY <1>2 DEF Precheck, ColourInv
  <2>2. Rows(detail') = {}
    BY <2>1 DEF Rows
  <2>3. QED
    BY <1>0, <2>1, <2>2 DEF ColourInv, Shown
<1>3. CASE KeepModel \/ ReplaceModel \/ StartSucceeds \/ HealthCheckPasses
  <2>1. /\ phase \in {"context", "start", "health"}
        /\ phase' \in {"start", "health", "search"}
        /\ UNCHANGED <<item, detail, painted, results>>
    BY <1>3 DEF KeepModel, AtContext, ReplaceModel, StartSucceeds,
                HealthCheckPasses, bookVars
  <2>2. QED
    BY <2>1, KeptRows
<1>4. CASE StartFails \/ HealthCheckFails
  <2>1. /\ phase \in {"start", "health"} /\ phase' = "context" /\ item' = item + 1
        /\ detail' = Append(detail, Marker)
        /\ UNCHANGED <<painted, results>>
    BY <1>4 DEF StartFails, HealthCheckFails, GiveUpContext
  <2>2. Marker \in Row /\ Marker.item = item
    BY <1>0, <2>1 DEF Marker, Row, Places
  <2>3. QED
    BY <2>1, <2>2, ColouredRow
<1>5. ASSUME NEW valid \in BOOLEAN, SearchTurn(valid)
      PROVE  ColourInv'
  <2> DEFINE c == Search!Limited(concurrent)
             r == [item |-> item, concurrency |-> c, passed |-> valid,
                   cmd |-> Answering]
  <2>1. /\ phase = "search" /\ detail' = Append(detail, r)
        /\ UNCHANGED <<phase, item, painted, results>>
        /\ Search!Turn(valid)
    BY <1>5 DEF SearchTurn
  <2>2. /\ c \in Nat \ {0} /\ c \notin tested
        /\ tested' = tested \cup {c}
        /\ passed' = IF valid THEN passed \cup {c} ELSE passed
    BY <1>0, <2>1, TurnEffect
  <2>3. passed \subseteq tested
    BY <1>0 DEF SearchInv, Proved!IInv, Proved!TypeOK
  <2> HIDE DEF c
  <2>4. /\ r \in Row /\ r.item = item /\ r.concurrency = c /\ r.passed = valid
    BY <1>0, <2>1, <2>2, AnsweringType DEF Row, Places, HostOK
  <2> HIDE DEF r
  <2>5. StillTested(r)
    BY <2>2, <2>3, <2>4 DEF StillTested
  <2>6. ASSUME NEW n \in Rows(detail), detail[n].item = item
        PROVE  StillTested(detail[n])
    <3>1. /\ detail[n].concurrency \in tested
          /\ detail[n].passed <=> detail[n].concurrency \in passed
      BY <2>1, <2>6 DEF ColourInv, RowInv, RowTested
    <3>2. QED
      BY <2>2, <3>1 DEF StillTested
  <2>7. QED
    BY <2>1, <2>4, <2>5, <2>6, ColouredRow
<1>6. CASE LeaveSearch
  <2>1. /\ phase = "search" /\ phase' = "search"
        /\ UNCHANGED <<item, detail, painted, results>>
        /\ tested' = tested /\ passed' = passed
    BY <1>0, <1>6, LeaveEffect DEF LeaveSearch, bookVars
  <2>2. QED
    BY <2>1, KeptRows
<1>7. CASE SearchEnds
  BY <1>7, SearchEndsColour
<1>8. CASE CloseCommand \/ FinishRun \/ Abort
  <2>1. phase' \in {"command", "finished", "aborted"}
    BY <1>8 DEF CloseCommand, FinishRun, Abort
  <2>2. QED
    BY <2>1 DEF ColourInv
<1>9. CASE UNCHANGED vars \/ \E e \in Engines : ServiceDies(e)
  <2>1. UNCHANGED <<phase, item, detail, painted, results, tested, passed>>
    BY <1>9 DEF vars, ServiceDies, bookVars, searchVars
  <2>2. QED
    BY <2>1 DEF ColourInv, RowInv, RowTrue, RowTested, Shown, Rows
<1>10. QED
  BY <1>1, <1>2, <1>3, <1>4, <1>5, <1>6, <1>7, <1>8, <1>9 DEF Next, RunStep

\* What is painted at the end of a group are rows that show the result of their
\* context.
LEMMA NextColours ==
    ASSUME RunInv, ColourInv, ColoursAreTrue, [Next]_vars
    PROVE  ColoursAreTrue'
<1>1. CASE CloseCommand
  <2>1. painted' = Highlighted /\ detail' = detail /\ phase = "context"
    BY <1>1 DEF CloseCommand
  <2>2. ASSUME NEW v \in Values, results[v] # NoResult, Matching(v) # {}
        PROVE  detail[FirstMatching(v)].passed <=> results[v].colour = "green"
    <3>1. PICK n : n = FirstMatching(v)
      OBVIOUS
    <3>2. /\ n \in Rows(detail)
          /\ Contexts[detail[n].item].context = v
          /\ detail[n].concurrency = results[v].concurrency
      BY <2>2, <3>1, HighlightedType DEF Matching
    <3>3. RowTrue(detail[n])
      BY <2>1, <3>2 DEF ColourInv, RowInv
    <3>4. QED
      BY <2>2, <3>1, <3>2, <3>3 DEF RowTrue, Shown
  <2>3. ASSUME NEW p \in Highlighted
        PROVE  detail[p.row].passed <=> p.colour = "green"
    <3>1. PICK v \in Values :
             /\ results[v] # NoResult /\ Matching(v) # {}
             /\ p = [row |-> FirstMatching(v), colour |-> results[v].colour]
      BY DEF Highlighted
    <3>2. QED
      BY <2>2, <3>1
  <2>4. QED
    BY <2>1, <2>3 DEF ColoursAreTrue
<1>2. CASE BeginCommand
  BY <1>2 DEF BeginCommand, ColoursAreTrue
<1>3. CASE \/ KeepModel \/ ReplaceModel \/ StartSucceeds \/ StartFails
           \/ HealthCheckPasses \/ HealthCheckFails \/ LeaveSearch \/ SearchEnds
           \/ \E valid \in BOOLEAN : SearchTurn(valid)
  <2>1. phase \in {"context", "start", "health", "search"} /\ painted' = painted
    BY <1>3 DEF KeepModel, AtContext, ReplaceModel, StartSucceeds, StartFails,
                HealthCheckPasses, HealthCheckFails, GiveUpContext, LeaveSearch,
                SearchEnds, SearchTurn, bookVars
  <2>2. painted' = {}
    BY <2>1 DEF ColourInv
  <2>3. QED
    BY <2>2 DEF ColoursAreTrue
<1>4. CASE \/ FinishRun \/ Abort \/ UNCHANGED vars
           \/ (\E healthy \in BOOLEAN : Precheck(healthy))
           \/ (\E e \in Engines : ServiceDies(e))
  <2>1. UNCHANGED <<detail, painted>>
    BY <1>4 DEF FinishRun, Abort, vars, Precheck, ServiceDies, bookVars
  <2>2. QED
    BY <2>1 DEF ColoursAreTrue
<1>5. QED
  BY <1>1, <1>2, <1>3, <1>4 DEF Next, RunStep

\* With contexts that differ, a row that is painted green has met the SLO, and
\* one that is painted yellow has not.
THEOREM ColoursTellVerdicts ==
    ASSUME DistinctContexts
    PROVE  Spec => []ColoursAreTrue
<1>1. Init => ColourInv /\ ColoursAreTrue
  BY DEF Init, ColourInv, ColoursAreTrue
<1>2. RunInv /\ ColourInv /\ [Next]_vars => ColourInv'
  BY NextColourInv
<1>3. RunInv /\ ColourInv /\ ColoursAreTrue /\ [Next]_vars => ColoursAreTrue'
  BY NextColours
<1>4. QED
  BY <1>1, <1>2, <1>3, RunInvariant, PTL DEF Spec

-----------------------------------------------------------------------------
(* Progress.  The measure of how far a run has come is, in this order, the  *)
(* group, the stage of the group, the context, the step of the context and  *)
(* the search.  Only FinishRun and Abort reach the last stage.              *)

InContexts == {"context", "start", "health", "search"}

Stage(ph) == IF ph = "command" THEN 0
             ELSE IF ph = "precheck" THEN 1
             ELSE IF ph \in InContexts THEN 2 ELSE 3

StepOf(ph) == IF ph = "context" THEN 0
              ELSE IF ph = "start" THEN 1
              ELSE IF ph = "health" THEN 2 ELSE 3

Forward ==
    \/ group' > group
    \/ group' = group /\ Stage(phase') > Stage(phase)
    \/ /\ group' = group /\ {phase, phase'} \subseteq InContexts
       /\ \/ item' > item
          \/ item' = item /\ StepOf(phase') > StepOf(phase)
          \/ item' = item /\ phase = "search" /\ phase' = "search"
             /\ Proved!Advances

\* A container is gone, and nothing else has changed.
ContainerGone(e) ==
    /\ host.containers[e] # NoCmd /\ host'.containers[e] = NoCmd
    /\ \A d \in Engines \ {e} : host'.containers[d] = host.containers[d]
    /\ UNCHANGED <<phase, group, item, searchVars>>

TestsInv == Proved!TestsAreBounded

LEMMA BeginTests ==
    ASSUME NEW i \in DOMAIN Contexts, Search!Begin(SearchConf(i))
    PROVE  TestsInv'
<1>1. PICK cf \in Search!Conf : cf = SearchConf(i)
  BY RunAssumption
<1>2. conf' = cf /\ concurrent' = Proved!First(cf) /\ tested' = {}
  BY <1>1 DEF Search!Begin, Search!First, Proved!First, Search!Capped,
              Proved!Capped, Search!Smaller, Proved!Smaller, Search!None, Proved!None
<1>3. /\ cf.init_concurrent \in Nat /\ cf.max_concurrent \in Nat
      /\ cf.stop_n \in Nat /\ Capacity \in Nat
  BY LimitAssumption DEF Search!Conf
<1>4. Proved!First(cf) \in Nat
  BY <1>3 DEF Proved!First, Proved!Capped, Proved!Smaller
<1>5. Proved!First(cf) <= Proved!Bound'
  BY <1>2, <1>3, <1>4 DEF Proved!Bound, Proved!Larger
<1>6. QED
  BY <1>2, <1>5 DEF TestsInv, Proved!TestsAreBounded

LEMMA InitTestsInv == Init => TestsInv
<1> SUFFICES ASSUME Init PROVE TestsInv
  OBVIOUS
<1>1. Proved!Init
  BY SameConf DEF Init, Search!Init, Proved!Init, Search!First, Proved!First,
                  Search!Capped, Proved!Capped, Search!Smaller, Proved!Smaller,
                  Search!None, Proved!None
<1>2. QED
  BY <1>1, LimitAssumption, Proved!InitTests DEF TestsInv

LEMMA KeptTests ==
    ASSUME TestsInv, UNCHANGED searchVars
    PROVE  TestsInv'
BY DEF TestsInv, searchVars, Proved!TestsAreBounded, Proved!Bound, Proved!First,
       Proved!Larger, Proved!Capped, Proved!Smaller

\* A step of the run does not touch the search, begins one, or is one of its.
LEMMA RunSearches ==
    ASSUME RunInv, [Next]_vars
    PROVE  \/ UNCHANGED searchVars
           \/ \E i \in DOMAIN Contexts : Search!Begin(SearchConf(i))
           \/ \E valid \in BOOLEAN : Search!Turn(valid)
           \/ Search!Leave
<1>1. CASE KeepModel
  BY <1>1 DEF KeepModel, AtContext
<1>2. CASE HealthCheckPasses
  BY <1>2 DEF HealthCheckPasses, RunInv, Places
<1>3. CASE SearchEnds
  <2>1. 1 \in DOMAIN Contexts
    BY RunAssumption
  <2>2. QED
    BY <1>3, <2>1 DEF SearchEnds
<1>4. CASE (\E valid \in BOOLEAN : SearchTurn(valid)) \/ LeaveSearch
  BY <1>4 DEF SearchTurn, LeaveSearch
<1>5. CASE \/ BeginCommand \/ (\E healthy \in BOOLEAN : Precheck(healthy))
           \/ ReplaceModel \/ StartSucceeds \/ StartFails \/ HealthCheckFails
           \/ CloseCommand \/ FinishRun \/ Abort
           \/ (\E e \in Engines : ServiceDies(e)) \/ UNCHANGED vars
  BY <1>5 DEF BeginCommand, Precheck, ReplaceModel, StartSucceeds, StartFails,
              HealthCheckFails, GiveUpContext, CloseCommand, FinishRun, Abort,
              ServiceDies, vars
<1>6. QED
  BY <1>1, <1>2, <1>3, <1>4, <1>5 DEF Next, RunStep

LEMMA NextTestsInv ==
    ASSUME RunInv, TestsInv, [Next]_vars
    PROVE  TestsInv'
<1>1. CASE UNCHANGED searchVars
  BY <1>1, KeptTests
<1>2. CASE \E i \in DOMAIN Contexts : Search!Begin(SearchConf(i))
  BY <1>2, BeginTests
<1>3. ASSUME NEW valid \in BOOLEAN, Search!Turn(valid) PROVE TestsInv'
  <2>1. Proved!Turn(valid)
    BY <1>3, SameTurn
  <2>2. QED
    BY <2>1, LimitAssumption, Proved!TurnKeepsTests DEF RunInv, SearchInv, TestsInv
<1>4. CASE Search!Leave
  BY <1>4, SameLeave, Proved!LeaveKeepsTests, LimitAssumption DEF TestsInv
<1>5. QED
  BY <1>1, <1>2, <1>3, <1>4, RunSearches

\* Each search of a run finds the highest concurrency that meets the SLO,
\* with the models started, kept and stopped around it, if the service has a
\* threshold while it is searched.
THEOREM RunFindsMaxima == Spec => []Search!FindsMaximum
<1>1. RunInv => Proved!FindsMaximum
  BY LimitAssumption, Proved!TightIsMaximum DEF RunInv, SearchInv
<1>2. Proved!FindsMaximum => Search!FindsMaximum
  BY SameLimited DEF Search!FindsMaximum, Proved!FindsMaximum
<1>3. QED
  BY <1>1, <1>2, RunInvariant, PTL

\* Every step of a run is forward, or a container that dies: whatever fails,
\* no context is tried again and no search is without an end.  There are
\* finitely many groups, contexts, steps, concurrencies and containers.
THEOREM RunAdvances ==
    Spec => [][Forward \/ \E e \in Engines : ContainerGone(e)]_vars
<1>1. ASSUME RunInv, TestsInv, Next
      PROVE  Forward \/ \E e \in Engines : ContainerGone(e)
  <2>0. group \in Nat /\ item \in Nat
    BY <1>1, Parts, RunAssumption DEF ControlOK
  <2>1. CASE BeginCommand
    BY <2>1 DEF BeginCommand, Forward, Stage, InContexts
  <2>2. ASSUME NEW healthy \in BOOLEAN, Precheck(healthy) PROVE Forward
    BY <2>0, <2>2 DEF Precheck, Forward, Stage, InContexts
  <2>3. CASE KeepModel \/ ReplaceModel
    BY <2>3 DEF KeepModel, ReplaceModel, AtContext, Forward, StepOf, InContexts
  <2>4. CASE StartSucceeds \/ HealthCheckPasses
    <3>1. CASE StartSucceeds
      BY <3>1 DEF StartSucceeds, Forward, StepOf, InContexts
    <3>2. CASE HealthCheckPasses
      BY <3>2 DEF HealthCheckPasses, Forward, StepOf, InContexts
    <3>3. QED
      BY <2>4, <3>1, <3>2
  <2>5. CASE StartFails \/ HealthCheckFails \/ SearchEnds
    <3>1. /\ group' = group /\ item' = item + 1 /\ phase' = "context"
          /\ phase \in InContexts
      BY <2>5 DEF StartFails, HealthCheckFails, GiveUpContext, SearchEnds, InContexts
    <3>2. QED
      BY <2>0, <3>1 DEF Forward, InContexts
  <2>6. CASE (\E valid \in BOOLEAN : SearchTurn(valid)) \/ LeaveSearch
    <3>1. Proved!Advances
      <4>1. ASSUME NEW valid \in BOOLEAN, Search!Turn(valid) PROVE Proved!Advances
        <5>1. Proved!Turn(valid) /\ pc = "search"
          BY <4>1, SameTurn DEF Search!Turn
        <5>2. Proved!TestsAreBounded'
          BY <1>1, <5>1, LimitAssumption, Proved!TurnKeepsTests
             DEF RunInv, SearchInv, TestsInv
        <5>3. Proved!Untested' < Proved!Untested
          BY <1>1, <5>1, <5>2, LimitAssumption, Proved!TurnAdvances
             DEF RunInv, SearchInv, TestsInv
        <5>4. QED
          BY <5>1, <5>3 DEF Proved!Advances
      <4>2. ASSUME Search!Leave PROVE Proved!Advances
        BY <4>2 DEF Search!Leave, Proved!Advances
      <4>3. QED
        BY <2>6, <4>1, <4>2 DEF SearchTurn, LeaveSearch
    <3>2. /\ group' = group /\ item' = item
          /\ phase = "search" /\ phase' = "search"
      BY <2>6 DEF SearchTurn, LeaveSearch
    <3>3. QED
      BY <3>1, <3>2 DEF Forward, InContexts
  <2>7. CASE CloseCommand
    BY <2>0, <2>7 DEF CloseCommand, Forward
  <2>8. CASE FinishRun
    BY <2>8 DEF FinishRun, Forward, Stage, InContexts
  <2>9. CASE Abort
    <3>1. /\ phase \in {"command", "precheck"} \cup InContexts
          /\ phase' = "aborted" /\ group' = group
      BY <1>1, <2>9, Parts DEF Abort, ControlOK, InContexts
    <3>2. QED
      BY <3>1 DEF Forward, Stage, InContexts
  <2>10. ASSUME NEW e \in Engines, ServiceDies(e) PROVE ContainerGone(e)
    <3>1. DOMAIN host.containers = Engines
      BY <1>1, Parts DEF HostOK, HostCoherent, Hosts
    <3>2. QED
      BY <2>10, <3>1 DEF ServiceDies, Without, ContainerGone
  <2>11. QED
    BY <1>1, <2>1, <2>2, <2>3, <2>4, <2>5, <2>6, <2>7, <2>8, <2>9, <2>10
       DEF Next, RunStep
<1>2. RunInv /\ TestsInv /\ [Next]_vars => TestsInv'
  BY NextTestsInv
<1>3. RunInv /\ TestsInv /\ [Next]_vars
      => [Forward \/ \E e \in Engines : ContainerGone(e)]_vars
  BY <1>1
<1>4. QED
  BY InitTestsInv, RunInvariant, <1>2, <1>3, PTL DEF Spec
=============================================================================
