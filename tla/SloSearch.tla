------------------------------ MODULE SloSearch ------------------------------
(***************************************************************************)
(* _search_max_concurrency of LLMOps/Benchmark/llm-perf-eval.py with its   *)
(* two step functions: the search for the highest concurrency at which an  *)
(* inference service meets its SLO.  One action is one turn of the loop;   *)
(* what a benchmark finds is a nondeterministic verdict, so that a noisy   *)
(* service is covered, too.  Concurrencies are positive, so 0 stands for   *)
(* Python's None (upper_bound, best and max_concurrent not set).  The      *)
(* results, the request counts and the workbook rows are left out.         *)
(***************************************************************************)
EXTENDS Integers, FiniteSets

CONSTANTS
    Methods,          \* the values of slo.search_method a run chooses from
    InitConcurrents,  \* ... of init_concurrent
    MaxConcurrents,   \* ... of max_concurrent, with 0 for null
    StopNs,           \* ... of stop_n
    Capacity          \* beyond this concurrency no service meets the SLO

None == 0
Conf == [search_method  : Methods,         init_concurrent : InitConcurrents,
         max_concurrent : MaxConcurrents,  stop_n          : StopNs]

ASSUME SearchAssumption ==
    /\ Methods \subseteq {"binary", "stopN"}
    /\ InitConcurrents \subseteq Nat \ {0}
    /\ MaxConcurrents \subseteq Nat
    /\ StopNs \subseteq Nat \ {0}
    /\ Capacity \in Nat

VARIABLES
    conf,         \* the parameters of this search
    pc,           \* "search", or "done" once the loop is left
    concurrent,   \* the concurrency to try next
    lower_bound,
    upper_bound,
    best,         \* the concurrency of the best result
    tested,
    passed        \* history: the members of tested that met the SLO

vars == <<conf, pc, concurrent, lower_bound, upper_bound, best, tested, passed>>

Larger(a, b)  == IF a > b THEN a ELSE b
Smaller(a, b) == IF a < b THEN a ELSE b

Capped(c, max) == IF max # None THEN Smaller(c, max) ELSE c

First(cf) == Capped(cf.init_concurrent, cf.max_concurrent)

\* (Mutant: max_concurrent is only applied to init_concurrent.)
Unlimited(c) == c
Limited(c)   == Capped(c, conf.max_concurrent)

Init ==
    /\ conf \in Conf
    /\ pc = "search"
    /\ concurrent = First(conf)
    /\ lower_bound = 0
    /\ upper_bound = None
    /\ best = None
    /\ tested = {}
    /\ passed = {}

\* The locals of the next call, in a program that searches several times.
Begin(cf) ==
    /\ conf' = cf
    /\ pc' = "search"
    /\ concurrent' = First(cf)
    /\ lower_bound' = 0
    /\ upper_bound' = None
    /\ best' = None
    /\ tested' = {}
    /\ passed' = {}

Midpoint(l, u) == (l + u) \div 2

\* (Mutant: the step down may go below one.)
StepDownFreely(c) == c - conf.stop_n
StepDown(c)       == Larger(1, c - conf.stop_n)

\* (Mutant: a failure leaves upper_bound alone.)
UpperKept(c)  == upper_bound
UpperAfter(c) == IF upper_bound = None THEN c ELSE Smaller(upper_bound, c)

\* (Mutant: a concurrency that is tested is not remembered.)
TestedForgotten(c) == tested
TestedWith(c)      == tested \cup {c}

AlreadyTested(c)   == c \in tested

\* _binary_step.  (Mutant: it stops when one candidate is left.)
ConvergedEarly(c, next) == next = c \/ next <= lower_bound' + 1
Converged(c, next)      == next = c \/ next <= lower_bound'

BinaryStep(c, valid) ==
    /\ \/ /\ valid
          /\ lower_bound' = c
          /\ UNCHANGED upper_bound
          /\ concurrent' = IF upper_bound = None
                           THEN c * 2 ELSE Midpoint(c, upper_bound)
       \/ /\ ~valid
          /\ upper_bound' = c
          /\ UNCHANGED lower_bound
          /\ concurrent' = Midpoint(lower_bound, c)
    /\ pc' = IF Converged(c, concurrent') THEN "done" ELSE "search"

\* _stopn_step.  When the last step down came to 1 there is nothing below.
StopNStep(c, valid) ==
    /\ \/ /\ valid
          /\ lower_bound' = Larger(lower_bound, c)
          /\ UNCHANGED upper_bound
          /\ concurrent' = IF upper_bound = None
                           THEN c + conf.stop_n
                           ELSE Midpoint(lower_bound', upper_bound)
       \/ /\ ~valid
          /\ upper_bound' = UpperAfter(c)
          /\ UNCHANGED lower_bound
          /\ concurrent' = IF lower_bound = 0
                           THEN StepDown(c)
                           ELSE Midpoint(lower_bound, upper_bound')
    /\ LET bottom == ~valid /\ lower_bound = 0
                     /\ (concurrent' = c \/ (concurrent' = 1 /\ 1 \in tested'))
       IN  pc' = IF bottom \/ concurrent' \in tested' THEN "done" ELSE "search"

\* One turn: limit, test, keep the best, choose the next concurrency.
Turn(valid) ==
    LET c == Limited(concurrent)
    IN  /\ pc = "search"
        /\ ~AlreadyTested(c)
        /\ valid => c <= Capacity
        /\ tested' = TestedWith(c)
        /\ passed' = IF valid THEN passed \cup {c} ELSE passed
        /\ best' = IF valid /\ (best = None \/ c > best) THEN c ELSE best
        /\ \/ conf.search_method = "stopN" /\ StopNStep(c, valid)
           \/ conf.search_method # "stopN" /\ BinaryStep(c, valid)
        /\ UNCHANGED conf

\* The loop is left because the concurrency has been tested already.
Leave ==
    /\ pc = "search"
    /\ AlreadyTested(Limited(concurrent))
    /\ concurrent' = Limited(concurrent)
    /\ pc' = "done"
    /\ UNCHANGED <<conf, lower_bound, upper_bound, best, tested, passed>>

Next == (\E valid \in BOOLEAN : Turn(valid)) \/ Leave

Spec     == Init /\ [][Next]_vars
FairSpec == Spec /\ WF_vars(Next)

-----------------------------------------------------------------------------
(* Properties.                                                             *)

failed == tested \ passed

TypeOK ==
    /\ conf \in Conf
    /\ pc \in {"search", "done"}
    /\ concurrent \in Nat
    /\ lower_bound \in Nat
    /\ upper_bound \in Nat
    /\ best \in Nat
    /\ tested \subseteq Nat \ {0}
    /\ passed \subseteq tested

\* No benchmark runs at more than max_concurrent.
WithinMax ==
    conf.max_concurrent # None => \A c \in tested : c <= conf.max_concurrent

\* Whatever the service does, the verdicts never contradict each other: all
\* that passed is at most lower_bound and below all that failed, because the
\* search only tests between its bounds.
Bracketed ==
    /\ \A c \in passed : c <= lower_bound
    /\ \A c \in failed : upper_bound # None /\ upper_bound <= c
    /\ upper_bound # None => lower_bound < upper_bound

\* The search is exhaustive: when it ends, the concurrency above the best one
\* has been tried and failed, unless the best one is max_concurrent, and if
\* there is no best one, concurrency 1 has been tried and failed.
BestIsTight ==
    pc = "done" =>
        /\ best = None => 1 \in failed
        /\ best # None => /\ best \in passed
                          /\ \/ best + 1 \in failed
                             \/ best = conf.max_concurrent

\* "Finds the highest concurrency that meets the SLO" (README): if there is a
\* threshold T up to which the service meets the SLO and beyond which it does
\* not, the search ends with T, or with max_concurrent if that is smaller.
FindsMaximum ==
    pc = "done" =>
        \A T \in 0 .. Capacity :
            passed = {c \in tested : c <= T} => best = Limited(T)

\* The search ends: with max_concurrent because of that limit, without it
\* because the service has a capacity.
Terminates == <>(pc = "done")
=============================================================================
