--------------------------- MODULE SloSearchProofs ---------------------------
(***************************************************************************)
(* That the SLO search finds the maximum, for every start, limit, step and *)
(* service.  The inductive invariant adds to the properties that the       *)
(* bounds are themselves results, that best is lower_bound, and that the   *)
(* next concurrency lies strictly between the bounds.                      *)
(***************************************************************************)
EXTENDS SloSearch, FiniteSetTheorems, TLAPS

BoundsAreResults ==
    /\ lower_bound # 0 => lower_bound \in passed
    /\ upper_bound # None => upper_bound \in failed
    /\ best = lower_bound

NextIsBetween ==
    pc = "search" => /\ lower_bound < concurrent
                     /\ upper_bound # None => concurrent < upper_bound

IInv == TypeOK /\ WithinMax /\ Bracketed /\ BoundsAreResults /\ NextIsBetween
               /\ BestIsTight

USE DEF None

LEMMA ConfType ==
    ASSUME conf \in Conf
    PROVE  /\ conf.init_concurrent \in Nat \ {0}
           /\ conf.max_concurrent \in Nat
           /\ conf.stop_n \in Nat \ {0}
BY SearchAssumption DEF Conf

LEMMA SuccessorIsPositive == \A n \in Nat : n + 1 # 0
OBVIOUS

LEMMA InitIInv == Init => IInv
<1> SUFFICES ASSUME Init PROVE IInv
  OBVIOUS
<1> USE DEF Init, First, Capped
<1>1. concurrent \in Nat \ {0}
  BY ConfType DEF Smaller
<1>2. TypeOK
  BY <1>1 DEF TypeOK
<1>3. QED
  BY <1>1, <1>2 DEF IInv, WithinMax, Bracketed, BoundsAreResults,
                    NextIsBetween, BestIsTight, failed

\* The concurrency of a turn lies between the bounds, too.
LEMMA TurnIsBetween ==
    ASSUME IInv, pc = "search", NEW c, c = Limited(concurrent), c \notin tested
    PROVE  /\ c \in Nat \ {0}
           /\ lower_bound < c
           /\ upper_bound # None => c < upper_bound
           /\ conf.max_concurrent # None => c <= conf.max_concurrent
<1> USE DEF IInv, TypeOK, Limited, Capped, Smaller
<1>1. /\ conf.max_concurrent \in Nat
      /\ concurrent \in Nat /\ lower_bound \in Nat /\ upper_bound \in Nat
  BY ConfType
<1>2. /\ lower_bound < concurrent
      /\ upper_bound # None => concurrent < upper_bound
  BY DEF NextIsBetween
<1>3. CASE c = concurrent
  BY <1>1, <1>2, <1>3
<1>4. CASE c # concurrent
  <2>1. /\ conf.max_concurrent # None
        /\ c = conf.max_concurrent
        /\ c < concurrent
    BY <1>1, <1>4
  <2>2. lower_bound # 0 => lower_bound \in tested /\ lower_bound <= c
    BY <2>1 DEF BoundsAreResults, WithinMax
  <2>3. QED
    BY <1>1, <1>2, <2>1, <2>2
<1>5. QED
  BY <1>3, <1>4

\* A tested concurrency never lies strictly between the bounds.
LEMMA NothingBetween ==
    ASSUME IInv, NEW t \in tested
    PROVE  /\ t \in Nat \ {0}
           /\ t <= lower_bound \/ (upper_bound # None /\ upper_bound <= t)
BY DEF IInv, TypeOK, Bracketed, failed

\* What a turn does to the bounds, the same for both methods.
StepMovesBounds(c, valid) ==
    /\ valid  => lower_bound' = c /\ upper_bound' = upper_bound
    /\ ~valid => lower_bound' = lower_bound /\ upper_bound' = c
    /\ concurrent' \in Nat
    /\ pc' \in {"search", "done"}
    /\ pc' = "search" => /\ lower_bound' < concurrent'
                         /\ upper_bound' # None => concurrent' < upper_bound'
    /\ pc' = "done" => upper_bound' = lower_bound' + 1

LEMMA BinaryMovesBounds ==
    ASSUME TypeOK, NEW c \in Nat \ {0}, NEW valid \in BOOLEAN,
           lower_bound < c, upper_bound # None => c < upper_bound,
           BinaryStep(c, valid)
    PROVE  StepMovesBounds(c, valid)
<1> USE DEF TypeOK, BinaryStep, StepMovesBounds, Converged, Midpoint
<1>1. CASE valid
  <2>1. lower_bound' = c /\ upper_bound' = upper_bound
    BY <1>1
  <2>2. CASE upper_bound = None
    BY <1>1, <2>1, <2>2
  <2>3. CASE upper_bound # None
    BY <1>1, <2>1, <2>3
  <2>4. QED
    BY <2>2, <2>3
<1>2. CASE ~valid
  BY <1>2
<1>3. QED
  BY <1>1, <1>2

LEMMA StopNMovesBounds ==
    ASSUME IInv, NEW c \in Nat \ {0}, NEW valid \in BOOLEAN,
           lower_bound < c, upper_bound # None => c < upper_bound,
           tested' = tested \cup {c},
           StopNStep(c, valid)
    PROVE  StepMovesBounds(c, valid)
<1>1. /\ lower_bound \in Nat /\ upper_bound \in Nat
      /\ conf.stop_n \in Nat \ {0}
  BY ConfType DEF IInv, TypeOK
<1>2. \A t \in tested' : /\ t \in Nat \ {0}
                         /\ \/ t = c
                            \/ t <= lower_bound
                            \/ upper_bound # None /\ upper_bound <= t
  BY NothingBetween
<1>3. CASE valid
  <2>1. lower_bound' = c /\ upper_bound' = upper_bound
    BY <1>1, <1>3 DEF StopNStep, Larger
  <2>2. pc' = IF concurrent' \in tested' THEN "done" ELSE "search"
    BY <1>3 DEF StopNStep
  <2>3. CASE upper_bound = None
    <3>1. concurrent' = c + conf.stop_n
      BY <1>3, <2>3 DEF StopNStep
    <3>2. concurrent' \notin tested'
      BY <1>1, <1>2, <2>3, <3>1
    <3>3. QED
      BY <1>1, <1>3, <2>1, <2>2, <2>3, <3>1, <3>2 DEF StepMovesBounds
  <2>4. CASE upper_bound # None
    <3>1. concurrent' = (c + upper_bound) \div 2
      BY <1>3, <2>1, <2>4 DEF StopNStep, Midpoint
    <3>2. concurrent' \in Nat /\ c <= concurrent' /\ concurrent' < upper_bound
      BY <1>1, <2>4, <3>1
    <3>3. concurrent' \in tested' <=> concurrent' = c
      BY <1>1, <1>2, <2>4, <3>2
    <3>4. concurrent' = c => upper_bound = c + 1
      BY <1>1, <2>4, <3>1
    <3>5. QED
      BY <1>1, <1>3, <2>1, <2>2, <2>4, <3>2, <3>3, <3>4 DEF StepMovesBounds
  <2>5. QED
    BY <2>3, <2>4
<1>4. CASE ~valid
  <2>1. lower_bound' = lower_bound /\ upper_bound' = c
    BY <1>1, <1>4 DEF StopNStep, UpperAfter, Smaller
  <2>2. CASE lower_bound = 0
    <3>1. /\ concurrent' \in Nat \ {0}
          /\ concurrent' <= c
          /\ concurrent' = c <=> c = 1
      BY <1>1, <1>4, <2>2 DEF StopNStep, StepDown, Larger
    <3>2. concurrent' \in tested' => concurrent' = c
      BY <1>1, <1>2, <2>2, <3>1
    <3>3. pc' = IF concurrent' = c THEN "done" ELSE "search"
      BY <1>4, <2>2, <3>1, <3>2 DEF StopNStep
    <3>4. QED
      BY <1>4, <2>1, <2>2, <3>1, <3>3 DEF StepMovesBounds
  <2>3. CASE lower_bound # 0
    <3>1. concurrent' = (lower_bound + c) \div 2
      BY <1>4, <2>1, <2>3 DEF StopNStep, Midpoint
    <3>2. /\ concurrent' \in Nat
          /\ lower_bound <= concurrent' /\ concurrent' < c
      BY <1>1, <3>1
    <3>3. concurrent' = lower_bound => c = lower_bound + 1
      BY <1>1, <3>1
    <3>4. pc' = IF concurrent' \in tested' THEN "done" ELSE "search"
      BY <1>4, <2>3 DEF StopNStep
    <3>5. concurrent' \in tested' <=> concurrent' = lower_bound
      <4>1. lower_bound \in tested'
        BY <2>3 DEF IInv, BoundsAreResults, TypeOK
      <4>2. QED
        BY <1>1, <1>2, <3>2, <4>1
    <3>6. QED
      BY <1>1, <1>4, <2>1, <3>2, <3>3, <3>4, <3>5 DEF StepMovesBounds
  <2>4. QED
    BY <2>2, <2>3
<1>5. QED
  BY <1>3, <1>4

LEMMA TurnPreservesIInv ==
    ASSUME IInv, NEW valid \in BOOLEAN, Turn(valid)
    PROVE  IInv'
<1> DEFINE c == Limited(concurrent)
<1>1. /\ pc = "search" /\ c \notin tested
      /\ tested' = tested \cup {c}
      /\ passed' = IF valid THEN passed \cup {c} ELSE passed
      /\ best' = IF valid /\ (best = None \/ c > best) THEN c ELSE best
      /\ conf' = conf
  BY DEF Turn, AlreadyTested, TestedWith
<1>2. /\ c \in Nat \ {0}
      /\ lower_bound < c
      /\ upper_bound # None => c < upper_bound
      /\ conf.max_concurrent # None => c <= conf.max_concurrent
  BY <1>1, TurnIsBetween
<1>3. StepMovesBounds(c, valid)
  <2>1. CASE conf.search_method = "stopN"
    <3>1. StopNStep(c, valid)
      BY <2>1 DEF Turn
    <3> HIDE DEF c
    <3>2. QED
      BY <1>1, <1>2, <3>1, StopNMovesBounds
  <2>2. CASE conf.search_method # "stopN"
    <3>1. BinaryStep(c, valid)
      BY <2>2 DEF Turn
    <3> HIDE DEF c
    <3>2. QED
      BY <1>2, <3>1, BinaryMovesBounds DEF IInv
  <2>3. QED
    BY <2>1, <2>2
<1> HIDE DEF c
<1>4. TypeOK'
  BY <1>1, <1>2, <1>3 DEF IInv, TypeOK, StepMovesBounds
<1>5. WithinMax'
  BY <1>1, <1>2 DEF IInv, WithinMax
<1>6. failed' = IF valid THEN failed ELSE failed \cup {c}
  BY <1>1 DEF failed, IInv, TypeOK
<1>7. Bracketed'
  BY <1>1, <1>2, <1>3, <1>6
     DEF IInv, TypeOK, Bracketed, StepMovesBounds, failed
<1>8. BoundsAreResults'
  BY <1>1, <1>2, <1>3, <1>6
     DEF IInv, TypeOK, BoundsAreResults, StepMovesBounds
<1>9. NextIsBetween'
  BY <1>3 DEF NextIsBetween, StepMovesBounds
<1>10. BestIsTight'
  <2> SUFFICES ASSUME pc' = "done" PROVE BestIsTight'
    BY DEF BestIsTight
  <2>1. lower_bound' \in Nat /\ upper_bound' = lower_bound' + 1
    BY <1>3, <1>4 DEF StepMovesBounds, TypeOK
  <2>2. lower_bound' + 1 \in failed' /\ best' = lower_bound'
    <3>1. upper_bound' # None
      BY <2>1, SuccessorIsPositive
    <3>2. upper_bound' \in failed' /\ best' = lower_bound'
      BY <1>8, <3>1 DEF BoundsAreResults
    <3>3. QED
      BY <2>1, <3>2
  <2>3. best' # None => best' \in passed'
    BY <1>8 DEF BoundsAreResults
  <2>4. QED
    BY <2>1, <2>2, <2>3 DEF BestIsTight, failed
<1>11. QED
  BY <1>4, <1>5, <1>7, <1>8, <1>9, <1>10 DEF IInv

\* The loop is left only when max_concurrent itself has passed.
LEMMA LeavePreservesIInv ==
    ASSUME IInv, Leave
    PROVE  IInv'
<1> USE DEF IInv, TypeOK
<1>1. /\ conf.max_concurrent \in Nat
      /\ lower_bound < concurrent
      /\ upper_bound # None => concurrent < upper_bound
      /\ Limited(concurrent) \in tested
  BY ConfType DEF Leave, NextIsBetween, AlreadyTested
<1>2. concurrent \notin tested
  BY <1>1, NothingBetween
<1>3. /\ conf.max_concurrent # None
      /\ conf.max_concurrent \in tested
      /\ conf.max_concurrent < concurrent
  BY <1>1, <1>2 DEF Limited, Capped, Smaller
<1>4. upper_bound = None
  BY <1>1, <1>3 DEF BoundsAreResults, WithinMax, failed
<1>5. conf.max_concurrent \in passed
  BY <1>3, <1>4 DEF Bracketed, failed
<1>6. lower_bound = conf.max_concurrent
  BY <1>1, <1>3, <1>5 DEF Bracketed, BoundsAreResults, WithinMax
<1>7. BestIsTight'
  BY <1>3, <1>5, <1>6 DEF BestIsTight, BoundsAreResults, Leave
<1>8. TypeOK'
  BY <1>1 DEF Leave
<1>9. QED
  BY <1>7, <1>8 DEF Leave, WithinMax, Bracketed, BoundsAreResults,
                    NextIsBetween, failed

\* Every reachable state of the search satisfies the inductive invariant.
THEOREM SearchInvariant == Spec => []IInv
<1>1. IInv /\ [Next]_vars => IInv'
  <2> SUFFICES ASSUME IInv, [Next]_vars PROVE IInv'
    OBVIOUS
  <2>1. CASE \E valid \in BOOLEAN : Turn(valid)
    BY <2>1, TurnPreservesIInv
  <2>2. CASE Leave
    BY <2>2, LeavePreservesIInv
  <2>3. CASE UNCHANGED vars
    BY <2>3 DEF vars, IInv, TypeOK, WithinMax, Bracketed, BoundsAreResults,
                NextIsBetween, BestIsTight, failed
  <2>4. QED
    BY <2>1, <2>2, <2>3 DEF Next
<1>2. QED
  BY InitIInv, <1>1, PTL DEF Spec

\* The variables of the search keep their types.
THEOREM SearchTypeCorrect == Spec => []TypeOK
<1>1. IInv => TypeOK
  BY DEF IInv
<1>2. QED
  BY <1>1, SearchInvariant, PTL

\* No benchmark runs above max_concurrent: the limit holds for every step of
\* either method, not only for the first concurrency.
THEOREM SearchStaysWithinMax == Spec => []WithinMax
<1>1. IInv => WithinMax
  BY DEF IInv
<1>2. QED
  BY <1>1, SearchInvariant, PTL

\* The search never tests outside its bounds, so that its verdicts agree with
\* each other, whatever the service does.
THEOREM SearchStaysInBounds == Spec => []Bracketed
<1>1. IInv => Bracketed
  BY DEF IInv
<1>2. QED
  BY <1>1, SearchInvariant, PTL

\* A search that has ended has tried and failed the concurrency above the
\* best one, or has reached max_concurrent.
THEOREM SearchIsTight == Spec => []BestIsTight
<1>1. IInv => BestIsTight
  BY DEF IInv
<1>2. QED
  BY <1>1, SearchInvariant, PTL

\* A result that is tight is the threshold of a service that has one.
LEMMA TightIsMaximum == IInv => FindsMaximum
<1> SUFFICES ASSUME IInv, pc = "done", NEW T \in 0 .. Capacity,
                    passed = {c \in tested : c <= T}
             PROVE  best = Limited(T)
  BY DEF FindsMaximum
<1>1. /\ T \in Nat /\ best \in Nat /\ tested \subseteq Nat
      /\ conf.max_concurrent \in Nat
  BY ConfType, SearchAssumption DEF IInv, TypeOK
<1>2. CASE best = None
  <2>1. T = 0
    BY <1>1, <1>2 DEF IInv, BestIsTight, failed
  <2>2. QED
    BY <1>1, <1>2, <2>1 DEF Limited, Capped, Smaller
<1>3. CASE best # None
  <2>1. best \in tested /\ best <= T
    BY <1>1, <1>3 DEF IInv, BestIsTight
  <2>2. CASE best + 1 \in failed
    <3>1. best = T
      BY <1>1, <2>1, <2>2 DEF failed
    <3>2. QED
      BY <1>1, <2>1, <3>1 DEF Limited, Capped, Smaller, IInv, WithinMax
  <2>3. CASE best = conf.max_concurrent
    BY <1>1, <1>3, <2>1, <2>3 DEF Limited, Capped, Smaller
  <2>4. QED
    BY <1>3, <2>2, <2>3 DEF IInv, BestIsTight
<1>4. QED
  BY <1>2, <1>3

\* For a service that meets the SLO up to a threshold the result is that
\* threshold, or max_concurrent if that is smaller.
THEOREM SearchFindsMaximum == Spec => []FindsMaximum
<1>1. QED
  BY TightIsMaximum, SearchInvariant, PTL

-----------------------------------------------------------------------------
(* Progress.  A search without max_concurrent is bounded because a turn only *)
(* goes up from a concurrency that passed.                                   *)

Bound == Larger(First(conf), Larger(2 * Capacity, Capacity + conf.stop_n))

TestsAreBounded ==
    /\ tested \subseteq 1 .. Bound
    /\ pc = "search" => concurrent <= Bound

Untested == Cardinality((1 .. Bound) \ tested)

Advances == pc = "search" /\ (pc' = "done" \/ Untested' < Untested)

LEMMA BoundType ==
    ASSUME TypeOK
    PROVE  /\ Bound \in Nat
           /\ First(conf) <= Bound
           /\ 2 * Capacity <= Bound
           /\ Capacity + conf.stop_n <= Bound
BY ConfType, SearchAssumption DEF TypeOK, Bound, Larger, First, Capped, Smaller

\* A turn comes to a smaller concurrency, unless the one it tested passed.
LEMMA BinaryGoesUp ==
    ASSUME TypeOK, NEW c \in Nat \ {0}, NEW valid \in BOOLEAN,
           lower_bound < c, upper_bound # None => c < upper_bound,
           BinaryStep(c, valid)
    PROVE  \/ valid /\ concurrent' = 2 * c
           \/ concurrent' <= c
           \/ upper_bound # None /\ concurrent' < upper_bound
<1> USE DEF TypeOK, BinaryStep, Midpoint
<1>1. CASE valid /\ upper_bound = None
  BY <1>1
<1>2. CASE valid /\ upper_bound # None
  BY <1>2
<1>3. CASE ~valid
  BY <1>3
<1>4. QED
  BY <1>1, <1>2, <1>3

LEMMA StopNGoesUp ==
    ASSUME TypeOK, NEW c \in Nat \ {0}, NEW valid \in BOOLEAN,
           lower_bound < c, upper_bound # None => c < upper_bound,
           StopNStep(c, valid)
    PROVE  \/ valid /\ concurrent' = c + conf.stop_n
           \/ concurrent' <= c
           \/ upper_bound # None /\ concurrent' < upper_bound
<1> USE ConfType DEF TypeOK, StopNStep, Midpoint, Larger, Smaller, UpperAfter, StepDown
<1>1. CASE valid /\ upper_bound = None
  BY <1>1
<1>2. CASE valid /\ upper_bound # None
  BY <1>2
<1>3. CASE ~valid /\ lower_bound = 0
  BY <1>3
<1>4. CASE ~valid /\ lower_bound # 0
  BY <1>4
<1>5. QED
  BY <1>1, <1>2, <1>3, <1>4

\* What fixes the bound.
LEMMA SameBound == conf' = conf => Bound' = Bound
BY DEF Bound, First, Larger, Capped, Smaller

LEMMA InitTests == Init => TestsAreBounded
<1> SUFFICES ASSUME Init PROVE TestsAreBounded
  OBVIOUS
<1>1. IInv
  BY InitIInv
<1>2. QED
  BY <1>1, BoundType DEF Init, TestsAreBounded, IInv

LEMMA TurnKeepsTests ==
    ASSUME IInv, TestsAreBounded, NEW valid \in BOOLEAN, Turn(valid)
    PROVE  TestsAreBounded'
<1>1. TypeOK /\ Bound \in Nat
  BY BoundType DEF IInv
<1>2. PICK c : c = Limited(concurrent)
  OBVIOUS
<1>3. /\ pc = "search" /\ c \notin tested /\ tested' = tested \cup {c}
      /\ valid => c <= Capacity
      /\ conf' = conf
      /\ \/ StopNStep(c, valid)
         \/ BinaryStep(c, valid)
  BY <1>2 DEF Turn, AlreadyTested, TestedWith
<1>4. /\ c \in Nat \ {0} /\ lower_bound < c
      /\ upper_bound # None => c < upper_bound
  BY <1>2, <1>3, TurnIsBetween
<1>5. Bound' = Bound
  BY <1>3, SameBound
<1>6. c <= concurrent /\ concurrent <= Bound /\ concurrent \in Nat
  BY <1>1, <1>2, <1>3, ConfType
     DEF TestsAreBounded, Limited, Capped, Smaller, TypeOK
<1>7. upper_bound # None => upper_bound <= Bound
  <2>1. upper_bound # None => upper_bound \in tested
    BY DEF IInv, BoundsAreResults, failed
  <2>2. \A t \in tested : t <= Bound
    BY <1>1 DEF TestsAreBounded
  <2>3. QED
    BY <2>1, <2>2
<1>8. concurrent' \in Nat
  BY TurnPreservesIInv DEF IInv, TypeOK
<1>9. concurrent' <= Bound
  <2>1. \/ valid /\ concurrent' = c + conf.stop_n
        \/ valid /\ concurrent' = 2 * c
        \/ concurrent' <= c
        \/ upper_bound # None /\ concurrent' < upper_bound
    BY <1>1, <1>3, <1>4, StopNGoesUp, BinaryGoesUp
  <2>2. upper_bound \in Nat /\ conf.stop_n \in Nat /\ Capacity \in Nat
    BY <1>1, ConfType, SearchAssumption DEF TypeOK
  <2>3. 2 * Capacity <= Bound /\ Capacity + conf.stop_n <= Bound
    BY <1>1, BoundType
  <2>4. QED
    BY <1>1, <1>3, <1>4, <1>6, <1>7, <1>8, <2>1, <2>2, <2>3
<1>10. QED
  BY <1>1, <1>3, <1>4, <1>5, <1>6, <1>9 DEF TestsAreBounded

LEMMA LeaveKeepsTests ==
    ASSUME TestsAreBounded, Leave
    PROVE  TestsAreBounded'
BY SameBound DEF Leave, TestsAreBounded

\* A turn leaves fewer concurrencies to test.
LEMMA TurnAdvances ==
    ASSUME IInv, TestsAreBounded, TestsAreBounded',
           NEW valid \in BOOLEAN, Turn(valid)
    PROVE  Untested \in Nat /\ Untested' \in Nat /\ Untested' < Untested
<1>1. PICK c : c \notin tested /\ tested' = tested \cup {c} /\ conf' = conf
  BY DEF Turn, AlreadyTested, TestedWith
<1>2. Bound' = Bound /\ Bound \in Nat
  BY <1>1, SameBound, BoundType DEF IInv
<1>3. PICK S : S = (1 .. Bound) \ tested
  OBVIOUS
<1>4. c \in S /\ (1 .. Bound') \ tested' = S \ {c}
  BY <1>1, <1>2, <1>3 DEF TestsAreBounded
<1>5. IsFiniteSet(1 .. Bound) /\ S \in SUBSET (1 .. Bound)
  BY <1>2, <1>3, FS_Interval
<1>6. IsFiniteSet(S)
  BY <1>5, FS_Subset
<1>7. /\ Cardinality(S) \in Nat /\ Cardinality(S \ {c}) \in Nat
      /\ Cardinality(S \ {c}) = Cardinality(S) - 1
  BY <1>4, <1>6, FS_CardinalityType, FS_RemoveElement
<1>8. Untested = Cardinality(S) /\ Untested' = Cardinality(S \ {c})
  BY <1>3, <1>4 DEF Untested
<1>9. QED
  BY <1>7, <1>8

LEMMA NextTests == IInv /\ TestsAreBounded /\ [Next]_vars => TestsAreBounded'
<1> SUFFICES ASSUME IInv, TestsAreBounded, [Next]_vars
             PROVE  TestsAreBounded'
  OBVIOUS
<1>1. CASE \E valid \in BOOLEAN : Turn(valid)
  BY <1>1, TurnKeepsTests
<1>2. CASE Leave
  BY <1>2, LeaveKeepsTests
<1>3. CASE UNCHANGED vars
  BY <1>3, SameBound DEF vars, TestsAreBounded
<1>4. QED
  BY <1>1, <1>2, <1>3 DEF Next

\* No search tests beyond what the service's capacity leads it to: a
\* concurrency that failed is never exceeded again.
THEOREM SearchIsBounded == Spec => []TestsAreBounded
<1>1. QED
  BY SearchInvariant, InitTests, NextTests, PTL DEF Spec

\* Every step of the loop leaves it or tests a concurrency that it has not
\* tested, of finitely many: no noise of the service can make it go on.
THEOREM SearchAdvances == Spec => [][Advances]_vars
<1>1. IInv /\ TestsAreBounded /\ [Next]_vars => [Advances]_vars
  <2> SUFFICES ASSUME IInv, TestsAreBounded, Next
               PROVE  Advances
    OBVIOUS
  <2>1. CASE \E valid \in BOOLEAN : Turn(valid)
    <3>1. Untested' < Untested
      BY <2>1, TurnKeepsTests, TurnAdvances
    <3>2. QED
      BY <2>1, <3>1 DEF Turn, Advances
  <2>2. CASE Leave
    BY <2>2 DEF Leave, Advances
  <2>3. QED
    BY <2>1, <2>2 DEF Next
<1>2. QED
  BY SearchInvariant, SearchIsBounded, <1>1, PTL DEF Spec
=============================================================================
