------------------------- MODULE AlertContinueProofs -------------------------
(***************************************************************************)
(* Proof that the cards of a dispatch belong together: their numbers are    *)
(* the ranks of the alerts in their group, so that each card goes on where *)
(* the last one ended, and the last one ends with the group.               *)
(***************************************************************************)
EXTENDS AlertCards, AlertForwardProofs, WellFoundedInduction

-----------------------------------------------------------------------------
(* Ranks are the numbers from one to the size of the group.                *)

LEMMA LessIsWellFounded ==
    IsWellFoundedOn({ss \in Nat \X Nat : ss[1] < ss[2]}, Nat)
BY NatLessThanWellFounded, Zenon DEF OpToRel

LEMMA LeastExists ==
    ASSUME NEW T \in SUBSET Nat, T # {}
    PROVE  \E m \in T : \A n \in T : m <= n
<1> DEFINE R == {ss \in Nat \X Nat : ss[1] < ss[2]}
<1>1. IsWellFoundedOn(R, Nat)
  BY LessIsWellFounded
<1> HIDE DEF R
<1>2. PICK x \in T : \A y \in T : ~(<<y, x>> \in R)
  BY <1>1, WFMin
<1>3. ASSUME NEW y \in T PROVE x <= y
  <2>1. x \in Nat /\ y \in Nat
    OBVIOUS
  <2>2. y < x => <<y, x>> \in R
    <3> DEFINE p == <<y, x>>
    <3>1. p \in Nat \X Nat /\ p[1] = y /\ p[2] = x
      BY <2>1
    <3> HIDE DEF p
    <3>2. y < x => p \in R
      BY <3>1 DEF R
    <3>3. QED
      BY <3>2 DEF p
  <2>3. ~(y < x)
    BY <1>2, <2>2
  <2>4. QED
    BY <2>1, <2>3
<1>4. QED
  BY <1>3

LEMMA GreatestExists ==
    ASSUME NEW n \in Nat, NEW T \in SUBSET (1 .. n), T # {}
    PROVE  \E m \in T : \A u \in T : u <= m
<1> DEFINE D == {n - u : u \in T}
<1>1. D \in SUBSET Nat /\ D # {}
  <2>1. \A u \in T : n - u \in Nat
    OBVIOUS
  <2>2. PICK u \in T : TRUE
    OBVIOUS
  <2>3. n - u \in D
    BY <2>2
  <2>4. QED
    BY <2>1, <2>3
<1>2. PICK d \in D : \A e \in D : d <= e
  BY <1>1, LeastExists
<1>3. PICK m \in T : d = n - m
  OBVIOUS
<1>4. ASSUME NEW u \in T PROVE u <= m
  <2>1. n - m <= n - u
    BY <1>2, <1>3
  <2>2. QED
    BY <2>1
<1>5. QED
  BY <1>4

LEMMA AlertsAreFinite ==
    ASSUME NEW n \in Nat, NEW S \in SUBSET (1 .. n)
    PROVE  /\ IsFiniteSet(S) /\ Cardinality(S) \in Nat
           /\ \A t \in S : t \in Nat /\ Rank(t, S) \in Nat
<1>1. IsFiniteSet(1 .. n)
  BY FS_Interval
<1>2. IsFiniteSet(S) /\ Cardinality(S) \in Nat
  BY <1>1, FS_Subset, FS_CardinalityType
<1>3. \A t \in S : Rank(t, S) \in Nat
  BY RankBounds
<1>4. QED
  BY <1>2, <1>3

\* A later alert has a larger rank.
LEMMA RankGrows ==
    ASSUME NEW n \in Nat, NEW S \in SUBSET (1 .. n), NEW t \in S, NEW u \in S
    PROVE  t < u <=> Rank(t, S) < Rank(u, S)
<1>1. ASSUME NEW a \in S, NEW b \in S, a < b
      PROVE  Rank(a, S) < Rank(b, S)
  <2> DEFINE A == {v \in S : v <= a}
             B == {v \in S : v <= b}
  <2>0. \A v \in S : v \in Nat
    OBVIOUS
  <2>1. IsFiniteSet(S) /\ IsFiniteSet(B)
    BY AlertsAreFinite, FS_Subset
  <2>2. A \subseteq B /\ b \in B /\ b \notin A
    <3>1. a \in Nat /\ b \in Nat /\ b <= b /\ ~(b <= a)
      BY <1>1, <2>0
    <3>2. \A v \in S : v <= a => v <= b
      BY <1>1, <2>0, <3>1
    <3>3. QED
      BY <3>1, <3>2
  <2>3. /\ Cardinality(A) <= Cardinality(B)
        /\ Cardinality(A) = Cardinality(B) => A = B
        /\ Cardinality(A) \in Nat /\ Cardinality(B) \in Nat
    <3>1. IsFiniteSet(A)
      BY <2>1, <2>2, FS_Subset
    <3>2. QED
      BY <2>1, <2>2, <3>1, FS_Subset, FS_CardinalityType
  <2>4. A # B
    BY <2>2
  <2>5. QED
    BY <2>3, <2>4 DEF Rank
<1>2. Rank(t, S) \in Nat /\ Rank(u, S) \in Nat /\ t \in Nat /\ u \in Nat
  BY AlertsAreFinite
<1>3. QED
  BY <1>1, <1>2

\* Every number up to the size of the group is the rank of an alert.
LEMMA RankIsReached ==
    ASSUME NEW n \in Nat, NEW S \in SUBSET (1 .. n),
           NEW r \in 1 .. Cardinality(S)
    PROVE  \E t \in S : Rank(t, S) = r
<1>0. IsFiniteSet(S) /\ r \in Nat /\ 1 <= r /\ r <= Cardinality(S)
  <2>1. IsFiniteSet(S) /\ Cardinality(S) \in Nat
    BY AlertsAreFinite
  <2>2. QED
    BY <2>1
<1>1. \A t \in S : t \in Nat
  OBVIOUS
<1>9. \A t \in S : Rank(t, S) \in Nat
  BY AlertsAreFinite
<1> DEFINE T == {t \in S : r <= Rank(t, S)}
<1>2. T # {}
  <2>1. S # {}
    BY <1>0, FS_EmptySet
  <2>2. PICK m \in S : \A u \in S : u <= m
    BY <2>1, GreatestExists
  <2>3. {u \in S : u <= m} = S
    BY <2>2
  <2>4. Rank(m, S) = Cardinality(S)
    BY <2>3 DEF Rank
  <2>5. QED
    BY <1>0, <2>4
<1>3. PICK m \in T : \A u \in T : m <= u
  BY <1>1, <1>2, LeastExists
<1>4. m \in S /\ m \in Nat /\ r <= Rank(m, S) /\ Rank(m, S) \in Nat
  BY <1>1, <1>9
<1> DEFINE Below == {u \in S : u < m}
           Upto  == {u \in S : u <= m}
<1>5. /\ Upto = Below \cup {m} /\ m \notin Below /\ IsFiniteSet(Below)
      /\ Cardinality(Upto) = Cardinality(Below) + 1 /\ Cardinality(Below) \in Nat
  <2>1. Upto = Below \cup {m} /\ m \notin Below
    <3>1. \A u \in S : (u <= m <=> u < m \/ u = m) /\ ~(m < m)
      BY <1>1, <1>4
    <3>2. QED
      BY <1>4, <3>1
  <2>2. IsFiniteSet(Below) /\ Cardinality(Below) \in Nat
    BY <1>0, FS_Subset, FS_CardinalityType
  <2>3. QED
    BY <2>1, <2>2, FS_AddElement
<1>6. CASE Below = {}
  <2>1. Rank(m, S) = 1
    BY <1>5, <1>6, FS_EmptySet DEF Rank
  <2>2. QED
    BY <1>0, <1>4, <2>1
<1>7. CASE Below # {}
  <2>1. Below \in SUBSET (1 .. n)
    OBVIOUS
  <2>2. PICK p \in Below : \A u \in Below : u <= p
    BY <1>7, <2>1, GreatestExists
  <2>3. {u \in S : u <= p} = Below
    <3>1. p \in S /\ p \in Nat /\ p < m
      BY <1>1
    <3>2. \A u \in S : u <= p => u < m
      BY <1>1, <1>4, <3>1
    <3>3. \A u \in S : u < m => u <= p
      BY <2>2
    <3>4. QED
      BY <3>2, <3>3
  <2>4. Rank(p, S) + 1 = Rank(m, S) /\ Rank(p, S) \in Nat
    BY <1>1, <1>5, <1>9, <2>3 DEF Rank
  <2>5. ~(r <= Rank(p, S))
    BY <1>1, <1>3, <1>4
  <2>6. Rank(m, S) = r
    BY <1>0, <1>4, <2>4, <2>5
  <2>7. QED
    BY <1>4, <2>6
<1>8. QED
  BY <1>6, <1>7

-----------------------------------------------------------------------------
(* The numbers on a card.                                                  *)

ChunkOf(S, s) == {t \in S : s < Rank(t, S) /\ Rank(t, S) <= s + MAX_MERGE_COUNT}

NumbersOf(S, s) ==
    {((s \div MAX_MERGE_COUNT + 1) - 1) * MAX_MERGE_COUNT + Rank(t, ChunkOf(S, s)) :
        t \in ChunkOf(S, s)}

\* As many alerts come before a chunk as its start says.
LEMMA RankInChunk ==
    ASSUME NEW n \in Nat, NEW S \in SUBSET (1 .. n), NEW s \in 0 .. Cardinality(S),
           NEW t \in ChunkOf(S, s)
    PROVE  Rank(t, S) = s + Rank(t, ChunkOf(S, s))
<1> DEFINE C     == ChunkOf(S, s)
           Low   == {u \in S : Rank(u, S) <= s}
           Here  == {u \in C : u <= t}
           Upto  == {u \in S : u <= t}
<1>1. /\ IsFiniteSet(S) /\ Cardinality(S) \in Nat /\ s \in Nat
      /\ MAX_MERGE_COUNT \in Nat
  <2>1. IsFiniteSet(S) /\ Cardinality(S) \in Nat
    BY AlertsAreFinite
  <2>2. QED
    BY <2>1, ConfigAssumption
<1>2. \A u \in S : u \in Nat /\ Rank(u, S) \in Nat
  BY AlertsAreFinite
<1>3. \A u \in S, v \in S : u < v <=> Rank(u, S) < Rank(v, S)
  BY RankGrows
<1>4. C \subseteq S /\ t \in S /\ s < Rank(t, S)
      /\ Rank(t, S) <= s + MAX_MERGE_COUNT
  BY DEF ChunkOf
<1>5. Upto = Low \cup Here
  <2>1. \A u \in S : u <= t <=> Rank(u, S) <= Rank(t, S)
    BY <1>2, <1>3, <1>4
  <2>2. \A u \in Low : u \in S /\ Rank(u, S) <= Rank(t, S)
    BY <1>1, <1>2, <1>4
  <2>3. \A u \in S : Rank(u, S) <= Rank(t, S) => Rank(u, S) <= s \/ u \in C
    BY <1>1, <1>2, <1>4 DEF ChunkOf
  <2>4. Upto \subseteq Low \cup Here
    BY <2>1, <2>3
  <2>5. Low \subseteq Upto
    BY <2>1, <2>2
  <2>6. Here \subseteq Upto
    BY <1>4
  <2> HIDE DEF Low, Here, Upto
  <2>7. QED
    BY <2>4, <2>5, <2>6
<1>6. Low \cap Here = {}
  <2>1. \A u \in C : u \in S /\ s < Rank(u, S)
    BY DEF ChunkOf
  <2>2. \A u \in S : s < Rank(u, S) => ~(Rank(u, S) <= s)
    BY <1>1, <1>2
  <2> HIDE DEF C
  <2>3. QED
    BY <2>1, <2>2
<1>7. Cardinality(Low) = s
  <2>1. CASE s = 0
    <3>1. \A u \in S : ~(Rank(u, S) <= 0)
      <4>1. \A u \in S : 1 <= Rank(u, S)
        BY RankBounds
      <4>2. QED
        BY <1>2, <4>1
    <3>2. Low = {}
      BY <2>1, <3>1
    <3>3. QED
      BY <2>1, <3>2, FS_EmptySet
  <2>2. CASE s # 0
    <3>1. s \in 1 .. Cardinality(S)
      BY <1>1, <2>2
    <3>2. PICK w \in S : Rank(w, S) = s
      BY <3>1, RankIsReached
    <3>3. \A u \in S : Rank(u, S) <= s <=> u <= w
      BY <1>2, <1>3, <3>2
    <3>4. Low = {u \in S : u <= w}
      BY <3>3
    <3>5. QED
      BY <3>2, <3>4 DEF Rank
  <2>3. QED
    BY <2>1, <2>2
<1>8. /\ IsFiniteSet(Low) /\ IsFiniteSet(Here)
      /\ Cardinality(Here) \in Nat
  BY <1>1, <1>4, FS_Subset, FS_CardinalityType
<1>9. Cardinality(Upto) = Cardinality(Low) + Cardinality(Here)
  <2> HIDE DEF Low, Here, Upto, C
  <2>1. Cardinality(Low \cup Here) =
          Cardinality(Low) + Cardinality(Here) - Cardinality(Low \cap Here)
    BY <1>8, FS_Union
  <2>2. Cardinality(Low \cap Here) = 0
    BY <1>6, FS_EmptySet
  <2>3. QED
    BY <1>1, <1>5, <1>7, <1>8, <2>1, <2>2
<1>10. Rank(t, S) = Cardinality(Upto) /\ Rank(t, ChunkOf(S, s)) = Cardinality(Here)
  BY DEF Rank
<1>11. QED
  BY <1>7, <1>9, <1>10

LEMMA WholeParts ==
    ASSUME NEW N \in Nat \ {0}, NEW q \in Nat, NEW r \in 0 .. N - 1
    PROVE  (q * N + r) \div N = q
OBVIOUS

\* The numbers of a chunk are those after its start, to its end or the end of
\* the group.
LEMMA NumbersFollowStart ==
    ASSUME NEW n \in Nat, NEW S \in SUBSET (1 .. n), NEW s \in Nat,
           \E q \in Nat : s = q * MAX_MERGE_COUNT, s < Cardinality(S)
    PROVE  NumbersOf(S, s) =
             {m \in 1 .. Cardinality(S) : s < m /\ m <= s + MAX_MERGE_COUNT}
<1>0. PICK q \in Nat : s = q * MAX_MERGE_COUNT
  OBVIOUS
<1>1. PICK N \in Nat \ {0} : N = MAX_MERGE_COUNT
  BY ConfigAssumption
<1>2. s \div N = q
  <2>1. (q * N + 0) \div N = q
    BY <1>1, WholeParts
  <2>2. s = q * N + 0
    BY <1>0, <1>1
  <2>3. QED
    BY <2>1, <2>2
<1>3. Cardinality(S) \in Nat /\ \A t \in S : Rank(t, S) \in Nat
  BY AlertsAreFinite
<1>4. ((s \div N + 1) - 1) * N = s
  BY <1>0, <1>1, <1>2
<1>5. \A t \in ChunkOf(S, s) :
         /\ s + Rank(t, ChunkOf(S, s)) = Rank(t, S)
         /\ t \in S
  <2>1. s \in 0 .. Cardinality(S)
    BY <1>3
  <2>2. ASSUME NEW t \in ChunkOf(S, s)
        PROVE  s + Rank(t, ChunkOf(S, s)) = Rank(t, S)
    BY <2>1, RankInChunk
  <2>3. \A t \in ChunkOf(S, s) : t \in S
    BY DEF ChunkOf
  <2>4. QED
    BY <2>2, <2>3
<1>6. NumbersOf(S, s) = {Rank(t, S) : t \in ChunkOf(S, s)}
  BY <1>1, <1>4, <1>5 DEF NumbersOf
<1>7. \A t \in S : Rank(t, S) \in 1 .. Cardinality(S)
  <2>1. \A t \in S : 1 <= Rank(t, S) /\ Rank(t, S) <= Cardinality(S)
    BY RankBounds
  <2>2. QED
    BY <1>3, <2>1
<1>8. \A m \in 1 .. Cardinality(S) : \E t \in S : Rank(t, S) = m
  BY RankIsReached
<1>9. QED
  BY <1>1, <1>2, <1>6, <1>7, <1>8 DEF ChunkOf

-----------------------------------------------------------------------------
(* The dispatch.                                                           *)

\* A chunk starts after a whole number of chunks, and before the end.
ChunksAligned ==
    flushPc = "send" =>
        /\ \E q \in Nat : start = q * MAX_MERGE_COUNT
        /\ start < Cardinality(Alerts)

ContinueInv == CardInv /\ ChunksAligned

\* What a step does to the dispatch.
Begins     == \E k \in Keys : DispatchGroup(k)
StaysOut   == flushPc # "send" /\ flushPc' # "send"
StaysThere == /\ flushPc = "send" /\ flushPc' = "send"
              /\ UNCHANGED <<flight, current, start>>
GoesOn     == /\ flushPc = "send" /\ flushPc' = "send" /\ MoreChunks
              /\ start' = start + MAX_MERGE_COUNT
              /\ UNCHANGED <<flight, current>>
Settles    == /\ flushPc = "send" /\ flushPc' = "settle"
              /\ allOk' => ~MoreChunks
Restarts   == flushPc' = "scan"

LEMMA DispatchMoves ==
    ASSUME BufferInv, [Next]_vars
    PROVE  Begins \/ StaysOut \/ StaysThere \/ GoesOn \/ Settles \/ Restarts
<1>1. CASE HandlerNext \/ ClockStep \/ UNCHANGED vars
  <2>1. UNCHANGED <<flushPc, flight, current, start>>
    BY <1>1 DEF HandlerNext, HandlerStep, ReceiveNothing, ReceiveAlerts, BufferAlert,
                SkipAlert, RejectRequest, AcceptRequest, ClockStep, Tick,
                SetClockBack, vars, flushVars, chunkVars
  <2>2. QED
    BY <2>1 DEF StaysOut, StaysThere
<1>2. CASE ScanBuffer \/ EndOfRound
  BY <1>2 DEF ScanBuffer, EndOfRound, StaysOut, Restarts
<1>3. CASE \E k \in Keys : DispatchGroup(k)
  BY <1>3 DEF Begins
<1>4. CASE PostSucceeds \/ PostFails
  <2>1. flushPc = "send" /\ UNCHANGED <<flight, current>>
    BY <1>4 DEF PostSucceeds, PostFails
  <2>2. CASE NextChunk
    BY <2>1, <2>2 DEF NextChunk, GoesOn, Settles
  <2>3. CASE UNCHANGED <<start, flushPc>>
    BY <2>1, <2>3 DEF StaysThere
  <2>4. QED
    BY <1>4, <2>2, <2>3 DEF PostSucceeds, PostFails
<1>5. CASE DispatchRaises
  BY <1>5 DEF DispatchRaises, Settles
<1>6. CASE GroupSent \/ GroupDropped \/ StampGroup \/ GroupRequeued
  BY <1>6 DEF GroupSent, GroupDropped, StampGroup, GroupRequeued, LeaveFlight, StaysOut
<1>7. CASE Crash
  BY <1>7 DEF Crash, Restarts
<1>8. QED
  BY <1>1, <1>2, <1>3, <1>4, <1>5, <1>6, <1>7 DEF Next, ClockStep, FlushStep

\* The alerts of the group that a dispatch begins with.
LEMMA BeginsAtStart ==
    ASSUME CardInv, NEW k \in Keys, DispatchGroup(k)
    PROVE  /\ flushPc # "send" /\ flushPc' = "send" /\ start' = 0
           /\ Alerts' \in SUBSET (1 .. issued) /\ issued \in Nat
           /\ 0 < Cardinality(Alerts')
<1>1. /\ flushPc = "next" /\ flushPc' = "send" /\ current' = k /\ k \in InFlight
      /\ flight' = flight /\ start' = start
  BY DEF DispatchGroup, chunkVars
<1>2. start' = 0
  BY <1>1 DEF CardInv, ChunksCarded
<1>3. Alerts' = flight[k].alerts
  BY <1>1 DEF Alerts
<1>4. flight[k].alerts \in SUBSET (1 .. issued) /\ issued \in Nat
  BY DispatchedAlerts DEF CardInv, BufferInv, TypeOK
<1>5. flight[k].alerts # {}
  BY <1>1 DEF InFlight
<1>6. 0 < Cardinality(flight[k].alerts)
  <2>1. PICK t \in flight[k].alerts : TRUE
    BY <1>5
  <2>2. /\ Rank(t, flight[k].alerts) \in Nat
        /\ 1 <= Rank(t, flight[k].alerts)
        /\ Rank(t, flight[k].alerts) <= Cardinality(flight[k].alerts)
        /\ Cardinality(flight[k].alerts) \in Nat
    BY <1>4, <2>1, RankBounds
  <2>3. QED
    BY <2>2
<1>7. QED
  BY <1>1, <1>2, <1>3, <1>4, <1>6

LEMMA NextChunksAligned ==
    ASSUME ContinueInv, [Next]_vars
    PROVE  ChunksAligned'
<1>1. CASE Begins
  <2>1. PICK k \in Keys : DispatchGroup(k)
    BY <1>1 DEF Begins
  <2>2. start' = 0 /\ 0 < Cardinality(Alerts')
    BY <2>1, BeginsAtStart DEF ContinueInv
  <2>3. 0 = 0 * MAX_MERGE_COUNT
    BY ConfigAssumption
  <2>4. Cardinality(Alerts)' = Cardinality(Alerts')
    OBVIOUS
  <2>5. QED
    BY <2>2, <2>3, <2>4 DEF ChunksAligned
<1>2. CASE StaysOut \/ Settles \/ Restarts
  BY <1>2 DEF StaysOut, Settles, Restarts, ChunksAligned
<1>3. CASE StaysThere
  BY <1>3 DEF StaysThere, ContinueInv, ChunksAligned, Alerts
<1>4. CASE GoesOn
  <2>1. PICK q \in Nat : start = q * MAX_MERGE_COUNT
    BY <1>4 DEF GoesOn, ContinueInv, ChunksAligned
  <2>2. q + 1 \in Nat /\ start' = (q + 1) * MAX_MERGE_COUNT
    BY <1>4, <2>1, ConfigAssumption DEF GoesOn
  <2>3. Alerts' = Alerts /\ start' < Cardinality(Alerts)
    BY <1>4 DEF GoesOn, Alerts, MoreChunks
  <2>4. QED
    BY <2>2, <2>3 DEF ChunksAligned
<1>5. QED
  BY <1>1, <1>2, <1>3, <1>4, DispatchMoves DEF ContinueInv, CardInv

LEMMA ContinueInvariant == Spec => []ContinueInv
<1>1. Init => ContinueInv
  BY InitBufferInv
     DEF Init, ContinueInv, CardInv, ChunksCarded, SentWasCarded, ChunksAligned
<1>2. ContinueInv /\ [Next]_vars => ContinueInv'
  <2>1. BufferInv /\ [Next]_vars => BufferInv'
    BY NextTypeOK, NextFlushCoherent, NextConserves, NextFlightIsOlder
       DEF BufferInv
  <2>2. QED
    BY <2>1, NextKeepsCards, NextChunksAligned DEF CardInv, ContinueInv
<1>3. QED
  BY <1>1, <1>2, PTL DEF Spec

-----------------------------------------------------------------------------
(* The cards.                                                              *)

\* A card of a group of several alerts numbers them by their rank.
Numbered ==
    flushPc = "send" /\ Total > 1 =>
        /\ Card = MergedCard
        /\ Card.part = start \div MAX_MERGE_COUNT + 1
        /\ Card.numbers =
             {m \in 1 .. Total : start < m /\ m <= start + MAX_MERGE_COUNT}

LEMMA CardsAreNumbered == ContinueInv => Numbered
<1> SUFFICES ASSUME ContinueInv, flushPc = "send", Total > 1
             PROVE  /\ Card = MergedCard
                    /\ Card.part = start \div MAX_MERGE_COUNT + 1
                    /\ Card.numbers =
                         {m \in 1 .. Total : start < m /\ m <= start + MAX_MERGE_COUNT}
  BY DEF Numbered
<1>1. Card = MergedCard
  BY DEF Card
<1>2. /\ Alerts \in SUBSET (1 .. issued) /\ issued \in Nat /\ start \in Nat
  BY DispatchedAlerts DEF ContinueInv, CardInv, BufferInv, TypeOK
<1>3. PICK q \in Nat : start = q * MAX_MERGE_COUNT
  BY DEF ContinueInv, ChunksAligned
<1>4. start < Cardinality(Alerts)
  BY DEF ContinueInv, ChunksAligned
<1>5. NumbersOf(Alerts, start) =
        {m \in 1 .. Cardinality(Alerts) : start < m /\ m <= start + MAX_MERGE_COUNT}
  <2>0. PICK n \in Nat : n = issued
    BY <1>2
  <2>1. PICK S \in SUBSET (1 .. n), s \in Nat : S = Alerts /\ s = start
    BY <1>2, <2>0
  <2>2. (\E m \in Nat : s = m * MAX_MERGE_COUNT) /\ s < Cardinality(S)
    BY <1>3, <1>4, <2>1
  <2>3. NumbersOf(S, s) =
          {m \in 1 .. Cardinality(S) : s < m /\ m <= s + MAX_MERGE_COUNT}
    BY <2>2, NumbersFollowStart
  <2>4. QED
    BY <2>1, <2>3
<1>6. MergedCard.numbers = NumbersOf(Alerts, start)
  BY DEF MergedCard, Number, StartIndex, PartIndex, Chunk, NumbersOf, ChunkOf
<1>7. MergedCard.part = start \div MAX_MERGE_COUNT + 1
  BY DEF MergedCard, PartIndex
<1>8. QED
  BY <1>1, <1>5, <1>6, <1>7 DEF Total

\* The card of a step that stays at its chunk is the same.
LEMMA SameCard ==
    ASSUME UNCHANGED <<flight, current, start>>
    PROVE  Card' = Card
<1>1. Alerts' = Alerts
  BY DEF Alerts
<1>2. Total' = Total /\ TotalParts' = TotalParts /\ IsFiring' = IsFiring
      /\ SilenceLink' = SilenceLink
  BY <1>1 DEF Total, TotalParts, IsFiring, StatusOf, SilenceLink, NameOf
<1>3. FiringCard' = FiringCard /\ ResolvedCard' = ResolvedCard
  BY <1>2 DEF FiringCard, ResolvedCard, Button
<1>4. MergedCard' = MergedCard
  BY <1>1, <1>2
     DEF MergedCard, PartIndex, StartIndex, Number, Chunk, Rank, Button
<1>5. QED
  BY <1>2, <1>3, <1>4 DEF Card

\* The card of the next chunk differs in its part and its numbers.
LEMMA NextCard ==
    ASSUME ContinueInv, Numbered, Numbered', GoesOn
    PROVE  /\ Card'.colour = Card.colour /\ Card'.total = Card.total
           /\ Card'.parts = Card.parts /\ Card'.button = Card.button
           /\ Card'.part = Card.part + 1
           /\ \A n \in Card.numbers, m \in Card'.numbers : n < m
           /\ \E n \in Card.numbers : n + 1 \in Card'.numbers
<1> DEFINE N == MAX_MERGE_COUNT
<1>1. /\ N \in Nat \ {0} /\ start \in Nat
      /\ Total \in Nat
      /\ start + N < Total /\ start' = start + N
      /\ flushPc = "send" /\ flushPc' = "send"
      /\ flight' = flight /\ current' = current
  <2>1. Alerts \in SUBSET (1 .. issued) /\ issued \in Nat /\ start \in Nat
    BY DispatchedAlerts DEF ContinueInv, CardInv, BufferInv, TypeOK, GoesOn
  <2>2. Total \in Nat
    BY <2>1, AlertsAreFinite DEF Total
  <2>3. QED
    BY <2>1, <2>2, ConfigAssumption DEF GoesOn, MoreChunks, Total
<1>2. Alerts' = Alerts /\ Total' = Total /\ Total > 1
  BY <1>1 DEF Alerts, Total
<1>3. Card = MergedCard /\ Card' = MergedCard'
  BY <1>1, <1>2 DEF Numbered
<1>4. /\ Card'.colour = Card.colour /\ Card'.total = Card.total
      /\ Card'.parts = Card.parts /\ Card'.button = Card.button
  <2>1. TotalParts' = TotalParts /\ IsFiring' = IsFiring
        /\ SilenceLink' = SilenceLink
    BY <1>1, <1>2 DEF TotalParts, IsFiring, StatusOf, SilenceLink, NameOf
  <2>2. Button("group")' = Button("group")
    BY <2>1 DEF Button
  <2>3. QED
    BY <1>2, <1>3, <2>1, <2>2 DEF MergedCard
<1>5. Card'.part = Card.part + 1
  <2>1. PICK q \in Nat : start = q * N
    BY <1>1 DEF ContinueInv, ChunksAligned
  <2>2. start = q * N + 0 /\ start' = (q + 1) * N + 0 /\ q + 1 \in Nat /\ 0 \in 0 .. N - 1
    BY <1>1, <2>1
  <2>3. start \div N = q /\ start' \div N = q + 1
    BY <1>1, <2>2, WholeParts
  <2>4. Card.part = start \div N + 1 /\ Card'.part = start' \div N + 1
    BY <1>1, <1>2 DEF Numbered
  <2>5. QED
    BY <2>3, <2>4
<1>6. /\ Card.numbers = {m \in 1 .. Total : start < m /\ m <= start + N}
      /\ Card'.numbers = {m \in 1 .. Total : start + N < m /\ m <= start + N + N}
  BY <1>1, <1>2 DEF Numbered
<1>7. \A n \in Card.numbers, m \in Card'.numbers : n < m
  BY <1>1, <1>6
<1>8. \E n \in Card.numbers : n + 1 \in Card'.numbers
  <2>1. start + N \in Card.numbers /\ (start + N) + 1 \in Card'.numbers
    BY <1>1, <1>6
  <2>2. QED
    BY <2>1
<1>9. QED
  BY <1>4, <1>5, <1>7, <1>8

\* The card of the last chunk is the last part and ends with the group.
LEMMA LastCard ==
    ASSUME ContinueInv, Numbered, flushPc = "send", ~MoreChunks, Total > 1
    PROVE  Card.part = Card.parts /\ Card.total \in Card.numbers
<1>1. PICK N \in Nat \ {0} : N = MAX_MERGE_COUNT
  BY ConfigAssumption
<1>2. PICK T \in Nat : T = Total
  <2>1. Alerts \in SUBSET (1 .. issued) /\ issued \in Nat
    BY DispatchedAlerts DEF ContinueInv, CardInv, BufferInv, TypeOK
  <2>2. QED
    BY <2>1, AlertsAreFinite DEF Total
<1>3. start \in Nat /\ start < T /\ ~(start + N < T)
  BY <1>1, <1>2
     DEF ContinueInv, CardInv, BufferInv, TypeOK, ChunksAligned, MoreChunks, Total
<1>4. PICK q \in Nat : start = q * N
  BY <1>1 DEF ContinueInv, ChunksAligned
<1>5. q + 1 \in Nat /\ (q + 1) * N = start + N
  BY <1>1, <1>4
<1>6. T - start - 1 \in 0 .. N - 1 /\ T + N - 1 = (q + 1) * N + (T - start - 1)
  BY <1>1, <1>3, <1>5
<1>7. (T + N - 1) \div N = q + 1
  BY <1>5, <1>6, WholeParts
<1>8. start \div N = q
  <2>1. start = q * N + 0 /\ 0 \in 0 .. N - 1
    BY <1>4
  <2>2. QED
    BY <2>1, WholeParts
<1>9. Card = MergedCard /\ MergedCard.parts = TotalParts /\ MergedCard.total = Total
      /\ Card.part = start \div N + 1
      /\ Card.numbers = {m \in 1 .. T : start < m /\ m <= start + N}
  BY <1>1, <1>2 DEF Numbered, MergedCard
<1>10. TotalParts = (T + N - 1) \div N
  BY <1>1, <1>2 DEF TotalParts
<1>11. T \in {m \in 1 .. T : start < m /\ m <= start + N}
  BY <1>3
<1>12. QED
  BY <1>2, <1>7, <1>8, <1>9, <1>10, <1>11

\* The card that a dispatch begins with is the first part.
LEMMA FirstCard ==
    ASSUME Numbered', flushPc' = "send", start' = 0, Total' \in Nat, Total' > 1
    PROVE  Card'.part = 1 /\ 1 \in Card'.numbers
<1>1. PICK N \in Nat \ {0} : N = MAX_MERGE_COUNT
  BY ConfigAssumption
<1>2. 0 \div N = 0
  <2>1. 0 * N + 0 = 0 /\ 0 \in 0 .. N - 1
    OBVIOUS
  <2>2. QED
    BY <2>1, WholeParts
<1>3. /\ Card'.part = 0 \div N + 1
      /\ Card'.numbers = {m \in 1 .. Total' : 0 < m /\ m <= 0 + N}
  BY <1>1 DEF Numbered
<1>4. QED
  BY <1>2, <1>3

LEMMA StepContinues ==
    ASSUME ContinueInv, Numbered, Numbered', [Next]_vars
    PROVE  Continues
<1>1. CASE Begins
  <2>1. PICK k \in Keys : DispatchGroup(k)
    BY <1>1 DEF Begins
  <2>2. /\ flushPc # "send" /\ flushPc' = "send" /\ start' = 0
        /\ Alerts' \in SUBSET (1 .. issued) /\ issued \in Nat
    BY <2>1, BeginsAtStart DEF ContinueInv
  <2>3. Total' \in Nat
    <3>1. Total' = Cardinality(Alerts')
      BY DEF Total
    <3>2. QED
      BY <2>2, <3>1, AlertsAreFinite
  <2>4. QED
    BY <2>2, <2>3, FirstCard DEF Continues
<1>2. CASE StaysOut \/ Restarts
  BY <1>2 DEF StaysOut, Restarts, Continues
<1>3. CASE StaysThere
  <2>1. flushPc = "send" /\ flushPc' = "send" /\ Card' = Card
    BY <1>3, SameCard DEF StaysThere
  <2>2. QED
    BY <2>1 DEF Continues
<1>4. CASE GoesOn
  <2>1. flushPc = "send" /\ flushPc' = "send"
    BY <1>4 DEF GoesOn
  <2>2. QED
    BY <1>4, <2>1, NextCard DEF Continues
<1>5. CASE Settles
  <2>1. flushPc = "send" /\ flushPc' = "settle" /\ (allOk' => ~MoreChunks)
    BY <1>5 DEF Settles
  <2>2. QED
    BY <2>1, LastCard DEF Continues
<1>6. QED
  BY <1>1, <1>2, <1>3, <1>4, <1>5, DispatchMoves DEF ContinueInv, CardInv

\* The cards of a dispatch belong together, in any forwarder: parts, numbers
\* and counts go on from card to card, and the last one ends with the group.
THEOREM CardsOfADispatchContinue == Spec => CardsContinue
<1>1. Spec => [](ContinueInv /\ Numbered)
  BY CardsAreNumbered, ContinueInvariant, PTL
<1>2. Spec => [][Continues]_vars
  <2>1. ContinueInv /\ Numbered /\ Numbered' /\ [Next]_vars => Continues
    BY StepContinues
  <2>2. QED
    BY <1>1, <2>1, PTL DEF Spec
<1>3. QED
  BY <1>2, PTL DEF CardsContinue
=============================================================================
