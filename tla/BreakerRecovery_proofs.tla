----------------------- MODULE BreakerRecovery_proofs -----------------------
(***************************************************************************)
(* Proofs about BreakerRecovery, for any workflows, windows, percentages,  *)
(* thresholds, numbers of runs and faults: it is a CircuitBreaker, its     *)
(* health is that of the window, and a circuit that is stuck stays so.     *)
(***************************************************************************)
EXTENDS BreakerRecovery, CircuitBreaker_proofs, NaturalLemmas, SequenceTheorems

(* What has its values in a set has them in a larger one.                  *)
LEMMA Widened ==
  ASSUME NEW S, NEW T, NEW D, S \subseteq T, NEW s \in [D -> S]
  PROVE  s \in [D -> T]
<1>1. \A d \in D : s[d] \in T
  OBVIOUS
<1>. QED
  BY <1>1

(* The sums of the beginnings of a sequence.                               *)
IsSums(f, s, N) == /\ f \in [0..N -> Int] /\ f[0] = 0
                   /\ \A n \in 1..N : f[n] = f[n - 1] + s[n]

(* There are such sums.                                                    *)
LEMMA SumsExist ==
  ASSUME NEW N \in Nat, NEW s \in [1..N -> Int]
  PROVE  \E f : IsSums(f, s, N)
<1>. DEFINE S == {n \in 0..N : \E f : IsSums(f, s, n)}
<1>1. 0 \in S
  <2>. DEFINE f == [n \in 0..0 |-> 0]
  <2>1. IsSums(f, s, 0)
    BY DEF IsSums
  <2>. QED
    BY <2>1
<1>2. ASSUME NEW n \in 1..N, n - 1 \in S PROVE n \in S
  <2>1. PICK f : IsSums(f, s, n - 1)
    BY <1>2
  <2>. DEFINE g == [k \in 0..n |-> IF k = n THEN f[n - 1] + s[n] ELSE f[k]]
  <2>2. n - 1 \in Nat /\ f \in [0..(n - 1) -> Int] /\ f[n - 1] \in Int /\ s[n] \in Int
    BY <2>1 DEF IsSums
  <2>3. g \in [0..n -> Int] /\ g[n] = f[n - 1] + s[n] /\ \A k \in 0..(n - 1) : g[k] = f[k]
    BY <2>2
  <2>. HIDE DEF g
  <2>4. IsSums(g, s, n)
    <3>1. g[0] = 0
      BY <2>1, <2>2, <2>3 DEF IsSums
    <3>2. ASSUME NEW k \in 1..n PROVE g[k] = g[k - 1] + s[k]
      BY <2>1, <2>2, <2>3 DEF IsSums
    <3>. QED
      BY <2>3, <3>1, <3>2 DEF IsSums
  <2>. QED
    BY <2>4
<1>. HIDE DEF S
<1>3. \A n \in 0..N : n \in S
  BY <1>1, <1>2, UpTo, Zenon
<1>. QED
  BY <1>3 DEF S

(* The sum of a list is the last of them.                                  *)
LEMMA SumIsLast ==
  ASSUME NEW N \in Nat, NEW s \in [1..N -> Int]
  PROVE  \E f : IsSums(f, s, N) /\ Sum(s) = f[N]
<1>. DEFINE Eq(f) == f = [n \in 0..Len(s) |-> IF n = 0 THEN 0 ELSE f[n - 1] + s[n]]
<1>1. Len(s) = N
  <2>1. s \in Seq(Int) /\ DOMAIN s = 1..N
    OBVIOUS
  <2>. QED
    BY <2>1
<1>2. PICK f : IsSums(f, s, N)
  BY SumsExist
<1>3. Eq(f)
  BY <1>1, <1>2 DEF IsSums
<1>4. \E g : Eq(g) /\ Sum(s) = g[Len(s)]
  BY <1>3 DEF Sum
<1>5. ASSUME NEW g, Eq(g) PROVE IsSums(g, s, N)
  <2>1. g[0] = 0 /\ DOMAIN g = 0..N /\ g = [n \in DOMAIN g |-> g[n]]
    BY <1>1, <1>5
  <2>2. \A n \in 1..N : g[n] = g[n - 1] + s[n]
    BY <1>1, <1>5
  <2>. DEFINE S == {n \in 0..N : g[n] \in Int}
  <2>3. \A n \in 0..N : n \in S
    <3>1. 0 \in S
      BY <2>1
    <3>2. ASSUME NEW n \in 1..N, n - 1 \in S PROVE n \in S
      <4>1. g[n - 1] \in Int /\ s[n] \in Int /\ g[n] = g[n - 1] + s[n]
        BY <2>2, <3>2
      <4>. QED
        BY <4>1
    <3>. HIDE DEF S
    <3>. QED
      BY <3>1, <3>2, UpTo, Zenon
  <2>. QED
    BY <2>1, <2>2, <2>3 DEF IsSums
<1>. QED
  BY <1>1, <1>4, <1>5

(* Read backwards, a list has the same sum.                                *)
LEMMA SumReversed ==
  ASSUME NEW N \in Nat, NEW s \in [1..N -> Int], NEW r \in [1..N -> Int],
         \A i \in 1..N : r[i] = s[N + 1 - i]
  PROVE  Sum(r) = Sum(s) /\ Sum(s) \in Int
<1>1. PICK f : IsSums(f, s, N) /\ Sum(s) = f[N]
  BY SumIsLast
<1>2. PICK g : IsSums(g, r, N) /\ Sum(r) = g[N]
  BY SumIsLast
<1>. DEFINE S == {n \in 0..N : g[n] = f[N] - f[N - n]}
<1>3. 0 \in S
  BY <1>1, <1>2 DEF IsSums
<1>4. ASSUME NEW n \in 1..N, n - 1 \in S PROVE n \in S
  <2>1. g[n] = g[n - 1] + r[n] /\ g[n - 1] = f[N] - f[N - (n - 1)]
    BY <1>2, <1>4 DEF IsSums
  <2>. DEFINE k == N + 1 - n
  <2>2. k \in 1..N /\ k - 1 = N - n /\ N - (n - 1) = k
    OBVIOUS
  <2>3. f[k] = f[k - 1] + s[k] /\ r[n] = s[k]
    BY <1>1, <2>2 DEF IsSums
  <2>4. f[k] \in Int /\ f[k - 1] \in Int /\ f[N] \in Int /\ s[k] \in Int
    BY <1>1, <2>2 DEF IsSums
  <2>5. g[n] = f[N] - f[N - n]
    BY <2>1, <2>2, <2>3, <2>4
  <2>. QED
    BY <2>5
<1>. HIDE DEF S
<1>5. \A n \in 0..N : n \in S
  BY <1>3, <1>4, UpTo, Zenon
<1>6. g[N] = f[N] - f[N - N]
  BY <1>5 DEF S
<1>. QED
  BY <1>1, <1>2, <1>6 DEF IsSums

(* What lies between two bounds lies between them on the average.          *)
LEMMA SumWithin ==
  ASSUME NEW N \in Nat, NEW s \in [1..N -> 0..100]
  PROVE  Sum(s) \in 0..(100 * N)
<1>1. PICK f : IsSums(f, s, N) /\ Sum(s) = f[N]
  <2>1. 0..100 \subseteq Int
    OBVIOUS
  <2>2. s \in [1..N -> Int]
    BY <2>1, Widened, Zenon
  <2>. QED
    BY <2>2, SumIsLast
<1>. DEFINE S == {n \in 0..N : f[n] \in 0..(100 * n)}
<1>2. 0 \in S
  BY <1>1 DEF IsSums
<1>3. ASSUME NEW n \in 1..N, n - 1 \in S PROVE n \in S
  <2>1. f[n] = f[n - 1] + s[n] /\ f[n - 1] \in 0..(100 * (n - 1)) /\ s[n] \in 0..100
    BY <1>1, <1>3 DEF IsSums
  <2>2. ASSUME NEW a \in 0..(100 * (n - 1)), NEW b \in 0..100 PROVE a + b \in 0..(100 * n)
    OBVIOUS
  <2>3. f[n] \in 0..(100 * n)
    BY <2>1, <2>2
  <2>. QED
    BY <2>3
<1>. HIDE DEF S
<1>4. \A n \in 0..N : n \in S
  BY <1>2, <1>3, UpTo, Zenon
<1>. QED
  BY <1>1, <1>4 DEF S

(* The average of percentages is one.                                      *)
LEMMA AverageIsPercentage ==
  ASSUME NEW s \in Lists, s # <<>>
  PROVE  Average(s) \in 0..100
<1>1. PICK N \in 0..MaxList : s \in [1..N -> Pct]
  BY DEF Lists
<1>2. N \in Nat /\ N # 0 /\ Len(s) = N /\ s \in [1..N -> 0..100]
  <2>1. N \in Nat /\ s \in [1..N -> 0..100]
    <3>1. N \in Nat /\ Pct \subseteq 0..100
      BY <1>1, WindowAssumption
    <3>. QED
      BY <1>1, <3>1, Widened
  <2>2. s \in Seq(0..100) /\ DOMAIN s = 1..N
    BY <2>1
  <2>3. Len(s) = N
    BY <2>1, <2>2
  <2>4. N # 0
    BY <2>2, <2>3
  <2>. QED
    BY <2>1, <2>3, <2>4
<1>3. Sum(s) \in 0..(100 * N)
  BY <1>2, SumWithin
<1>4. ASSUME NEW a \in 0..(100 * N) PROVE a \div N \in 0..100
  BY <1>2
<1>. QED
  BY <1>2, <1>3, <1>4 DEF Average

(* Lists that are read backwards.                                          *)
LEMMA TrendReversed ==
  ASSUME NEW s \in Lists
  PROVE  /\ Trend(s) = "improving" <=> Trend(Reversed(s)) = "degrading"
         /\ Trend(s) = "stable" <=> Trend(Reversed(s)) = "stable"
<1>1. PICK N \in 0..MaxList : s \in [1..N -> Pct]
  BY DEF Lists
<1>2. N \in Nat /\ s \in [1..N -> Int]
  <2>1. N \in Nat /\ Pct \subseteq Int
    BY <1>1, WindowAssumption
  <2>. QED
    BY <1>1, <2>1, Widened
<1>. DEFINE r == Reversed(s)
            h == N \div 2
<1>3. s \in Seq(Int) /\ DOMAIN s = 1..N /\ Len(s) = N
  <2>1. s \in Seq(Int) /\ DOMAIN s = 1..N
    BY <1>2
  <2>. QED
    BY <1>2, <2>1
<1>4. r \in [1..N -> Int] /\ \A i \in 1..N : r[i] = s[N + 1 - i]
  BY <1>2, <1>3 DEF Reversed
<1>5. r \in Seq(Int) /\ Len(r) = N
  <2>1. r \in Seq(Int) /\ DOMAIN r = 1..N
    BY <1>2, <1>4
  <2>. QED
    BY <1>2, <2>1
<1>6. h \in Nat /\ 2 * h <= N
  BY <1>2
<1>. HIDE DEF h, r
<1>. DEFINE First(q) == SubSeq(q, 1, h)
            Last(q) == SubSeq(q, N - h + 1, N)
<1>7. ASSUME NEW q \in Seq(Int), Len(q) = N
      PROVE  /\ First(q) \in [1..h -> Int] /\ \A i \in 1..h : First(q)[i] = q[i]
             /\ Last(q) \in [1..h -> Int] /\ \A i \in 1..h : Last(q)[i] = q[N - h + i]
  <2>1. \A i \in 1..h : i \in 1..N /\ N - h + i \in 1..N
    BY <1>2, <1>6
  <2>2. First(q) = [i \in 1..h |-> q[i]]
    BY <1>2, <1>6, <1>7, <2>1
  <2>3. Last(q) = [i \in 1..h |-> q[N - h + i]]
    BY <1>2, <1>6, <1>7, <2>1
  <2>4. \A i \in 1..h : q[i] \in Int /\ q[N - h + i] \in Int
    BY <1>2, <1>7, <2>1
  <2>. HIDE DEF First, Last
  <2>. QED
    BY <2>2, <2>3, <2>4
<1>8. Sum(First(r)) = Sum(Last(s)) /\ Sum(Last(s)) \in Int
  <2>1. \A i \in 1..h : First(r)[i] = Last(s)[h + 1 - i]
    BY <1>2, <1>3, <1>4, <1>5, <1>6, <1>7
  <2>. HIDE DEF First, Last
  <2>. QED
    BY <1>3, <1>5, <1>6, <1>7, <2>1, SumReversed
<1>9. Sum(Last(r)) = Sum(First(s)) /\ Sum(First(s)) \in Int
  <2>1. \A i \in 1..h : Last(r)[i] = First(s)[h + 1 - i]
    BY <1>2, <1>3, <1>4, <1>5, <1>6, <1>7
  <2>. HIDE DEF First, Last
  <2>. QED
    BY <1>3, <1>5, <1>6, <1>7, <2>1, SumReversed
<1>. DEFINE up == Sum(Last(s)) - Sum(First(s))
            down == Sum(Last(r)) - Sum(First(r))
<1>10. up \in Int /\ down = -up
  BY <1>8, <1>9
<1>11. /\ Trend(s) = IF up > h THEN "improving" ELSE IF up < -h THEN "degrading" ELSE "stable"
       /\ Trend(r) = IF down > h THEN "improving" ELSE IF down < -h THEN "degrading" ELSE "stable"
  BY <1>3, <1>5 DEF Trend, h
<1>. HIDE DEF up, down
<1>. QED
  BY <1>6, <1>10, <1>11 DEF r
-----------------------------------------------------------------------------

(* A list that an aggregation reads is one of the lists it may read, and   *)
(* there are runs in it as soon as there are any.                          *)
LEMMA ListIsList ==
  ASSUME rows \in Seq(Rows), window \in Windows
  PROVE  ListRunHealths \in Lists /\ (rows # <<>> => ListRunHealths # <<>>)
<1>. DEFINE n  == Len(rows)
            lo == IF n > window THEN n - window + 1 ELSE 1
            s  == SubSeq(rows, lo, n)
<1>1. n \in Nat /\ window \in Nat /\ window >= 1 /\ window <= MaxList /\ MaxList \in Nat
  BY WindowAssumption
<1>2. lo \in Nat /\ lo >= 1 /\ lo <= n + 1 /\ n - lo + 1 <= window
      /\ (n # 0 => lo <= n) /\ \A i \in lo..n : rows[i] \in Rows
  BY <1>1
<1>. HIDE DEF lo, n
<1>3. PICK m \in Int : m = lo
  BY <1>2
<1>4. /\ s \in Seq(Rows)
      /\ Len(s) = IF m <= n THEN n - m + 1 ELSE 0
  BY <1>1, <1>2, <1>3, SubSeqProperties, SMT
<1>. HIDE DEF s
<1>5. Len(s) \in 0..MaxList /\ (n # 0 => Len(s) >= 1)
  BY <1>1, <1>2, <1>3, <1>4
<1>6. DOMAIN s = 1..Len(s) /\ \A i \in 1..Len(s) : s[i] \in Rows
  BY <1>4
<1>7. \A i \in 1..Len(s) : s[i].pct \in Pct
  BY <1>6 DEF Rows
<1>8. Percentages(s) \in [1..Len(s) -> Pct] /\ DOMAIN Percentages(s) = 1..Len(s)
  BY <1>6, <1>7 DEF Percentages
<1>9. Percentages(s) \in Lists
  BY <1>5, <1>8 DEF Lists
<1>10. rows # <<>> => Percentages(s) # <<>>
  <2>1. rows # <<>> => n # 0
    BY DEF n
  <2>2. n # 0 => 1 \in DOMAIN Percentages(s)
    BY <1>5, <1>8
  <2>. QED
    BY <2>1, <2>2
<1>11. ListRunHealths = Percentages(s)
  BY DEF ListRunHealths, s, lo, n
<1>. QED
  BY <1>9, <1>10, <1>11

(* Without the row of r, the table has the rows of the other runs.         *)
LEMMA OthersRows ==
  ASSUME rows \in Seq(Rows), RunsCountOnce, NEW r
  PROVE  /\ Others(r) \in Seq(Rows)
         /\ \A i \in 1..Len(Others(r)) : Others(r)[i].run # r
         /\ \A i, j \in 1..Len(Others(r)) : Others(r)[i].run = Others(r)[j].run => i = j
<1>. DEFINE I == {i \in DOMAIN rows : rows[i].run = r}
            k == CHOOSE i \in I : TRUE
            n == Len(rows)
            f == [i \in 1..(n - 1) |-> IF i < k THEN rows[i] ELSE rows[i + 1]]
<1>1. n \in Nat /\ DOMAIN rows = 1..n /\ \A i \in 1..n : rows[i] \in Rows
  OBVIOUS
<1>2. \A i, j \in 1..n : rows[i].run = rows[j].run => i = j
  BY <1>1 DEF RunsCountOnce
<1>3. CASE I = {}
  <2>1. Others(r) = rows
    BY <1>3 DEF Others
  <2>. QED
    BY <1>1, <1>2, <1>3, <2>1
<1>4. CASE I # {}
  <2>1. k \in 1..n /\ rows[k].run = r
    BY <1>1, <1>4
  <2>2. Others(r) = f
    BY <1>4 DEF Others
  <2>. HIDE DEF k, n
  <2>3. n - 1 \in Nat
    BY <1>1, <2>1
  <2>4. \A i \in 1..(n - 1) : /\ i < k => i \in 1..n /\ f[i] = rows[i]
                             /\ ~(i < k) => i + 1 \in 1..n /\ f[i] = rows[i + 1] /\ i + 1 # k
    BY <1>1, <2>1
  <2>5. f \in [1..(n - 1) -> Rows]
    BY <1>1, <2>4
  <2>6. f \in Seq(Rows) /\ Len(f) = n - 1
    BY <2>3, <2>5
  <2>7. \A i \in 1..(n - 1) : f[i].run # r
    BY <1>1, <1>2, <2>1, <2>4
  <2>8. \A i, j \in 1..(n - 1) : f[i].run = f[j].run => i = j
    BY <1>1, <1>2, <2>1, <2>4
  <2>. QED
    BY <2>2, <2>6, <2>7, <2>8
<1>. QED
  BY <1>3, <1>4

(* With its new row the run counts once.                                   *)
LEMMA SaveRows ==
  ASSUME rows \in Seq(Rows), RunsCountOnce, NEW r \in 1..MaxRuns, NEW p \in Pct,
         rows' = SaveRunHealth(r, p)
  PROVE  rows' \in Seq(Rows) /\ rows' # <<>> /\ RunsCountOnce'
<1>. DEFINE s == Others(r)
            x == [run |-> r, pct |-> p]
<1>1. /\ s \in Seq(Rows) /\ \A i \in 1..Len(s) : s[i].run # r
      /\ \A i, j \in 1..Len(s) : s[i].run = s[j].run => i = j
  BY OthersRows
<1>2. x \in Rows /\ x.run = r
  BY DEF Rows
<1>3. rows' = Append(s, x)
  BY DEF SaveRunHealth
<1>. HIDE DEF s, x
<1>4. /\ rows' \in Seq(Rows) /\ rows' # <<>> /\ Len(rows') = Len(s) + 1
      /\ \A i \in 1..Len(s) : rows'[i] = s[i]
      /\ rows'[Len(s) + 1] = x /\ Len(s) \in Nat
  BY <1>1, <1>2, <1>3, AppendProperties
<1>5. \A i \in DOMAIN rows' : i \in 1..Len(s) \/ i = Len(s) + 1
  BY <1>4
<1>. QED
  BY <1>1, <1>2, <1>4, <1>5 DEF RunsCountOnce
-----------------------------------------------------------------------------
Begun == \E w \in Workflow : wf[w] # Gone("unborn")

(* What evaluations have in hand exists: there is no administrator.        *)
EvalInv ==
  \A e \in Evaluator :
    /\ \A w \in eval[e].todo : Exists(w)
    /\ eval[e].w \in Workflow => Exists(eval[e].w)

(* Where the aggregations are.                                             *)
AggInv ==
  /\ runs > 0 => Begun
  /\ \A g \in Aggregator : /\ agg[g] # Unlisted => Begun
                           /\ agg[g].at = "idle" => agg[g] = Unlisted
  /\ agg["result"] # Unlisted => eval["event"].at = "idle" /\ rows # <<>>
  /\ agg["result"].at = "save" => agg["result"].list = ListRunHealths

(* The inductive invariant.                                                *)
RInv == Inv /\ RecoveryTypeOK /\ RunsCountOnce /\ HealthIsWindow /\ EvalInv /\ AggInv

(* The average of a list of runs is a health the breaker knows.            *)
LEMMA SavedHealth ==
  ASSUME RInv, NEW g \in Aggregator, agg[g].at = "save"
  PROVE  /\ Average(agg[g].list) \in Level \cup {NoRuns}
         /\ g = "result" => Average(agg[g].list) \in Level
<1>1. agg[g].list \in Lists
  BY DEF RInv, RecoveryTypeOK
<1>2. Average(<<>>) = NoRuns
  BY DEF Average
<1>3. g = "result" => agg[g].list # <<>>
  <2>1. g = "result" => agg[g].list = ListRunHealths /\ rows # <<>>
    BY DEF RInv, AggInv, Unlisted
  <2>. QED
    BY <2>1, ListIsList DEF RInv, RecoveryTypeOK
<1>. QED
  BY <1>1, <1>2, <1>3, AverageIsPercentage, WindowAssumption

(* Every step is a step of CircuitBreaker, or none of its business.        *)
LEMMA StepImplements ==
  ASSUME RInv, [RecoveryNext]_allVars
  PROVE  [Next]_vars
<1>1. ASSUME NEW g \in Aggregator, Save(g) PROVE Next
  <2>1. agg[g].at = "save" /\ agg[g] # Unlisted /\ NoFault /\ health' = Average(agg[g].list)
        /\ UNCHANGED <<wf, circuit, edit, opened>>
    BY <1>1 DEF Save, Unlisted
  <2>2. Begun
    BY <2>1 DEF RInv, AggInv
  <2>3. CASE g = "result"
    <3>1. health' \in Level
      BY <2>1, <2>3, SavedHealth
    <3>2. "event" \in Evaluator /\ eval["event"].at = "idle"
      BY <2>1, <2>3, BothEvaluate DEF RInv, AggInv
    <3>3. eval' = [eval EXCEPT !["event"] = [Resting EXCEPT !.at = "list", !.h = health']]
      BY <1>1, <2>3 DEF Save
    <3>4. HealthUpdated
      BY <2>1, <2>2, <3>1, <3>2, <3>3 DEF HealthUpdated, Begun
    <3>. QED
      BY <3>4 DEF Next
  <2>4. CASE g = "ticker"
    <3>1. health' \in Level \cup {NoRuns} /\ eval' = eval
      BY <1>1, <2>1, <2>4, SavedHealth DEF Save
    <3>2. Aggregate
      BY <2>1, <2>2, <3>1 DEF Aggregate, Begun
    <3>. QED
      BY <3>2 DEF Next
  <2>. QED
    BY <2>3, <2>4 DEF Aggregator
<1>2. ASSUME NEW g \in Aggregator, AggregationFails(g) PROVE HealthLost \/ UNCHANGED vars
  BY <1>2 DEF AggregationFails
<1>3. Crash => Restart
  BY DEF Crash
<1>4. Breaker => Tick \/ \E e \in Evaluator : EvaluateWorkflowType(e)
  BY DEF Breaker
<1>5. ASSUME NEW g \in Aggregator, ListHealths(g) PROVE UNCHANGED vars
  BY <1>5 DEF ListHealths, vars
<1>6. ASSUME NEW r \in 1..MaxRuns, NEW p \in Pct, StoreAnswer(r, p) PROVE UNCHANGED vars
  BY <1>6 DEF StoreAnswer, vars
<1>7. TriggerWorkflow \/ Lose \/ StartAggregation => UNCHANGED vars
  BY DEF TriggerWorkflow, Lose, StartAggregation, vars
<1>8. UNCHANGED allVars => UNCHANGED vars
  BY DEF allVars
<1>. QED
  BY <1>1, <1>2, <1>3, <1>4, <1>5, <1>6, <1>7, <1>8 DEF RecoveryNext, Next
-----------------------------------------------------------------------------
(* A step of an evaluation that has only workflows that exist in hand.     *)
LEMMA EvalOf ==
  ASSUME RInv, NEW e \in Evaluator, NEW x, eval' = [eval EXCEPT ![e] = x],
         \A w \in Workflow : Exists(w) => Exists(w)',
         \A w \in x.todo : w \in Workflow /\ Exists(w), x.w \in Workflow => Exists(x.w)
  PROVE  EvalInv'
<1>1. \A d \in Evaluator : eval'[d] = IF d = e THEN x ELSE eval[d]
  BY DEF RInv, Inv, TypeOK
<1>2. \A d \in Evaluator : \A w \in eval[d].todo : w \in Workflow
  BY DEF RInv, Inv, TypeOK, Evaluation
<1>. QED
  BY <1>1, <1>2 DEF RInv, EvalInv

(* An evaluation that rests or starts has nothing in hand.                 *)
LEMMA NothingInHand ==
  /\ Resting.todo = {} /\ Resting.w \notin Workflow /\ Resting.at = "idle"
  /\ \A h : LET x == [Resting EXCEPT !.at = "list", !.h = h]
            IN  x.todo = {} /\ x.w \notin Workflow /\ x.h = h
BY WorkflowAssumption DEF Resting

(* The breaker takes no workflow away, and keeps EvalInv.                  *)
LEMMA BreakerEval ==
  ASSUME RInv, Tick \/ \E e \in Evaluator : EvaluateWorkflowType(e)
  PROVE  /\ \A w \in Workflow : Exists(w) => Exists(w)'
         /\ Begun => Begun'
         /\ EvalInv' /\ health' = health
         /\ eval["event"].at = "idle" => eval'["event"].at = "idle"
<1>. DEFINE Rows1 == (\A w \in Workflow : Exists(w) => Exists(w)') /\ (Begun => Begun')
            Hand(x) == (\A w \in x.todo : w \in Workflow /\ Exists(w)) /\ (x.w \in Workflow => Exists(x.w))
<1>1. UNCHANGED wf => Rows1
  BY DEF Exists, Begun
<1>2. \A e \in Evaluator : Hand(eval[e]) /\ eval[e] \in Evaluation
  BY DEF RInv, EvalInv, Inv, TypeOK, Evaluation
<1>3. Hand(Resting) /\ \A h : Hand([Resting EXCEPT !.at = "list", !.h = h])
  BY NothingInHand
<1>4. eval \in [Evaluator -> Evaluation]
  BY DEF RInv, Inv, TypeOK
<1>5. CASE Tick
  <2>1. wf' = wf /\ health' = health
        /\ eval' = [eval EXCEPT !["ticker"] = [Resting EXCEPT !.at = "list", !.h = health]]
    BY <1>5 DEF Tick, ReadHealth
  <2>2. EvalInv'
    BY <1>1, <1>3, <2>1, EvalOf, BothEvaluate
  <2>3. eval'["event"] = eval["event"]
    BY <1>4, <2>1, BothEvaluate
  <2>. QED
    BY <1>1, <2>1, <2>2, <2>3
<1>6. ASSUME NEW e \in Evaluator, EvaluateWorkflowType(e), eval[e].at # "idle",
             Rows1, health' = health, NEW x, Hand(x), eval' = [eval EXCEPT ![e] = x]
      PROVE  /\ Rows1 /\ EvalInv' /\ health' = health
             /\ eval["event"].at = "idle" => eval'["event"].at = "idle"
  <2>1. EvalInv'
    BY <1>6, EvalOf
  <2>2. eval["event"].at = "idle" => eval'["event"] = eval["event"]
    BY <1>4, <1>6, BothEvaluate
  <2>. QED
    BY <1>6, <2>1, <2>2
<1>7. ASSUME NEW e \in Evaluator, EvaluateWorkflowType(e)
      PROVE  /\ eval[e].at # "idle" /\ Rows1 /\ health' = health
             /\ \E x : Hand(x) /\ eval' = [eval EXCEPT ![e] = x]
  <2>1. CASE List(e)
    <3>. DEFINE W == {w \in Workflow : Exists(w)}
                y == [eval[e] EXCEPT !.at = "policy", !.todo = W]
    <3>1. Hand(y)
      BY <1>2 DEF Evaluation
    <3>2. eval' = [eval EXCEPT ![e] = Resting] \/ eval' = [eval EXCEPT ![e] = y]
      BY <2>1 DEF List
    <3>3. eval[e].at # "idle" /\ UNCHANGED wf /\ health' = health
      BY <2>1 DEF List
    <3>. QED
      BY <1>1, <1>3, <3>1, <3>2, <3>3
  <2>2. ASSUME NEW w \in Workflow, ReadPolicy(e, w)
        PROVE  /\ eval[e].at # "idle" /\ Rows1 /\ health' = health
               /\ \E x : Hand(x) /\ eval' = [eval EXCEPT ![e] = x]
    <3>1. PICK v : eval' = [eval EXCEPT ![e] = [eval[e] EXCEPT !.at = "circuit", !.w = w,
                                                  !.todo = eval[e].todo \ {w}, !.verdict = v]]
      BY <2>2 DEF ReadPolicy
    <3>. DEFINE y == [eval[e] EXCEPT !.at = "circuit", !.w = w, !.todo = eval[e].todo \ {w}, !.verdict = v]
    <3>2. y.w = w /\ y.todo = eval[e].todo \ {w}
      BY <1>2 DEF Evaluation
    <3>3. w \in eval[e].todo
      BY <2>2 DEF ReadPolicy
    <3>4. Hand(y)
      BY <1>2, <3>2, <3>3
    <3>5. eval[e].at # "idle" /\ UNCHANGED wf /\ health' = health
      BY <2>2 DEF ReadPolicy
    <3>. QED
      BY <1>1, <3>1, <3>4, <3>5
  <2>3. CASE ReadCircuit(e)
    <3>1. PICK c, a : eval' = [eval EXCEPT ![e].saw = c, ![e].at = a]
      BY <2>3 DEF ReadCircuit
    <3>. DEFINE y == [eval[e] EXCEPT !.saw = c, !.at = a]
    <3>2. eval' = [eval EXCEPT ![e] = y]
      BY <1>4, <3>1
    <3>3. y.w = eval[e].w /\ y.todo = eval[e].todo
      BY <1>2 DEF Evaluation
    <3>4. Hand(y)
      BY <1>2, <3>3
    <3>5. eval[e].at # "idle" /\ UNCHANGED wf /\ health' = health
      BY <2>3 DEF ReadCircuit
    <3>. QED
      BY <1>1, <3>2, <3>4, <3>5
  <2>4. CASE SwitchWorkflow(e)
    <3>. DEFINE y == [eval[e] EXCEPT !.at = "save"]
                r == [wf[eval[e].w] EXCEPT !.active = eval[e].verdict = "closed", !.by = "circuit"]
    <3>1. eval' = [eval EXCEPT ![e] = y] /\ eval[e].at # "idle" /\ health' = health
      BY <1>4, <2>4 DEF SwitchWorkflow
    <3>2. y.w = eval[e].w /\ y.todo = eval[e].todo
      BY <1>2 DEF Evaluation
    <3>3. Hand(y)
      BY <1>2, <3>2
    <3>4. wf \in [Workflow -> Row \cup NoRow] /\ eval[e].w \in Workflow
      BY <2>4 DEF SwitchWorkflow, RInv, Inv, TypeOK
    <3>5. UNCHANGED wf \/ (Exists(eval[e].w) /\ wf' = [wf EXCEPT ![eval[e].w] = r])
      BY <2>4, <3>4 DEF SwitchWorkflow
    <3>6. Exists(eval[e].w) => r.by = "circuit"
      BY <3>4, ExistsRow DEF Row
    <3>7. Rows1
      <4>1. ASSUME Exists(eval[e].w), wf' = [wf EXCEPT ![eval[e].w] = r] PROVE Rows1
        <5>1. \A w \in Workflow : wf'[w] = wf[w] \/ wf'[w].by = "circuit"
          BY <3>4, <3>6, <4>1
        <5>2. \A w \in Workflow : wf'[w].by = "circuit" => wf'[w] # Gone("unborn")
          BY DEF Gone
        <5>. QED
          BY <5>1, <5>2 DEF Exists, Begun
      <4>. QED
        BY <1>1, <3>5, <4>1
    <3>. QED
      BY <3>1, <3>3, <3>7
  <2>5. CASE SaveCircuit(e)
    <3>. DEFINE y == [Resting EXCEPT !.at = "policy", !.h = eval[e].h, !.todo = eval[e].todo]
    <3>1. y.todo = eval[e].todo /\ y.w = NoWorkflow
      BY DEF Resting
    <3>2. Hand(y)
      BY <1>2, <3>1, WorkflowAssumption
    <3>3. eval' = [eval EXCEPT ![e] = Resting] \/ eval' = [eval EXCEPT ![e] = y]
      BY <2>5 DEF SaveCircuit, NextWorkflow
    <3>4. eval[e].at # "idle" /\ UNCHANGED wf /\ health' = health
      BY <2>5 DEF SaveCircuit
    <3>. QED
      BY <1>1, <1>3, <3>2, <3>3, <3>4
  <2>. QED
    BY <1>7, <2>1, <2>2, <2>3, <2>4, <2>5 DEF EvaluateWorkflowType
<1>8. ASSUME NEW e \in Evaluator, EvaluateWorkflowType(e)
      PROVE  /\ Rows1 /\ EvalInv' /\ health' = health
             /\ eval["event"].at = "idle" => eval'["event"].at = "idle"
  <2>1. eval[e].at # "idle" /\ Rows1 /\ health' = health
        /\ \E x : Hand(x) /\ eval' = [eval EXCEPT ![e] = x]
    BY <1>7, <1>8
  <2>2. PICK x : Hand(x) /\ eval' = [eval EXCEPT ![e] = x]
    BY <2>1
  <2>. QED
    BY <1>6, <1>8, <2>1, <2>2
<1>. QED
  BY <1>5, <1>8
-----------------------------------------------------------------------------
(* The part of RInv that is about the variables added to CircuitBreaker.   *)
Added == /\ window \in Windows
         /\ runs \in 0..MaxRuns /\ pending \subseteq 1..runs
         /\ rows \in Seq(Rows)
         /\ trend \in {"improving", "degrading", "stable"}
         /\ agg \in [Aggregator -> [at : {"idle", "list", "save"}, list : Lists]]
         /\ stale \in BOOLEAN
         /\ RunsCountOnce /\ HealthIsWindow /\ EvalInv /\ AggInv

(* The invariant of this module is what CircuitBreaker proves of itself    *)
(* and what BreakerRecovery adds to it.                                    *)
LEMMA RInvAdded == RInv <=> Inv /\ Added
BY DEF RInv, Added, RecoveryTypeOK, Inv

(* An aggregation that rests has a place in the types.                     *)
LEMMA UnlistedType ==
  /\ Unlisted \in [at : {"idle", "list", "save"}, list : Lists]
  /\ Unlisted.at = "idle" /\ [Unlisted EXCEPT !.at = "list"] # Unlisted
  /\ [Unlisted EXCEPT !.at = "list"] \in [at : {"idle", "list", "save"}, list : Lists]
  /\ [Unlisted EXCEPT !.at = "list"].at = "list"
<1>1. <<>> \in [1..0 -> Pct]
  OBVIOUS
<1>2. 0 \in 0..MaxList
  BY WindowAssumption
<1>3. <<>> \in Lists
  BY <1>1, <1>2 DEF Lists
<1>. QED
  BY <1>3 DEF Unlisted

(* The invariant holds when the process starts with an empty database.     *)
LEMMA RInvInit == RecoveryInit => RInv
<1>. SUFFICES ASSUME RecoveryInit PROVE RInv
  OBVIOUS
<1>1. Inv
  BY InitInv DEF RecoveryInit
<1>2. /\ runs = 0 /\ pending = {} /\ rows = <<>> /\ health = NoHealth /\ stale = FALSE
      /\ window \in Windows /\ trend = "stable" /\ agg = [g \in Aggregator |-> Unlisted]
      /\ \A e \in Evaluator : eval[e] = Resting
  BY DEF RecoveryInit, Init
<1>3. /\ agg \in [Aggregator -> [at : {"idle", "list", "save"}, list : Lists]]
      /\ \A g \in Aggregator : agg[g] = Unlisted
  BY <1>2, UnlistedType
<1>4. rows \in Seq(Rows) /\ DOMAIN rows = {} /\ runs \in 0..MaxRuns
  BY <1>2, WindowAssumption
<1>5. AggInv
  BY <1>2, <1>3, UnlistedType DEF AggInv, Aggregator
<1>6. EvalInv
  BY <1>2, NothingInHand DEF EvalInv
<1>7. RunsCountOnce /\ HealthIsWindow
  BY <1>2, <1>4 DEF RunsCountOnce, HealthIsWindow
<1>. QED
  BY <1>1, <1>2, <1>3, <1>4, <1>5, <1>6, <1>7, RInvAdded DEF Added

(* A run that starts, an answer that is lost and an aggregation that       *)
(* starts leave the stored healths alone.                                  *)
LEMMA RunSteps ==
  ASSUME RInv, TriggerWorkflow \/ Lose \/ StartAggregation
  PROVE  Added'
<1>. USE RInvAdded
<1>1. UNCHANGED <<vars, window, rows, trend, stale>>
  BY DEF TriggerWorkflow, Lose, StartAggregation
<1>2. /\ EvalInv' /\ RunsCountOnce' /\ (Begun <=> Begun') /\ ListRunHealths' = ListRunHealths
  BY <1>1 DEF vars, Added, EvalInv, Exists, RunsCountOnce, Begun, ListRunHealths
<1>3. CASE TriggerWorkflow \/ Lose
  <2>1. agg' = agg
    BY <1>3 DEF TriggerWorkflow, Lose
  <2>2. runs' \in 0..MaxRuns /\ pending' \subseteq 1..runs' /\ (runs' > 0 => Begun)
    BY <1>3, WindowAssumption DEF TriggerWorkflow, Lose, Added, AggInv, Begun, Exists, Gone
  <2>3. HealthIsWindow'
    BY <1>1, <1>2, <2>1 DEF Added, HealthIsWindow, vars
  <2>4. AggInv'
    BY <1>1, <1>2, <2>1, <2>2 DEF Added, AggInv, vars
  <2>. QED
    BY <1>1, <1>2, <2>1, <2>2, <2>3, <2>4 DEF Added
<1>4. CASE StartAggregation
  <2>1. /\ agg' = [agg EXCEPT !["ticker"] = [Unlisted EXCEPT !.at = "list"]]
        /\ runs' = runs /\ pending' = pending
    BY <1>4 DEF StartAggregation, Added, Aggregator
  <2>2. Begun
    BY <1>4 DEF StartAggregation, Begun, Exists, Gone
  <2>3. /\ agg' \in [Aggregator -> [at : {"idle", "list", "save"}, list : Lists]]
        /\ agg'["result"] = agg["result"] /\ agg'["ticker"].at = "list"
    BY <2>1, UnlistedType DEF Added, Aggregator
  <2>4. HealthIsWindow'
    BY <1>1, <1>2, <2>3 DEF Added, HealthIsWindow, vars
  <2>5. AggInv'
    BY <1>1, <1>2, <2>1, <2>2, <2>3 DEF Added, AggInv, Aggregator, vars
  <2>. QED
    BY <1>1, <1>2, <2>1, <2>3, <2>4, <2>5 DEF Added
<1>. QED
  BY <1>3, <1>4

(* An answer that is stored leaves its aggregation to be done, which is    *)
(* what makes up for the older average.                                    *)
LEMMA StoreAnswerStep ==
  ASSUME RInv, NEW r \in 1..MaxRuns, NEW p \in Pct, StoreAnswer(r, p)
  PROVE  Added'
<1>. USE RInvAdded
<1>1. /\ UNCHANGED <<vars, window, runs, pending, trend, stale>>
      /\ rows' = SaveRunHealth(r, p) /\ eval["event"].at = "idle" /\ r \in pending
      /\ agg["result"] = Unlisted
      /\ agg' = [agg EXCEPT !["result"] = [Unlisted EXCEPT !.at = "list"]]
  BY DEF StoreAnswer, Added, Aggregator
<1>2. EvalInv' /\ (Begun <=> Begun')
  BY <1>1 DEF vars, Added, EvalInv, Exists, Begun
<1>3. rows' \in Seq(Rows) /\ rows' # <<>> /\ RunsCountOnce'
  BY <1>1, SaveRows DEF Added
<1>4. /\ agg' \in [Aggregator -> [at : {"idle", "list", "save"}, list : Lists]]
      /\ agg'["ticker"] = agg["ticker"] /\ agg'["result"].at = "list" /\ agg'["result"] # Unlisted
  BY <1>1, UnlistedType DEF Added, Aggregator
<1>5. HealthIsWindow'
  BY <1>4 DEF HealthIsWindow
<1>6. runs > 0
  BY <1>1 DEF Added
<1>7. AggInv'
  BY <1>1, <1>2, <1>3, <1>4, <1>6 DEF Added, AggInv, Aggregator, vars
<1>. QED
  BY <1>1, <1>2, <1>3, <1>4, <1>5, <1>7 DEF Added

(* An aggregation lists the window it will save, as no answer is stored    *)
(* between.                                                                *)
LEMMA ListHealthsStep ==
  ASSUME RInv, NEW g \in Aggregator, ListHealths(g)
  PROVE  Added'
<1>. USE RInvAdded
<1>. DEFINE x == [at |-> "save", list |-> ListRunHealths]
<1>1. /\ UNCHANGED <<vars, window, runs, pending, rows, trend, stale>>
      /\ agg[g].at = "list" /\ agg' = [agg EXCEPT ![g] = x]
  BY DEF ListHealths
<1>2. EvalInv' /\ (Begun <=> Begun') /\ RunsCountOnce' /\ ListRunHealths' = ListRunHealths
  BY <1>1 DEF vars, Added, EvalInv, Exists, Begun, RunsCountOnce, ListRunHealths
<1>3. ListRunHealths \in Lists
  BY ListIsList DEF Added
<1>4. x \in [at : {"idle", "list", "save"}, list : Lists] /\ x.at = "save" /\ x.list = ListRunHealths
  BY <1>3
<1>. HIDE DEF x
<1>5. /\ agg' \in [Aggregator -> [at : {"idle", "list", "save"}, list : Lists]]
      /\ \A f \in Aggregator : agg'[f] = IF f = g THEN x ELSE agg[f]
  BY <1>1, <1>4 DEF Added
<1>6. agg[g] # Unlisted /\ x # Unlisted
  BY <1>1, <1>4, UnlistedType
<1>7. HealthIsWindow'
  BY <1>1, <1>2, <1>5, <1>6 DEF Added, HealthIsWindow, Aggregator, vars
<1>8. AggInv'
  BY <1>1, <1>2, <1>4, <1>5, <1>6 DEF Added, AggInv, Aggregator, vars
<1>. QED
  BY <1>1, <1>2, <1>5, <1>7, <1>8 DEF Added

(* The average that is saved is the one of the list, which only the ticker *)
(* may have read too early.                                                *)
LEMMA SaveStep ==
  ASSUME RInv, NEW g \in Aggregator, Save(g)
  PROVE  Added'
<1>. USE RInvAdded
<1>1. /\ UNCHANGED <<wf, circuit, edit, opened, window, runs, pending, rows>>
      /\ agg[g].at = "save" /\ agg' = [agg EXCEPT ![g] = Unlisted]
      /\ health' = Average(agg[g].list) /\ trend' = Trend(agg[g].list)
      /\ stale' = (g = "ticker" /\ agg[g].list # ListRunHealths)
  BY DEF Save
<1>2. (Begun <=> Begun') /\ RunsCountOnce' /\ ListRunHealths' = ListRunHealths
  BY <1>1 DEF Added, Begun, RunsCountOnce, ListRunHealths
<1>3. agg[g] # Unlisted
  BY <1>1, UnlistedType
<1>4. /\ agg' \in [Aggregator -> [at : {"idle", "list", "save"}, list : Lists]]
      /\ \A f \in Aggregator : agg'[f] = IF f = g THEN Unlisted ELSE agg[f]
  BY <1>1, UnlistedType DEF Added
<1>5. trend' \in {"improving", "degrading", "stable"}
  BY <1>1 DEF Trend
<1>6. EvalInv'
  <2>1. CASE g = "ticker"
    <3>1. eval' = eval
      BY <2>1 DEF Save
    <3>. QED
      BY <1>1, <3>1 DEF Added, EvalInv, Exists
  <2>2. CASE g = "result"
    <3>1. eval' = [eval EXCEPT !["event"] = [Resting EXCEPT !.at = "list", !.h = health']]
      BY <2>2 DEF Save
    <3>2. \A w \in Workflow : Exists(w) => Exists(w)'
      BY <1>1 DEF Exists
    <3>. QED
      BY <3>1, <3>2, NothingInHand, EvalOf, BothEvaluate
  <2>. QED
    BY <2>1, <2>2 DEF Aggregator
<1>7. HealthIsWindow'
  <2>1. g = "result" => agg[g].list = ListRunHealths
    BY <1>1 DEF Added, AggInv
  <2>2. ~stale' => agg[g].list = ListRunHealths
    BY <1>1, <2>1 DEF Aggregator
  <2>. QED
    BY <1>1, <1>2, <2>2 DEF HealthIsWindow
<1>8. AggInv'
  <2>1. agg'["result"] # Unlisted => g = "ticker" /\ eval' = eval
    BY <1>4 DEF Aggregator, Save
  <2>. QED
    BY <1>1, <1>2, <1>4, <2>1, UnlistedType DEF Added, AggInv, Aggregator
<1>. QED
  BY <1>1, <1>2, <1>4, <1>5, <1>6, <1>7, <1>8 DEF Added

(* An aggregation that fails leaves the average behind, and says so.       *)
LEMMA AggregationFailsStep ==
  ASSUME RInv, NEW g \in Aggregator, AggregationFails(g)
  PROVE  Added'
<1>. USE RInvAdded
<1>1. /\ UNCHANGED <<window, runs, pending, rows, trend>>
      /\ agg[g] # Unlisted /\ agg' = [agg EXCEPT ![g] = Unlisted]
      /\ stale' = (stale \/ g = "result")
      /\ (g = "result" /\ HealthLost) \/ UNCHANGED vars
  BY DEF AggregationFails
<1>2. wf' = wf /\ health' = health
  BY <1>1 DEF HealthLost, ReadHealth, vars
<1>3. (Begun <=> Begun') /\ RunsCountOnce' /\ ListRunHealths' = ListRunHealths
  BY <1>1, <1>2 DEF Added, Begun, RunsCountOnce, ListRunHealths
<1>4. /\ agg' \in [Aggregator -> [at : {"idle", "list", "save"}, list : Lists]]
      /\ \A f \in Aggregator : agg'[f] = IF f = g THEN Unlisted ELSE agg[f]
  BY <1>1, UnlistedType DEF Added
<1>5. EvalInv'
  <2>1. CASE UNCHANGED vars
    BY <2>1 DEF Added, EvalInv, Exists, vars
  <2>2. CASE HealthLost
    <3>1. eval' = [eval EXCEPT !["event"] = [Resting EXCEPT !.at = "list", !.h = health]]
      BY <2>2 DEF HealthLost, ReadHealth
    <3>2. \A w \in Workflow : Exists(w) => Exists(w)'
      BY <1>2 DEF Exists
    <3>. QED
      BY <3>1, <3>2, NothingInHand, EvalOf, BothEvaluate
  <2>. QED
    BY <1>1, <2>1, <2>2
<1>6. stale' \in BOOLEAN
  BY <1>1 DEF Added
<1>7. HealthIsWindow'
  <2>1. CASE g = "result"
    BY <1>1, <2>1 DEF HealthIsWindow
  <2>2. CASE g = "ticker"
    <3>1. agg'["result"] = agg["result"] /\ stale' = stale
      BY <1>1, <1>4, <2>2, <1>6 DEF Aggregator, Added
    <3>. QED
      BY <1>1, <1>2, <1>3, <3>1 DEF Added, HealthIsWindow
  <2>. QED
    BY <2>1, <2>2 DEF Aggregator
<1>8. AggInv'
  <2>1. agg'["result"] # Unlisted => eval' = eval /\ agg'["result"] = agg["result"]
    BY <1>1, <1>4 DEF Aggregator, vars
  <2>. QED
    BY <1>1, <1>3, <1>4, <2>1, UnlistedType DEF Added, AggInv, Aggregator
<1>. QED
  BY <1>1, <1>3, <1>4, <1>5, <1>6, <1>7, <1>8 DEF Added

(* A crash may come between storing an answer and saving its average, and  *)
(* leaves nothing in progress.                                             *)
LEMMA CrashStep ==
  ASSUME RInv, Crash
  PROVE  Added'
<1>. USE RInvAdded
<1>1. /\ UNCHANGED <<wf, health, window, runs, pending, rows, trend>> /\ stale' = TRUE
      /\ eval' = [e \in Evaluator |-> Resting] /\ agg' = [g \in Aggregator |-> Unlisted]
  BY DEF Crash, Restart
<1>2. (Begun <=> Begun') /\ RunsCountOnce'
  BY <1>1 DEF Added, Begun, RunsCountOnce
<1>3. /\ agg' \in [Aggregator -> [at : {"idle", "list", "save"}, list : Lists]]
      /\ \A g \in Aggregator : agg'[g] = Unlisted
  BY <1>1, UnlistedType
<1>4. EvalInv'
  BY <1>1, NothingInHand DEF EvalInv
<1>5. HealthIsWindow'
  BY <1>1 DEF HealthIsWindow
<1>6. AggInv'
  BY <1>1, <1>2, <1>3, UnlistedType DEF Added, AggInv, Aggregator
<1>. QED
  BY <1>1, <1>2, <1>3, <1>4, <1>5, <1>6 DEF Added

(* The steps of the circuit breaker do not touch the window.               *)
LEMMA BreakerStep ==
  ASSUME RInv, Breaker
  PROVE  Added'
<1>. USE RInvAdded
<1>1. UNCHANGED <<window, runs, pending, rows, trend, agg, stale>>
  BY DEF Breaker
<1>2. /\ Begun => Begun'
      /\ EvalInv' /\ health' = health
      /\ eval["event"].at = "idle" => eval'["event"].at = "idle"
  BY BreakerEval DEF Breaker
<1>3. RunsCountOnce' /\ ListRunHealths' = ListRunHealths
  BY <1>1 DEF Added, RunsCountOnce, ListRunHealths
<1>4. HealthIsWindow'
  BY <1>1, <1>2, <1>3 DEF Added, HealthIsWindow
<1>5. AggInv'
  BY <1>1, <1>2, <1>3 DEF Added, AggInv
<1>. QED
  BY <1>1, <1>2, <1>3, <1>4, <1>5 DEF Added

(* Every step keeps the invariant.                                         *)
LEMMA RInvNext == RInv /\ [RecoveryNext]_allVars => RInv'
<1>. SUFFICES ASSUME RInv, [RecoveryNext]_allVars PROVE RInv'
  OBVIOUS
<1>1. Inv'
  BY StepImplements, NextInv DEF RInv
<1>2. CASE UNCHANGED allVars
  <2>1. EvalInv' /\ AggInv' /\ HealthIsWindow' /\ RunsCountOnce'
    BY <1>2, RInvAdded DEF Added, allVars, recoveryVars, vars, EvalInv, AggInv, HealthIsWindow,
                           RunsCountOnce, Begun, Exists, ListRunHealths
  <2>2. Added'
    BY <1>2, <2>1, RInvAdded DEF Added, allVars, recoveryVars
  <2>. QED
    BY <1>1, <2>2, RInvAdded DEF RInv, Added, RecoveryTypeOK, Inv
<1>3. CASE RecoveryNext
  <2>1. Added'
    BY <1>3, RunSteps, StoreAnswerStep, ListHealthsStep, SaveStep, AggregationFailsStep, CrashStep,
       BreakerStep DEF RecoveryNext
  <2>. QED
    BY <1>1, <2>1 DEF RInv, Added, RecoveryTypeOK, Inv
<1>. QED
  BY <1>2, <1>3
-----------------------------------------------------------------------------
(* What an evaluation may be at while the circuits are stuck.              *)
Hopeless(x) == /\ \/ x.at \in {"idle", "list", "policy"}
                  \/ x.at \in {"circuit", "save"} /\ x.verdict = "open"
               /\ x.at # "idle" => Bad(x.h)

(* An evaluation that can only close nothing leaves a stuck circuit stuck. *)
LEMMA StuckEval ==
  ASSUME RInv, Stuck, NEW e \in Evaluator, NEW x, eval' = [eval EXCEPT ![e] = x], Hopeless(x),
         UNCHANGED <<wf, health, pending, agg>>,
         \A w \in Workflow : circuit'[w] = circuit[w] \/ circuit'[w] = "open"
  PROVE  Stuck'
<1>1. \A d \in Evaluator : eval'[d] = IF d = e THEN x ELSE eval[d]
  BY DEF RInv, Inv, TypeOK
<1>2. \A d \in Evaluator : Hopeless(eval[d])
  BY DEF Stuck, Hopeless
<1>3. \A d \in Evaluator : Hopeless(eval'[d])
  BY <1>1, <1>2
<1>4. \A w \in Workflow : (Exists(w)' <=> Exists(w)) /\ Policy(w)' = Policy(w)
  BY DEF Exists, Policy
<1>5. Bad(health)'
  BY <1>4 DEF Stuck, Bad
<1>6. ASSUME NEW d \in Evaluator, eval'[d].at # "idle" PROVE Bad(eval[d].h)'
  BY <1>3, <1>4, <1>6 DEF Hopeless, Bad
<1>. QED
  BY <1>3, <1>4, <1>5, <1>6 DEF Stuck, Hopeless

(* An evaluation of the breaker confirms what is stuck, unless a statement *)
(* fails.                                                                  *)
LEMMA StuckBreaker ==
  ASSUME RInv, Stuck, Breaker, ~Fault
  PROVE  Stuck'
<1>1. /\ eval \in [Evaluator -> Evaluation]
      /\ \A e \in Evaluator : Hopeless(eval[e]) /\ eval[e] \in Evaluation
  BY DEF Stuck, Hopeless, RInv, Inv, TypeOK
<1>2. UNCHANGED <<pending, agg>>
  BY DEF Breaker
<1>3. Hopeless(Resting)
  BY DEF Hopeless, Resting
<1>4. CASE Tick
  <2>. DEFINE x == [Resting EXCEPT !.at = "list", !.h = health]
  <2>1. "ticker" \in Evaluator /\ eval' = [eval EXCEPT !["ticker"] = x]
        /\ UNCHANGED <<wf, circuit, health>>
    BY <1>4 DEF Tick, ReadHealth
  <2>2. Hopeless(x)
    BY DEF Stuck, Hopeless, Resting
  <2>. HIDE DEF x
  <2>. QED
    BY <1>2, <2>1, <2>2, StuckEval
<1>5. ASSUME NEW e \in Evaluator, List(e) PROVE Stuck'
  <2>. DEFINE y == [eval[e] EXCEPT !.at = "policy", !.todo = {w \in Workflow : Exists(w)}]
  <2>1. eval' = [eval EXCEPT ![e] = Resting] \/ eval' = [eval EXCEPT ![e] = y]
    BY <1>5 DEF List
  <2>2. eval[e].at = "list" /\ UNCHANGED <<wf, circuit, health>>
    BY <1>5 DEF List
  <2>3. y.at = "policy" /\ y.h = eval[e].h
    BY <1>1 DEF Evaluation
  <2>4. Hopeless(y)
    BY <1>1, <2>2, <2>3 DEF Hopeless
  <2>. HIDE DEF y
  <2>. QED
    BY <1>2, <1>3, <2>1, <2>2, <2>4, StuckEval
<1>6. ASSUME NEW e \in Evaluator, NEW w \in Workflow, ReadPolicy(e, w) PROVE Stuck'
  <2>. DEFINE v == EvaluateHealth(Policy(w), eval[e].h)
              y == [eval[e] EXCEPT !.at = "circuit", !.w = w, !.todo = eval[e].todo \ {w}, !.verdict = v]
  <2>1. eval' = [eval EXCEPT ![e] = y]
    BY <1>6 DEF ReadPolicy
  <2>2. eval[e].at = "policy" /\ w \in eval[e].todo /\ UNCHANGED <<wf, circuit, health>>
    BY <1>6 DEF ReadPolicy
  <2>3. Exists(w) /\ Bad(eval[e].h)
    BY <1>1, <2>2 DEF RInv, EvalInv, Hopeless
  <2>4. v = "open"
    BY <2>3 DEF Bad
  <2>. HIDE DEF v
  <2>5. y.at = "circuit" /\ y.h = eval[e].h /\ y.verdict = v
    BY <1>1 DEF Evaluation
  <2>6. Hopeless(y)
    BY <2>3, <2>4, <2>5 DEF Hopeless
  <2>. HIDE DEF y
  <2>. QED
    BY <1>2, <2>1, <2>2, <2>6, StuckEval
<1>7. ASSUME NEW e \in Evaluator, ReadCircuit(e) PROVE Stuck'
  <2>. DEFINE w == eval[e].w
              y == [eval[e] EXCEPT !.saw = "open", !.at = "save"]
  <2>1. eval[e].at = "circuit" /\ eval[e].verdict = "open" /\ UNCHANGED <<wf, circuit, health>>
    BY <1>1, <1>7 DEF ReadCircuit, Hopeless
  <2>2. w \in Workflow /\ Exists(w)
    BY <2>1 DEF RInv, Inv, TypeOK, EvalInv
  <2>3. CircuitState(w) = "open"
    BY <2>2 DEF Stuck, CircuitState
  <2>4. eval' = [eval EXCEPT ![e].saw = "open", ![e].at = "save"]
    BY <1>7, <2>1, <2>3 DEF ReadCircuit
  <2>5. eval' = [eval EXCEPT ![e] = y]
    BY <1>1, <2>4
  <2>6. y.at = "save" /\ y.h = eval[e].h /\ y.verdict = eval[e].verdict
    BY <1>1 DEF Evaluation
  <2>7. Hopeless(y)
    BY <1>1, <2>1, <2>6 DEF Hopeless
  <2>. HIDE DEF y
  <2>. QED
    BY <1>2, <2>1, <2>5, <2>7, StuckEval
<1>8. ASSUME NEW e \in Evaluator, SwitchWorkflow(e) PROVE FALSE
  BY <1>1, <1>8 DEF SwitchWorkflow, Hopeless
<1>9. ASSUME NEW e \in Evaluator, SaveCircuit(e) PROVE Stuck'
  <2>. DEFINE y == [Resting EXCEPT !.at = "policy", !.h = eval[e].h, !.todo = eval[e].todo]
  <2>1. /\ eval[e].at = "save" /\ eval[e].verdict = "open" /\ Bad(eval[e].h)
        /\ UNCHANGED <<wf, health>>
    BY <1>1, <1>9 DEF SaveCircuit, Hopeless
  <2>2. circuit' = [circuit EXCEPT ![eval[e].w] = "open"] /\ eval' = [eval EXCEPT ![e] = NextWorkflow(e)]
    BY <1>9, <2>1 DEF SaveCircuit
  <2>3. Hopeless(y)
    BY <2>1 DEF Hopeless, Resting
  <2>4. Hopeless(NextWorkflow(e))
    BY <1>3, <2>3 DEF NextWorkflow
  <2>5. \A w \in Workflow : circuit'[w] = circuit[w] \/ circuit'[w] = "open"
    BY <2>2 DEF RInv, Inv, TypeOK
  <2>. QED
    BY <1>2, <2>1, <2>2, <2>4, <2>5, StuckEval
<1>. QED
  BY <1>4, <1>5, <1>6, <1>7, <1>8, <1>9 DEF Breaker, EvaluateWorkflowType

(* Nothing but a fault ends being stuck.                                   *)
LEMMA StuckStep ==
  ASSUME RInv, Stuck, [RecoveryNext]_allVars
  PROVE  Stuck' \/ Fault
<1>. SUFFICES ASSUME ~Fault PROVE Stuck'
  OBVIOUS
<1>1. Unlisted.at = "idle" /\ \A g \in Aggregator : agg[g] = Unlisted
  BY DEF Unlisted, Stuck
<1>2. pending = {} /\ \A w \in Workflow : ~(Exists(w) /\ wf[w].active)
  BY DEF Stuck
<1>3. ~TriggerWorkflow /\ ~Lose /\ ~StartAggregation
  BY <1>2 DEF TriggerWorkflow, Lose, StartAggregation
<1>4. \A r \in 1..MaxRuns, p \in Pct : ~StoreAnswer(r, p)
  BY <1>2 DEF StoreAnswer
<1>5. \A g \in Aggregator : ~ListHealths(g) /\ ~Save(g) /\ ~AggregationFails(g)
  BY <1>1 DEF ListHealths, Save, AggregationFails
<1>6. ~Crash
  BY DEF Crash, Restart
<1>7. CASE UNCHANGED allVars
  BY <1>7 DEF Stuck, Bad, Exists, Policy, allVars, vars, recoveryVars
<1>. QED
  BY <1>3, <1>4, <1>5, <1>6, <1>7, StuckBreaker DEF RecoveryNext
-----------------------------------------------------------------------------
(* Runs, answers, aggregations and evaluations keep RInv.                  *)
THEOREM RecoveryInvariance == RecoverySpec => []RInv
BY RInvInit, RInvNext, PTL DEF RecoverySpec

(* Every variable of BreakerRecovery keeps its type (health_monitoring.go).*)
THEOREM RecoveryTyping == RecoverySpec => []RecoveryTypeOK
<1>1. RInv => RecoveryTypeOK
  BY DEF RInv
<1>. QED
  BY <1>1, RecoveryInvariance, PTL

(* A run counts once in the window (SaveRunHealth in health_repo.go).      *)
THEOREM Once == RecoverySpec => []RunsCountOnce
<1>1. RInv => RunsCountOnce
  BY DEF RInv
<1>. QED
  BY <1>1, RecoveryInvariance, PTL

(* The row of the type is the average of the window whenever no answer is  *)
(* being handled, but for what the ticker saves late, and failures         *)
(* (AggregateWorkflowTypeHealth in health_monitoring.go).                  *)
THEOREM Windowed == RecoverySpec => []HealthIsWindow
<1>1. RInv => HealthIsWindow
  BY DEF RInv
<1>. QED
  BY <1>1, RecoveryInvariance, PTL

(* A circuit that no answer can close stays open, for ever, unless a       *)
(* statement fails (EvaluateWorkflowType with cmd/main.go).                *)
THEOREM Sticking == RecoverySpec => StuckStaysStuck
<1>1. RInv /\ [RecoveryNext]_allVars => [Stuck => Stuck' \/ Fault]_allVars
  BY StuckStep
<1>. QED
  BY <1>1, RecoveryInvariance, PTL DEF RecoverySpec, StuckStaysStuck

(* What runs, answers and aggregations do to the breaker's rows is what    *)
(* CircuitBreaker allows: its theorems hold of the composition.            *)
THEOREM Implementation == RecoverySpec => ImplementsCircuitBreaker
<1>1. RecoveryInit => Init
  BY DEF RecoveryInit
<1>2. RInv /\ [RecoveryNext]_allVars => [Next]_vars
  BY StepImplements
<1>. QED
  BY <1>1, <1>2, RecoveryInvariance, PTL DEF RecoverySpec, Spec, ImplementsCircuitBreaker

(* In the composition too, a workflow is reactivated only if its circuit   *)
(* has once been open (EvaluateWorkflowType).                              *)
THEOREM RecoveryReopening == RecoverySpec => OnlyOpenedAreReopened
BY Implementation, Reopening, PTL DEF ImplementsCircuitBreaker

(* And as long as its evaluations do not overlap and nothing fails, what   *)
(* the service has switched agrees with the circuit, whatever averages the *)
(* runs bring about (EvaluateWorkflowType with health_monitoring.go).      *)
THEOREM RecoveryAgreement == RecoverySpec => SerialEvaluationsAgree
BY Implementation, Agreement, PTL DEF ImplementsCircuitBreaker

(* For windows of any length, to improve and to degrade mean the same but  *)
(* for the order of the runs (CalculateTrend in health.go).                *)
THEOREM TrendFairness == RecoverySpec => []TrendIsFair
<1>1. TrendIsFair
  BY TrendReversed DEF TrendIsFair
<1>. QED
  BY <1>1, PTL
=============================================================================
