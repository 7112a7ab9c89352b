--------------------------- MODULE BreakerRecovery ---------------------------
(***************************************************************************)
(* CircuitBreaker with the runs its health comes from: active workflows    *)
(* make runs, the result goroutine stores the health of a run with every   *)
(* answer, and the aggregations of the result goroutine and of the ticker  *)
(* of main list the health window and save its average, in two statements. *)
(* The administrator is left out: nothing here waits for him.              *)
(***************************************************************************)
EXTENDS CircuitBreaker, Sequences

CONSTANTS MaxRuns,  \* bound on the runs
          Pct,      \* success percentages of a run
          Windows,  \* what HEALTH_WINDOW_SIZE may be
          MaxList   \* bound on the windows the trend is checked for

VARIABLES
  window,   \* HEALTH_WINDOW_SIZE
  runs,     \* how many runs there are: they are 1..runs
  pending,  \* the runs that answers may still come to
  rows,     \* table run_health, ordered by calculated_at
  trend,    \* the trend in workflow_type_health
  agg,      \* agg[g]: where AggregateWorkflowTypeHealth is in goroutine g
  stale     \* history: an answer overtook the save of the ticker, or was lost

recoveryVars == <<window, runs, pending, rows, trend, agg, stale>>
allVars == <<vars, recoveryVars>>

Aggregator == {"result", "ticker"}

Unlisted == [at |-> "idle", list |-> <<>>]

Sum(s) == LET S[n \in 0..Len(s)] == IF n = 0 THEN 0 ELSE S[n - 1] + s[n] IN S[Len(s)]

(* AggregateWorkflowHealth: the mean, of percentages that are exact here.  *)
Average(s) == IF s = <<>> THEN NoRuns ELSE Sum(s) \div Len(s)

(* Wrong: the run in the middle counts as newer.                           *)
TrendUneven(s) ==
  LET half  == Len(s) \div 2
      delta == Sum(SubSeq(s, half + 1, Len(s))) - Sum(SubSeq(s, 1, half))
  IN  IF delta > half THEN "improving" ELSE IF delta < -half THEN "degrading" ELSE "stable"

(* CalculateTrend: the means of the two halves differ by more than 1; of   *)
(* an odd number of runs the one in the middle is in neither.              *)
Trend(s) ==
  LET half  == Len(s) \div 2
      delta == Sum(SubSeq(s, Len(s) - half + 1, Len(s))) - Sum(SubSeq(s, 1, half))
  IN  IF delta > half THEN "improving" ELSE IF delta < -half THEN "degrading" ELSE "stable"

Lists == UNION {[1..n -> Pct] : n \in 0..MaxList}

ASSUME WindowAssumption == /\ MaxRuns \in Nat /\ MaxList \in Nat
                           /\ Windows \subseteq 1..MaxList /\ Pct \subseteq 0..100
                           /\ Level = 0..100

ASSUME BothEvaluate == Evaluator = {"event", "ticker"}

(* ListRunHealths: the newest rows, the oldest of them first.              *)
Percentages(s) == [i \in DOMAIN s |-> s[i].pct]

ListRunHealths ==
  Percentages(SubSeq(rows, IF Len(rows) > window THEN Len(rows) - window + 1 ELSE 1, Len(rows)))

RecoveryInit == /\ Init
                /\ window \in Windows
                /\ runs = 0 /\ pending = {} /\ rows = <<>>
                /\ trend = "stable"
                /\ agg = [g \in Aggregator |-> Unlisted]
                /\ stale = FALSE
-----------------------------------------------------------------------------
(* Wrong: the run is dispatched, but not saved.                            *)
TriggerUnsaved ==
  /\ \E w \in Workflow : Exists(w) /\ wf[w].active
  /\ runs < MaxRuns
  /\ pending' = pending \cup {runs + 1}
  /\ UNCHANGED <<vars, window, runs, rows, trend, agg, stale>>

(* TriggerWorkflow finds a workflow active.  From then on answers come,    *)
(* whatever becomes of the workflow.                                       *)
TriggerWorkflow ==
  /\ \E w \in Workflow : Exists(w) /\ wf[w].active
  /\ runs < MaxRuns
  /\ runs' = runs + 1
  /\ pending' = pending \cup {runs + 1}
  /\ UNCHANGED <<vars, window, rows, trend, agg, stale>>

(* The answers that have not come are lost, or will never be sent.         *)
Lose == /\ pending # {}
        /\ pending' = {}
        /\ UNCHANGED <<vars, window, runs, rows, trend, agg, stale>>

(* Wrong: the row that r has is left where it is.                          *)
SaveRunHealthAnew(r, p) == Append(rows, [run |-> r, pct |-> p])

(* The rows of other runs than r, whose row there may be.                  *)
Others(r) ==
  LET I == {i \in DOMAIN rows : rows[i].run = r}
      k == CHOOSE i \in I : TRUE
  IN  IF I = {} THEN rows
                ELSE [i \in 1..(Len(rows) - 1) |-> IF i < k THEN rows[i] ELSE rows[i + 1]]

(* SaveRunHealth: an upsert, with a new calculated_at.                     *)
SaveRunHealth(r, p) == Append(Others(r), [run |-> r, pct |-> p])

(* Wrong: the type is aggregated by the ticker only.                       *)
StoreAnswerOnly(r, p) ==
  /\ r \in pending
  /\ agg["result"] = Unlisted /\ eval["event"].at = "idle"
  /\ rows' = SaveRunHealth(r, p)
  /\ UNCHANGED <<vars, window, runs, pending, trend, agg, stale>>

(* Wrong: the next answer is stored while health.updated is handled.       *)
StoreAnswerAsync(r, p) ==
  /\ r \in pending
  /\ agg["result"] = Unlisted
  /\ rows' = SaveRunHealth(r, p)
  /\ agg' = [agg EXCEPT !["result"].at = "list"]
  /\ UNCHANGED <<vars, window, runs, pending, trend, stale>>

(* CalculateRunHealth: an answer to r makes its percentage p.              *)
StoreAnswer(r, p) ==
  /\ r \in pending
  /\ agg["result"] = Unlisted /\ eval["event"].at = "idle"
  /\ rows' = SaveRunHealth(r, p)
  /\ agg' = [agg EXCEPT !["result"].at = "list"]
  /\ UNCHANGED <<vars, window, runs, pending, trend, stale>>

(* Wrong: every type is aggregated, that has a workflow.                   *)
StartAggregationAlways ==
  /\ agg["ticker"] = Unlisted
  /\ \E w \in Workflow : Exists(w)
  /\ agg' = [agg EXCEPT !["ticker"].at = "list"]
  /\ UNCHANGED <<vars, window, runs, pending, rows, trend, stale>>

(* The ticker of main lists the active workflows: a type without any is    *)
(* not aggregated.                                                         *)
StartAggregation ==
  /\ agg["ticker"] = Unlisted
  /\ \E w \in Workflow : Exists(w) /\ wf[w].active
  /\ agg' = [agg EXCEPT !["ticker"].at = "list"]
  /\ UNCHANGED <<vars, window, runs, pending, rows, trend, stale>>

ListHealths(g) == /\ agg[g].at = "list"
                  /\ agg' = [agg EXCEPT ![g] = [at |-> "save", list |-> ListRunHealths]]
                  /\ UNCHANGED <<vars, window, runs, pending, rows, trend, stale>>

(* SaveWorkflowTypeHealth: an upsert; the result goroutine then publishes  *)
(* health.updated.                                                         *)
Save(g) ==
  /\ agg[g].at = "save"
  /\ health' = Average(agg[g].list)
  /\ trend' = Trend(agg[g].list)
  /\ agg' = [agg EXCEPT ![g] = Unlisted]
  /\ stale' = (g = "ticker" /\ agg[g].list # ListRunHealths)
  /\ eval' = IF g = "result"
               THEN [eval EXCEPT !["event"] = [Resting EXCEPT !.at = "list", !.h = health']]
               ELSE eval
  /\ NoFault
  /\ UNCHANGED <<wf, circuit, edit, opened, window, runs, pending, rows>>

(* A statement of the aggregation fails.  The result goroutine publishes   *)
(* health.updated without a health, which is then read from the table, if  *)
(* there is one.                                                           *)
AggregationFails(g) ==
  /\ agg[g] # Unlisted
  /\ agg' = [agg EXCEPT ![g] = Unlisted]
  /\ stale' = (stale \/ g = "result")
  /\ IF g = "result" /\ health # NoHealth THEN HealthLost ELSE UNCHANGED vars
  /\ UNCHANGED <<window, runs, pending, rows, trend>>

Crash == /\ Restart
         /\ agg' = [g \in Aggregator |-> Unlisted]
         /\ stale' = TRUE
         /\ UNCHANGED <<window, runs, pending, rows, trend>>

Breaker == /\ \/ Tick
              \/ \E e \in Evaluator : EvaluateWorkflowType(e)
           /\ UNCHANGED <<window, runs, pending, rows, trend, agg, stale>>

RecoveryNext == \/ TriggerWorkflow \/ Lose
                \/ \E r \in 1..MaxRuns, p \in Pct : StoreAnswer(r, p)
                \/ StartAggregation
                \/ \E g \in Aggregator : ListHealths(g) \/ Save(g) \/ AggregationFails(g)
                \/ Breaker \/ Crash

RecoverySpec == RecoveryInit /\ [][RecoveryNext]_allVars
-----------------------------------------------------------------------------
Rows == [run : 1..MaxRuns, pct : Pct]

RecoveryTypeOK == /\ TypeOK
                  /\ window \in Windows
                  /\ runs \in 0..MaxRuns /\ pending \subseteq 1..runs
                  /\ rows \in Seq(Rows)
                  /\ trend \in {"improving", "degrading", "stable"}
                  /\ agg \in [Aggregator -> [at : {"idle", "list", "save"}, list : Lists]]
                  /\ stale \in BOOLEAN

(* A run counts once in the window, whatever answers come late, twice or   *)
(* out of order (SaveRunHealth in health_repo.go).                         *)
RunsCountOnce == \A i, j \in DOMAIN rows : rows[i].run = rows[j].run => i = j

(* The row of the type is that of the window once the answers are handled. *)
(* Only the ticker can save what it listed before an answer came, and only *)
(* until the type is aggregated again; the result goroutine never does     *)
(* (AggregateWorkflowTypeHealth in health_monitoring.go).                  *)
HealthIsWindow ==
  agg["result"] = Unlisted /\ ~stale /\ health # NoHealth
    => health = Average(ListRunHealths) /\ trend = Trend(ListRunHealths)

Reversed(s) == [i \in DOMAIN s |-> s[Len(s) + 1 - i]]

(* README.md:478-480: improving and degrading mean the same but for the    *)
(* order of the runs: a window read backwards has the opposite trend       *)
(* (CalculateTrend in health.go).  Checked while there are no runs.        *)
TrendIsFair ==
  runs = 0 => \A s \in Lists :
    /\ Trend(s) = "improving" <=> Trend(Reversed(s)) = "degrading"
    /\ Trend(s) = "stable" <=> Trend(Reversed(s)) = "stable"

Bad(h) == h # NoHealth /\ \A w \in Workflow : Exists(w) => EvaluateHealth(Policy(w), h) = "open"

(* No workflow is active, every circuit is open, no answer is to come and  *)
(* nothing in progress knows better.                                       *)
Stuck == /\ \A w \in Workflow : Exists(w) => ~wf[w].active /\ circuit[w] = "open"
         /\ pending = {} /\ Bad(health)
         /\ \A g \in Aggregator : agg[g] = Unlisted
         /\ \A e \in Evaluator :
              \/ eval[e].at \in {"idle", "list", "policy"}
              \/ eval[e].at \in {"circuit", "save"} /\ eval[e].verdict = "open"
         /\ \A e \in Evaluator : eval[e].at # "idle" => Bad(eval[e].h)

(* An open circuit of which no answer is to come does not close again,     *)
(* however long it takes: no run is made, the ticker does not aggregate,   *)
(* and evaluations keep to the average that opened it, be it stale.        *)
(* Without an administrator only a statement that fails can end it         *)
(* (EvaluateWorkflowType with cmd/main.go:178-192).                        *)
StuckStaysStuck ==
  [][Stuck => Stuck' \/ Fault]_allVars

(* The result is a CircuitBreaker: its actions show all that runs, answers *)
(* and aggregations do to the rows it keeps.                               *)
ImplementsCircuitBreaker == Spec
=============================================================================
