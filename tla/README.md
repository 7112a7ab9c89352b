# Verification of super-duper-bassoon

TLA+ models of the coordination server of this repository, checked with TLC and
proved about with TLAPS.  The modules follow the Go source; where a definition
models code, `PROJECT.json` (`map`) names the file and the lines.

## 1. The system

A server coordinates workflows over many simulated clients.  A workflow has a
type, a target filter, an activity and a trigger.  Triggering it creates a *run*,
filters out banned clients, and publishes one dispatch per client to NATS
(`dispatch.<client>`).  A *super-client* process hosts a pool of clients, executes
the activity and publishes results (`result.<client>`).  The server stores the
results, bans clients that loop, computes health and opens or closes a circuit per
workflow.  All durable state is in SQLite.

### Goroutines of the server

| goroutine | runs | shares |
|---|---|---|
| one per HTTP request | trigger, edit, delete, activate, deactivate, unban | every table, the ban cache |
| trigger loop | `TriggerCoordinationService.loop`: cron, then `TriggerWorkflow` inline | runs, ban cache, cron state |
| result goroutine | `ResultMessageDispatcher.Start`: per result registration, loop detection, health monitoring, and over the synchronous event bus the circuit breaker | results, runs, health, bans, circuits, workflows |
| health ticker | `AggregateWorkflowTypeHealth` per active type | `workflow_type_health` |
| circuit ticker | `EvaluateAllWorkflows` | circuits, workflows |
| NATS callbacks | results into a channel of 1024; `client.register` | clients |

No lock spans two statements and only `CreateRun` uses a transaction, so that
goroutines interleave between any two statements.  The models take one SQL
statement, one section under a mutex or one publication as one step.

### Components

| component | state | operations | hard behaviour | correct when |
|---|---|---|---|---|
| Ban enforcement (`ban_enforcement.go`, `blocker.go`, `ban_repo.go`, `dispatch_filter.go`) | table `bans`, cache `InMemoryDispatchBlocker` | BanClient, UnbanClient, IsBanned, FilterDispatchList, WarmCache | table and cache are written in two steps; crash between them; failed statements | no banned client is let through; nobody is refused who was never banned; every block can be lifted |
| Run lifecycle (`workflow_orchestration.go`, `dispatch_coordination.go`, `result_dispatcher.go`, `health_monitoring.go`, `run_repo.go`) | tables `runs`, `runs_clients`, `results`, `run_health` | TriggerWorkflow, SendDispatches, HandleResult, CalculateRunHealth | the handler and the result goroutine both write the whole row of a run; messages are lost or repeated; bans come and go | a run is completed exactly when its results are in; percentages stay within 0..100 |
| Circuit breaker (`circuit_breaker.go`, `circuit.go`, `circuit_repo.go`, `config_repos.go`) | `circuit_breaker_states`, `workflows.active` | EvaluateWorkflowType by event and by ticker | two evaluators without a lock; switch and save are two statements, either may fail | circuit and workflow agree; the administrator's choice is respected; circuits settle on the verdict |
| Workflow administration (`workflow_orchestration.go`, `workflow_repo.go`) | `workflows` | create, edit, delete, activate, deactivate | edit is a read, a merge and an upsert of the row | an edit changes what it names and nothing else |
| Loop detection (`loop_detection.go`, `ban.go`) | none of its own | HandleResult | answers late, twice or out of order; compares the trigger times of the runs a client matched | bans the client of two runs in quick succession, and no other |
| Health aggregation (`health.go`, `health_repo.go`) | `run_health`, `workflow_type_health` | AggregateWorkflowHealth, CalculateTrend | window ordered by time of calculation; the result goroutine and the ticker save what they listed before | a run counts once; the stored average is that of the window |
| Trigger coordination (`trigger_coordination.go`, `cron_evaluator.go`, `event_bus.go`) | next time per workflow | cron, `on_complete` chains | chains are synchronous calls within calls; late ticks; cron state outlives deactivation | each due time fires once; a chain ends |
| Client registry and grouping (`client_registration.go`, `dynamic_grouping.go`, `filter*.go`) | `clients` | register, resolve a filter | every result rewrites the whole client; hand-written parser; mixed types | a filter means what it says and finds the clients it describes |
| Super-client (`client_pool.go`, `nats_broker.go`, `result_collector.go`) | channel of dispatches, queue of results, client states | HandleDispatch, FlushResults, Shutdown | full channel, shutdown while callbacks run, retries | a dispatch is executed and answered at most once, and answered if nothing is lost |
| Activities and chaos (`activity.go`, `chaos_executor.go`, `chaos.go`) | state of a client | ExecuteActivity, drift, cripple, recovery | random faults | only a reboot ends a cripple |
| HTTP, configuration, alerts, web UI | – | – | – | not modelled: no coordination state |

`PROJECT.json` lists every component with its status, and under `hazards` every
place where this code can go wrong in a way that tests hardly reach, each with the
properties that speak about it or the reason why none does.

Which module is about which part, and who EXTENDS whom (BanLedger is implemented rather than
extended, under refinement mappings):

```
BanLedger <- BanEnforcement, RunLifecycle   TriggerCoordination <- LoopDetection
CircuitBreaker <- BreakerRecovery
ActivityExecutor <- SuperClient
FilterValues <- FilterLanguage <- ClientRegistry <- FilterMeaning
```

Each has a module `MC_*` with constants for TLC; those with proofs have a module
`*_proofs`, several of which share NaturalLemmas.

## 2. What is modelled

### BanEnforcement, BanLedger

`row` is the table (per client and type: no ban, an active one, only lifted ones),
`cache` the blocker, `ban` the one ban in progress (only the result goroutine
bans), `unban[a]` the unban requests in progress, `filter[f]` the calls of
FilterDispatchList.  `BanClient` is `SaveBan` then `AddToCache`, `UnbanClient` is
`LiftBan` then `RemoveFromCache` (or `BanNotFound`, `UnbanFails`), `IsBanned` is
`CacheHit` or `CacheMiss` followed by `LookupAllows`, `LookupBlocks` or
`LookupFails`.  `Restart` may strike anywhere; `WarmCache` finds the active bans
or, if it fails, nothing.  `owed` is a history variable: the bans in force since a
filter call began.

`BanLedger` states what the component promises: one table, and lists to which a
client is admitted only while no active ban covers it and from which it is
refused only if a ban has covered it at some time.  `ImplementsLedger` says that
BanEnforcement implements it, under the refinement mapping that keeps the table
and forgets the cache and the progress of the calls.

### RunLifecycle

Each run has a process (`pc`, `todo`, `allowed`): `CreateRun`, then `Admit` or
`Refuse` per client, `GenerateDispatches`, `SendDispatch` per client,
`MarkInProgress`.  The filter is represented by what BanLedger promises of it, and
`FollowsLedger` checks that it never goes beyond: with the bans of the one type as the table (`ledgerRow`)
and the calls of the filter as the lists (`ledgerList`), RunLifecycle implements BanLedger, as
BanEnforcement does.  That the filter may also give every answer that BanLedger allows is
to be read in the guards of `Admit` and `Refuse`, which are BanLedger's.
`wire` and `inbox` are the messages under way; `Reply` is a client that answers,
`Lose` a message that is lost.  The result goroutine (`hpc`, `msg`, `copy`) takes an
answer (`Receive`; it may be a repeated one), may ban (`BanForLoop`), stores
(`SaveResult`), reads the run (`ReadRun`), counts and stores (`SaveRunHealth`) and
completes (`CompleteRun`) or not (`LeaveRun`).  `copy` is the row as it was read, which
`CompleteRun` writes back whole, as the code does.

Abstracted: times (any result of a client with an earlier run may ban it; the
distance is in LoopDetection), the kind of an unsuccessful answer where it does
not matter, what the event bus does between `SaveRunHealth` and `CompleteRun`
(BreakerRecovery; it does not touch runs), and the reading of the workflow before
the run is created (TriggerCoordination).

### CircuitBreaker

All workflows are of one type.  `wf` is their rows (`active`, `threshold`, and `by`,
the prefix of `deactivated_reason`), `circuit` the table of circuits, `health` the
stored average.  `eval[e]` is where EvaluateWorkflowType is in goroutine `e`:
`"event"`, the result goroutine, which brings the health it has just aggregated
(`HealthUpdated`) or, if the aggregation failed, reads it (`HealthLost`); and
`"ticker"` (`Tick`).  Then `List`, and per workflow `ReadPolicy`, `ReadCircuit`,
`SwitchWorkflow` if the state changes, and `SaveCircuit`.  `EditWorkflow` and
`SaveWorkflow` are the two statements of an edit.  Each statement of an evaluation
may fail, with the effect that the code gives to the failure: ignored, taken as a
default, or the end of the loop.  `opened` is a history variable.

Percentages are members of a small set; only their order relative to the
thresholds matters.

### BreakerRecovery

CircuitBreaker with what its health comes from.  `TriggerWorkflow` finds a workflow
active and makes a run, of which answers may come from then on (`pending`), until they
are lost (`Lose`).  `StoreAnswer` is CalculateRunHealth up to `SaveRunHealth`: the row of
the run moves to the end of `rows`, the table in the order of `calculated_at`.
`agg[g]` is AggregateWorkflowTypeHealth in the result goroutine or in the ticker of
main: `ListHealths` reads the newest rows, oldest first, `Save` stores `Average` and
`Trend`, and in the result goroutine brings the average to the breaker.  `StartAggregation`
is skipped for a type without an active workflow, as in main.  `stale` is a history
variable: the ticker has saved a list that an answer has overtaken, or the result
goroutine failed or died in between.  Its actions are those of CircuitBreaker or leave
its variables alone, which `ImplementsCircuitBreaker` checks against the whole
specification of CircuitBreaker (same variables, so that the refinement mapping is
the identity): the free choice of `health` in `Aggregate` and `HealthUpdated` covers
all that runs can do.  The administrator is left out, since the question is
what the service does by itself.

### TriggerCoordination, LoopDetection

`wf[w]` is the row of a workflow, whose trigger is a schedule (the set of its due
times), another workflow that it waits for, or neither (`manual`, and `state_change`,
which nothing evaluates).  `next[w]` is what CronEvaluator keeps.
The trigger loop takes a tick (`Evaluate`), which may be older than the clock, and
goes through the active scheduled workflows: `Seed` one it has not seen, `NotYet`,
or `Fire`.  `thread[t]` is the stack of calls in the loop and in a request: `Call` is
TriggerWorkflow up to the run, `CreateRun` inserts it, `Publish` hands
workflow.completed to the handler, a frame of its own with the list that is left, and
`FireChild` calls TriggerWorkflow from there; `Return` ends a frame, `TriggerFails` a call.
Ids are given by the server and the trigger is never edited (EditWorkflowRequest has none),
so that a workflow names only older ones.

`LoopDetection` adds the table of bans and the answers to runs, `HandleResult(r, c)`, in
any order and any number of times: GetPreviousRun is `PreviousRuns` and `Latest`, over the
clients that *matched* a run (`runs_clients`), whether or not they were sent to.

### FilterValues, FilterLanguage, ClientRegistry, FilterMeaning

`FilterValues` is what a condition compares: the fields of a client (`GetField`,
`Split`, `Navigate`) and the operators (`EqualsAny`, `NumericCompare`, `InAny`,
`ContainsAny`, `CompareValues`, `EvalCondition`).  `NumberOf` says which texts strconv takes
for numbers and what they are, `NaN` among them; `Printed` is `%v`.

`FilterLanguage` is the filter parser as it stands: `Tokenize` from characters, and
the recursive descent.  Words stand as single letters.  Spelling in upper case, which the lexer
gives to operators, is taken as done.  Lexer and parser are recursive functions over positions
rather than recursive operators, so that they can be proved about: `TokensFrom(s)[i]` are the
tokens from position `i` on, and `Parse(t)[<<what, i>>]` is the node that the function `what` of
the parser makes of the tokens from `i` on and where it stops.  The functions call each other, so
that one recursive function holds them all (`ParseAt`); each of `ParseValue`, `ParseItems`,
`ParseCondition`, `ParsePrimary`, `ParseNot` is one of the code, and `Chain` is the loop of parseOr and
of parseAnd.

`ClientRegistry` has the table of clients (`row`), which `Register` (client.register) and
`HandleResult` (every result) both overwrite whole, the filter of a workflow, which an
administrator puts together piece by piece (`EditFilter`), and `ResolveClients`.  `Verdict`, what a
filter says of a client, is a constant, so that what is proved about the table holds whatever
filters mean.

Two references say what the parser should make of a text.  `Grouped(tokens)` is the tree of
standard boolean logic, read off where the operators stand and not how a parser proceeds: the
last OR that is no deeper than the first token halves the tokens, then the last AND, then a
leading NOT takes all the rest, then a pair of parentheses is left out.  It is a recursive function
over the spans of tokens, which can be proved about.  `FilterMeaning` defines verdicts:
`Judge` evaluates the tree (`Evaluate`), and `Meaning` is a reference for which texts are
filters and what they say, by symbols instead of characters; both are recursive operators over trees, for TLC.

### SuperClient, ActivityExecutor

`ActivityExecutor` has no state: `Execute(a, s)` is the set of the outcomes (new state
and status) of activity `a` on a client in state `s`, over everything the random
source may decide: cripple, random failure, drift.

`SuperClient` is the process around it.  `sub[c]` holds what NATS has for the
subscription of `c`, whose callback decodes (`Malformed`), waits for room in the
channel (`Enqueue`), or meets the cancelled context (`GiveUp`) or the closed
channel (`SendOnClosed`, a panic).  The main goroutine (`at`) takes a dispatch,
executes it, stores and collects (`HandleDispatch`), publishes what is queued
(`PublishResult`, which may fail), puts what failed back (`EndFlush`), and ends
through `Done` or `Drained` and the flush of Shutdown.  HandleDispatch is one step
because only the main goroutine uses the store and the collector.  `executed` and
`sent` are history variables.

A message carries the form of its activity, because the two sides of NATS do not
agree on it: the server sends the name of the type, with params beside it
(README.md:410-421, `Dispatch.GetPayload`), and the super-client declares an object
(activity.go:28-31).  The server's messages therefore end in `Malformed`, which
`ServerDispatchUnanswered` states; the rest of the module is about senders that use the
object.  `Reply` of RunLifecycle stands for a client that follows the documented
protocol, not for this super-client.

## 3. What the runs show

| run | result |
|---|---|
| `ban_enforcement` | `NoDispatchThroughBan`, the inductive `Inv`, and the refinement of BanLedger hold |
| `ban_unban` | **violated**: README.md:460 says a ban can be lifted through the API; an unban between INSERT and caching leaves a blocked client for whom every unban answers "not found", until a restart |
| `run_lifecycle` | `CompletedIsAccountedFor`, `SuccessWithinEffective`, `HealthReflectsResults`, `LastAnswerSuffices`, the inductive `Inv`, and the refinement of BanLedger (`FollowsLedger`) hold |
| `run_live` | `LateAnswerCompletes` holds |
| `run_early` | **violated**: a run is completed without all results (health_monitoring.go:106), because a client that answers and is banned counts twice |
| `run_stuck` | **violated**: all results are in and the run stays in_progress (expected completed by health_monitoring_test.go:53-56): SendDispatches overwrites `completed` |
| `circuit` | `OnlyOpenedAreReopened`, `CircuitSettles`, `SerialEvaluationsAgree` and `Inv` hold with two evaluators, an administrator, a fault or restart |
| `circuit_open` | **violated** with two evaluators: the circuit is open and the workflow active (README.md:469) |
| `recovery` | `RunsCountOnce`, `HealthIsWindow`, `TrendIsFair`, `StuckStaysStuck` and `ImplementsCircuitBreaker` hold |
| `loop` | `ChainEnds`, `DueTimesFireOnce`, `BannedOnlyForLoop`, `LoopsAreBanned` and `PunctualRunsBanNobody` hold |
| `grouping` | `ParsesStandardLogic`, `GroupsAsWritten`, `ParserStaysInside`, `AnswerDropsLabels` and `OperatorsAgree` hold |
| `super_client` | `EachResultOnce`, `OrderSurvivesOneFailure`, `ServerKnowsState`, `SilentForEver`, `DispatchAnswered`, `ServerDispatchUnanswered` and `ShutdownFlushesOrPanics` hold |

Some belong together: `CompletedIsAccountedFor` is the part of
`CompletedMeansAllResultsIn` that the code does keep, and names the one cause of the
rest.  `OpenMeansDeactivated` fails when two goroutines evaluate at once;
`SerialEvaluationsAgree` is about the behaviours in which they do not, and there
circuit and workflow agree both ways, whatever an administrator activates and
deactivates in between.

`LastAnswerSuffices` is the other half of `AllResultsInMeansCompleted`: a run that is marked before its
last answer is read is always completed, whatever bans are given meanwhile, so that the
overwriting in SendDispatches is the only way, but for lost messages and failed statements, in
which a run gets stuck.  `ParsesStandardLogic` says which filters are accepted and how they judge a
client, `GroupsAsWritten` that the tree of an accepted one is the one that is written.

The type invariants of BanEnforcement, RunLifecycle and CircuitBreaker are conjuncts of the
inductive `Inv` of each, which the runs check.

What holds is not always what one would wish:

- `StuckStaysStuck`: once the circuits of a type are open and no answer is to come, no
  run is made, the periodic aggregation skips the type and evaluations repeat
  the average that opened it.  The cooldown of README.md:472 does not exist, so that the
  circuit stays open until an administrator acts or a statement fails.  The window need not even
  be bad: if the server dies between storing the last answer and evaluating, the row of the
  type is older than the window.
- `PunctualRunsBanNobody` needs all its conditions.  A tick that comes late, a
  workflow that is reactivated between two due times (CronEvaluator still has the old
  one; nothing calls Reset), a chain within the type or a second workflow of the type
  bring two runs within the threshold, and every client that answers is banned: the
  clients did nothing.  README.md:152 and :458 speak of the times at which results arrive; the
  code compares those at which runs were triggered.
- `DueTimesFireOnce` names its exception: of a schedule that is never due, such as
  February 30th, the library returns the zero time, and the workflow fires at every tick.
- `AnswerDropsLabels`: README.md:304 calls labels metadata for filters; every result
  saves its client with none, until it registers again.
- `SilentForEver` agrees with README.md:976 and not with README.md:978: a reboot of a
  silent client answers success and clears nothing, so that nothing ever brings such
  a client back.
- `ServerDispatchUnanswered`: the super-client of the repository answers no dispatch of
  the server of the repository, whose runs then stay in_progress.
- `ShutdownFlushesOrPanics`: README.md:956 promises a flush and a clean exit.  The channel is
  closed while callbacks may still be in their select, where a send on it panics.
- `HealthIsWindow`: the window is of the runs whose health was *calculated* last, so that a
  late answer to an old run makes it the newest; README.md:476 says "most recent runs".

Some differences from the documentation have no run, because they follow from one or
two statements: DeleteWorkflow deletes one row of one table, not "all associated data"
(README.md:573); an edit of one field writes back the whole row as it was read
(README.md:565), and CalculateRunHealth does the same with the row of the run
(dispatch_coordination.go:54), so that what happened in between is undone;
README.md:526 calls on_complete a workflow type, and the code compares it with an id;
`LOOP_THRESHOLD_MS` never takes effect, since `Workflow.LoopThreshold` has a default of
its own; and one client on which a comparison has no sense (a text
with `<`) fails the resolution for all clients, with the error of TriggerWorkflow.

Each property of a passing run has a mutant in `PROJECT.json`: a plausible bug
(operators commented "Wrong:") under which TLC finds the property violated.

### Bounds

- `ban_enforcement`: two clients and two types make bans that cover a call
  and bans that do not; one administrator, one ban and one call are enough for
  each pair of goroutines to meet.  Clients are symmetric, and so are types.  No counter needs a
  bound.
- `run_lifecycle`: two runs, the least for a loop ban; two clients, the least for
  one to be counted twice in place of another; `MaxFaults` = 1
  failed statement, lost or repeated message or restart.  Clients are symmetric.  All answers
  are successes: no step depends on the status, and successes are what `SuccessWithinEffective`
  bounds.  `run_early` and `run_stuck` have failures too, and the proofs any statuses.
- `circuit`: one workflow, both evaluators, one administrator, one fault; the level 3
  between the threshold 2 and the default 4, so that a policy that cannot be
  read changes the verdict; levels on either side of both are left to the proofs.  Workflows of a type are evaluated one after the other and share
  nothing but the average, which is read before the loop.
- `recovery`: one workflow, two runs and a window of one, so that a run can fall out
  of the window and come back by a late answer (longer windows are left to the proofs); percentages 0 and 60 around the
  threshold 50; one fault.  `TrendIsFair` is evaluated for all lists of up to four such
  percentages.
- `loop`: two workflows, the least for a chain and for two of one type; one client,
  since nothing relates two; due times 2 and 4 with the clock up to 4 (6 is what comes next),
  the least for two in distance 2, one more than the threshold 1; at most three runs and three
  acts of people or crashes, and five of both together (`MaxTotal`).  Schedules that are never due are left to the proof.
- `grouping`: filters of up to five pieces from one of three alphabets (nesting and operators;
  lists; errors); a piece is up to two symbols.  Two clients, four inner
  states with every kind of value, and filters of at most one piece where clients are
  involved, because verdicts do not depend on how a text was arrived at.  `OperatorsAgree` and
  `AnswerDropsLabels` take fields, labels and values of every kind, whatever the filter.
- `super_client`: two clients, for two callbacks at one channel; two dispatches, for
  one result to be retried with another and for one to follow a cripple; a channel
  of one, to be full; two failed publications, the least that reorders.  The
  activities offered are one for each way of being blocked.  `MaxVersion` bounds
  drift.
- The check for deadlock is off for SuperClient because the process ends, for
  CircuitBreaker and BreakerRecovery because a server without workflows, or whose circuits
  are stuck and whose runs are used up, has nothing to do, and for RunLifecycle because all
  runs may be over.

### Fairness

`RunLifecycle.FairSpec`: every handler that has begun goes on, the result goroutine
goes on while it has work (goroutines are scheduled fairly and no step blocks
for ever), and a client answers a dispatch it has received (`HandleDispatch` always
collects a result or an error).  There is no fairness for triggering, bans or
unbans.  `run_live` has no faults, as a lost message is never repeated and a
run has no timeout.

`CircuitBreaker.FairSpec`: the ticker ticks and both goroutines go on.  There is
no fairness for `Aggregate` and `HealthUpdated`; `CircuitSettles` assumes instead that
the verdict settles and that the administrator leaves the workflows alone.
`SerialEvaluationsAgree` is a temporal formula only because its assumption is about the
whole behaviour; it needs no fairness.

`SuperClient.FairSpec`: every callback, the closing goroutine and the main goroutine
go on when they can, which `DispatchAnswered` and `ShutdownFlushesOrPanics` need.  Where a select has two ready cases either may be taken, as in
Go; nobody has to send or to cancel.

## 4. What is proved

The proofs hold for every value of the constants, under the named assumptions of
the modules: sets of clients are finite, `Global` is not a type, `NoClient`,
`NoWorkflow`, `NoResult`, `NoTime` are not clients, workflows, statuses, times; a
schedule goes on beyond the bound of the clock or is never due; activities that are
offered name packages or none; percentages are in 0..100 and so are the levels of
BreakerRecovery; numbers are integers or `NaN`, truth values are Booleans, texts are sequences of strings, and what maps within
inner states hold are values again (`NumberAssumption`, `ValueAssumption`); the conditions of
`LabelTest` are about labels; bounds are naturals.

- **BanEnforcement_proofs**: `Invariance`, `Typing`, `BansHonoured` and `Refinement`.  The inductive
  invariant `Inv` adds to `NoDispatchThroughBan` that whatever is cached, or about to
  be, has been in the table (needed so that a hit in the cache is a refusal that
  BanLedger allows) and that what a call is owed is still active (needed so that a
  database lookup that finds nothing covers all that is owed).
- **RunLifecycle_proofs**: `Invariance`, `Typing`, `Completion`, `SuccessBound`,
  `Reflection`, `LastAnswer`, `GoodForEver` and `FollowingLedger`.  `Inv` adds how far each handler has got (`Stages`), that only clients
  that were sent to are heard of (`Traffic`), that the copy in hand names all clients that
  were let through, however old it is (`Copied`), that a row that is marked, in the table or in
  hand, names exactly the clients sent to, each of them let through (`Marked`), and that the counts fit (`Counted`).  The
  argument for `Completion`: while no client that answered has been banned, answers and bans are
  disjoint subsets of the participants of the copy, so that pending = 0 means that
  together they are all of them, and the clients sent to are among them.  `Reflection`
  (`HealthReflectsResults`) rests on `Reflects`: only the run whose answer has been
  saved and not yet counted may have a health that lags behind.  `LastAnswer`
  (`LastAnswerSuffices`) rests on `Marked`: participants of a marked row who are sent to and have all answered
  are no more than the answers, so that nothing is pending, with bans or without.  `GoodForEver`
  (`CompletedForGood`): a completed row is written again as something else by one step only, the
  marking by the handler of its own trigger.  `FollowingLedger` (`FollowsLedger`) goes through the actions:
  `CreateRun` is a list that begins (`CreateRunOpens`), `Admit` and `Refuse` are those of BanLedger
  (`AdmitAdmits`, `RefuseRefuses`), the end of the filter and a restart give lists back
  (`LeavingCloses`), a ban changes one row (`RowUpdate`), and all else leaves table and lists alone (`RowKept`, `ListsUpdate`); `Stages`
  is needed for where a client is that has been asked about.
- **CircuitBreaker_proofs**: `Invariance`, `Typing`, `Reopening` and `Agreement`.  `Inv` adds that an open
  circuit, in the table or in the hands of an evaluation, has once been saved open, and that a
  switch is always a change of state.  `Agreement` (`SerialEvaluationsAgree`) is about the
  behaviours that are `Serial` and `Undisturbed` throughout: there `AgreeInv` is inductive, which
  says of a workflow that the service was the last to switch that circuit and row agree
  (`Settled`), but for the one workflow whose switch has been made and not yet been saved
  (`Switched`).
- **BreakerRecovery_proofs**: `RecoveryTyping`, `Once`, `Windowed`, `Sticking` and
  `Implementation`.  The inductive invariant `RInv` takes `Inv` of CircuitBreaker and adds that
  evaluations have existing workflows in hand (`EvalInv`: there is no administrator to delete
  one) and that the list the result goroutine is about to save is the window (`AggInv`: it
  stores answers itself, so that nobody overtakes it).  `Implementation` shows that every step
  is a step of CircuitBreaker or leaves its variables alone: `Save` is `Aggregate` or
  `HealthUpdated`, with the average as witness, and needs from `RInv` that the
  evaluation of the result goroutine is over.  Through it `RecoveryReopening` and
  `RecoveryAgreement` carry over what is proved of CircuitBreaker.  That an average of percentages
  is a percentage (`AverageIsPercentage`) and that the sum of a list does not depend on its
  direction (`SumReversed`) are inductions over the list; `TrendFairness` (`TrendIsFair`) follows
  from the second, because reversing a window exchanges its halves.
- **LoopDetection_proofs**: `Typing`, `Chains`, `DueOnce`, `OnlyLoops`, `AllLoops` and
  `Punctuality`.  The inductive invariant `LoopInv` has two parts about triggers.  `TInv`: a
  trigger names an older workflow, every frame of a stack is of an older workflow than the
  calls above it, and what CronEvaluator knows of a workflow is a due time after the tick at
  which it last fired; from it chains end and due times fire once.  `DueInv`: runs that the
  schedule made have due times of their own, which have passed; so two punctual runs are at
  least a spacing minus the slack apart, which is more than the threshold.
- **SuperClient_proofs**: `Typing`, `ExactlyOnce`, `Ordering`, `Knowledge`, `Silence` and
  `Muteness`.  The inductive invariant `SInv` adds where each dispatch is (`Traced`: in one
  subscription, in the channel or executed, so that none is executed twice), where each
  result is (`Accounted`), what a flush can hold before the first and the second failure
  (`InOrder`), and that the store is what was last reported (`Remembered`).
- **ClientRegistry_proofs**: `Typing`, `LabelsDropped`, `OperatorAgreement`, `NoPanic` and `Grouping`.  The inductive
  invariant `IInv` adds to the types that whoever has answered since it registered is left
  without labels (`Unlabelled`).  A condition on a label then meets `NoValue`, because a path has at
  least one part (`SplitIsPath`).  For the operators, what is found along a path is a value however
  deep it lies (`NavigateStays`), what is found in a row is proper (`FieldsAreProper`: numbers are
  numbers), and on proper values the operators agree (`ProperValuesAgree`), by cases on what is
  taken for a number and on `NaN`.  `NoPanic` (`ParserStaysInside`) is about texts of any length.
  The lexer ends every sequence of tokens that it makes (`TokenizeEnds`).  Given that, each
  function of the parser stays inside if what it calls does, because it advances over no token that is
  the end, and calls only what comes before it in `Order`: later positions, or the same position
  and a lower level of the grammar (`ParseSame`).  So the parser exists as a function, which says that the
  recursive descent terminates (`ParseExists`), and what holds of a function of the parser once it holds
  of all that it needs holds of all (`ParserInduction`): it stays inside (`ParseInside`), and it groups what it reads (`AllRead`).
  `Grouping` (`GroupsAsWritten`) is the second.  What each function has read when it ends well (`Reads`)
  closes the parentheses and brackets it opens and no more (`Balanced`), so that operators within it are deeper or its
  own; a value holds no operator (`Plain`), what NOT takes holds no AND or OR outside parentheses,
  and what the loop of parseAnd takes no OR.  The operator that a round of a loop consumes is therefore the
  last of its kind outside (`MaxOuter`), which is where `Grouped` halves the tokens, and what is left of
  it is what the earlier rounds have read (`RoundReads`).  That the reference exists as a function is
  again an induction, over the length of a span (`GroupedExists`).  The end of the text is the last
  token and no other (`TokenizeEnds`), so that nothing of an accepted filter is left unread.
- **NaturalLemmas**: every non-empty set of naturals has a least element, and a bounded one a
  greatest; and induction up to a bound (`UpTo`), for a set in place of a predicate.  With it the
  recursive functions (`Sum`, `Navigate`, lexer and parser) are shown to exist and to
  compute what they should.

Only model-checked: the liveness properties (`LateAnswerCompletes`, `CircuitSettles`,
`DispatchAnswered`, `ShutdownFlushesOrPanics`), which the prover does not reach, and
`ParsesStandardLogic`, which compares the recursive operators `Evaluate` and `Meaning` over trees;
of it, `Grouping` proves the part about the trees of accepted filters.

## 5. What is left

- `ParsesStandardLogic` for longer filters: that whatever is not a filter is refused, and the
  evaluation of trees.  `Grouping` proves what trees accepted filters have, of any length; the rest is
  about recursive operators, which the prover cannot be used with.
- EditWorkflow against the trigger loop: an edit that switches a workflow on again is a
  step of CircuitBreaker, not of TriggerCoordination, where `SetState` has its effect
  on `active`.
- The types of a server are modelled one at a time (CircuitBreaker, BreakerRecovery): the
  result goroutine serves them in turn, which matters to timing only.

## 6. Not modelled

- The HTTP server and API handler (routing, JSON, validation, queries), configuration,
  alerts and web UI hold no coordination state.  What a handler changes is in the component it calls.
- SQLite is taken at its word: statements are atomic and committed statements survive.
- NATS is modelled from its use: at most once, in order for one subscription and in any
  order between them.
- Times other than those of triggers: `calculated_at` is the order of rows,
  `received_at`, `last_seen_at`, `timeout_ms` and the cooldown decide nothing in the code.
- Labels and inner states are maps of small sets; versions of packages are left out.
