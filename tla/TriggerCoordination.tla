------------------------- MODULE TriggerCoordination -------------------------
(***************************************************************************)
(* What makes runs: the trigger loop, which asks CronEvaluator of every    *)
(* scheduled workflow, the API, and chains: TriggerWorkflow publishes      *)
(* workflow.completed on the synchronous bus, whose handler triggers the   *)
(* workflows that wait for it, inside the call.  The loop and a request    *)
(* each have a stack of such calls.                                        *)
(*                                                                         *)
(* A workflow's trigger is fixed when it is created (no request edits it), *)
(* and the server gives out the ids: they are numbered as they are given.  *)
(* A schedule is the set of times at which it is due.                      *)
(***************************************************************************)
EXTENDS Integers, Sequences

CONSTANTS LastWorkflow,  \* workflows are 1..LastWorkflow
          Type,          \* workflow types
          Schedule,      \* what cron expressions may stand for
          Client,
          NoTime,        \* not a time
          MaxTime,       \* bound on the clock
          MaxRuns,       \* bound on the runs
          MaxActs,       \* bound on requests and restarts
          MaxTotal       \* bound on both together

Workflow == 1..LastWorkflow

ASSUME BoundAssumption == {LastWorkflow, MaxTime, MaxRuns, MaxActs, MaxTotal} \subseteq Nat \ {0}
ASSUME ScheduleAssumption ==
  /\ NoTime \notin Nat
  /\ \A s \in Schedule : s \subseteq Nat /\ (s # {} => \E d \in s : d > MaxTime)

VARIABLES
  now,      \* the clock
  wf,       \* wf[w]: the row of w: its state, type and trigger
  next,     \* next[w]: what CronEvaluator has for w, or NoTime
  tick,     \* the tick the trigger loop has taken last
  thread,   \* thread[t]: the calls in progress in the loop and in a request
  runs,     \* the rows of table runs, as they were inserted
  acts,     \* how many requests and restarts there were
  fired     \* history: the tick at which w was last found due, or 0

vars == <<now, wf, next, tick, thread, runs, acts, fired>>

Thread == {"loop", "api"}

Manual == [kind |-> "manual", due |-> {}, on |-> 0]
Scheduled(s) == [kind |-> "scheduled", due |-> s, on |-> 0]
OnComplete(w) == [kind |-> "event", due |-> {}, on |-> w]

Idle == [at |-> "idle", stack |-> <<>>, w |-> 0, due |-> NoTime, time |-> 0]
Walking(stack) == [Idle EXCEPT !.at = "walk", !.stack = stack]

Init == /\ now = 1
        /\ wf = [w \in Workflow |-> [state |-> "unborn", type |-> "", trigger |-> Manual]]
        /\ next = [w \in Workflow |-> NoTime]
        /\ tick = 0
        /\ thread = [t \in Thread |-> Idle]
        /\ runs = <<>>
        /\ acts = 0
        /\ fired = [w \in Workflow |-> 0]

Active(w) == wf[w].state = "active"

(* The next due time after t.  Of a schedule that is never due (say, on    *)
(* February 30th) the library returns the zero time, which is past.        *)
NextDue(s, t) == IF s = {} THEN 0
                 ELSE CHOOSE d \in s : d > t /\ \A e \in s : e > t => d <= e

LastDue(s, t) == IF \E d \in s : d <= t
                   THEN CHOOSE d \in s : d <= t /\ \A e \in s : e <= t => e <= d
                   ELSE NoTime

(* A frame of the stack: the workflow that was completed, or 0, and those  *)
(* of the list that the loop over it has not come to.                      *)
Frame(of, left) == [of |-> of, left |-> left]

Top(t) == thread[t].stack[Len(thread[t].stack)]

(* The lists are ordered by created_at.                                    *)
First(t, w) == w \in Top(t).left /\ \A v \in Top(t).left : v <= w

Taken(t, w) == [thread[t].stack EXCEPT ![Len(thread[t].stack)] = Frame(Top(t).of, Top(t).left \ {w})]
-----------------------------------------------------------------------------
Pass == /\ now < MaxTime
        /\ now' = now + 1
        /\ UNCHANGED <<wf, next, tick, thread, runs, acts, fired>>

Room == acts + Len(runs) < MaxTotal

(* The bound on what people and crashes do.                                *)
Act == acts < MaxActs /\ Room /\ acts' = acts + 1

(* evaluate: the loop takes a tick, which may have waited in the ticker's  *)
(* channel, and lists the active workflows, the newest first.              *)
Evaluate(at) ==
  /\ thread["loop"].at = "idle"
  /\ at \in tick..now /\ at > 0
  /\ tick' = at
  /\ thread' = [thread EXCEPT !["loop"] =
       Walking(<<Frame(0, {w \in Workflow : Active(w) /\ wf[w].trigger.kind = "scheduled"})>>)]
  /\ UNCHANGED <<now, wf, next, runs, acts, fired>>

Consider(w) == /\ thread["loop"].at = "walk" /\ Len(thread["loop"].stack) = 1
               /\ First("loop", w)

(* ShouldFire: a workflow that is not known is not due.                    *)
Seed(w) ==
  /\ Consider(w)
  /\ next[w] = NoTime
  /\ next' = [next EXCEPT ![w] = NextDue(wf[w].trigger.due, tick)]
  /\ thread' = [thread EXCEPT !["loop"].stack = Taken("loop", w)]
  /\ UNCHANGED <<now, wf, tick, runs, acts, fired>>

(* ShouldFire: its time has not come.                                      *)
NotYet(w) ==
  /\ Consider(w)
  /\ next[w] # NoTime /\ tick < next[w]
  /\ thread' = [thread EXCEPT !["loop"].stack = Taken("loop", w)]
  /\ UNCHANGED <<now, wf, next, tick, runs, acts, fired>>

(* TriggerWorkflow reads the workflow, and takes the time of the run.  What *)
(* the thread has done since its last step, nobody else sees.              *)
Call(t, w, due, stack) ==
  thread' = [thread EXCEPT ![t] =
    IF Active(w) THEN [at |-> "create", stack |-> stack, w |-> w, due |-> due, time |-> now]
                 ELSE Walking(stack)]

(* Wrong: the due time is kept.                                            *)
FireAgain(w) ==
  /\ Consider(w)
  /\ next[w] # NoTime /\ tick >= next[w]
  /\ fired' = [fired EXCEPT ![w] = tick]
  /\ Call("loop", w, LastDue(wf[w].trigger.due, tick), Taken("loop", w))
  /\ UNCHANGED <<now, wf, next, tick, runs, acts>>

(* ShouldFire: its time has come, or passed, perhaps several times.        *)
Fire(w) ==
  /\ Consider(w)
  /\ next[w] # NoTime /\ tick >= next[w]
  /\ next' = [next EXCEPT ![w] = NextDue(wf[w].trigger.due, tick)]
  /\ fired' = [fired EXCEPT ![w] = tick]
  /\ Call("loop", w, LastDue(wf[w].trigger.due, tick), Taken("loop", w))
  /\ UNCHANGED <<now, wf, tick, runs, acts>>

(* A request to trigger w.                                                 *)
Request(w) ==
  /\ Act
  /\ thread["api"].at = "idle" /\ wf[w].state # "unborn"
  /\ Call("api", w, NoTime, <<Frame(0, {})>>)
  /\ UNCHANGED <<now, wf, next, tick, runs, fired>>

(* onWorkflowCompleted comes to w.                                         *)
FireChild(t, w) ==
  /\ thread[t].at = "walk" /\ Len(thread[t].stack) > 1
  /\ First(t, w)
  /\ Call(t, w, NoTime, Taken(t, w))
  /\ UNCHANGED <<now, wf, next, tick, runs, acts, fired>>

(* CreateRun, with the clients that match; then the dispatches.            *)
CreateRun(t, C) ==
  /\ thread[t].at = "create"
  /\ Len(runs) < MaxRuns /\ Room
  /\ runs' = Append(runs, [w |-> thread[t].w, type |-> wf[thread[t].w].type,
                           time |-> thread[t].time, due |-> thread[t].due, clients |-> C])
  /\ thread' = [thread EXCEPT ![t].at = "publish"]
  /\ UNCHANGED <<now, wf, next, tick, acts, fired>>

(* Wrong: the loop that the call was made from is not gone on with.        *)
TriggerFailsForGood(t) ==
  /\ thread[t].at \in {"create", "publish"}
  /\ thread' = [thread EXCEPT ![t] = Walking(<<>>)]
  /\ UNCHANGED <<now, wf, next, tick, runs, acts, fired>>

(* TriggerWorkflow ends with an error before or after the run is created,  *)
(* or the handler of the event cannot list the workflows.                  *)
TriggerFails(t) ==
  /\ thread[t].at \in {"create", "publish"}
  /\ thread' = [thread EXCEPT ![t] = Walking(thread[t].stack)]
  /\ UNCHANGED <<now, wf, next, tick, runs, acts, fired>>

(* workflow.completed: its handler lists the active workflows and goes     *)
(* through those that wait for this one.                                   *)
Publish(t) ==
  /\ thread[t].at = "publish"
  /\ LET w        == thread[t].w
         children == {x \in Workflow : Active(x) /\ wf[x].trigger = OnComplete(w)}
     IN  thread' = [thread EXCEPT ![t] =
                      Walking(Append(thread[t].stack, Frame(w, children)))]
  /\ UNCHANGED <<now, wf, next, tick, runs, acts, fired>>

(* The loop over a list is at its end.                                     *)
Return(t) ==
  /\ thread[t].at = "walk"
  /\ Top(t).left = {}
  /\ LET rest == SubSeq(thread[t].stack, 1, Len(thread[t].stack) - 1)
     IN  thread' = [thread EXCEPT ![t] = IF rest = <<>> THEN Idle ELSE Walking(rest)]
  /\ UNCHANGED <<now, wf, next, tick, runs, acts, fired>>

Trigger(t) == \/ \E w \in Workflow : FireChild(t, w)
              \/ TriggerFails(t) \/ Publish(t) \/ Return(t)
              \/ \E C \in SUBSET Client : CreateRun(t, C)
-----------------------------------------------------------------------------
(* Wrong: a workflow may name one that is yet to be created.               *)
CreateWorkflowForward(w, type, s) ==
  /\ Act
  /\ wf[w].state = "unborn"
  /\ \A v \in 1..(w - 1) : wf[v].state # "unborn"
  /\ \E trigger \in {Manual, Scheduled(s)} \cup {OnComplete(v) : v \in Workflow} :
       wf' = [wf EXCEPT ![w] = [state |-> "active", type |-> type, trigger |-> trigger]]
  /\ UNCHANGED <<now, next, tick, thread, runs, fired>>

(* The id of w is new: what names a workflow names one that has been       *)
(* created before.                                                         *)
CreateWorkflow(w, type, s) ==
  /\ Act
  /\ wf[w].state = "unborn"
  /\ \A v \in 1..(w - 1) : wf[v].state # "unborn"
  /\ \E trigger \in {Manual, Scheduled(s)} \cup {OnComplete(v) : v \in 1..(w - 1)} :
       wf' = [wf EXCEPT ![w] = [state |-> "active", type |-> type, trigger |-> trigger]]
  /\ UNCHANGED <<now, next, tick, thread, runs, fired>>

(* The administrator or the circuit breaker changes the state.             *)
SetState(w, state) ==
  /\ Act
  /\ wf[w].state \in {"active", "inactive"} \ {state}
  /\ wf' = [wf EXCEPT ![w].state = state]
  /\ UNCHANGED <<now, next, tick, thread, runs, fired>>

(* A new process knows no times.                                           *)
Restart ==
  /\ Act
  /\ thread' = [t \in Thread |-> Idle]
  /\ next' = [w \in Workflow |-> NoTime]
  /\ UNCHANGED <<now, wf, tick, runs, fired>>
-----------------------------------------------------------------------------
TriggerNext ==
  \/ Pass \/ Restart
  \/ \E at \in 1..MaxTime : Evaluate(at)
  \/ \E w \in Workflow : Seed(w) \/ NotYet(w) \/ Fire(w) \/ Request(w)
  \/ \E t \in Thread : Trigger(t)
  \/ \E w \in Workflow, type \in Type, s \in Schedule : CreateWorkflow(w, type, s)
  \/ \E w \in Workflow, state \in {"active", "inactive", "deleted"} : SetState(w, state)
-----------------------------------------------------------------------------
Rows == [state : {"unborn", "active", "inactive", "deleted"}, type : Type \cup {""},
         trigger : [kind : {"manual", "scheduled", "event"}, due : Schedule \cup {{}},
                    on : 0..LastWorkflow]]

Frames == [of : 0..LastWorkflow, left : SUBSET Workflow]

Calls == [at : {"idle", "walk", "create", "publish"}, w : 0..LastWorkflow,
         stack : Seq(Frames),
         due : Nat \cup {NoTime}, time : 0..MaxTime]

Runs == [w : Workflow, type : Type \cup {""}, time : 0..MaxTime,
         due : Nat \cup {NoTime}, clients : SUBSET Client]

TriggerTypeOK ==
  /\ now \in 1..MaxTime
  /\ wf \in [Workflow -> Rows]
  /\ next \in [Workflow -> Nat \cup {NoTime}]
  /\ tick \in 0..now
  /\ thread \in [Thread -> Calls]
  /\ runs \in Seq(Runs)
  /\ fired \in [Workflow -> 0..MaxTime]
  /\ acts \in 0..MaxActs
  /\ \A t \in Thread : /\ thread[t].at = "idle" <=> thread[t].stack = <<>>
                       /\ thread[t].at \in {"create", "publish"} <=> thread[t].w # 0

(* A chain of on_complete ends: no workflow is triggered, however far      *)
(* down, by its own completion, although the calls are synchronous and     *)
(* nothing looks for cycles (onWorkflowCompleted in                        *)
(* trigger_coordination.go).                                               *)
ChainEnds ==
  \A t \in Thread :
    LET stack == thread[t].stack IN
    /\ \A i, j \in DOMAIN stack : i < j => stack[i].of < stack[j].of
    /\ \A i \in DOMAIN stack : thread[t].w # 0 => stack[i].of < thread[t].w

(* However late the ticks, however often the workflow is switched off and  *)
(* on and the server restarted, no due time of a schedule fires twice: a   *)
(* due time lies between any two times the loop fires a workflow.  The one *)
(* schedule that does fire at every tick is the one that is never due      *)
(* (ShouldFire in cron_evaluator.go).                                      *)
DueTimesFireOnce ==
  [][\A w \in Workflow :
       Fire(w) => \/ \E d \in wf[w].trigger.due : fired[w] < d /\ d <= tick
                  \/ wf[w].trigger.due = {}]_vars
=============================================================================
