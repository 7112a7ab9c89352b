--------------------------- MODULE CircuitBreaker ---------------------------
(***************************************************************************)
(* CircuitBreakerService, the rows it keeps in step (workflows.active and  *)
(* circuit_breaker_states) and the administrator's handlers that write the *)
(* first of them.  All workflows are of one type, so that they share one   *)
(* row of workflow_type_health.                                            *)
(*                                                                         *)
(* Two goroutines evaluate: the result goroutine, which HealthMonitoring   *)
(* calls into over the synchronous event bus each time it has aggregated   *)
(* the health of the type, and the ticker of main.  Every statement of     *)
(* SQLite is one step, and nothing holds a lock or a transaction from one  *)
(* statement to the next.                                                  *)
(***************************************************************************)
EXTENDS Integers

CONSTANTS Workflow,          \* ids, each given out once
          NoWorkflow,        \* not an id
          Evaluator,         \* "event", the result goroutine, and "ticker"
          Admin,             \* requests that can be in progress at once
          Level,             \* success percentages, averaged over the window
          NoRuns,            \* a window without runs
          NoHealth,          \* no row in workflow_type_health
          Threshold,         \* what success_threshold may be; 0 is the default
          DefaultThreshold,
          MaxFaults          \* bound: failed statements and restarts

ASSUME EvaluatorAssumption == Evaluator \subseteq {"event", "ticker"}
ASSUME WorkflowAssumption  == NoWorkflow \notin Workflow
ASSUME LevelAssumption     == /\ Level \cup Threshold \cup {DefaultThreshold} \subseteq 0..100
                              /\ NoRuns \notin Level /\ NoHealth \notin Level
                              /\ NoRuns # NoHealth /\ 0 \in Threshold
ASSUME BoundAssumption     == MaxFaults \in Nat

VARIABLES
  wf,       \* wf[w]: the row of w in workflows
  circuit,  \* circuit[w]: its state in circuit_breaker_states, or "none"
  health,   \* the average in workflow_type_health
  eval,     \* eval[e]: where EvaluateWorkflowType is in goroutine e
  edit,     \* edit[a]: the row EditWorkflow is about to save
  opened,   \* history: the workflows whose circuit has ever been saved open
  faults

vars == <<wf, circuit, health, eval, edit, opened, faults>>

(* by is who last changed the state: the prefix of deactivated_reason.     *)
Row == [active : BOOLEAN, threshold : Threshold, by : {"admin", "circuit"}]

Gone(why) == [active |-> FALSE, threshold |-> 0, by |-> why]

NoRow == {Gone("unborn"), Gone("deleted")}

Exists(w) == wf[w].by \in {"admin", "circuit"}

Resting == [at |-> "idle", h |-> NoRuns, todo |-> {}, w |-> NoWorkflow,
            verdict |-> "closed", saw |-> "closed"]

NoEdit == [w |-> NoWorkflow, row |-> Gone("unborn")]

Init == /\ wf \in [Workflow -> {[active |-> a, threshold |-> t, by |-> "admin"] :
                                  a \in BOOLEAN, t \in Threshold} \cup {Gone("unborn")}]
        /\ circuit = [w \in Workflow |-> "none"]
        /\ health = NoHealth
        /\ eval = [e \in Evaluator |-> Resting]
        /\ edit = [a \in Admin |-> NoEdit]
        /\ opened = {}
        /\ faults = 0

Fault == faults < MaxFaults /\ faults' = faults + 1

NoFault == UNCHANGED faults
-----------------------------------------------------------------------------
(* The ticker's aggregation saves.  Workflows were active when it began;   *)
(* BreakerRecovery shows which average it is, and when it is skipped.      *)
Aggregate == /\ \E w \in Workflow : wf[w] # Gone("unborn")
             /\ health' \in Level \cup {NoRuns}
             /\ NoFault
             /\ UNCHANGED <<wf, circuit, eval, edit, opened>>

(* The result goroutine has aggregated the type anew and publishes         *)
(* health.updated with it.                                                 *)
HealthUpdated == /\ "event" \in Evaluator /\ eval["event"].at = "idle"
                 /\ \E w \in Workflow : wf[w] # Gone("unborn")
                 /\ \E h \in Level :
                      /\ health' = h
                      /\ eval' = [eval EXCEPT !["event"] = [Resting EXCEPT !.at = "list", !.h = h]]
                 /\ NoFault
                 /\ UNCHANGED <<wf, circuit, edit, opened>>

(* EvaluateWorkflowType without a health reads the table.                  *)
ReadHealth(e) == /\ eval[e].at = "idle"
                 /\ health # NoHealth
                 /\ eval' = [eval EXCEPT ![e] = [Resting EXCEPT !.at = "list", !.h = health]]
                 /\ UNCHANGED <<wf, circuit, health, edit, opened>>

(* EvaluateAllWorkflows of the ticker.                                     *)
Tick == /\ "ticker" \in Evaluator
        /\ \E w \in Workflow : Exists(w)
        /\ ReadHealth("ticker") /\ NoFault

(* The aggregation failed: health.updated carries none.                    *)
HealthLost == "event" \in Evaluator /\ ReadHealth("event") /\ Fault

(* ListWorkflowsByType.                                                    *)
List(e) ==
  /\ eval[e].at = "list"
  /\ LET W == {w \in Workflow : Exists(w)} IN
     \/ /\ NoFault
        /\ eval' = [eval EXCEPT ![e] = IF W = {} THEN Resting
                                       ELSE [@ EXCEPT !.at = "policy", !.todo = W]]
     \/ Fault /\ eval' = [eval EXCEPT ![e] = Resting]
  /\ UNCHANGED <<wf, circuit, health, edit, opened>>

(* GetPolicy: success_threshold of the row, unless it is 0 or not there.   *)
Policy(w) == IF wf[w].threshold > 0 THEN wf[w].threshold ELSE DefaultThreshold

EvaluateHealth(threshold, h) == IF h = NoRuns \/ h >= threshold THEN "closed" ELSE "open"

(* The loop turns to w.  If GetPolicy fails the default applies.           *)
ReadPolicy(e, w) ==
  /\ eval[e].at = "policy" /\ w \in eval[e].todo
  /\ \E t \in {Policy(w), DefaultThreshold} :
       /\ IF t = Policy(w) THEN NoFault ELSE Fault
       /\ eval' = [eval EXCEPT ![e] = [@ EXCEPT !.at = "circuit", !.w = w,
                                         !.todo = eval[e].todo \ {w},
                                         !.verdict = EvaluateHealth(t, eval[e].h)]]
  /\ UNCHANGED <<wf, circuit, health, edit, opened>>

(* Wrong: a circuit that is not found is taken to be open.                 *)
CircuitStateFailSafe(w) == IF circuit[w] = "none" THEN "open" ELSE circuit[w]

(* A circuit that is not found is taken to be closed.                      *)
CircuitState(w) == IF circuit[w] = "none" THEN "closed" ELSE circuit[w]

(* Wrong: the verdict is carried out without a look at what it was before. *)
ReadCircuitUncompared(e) ==
  /\ eval[e].at = "circuit"
  /\ \E s \in {CircuitState(eval[e].w), "closed"} :
       /\ IF s = CircuitState(eval[e].w) THEN NoFault ELSE Fault
       /\ eval' = [eval EXCEPT ![e].saw = s, ![e].at = "switch"]
  /\ UNCHANGED <<wf, circuit, health, edit, opened>>

(* GetCircuitState: any error counts as not found.                         *)
ReadCircuit(e) ==
  /\ eval[e].at = "circuit"
  /\ \E s \in {CircuitState(eval[e].w), "closed"} :
       /\ IF s = CircuitState(eval[e].w) THEN NoFault ELSE Fault
       /\ eval' = [eval EXCEPT ![e].saw = s,
                               ![e].at = IF s = eval[e].verdict THEN "save" ELSE "switch"]
  /\ UNCHANGED <<wf, circuit, health, edit, opened>>

(* Wrong: a circuit that opens does not deactivate.                        *)
SwitchWorkflowOnOnly(e) ==
  /\ eval[e].at = "switch"
  /\ wf' = IF Exists(eval[e].w)
             THEN [wf EXCEPT ![eval[e].w].active = @ \/ eval[e].verdict = "closed",
                             ![eval[e].w].by = "circuit"]
             ELSE wf
  /\ eval' = [eval EXCEPT ![e].at = "save"]
  /\ NoFault
  /\ UNCHANGED <<circuit, health, edit, opened>>

(* DeactivateWorkflow or ActivateWorkflow of the state manager.  That it   *)
(* fails, or that the row is gone, is ignored.                             *)
SwitchWorkflow(e) ==
  /\ eval[e].at = "switch"
  /\ LET w == eval[e].w IN
     \/ /\ NoFault
        /\ wf' = IF Exists(w)
                   THEN [wf EXCEPT ![w].active = eval[e].verdict = "closed", ![w].by = "circuit"]
                   ELSE wf
     \/ Fault /\ UNCHANGED wf
  /\ eval' = [eval EXCEPT ![e].at = "save"]
  /\ UNCHANGED <<circuit, health, edit, opened>>

(* The loop goes on to the next workflow, or ends.                         *)
NextWorkflow(e) == IF eval[e].todo = {} THEN Resting
                   ELSE [Resting EXCEPT !.at = "policy", !.h = eval[e].h, !.todo = eval[e].todo]

(* Wrong: an open circuit that closes is not saved.                        *)
SaveCircuitUnlessOpen(e) ==
  /\ eval[e].at = "save"
  /\ circuit' = [circuit EXCEPT ![eval[e].w] = IF @ = "open" THEN @ ELSE eval[e].verdict]
  /\ opened' = IF eval[e].verdict = "open" THEN opened \cup {eval[e].w} ELSE opened
  /\ eval' = [eval EXCEPT ![e] = NextWorkflow(e)]
  /\ NoFault
  /\ UNCHANGED <<wf, health, edit>>

(* SaveCircuitState: an upsert.  If it fails the rest are not evaluated.   *)
SaveCircuit(e) ==
  /\ eval[e].at = "save"
  /\ \/ /\ NoFault
        /\ circuit' = [circuit EXCEPT ![eval[e].w] = eval[e].verdict]
        /\ opened' = IF eval[e].verdict = "open" THEN opened \cup {eval[e].w} ELSE opened
        /\ eval' = [eval EXCEPT ![e] = NextWorkflow(e)]
     \/ Fault /\ eval' = [eval EXCEPT ![e] = Resting] /\ UNCHANGED <<circuit, opened>>
  /\ UNCHANGED <<wf, health, edit>>

EvaluateWorkflowType(e) == \/ List(e)
                           \/ \E w \in Workflow : ReadPolicy(e, w)
                           \/ ReadCircuit(e) \/ SwitchWorkflow(e) \/ SaveCircuit(e)
-----------------------------------------------------------------------------
CreateWorkflow(w, active, t) ==
  /\ wf[w] = Gone("unborn")
  /\ t > 0
  /\ wf' = [wf EXCEPT ![w] = [active |-> active, threshold |-> t, by |-> "admin"]]
  /\ NoFault
  /\ UNCHANGED <<circuit, health, eval, edit, opened>>

(* ActivateWorkflow and DeactivateWorkflow of an administrator.            *)
SetActive(w, active) ==
  /\ Exists(w)
  /\ wf' = [wf EXCEPT ![w].active = active, ![w].by = "admin"]
  /\ NoFault
  /\ UNCHANGED <<circuit, health, eval, edit, opened>>

DeleteWorkflow(w) ==
  /\ Exists(w)
  /\ wf' = [wf EXCEPT ![w] = Gone("deleted")]
  /\ NoFault
  /\ UNCHANGED <<circuit, health, eval, edit, opened>>

(* EditWorkflow reads the row and changes the fields the request has:      *)
(* here the threshold, and enabled if the request has that too.            *)
EditWorkflow(a, w, t, enabled, active) ==
  /\ edit[a] = NoEdit
  /\ Exists(w)
  /\ edit' = [edit EXCEPT ![a] =
       [w |-> w, row |-> [wf[w] EXCEPT !.threshold = t,
                                       !.active = IF enabled THEN active ELSE wf[w].active]]]
  /\ NoFault
  /\ UNCHANGED <<wf, circuit, health, eval, opened>>

(* EditWorkflow: SaveWorkflow, an upsert of every column but created_at.   *)
SaveWorkflow(a) ==
  /\ edit[a] # NoEdit
  /\ wf' = [wf EXCEPT ![edit[a].w] = edit[a].row]
  /\ edit' = [edit EXCEPT ![a] = NoEdit]
  /\ NoFault
  /\ UNCHANGED <<circuit, health, eval, opened>>

Administer(a) ==
  \/ \E w \in Workflow, t \in Threshold, active \in BOOLEAN :
       \/ CreateWorkflow(w, active, t)
       \/ \E enabled \in BOOLEAN : EditWorkflow(a, w, t, enabled, active)
  \/ \E w \in Workflow, active \in BOOLEAN : SetActive(w, active)
  \/ \E w \in Workflow : DeleteWorkflow(w)
  \/ SaveWorkflow(a)

(* The process dies and starts again with the database as it is.           *)
Restart == /\ eval' = [e \in Evaluator |-> Resting]
           /\ edit' = [a \in Admin |-> NoEdit]
           /\ Fault
           /\ UNCHANGED <<wf, circuit, health, opened>>
-----------------------------------------------------------------------------
Next == \/ Aggregate \/ HealthUpdated \/ Tick \/ HealthLost
        \/ \E e \in Evaluator : EvaluateWorkflowType(e)
        \/ \E a \in Admin : Administer(a)
        \/ Restart

(* The ticker ticks, and the scheduler serves both goroutines.             *)
Fairness == WF_vars(Tick) /\ \A e \in Evaluator : WF_vars(EvaluateWorkflowType(e))

Spec == Init /\ [][Next]_vars

FairSpec == Spec /\ Fairness
-----------------------------------------------------------------------------
Evaluation == [at : {"idle", "list", "policy", "circuit", "switch", "save"},
               h : Level \cup {NoRuns}, todo : SUBSET Workflow,
               w : Workflow \cup {NoWorkflow},
               verdict : {"closed", "open"}, saw : {"closed", "open"}]

(* Every variable has its type, an evaluation has a workflow in hand       *)
(* exactly while it is about to read, switch or save, and one that is idle *)
(* has left nothing behind.                                                *)
TypeOK == /\ wf \in [Workflow -> Row \cup NoRow]
          /\ circuit \in [Workflow -> {"none", "closed", "open"}]
          /\ health \in Level \cup {NoRuns, NoHealth}
          /\ eval \in [Evaluator -> Evaluation]
          /\ edit \in [Admin -> {NoEdit} \cup
                        [w : Workflow, row : Row]]
          /\ opened \subseteq Workflow
          /\ faults \in 0..MaxFaults
          /\ \A e \in Evaluator :
               /\ eval[e].at \in {"circuit", "switch", "save"} <=> eval[e].w \in Workflow
               /\ eval[e].at = "idle" => eval[e] = Resting

(* The service reactivates a workflow only if its circuit has once been    *)
(* open: a workflow the administrator has disabled is not switched on by a *)
(* first healthy evaluation, whatever fails, restarts or is edited in      *)
(* between (EvaluateWorkflowType, circuit_breaker.go).                     *)
OnlyOpenedAreReopened ==
  [][\A w \in Workflow :
       (\E e \in Evaluator : SwitchWorkflow(e)) /\ ~wf[w].active /\ wf'[w].active
         => w \in opened]_vars

(* What makes it so: an open circuit, in the table or in the hands of an   *)
(* evaluation, has once been saved open, and a switch is a change.         *)
Inv == /\ TypeOK
       /\ \A w \in Workflow : circuit[w] = "open" => w \in opened
       /\ \A e \in Evaluator : eval[e].saw = "open" => eval[e].w \in opened
       /\ \A e \in Evaluator : eval[e].at = "switch" => eval[e].saw # eval[e].verdict

Busy(w) == \E e \in Evaluator : eval[e].w = w /\ eval[e].at \in {"switch", "save"}

(* README.md:469: an open circuit means that the "Workflow is deactivated".*)
(* Read while no evaluation is about to write to the two tables.           *)
OpenMeansDeactivated ==
  \A w \in Workflow : circuit[w] = "open" /\ Exists(w) /\ ~Busy(w) => ~wf[w].active

(* The goroutines evaluate one after the other.                            *)
Serial == \E e \in Evaluator : \A f \in Evaluator \ {e} : eval[f] = Resting

(* Nothing fails, and nobody edits.                                        *)
Undisturbed == faults = 0 /\ \A a \in Admin : edit[a] = NoEdit

(* Of the workflows that the service was the last to switch, those whose   *)
(* circuit is open are inactive and those whose circuit is closed active.  *)
Agree == \A w \in Workflow : wf[w].by = "circuit" /\ ~Busy(w) =>
           /\ circuit[w] = "open" => ~wf[w].active
           /\ circuit[w] = "closed" => wf[w].active

(* README.md:469-472: an open circuit means a deactivated workflow, and    *)
(* when it closes the workflow is reactivated.  Of the workflows that the  *)
(* service was the last to switch this is so, both ways, as long as        *)
(* evaluations do not overlap, nothing fails and nobody edits: to read,    *)
(* switch and save is safe against an administrator who activates and      *)
(* deactivates, but not against another evaluation (EvaluateWorkflowType). *)
SerialEvaluationsAgree == []Serial /\ []Undisturbed => []Agree

Verdict(w) == EvaluateHealth(Policy(w), health)

(* Once the administrator leaves the workflows alone, statements no longer *)
(* fail and the verdict on a workflow stops changing, its recorded circuit *)
(* settles on what the health calls for, however the two goroutines        *)
(* overwrite each other's rows and whatever the circuit was before         *)
(* (EvaluateWorkflowType and the ticker of cmd/main.go).                   *)
CircuitSettles ==
  <>[][\A a \in Admin : ~Administer(a)]_vars =>
    \A w \in Workflow : \A v \in {"closed", "open"} :
      <>[](health # NoHealth /\ Exists(w) /\ Verdict(w) = v) => <>[](circuit[w] = v)
=============================================================================
