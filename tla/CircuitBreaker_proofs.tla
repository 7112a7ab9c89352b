------------------------ MODULE CircuitBreaker_proofs ------------------------
(***************************************************************************)
(* Proofs about CircuitBreaker, for any workflows, success percentages,    *)
(* thresholds and requests, for one evaluating goroutine or both, and for  *)
(* any number of faults.                                                   *)
(***************************************************************************)
EXTENDS CircuitBreaker, TLAPS

(* A workflow that exists has a row.                                       *)
LEMMA ExistsRow ==
  ASSUME wf \in [Workflow -> Row \cup NoRow], NEW w \in Workflow, Exists(w)
  PROVE  wf[w] \in Row
BY DEF Exists, NoRow, Gone

(* The count of faults stays within its bound.                             *)
LEMMA FaultsType == TypeOK /\ (NoFault \/ Fault) => faults' \in 0..MaxFaults
BY BoundAssumption DEF TypeOK, NoFault, Fault

(* Nothing has been evaluated in the initial state.                        *)
LEMMA InitInv == Init => Inv
<1>. SUFFICES ASSUME Init PROVE Inv
  OBVIOUS
<1>1. Resting \in Evaluation
  BY DEF Resting, Evaluation
<1>2. wf \in [Workflow -> Row \cup NoRow]
  BY DEF Init, Row, NoRow
<1>3. Resting.at = "idle" /\ Resting.w = NoWorkflow /\ Resting.saw = "closed"
  BY DEF Resting
<1>4. \A e \in Evaluator : eval[e] = Resting
  BY DEF Init
<1>5. eval \in [Evaluator -> Evaluation]
  BY <1>1 DEF Init
<1>6. TypeOK
  BY <1>2, <1>3, <1>4, <1>5, BoundAssumption, WorkflowAssumption DEF Init, TypeOK
<1>. QED
  BY <1>3, <1>4, <1>6, WorkflowAssumption DEF Init, Inv

(* What the place of one evaluation may be replaced by.                    *)
Sound(x) == /\ x \in Evaluation
            /\ x.at \in {"circuit", "switch", "save"} <=> x.w \in Workflow
            /\ x.at = "idle" => x = Resting
            /\ x.saw = "open" => x.w \in opened
            /\ x.at = "switch" => x.saw # x.verdict

(* An evaluation is sound between any two steps.                           *)
LEMMA InvSound == ASSUME Inv, NEW e \in Evaluator PROVE Sound(eval[e])
BY DEF Inv, TypeOK, Sound

(* An idle evaluation, and one that starts, is sound.                      *)
LEMMA RestingSound ==
  /\ Sound(Resting)
  /\ \A h \in Level \cup {NoRuns} : Sound([Resting EXCEPT !.at = "list", !.h = h])
BY WorkflowAssumption DEF Sound, Resting, Evaluation

(* A step that takes one evaluation from one sound place to another, and   *)
(* may have switched a workflow, preserves the invariant.                  *)
LEMMA EvalStep ==
  ASSUME Inv, NEW e \in Evaluator, NEW x, Sound(x), eval' = [eval EXCEPT ![e] = x],
         NoFault \/ Fault, UNCHANGED <<circuit, edit, opened>>,
         wf' \in [Workflow -> Row \cup NoRow],
         health' \in Level \cup {NoRuns, NoHealth}
  PROVE  Inv'
<1>1. eval' \in [Evaluator -> Evaluation]
  BY DEF Inv, TypeOK, Sound
<1>2. \A d \in Evaluator : eval'[d] = IF d = e THEN x ELSE eval[d]
  BY DEF Inv, TypeOK
<1>3. TypeOK'
  BY <1>1, <1>2, FaultsType DEF Inv, TypeOK, Sound
<1>. QED
  BY <1>2, <1>3 DEF Inv, Sound

(* A step that leaves the evaluations and the circuits alone preserves the *)
(* invariant if the rows keep their types.                                 *)
LEMMA OtherStep ==
  ASSUME Inv, NoFault \/ Fault, UNCHANGED <<circuit, eval, opened>>,
         wf' \in [Workflow -> Row \cup NoRow],
         health' \in Level \cup {NoRuns, NoHealth},
         edit' \in [Admin -> {NoEdit} \cup [w : Workflow, row : Row]]
  PROVE  Inv'
BY FaultsType DEF Inv, TypeOK

(* An evaluation starts with the health it was handed or has read.         *)
LEMMA StartInv ==
  ASSUME Inv, HealthUpdated \/ Tick \/ HealthLost
  PROVE  Inv'
<1>1. CASE HealthUpdated
  <2>1. PICK h \in Level :
          health' = h /\ eval' = [eval EXCEPT !["event"] = [Resting EXCEPT !.at = "list", !.h = h]]
    BY <1>1 DEF HealthUpdated
  <2>. QED
    BY <1>1, <2>1, RestingSound, EvalStep DEF HealthUpdated, Inv, TypeOK
<1>2. ASSUME NEW e \in Evaluator, ReadHealth(e), NoFault \/ Fault PROVE Inv'
  <2>1. health \in Level \cup {NoRuns}
    BY <1>2 DEF ReadHealth, Inv, TypeOK
  <2>. QED
    BY <1>2, <2>1, RestingSound, EvalStep DEF ReadHealth, Inv, TypeOK
<1>. QED
  BY <1>1, <1>2 DEF Tick, HealthLost

(* The evaluation lists the workflows of the type.                         *)
LEMMA ListInv == ASSUME Inv, NEW e \in Evaluator, List(e) PROVE Inv'
<1>. DEFINE W == {w \in Workflow : Exists(w)}
            y == [eval[e] EXCEPT !.at = "policy", !.todo = W]
<1>1. Sound(y)
  <2>1. Sound(eval[e]) /\ eval[e].at = "list"
    BY InvSound DEF List
  <2>2. /\ y \in Evaluation /\ y.at = "policy" /\ y.w = eval[e].w /\ y.saw = eval[e].saw
    BY <2>1 DEF Sound, Evaluation
  <2>. QED
    BY <2>1, <2>2 DEF Sound
<1>2. PICK x \in {Resting, y} : eval' = [eval EXCEPT ![e] = x]
  BY DEF List
<1>3. NoFault \/ Fault
  BY DEF List
<1>4. UNCHANGED <<wf, circuit, health, edit, opened>>
  BY DEF List
<1>. QED
  BY <1>1, <1>2, <1>3, <1>4, RestingSound, EvalStep DEF Inv, TypeOK

(* The evaluation reads the policy of a workflow and judges it.            *)
LEMMA ReadPolicyInv ==
  ASSUME Inv, NEW e \in Evaluator, NEW w \in Workflow, ReadPolicy(e, w)
  PROVE  Inv'
<1>. DEFINE Verd(t) == EvaluateHealth(t, eval[e].h)
            X(t) == [eval[e] EXCEPT !.at = "circuit", !.w = w,
                                    !.todo = eval[e].todo \ {w}, !.verdict = Verd(t)]
<1>1. PICK t \in {Policy(w), DefaultThreshold} : eval' = [eval EXCEPT ![e] = X(t)]
  BY DEF ReadPolicy
<1>. DEFINE v == Verd(t)
            x == X(t)
<1>2. v \in {"closed", "open"}
  BY DEF EvaluateHealth
<1>3. eval[e] \in Evaluation /\ eval[e].at = "policy" /\ eval[e].saw # "open"
  BY DEF ReadPolicy, Inv, TypeOK
<1>4. x \in Evaluation /\ x.at = "circuit" /\ x.w = w /\ x.saw = eval[e].saw
  <2>. HIDE DEF Verd
  <2>. QED
    BY <1>2, <1>3 DEF Evaluation
<1>5. Sound(x)
  BY <1>3, <1>4 DEF Sound
<1>6. eval' = [eval EXCEPT ![e] = x]
  BY <1>1
<1>7. (NoFault \/ Fault) /\ UNCHANGED <<wf, circuit, health, edit, opened>>
  BY DEF ReadPolicy
<1>. HIDE DEF x
<1>. QED
  BY <1>5, <1>6, <1>7, EvalStep DEF Inv, TypeOK

(* The evaluation reads the circuit and compares it with the verdict.      *)
LEMMA ReadCircuitInv == ASSUME Inv, NEW e \in Evaluator, ReadCircuit(e) PROVE Inv'
<1>1. PICK s \in {CircuitState(eval[e].w), "closed"} :
        eval' = [eval EXCEPT ![e].saw = s,
                             ![e].at = IF s = eval[e].verdict THEN "save" ELSE "switch"]
  BY DEF ReadCircuit
<1>. DEFINE x == [eval[e] EXCEPT !.saw = s, !.at = IF s = eval[e].verdict THEN "save" ELSE "switch"]
<1>2. eval[e] \in Evaluation /\ eval[e].at = "circuit" /\ eval[e].w \in Workflow
  BY DEF ReadCircuit, Inv, TypeOK
<1>3. s \in {"closed", "open"} /\ (s = "open" => eval[e].w \in opened)
  BY <1>2 DEF CircuitState, Inv, TypeOK
<1>4. /\ x \in Evaluation /\ x.w = eval[e].w /\ x.saw = s /\ x.verdict = eval[e].verdict
      /\ x.at = IF s = eval[e].verdict THEN "save" ELSE "switch"
  BY <1>2, <1>3 DEF Evaluation
<1>5. Sound(x)
  BY <1>2, <1>3, <1>4 DEF Sound
<1>6. eval' = [eval EXCEPT ![e] = x]
  BY <1>1, <1>2 DEF Inv, TypeOK
<1>7. (NoFault \/ Fault) /\ UNCHANGED <<wf, circuit, health, edit, opened>>
  BY DEF ReadCircuit
<1>. HIDE DEF x
<1>. QED
  BY <1>5, <1>6, <1>7, EvalStep DEF Inv, TypeOK

(* The workflow is switched on or off; the evaluation goes on to save.     *)
LEMMA SwitchWorkflowInv == ASSUME Inv, NEW e \in Evaluator, SwitchWorkflow(e) PROVE Inv'
<1>. DEFINE w == eval[e].w
            x == [eval[e] EXCEPT !.at = "save"]
<1>1. w \in Workflow
  BY DEF SwitchWorkflow, Inv, TypeOK
<1>2. Sound(x)
  BY <1>1, InvSound DEF Sound, Evaluation
<1>3. wf' \in [Workflow -> Row \cup NoRow]
  <2>1. CASE wf' = wf
    BY <2>1 DEF Inv, TypeOK
  <2>2. CASE Exists(w) /\ wf' = [wf EXCEPT ![w].active = eval[e].verdict = "closed",
                                           ![w].by = "circuit"]
    <3>. DEFINE y == [wf[w] EXCEPT !.active = (eval[e].verdict = "closed"), !.by = "circuit"]
    <3>1. wf[w] \in Row
      BY <1>1, <2>2, ExistsRow DEF Inv, TypeOK
    <3>2. y \in Row
      BY <3>1 DEF Row
    <3>3. wf' = [wf EXCEPT ![w] = y]
      BY <1>1, <2>2 DEF Inv, TypeOK
    <3>. QED
      BY <3>2, <3>3 DEF Inv, TypeOK
  <2>. QED
    BY <2>1, <2>2 DEF SwitchWorkflow
<1>4. eval' = [eval EXCEPT ![e] = x]
  BY DEF SwitchWorkflow
<1>5. (NoFault \/ Fault) /\ UNCHANGED <<circuit, health, edit, opened>>
  BY DEF SwitchWorkflow
<1>. HIDE DEF x
<1>. QED
  BY <1>2, <1>3, <1>4, <1>5, EvalStep DEF Inv, TypeOK

(* The circuit is saved; one that is saved open is in opened from then on. *)
LEMMA SaveCircuitInv == ASSUME Inv, NEW e \in Evaluator, SaveCircuit(e) PROVE Inv'
<1>1. eval[e].at = "save" /\ eval[e].w \in Workflow /\ eval[e] \in Evaluation
  BY DEF SaveCircuit, Inv, TypeOK
<1>2. CASE NoFault /\ eval' = [eval EXCEPT ![e] = NextWorkflow(e)]
  <2>1. opened \subseteq opened' /\ opened' \subseteq Workflow
    BY <1>1, <1>2 DEF SaveCircuit, Inv, TypeOK
  <2>2. /\ circuit' \in [Workflow -> {"none", "closed", "open"}]
        /\ \A v \in Workflow : circuit'[v] = "open" => v \in opened'
    BY <1>1, <1>2 DEF SaveCircuit, Inv, TypeOK, Evaluation
  <2>3. /\ NextWorkflow(e) \in Evaluation /\ NextWorkflow(e).w = NoWorkflow
        /\ NextWorkflow(e).saw = "closed"
        /\ NextWorkflow(e).at = "policy" \/ NextWorkflow(e) = Resting
    BY <1>1 DEF NextWorkflow, Resting, Evaluation
  <2>. HIDE DEF NextWorkflow
  <2>4. /\ eval' \in [Evaluator -> Evaluation]
        /\ \A d \in Evaluator : eval'[d] = IF d = e THEN NextWorkflow(e) ELSE eval[d]
    BY <1>2, <2>3 DEF Inv, TypeOK
  <2>5. \A d \in Evaluator : /\ eval'[d].at \in {"circuit", "switch", "save"} <=> eval'[d].w \in Workflow
                             /\ eval'[d].at = "idle" => eval'[d] = Resting
                             /\ eval'[d].saw = "open" => eval'[d].w \in opened'
                             /\ eval'[d].at = "switch" => eval'[d].saw # eval'[d].verdict
    BY <2>1, <2>3, <2>4, InvSound, WorkflowAssumption DEF Sound, Resting
  <2>6. TypeOK'
    BY <1>2, <2>1, <2>2, <2>4, <2>5, FaultsType DEF SaveCircuit, Inv, TypeOK
  <2>. QED
    BY <2>2, <2>5, <2>6 DEF Inv
<1>3. CASE Fault /\ eval' = [eval EXCEPT ![e] = Resting] /\ UNCHANGED <<circuit, opened>>
  BY <1>3, RestingSound, EvalStep DEF SaveCircuit, Inv, TypeOK
<1>. QED
  BY <1>2, <1>3 DEF SaveCircuit

(* What an administrator does leaves the rows well typed and the           *)
(* evaluations alone.                                                      *)
LEMMA AdministerInv == ASSUME Inv, NEW a \in Admin, Administer(a) PROVE Inv'
<1>typ. wf \in [Workflow -> Row \cup NoRow] /\ health \in Level \cup {NoRuns, NoHealth}
  BY DEF Inv, TypeOK
<1>ed. edit \in [Admin -> {NoEdit} \cup [w : Workflow, row : Row]]
  BY DEF Inv, TypeOK
<1>1. ASSUME NEW w \in Workflow, NEW t \in Threshold, NEW b \in BOOLEAN, CreateWorkflow(w, b, t)
      PROVE  Inv'
  <2>1. wf' \in [Workflow -> Row \cup NoRow]
    BY <1>1, <1>typ DEF CreateWorkflow, Row
  <2>. QED
    BY <1>1, <1>typ, <1>ed, <2>1, OtherStep DEF CreateWorkflow
<1>2. ASSUME NEW w \in Workflow, NEW b \in BOOLEAN, SetActive(w, b) PROVE Inv'
  <2>. DEFINE y == [wf[w] EXCEPT !.active = b, !.by = "admin"]
  <2>1. wf[w] \in Row
    BY <1>2, <1>typ, ExistsRow DEF SetActive
  <2>2. y \in Row /\ wf' = [wf EXCEPT ![w] = y]
    BY <1>2, <1>typ, <2>1 DEF SetActive, Row
  <2>3. wf' \in [Workflow -> Row \cup NoRow]
    BY <1>typ, <2>2
  <2>. QED
    BY <1>2, <1>typ, <1>ed, <2>3, OtherStep DEF SetActive
<1>3. ASSUME NEW w \in Workflow, DeleteWorkflow(w) PROVE Inv'
  <2>1. wf' \in [Workflow -> Row \cup NoRow]
    BY <1>3, <1>typ DEF DeleteWorkflow, NoRow
  <2>. QED
    BY <1>3, <1>typ, <1>ed, <2>1, OtherStep DEF DeleteWorkflow
<1>4. ASSUME NEW w \in Workflow, NEW t \in Threshold, NEW n \in BOOLEAN, NEW b \in BOOLEAN,
             EditWorkflow(a, w, t, n, b)
      PROVE  Inv'
  <2>. DEFINE y == [wf[w] EXCEPT !.threshold = t, !.active = IF n THEN b ELSE wf[w].active]
  <2>1. wf[w] \in Row
    BY <1>4, <1>typ, ExistsRow DEF EditWorkflow
  <2>2. y \in Row
    BY <2>1 DEF Row
  <2>3. edit' = [edit EXCEPT ![a] = [w |-> w, row |-> y]]
    BY <1>4 DEF EditWorkflow
  <2>. HIDE DEF y
  <2>4. edit' \in [Admin -> {NoEdit} \cup [w : Workflow, row : Row]]
    BY <1>ed, <2>2, <2>3
  <2>. QED
    BY <1>4, <1>typ, <2>4, OtherStep DEF EditWorkflow
<1>5. CASE SaveWorkflow(a)
  <2>1. edit[a] \in [w : Workflow, row : Row]
    BY <1>5, <1>ed DEF SaveWorkflow
  <2>2. wf' \in [Workflow -> Row \cup NoRow]
    BY <1>5, <1>typ, <2>1 DEF SaveWorkflow
  <2>3. edit' \in [Admin -> {NoEdit} \cup [w : Workflow, row : Row]]
    BY <1>5, <1>ed DEF SaveWorkflow
  <2>. QED
    BY <1>5, <1>typ, <2>2, <2>3, OtherStep DEF SaveWorkflow
<1>. QED
  BY <1>1, <1>2, <1>3, <1>4, <1>5 DEF Administer

(* A new process evaluates and edits nothing.                              *)
LEMMA RestartInv == ASSUME Inv, Restart PROVE Inv'
<1>1. Resting \in Evaluation /\ Resting.w = NoWorkflow /\ Resting.saw = "closed" /\ Resting.at = "idle"
  BY DEF Resting, Evaluation
<1>2. eval' \in [Evaluator -> Evaluation] /\ \A e \in Evaluator : eval'[e] = Resting
  BY <1>1 DEF Restart
<1>3. edit' \in [Admin -> {NoEdit} \cup [w : Workflow, row : Row]]
  BY DEF Restart
<1>4. TypeOK'
  BY <1>1, <1>2, <1>3, FaultsType, WorkflowAssumption DEF Restart, Inv, TypeOK
<1>. QED
  BY <1>1, <1>2, <1>4 DEF Restart, Inv

(* One action at a time, the invariant is preserved.                       *)
LEMMA NextInv == Inv /\ [Next]_vars => Inv'
<1>. SUFFICES ASSUME Inv, [Next]_vars PROVE Inv'
  OBVIOUS
<1>1. CASE Aggregate
  BY <1>1, OtherStep DEF Aggregate, Inv, TypeOK
<1>2. CASE HealthUpdated \/ Tick \/ HealthLost
  BY <1>2, StartInv
<1>3. ASSUME NEW e \in Evaluator, EvaluateWorkflowType(e) PROVE Inv'
  BY <1>3, ListInv, ReadPolicyInv, ReadCircuitInv, SwitchWorkflowInv, SaveCircuitInv
     DEF EvaluateWorkflowType
<1>4. ASSUME NEW a \in Admin, Administer(a) PROVE Inv'
  BY <1>4, AdministerInv
<1>5. CASE Restart
  BY <1>5, RestartInv
<1>6. CASE UNCHANGED vars
  BY <1>6 DEF vars, Inv, TypeOK, Exists
<1>. QED
  BY <1>1, <1>2, <1>3, <1>4, <1>5, <1>6 DEF Next

(* The strengthened invariant holds of every behaviour.                    *)
THEOREM Invariance == Spec => []Inv
BY InitInv, NextInv, PTL DEF Spec

(* Every variable keeps its type, whatever fails and whenever it restarts. *)
THEOREM Typing == Spec => []TypeOK
<1>1. Inv => TypeOK
  BY DEF Inv
<1>. QED
  BY <1>1, Invariance, PTL

(* Whatever races, fails or restarts, EvaluateWorkflowType reactivates     *)
(* only a workflow whose circuit has once been saved open: it never        *)
(* overrules an administrator who has disabled a workflow that never       *)
(* failed.                                                                 *)
THEOREM Reopening == Spec => OnlyOpenedAreReopened
<1>. DEFINE Step == \A w \in Workflow :
                      (\E e \in Evaluator : SwitchWorkflow(e)) /\ ~wf[w].active /\ wf'[w].active
                        => w \in opened
<1>1. Inv /\ [Next]_vars => [Step]_vars
  <2>. SUFFICES ASSUME Inv, NEW w \in Workflow, NEW e \in Evaluator, SwitchWorkflow(e),
                       ~wf[w].active, wf'[w].active
                PROVE  w \in opened
    OBVIOUS
  <2>1. CASE /\ Exists(eval[e].w)
             /\ wf' = [wf EXCEPT ![eval[e].w].active = eval[e].verdict = "closed",
                                 ![eval[e].w].by = "circuit"]
    <3>1. w = eval[e].w
      BY <2>1 DEF Inv, TypeOK
    <3>4. wf[w] \in Row
      BY <2>1, <3>1, ExistsRow DEF Inv, TypeOK
    <3>5. wf'[w] = [wf[w] EXCEPT !.active = eval[e].verdict = "closed", !.by = "circuit"]
      BY <2>1, <3>1 DEF Inv, TypeOK
    <3>6. wf'[w].active = (eval[e].verdict = "closed")
      BY <3>4, <3>5 DEF Row
    <3>2. eval[e].verdict = "closed"
      BY <3>6
    <3>3. eval[e].saw # eval[e].verdict /\ eval[e].saw \in {"closed", "open"}
      BY DEF SwitchWorkflow, Inv, TypeOK, Evaluation
    <3>. QED
      BY <3>1, <3>2, <3>3 DEF Inv
  <2>2. CASE wf' = wf
    BY <2>2
  <2>. QED
    BY <2>1, <2>2 DEF SwitchWorkflow
<1>. QED
  BY <1>1, Invariance, PTL DEF Spec, OnlyOpenedAreReopened

-----------------------------------------------------------------------------
(* What serial evaluations keep of w: but while the circuit of w is to be  *)
(* saved after a switch, the row and the circuit agree.                    *)
Settled(w) == wf[w].by = "circuit" =>
                /\ circuit[w] # "none"
                /\ wf[w].active <=> circuit[w] = "closed"

Switched(e) == eval[e].at = "save" /\ eval[e].saw # eval[e].verdict

AgreeInv ==
  /\ \A w \in Workflow : (\A e \in Evaluator : Switched(e) => eval[e].w # w) => Settled(w)
  /\ \A e \in Evaluator :
       /\ Switched(e) /\ wf[eval[e].w].by = "circuit"
            => (wf[eval[e].w].active <=> eval[e].verdict = "closed")
       /\ eval[e].at = "save" /\ ~Switched(e) => CircuitState(eval[e].w) = eval[e].verdict

(* While evaluations are serial only one of them is in progress.           *)
LEMMA OneAtATime ==
  ASSUME Inv, Serial, NEW e \in Evaluator, NEW f \in Evaluator,
         eval[e].at # "idle", eval[f].at # "idle"
  PROVE  e = f
BY DEF Serial, Resting

(* Nothing has been switched in the initial state.                         *)
LEMMA InitAgree == Init => AgreeInv
BY DEF Init, AgreeInv, Settled, Switched, Resting, Gone

(* A step that changes no circuit and starts no save, and of the rows only *)
(* such as do not become the service's own.                                *)
LEMMA NoSwitch ==
  ASSUME Inv, AgreeInv, circuit' = circuit,
         \A e \in Evaluator : eval'[e] = eval[e] \/ (eval[e].at # "save" /\ eval'[e].at # "save"),
         \A w \in Workflow : wf'[w] = wf[w] \/ wf'[w].by # "circuit"
  PROVE  AgreeInv'
<1>1. \A e \in Evaluator : (Switched(e))' <=> Switched(e)
  BY DEF Switched
<1>2. \A w \in Workflow : Settled(w) => (Settled(w))'
  BY DEF Settled
<1>3. \A e \in Evaluator : eval[e].at = "save" => eval[e].w \in Workflow
  BY DEF Inv, TypeOK
<1>4. \A e \in Evaluator : eval'[e].at = "save" => eval'[e] = eval[e]
  OBVIOUS
<1>5. \A e \in Evaluator : Switched(e) => eval'[e] = eval[e]
  BY <1>1, <1>4 DEF Switched
<1>6. ASSUME NEW w \in Workflow, \A e \in Evaluator : (Switched(e))' => eval'[e].w # w
      PROVE  (Settled(w))'
  BY <1>1, <1>2, <1>5, <1>6 DEF AgreeInv
<1>7. ASSUME NEW e \in Evaluator, eval'[e].at = "save"
      PROVE  /\ (Switched(e))' /\ wf'[eval'[e].w].by = "circuit"
                  => (wf'[eval'[e].w].active <=> eval'[e].verdict = "closed")
             /\ ~(Switched(e))' => (CircuitState(eval[e].w))' = eval'[e].verdict
  <2>1. eval'[e] = eval[e] /\ eval[e].w \in Workflow /\ eval[e].at = "save"
    BY <1>3, <1>4, <1>7
  <2>2. wf'[eval[e].w] = wf[eval[e].w] \/ wf'[eval[e].w].by # "circuit"
    BY <2>1
  <2>3. (CircuitState(eval[e].w))' = CircuitState(eval[e].w)
    BY <2>1 DEF CircuitState
  <2>. QED
    BY <1>1, <2>1, <2>2, <2>3 DEF AgreeInv
<1>. QED
  BY <1>6, <1>7 DEF AgreeInv, Switched

(* The circuit is read as it is.                                           *)
LEMMA ReadCircuitAgree ==
  ASSUME Inv, AgreeInv, faults = 0, faults' = 0, NEW e \in Evaluator, ReadCircuit(e)
  PROVE  AgreeInv'
<1>. DEFINE s == CircuitState(eval[e].w)
            x == [eval[e] EXCEPT !.saw = s, !.at = IF s = eval[e].verdict THEN "save" ELSE "switch"]
<1>2. eval[e].at = "circuit" /\ eval[e] \in Evaluation /\ eval \in [Evaluator -> Evaluation]
  BY DEF ReadCircuit, Inv, TypeOK
<1>1. eval' = [eval EXCEPT ![e] = x] /\ UNCHANGED <<wf, circuit>>
  <2>1. ~Fault
    BY DEF Fault
  <2>2. PICK r \in {CircuitState(eval[e].w), "closed"} :
          /\ IF r = CircuitState(eval[e].w) THEN NoFault ELSE Fault
          /\ eval' = [eval EXCEPT ![e].saw = r,
                                  ![e].at = IF r = eval[e].verdict THEN "save" ELSE "switch"]
    BY DEF ReadCircuit
  <2>3. r = s
    BY <2>1, <2>2
  <2>. QED
    BY <1>2, <2>2, <2>3 DEF ReadCircuit, Evaluation
<1>3. /\ x.w = eval[e].w /\ x.saw = s /\ x.verdict = eval[e].verdict
      /\ x.at = "save" => s = eval[e].verdict
  BY <1>2 DEF Evaluation
<1>. HIDE DEF x
<1>4. \A d \in Evaluator : eval'[d] = IF d = e THEN x ELSE eval[d]
  BY <1>1, <1>2
<1>5. ~Switched(e) /\ ~(Switched(e))'
  BY <1>2, <1>3, <1>4 DEF Switched
<1>6. \A d \in Evaluator \ {e} : (Switched(d))' <=> Switched(d)
  BY <1>4 DEF Switched
<1>7. \A w \in Workflow : Settled(w) <=> (Settled(w))'
  BY <1>1 DEF Settled
<1>8. ASSUME NEW w \in Workflow, \A d \in Evaluator : (Switched(d))' => eval'[d].w # w
      PROVE  (Settled(w))'
  BY <1>4, <1>5, <1>6, <1>7, <1>8 DEF AgreeInv
<1>9. ASSUME NEW d \in Evaluator
      PROVE  /\ (Switched(d))' /\ wf'[eval'[d].w].by = "circuit"
                  => (wf'[eval'[d].w].active <=> eval'[d].verdict = "closed")
             /\ eval'[d].at = "save" /\ ~(Switched(d))'
                  => (CircuitState(eval[d].w))' = eval'[d].verdict
  <2>1. CASE d = e
    BY <1>1, <1>3, <1>4, <1>5, <2>1 DEF CircuitState
  <2>2. CASE d # e
    BY <1>1, <1>4, <1>6, <2>2 DEF AgreeInv, CircuitState
  <2>. QED
    BY <2>1, <2>2
<1>. QED
  BY <1>8, <1>9 DEF AgreeInv

(* The workflow is switched to what the circuit will be saved as.          *)
LEMMA SwitchWorkflowAgree ==
  ASSUME Inv, Serial, AgreeInv, faults = 0, faults' = 0, NEW e \in Evaluator, SwitchWorkflow(e)
  PROVE  AgreeInv'
<1>. DEFINE w == eval[e].w
            x == [eval[e] EXCEPT !.at = "save"]
            y == [wf[w] EXCEPT !.active = (eval[e].verdict = "closed"), !.by = "circuit"]
<1>1. eval' = [eval EXCEPT ![e] = x] /\ circuit' = circuit /\ eval[e].at = "switch"
  BY DEF SwitchWorkflow
<1>2. /\ eval[e] \in Evaluation /\ eval \in [Evaluator -> Evaluation] /\ w \in Workflow
      /\ wf \in [Workflow -> Row \cup NoRow] /\ eval[e].saw # eval[e].verdict
  BY <1>1 DEF Inv, TypeOK
<1>3. x.w = w /\ x.saw = eval[e].saw /\ x.verdict = eval[e].verdict /\ x.at = "save"
  BY <1>2 DEF Evaluation
<1>. HIDE DEF x
<1>4. \A d \in Evaluator : eval'[d] = IF d = e THEN x ELSE eval[d]
  BY <1>1, <1>2
<1>5. \A d \in Evaluator \ {e} : eval[d].at = "idle"
  BY <1>1, OneAtATime
<1>6. \A d \in Evaluator : ~Switched(d)
  BY <1>1, <1>5 DEF Switched
<1>7. \A v \in Workflow : Settled(v)
  BY <1>6 DEF AgreeInv
<1>8. /\ \A v \in Workflow \ {w} : wf'[v] = wf[v]
      /\ wf'[w].by = "circuit" => (wf'[w].active <=> eval[e].verdict = "closed")
  <2>1. CASE Exists(w) /\ wf' = [wf EXCEPT ![w].active = eval[e].verdict = "closed",
                                           ![w].by = "circuit"]
    <3>1. wf' = [wf EXCEPT ![w] = y]
      BY <1>2, <2>1
    <3>2. wf[w] \in Row
      BY <1>2, <2>1, ExistsRow
    <3>3. y.active = (eval[e].verdict = "closed")
      BY <3>2 DEF Row
    <3>. QED
      BY <1>2, <3>1, <3>3
  <2>2. CASE ~Exists(w) /\ wf' = wf
    BY <2>2 DEF Exists
  <2>. QED
    BY <2>1, <2>2 DEF SwitchWorkflow, Fault
<1>9. ASSUME NEW v \in Workflow, \A d \in Evaluator : (Switched(d))' => eval'[d].w # v
      PROVE  (Settled(v))'
  <2>1. (Switched(e))' /\ eval'[e].w = w
    BY <1>2, <1>3, <1>4 DEF Switched
  <2>. QED
    BY <1>1, <1>7, <1>8, <1>9, <2>1 DEF Settled
<1>10. \A d \in Evaluator : eval'[d].at = "save" => d = e
  BY <1>4, <1>5
<1>11. (Switched(e))' /\ eval'[e].w = w /\ eval'[e].verdict = eval[e].verdict
  BY <1>2, <1>3, <1>4 DEF Switched
<1>. QED
  BY <1>8, <1>9, <1>10, <1>11 DEF AgreeInv, Switched

(* The circuit is saved, and the evaluation goes on or ends.               *)
LEMMA SaveCircuitAgree ==
  ASSUME Inv, Serial, AgreeInv, faults = 0, faults' = 0, NEW e \in Evaluator, SaveCircuit(e)
  PROVE  AgreeInv'
<1>. DEFINE w == eval[e].w
<1>1. /\ eval' = [eval EXCEPT ![e] = NextWorkflow(e)] /\ wf' = wf
      /\ circuit' = [circuit EXCEPT ![w] = eval[e].verdict] /\ eval[e].at = "save"
  BY DEF SaveCircuit, Fault
<1>2. /\ eval \in [Evaluator -> Evaluation] /\ w \in Workflow
      /\ circuit \in [Workflow -> {"none", "closed", "open"}]
      /\ eval[e].verdict \in {"closed", "open"}
  BY <1>1 DEF Inv, TypeOK, Evaluation
<1>3. NextWorkflow(e).at # "save"
  BY DEF NextWorkflow, Resting
<1>4. \A d \in Evaluator \ {e} : eval[d].at = "idle"
  BY <1>1, OneAtATime
<1>5. \A d \in Evaluator : eval'[d].at # "save"
  BY <1>1, <1>2, <1>3, <1>4
<1>6. \A v \in Workflow : circuit'[v] = IF v = w THEN eval[e].verdict ELSE circuit[v]
  BY <1>1, <1>2
<1>7. ASSUME NEW v \in Workflow PROVE (Settled(v))'
  <2>1. CASE v # w
    <3>1. Settled(v)
      BY <1>4, <2>1 DEF AgreeInv, Switched
    <3>. QED
      BY <1>1, <1>6, <2>1, <3>1 DEF Settled
  <2>2. CASE v = w /\ Switched(e)
    BY <1>1, <1>2, <1>6, <2>2 DEF Settled, AgreeInv
  <2>3. CASE v = w /\ ~Switched(e)
    <3>1. Settled(w)
      BY <1>2, <1>4, <2>3 DEF AgreeInv, Switched
    <3>2. CircuitState(w) = eval[e].verdict
      BY <1>1, <2>3 DEF AgreeInv
    <3>. QED
      BY <1>1, <1>2, <1>6, <2>3, <3>1, <3>2 DEF Settled, CircuitState
  <2>. QED
    BY <2>1, <2>2, <2>3
<1>. QED
  BY <1>5, <1>7 DEF AgreeInv, Switched

(* Without faults and edits, one evaluation at a time.                     *)
LEMMA NextAgree ==
  ASSUME Inv, Serial, Undisturbed, Undisturbed', AgreeInv, [Next]_vars
  PROVE  AgreeInv'
<1>z. faults = 0 /\ faults' = 0 /\ ~Fault
  BY DEF Undisturbed, Fault
<1>1. CASE Aggregate
  BY <1>1, NoSwitch DEF Aggregate
<1>2. CASE HealthUpdated \/ Tick \/ HealthLost
  <2>1. ASSUME NEW e \in Evaluator, NEW h, eval[e].at = "idle", UNCHANGED <<wf, circuit>>,
               eval' = [eval EXCEPT ![e] = [Resting EXCEPT !.at = "list", !.h = h]]
        PROVE  AgreeInv'
    <3>1. \A d \in Evaluator : eval'[d] = eval[d] \/ (eval[d].at # "save" /\ eval'[d].at # "save")
      BY <2>1 DEF Inv, TypeOK, Resting
    <3>. QED
      BY <2>1, <3>1, NoSwitch
  <2>. QED
    BY <1>2, <1>z, <2>1 DEF HealthUpdated, Tick, HealthLost, ReadHealth
<1>3. ASSUME NEW e \in Evaluator, List(e) PROVE AgreeInv'
  <2>1. \A d \in Evaluator : eval'[d] = eval[d] \/ (eval[d].at # "save" /\ eval'[d].at # "save")
    <3>1. eval \in [Evaluator -> Evaluation] /\ eval[e].at = "list"
      BY <1>3 DEF List, Inv, TypeOK
    <3>. DEFINE W == {w \in Workflow : Exists(w)}
                y == [eval[e] EXCEPT !.at = "policy", !.todo = W]
    <3>2. eval' = [eval EXCEPT ![e] = Resting] \/ eval' = [eval EXCEPT ![e] = y]
      BY <1>3, <3>1 DEF List
    <3>3. Resting.at # "save" /\ y.at # "save"
      <4>1. eval[e] \in Evaluation
        BY <3>1
      <4>. HIDE DEF W
      <4>. QED
        BY <4>1 DEF Resting, Evaluation
    <3>. HIDE DEF y
    <3>. QED
      BY <3>1, <3>2, <3>3
  <2>. QED
    BY <1>3, <2>1, NoSwitch DEF List
<1>4. ASSUME NEW e \in Evaluator, NEW w \in Workflow, ReadPolicy(e, w) PROVE AgreeInv'
  <2>1. \A d \in Evaluator : eval'[d] = eval[d] \/ (eval[d].at # "save" /\ eval'[d].at # "save")
    <3>1. eval \in [Evaluator -> Evaluation] /\ eval[e].at = "policy"
      BY <1>4 DEF ReadPolicy, Inv, TypeOK
    <3>2. PICK t : eval' = [eval EXCEPT ![e] = [eval[e] EXCEPT !.at = "circuit", !.w = w,
                                         !.todo = eval[e].todo \ {w},
                                         !.verdict = EvaluateHealth(t, eval[e].h)]]
      BY <1>4 DEF ReadPolicy
    <3>3. eval'[e].at = "circuit"
      BY <3>1, <3>2 DEF Evaluation
    <3>. QED
      BY <3>1, <3>2, <3>3
  <2>. QED
    BY <1>4, <2>1, NoSwitch DEF ReadPolicy
<1>5. ASSUME NEW e \in Evaluator, EvaluateWorkflowType(e) PROVE AgreeInv'
  BY <1>3, <1>4, <1>5, <1>z, ReadCircuitAgree, SwitchWorkflowAgree, SaveCircuitAgree
     DEF EvaluateWorkflowType
<1>6. ASSUME NEW a \in Admin, Administer(a) PROVE AgreeInv'
  <2>1. UNCHANGED <<circuit, eval>>
    BY <1>6 DEF Administer, CreateWorkflow, SetActive, DeleteWorkflow, EditWorkflow, SaveWorkflow
  <2>2. wf \in [Workflow -> Row \cup NoRow]
    BY DEF Inv, TypeOK
  <2>3. ~SaveWorkflow(a)
    BY DEF Undisturbed, SaveWorkflow
  <2>4. \A w \in Workflow : wf'[w] = wf[w] \/ wf'[w].by # "circuit"
    <3>1. ASSUME NEW w \in Workflow, NEW t, NEW b, CreateWorkflow(w, b, t)
          PROVE  \A v \in Workflow : wf'[v] = wf[v] \/ wf'[v].by # "circuit"
      BY <2>2, <3>1 DEF CreateWorkflow
    <3>2. ASSUME NEW w \in Workflow, NEW b, SetActive(w, b)
          PROVE  \A v \in Workflow : wf'[v] = wf[v] \/ wf'[v].by # "circuit"
      <4>1. wf[w] \in Row
        BY <2>2, <3>2, ExistsRow DEF SetActive
      <4>2. wf' = [wf EXCEPT ![w] = [wf[w] EXCEPT !.active = b, !.by = "admin"]]
        BY <2>2, <3>2 DEF SetActive
      <4>3. wf'[w].by = "admin"
        BY <2>2, <4>1, <4>2 DEF Row
      <4>. QED
        BY <2>2, <4>2, <4>3
    <3>3. ASSUME NEW w \in Workflow, DeleteWorkflow(w)
          PROVE  \A v \in Workflow : wf'[v] = wf[v] \/ wf'[v].by # "circuit"
      BY <2>2, <3>3 DEF DeleteWorkflow, Gone
    <3>4. ASSUME NEW w \in Workflow, NEW t, NEW n, NEW b, EditWorkflow(a, w, t, n, b)
          PROVE  wf' = wf
      BY <3>4 DEF EditWorkflow
    <3>. QED
      BY <1>6, <2>3, <3>1, <3>2, <3>3, <3>4 DEF Administer
  <2>. QED
    BY <2>1, <2>4, NoSwitch
<1>7. ~Restart
  BY <1>z DEF Restart
<1>8. CASE UNCHANGED vars
  BY <1>8, NoSwitch DEF vars
<1>. QED
  BY <1>1, <1>2, <1>5, <1>6, <1>7, <1>8 DEF Next

(* As long as evaluations do not overlap, nothing fails and nobody edits,  *)
(* every circuit that EvaluateWorkflowType has acted upon agrees with the  *)
(* row of its workflow, whatever the administrator switches on and off     *)
(* between its statements.                                                 *)
THEOREM Agreement == Spec => SerialEvaluationsAgree
<1>1. AgreeInv => Agree
  BY DEF AgreeInv, Agree, Settled, Switched, Busy
<1>2. Inv /\ Serial /\ Undisturbed /\ Undisturbed' /\ AgreeInv /\ [Next]_vars => AgreeInv'
  BY NextAgree
<1>. QED
  BY <1>1, <1>2, InitAgree, Invariance, PTL DEF Spec, SerialEvaluationsAgree
=============================================================================
