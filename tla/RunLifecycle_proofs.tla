------------------------- MODULE RunLifecycle_proofs -------------------------
(***************************************************************************)
(* Proofs about RunLifecycle, for any finite set of clients, any number of *)
(* runs and any number of faults.                                          *)
(***************************************************************************)
EXTENDS RunLifecycle, FiniteSetTheorems, TLAPS

(* The numbers in a run's health are numbers.                              *)
LEMMA RunHealthType ==
  ASSUME NEW r, NEW P \in SUBSET Client, NEW B \in SUBSET Client
  PROVE  RunHealth(r, P, B) \in [total : Nat, banned : Nat, success : Nat,
                                 answers : Nat, pending : Nat]
<1>. DEFINE S == {c \in Client : result[r][c] = Success}
<1>1. /\ IsFiniteSet(P) /\ IsFiniteSet(B \cap P) /\ IsFiniteSet(Answered(r))
      /\ IsFiniteSet(S)
  BY ClientAssumption, FS_Subset DEF Answered
<1>2. /\ Cardinality(P) \in Nat /\ Cardinality(B \cap P) \in Nat
      /\ Cardinality(Answered(r)) \in Nat /\ Cardinality(S) \in Nat
  BY <1>1, FS_CardinalityType
<1>. QED
  BY <1>2 DEF RunHealth

(* The initial state is well typed.                                        *)
LEMMA TypeInit == Init => TypeOK
BY BoundAssumption DEF Init, TypeOK, Row, NoRow, NoHealth

(* The count of faults stays within its bound.                             *)
LEMMA FaultsType == TypeOK /\ (NoFault \/ Fault) => faults' \in 0..MaxFaults
BY BoundAssumption DEF TypeOK, NoFault, Fault

(* The type of a function of which one value is replaced.                  *)
LEMMA UpdateType ==
  ASSUME NEW S, NEW T, NEW f \in [S -> T], NEW x, NEW e, x \in S => e \in T
  PROVE  [f EXCEPT ![x] = e] \in [S -> T]
OBVIOUS

(* The row that SendDispatches writes is a row.                            *)
LEMMA MarkInProgressRun ==
  ASSUME NEW r \in Run, run \in [Run -> Row], allowed \in [Run -> SUBSET Client],
         MarkInProgress(r)
  PROVE  run' \in [Run -> Row]
<1>. DEFINE e == [state |-> "in_progress", part |-> allowed[r]]
<1>1. e \in Row
  BY DEF Row
<1>2. run' = run \/ run' = [run EXCEPT ![r] = e]
  BY DEF MarkInProgress
<1>. QED
  BY <1>1, <1>2, UpdateType

(* A dispatch that fails after it was published is a dispatch.             *)
LEMMA SendFailsWire ==
  ASSUME NEW r \in Run, NEW c \in Client, sent \in [Run -> SUBSET Client],
         wire \subseteq Run \X Client, SendFails(r, c)
  PROVE  sent' \in [Run -> SUBSET Client] /\ wire' \subseteq Run \X Client
<1>1. CASE UNCHANGED <<sent, wire>>
  BY <1>1
<1>2. CASE sent' = [sent EXCEPT ![r] = @ \cup {c}] /\ wire' = wire \cup {<<r, c>>}
  BY <1>2
<1>. QED
  BY <1>1, <1>2 DEF SendFails

(* A result that is stored is a result.                                    *)
LEMMA SaveResultResult ==
  ASSUME result \in [Run -> [Client -> Status \cup {NoResult}]],
         msg[1] \in Run, msg[2] \in Client, msg[3] \in Status,
         SaveResult
  PROVE  result' \in [Run -> [Client -> Status \cup {NoResult}]]
<1>. DEFINE e == IF result[msg[1]][msg[2]] = NoResult THEN msg[3]
                 ELSE result[msg[1]][msg[2]]
            g == [result[msg[1]] EXCEPT ![msg[2]] = e]
<1>1. g \in [Client -> Status \cup {NoResult}]
  OBVIOUS
<1>2. result' = result \/ result' = [result EXCEPT ![msg[1]] = g]
  BY DEF SaveResult
<1>. HIDE DEF g
<1>. QED
  BY <1>1, <1>2, UpdateType

(* A health that is stored has the type of the counts.                     *)
LEMMA SaveRunHealthHealth ==
  ASSUME NEW Counts, health \in [Run -> Counts], msg[1] \in Run, SaveRunHealth,
         \A B \in SUBSET Client : RunHealth(msg[1], copy.part, B) \in Counts
  PROVE  health' \in [Run -> Counts]
<1>1. PICK B \in SUBSET Client :
        health' = [health EXCEPT ![msg[1]] = RunHealth(msg[1], copy.part, B)]
  BY DEF SaveRunHealth, Banned
<1>. QED
  BY <1>1, UpdateType

(* The row that CalculateRunHealth writes back is a row.                   *)
LEMMA CompleteRunRun ==
  ASSUME run \in [Run -> Row], copy \in Row, CompleteRun
  PROVE  run' \in [Run -> Row]
<1>. DEFINE e == [copy EXCEPT !.state = "completed"]
<1>1. e \in Row
  BY DEF Row
<1>2. run' = run \/ run' = [run EXCEPT ![msg[1]] = e]
  BY DEF CompleteRun
<1>. HIDE DEF e
<1>. QED
  BY <1>1, <1>2, UpdateType

(* Every action keeps the types.                                           *)
LEMMA TypeNext == TypeOK /\ [Next]_vars => TypeOK'
<1>. SUFFICES ASSUME TypeOK, [Next]_vars PROVE TypeOK'
  OBVIOUS
<1>. DEFINE Health == [total : Nat, banned : Nat, success : Nat,
                       answers : Nat, pending : Nat]
<1>0. NoFault \/ Fault => faults' \in 0..MaxFaults
  BY FaultsType
<1>. USE DEF TypeOK, Row, triggerVars, healthVars
<1>1. ASSUME NEW r \in Run, NEW C \in SUBSET Client, CreateRun(r, C) PROVE TypeOK'
  BY <1>0, <1>1 DEF CreateRun
<1>2. ASSUME NEW r \in Run, NEW c \in Client, Admit(r, c) PROVE TypeOK'
  BY <1>0, <1>2 DEF Admit
<1>3. ASSUME NEW r \in Run, NEW c \in Client, Refuse(r, c) PROVE TypeOK'
  BY <1>0, <1>3 DEF Refuse
<1>4. ASSUME NEW r \in Run, NEW c \in Client, SendDispatch(r, c) PROVE TypeOK'
  BY <1>0, <1>4 DEF SendDispatch
<1>5. ASSUME NEW r \in Run, GenerateDispatches(r) PROVE TypeOK'
  BY <1>0, <1>5 DEF GenerateDispatches
<1>6. ASSUME NEW r \in Run, MarkInProgress(r) PROVE TypeOK'
  <2>1. faults' \in 0..MaxFaults
    BY <1>0, <1>6 DEF MarkInProgress
  <2>2. run' \in [Run -> Row]
    BY <1>6, MarkInProgressRun
  <2>. QED
    BY <1>6, <2>1, <2>2 DEF MarkInProgress
<1>7. ASSUME NEW r \in Run, FilterFails(r) PROVE TypeOK'
  BY <1>0, <1>7 DEF FilterFails
<1>8. ASSUME NEW r \in Run, NEW c \in Client, SendFails(r, c) PROVE TypeOK'
  <2>1. faults' \in 0..MaxFaults
    BY <1>0, <1>8 DEF SendFails
  <2>2. sent' \in [Run -> SUBSET Client] /\ wire' \subseteq Run \X Client
    BY <1>8, SendFailsWire
  <2>. QED
    BY <1>8, <2>1, <2>2 DEF SendFails
<1>9. ASSUME NEW r \in Run, NEW c \in Client, Reply(r, c) PROVE TypeOK'
  <2>1. inbox' \subseteq Answer
    BY <1>9 DEF Reply, Answer
  <2>. QED
    BY <1>0, <1>9, <2>1 DEF Reply
<1>10. CASE Lose
  <2>1. wire' \subseteq Run \X Client /\ inbox' \subseteq Answer
    BY <1>10 DEF Lose
  <2>. QED
    BY <1>0, <1>10, <2>1 DEF Lose
<1>11. ASSUME NEW m \in inbox, Receive(m) PROVE TypeOK'
  <2>1. faults' \in 0..MaxFaults
    BY <1>0, <1>11 DEF Receive
  <2>2. inbox' \subseteq Answer /\ msg' \in Answer
    BY <1>11 DEF Receive
  <2>. QED
    BY <1>11, <2>1, <2>2 DEF Receive
<1>12. CASE BanForLoop
  BY <1>0, <1>12 DEF BanForLoop, Answer
<1>13. CASE NoLoop
  BY <1>0, <1>13 DEF NoLoop
<1>14. CASE SaveResult
  <2>1. msg[1] \in Run /\ msg[2] \in Client /\ msg[3] \in Status
    BY <1>14 DEF SaveResult, Answer
  <2>2. result' \in [Run -> [Client -> Status \cup {NoResult}]]
    BY <1>14, <2>1, SaveResultResult
  <2>3. faults' \in 0..MaxFaults
    BY <1>0, <1>14 DEF SaveResult
  <2>. QED
    BY <1>14, <2>2, <2>3 DEF SaveResult
<1>15. CASE ReadRun
  <2>1. copy' \in Row
    BY <1>15 DEF ReadRun, Answer
  <2>. QED
    BY <1>0, <1>15, <2>1 DEF ReadRun
<1>16. CASE SaveRunHealth
  <2>1. \A B \in SUBSET Client : RunHealth(msg[1], copy.part, B) \in Health
    BY RunHealthType
  <2>2. health \in [Run -> Health] /\ msg[1] \in Run
    BY <1>16 DEF SaveRunHealth, Answer
  <2>. HIDE DEF Health
  <2>3. health' \in [Run -> Health]
    BY <1>16, <2>1, <2>2, SaveRunHealthHealth
  <2>. USE DEF Health
  <2>4. faults' \in 0..MaxFaults
    BY <1>0, <1>16 DEF SaveRunHealth
  <2>. QED
    BY <1>16, <2>3, <2>4 DEF SaveRunHealth
<1>17. CASE HealthFails
  BY <1>0, <1>17 DEF HealthFails, Forget, NoRow
<1>18. CASE CompleteRun
  <2>1. run' \in [Run -> Row]
    BY <1>18, CompleteRunRun
  <2>2. faults' \in 0..MaxFaults
    BY <1>0, <1>18 DEF CompleteRun
  <2>. QED
    BY <1>18, <2>1, <2>2 DEF CompleteRun, Forget, NoRow
<1>19. CASE LeaveRun
  BY <1>0, <1>19 DEF LeaveRun, Forget, NoRow
<1>20. ASSUME NEW c \in Client, Unban(c) PROVE TypeOK'
  BY <1>0, <1>20 DEF Unban
<1>21. CASE Restart
  BY <1>0, <1>21 DEF Restart, Forget, NoRow
<1>22. CASE UNCHANGED vars
  BY <1>22 DEF vars
<1>. QED
  BY <1>1, <1>2, <1>3, <1>4, <1>5, <1>6, <1>7, <1>8, <1>9, <1>10, <1>11, <1>12,
     <1>13, <1>14, <1>15, <1>16, <1>17, <1>18, <1>19, <1>20, <1>21, <1>22
     DEF Next, Trigger, TriggerFails, HandleResult

(* The steps of the client, of the network, of an administrator and of the *)
(* result goroutine until it completes a run leave the handlers alone.     *)
HandlersAlone ==
  \/ \E r \in Run, c \in Client : Reply(r, c)
  \/ Lose
  \/ \E m \in inbox : Receive(m)
  \/ BanForLoop \/ NoLoop \/ SaveResult \/ ReadRun \/ SaveRunHealth
  \/ HealthFails \/ LeaveRun
  \/ \E c \in Client : Unban(c)
  \/ UNCHANGED vars

(* Such a step changes no run and no handler.                              *)
LEMMA HandlersAloneFrame == HandlersAlone => UNCHANGED <<run, triggerVars>>
BY DEF HandlersAlone, Reply, Lose, Receive, BanForLoop, NoLoop, SaveResult, ReadRun,
       SaveRunHealth, HealthFails, LeaveRun, Unban, vars

(* A run the result goroutine deals with has been sent to.                 *)
LEMMA InHand ==
  ASSUME TypeOK, Stages, Traffic, hpc # "idle"
  PROVE  /\ msg[1] \in Run /\ msg[2] \in Client /\ msg[3] \in Status
         /\ pc[msg[1]] \notin {"idle", "filter"}
         /\ run[msg[1]].state # "none"
<1>1. msg[1] \in Run /\ msg[2] \in Client /\ msg[3] \in Status
  BY DEF TypeOK, Answer
<1>2. sent[msg[1]] # {}
  BY DEF Traffic
<1>. QED
  BY <1>1, <1>2 DEF Stages

(* A run that is completed had been sent to.                               *)
LEMMA CompleteRunStep ==
  ASSUME TypeOK, Stages, Traffic, Copied, CompleteRun
  PROVE  \A r \in Run :
           \/ run'[r] = run[r]
           \/ /\ run'[r].state = "completed" /\ allowed[r] \subseteq run'[r].part
              /\ pc[r] \notin {"idle", "filter"}
              /\ r = msg[1] /\ hpc = "finish" /\ health[r].pending = 0
<1>1. /\ hpc = "finish" /\ health[msg[1]].pending = 0
      /\ \/ run' = run
         \/ run' = [run EXCEPT ![msg[1]] = [copy EXCEPT !.state = "completed"]]
  BY DEF CompleteRun
<1>2. allowed[msg[1]] \subseteq copy.part
  BY <1>1 DEF Copied
<1>3. msg[1] \in Run /\ pc[msg[1]] \notin {"idle", "filter"}
  BY <1>1, InHand
<1>4. run \in [Run -> Row] /\ copy \in Row
  BY DEF TypeOK
<1>. QED
  BY <1>1, <1>2, <1>3, <1>4 DEF Row

(* The handler and the row it writes stay in step.                         *)
LEMMA StagesNext == Inv /\ [Next]_vars => Stages'
<1>. SUFFICES ASSUME Inv, [Next]_vars PROVE Stages'
  OBVIOUS
<1>. DEFINE Typed == /\ run \in [Run -> Row]
                     /\ pc \in [Run -> {"idle", "filter", "send", "done", "failed"}]
                     /\ todo \in [Run -> SUBSET Client]
                     /\ allowed \in [Run -> SUBSET Client]
                     /\ sent \in [Run -> SUBSET Client]
                     /\ joined \in [Run -> SUBSET Client]
<1>0. Typed /\ Stages
  BY DEF Inv, TypeOK
<1>1. ASSUME NEW r \in Run, NEW C \in SUBSET Client, CreateRun(r, C) PROVE Stages'
  BY <1>0, <1>1 DEF CreateRun, Stages, Row
<1>2. ASSUME NEW r \in Run, NEW c \in Client, Admit(r, c) PROVE Stages'
  BY <1>0, <1>2 DEF Admit, Stages
<1>3. ASSUME NEW r \in Run, NEW c \in Client, Refuse(r, c) PROVE Stages'
  BY <1>0, <1>3 DEF Refuse, Stages
<1>4. ASSUME NEW r \in Run, NEW c \in Client, SendDispatch(r, c) PROVE Stages'
  BY <1>0, <1>4 DEF SendDispatch, Stages
<1>5. ASSUME NEW r \in Run, GenerateDispatches(r) PROVE Stages'
  BY <1>0, <1>5 DEF GenerateDispatches, Stages
<1>6. ASSUME NEW r \in Run, MarkInProgress(r) PROVE Stages'
  BY <1>0, <1>6 DEF MarkInProgress, Stages
<1>7. ASSUME NEW r \in Run, FilterFails(r) PROVE Stages'
  BY <1>0, <1>7 DEF FilterFails, Stages
<1>8. ASSUME NEW r \in Run, NEW c \in Client, SendFails(r, c) PROVE Stages'
  BY <1>0, <1>8 DEF SendFails, Stages
<1>9. CASE CompleteRun
  <2>1. \A r \in Run :
          \/ run'[r] = run[r]
          \/ /\ run'[r].state = "completed" /\ allowed[r] \subseteq run'[r].part
             /\ pc[r] \notin {"idle", "filter"}
    BY <1>9, CompleteRunStep DEF Inv
  <2>2. UNCHANGED triggerVars
    BY <1>9 DEF CompleteRun
  <2>. QED
    BY <1>0, <2>1, <2>2 DEF Stages, triggerVars
<1>10. CASE Restart
  BY <1>0, <1>10 DEF Restart, Stages
<1>11. CASE HandlersAlone
  BY <1>0, <1>11, HandlersAloneFrame DEF Stages, triggerVars
<1>. QED
  BY <1>1, <1>2, <1>3, <1>4, <1>5, <1>6, <1>7, <1>8, <1>9, <1>10, <1>11
     DEF Next, Trigger, TriggerFails, HandleResult, HandlersAlone

(* The handlers' variables change only in their own steps and in restarts. *)
LEMMA TriggerSteps ==
  [Next]_vars => \/ UNCHANGED triggerVars
                 \/ \E r \in Run : Trigger(r) \/ TriggerFails(r)
                 \/ Restart
BY DEF Next, HandleResult, Reply, Lose, Receive, BanForLoop, NoLoop, SaveResult, ReadRun,
       SaveRunHealth, HealthFails, CompleteRun, LeaveRun, Unban, vars

(* The variables of the result goroutine change only in its own steps and  *)
(* in restarts.                                                            *)
LEMMA HandSteps ==
  [Next]_vars => UNCHANGED healthVars \/ HandleResult \/ HealthFails \/ Restart
<1>1. ASSUME NEW r \in Run, Trigger(r) \/ TriggerFails(r) PROVE UNCHANGED healthVars
  BY <1>1 DEF Trigger, TriggerFails, CreateRun, Admit, Refuse, GenerateDispatches,
              SendDispatch, MarkInProgress, FilterFails, SendFails
<1>. QED
  BY <1>1 DEF Next, Reply, Lose, Unban, vars

(* Answers are only added, clients are only added to those ever banned.    *)
LEMMA SentGrows == TypeOK /\ [Next]_vars => \A r \in Run : sent[r] \subseteq sent'[r]
<1>. SUFFICES ASSUME TypeOK, [Next]_vars PROVE \A r \in Run : sent[r] \subseteq sent'[r]
  OBVIOUS
<1>1. sent' = sent \/ \E q \in Run, c \in Client : sent' = [sent EXCEPT ![q] = @ \cup {c}]
  BY TriggerSteps DEF Trigger, TriggerFails, CreateRun, Admit, Refuse, GenerateDispatches,
         SendDispatch, MarkInProgress, FilterFails, SendFails, Restart, triggerVars
<1>2. sent \in [Run -> SUBSET Client]
  BY DEF TypeOK
<1>. QED
  BY <1>1, <1>2

(* A client that has been banned stays one that has been banned.           *)
LEMMA EverBannedGrows == TypeOK /\ [Next]_vars => EverBanned \subseteq EverBanned'
<1>. SUFFICES ASSUME TypeOK, [Next]_vars PROVE EverBanned \subseteq EverBanned'
  OBVIOUS
<1>1. \/ ban' = ban
      \/ \E c, x : x \in {"active", "lifted"} /\ ban' = [ban EXCEPT ![c] = x]
  BY DEF Next, Trigger, TriggerFails, HandleResult, CreateRun, Admit, Refuse, GenerateDispatches,
         SendDispatch, MarkInProgress, FilterFails, SendFails, Reply, Lose, Receive,
         BanForLoop, NoLoop, SaveResult, ReadRun, SaveRunHealth, HealthFails, CompleteRun,
         LeaveRun, Unban, Restart, vars, triggerVars, healthVars
<1>2. ban \in [Client -> {"none", "active", "lifted"}]
  BY DEF TypeOK
<1>. QED
  BY <1>1, <1>2 DEF EverBanned

(* SaveResult adds at most its own client to those that have answered.     *)
LEMMA SaveResultAnswered ==
  ASSUME TypeOK, SaveResult
  PROVE  \A r \in Run : /\ Answered(r) \subseteq Answered(r)'
                        /\ Answered(r)' \subseteq Answered(r)
                             \cup (IF r = msg[1] THEN {msg[2]} ELSE {})
<1>1. /\ result \in [Run -> [Client -> Status \cup {NoResult}]]
      /\ msg[1] \in Run /\ msg[2] \in Client /\ msg[3] \in Status
      /\ \/ result' = result
         \/ result' = [result EXCEPT ![msg[1]][msg[2]] = IF @ = NoResult THEN msg[3] ELSE @]
  BY DEF SaveResult, TypeOK, Answer
<1>. QED
  BY <1>1, StatusAssumption DEF Answered

(* Results change only when one is saved.                                  *)
LEMMA ResultKept == [Next]_vars => SaveResult \/ UNCHANGED result
BY HandSteps DEF HandleResult, Receive, BanForLoop, NoLoop, ReadRun, SaveRunHealth,
       HealthFails, CompleteRun, LeaveRun, Restart, healthVars, Forget

(* A client that has answered stays one that has answered.                 *)
LEMMA AnsweredGrows ==
  TypeOK /\ [Next]_vars => \A r \in Run : Answered(r) \subseteq Answered(r)'
BY ResultKept, SaveResultAnswered DEF Answered

(* Only clients that were sent to are heard of.                            *)
LEMMA TrafficNext == Inv /\ [Next]_vars => Traffic'
<1>. SUFFICES ASSUME Inv, [Next]_vars PROVE Traffic'
  OBVIOUS
<1>. DEFINE Typed == /\ wire \subseteq Run \X Client
                     /\ inbox \subseteq Answer
                     /\ sent \in [Run -> SUBSET Client]
                     /\ hpc # "idle" => msg \in Answer
<1>0. Typed /\ Traffic /\ TypeOK
  BY DEF Inv, TypeOK
<1>a. \A r \in Run : sent[r] \subseteq sent'[r]
  BY <1>0, SentGrows
<1>1. \A d \in wire' : d[2] \in sent'[d[1]]
  <2>1. \/ wire' \subseteq wire
        \/ \E r \in Run, c \in Client :
             wire' = wire \cup {<<r, c>>} /\ sent' = [sent EXCEPT ![r] = @ \cup {c}]
    BY DEF Next, Trigger, TriggerFails, HandleResult, CreateRun, Admit, Refuse, GenerateDispatches,
           SendDispatch, MarkInProgress, FilterFails, SendFails, Reply, Lose, Receive,
           BanForLoop, NoLoop, SaveResult, ReadRun, SaveRunHealth, HealthFails, CompleteRun,
           LeaveRun, Unban, Restart, vars, triggerVars, healthVars
  <2>. QED
    BY <1>0, <1>a, <2>1 DEF Traffic
<1>2. \A m \in inbox' : m[2] \in sent'[m[1]]
  <2>1. \/ inbox' \subseteq inbox
        \/ \E r \in Run, c \in Client, x \in Status :
             <<r, c>> \in wire /\ inbox' = inbox \cup {<<r, c, x>>}
    BY DEF Next, Trigger, TriggerFails, HandleResult, CreateRun, Admit, Refuse, GenerateDispatches,
           SendDispatch, MarkInProgress, FilterFails, SendFails, Reply, Lose, Receive,
           BanForLoop, NoLoop, SaveResult, ReadRun, SaveRunHealth, HealthFails, CompleteRun,
           LeaveRun, Unban, Restart, vars, triggerVars, healthVars
  <2>2. \A m \in inbox : m[1] \in Run /\ m[2] \in sent'[m[1]]
    BY <1>0, <1>a DEF Traffic, Answer
  <2>3. \A d \in wire : d[1] \in Run /\ d[2] \in sent'[d[1]]
    BY <1>0, <1>a DEF Traffic
  <2>4. ASSUME NEW r \in Run, NEW c \in Client, NEW x \in Status, <<r, c>> \in wire
        PROVE  <<r, c, x>>[2] \in sent'[<<r, c, x>>[1]]
    BY <2>3, <2>4
  <2>. QED
    BY <2>1, <2>2, <2>4
<1>3. hpc' # "idle" => msg'[2] \in sent'[msg'[1]]
  <2>1. \/ hpc' = "idle"
        \/ hpc # "idle" /\ msg' = msg
        \/ \E m \in inbox : msg' = m
        \/ UNCHANGED <<hpc, msg>>
    BY HandSteps DEF HandleResult, Receive, BanForLoop, NoLoop, SaveResult, ReadRun, SaveRunHealth,
           HealthFails, CompleteRun, LeaveRun, Restart, healthVars, Forget
  <2>. QED
    BY <1>0, <1>a, <2>1 DEF Traffic, Answer
<1>4. ASSUME NEW r \in Run PROVE Answered(r)' \subseteq sent'[r]
  <2>1. CASE SaveResult
    <3>1. hpc # "idle" /\ msg[2] \in sent[msg[1]] /\ Answered(r) \subseteq sent[r]
      BY <1>0, <2>1 DEF SaveResult, Traffic
    <3>2. Answered(r)' \subseteq Answered(r) \cup (IF r = msg[1] THEN {msg[2]} ELSE {})
      BY <1>0, <2>1, SaveResultAnswered
    <3>. QED
      BY <1>a, <3>1, <3>2
  <2>2. CASE UNCHANGED result
    BY <1>0, <1>a, <2>2 DEF Answered, Traffic
  <2>. QED
    BY <2>1, <2>2, ResultKept
<1>. QED
  BY <1>1, <1>2, <1>3, <1>4 DEF Traffic

(* The clients a run lets through are settled before it is sent out.       *)
LEMMA AllowedSettled ==
  Inv /\ [Next]_vars =>
    \A r \in Run : pc[r] \notin {"idle", "filter"} => allowed'[r] = allowed[r]
<1>. SUFFICES ASSUME Inv, [Next]_vars
              PROVE  \A r \in Run : pc[r] \notin {"idle", "filter"} => allowed'[r] = allowed[r]
  OBVIOUS
<1>1. \/ allowed' = allowed
      \/ \E q \in Run, c \in Client :
           pc[q] = "filter" /\ allowed' = [allowed EXCEPT ![q] = @ \cup {c}]
  BY TriggerSteps DEF Trigger, TriggerFails, CreateRun, Admit, Refuse, GenerateDispatches,
         SendDispatch, MarkInProgress, FilterFails, SendFails, Restart, triggerVars
<1>2. allowed \in [Run -> SUBSET Client]
  BY DEF Inv, TypeOK
<1>. QED
  BY <1>1, <1>2

(* A handler that has begun to send stays past the filter.                 *)
LEMMA BeyondFilter ==
  Inv /\ [Next]_vars =>
    \A r \in Run : pc[r] \notin {"idle", "filter"} => pc'[r] \notin {"idle", "filter"}
<1>. SUFFICES ASSUME Inv, [Next]_vars
              PROVE  \A r \in Run :
                       pc[r] \notin {"idle", "filter"} => pc'[r] \notin {"idle", "filter"}
  OBVIOUS
<1>1. \/ pc' = pc
      \/ \E q \in Run : \E x :
           /\ pc' = [pc EXCEPT ![q] = x]
           /\ pc[q] = "idle" \/ x \notin {"idle", "filter"}
      \/ pc' = [r \in Run |-> IF pc[r] \in {"filter", "send"} THEN "failed" ELSE pc[r]]
  BY TriggerSteps DEF Trigger, TriggerFails, CreateRun, Admit, Refuse, GenerateDispatches,
         SendDispatch, MarkInProgress, FilterFails, SendFails, Restart, triggerVars
<1>2. pc \in [Run -> {"idle", "filter", "send", "done", "failed"}]
  BY DEF Inv, TypeOK
<1>. QED
  BY <1>1, <1>2

(* The row in hand still names all clients that were let through.          *)
LEMMA CopiedNext == Inv /\ [Next]_vars => Copied'
<1>. SUFFICES ASSUME Inv, [Next]_vars, hpc' \in {"count", "finish"}
              PROVE  copy'.state # "none" /\ allowed'[msg'[1]] \subseteq copy'.part
  BY DEF Copied
<1>1. \/ ReadRun
      \/ hpc \in {"count", "finish"} /\ UNCHANGED <<msg, copy>>
  BY HandSteps DEF HandleResult, Receive, BanForLoop, NoLoop, SaveResult, ReadRun, SaveRunHealth,
         HealthFails, CompleteRun, LeaveRun, Restart, healthVars, Forget
<1>2. hpc # "idle" /\ UNCHANGED msg
  BY <1>1 DEF ReadRun
<1>3. /\ msg[1] \in Run /\ run[msg[1]].state # "none"
      /\ allowed'[msg[1]] = allowed[msg[1]]
  BY <1>2, InHand, AllowedSettled DEF Inv
<1>4. CASE ReadRun
  BY <1>3, <1>4 DEF ReadRun, Inv, Stages, triggerVars
<1>5. CASE hpc \in {"count", "finish"} /\ UNCHANGED <<msg, copy>>
  BY <1>3, <1>5 DEF Inv, Copied
<1>. QED
  BY <1>1, <1>4, <1>5

(* If nobody among the participants P has both answered and been banned,   *)
(* the counts add up, and nothing is pending only when every participant   *)
(* has answered or has been banned.                                        *)
LEMMA RunHealthCounts ==
  ASSUME NEW r \in Run, NEW P \in SUBSET Client, NEW B \in SUBSET Client,
         Answered(r) \subseteq P, Answered(r) \cap B = {}
  PROVE  /\ RunHealth(r, P, B).success <= RunHealth(r, P, B).answers
         /\ RunHealth(r, P, B).banned + RunHealth(r, P, B).answers
              <= RunHealth(r, P, B).total
         /\ RunHealth(r, P, B).pending = 0 => P \subseteq Answered(r) \cup B
<1>. DEFINE S == {c \in Client : result[r][c] = Success}
            A == Answered(r)
            D == B \cap P
<1>1. IsFiniteSet(P) /\ IsFiniteSet(A) /\ IsFiniteSet(D) /\ IsFiniteSet(S)
  BY ClientAssumption, FS_Subset DEF Answered
<1>2. /\ Cardinality(P) \in Nat /\ Cardinality(A) \in Nat
      /\ Cardinality(D) \in Nat /\ Cardinality(S) \in Nat
  BY <1>1, FS_CardinalityType
<1>3. S \subseteq A
  BY StatusAssumption DEF Answered
<1>4. Cardinality(S) <= Cardinality(A)
  BY <1>1, <1>3, FS_Subset
<1>5. D \cap A = {}
  OBVIOUS
<1>6. Cardinality(D \cup A) = Cardinality(D) + Cardinality(A)
  <2>1. Cardinality(D \cap A) = 0
    BY <1>5, FS_EmptySet
  <2>2. Cardinality(D \cup A) = Cardinality(D) + Cardinality(A) - Cardinality(D \cap A)
    BY <1>1, FS_Union
  <2>. HIDE DEF D, A
  <2>. QED
    BY <1>2, <2>1, <2>2
<1>7. D \cup A \subseteq P
  OBVIOUS
<1>8. Cardinality(D \cup A) <= Cardinality(P)
  BY <1>1, <1>7, FS_Subset
<1>9. Cardinality(D \cup A) = Cardinality(P) => P \subseteq D \cup A
  BY <1>1, <1>7, FS_Subset
<1>10. /\ RunHealth(r, P, B).success = Cardinality(S)
       /\ RunHealth(r, P, B).answers = Cardinality(A)
       /\ RunHealth(r, P, B).banned = Cardinality(D)
       /\ RunHealth(r, P, B).total = Cardinality(P)
       /\ RunHealth(r, P, B).pending
            = IF Cardinality(P) > Cardinality(D) + Cardinality(A)
                THEN Cardinality(P) - (Cardinality(D) + Cardinality(A)) ELSE 0
  BY DEF RunHealth
<1>11. D \cup A \subseteq Answered(r) \cup B
  OBVIOUS
<1>. HIDE DEF S, A, D
<1>. QED
  BY <1>2, <1>4, <1>6, <1>8, <1>9, <1>10, <1>11

(* What SaveRunHealth stores, of a run no answer to which was from a       *)
(* client ever banned.                                                     *)
LEMMA SaveRunHealthStep ==
  ASSUME Inv, SaveRunHealth
  PROVE  LET r == msg[1] IN
         /\ r \in Run
         /\ \A q \in Run \ {r} : health'[q] = health[q]
         /\ Answered(r) \cap EverBanned = {} =>
              /\ health'[r].success <= health'[r].answers
              /\ health'[r].banned + health'[r].answers <= health'[r].total
              /\ health'[r].pending = 0 => allowed[r] \subseteq Answered(r) \cup EverBanned
<1>. DEFINE r == msg[1]
            P == copy.part
<1>1. hpc = "count" /\ r \in Run
  BY InHand DEF SaveRunHealth, Inv
<1>2. /\ P \in SUBSET Client /\ allowed[r] \subseteq P
      /\ Answered(r) \subseteq allowed[r]
  BY <1>1 DEF Inv, TypeOK, Row, Copied, Traffic, Stages
<1>3. PICK B \in {Banned, {}} : health' = [health EXCEPT ![r] = RunHealth(r, P, B)]
  BY DEF SaveRunHealth
<1>4. B \in SUBSET Client /\ B \subseteq EverBanned
  BY <1>3 DEF Banned, EverBanned
<1>5. \E T : health \in [Run -> T]
  BY DEF Inv, TypeOK
<1>6. health'[r] = RunHealth(r, P, B) /\ \A q \in Run \ {r} : health'[q] = health[q]
  BY <1>1, <1>3, <1>5
<1>7. ASSUME Answered(r) \cap EverBanned = {}
      PROVE  /\ RunHealth(r, P, B).success <= RunHealth(r, P, B).answers
             /\ RunHealth(r, P, B).banned + RunHealth(r, P, B).answers
                  <= RunHealth(r, P, B).total
             /\ RunHealth(r, P, B).pending = 0 => P \subseteq Answered(r) \cup B
  <2>1. Answered(r) \subseteq P /\ Answered(r) \cap B = {}
    BY <1>2, <1>4, <1>7
  <2>. HIDE DEF r, P
  <2>. QED
    BY <1>1, <1>2, <1>4, <2>1, RunHealthCounts
<1>. QED
  BY <1>1, <1>2, <1>4, <1>6, <1>7

(* A health changes only when one is saved.                                *)
LEMMA HealthKept == [Next]_vars => SaveRunHealth \/ UNCHANGED health
BY HandSteps DEF HandleResult, Receive, BanForLoop, NoLoop, SaveResult, ReadRun,
       HealthFails, CompleteRun, LeaveRun, Restart, healthVars, Forget

(* The counts of a stored health stay consistent.                          *)
LEMMA CountedNext == Inv /\ [Next]_vars => Counted'
<1>. SUFFICES ASSUME Inv, [Next]_vars, NEW r \in Run, Answered(r)' \cap EverBanned' = {}
              PROVE  /\ health'[r].success <= health'[r].answers
                     /\ health'[r].banned + health'[r].answers <= health'[r].total
  BY DEF Counted
<1>1. Answered(r) \cap EverBanned = {}
  BY AnsweredGrows, EverBannedGrows DEF Inv
<1>2. CASE SaveRunHealth
  BY <1>1, <1>2, SaveRunHealthStep DEF Inv, Counted
<1>3. CASE UNCHANGED health
  BY <1>1, <1>3 DEF Inv, Counted
<1>. QED
  BY <1>2, <1>3, HealthKept

(* Once all are accounted for, they remain so.                             *)
LEMMA AccountedForKept ==
  ASSUME Inv, [Next]_vars, NEW r \in Run, pc[r] \notin {"idle", "filter"}, AccountedFor(r)
  PROVE  AccountedFor(r)'
<1>1. /\ Answered(r) \subseteq Answered(r)' /\ EverBanned \subseteq EverBanned'
      /\ allowed'[r] = allowed[r]
  BY AnsweredGrows, EverBannedGrows, AllowedSettled DEF Inv
<1>. QED
  BY <1>1 DEF AccountedFor

(* A run whose health has nothing pending is accounted for until it is     *)
(* completed.                                                              *)
LEMMA FinishNext ==
  ASSUME Inv, [Next]_vars, hpc' = "finish", health'[msg'[1]].pending = 0
  PROVE  AccountedFor(msg[1])' /\ UNCHANGED msg
<1>1. \/ SaveRunHealth
      \/ hpc = "finish" /\ UNCHANGED <<msg, health>>
  BY HandSteps DEF HandleResult, Receive, BanForLoop, NoLoop, SaveResult, ReadRun, SaveRunHealth,
         HealthFails, CompleteRun, LeaveRun, Restart, healthVars, Forget
<1>2. hpc # "idle" /\ UNCHANGED msg
  BY <1>1 DEF SaveRunHealth
<1>3. msg[1] \in Run /\ pc[msg[1]] \notin {"idle", "filter"}
  BY <1>2, InHand DEF Inv
<1>4. AccountedFor(msg[1])
  <2>1. CASE SaveRunHealth
    BY <1>2, <2>1, SaveRunHealthStep DEF AccountedFor
  <2>2. CASE hpc = "finish" /\ UNCHANGED <<msg, health>>
    BY <2>2 DEF Inv
  <2>. QED
    BY <1>1, <2>1, <2>2
<1>. QED
  BY <1>2, <1>3, <1>4, AccountedForKept

(* The rows of the runs change only in three ways.                         *)
LEMMA RunSteps ==
  [Next]_vars => \/ CompleteRun
                 \/ UNCHANGED run
                 \/ \E q \in Run, C \in SUBSET Client : CreateRun(q, C)
                 \/ \E q \in Run : MarkInProgress(q)
BY DEF Next, Trigger, TriggerFails, HandleResult, Admit, Refuse, GenerateDispatches,
       SendDispatch, FilterFails, SendFails, Reply, Lose, Receive,
       BanForLoop, NoLoop, SaveResult, ReadRun, SaveRunHealth, HealthFails,
       LeaveRun, Unban, Restart, vars, triggerVars, healthVars

(* Only CompleteRun completes a run.                                       *)
LEMMA CompletedBefore ==
  ASSUME Inv, [Next]_vars, NEW r \in Run, run'[r].state = "completed"
  PROVE  CompleteRun \/ run[r].state = "completed"
<1>0. run \in [Run -> Row]
  BY DEF Inv, TypeOK
<1>. DEFINE NotCompleted == run'[r] = run[r] \/ run'[r].state # "completed"
<1>1. CompleteRun \/ NotCompleted
  <2>1. ASSUME NEW q \in Run, NEW C \in SUBSET Client, CreateRun(q, C) PROVE NotCompleted
    BY <1>0, <2>1 DEF CreateRun
  <2>2. ASSUME NEW q \in Run, MarkInProgress(q) PROVE NotCompleted
    BY <1>0, <2>2 DEF MarkInProgress
  <2>. QED
    BY <2>1, <2>2, RunSteps
<1>. QED
  BY <1>1

(* A run that is completed, before a step or by it, is accounted for.      *)
LEMMA CompletedNext ==
  ASSUME Inv, [Next]_vars, NEW r \in Run, run'[r].state = "completed"
  PROVE  pc'[r] \notin {"idle", "filter"} /\ AccountedFor(r)'
<1>1. pc[r] \notin {"idle", "filter"} /\ AccountedFor(r)
  <2>1. CASE run[r].state = "completed"
    BY <2>1 DEF Inv
  <2>2. CASE CompleteRun /\ run[r].state # "completed"
    BY <2>2, CompleteRunStep DEF Inv
  <2>. QED
    BY <2>1, <2>2, CompletedBefore
<1>. QED
  BY <1>1, BeyondFilter, AccountedForKept

(* A handler that has ended stays there.                                   *)
LEMMA DoneKept ==
  ASSUME TypeOK, [Next]_vars, NEW r \in Run, pc[r] = "done"
  PROVE  pc'[r] = "done"
<1>1. \/ pc' = pc
      \/ \E q \in Run : \E x : pc' = [pc EXCEPT ![q] = x] /\ pc[q] # "done"
      \/ pc' = [q \in Run |-> IF pc[q] \in {"filter", "send"} THEN "failed" ELSE pc[q]]
  BY TriggerSteps DEF Trigger, TriggerFails, CreateRun, Admit, Refuse, GenerateDispatches,
         SendDispatch, MarkInProgress, FilterFails, SendFails, Restart, triggerVars
<1>2. pc \in [Run -> {"idle", "filter", "send", "done", "failed"}]
  BY DEF TypeOK
<1>. QED
  BY <1>1, <1>2

(* A row in the table that says in_progress was written by its handler.    *)
LEMMA MarkedRow ==
  ASSUME Inv, [Next]_vars, NEW r \in Run, run'[r].state = "in_progress"
  PROVE  pc'[r] = "done" /\ run'[r].part = allowed'[r]
<1>0. /\ run \in [Run -> Row] /\ TypeOK
      /\ pc \in [Run -> {"idle", "filter", "send", "done", "failed"}]
  BY DEF Inv, TypeOK
<1>1. CASE run'[r] = run[r]
  <2>1. pc[r] = "done" /\ run[r].part = allowed[r]
    BY <1>1 DEF Inv, Marked
  <2>. QED
    BY <1>0, <1>1, <2>1, DoneKept, AllowedSettled
<1>2. ASSUME NEW q \in Run, NEW C \in SUBSET Client, CreateRun(q, C) PROVE run'[r] = run[r]
  <2>1. run' = [run EXCEPT ![q] = [state |-> "pending", part |-> C]]
    BY <1>2 DEF CreateRun
  <2>. QED
    BY <1>0, <2>1
<1>3. ASSUME NEW q \in Run, MarkInProgress(q), run'[r] # run[r]
      PROVE  pc'[r] = "done" /\ run'[r].part = allowed'[r]
  <2>1. /\ run' = [run EXCEPT ![q] = [state |-> "in_progress", part |-> allowed[q]]]
        /\ pc' = [pc EXCEPT ![q] = "done"] /\ allowed' = allowed
    BY <1>3 DEF MarkInProgress
  <2>2. q = r
    BY <1>0, <1>3, <2>1
  <2>. QED
    BY <1>0, <2>1, <2>2
<1>4. CASE CompleteRun
  BY <1>1, <1>4, CompleteRunStep DEF Inv
<1>. QED
  BY <1>1, <1>2, <1>3, <1>4, RunSteps

(* So was the row in hand, and the health saved last is of that row.       *)
LEMMA MarkedNext == Inv /\ [Next]_vars => Marked'
<1>. SUFFICES ASSUME Inv, [Next]_vars PROVE Marked'
  OBVIOUS
<1>1. ASSUME hpc' \in {"count", "finish"}, copy'.state = "in_progress"
      PROVE  pc'[msg'[1]] = "done" /\ copy'.part = allowed'[msg'[1]]
  <2>1. \/ ReadRun
        \/ hpc \in {"count", "finish"} /\ UNCHANGED <<msg, copy>>
    BY <1>1, HandSteps DEF HandleResult, Receive, BanForLoop, NoLoop, SaveResult, ReadRun,
           SaveRunHealth, HealthFails, CompleteRun, LeaveRun, Restart, healthVars, Forget
  <2>2. hpc # "idle" /\ UNCHANGED msg
    BY <2>1 DEF ReadRun
  <2>3. msg[1] \in Run
    BY <2>2, InHand DEF Inv
  <2>4. pc[msg[1]] = "done" /\ copy'.part = allowed[msg[1]]
    <3>1. CASE ReadRun
      BY <1>1, <2>3, <3>1 DEF ReadRun, Inv, Marked
    <3>2. CASE hpc \in {"count", "finish"} /\ UNCHANGED <<msg, copy>>
      BY <1>1, <3>2 DEF Inv, Marked
    <3>. QED
      BY <2>1, <3>1, <3>2
  <2>. QED
    BY <2>2, <2>3, <2>4, DoneKept, AllowedSettled DEF Inv
<1>2. ASSUME hpc' = "finish"
      PROVE  \E B \in SUBSET Client : health'[msg'[1]] = RunHealth(msg[1], copy.part, B)'
  <2>1. \/ SaveRunHealth
        \/ hpc = "finish" /\ UNCHANGED <<msg, copy, health, result>>
    BY <1>2, HandSteps DEF HandleResult, Receive, BanForLoop, NoLoop, SaveResult, ReadRun,
           SaveRunHealth, HealthFails, CompleteRun, LeaveRun, Restart, healthVars, Forget
  <2>2. UNCHANGED <<msg, copy, result>>
    BY <2>1 DEF SaveRunHealth
  <2>3. ASSUME NEW B \in SUBSET Client
        PROVE  RunHealth(msg[1], copy.part, B)' = RunHealth(msg[1], copy.part, B)
    BY <2>2 DEF RunHealth, Answered
  <2>4. CASE SaveRunHealth
    <3>1. PICK B \in {Banned, {}} :
            health' = [health EXCEPT ![msg[1]] = RunHealth(msg[1], copy.part, B)]
      BY <2>4 DEF SaveRunHealth
    <3>2. B \in SUBSET Client
      BY <3>1 DEF Banned
    <3>3. msg[1] \in Run /\ \E T : health \in [Run -> T]
      BY <2>4, InHand DEF SaveRunHealth, Inv, TypeOK
    <3>4. health'[msg[1]] = RunHealth(msg[1], copy.part, B)
      BY <3>1, <3>3
    <3>. QED
      BY <2>2, <2>3, <3>2, <3>4
  <2>5. CASE hpc = "finish" /\ UNCHANGED <<msg, copy, health, result>>
    BY <2>3, <2>5 DEF Inv, Marked
  <2>. QED
    BY <2>1, <2>4, <2>5
<1>3. \A r \in Run : run'[r].state = "in_progress" =>
        pc'[r] = "done" /\ run'[r].part = allowed'[r]
  BY MarkedRow
<1>. QED
  BY <1>1, <1>2, <1>3 DEF Marked

(* Nothing is under way in the initial state.                              *)
LEMMA InvInit == Init => Inv
<1>. SUFFICES ASSUME Init PROVE Inv
  OBVIOUS
<1>1. TypeOK
  BY TypeInit
<1>2. Stages /\ Traffic /\ Copied
  BY DEF Init, Stages, Traffic, Copied, Answered, NoRow
<1>3. Counted
  BY DEF Init, Counted, NoHealth
<1>4. Marked
  BY DEF Init, Marked, NoRow
<1>. QED
  BY <1>1, <1>2, <1>3, <1>4 DEF Inv, Init, NoRow

(* One part of the invariant at a time, every step preserves it.           *)
LEMMA InvNext == Inv /\ [Next]_vars => Inv'
<1>. SUFFICES ASSUME Inv, [Next]_vars PROVE Inv'
  OBVIOUS
<1>1. TypeOK'
  BY TypeNext DEF Inv
<1>2. Stages' /\ Traffic' /\ Copied' /\ Counted' /\ Marked'
  BY StagesNext, TrafficNext, CopiedNext, CountedNext, MarkedNext
<1>3. hpc' = "finish" /\ health'[msg'[1]].pending = 0 => AccountedFor(msg[1])'
  BY FinishNext
<1>4. \A r \in Run : run'[r].state = "completed" =>
        pc'[r] \notin {"idle", "filter"} /\ AccountedFor(r)'
  BY CompletedNext
<1>. QED
  BY <1>1, <1>2, <1>3, <1>4 DEF Inv

(* The strengthened invariant holds of every behaviour.                    *)
THEOREM Invariance == Spec => []Inv
BY InvInit, InvNext, PTL DEF Spec

(* Every variable keeps its type, whatever fails and whatever is lost.     *)
THEOREM Typing == Spec => []TypeOK
BY Invariance, PTL DEF Inv

(* The completion rule of CalculateRunHealth is right for every run no     *)
(* answer to which came from a client that has ever been banned: when such *)
(* a run is completed, each client it was sent to has answered or has been *)
(* banned.                                                                 *)
THEOREM Completion == Spec => []CompletedIsAccountedFor
<1>1. Inv => CompletedIsAccountedFor
  BY DEF Inv, Stages, AccountedFor, CompletedIsAccountedFor
<1>. QED
  BY <1>1, Invariance, PTL

(* The stored success count is within the effective number of participants *)
(* of every such run.                                                      *)
THEOREM SuccessBound == Spec => []SuccessWithinEffective
<1>1. ASSUME NEW h \in [total : Nat, banned : Nat, success : Nat, answers : Nat,
                        pending : Nat],
             h.success <= h.answers, h.banned + h.answers <= h.total
      PROVE  h.success + h.banned <= h.total
  BY <1>1
<1>2. Inv => SuccessWithinEffective
  BY <1>1 DEF Inv, TypeOK, Counted, SuccessWithinEffective
<1>. QED
  BY <1>2, Invariance, PTL

(* If all participants have answered, nothing is pending, whoever counts   *)
(* as banned.                                                              *)
LEMMA AllAnswered ==
  ASSUME NEW r, NEW P \in SUBSET Client, NEW B \in SUBSET Client, P \subseteq Answered(r)
  PROVE  RunHealth(r, P, B).pending = 0
<1>. DEFINE A == Answered(r)
            D == B \cap P
<1>1. IsFiniteSet(P) /\ IsFiniteSet(A) /\ IsFiniteSet(D)
  BY ClientAssumption, FS_Subset DEF Answered
<1>2. /\ Cardinality(P) \in Nat /\ Cardinality(A) \in Nat /\ Cardinality(D) \in Nat
      /\ Cardinality(P) <= Cardinality(A)
  BY <1>1, FS_CardinalityType, FS_Subset
<1>3. RunHealth(r, P, B).pending
        = IF Cardinality(P) > Cardinality(D) + Cardinality(A)
            THEN Cardinality(P) - (Cardinality(D) + Cardinality(A)) ELSE 0
  BY DEF RunHealth
<1>. HIDE DEF A, D
<1>. QED
  BY <1>2, <1>3

(* The last answer completes a run that was marked in_progress before it   *)
(* was read, with any bans and after any faults (IsComplete in             *)
(* CalculateRunHealth).                                                    *)
THEOREM LastAnswer == Spec => []LastAnswerSuffices
<1>1. ASSUME Inv, hpc = "finish", copy.state = "in_progress", sent[msg[1]] \subseteq Answered(msg[1])
      PROVE  health[msg[1]].pending = 0
  <2>1. msg[1] \in Run /\ copy.part \in SUBSET Client
    BY <1>1, InHand DEF Inv, TypeOK, Row
  <2>2. pc[msg[1]] = "done" /\ copy.part = allowed[msg[1]]
    BY <1>1 DEF Inv, Marked
  <2>3. copy.part \subseteq Answered(msg[1])
    BY <1>1, <2>1, <2>2 DEF Inv, Stages
  <2>4. PICK B \in SUBSET Client : health[msg[1]] = RunHealth(msg[1], copy.part, B)
    BY <1>1 DEF Inv, Marked
  <2>. QED
    BY <2>1, <2>3, <2>4, AllAnswered
<1>2. Inv => LastAnswerSuffices
  BY <1>1 DEF LastAnswerSuffices
<1>. QED
  BY <1>2, Invariance, PTL

(* A completed run is taken back only by the one UpdateRun of its own      *)
(* handler (SendDispatches).                                               *)
THEOREM GoodForEver == Spec => CompletedForGood
<1>1. ASSUME Inv, [Next]_vars, NEW r \in Run, run[r].state = "completed",
             run'[r].state # "completed"
      PROVE  pc[r] = "send" /\ pc'[r] = "done" /\ run'[r].state = "in_progress"
  <2>0. /\ run \in [Run -> Row]
        /\ pc \in [Run -> {"idle", "filter", "send", "done", "failed"}]
        /\ pc[r] # "idle"
    BY <1>1 DEF Inv, TypeOK
  <2>1. run'[r] # run[r]
    BY <1>1
  <2>2. ~CompleteRun
    BY <1>1, <2>1, CompleteRunStep DEF Inv
  <2>3. ASSUME NEW q \in Run, NEW C \in SUBSET Client, CreateRun(q, C) PROVE FALSE
    <3>1. pc[q] = "idle" /\ run' = [run EXCEPT ![q] = [state |-> "pending", part |-> C]]
      BY <2>3 DEF CreateRun
    <3>. QED
      BY <2>0, <2>1, <3>1
  <2>4. PICK q \in Run : MarkInProgress(q)
    BY <1>1, <2>1, <2>2, <2>3, RunSteps
  <2>5. /\ pc[q] = "send" /\ pc' = [pc EXCEPT ![q] = "done"]
        /\ run' = [run EXCEPT ![q] = [state |-> "in_progress", part |-> allowed[q]]]
    BY <2>1, <2>4 DEF MarkInProgress
  <2>6. q = r
    BY <2>0, <2>1, <2>5
  <2>. QED
    BY <2>0, <2>5, <2>6
<1>2. Inv /\ [Next]_vars =>
        [\A r \in Run :
           run[r].state = "completed" /\ run'[r].state # "completed"
             => pc[r] = "send" /\ pc'[r] = "done" /\ run'[r].state = "in_progress"]_vars
  BY <1>1
<1>. QED
  BY <1>2, Invariance, PTL DEF Spec, CompletedForGood
-----------------------------------------------------------------------------
(* The dispatch list of a handler that is not filtering.                   *)
LEMMA ListOf ==
  ASSUME NEW r \in Run
  PROVE  ledgerList[r] = IF pc[r] = "filter"
                           THEN [type |-> "type", allowed |-> allowed[r],
                                 filtered |-> joined[r] \ (todo[r] \cup allowed[r])]
                           ELSE Ledger!Closed
BY DEF ledgerList, Ledger!Closed

(* The same list after a step.                                             *)
LEMMA ListThen ==
  ASSUME NEW r \in Run
  PROVE  ledgerList'[r] = IF pc'[r] = "filter"
                            THEN [type |-> "type", allowed |-> allowed'[r],
                                  filtered |-> joined'[r] \ (todo'[r] \cup allowed'[r])]
                            ELSE Ledger!Closed
BY DEF ledgerList, Ledger!Closed

(* The dispatch lists before and after a step are functions on the runs.   *)
LEMMA ListsType ==
  /\ ledgerList = [r \in Run |-> ledgerList[r]]
  /\ ledgerList' = [r \in Run |-> ledgerList'[r]]
BY DEF ledgerList

(* A step of one handler changes at most its own list.                     *)
LEMMA ListsUpdate ==
  ASSUME NEW r \in Run, NEW e, ledgerList'[r] = e,
         \A q \in Run \ {r} : ledgerList'[q] = ledgerList[q]
  PROVE  ledgerList' = [ledgerList EXCEPT ![r] = e]
<1>1. ledgerList' = [q \in Run |-> IF q = r THEN e ELSE ledgerList[q]]
  BY ListsType
<1>2. [ledgerList EXCEPT ![r] = e] = [q \in Run |-> IF q = r THEN e ELSE ledgerList[q]]
  BY ListsType
<1>. QED
  BY <1>1, <1>2

(* The table of bans is the same as long as the bans are.                  *)
LEMMA RowKept == UNCHANGED ban => UNCHANGED ledgerRow
BY DEF ledgerRow

(* Nothing is filtered in the initial state.                               *)
LEMMA LedgerStart == Init => Ledger!LedgerInit
<1>. SUFFICES ASSUME Init PROVE Ledger!LedgerInit
  OBVIOUS
<1>1. ledgerRow \in [Ledger!Key -> {"none", "active"}]
  BY DEF Init, ledgerRow, Ledger!Key, Ledger!BanType
<1>2. ledgerList = [r \in Run |-> Ledger!Closed]
  BY ListOf, ListsType DEF Init
<1>. QED
  BY <1>1, <1>2 DEF Ledger!LedgerInit

(* CreateRun opens an empty dispatch list.                                 *)
LEMMA CreateRunOpens ==
  ASSUME Inv, NEW r \in Run, NEW C \in SUBSET Client, CreateRun(r, C)
  PROVE  Ledger!Open(r, "type")
<1>0. /\ pc \in [Run -> {"idle", "filter", "send", "done", "failed"}]
      /\ todo \in [Run -> SUBSET Client] /\ joined \in [Run -> SUBSET Client]
      /\ pc[r] = "idle" /\ allowed[r] = {}
  BY DEF Inv, TypeOK, Stages, CreateRun
<1>1. /\ pc' = [pc EXCEPT ![r] = "filter"] /\ todo' = [todo EXCEPT ![r] = C]
      /\ joined' = [joined EXCEPT ![r] = C] /\ UNCHANGED <<ban, allowed>>
  BY DEF CreateRun
<1>. DEFINE e == [type |-> "type", allowed |-> {}, filtered |-> {}]
<1>2. ledgerList[r] = Ledger!Closed
  BY <1>0, ListOf
<1>3. ledgerList'[r] = e
  BY <1>0, <1>1, ListThen
<1>4. \A q \in Run \ {r} : ledgerList'[q] = ledgerList[q]
  BY <1>0, <1>1, ListOf, ListThen
<1>5. [ledgerList[r] EXCEPT !.type = "type"] = e
  BY <1>2 DEF Ledger!Closed
<1>. HIDE DEF e
<1>6. ledgerList' = [ledgerList EXCEPT ![r] = e]
  BY <1>3, <1>4, ListsUpdate
<1>7. ledgerList' = [ledgerList EXCEPT ![r].type = "type"]
  BY <1>5, <1>6
<1>. QED
  BY <1>1, <1>2, <1>7, RowKept DEF Ledger!Open

(* A client let through joins the list, and no active ban covers it.       *)
LEMMA AdmitAdmits ==
  ASSUME Inv, NEW r \in Run, NEW c \in Client, Admit(r, c)
  PROVE  Ledger!Admit(r, c)
<1>0. /\ todo \in [Run -> SUBSET Client] /\ allowed \in [Run -> SUBSET Client]
      /\ joined \in [Run -> SUBSET Client]
      /\ pc[r] = "filter" /\ c \in todo[r] /\ ban[c] # "active"
  BY DEF Inv, TypeOK, Admit
<1>1. /\ todo' = [todo EXCEPT ![r] = @ \ {c}]
      /\ allowed' = [allowed EXCEPT ![r] = @ \cup {c}] /\ UNCHANGED <<ban, pc, joined>>
  BY DEF Admit
<1>. DEFINE F == joined[r] \ (todo[r] \cup allowed[r])
            e == [type |-> "type", allowed |-> allowed[r] \cup {c}, filtered |-> F]
<1>2. ledgerList[r] = [type |-> "type", allowed |-> allowed[r], filtered |-> F]
  BY <1>0, ListOf
<1>3. ledgerList'[r] = e
  <2>1. joined[r] \ ((todo[r] \ {c}) \cup (allowed[r] \cup {c})) = F
    BY <1>0
  <2>2. todo'[r] = todo[r] \ {c} /\ allowed'[r] = allowed[r] \cup {c}
    BY <1>0, <1>1
  <2>. QED
    BY <1>0, <1>1, <2>1, <2>2, ListThen
<1>4. \A q \in Run \ {r} : ledgerList'[q] = ledgerList[q]
  BY <1>0, <1>1, ListOf, ListThen
<1>5. [ledgerList[r] EXCEPT !.allowed = @ \cup {c}] = e
  BY <1>2
<1>. HIDE DEF e
<1>6. ledgerList' = [ledgerList EXCEPT ![r] = e]
  BY <1>3, <1>4, ListsUpdate
<1>7. ledgerList' = [ledgerList EXCEPT ![r].allowed = @ \cup {c}]
  BY <1>5, <1>6
<1>8. \A k \in Ledger!Covering(c, ledgerList[r].type) : ledgerRow[k] # "active"
  BY <1>0, <1>2 DEF Ledger!Covering, ledgerRow
<1>. QED
  BY <1>1, <1>7, <1>8, RowKept DEF Ledger!Admit

(* A client refused has been banned at some time.                          *)
LEMMA RefuseRefuses ==
  ASSUME Inv, NEW r \in Run, NEW c \in Client, Refuse(r, c)
  PROVE  Ledger!Refuse(r, c)
<1>0. /\ todo \in [Run -> SUBSET Client] /\ allowed \in [Run -> SUBSET Client]
      /\ joined \in [Run -> SUBSET Client]
      /\ pc[r] = "filter" /\ c \in todo[r] /\ ban[c] # "none"
      /\ todo[r] \subseteq joined[r] \ allowed[r]
  BY DEF Inv, TypeOK, Refuse, Stages
<1>1. todo' = [todo EXCEPT ![r] = @ \ {c}] /\ UNCHANGED <<ban, pc, joined, allowed>>
  BY DEF Refuse
<1>. DEFINE F == joined[r] \ (todo[r] \cup allowed[r])
            e == [type |-> "type", allowed |-> allowed[r], filtered |-> F \cup {c}]
<1>2. ledgerList[r] = [type |-> "type", allowed |-> allowed[r], filtered |-> F]
  BY <1>0, ListOf
<1>3. ledgerList'[r] = e
  <2>1. joined[r] \ ((todo[r] \ {c}) \cup allowed[r]) = F \cup {c}
    BY <1>0
  <2>2. todo'[r] = todo[r] \ {c}
    BY <1>0, <1>1
  <2>. QED
    BY <1>0, <1>1, <2>1, <2>2, ListThen
<1>4. \A q \in Run \ {r} : ledgerList'[q] = ledgerList[q]
  BY <1>0, <1>1, ListOf, ListThen
<1>5. [ledgerList[r] EXCEPT !.filtered = @ \cup {c}] = e
  BY <1>2
<1>. HIDE DEF e
<1>6. ledgerList' = [ledgerList EXCEPT ![r] = e]
  BY <1>3, <1>4, ListsUpdate
<1>7. ledgerList' = [ledgerList EXCEPT ![r].filtered = @ \cup {c}]
  BY <1>5, <1>6
<1>8. \E k \in Ledger!Covering(c, ledgerList[r].type) : ledgerRow[k] # "none"
  BY <1>0, <1>2 DEF Ledger!Covering, ledgerRow
<1>. QED
  BY <1>1, <1>7, <1>8, RowKept DEF Ledger!Refuse

(* No handler enters the filter or gets on in it.                          *)
Leaves == /\ UNCHANGED <<ban, joined, allowed>>
          /\ \A r \in Run : pc'[r] = "filter" => pc[r] = "filter" /\ todo'[r] = todo[r]

(* Handlers that leave the filter, by themselves or in a crash, close      *)
(* their lists; the others keep theirs.                                    *)
LEMMA LeavingCloses == Leaves => Ledger!LedgerNext
<1>. SUFFICES ASSUME Leaves PROVE \E F \in SUBSET Run : Ledger!Close(F)
  BY DEF Ledger!LedgerNext
<1>. DEFINE F == {r \in Run : pc'[r] # "filter"}
<1>1. \A r \in Run : ledgerList'[r] = IF r \in F THEN Ledger!Closed ELSE ledgerList[r]
  BY ListOf, ListThen DEF Leaves
<1>. HIDE DEF F
<1>2. ledgerList' = [r \in Run |-> IF r \in F THEN Ledger!Closed ELSE ledgerList[r]]
  BY <1>1, ListsType
<1>3. F \in SUBSET Run
  BY DEF F
<1>. QED
  BY <1>2, <1>3, RowKept DEF Ledger!Close, Leaves

(* A ban that is given or lifted changes its row of the table.             *)
LEMMA RowUpdate ==
  ASSUME ban \in [Client -> {"none", "active", "lifted"}], NEW c \in Client, NEW x,
         ban' = [ban EXCEPT ![c] = x]
  PROVE  ledgerRow' = [ledgerRow EXCEPT ![<<c, "type">>] = x]
<1>. DEFINE K == Client \X {"type", "global"}
<1>1. ASSUME NEW k \in K
      PROVE  (IF k[2] = "type" THEN ban'[k[1]] ELSE "none")
               = IF k = <<c, "type">> THEN x ELSE IF k[2] = "type" THEN ban[k[1]] ELSE "none"
  <2>1. PICK d \in Client, t \in {"type", "global"} : k = <<d, t>>
    OBVIOUS
  <2>2. (k = <<c, "type">>) <=> (d = c /\ t = "type")
    BY <2>1
  <2>3. k[1] = d /\ k[2] = t
    BY <2>1
  <2>. QED
    BY <2>2, <2>3
<1>2. ledgerRow' = [k \in K |-> IF k[2] = "type" THEN ban'[k[1]] ELSE "none"]
  BY DEF ledgerRow
<1>3. [ledgerRow EXCEPT ![<<c, "type">>] = x]
        = [k \in K |-> IF k = <<c, "type">> THEN x
                       ELSE IF k[2] = "type" THEN ban[k[1]] ELSE "none"]
  BY DEF ledgerRow
<1>. HIDE DEF K
<1>. QED
  BY <1>1, <1>2, <1>3

(* Every step of a run is a step of the ledger, or none.                   *)
LEMMA LedgerStep == Inv /\ [Next]_vars => [Ledger!LedgerNext]_<<ledgerRow, ledgerList>>
<1>. SUFFICES ASSUME Inv, [Next]_vars
              PROVE  Ledger!LedgerNext \/ UNCHANGED <<ledgerRow, ledgerList>>
  OBVIOUS
<1>0. /\ pc \in [Run -> {"idle", "filter", "send", "done", "failed"}]
      /\ todo \in [Run -> SUBSET Client] /\ ban \in [Client -> {"none", "active", "lifted"}]
  BY DEF Inv, TypeOK
<1>1. Leaves => Ledger!LedgerNext
  BY LeavingCloses
<1>2. ASSUME NEW r \in Run, Trigger(r) PROVE Ledger!LedgerNext
  <2>1. ASSUME NEW C \in SUBSET Client, CreateRun(r, C) PROVE Ledger!LedgerNext
    BY <2>1, CreateRunOpens DEF Ledger!LedgerNext
  <2>2. ASSUME NEW c \in Client, Admit(r, c) \/ Refuse(r, c) PROVE Ledger!LedgerNext
    BY <2>2, AdmitAdmits, RefuseRefuses DEF Ledger!LedgerNext
  <2>3. ASSUME NEW c \in Client, SendDispatch(r, c) PROVE Leaves
    BY <1>0, <2>3 DEF SendDispatch, Leaves
  <2>4. GenerateDispatches(r) => Leaves
    BY <1>0 DEF GenerateDispatches, Leaves
  <2>5. MarkInProgress(r) => Leaves
    BY <1>0 DEF MarkInProgress, Leaves
  <2>. QED
    BY <1>1, <1>2, <2>1, <2>2, <2>3, <2>4, <2>5 DEF Trigger
<1>3. ASSUME NEW r \in Run, TriggerFails(r) PROVE Leaves
  BY <1>0, <1>3 DEF TriggerFails, FilterFails, SendFails, Leaves
<1>4. Restart => Leaves
  BY <1>0 DEF Restart, Leaves
<1>5. CASE BanForLoop
  <2>1. msg[2] \in Client /\ ban' = [ban EXCEPT ![msg[2]] = "active"]
    BY <1>5, InHand DEF BanForLoop, Inv
  <2>2. ledgerRow' = [ledgerRow EXCEPT ![<<msg[2], "type">>] = "active"]
    BY <1>0, <2>1, RowUpdate
  <2>3. UNCHANGED ledgerList
    BY <1>5 DEF BanForLoop, triggerVars, ledgerList
  <2>. QED
    BY <2>1, <2>2, <2>3 DEF Ledger!LedgerNext, Ledger!Ban
<1>6. ASSUME NEW c \in Client, Unban(c) PROVE Ledger!LedgerNext
  <2>1. ban[c] = "active" /\ ban' = [ban EXCEPT ![c] = "lifted"]
    BY <1>6 DEF Unban
  <2>2. ledgerRow[<<c, "type">>] = "active"
    BY <2>1 DEF ledgerRow
  <2>3. ledgerRow' = [ledgerRow EXCEPT ![<<c, "type">>] = "lifted"]
    BY <1>0, <2>1, RowUpdate
  <2>4. UNCHANGED ledgerList
    BY <1>6 DEF Unban, triggerVars, ledgerList
  <2>. QED
    BY <2>2, <2>3, <2>4 DEF Ledger!LedgerNext, Ledger!Lift, Ledger!Key, Ledger!BanType
<1>7. CASE UNCHANGED <<ban, triggerVars>>
  <2>1. UNCHANGED ledgerList
    BY <1>7 DEF triggerVars, ledgerList
  <2>. QED
    BY <1>7, <2>1, RowKept
<1>8. \/ \E r \in Run : Trigger(r) \/ TriggerFails(r)
      \/ Restart \/ BanForLoop \/ \E c \in Client : Unban(c)
      \/ UNCHANGED <<ban, triggerVars>>
  BY DEF Next, HandleResult, Reply, Lose, Receive, NoLoop, SaveResult, ReadRun,
         SaveRunHealth, HealthFails, CompleteRun, LeaveRun, vars
<1>. QED
  BY <1>1, <1>2, <1>3, <1>4, <1>5, <1>6, <1>7, <1>8

(* All that the runs see of the bans is what BanLedger promises, which     *)
(* BanEnforcement implements (theorem Refinement of BanEnforcement_proofs):*)
(* FilterDispatchList of dispatch_filter.go is consulted, and the bans of  *)
(* LoopDetectionService given, within that interface.                      *)
THEOREM FollowingLedger == Spec => FollowsLedger
BY LedgerStart, LedgerStep, Invariance, PTL
   DEF Spec, FollowsLedger, Ledger!LedgerSpec, Ledger!ledgerVars
-----------------------------------------------------------------------------
Counting(r) == hpc \in {"read", "count"} /\ msg[1] = r

(* The stored health of a run counts no answer that is not stored, and as  *)
(* long as nothing fails all of them but one that is being counted.        *)
Reflects ==
  \A r \in Run :
    /\ health[r].answers <= Cardinality(Answered(r))
    /\ faults = 0 /\ ~Counting(r) => health[r].answers = Cardinality(Answered(r))

(* Initially there are neither answers nor healths.                        *)
LEMMA ReflectsInit == Init => Reflects
<1>. SUFFICES ASSUME Init PROVE Reflects
  OBVIOUS
<1>1. \A r \in Run : Answered(r) = {}
  BY DEF Init, Answered
<1>2. Cardinality({}) = 0
  BY FS_EmptySet
<1>3. \A r \in Run : health[r].answers = 0
  BY DEF Init, NoHealth
<1>. QED
  BY <1>1, <1>2, <1>3 DEF Reflects

(* Only a fault takes a result that is being counted out of hand.          *)
LEMMA CountingKept ==
  ASSUME TypeOK, [Next]_vars, NEW r \in Run, Counting(r), faults' = 0
  PROVE  SaveRunHealth \/ Counting(r)'
<1>1. faults \in Nat
  BY DEF TypeOK
<1>2. ~HealthFails /\ ~Restart
  BY <1>1 DEF HealthFails, Restart, Fault
<1>. QED
  BY <1>2, HandSteps DEF Counting, HandleResult, Receive, BanForLoop, NoLoop, SaveResult, ReadRun,
                         CompleteRun, LeaveRun, healthVars

(* Faults are only ever counted up.                                        *)
LEMMA FaultsGrow == TypeOK /\ [Next]_vars /\ faults' = 0 => faults = 0
<1>. SUFFICES ASSUME TypeOK, [Next]_vars, faults' = 0 PROVE faults = 0
  OBVIOUS
<1>1. faults \in Nat
  BY DEF TypeOK
<1>2. Fault \/ UNCHANGED faults
  BY DEF Next, Trigger, TriggerFails, HandleResult, CreateRun, Admit, Refuse, GenerateDispatches,
         SendDispatch, MarkInProgress, FilterFails, SendFails, Reply, Lose, Receive,
         BanForLoop, NoLoop, SaveResult, ReadRun, SaveRunHealth, HealthFails, CompleteRun,
         LeaveRun, Unban, Restart, vars, NoFault
<1>. QED
  BY <1>1, <1>2 DEF Fault

(* Every step keeps it: an answer is stored by the handler that then       *)
(* counts it.                                                              *)
LEMMA ReflectsNext == Inv /\ Reflects /\ [Next]_vars => Reflects'
<1>. SUFFICES ASSUME Inv, Reflects, [Next]_vars, NEW r \in Run
              PROVE  /\ health'[r].answers <= Cardinality(Answered(r)')
                     /\ faults' = 0 /\ ~Counting(r)' => health'[r].answers = Cardinality(Answered(r)')
  BY DEF Reflects
<1>1. TypeOK
  BY DEF Inv
<1>2. Answered(r) \subseteq Answered(r)' /\ IsFiniteSet(Answered(r)')
  BY <1>1, AnsweredGrows, ClientAssumption, FS_Subset DEF Answered
<1>3. /\ Cardinality(Answered(r)) \in Nat /\ Cardinality(Answered(r)') \in Nat
      /\ Cardinality(Answered(r)) <= Cardinality(Answered(r)')
  BY <1>2, FS_Subset, FS_CardinalityType
<1>4. health[r].answers \in Nat /\ health[r].answers <= Cardinality(Answered(r))
  BY <1>1 DEF TypeOK, Reflects
<1>5. CASE SaveRunHealth
  <2>1. UNCHANGED <<result, msg>> /\ hpc = "count"
    BY <1>5 DEF SaveRunHealth
  <2>2. Answered(r)' = Answered(r)
    BY <2>1 DEF Answered
  <2>3. CASE msg[1] = r
    <3>1. PICK B \in {Banned, {}} : health' = [health EXCEPT ![r] = RunHealth(r, copy.part, B)]
      BY <1>5, <2>3 DEF SaveRunHealth
    <3>2. health'[r] = RunHealth(r, copy.part, B)
      BY <1>1, <3>1 DEF TypeOK
    <3>3. health'[r].answers = Cardinality(Answered(r))
      BY <3>2 DEF RunHealth
    <3>. QED
      BY <1>3, <2>2, <3>3
  <2>4. CASE msg[1] # r
    <3>1. health'[r] = health[r]
      BY <1>5, <2>4, SaveRunHealthStep
    <3>. QED
      BY <1>1, <2>2, <2>4, <3>1, FaultsGrow DEF Reflects, Counting
  <2>. QED
    BY <2>3, <2>4
<1>6. CASE UNCHANGED health /\ ~SaveRunHealth
  <2>1. ASSUME faults' = 0, ~Counting(r)' PROVE health[r].answers = Cardinality(Answered(r)')
    <3>1. ~Counting(r) /\ faults = 0
      BY <1>1, <1>6, <2>1, CountingKept, FaultsGrow
    <3>2. CASE UNCHANGED result
      BY <3>1, <3>2 DEF Reflects, Answered
    <3>3. CASE SaveResult
      <4>1. msg[1] # r
        BY <2>1, <3>3 DEF SaveResult, Counting
      <4>2. Answered(r)' = Answered(r)
        BY <1>1, <1>2, <3>3, <4>1, SaveResultAnswered
      <4>. QED
        BY <3>1, <4>2 DEF Reflects
    <3>. QED
      BY <3>2, <3>3, ResultKept
  <2>. QED
    BY <1>3, <1>4, <1>6, <2>1
<1>. QED
  BY <1>5, <1>6, HealthKept

(* The stored health of a run reflects table results (CalculateRunHealth   *)
(* in health_monitoring.go).                                               *)
THEOREM Reflection == Spec => []HealthReflectsResults
<1>1. Reflects => HealthReflectsResults
  BY DEF Reflects, HealthReflectsResults, Counting
<1>. QED
  BY <1>1, ReflectsInit, ReflectsNext, Invariance, PTL DEF Spec
=============================================================================
