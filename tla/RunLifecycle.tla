---------------------------- MODULE RunLifecycle ----------------------------
(***************************************************************************)
(* The life of a run: TriggerWorkflow creates it and dispatches it, the    *)
(* clients answer over NATS, and the one goroutine of                      *)
(* ResultMessageDispatcher passes each answer through loop detection and   *)
(* health monitoring, which stores it, recounts the run and completes it.  *)
(* All runs are of one workflow type.                                      *)
(*                                                                         *)
(* TriggerWorkflow runs in an HTTP handler or in the trigger loop, so each *)
(* run has a process of its own (pc).  The result goroutine (hpc) handles  *)
(* one answer at a time.  A statement of SQLite and a publication to NATS  *)
(* are one step each.  Bans obey BanLedger, which BanEnforcement           *)
(* implements: an admitted client has no active ban, a refused one had a   *)
(* ban at some time.                                                       *)
(***************************************************************************)
EXTENDS Naturals, FiniteSets

CONSTANTS Client,     \* client ids
          LastRun,    \* runs are 1..LastRun, in the order of triggered_at
          Status,     \* the statuses of a result
          Success,    \* the one that counts as a success
          NoResult,   \* not a status
          MaxFaults   \* bound: failed statements, lost or repeated messages, restarts

ASSUME ClientAssumption == IsFiniteSet(Client)
ASSUME StatusAssumption == Success \in Status /\ NoResult \notin Status
ASSUME BoundAssumption  == LastRun \in Nat /\ MaxFaults \in Nat

Run == 1..LastRun

VARIABLES
  run,      \* run[r]: the row of table runs: its state and participating clients
  joined,   \* joined[r]: the clients of r in table runs_clients
  ban,      \* ban[c]: "none", an "active" ban, or only "lifted" ones
  pc,       \* pc[r]: where TriggerWorkflow of r is
  todo,     \* todo[r]: the clients it has yet to filter, then to send to
  allowed,  \* allowed[r]: the clients the filter let through
  sent,     \* history: sent[r], the clients a dispatch of r was published to
  wire,     \* dispatches under way: <<run, client>>
  inbox,    \* results under way: <<run, client, status>>
  result,   \* result[r][c]: table results
  health,   \* health[r]: the row of table run_health, or NoHealth
  hpc,      \* where the result goroutine is
  msg,      \* the result it is handling
  copy,     \* the row of the run as CalculateRunHealth read it
  faults    \* how many faults have happened

triggerVars == <<pc, todo, allowed, sent, joined>>
healthVars  == <<result, health, hpc, msg, copy>>
vars == <<run, ban, wire, inbox, faults, triggerVars, healthVars>>

Row == [state : {"none", "pending", "in_progress", "completed"}, part : SUBSET Client]

NoRow == [state |-> "none", part |-> {}]

Answer == Run \X Client \X Status

NoHealth == [total |-> 0, banned |-> 0, success |-> 0, answers |-> 0, pending |-> 0]

Init == /\ run = [r \in Run |-> NoRow]
        /\ joined = [r \in Run |-> {}]
        /\ ban \in [Client -> {"none", "active"}]
        /\ pc = [r \in Run |-> "idle"]
        /\ todo = [r \in Run |-> {}]
        /\ allowed = [r \in Run |-> {}]
        /\ sent = [r \in Run |-> {}]
        /\ wire = {}
        /\ inbox = {}
        /\ result = [r \in Run |-> [c \in Client |-> NoResult]]
        /\ health = [r \in Run |-> NoHealth]
        /\ hpc = "idle"
        /\ msg = <<>>
        /\ copy = NoRow
        /\ faults = 0

(* The result goroutine is done with a result.                            *)
Forget == hpc' = "idle" /\ msg' = <<>> /\ copy' = NoRow

Fault == faults < MaxFaults /\ faults' = faults + 1

NoFault == UNCHANGED faults
-----------------------------------------------------------------------------
(* TriggerWorkflow: the clients that match the target filter are C, and    *)
(* the run and its runs_clients rows are inserted in one transaction.      *)
(* TriggeredAt is taken before, so that a later run may be inserted first. *)
CreateRun(r, C) ==
  /\ pc[r] = "idle"
  /\ run' = [run EXCEPT ![r] = [state |-> "pending", part |-> C]]
  /\ joined' = [joined EXCEPT ![r] = C]
  /\ pc' = [pc EXCEPT ![r] = "filter"]
  /\ todo' = [todo EXCEPT ![r] = C]
  /\ NoFault
  /\ UNCHANGED <<ban, allowed, sent, wire, inbox, healthVars>>

(* Wrong: the ban on c is not looked up.                                   *)
AdmitUnchecked(r, c) ==
  /\ pc[r] = "filter" /\ c \in todo[r]
  /\ todo' = [todo EXCEPT ![r] = @ \ {c}]
  /\ allowed' = [allowed EXCEPT ![r] = @ \cup {c}]
  /\ NoFault
  /\ UNCHANGED <<run, joined, ban, pc, sent, wire, inbox, healthVars>>

(* FilterDispatchList finds no ban on c.                                   *)
Admit(r, c) ==
  /\ pc[r] = "filter" /\ c \in todo[r]
  /\ ban[c] # "active"
  /\ todo' = [todo EXCEPT ![r] = @ \ {c}]
  /\ allowed' = [allowed EXCEPT ![r] = @ \cup {c}]
  /\ NoFault
  /\ UNCHANGED <<run, joined, ban, pc, sent, wire, inbox, healthVars>>

(* FilterDispatchList finds c banned, in the database or in the cache.     *)
Refuse(r, c) ==
  /\ pc[r] = "filter" /\ c \in todo[r]
  /\ ban[c] # "none"
  /\ todo' = [todo EXCEPT ![r] = @ \ {c}]
  /\ NoFault
  /\ UNCHANGED <<run, joined, ban, pc, allowed, sent, wire, inbox, healthVars>>

(* Wrong: the dispatches go to the participants as they were.              *)
GenerateUnfiltered(r) ==
  /\ pc[r] = "filter" /\ todo[r] = {}
  /\ pc' = [pc EXCEPT ![r] = "send"]
  /\ todo' = [todo EXCEPT ![r] = run[r].part]
  /\ NoFault
  /\ UNCHANGED <<run, joined, ban, allowed, sent, wire, inbox, healthVars>>

(* SendDispatches turns to the clients that are allowed.                   *)
GenerateDispatches(r) ==
  /\ pc[r] = "filter" /\ todo[r] = {}
  /\ pc' = [pc EXCEPT ![r] = "send"]
  /\ todo' = [todo EXCEPT ![r] = allowed[r]]
  /\ NoFault
  /\ UNCHANGED <<run, joined, ban, allowed, sent, wire, inbox, healthVars>>

SendDispatch(r, c) ==
  /\ pc[r] = "send" /\ c \in todo[r]
  /\ todo' = [todo EXCEPT ![r] = @ \ {c}]
  /\ sent' = [sent EXCEPT ![r] = @ \cup {c}]
  /\ wire' = wire \cup {<<r, c>>}
  /\ NoFault
  /\ UNCHANGED <<run, joined, ban, pc, allowed, inbox, healthVars>>

(* Wrong: the participants are left unfiltered in the row.                 *)
MarkUnfiltered(r) ==
  /\ pc[r] = "send" /\ todo[r] = {}
  /\ pc' = [pc EXCEPT ![r] = "done"]
  /\ \/ NoFault /\ run' = [run EXCEPT ![r].state = "in_progress"]
     \/ Fault /\ UNCHANGED run
  /\ UNCHANGED <<joined, ban, todo, allowed, sent, wire, inbox, healthVars>>

(* SendDispatches: UpdateRun writes the whole row, from the run the        *)
(* handler has held since it created it.  An error is only logged.         *)
MarkInProgress(r) ==
  /\ pc[r] = "send" /\ todo[r] = {}
  /\ pc' = [pc EXCEPT ![r] = "done"]
  /\ \/ NoFault /\ run' = [run EXCEPT ![r] = [state |-> "in_progress", part |-> allowed[r]]]
     \/ Fault /\ UNCHANGED run
  /\ UNCHANGED <<joined, ban, todo, allowed, sent, wire, inbox, healthVars>>

(* A failed ban lookup ends TriggerWorkflow with an error.                 *)
FilterFails(r) ==
  /\ pc[r] = "filter" /\ todo[r] # {}
  /\ pc' = [pc EXCEPT ![r] = "failed"]
  /\ Fault
  /\ UNCHANGED <<run, joined, ban, todo, allowed, sent, wire, inbox, healthVars>>

(* SendDispatch fails, before the message is published or in the flush     *)
(* after it; TriggerWorkflow returns and the run stays as it is.           *)
SendFails(r, c) ==
  /\ pc[r] = "send" /\ c \in todo[r]
  /\ pc' = [pc EXCEPT ![r] = "failed"]
  /\ \/ UNCHANGED <<sent, wire>>
     \/ /\ sent' = [sent EXCEPT ![r] = @ \cup {c}]
        /\ wire' = wire \cup {<<r, c>>}
  /\ Fault
  /\ UNCHANGED <<run, joined, ban, todo, allowed, inbox, healthVars>>

Trigger(r) == \/ \E C \in SUBSET Client : CreateRun(r, C)
              \/ \E c \in Client : Admit(r, c) \/ Refuse(r, c) \/ SendDispatch(r, c)
              \/ GenerateDispatches(r)
              \/ MarkInProgress(r)

TriggerFails(r) == FilterFails(r) \/ \E c \in Client : SendFails(r, c)
-----------------------------------------------------------------------------
(* A client of the protocol of README.md:404-441 answers the dispatch it   *)
(* has received.  (The clients of the repository's own super-client do     *)
(* not: it cannot decode what SendDispatch sends.  See SuperClient.)       *)
Reply(r, c) ==
  /\ <<r, c>> \in wire
  /\ wire' = wire \ {<<r, c>>}
  /\ \E s \in Status : inbox' = inbox \cup {<<r, c, s>>}
  /\ NoFault
  /\ UNCHANGED <<run, ban, triggerVars, healthVars>>

(* Core NATS delivers at most once, a client may die before it answers,    *)
(* and a full result channel drops what arrives.                           *)
Lose == /\ \/ \E d \in wire : wire' = wire \ {d} /\ UNCHANGED inbox
           \/ \E m \in inbox : inbox' = inbox \ {m} /\ UNCHANGED wire
        /\ Fault
        /\ UNCHANGED <<run, ban, triggerVars, healthVars>>
-----------------------------------------------------------------------------
(* Start takes the next result off the channel.  A client that could not   *)
(* tell whether its answer was published sends it again: the answer then   *)
(* stays under way.                                                        *)
Receive(m) ==
  /\ hpc = "idle"
  /\ m \in inbox
  /\ hpc' = "loop"
  /\ msg' = m
  /\ \/ NoFault /\ inbox' = inbox \ {m}
     \/ Fault /\ UNCHANGED inbox
  /\ UNCHANGED <<run, ban, wire, triggerVars, result, health, copy>>

(* GetPreviousRun finds a run of the client, which runs_clients joins to   *)
(* the runs it was a target of, sent to or not.                            *)
HasPreviousRun(r, c) == \E q \in 1..(r - 1) : c \in joined[q]

(* LoopDetectionService: within the threshold of its previous run the      *)
(* client is banned.                                                       *)
BanForLoop ==
  /\ hpc = "loop"
  /\ HasPreviousRun(msg[1], msg[2])
  /\ hpc' = "save"
  /\ ban' = [ban EXCEPT ![msg[2]] = "active"]
  /\ NoFault
  /\ UNCHANGED <<run, wire, inbox, triggerVars, result, health, msg, copy>>

(* LoopDetectionService: no loop, or a lookup or the INSERT of the ban     *)
(* failed, which is only logged.                                           *)
NoLoop ==
  /\ hpc = "loop"
  /\ hpc' = "save"
  /\ NoFault
  /\ UNCHANGED <<run, ban, wire, inbox, triggerVars, result, health, msg, copy>>

(* HealthMonitoringService.HandleResult: the first answer of a client is   *)
(* kept.  That it could not be stored is ignored.                          *)
SaveResult ==
  /\ hpc = "save"
  /\ hpc' = "read"
  /\ \/ /\ result' = [result EXCEPT ![msg[1]][msg[2]] =
                        IF @ = NoResult THEN msg[3] ELSE @]
        /\ NoFault
     \/ UNCHANGED result /\ Fault
  /\ UNCHANGED <<run, ban, wire, inbox, triggerVars, health, msg, copy>>

(* Wrong: the participants are taken to be those sent to so far.           *)
ReadRunSentTo ==
  /\ hpc = "read"
  /\ hpc' = "count"
  /\ copy' = [run[msg[1]] EXCEPT !.part = sent[msg[1]]]
  /\ NoFault
  /\ UNCHANGED <<run, ban, wire, inbox, triggerVars, result, health, msg>>

(* Wrong: a run that is completed is not counted again.                    *)
ReadRunUnlessCompleted ==
  /\ hpc = "read"
  /\ IF run[msg[1]].state = "completed" THEN Forget
     ELSE hpc' = "count" /\ copy' = run[msg[1]] /\ UNCHANGED msg
  /\ NoFault
  /\ UNCHANGED <<run, ban, wire, inbox, triggerVars, result, health>>

(* CalculateRunHealth: GetRun.                                             *)
ReadRun ==
  /\ hpc = "read"
  /\ hpc' = "count"
  /\ copy' = run[msg[1]]
  /\ NoFault
  /\ UNCHANGED <<run, ban, wire, inbox, triggerVars, result, health, msg>>

Answered(r) == {c \in Client : result[r][c] # NoResult}

Banned == {c \in Client : ban[c] = "active"}

(* Wrong: the bans of clients that do not participate are counted.         *)
RunHealthAllBans(r, P, B) ==
  LET answers == Cardinality(Answered(r))
  IN  [total   |-> Cardinality(P),
       banned  |-> Cardinality(B),
       success |-> Cardinality({c \in Client : result[r][c] = Success}),
       answers |-> answers,
       pending |-> IF Cardinality(P) > Cardinality(B) + answers
                     THEN Cardinality(P) - (Cardinality(B) + answers) ELSE 0]

(* The counts of a run with participants P, of which those in B are        *)
(* banned.  PendingCount is a difference that the code keeps from being    *)
(* negative.                                                               *)
RunHealth(r, P, B) ==
  LET total   == Cardinality(P)
      banned  == Cardinality(B \cap P)
      answers == Cardinality(Answered(r))
  IN  [total   |-> total,
       banned  |-> banned,
       success |-> Cardinality({c \in Client : result[r][c] = Success}),
       answers |-> answers,
       pending |-> IF total > banned + answers THEN total - (banned + answers) ELSE 0]

(* CalculateRunHealth: GetRunResults, GetActiveBansByWorkflowType (if that *)
(* fails nobody counts as banned) and SaveRunHealth.  Only this goroutine  *)
(* writes results, so that reading them is no step of its own.             *)
SaveRunHealth ==
  /\ hpc = "count"
  /\ \/ NoFault /\ health' = [health EXCEPT ![msg[1]] = RunHealth(msg[1], copy.part, Banned)]
     \/ Fault /\ health' = [health EXCEPT ![msg[1]] = RunHealth(msg[1], copy.part, {})]
  /\ hpc' = "finish"
  /\ UNCHANGED <<run, ban, wire, inbox, triggerVars, result, msg, copy>>

(* CalculateRunHealth returns early: one of its statements failed.         *)
HealthFails ==
  /\ hpc \in {"read", "count"}
  /\ Forget
  /\ Fault
  /\ UNCHANGED <<run, ban, wire, inbox, triggerVars, result, health>>

(* CalculateRunHealth: IsComplete, and UpdateRun of the row read before.   *)
CompleteRun ==
  /\ hpc = "finish"
  /\ health[msg[1]].pending = 0
  /\ copy.state # "completed"
  /\ Forget
  /\ \/ NoFault /\ run' = [run EXCEPT ![msg[1]] = [copy EXCEPT !.state = "completed"]]
     \/ Fault /\ UNCHANGED run
  /\ UNCHANGED <<ban, wire, inbox, triggerVars, result, health>>

LeaveRun ==
  /\ hpc = "finish"
  /\ health[msg[1]].pending > 0 \/ copy.state = "completed"
  /\ Forget
  /\ NoFault
  /\ UNCHANGED <<run, ban, wire, inbox, triggerVars, result, health>>

HandleResult == \/ \E m \in inbox : Receive(m)
                \/ BanForLoop \/ NoLoop \/ SaveResult \/ ReadRun
                \/ SaveRunHealth \/ CompleteRun \/ LeaveRun
-----------------------------------------------------------------------------
(* An administrator lifts the ban of c.                                    *)
Unban(c) == /\ ban[c] = "active"
            /\ ban' = [ban EXCEPT ![c] = "lifted"]
            /\ NoFault
            /\ UNCHANGED <<run, wire, inbox, triggerVars, healthVars>>

(* The server dies and starts again: the handlers are gone, with the       *)
(* result in hand and those in the channel.                                *)
Restart == /\ pc' = [r \in Run |-> IF pc[r] \in {"filter", "send"} THEN "failed" ELSE pc[r]]
           /\ Forget
           /\ inbox' = {}
           /\ Fault
           /\ UNCHANGED <<run, ban, wire, todo, allowed, sent, joined, result, health>>
-----------------------------------------------------------------------------
Next == \/ \E r \in Run : Trigger(r) \/ TriggerFails(r)
        \/ \E r \in Run, c \in Client : Reply(r, c)
        \/ Lose
        \/ HandleResult \/ HealthFails
        \/ \E c \in Client : Unban(c)
        \/ Restart

(* The scheduler serves every handler and the result goroutine; a client   *)
(* that has received a dispatch answers it.                                *)
Fairness == /\ \A r \in Run : WF_vars(Trigger(r) /\ pc[r] # "idle")
            /\ \A r \in Run, c \in Client : WF_vars(Reply(r, c))
            /\ WF_vars(HandleResult)

Spec == Init /\ [][Next]_vars

FairSpec == Spec /\ Fairness
-----------------------------------------------------------------------------
(* Every variable has its type, and the result goroutine holds a result    *)
(* exactly when it is not idle.                                            *)
TypeOK == /\ run \in [Run -> Row]
          /\ joined \in [Run -> SUBSET Client]
          /\ ban \in [Client -> {"none", "active", "lifted"}]
          /\ pc \in [Run -> {"idle", "filter", "send", "done", "failed"}]
          /\ todo \in [Run -> SUBSET Client]
          /\ allowed \in [Run -> SUBSET Client]
          /\ sent \in [Run -> SUBSET Client]
          /\ wire \subseteq Run \X Client
          /\ inbox \subseteq Answer
          /\ result \in [Run -> [Client -> Status \cup {NoResult}]]
          /\ health \in [Run -> [total : Nat, banned : Nat, success : Nat,
                                 answers : Nat, pending : Nat]]
          /\ hpc \in {"idle", "loop", "save", "read", "count", "finish"}
          /\ IF hpc = "idle" THEN msg = <<>> ELSE msg \in Answer
          /\ copy \in Row
          /\ faults \in 0..MaxFaults

EverBanned == {c \in Client : ban[c] # "none"}

(* A run all of whose answers came from clients that were never banned is  *)
(* only completed when every client it was sent to has answered or has     *)
(* been banned: counting answers and bans, instead of asking who is still  *)
(* out, may end a run early, but only through a client that counts twice   *)
(* (CalculateRunHealth in health_monitoring.go and domain/health.go, with  *)
(* the stale row that it may read and write).                              *)
CompletedIsAccountedFor ==
  \A r \in Run :
    run[r].state = "completed" /\ Answered(r) \cap EverBanned = {}
      => sent[r] \subseteq Answered(r) \cup EverBanned

(* The success percentage of a stored run health is at most 100 unless a   *)
(* client that answered has been banned: no repeated answer, stale         *)
(* participant list or failed statement inflates it (SuccessPercentage in  *)
(* domain/health.go).                                                      *)
SuccessWithinEffective ==
  \A r \in Run :
    Answered(r) \cap EverBanned = {}
      => health[r].success + health[r].banned <= health[r].total

(* The invariants above are not inductive: what they leave out.            *)
(* The handler: a client is sent to only if it was let through, and those  *)
(* let through are always among the participants in the row.               *)
Stages ==
  \A r \in Run :
    /\ sent[r] \subseteq allowed[r] /\ allowed[r] \subseteq run[r].part
    /\ run[r].state = "none" <=> pc[r] = "idle"
    /\ pc[r] = "idle" => allowed[r] = {}
    /\ pc[r] = "filter" => /\ run[r].state = "pending" /\ todo[r] \subseteq run[r].part
                           /\ todo[r] \subseteq joined[r] \ allowed[r]
    /\ pc[r] = "send" => todo[r] \subseteq allowed[r] /\ allowed[r] \subseteq sent[r] \cup todo[r]
    /\ pc[r] = "done" => allowed[r] \subseteq sent[r]
    /\ pc[r] \in {"idle", "filter"} => sent[r] = {}

(* Only a client that was sent to is heard of.                             *)
Traffic == /\ \A d \in wire : d[2] \in sent[d[1]]
           /\ \A m \in inbox : m[2] \in sent[m[1]]
           /\ hpc # "idle" => msg[2] \in sent[msg[1]]
           /\ \A r \in Run : Answered(r) \subseteq sent[r]

(* The row in hand, however old, names all that were let through.          *)
Copied == hpc \in {"count", "finish"} =>
            copy.state # "none" /\ allowed[msg[1]] \subseteq copy.part

(* Answers and bans that do not overlap fit into the participants.         *)
Counted ==
  \A r \in Run :
    Answered(r) \cap EverBanned = {}
      => /\ health[r].success <= health[r].answers
         /\ health[r].banned + health[r].answers <= health[r].total

(* A row that says in_progress, in the table or in hand, was written by    *)
(* the handler at its end and names just those it let through; the health  *)
(* that was saved last is of the row in hand and of all the answers.       *)
Marked ==
  /\ \A r \in Run : run[r].state = "in_progress" => pc[r] = "done" /\ run[r].part = allowed[r]
  /\ hpc \in {"count", "finish"} /\ copy.state = "in_progress"
       => pc[msg[1]] = "done" /\ copy.part = allowed[msg[1]]
  /\ hpc = "finish" => \E B \in SUBSET Client : health[msg[1]] = RunHealth(msg[1], copy.part, B)

(* All that were let through have answered or have been banned, unless a   *)
(* client is counted twice.                                                *)
AccountedFor(r) ==
  Answered(r) \cap EverBanned = {} => allowed[r] \subseteq Answered(r) \cup EverBanned

Inv == /\ TypeOK /\ Stages /\ Traffic /\ Copied /\ Counted /\ Marked
       /\ hpc = "finish" /\ health[msg[1]].pending = 0 => AccountedFor(msg[1])
       /\ \A r \in Run : run[r].state = "completed" =>
            pc[r] \notin {"idle", "filter"} /\ AccountedFor(r)

(* A stored health never counts an answer that is not in table results,    *)
(* and while nothing has failed it has counted them all whenever the       *)
(* result goroutine is idle.                                               *)
HealthReflectsResults ==
  \A r \in Run :
    /\ health[r].answers <= Cardinality(Answered(r))
    /\ faults = 0 /\ hpc = "idle" => health[r].answers = Cardinality(Answered(r))

(* If the row was marked in_progress before it was read and every client   *)
(* that was sent to has answered, nothing is pending and the result        *)
(* goroutine completes the run, whichever bans were given, lifted or       *)
(* refused by mistake on the way, and whatever failed.  A run can only be  *)
(* stuck if its last answer was read before the handler marked it          *)
(* (IsComplete in CalculateRunHealth against UpdateRun in SendDispatches). *)
LastAnswerSuffices ==
  /\ hpc = "finish" /\ copy.state = "in_progress"
  /\ sent[msg[1]] \subseteq Answered(msg[1])
  => health[msg[1]].pending = 0

(* The table of bans and the dispatch lists under way, as BanLedger has    *)
(* them: all bans here are from the one type of the runs.                  *)
ledgerRow == [k \in Client \X {"type", "global"} |-> IF k[2] = "type" THEN ban[k[1]] ELSE "none"]

ledgerList ==
  [r \in Run |-> IF pc[r] = "filter"
                   THEN [type |-> "type", allowed |-> allowed[r],
                         filtered |-> joined[r] \ (todo[r] \cup allowed[r])]
                   ELSE [type |-> "global", allowed |-> {}, filtered |-> {}]]

Ledger == INSTANCE BanLedger
            WITH WorkflowType <- {"type"}, Global <- "global", Caller <- Run,
                 row <- ledgerRow, list <- ledgerList

(* The runs ask nothing of ban enforcement that BanLedger, which           *)
(* BanEnforcement implements, does not promise: the two modules meet in    *)
(* one abstract table, with loop detection giving the bans and             *)
(* FilterDispatchList consulting them (trigger_orchestrator.go,            *)
(* dispatch_filter.go).                                                    *)
FollowsLedger == Ledger!LedgerSpec

(* Once its handler has ended, a run that is completed stays completed,    *)
(* although the result goroutine writes back rows that it read long        *)
(* before: only the handler's own UpdateRun, once, takes it back to        *)
(* in_progress (UpdateRun in SendDispatches and CalculateRunHealth).       *)
CompletedForGood ==
  [][\A r \in Run :
       run[r].state = "completed" /\ run'[r].state # "completed"
         => pc[r] = "send" /\ pc'[r] = "done" /\ run'[r].state = "in_progress"]_vars

(* When the handler marks a run in_progress while an answer is still out,  *)
(* the run is completed in the end, whichever bans are given and lifted on *)
(* the way: the last answer completes it.  Checked without faults, for a   *)
(* lost message is never sent again and a run has no timeout.              *)
LateAnswerCompletes ==
  \A r \in Run :
    pc[r] = "done" /\ ~(sent[r] \subseteq Answered(r)) ~> run[r].state = "completed"

(* health_monitoring.go:106: "If all results in".  A completed run has a   *)
(* result of every client it was sent to, banned clients aside.            *)
CompletedMeansAllResultsIn ==
  \A r \in Run :
    run[r].state = "completed" => sent[r] \subseteq Answered(r) \cup EverBanned

(* health_monitoring_test.go:53: once the result of every client is in and *)
(* has been handled, the run is completed.                                 *)
AllResultsInMeansCompleted ==
  \A r \in Run :
    /\ pc[r] = "done" /\ hpc = "idle"
    /\ sent[r] # {} /\ sent[r] \subseteq Answered(r)
    => run[r].state = "completed"
=============================================================================
