---------------------------- MODULE LoopDetection ----------------------------
(***************************************************************************)
(* LoopDetectionService over the runs that TriggerCoordination makes: the  *)
(* result goroutine takes the answers to runs in any order and any number  *)
(* of times, and bans a client if the run it answers and an earlier run of *)
(* the same type, with the client among those that matched, are close.     *)
(***************************************************************************)
EXTENDS TriggerCoordination

CONSTANTS LoopThreshold,  \* LoopThreshold[w]: loop_threshold_ms of w
          Slack           \* how late a run may be and yet count as punctual

ASSUME ThresholdAssumption == LoopThreshold \in [Workflow -> Nat \ {0}] /\ Slack \in Nat

VARIABLES ban,  \* table bans: <<client, type, the run in evidence>>
          last  \* history: the answer that was handled in the last step, if any

allVars == <<vars, ban, last>>

(* Wrong: runs that the client did not match are looked at.                *)
PreviousRunsOfAnyone(r, c) ==
  {p \in DOMAIN runs : p # r /\ runs[p].type = runs[r].type /\ runs[p].time <= runs[r].time}

(* The rows GetPreviousRun selects from.                                   *)
PreviousRuns(r, c) ==
  {p \in DOMAIN runs : /\ p # r /\ c \in runs[p].clients
                       /\ runs[p].type = runs[r].type
                       /\ runs[p].time <= runs[r].time}

Latest(P) == {p \in P : \A q \in P : runs[q].time <= runs[p].time}

(* Wrong: the distance must be less than the threshold.                    *)
IsLoopStrict(p, r) == runs[r].time - runs[p].time < LoopThreshold[runs[r].w]

(* DetectLoop: the distance may just be the threshold.                     *)
IsLoop(p, r) == runs[r].time - runs[p].time <= LoopThreshold[runs[r].w]

(* HandleResult: nothing happens if the workflow has been deleted.  The    *)
(* rows of runs never change their times, so that GetPreviousRun decides.  *)
HandleResult(r, c) ==
  /\ r \in DOMAIN runs
  /\ last' = {<<r, c>>}
  /\ ban' = IF /\ wf[runs[r].w].state # "deleted"
               /\ \E p \in Latest(PreviousRuns(r, c)) : IsLoop(p, r)
              THEN ban \cup {<<c, runs[r].type, r>>}
              ELSE ban
  /\ UNCHANGED vars

LoopInit == Init /\ ban = {} /\ last = {}

Next == \/ TriggerNext /\ last' = {} /\ UNCHANGED ban
        \/ \E r \in 1..MaxRuns, c \in Client : HandleResult(r, c)

Spec == LoopInit /\ [][Next]_allVars
-----------------------------------------------------------------------------
TypeOK == /\ TriggerTypeOK
          /\ ban \subseteq Client \X (Type \cup {""}) \X (DOMAIN runs)
          /\ last \subseteq (DOMAIN runs) \X Client

Close(p, r) == runs[r].time - runs[p].time \in 0..LoopThreshold[runs[r].w]

(* Whoever is banned matched another run of that type, within the          *)
(* threshold before the one in evidence: an answer that is repeated, or    *)
(* overtaken, bans nobody by itself (HandleResult in loop_detection.go).   *)
BannedOnlyForLoop ==
  \A b \in ban :
    \E p \in (DOMAIN runs) \ {b[3]} :
      /\ Close(p, b[3])
      /\ runs[p].type = b[2] /\ runs[b[3]].type = b[2] /\ b[1] \in runs[p].clients

(* An answer bans if any of the earlier runs is close enough, although it  *)
(* is only the latest of them that is looked at (GetPreviousRun in         *)
(* run_repo.go).                                                           *)
LoopsAreBanned ==
  \A r \in DOMAIN runs, c \in Client :
    /\ <<r, c>> \in last
    /\ wf[runs[r].w].state # "deleted"
    /\ \E p \in PreviousRuns(r, c) : Close(p, r)
    => <<c, runs[r].type, r>> \in ban

(* A run that the schedule of w made, at most Slack after its due time.    *)
Punctual(r, w) == /\ runs[r].w = w /\ runs[r].due # NoTime
                  /\ runs[r].time <= runs[r].due + Slack

Spaced(w) == \A d, e \in wf[w].trigger.due : d < e => e - d > LoopThreshold[w] + Slack

(* A schedule whose times are further apart than the threshold bans nobody *)
(* as long as its runs are punctual and nothing else makes runs of the     *)
(* type.  A late tick, a reactivation between two due times, a chain or a  *)
(* second workflow of the type may each get every client banned that       *)
(* answers (cron_evaluator.go with loop_detection.go).                     *)
PunctualRunsBanNobody ==
  \A type \in Type, w \in Workflow :
    /\ Spaced(w)
    /\ \A r \in DOMAIN runs : runs[r].type = type => Punctual(r, w)
    => \A b \in ban : b[2] # type
=============================================================================
