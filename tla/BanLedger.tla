------------------------------ MODULE BanLedger ------------------------------
(***************************************************************************)
(* What ban enforcement promises to a dispatch: a table of bans, and       *)
(* dispatch lists whose members are admitted one at a time.  A client is   *)
(* admitted only while no active ban covers it; it is refused only if a    *)
(* ban has covered it at some time.  A refusal may therefore be out of     *)
(* date, an admission may not.                                             *)
(***************************************************************************)
CONSTANTS Client, WorkflowType, Global, Caller

BanType == WorkflowType \cup {Global}
Key     == Client \X BanType

VARIABLES row,    \* row[k]: the bans of client k[1] from type k[2]
          list    \* list[f]: the dispatch list caller f is building

ledgerVars == <<row, list>>

Closed == [type |-> Global, allowed |-> {}, filtered |-> {}]

(* The keys whose active ban keeps client c out of a run of type t.        *)
Covering(c, t) == {<<c, t>>, <<c, Global>>}

(* The table may hold bans already.                                        *)
LedgerInit == /\ row \in [Key -> {"none", "active"}]
              /\ list = [f \in Caller |-> Closed]

Ban(k) == /\ row' = [row EXCEPT ![k] = "active"]
          /\ UNCHANGED list

Lift(k) == /\ row[k] = "active"
           /\ row' = [row EXCEPT ![k] = "lifted"]
           /\ UNCHANGED list

Open(f, t) == /\ list[f] = Closed
              /\ list' = [list EXCEPT ![f].type = t]
              /\ UNCHANGED row

Admit(f, c) == /\ \A k \in Covering(c, list[f].type) : row[k] # "active"
               /\ list' = [list EXCEPT ![f].allowed = @ \cup {c}]
               /\ UNCHANGED row

Refuse(f, c) == /\ \E k \in Covering(c, list[f].type) : row[k] # "none"
                /\ list' = [list EXCEPT ![f].filtered = @ \cup {c}]
                /\ UNCHANGED row

(* The callers in F return, or are abandoned together by a crash.          *)
Close(F) == /\ list' = [f \in Caller |-> IF f \in F THEN Closed ELSE list[f]]
            /\ UNCHANGED row

LedgerNext == \/ \E k \in Client \X WorkflowType : Ban(k)
              \/ \E k \in Key : Lift(k)
              \/ \E f \in Caller, t \in WorkflowType : Open(f, t)
              \/ \E f \in Caller, c \in Client : Admit(f, c) \/ Refuse(f, c)
              \/ \E F \in SUBSET Caller : Close(F)

LedgerSpec == LedgerInit /\ [][LedgerNext]_ledgerVars
=============================================================================
