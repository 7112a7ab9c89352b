------------------------ MODULE BanEnforcement_proofs ------------------------
(***************************************************************************)
(* Proofs about BanEnforcement, for any clients, types, administrators and *)
(* callers.                                                                *)
(***************************************************************************)
EXTENDS BanEnforcement, TLAPS

(* Nothing is cached and no call is in progress in the initial state.      *)
LEMMA InitInv == Init => Inv
<1>. USE DEF Init, Inv, TypeOK, NoDispatchThroughBan, Key, BanType, FilterCall, Idle, Call,
             NoKey, Active
<1>. QED  BY GlobalAssumption, NoClientAssumption

(* A call that has put a client on one of its lists is in progress.        *)
LEMMA InProgress == ASSUME NEW x, x.allowed # {} \/ x.filtered # {} PROVE x # Idle
BY DEF Idle, Call

(* What one step of a filter call leaves of the calls.                     *)
LEMMA CacheHitStep ==
  ASSUME NEW f \in Caller, NEW c \in Client, filter \in [Caller -> FilterCall],
         CacheHit(f, c)
  PROVE  /\ filter' \in [Caller -> FilterCall]
         /\ filter'[f].type = filter[f].type
         /\ filter'[f].allowed = filter[f].allowed
         /\ filter'[f].filtered = filter[f].filtered \cup {c}
         /\ \A g \in Caller \ {f} : filter'[g] = filter[g]
<1>. DEFINE x == [filter[f] EXCEPT !.todo = @ \ {c}, !.filtered = @ \cup {c}]
<1>1. filter[f] \in FilterCall
  OBVIOUS
<1>2. /\ x \in FilterCall /\ x.type = filter[f].type
      /\ x.allowed = filter[f].allowed
      /\ x.filtered = filter[f].filtered \cup {c}
  BY <1>1 DEF FilterCall
<1>3. filter' = [filter EXCEPT ![f] = x]
  BY <1>1 DEF CacheHit, FilterCall
<1>. HIDE DEF x
<1>. QED
  BY <1>1, <1>2, <1>3

(* The client that was looked up has been let through.                     *)
LEMMA LookupAllowsStep ==
  ASSUME NEW f \in Caller, filter \in [Caller -> FilterCall], LookupAllows(f)
  PROVE  /\ filter[f].at \in Client
         /\ filter' \in [Caller -> FilterCall]
         /\ filter'[f].type = filter[f].type
         /\ filter'[f].allowed = filter[f].allowed \cup {filter[f].at}
         /\ filter'[f].filtered = filter[f].filtered
         /\ \A g \in Caller \ {f} : filter'[g] = filter[g]
<1>. DEFINE x == [filter[f] EXCEPT !.at = NoClient, !.allowed = @ \cup {filter[f].at}]
<1>1. filter[f] \in FilterCall /\ filter[f].at \in Client
  BY DEF FilterCall, LookupAllows
<1>2. /\ x \in FilterCall /\ x.type = filter[f].type
      /\ x.allowed = filter[f].allowed \cup {filter[f].at}
      /\ x.filtered = filter[f].filtered
  BY <1>1 DEF FilterCall
<1>3. filter' = [filter EXCEPT ![f] = x]
  BY <1>1 DEF LookupAllows, FilterCall
<1>. HIDE DEF x
<1>. QED
  BY <1>1, <1>2, <1>3

(* The client that was looked up has been filtered out.                    *)
LEMMA LookupBlocksStep ==
  ASSUME NEW f \in Caller, filter \in [Caller -> FilterCall], LookupBlocks(f)
  PROVE  /\ filter[f].at \in Client
         /\ filter' \in [Caller -> FilterCall]
         /\ filter'[f].type = filter[f].type
         /\ filter'[f].allowed = filter[f].allowed
         /\ filter'[f].filtered = filter[f].filtered \cup {filter[f].at}
         /\ \A g \in Caller \ {f} : filter'[g] = filter[g]
<1>. DEFINE x == [filter[f] EXCEPT !.at = NoClient, !.filtered = @ \cup {filter[f].at}]
<1>1. filter[f] \in FilterCall /\ filter[f].at \in Client
  BY DEF FilterCall, LookupBlocks
<1>2. /\ x \in FilterCall /\ x.type = filter[f].type
      /\ x.allowed = filter[f].allowed
      /\ x.filtered = filter[f].filtered \cup {filter[f].at}
  BY <1>1 DEF FilterCall
<1>3. filter' = [filter EXCEPT ![f] = x]
  BY <1>1 DEF LookupBlocks, FilterCall
<1>. HIDE DEF x
<1>. QED
  BY <1>1, <1>2, <1>3

(* One action at a time, the strengthened invariant is preserved.          *)
LEMMA NextInv == Inv /\ [Next]_vars => Inv'
<1>. SUFFICES ASSUME Inv, [Next]_vars PROVE Inv'
  OBVIOUS
<1>. USE NoClientAssumption DEF Inv, TypeOK, Key, BanType, FilterCall, NoKey, Active
<1>1. ASSUME NEW k \in Client \X WorkflowType, SaveBan(k) PROVE Inv'
  BY <1>1 DEF SaveBan, NoDispatchThroughBan, Covering
<1>2. CASE AddToCache
  BY <1>2 DEF AddToCache, NoDispatchThroughBan, Covering
<1>3. ASSUME NEW a \in Admin, NEW k \in Key, LiftBan(a, k) PROVE Inv'
  BY <1>3 DEF LiftBan, NoDispatchThroughBan, Covering
<1>4. ASSUME NEW a \in Admin, NEW k \in Key, BanNotFound(a, k) PROVE Inv'
  BY <1>4 DEF BanNotFound, NoDispatchThroughBan, Covering
<1>5. ASSUME NEW a \in Admin, UnbanFails(a) PROVE Inv'
  BY <1>5 DEF UnbanFails, NoDispatchThroughBan, Covering
<1>6. ASSUME NEW a \in Admin, RemoveFromCache(a) PROVE Inv'
  BY <1>6 DEF RemoveFromCache, NoDispatchThroughBan, Covering
<1>7. ASSUME NEW f \in Caller, NEW t \in WorkflowType, NEW C \in SUBSET Client,
             StartFilter(f, t, C)
      PROVE  Inv'
  <2>1. Call(t, C) \in FilterCall /\ Call(t, C).allowed = {} /\ Call(t, C).type = t
    BY DEF Call
  <2>2. filter'[f] = Call(t, C) /\ Call(t, C) # Idle
    BY <1>7, GlobalAssumption DEF StartFilter, Call, Idle
  <2>3. \A g \in Caller \ {f} : filter'[g] = filter[g] /\ owed'[g] = owed[g]
    BY <1>7 DEF StartFilter
  <2>4. TypeOK'
    BY <1>7, <2>1, <2>2, <2>3 DEF StartFilter
  <2>5. NoDispatchThroughBan'
    <3>1. filter'[f].allowed = {}
      BY <2>1, <2>2
    <3>2. \A g \in Caller \ {f} : \A c \in filter'[g].allowed :
            Covering(c, filter'[g].type) \cap owed'[g] = {}
      BY <2>3 DEF NoDispatchThroughBan
    <3>. QED
      BY <3>1, <3>2 DEF NoDispatchThroughBan, Covering
  <2>. QED
    BY <1>7, <2>4, <2>5 DEF StartFilter
<1>8. ASSUME NEW f \in Caller, NEW c \in Client, CacheHit(f, c) PROVE Inv'
  <2>1. TypeOK'
    BY <1>8, CacheHitStep, InProgress DEF CacheHit
  <2>2. NoDispatchThroughBan'
    BY <1>8, CacheHitStep DEF CacheHit, NoDispatchThroughBan, Covering
  <2>. QED
    BY <1>8, <2>1, <2>2 DEF CacheHit
<1>9. ASSUME NEW f \in Caller, NEW c \in Client, CacheMiss(f, c) PROVE Inv'
  BY <1>9 DEF CacheMiss, NoDispatchThroughBan, Covering, Idle, Call
<1>10. ASSUME NEW f \in Caller, LookupAllows(f) PROVE Inv'
  <2>1. TypeOK'
    BY <1>10, LookupAllowsStep, InProgress DEF LookupAllows
  <2>2. Covering(filter[f].at, filter[f].type) \cap owed[f] = {}
    BY <1>10 DEF LookupAllows, CanDispatchToClient
  <2>3. NoDispatchThroughBan'
    <3>. SUFFICES ASSUME NEW g \in Caller, NEW c \in filter'[g].allowed
                  PROVE  Covering(c, filter'[g].type) \cap owed[g] = {}
      BY <1>10 DEF LookupAllows, NoDispatchThroughBan, Covering
    <3>1. CASE g = f /\ c = filter[f].at
      BY <1>10, <2>2, <3>1, LookupAllowsStep
    <3>2. CASE ~(g = f /\ c = filter[f].at)
      <4>1. c \in filter[g].allowed /\ filter'[g].type = filter[g].type
        BY <1>10, <3>2, LookupAllowsStep
      <4>. QED
        BY <4>1 DEF NoDispatchThroughBan
    <3>. QED
      BY <3>1, <3>2
  <2>. QED
    BY <1>10, <2>1, <2>3 DEF LookupAllows
<1>15. ASSUME NEW f \in Caller, LookupBlocks(f) PROVE Inv'
  <2>1. TypeOK'
    BY <1>15, LookupBlocksStep, InProgress DEF LookupBlocks
  <2>2. /\ owed' = owed
        /\ \A g \in Caller : filter'[g].allowed = filter[g].allowed /\ filter'[g].type = filter[g].type
    BY <1>15, LookupBlocksStep DEF LookupBlocks
  <2>3. NoDispatchThroughBan'
    BY <2>2 DEF NoDispatchThroughBan, Covering
  <2>. QED
    BY <1>15, <2>1, <2>3 DEF LookupBlocks
<1>11. ASSUME NEW f \in Caller, LookupFails(f) PROVE Inv'
  BY <1>11 DEF LookupFails, NoDispatchThroughBan, Covering, Idle, Call
<1>12. ASSUME NEW f \in Caller, ReturnFilter(f) PROVE Inv'
  BY <1>12 DEF ReturnFilter, NoDispatchThroughBan, Covering, Idle, Call
<1>13. CASE Restart
  BY <1>13 DEF Restart, WarmCache, NoDispatchThroughBan, Covering, Idle, Call
<1>14. CASE UNCHANGED vars
  BY <1>14 DEF vars, NoDispatchThroughBan, Covering, Idle, Call
<1>. QED
  BY <1>1, <1>2, <1>3, <1>4, <1>5, <1>6, <1>7, <1>8, <1>9, <1>10, <1>11, <1>12,
     <1>13, <1>14, <1>15
     DEF Next, Enforcement, Unban, FilterStep

(* The strengthened invariant holds of every behaviour.                    *)
THEOREM Invariance == Spec => []Inv
BY InitInv, NextInv, PTL DEF Spec

(* Every variable keeps its type, through failures and restarts.           *)
THEOREM Typing == Spec => []TypeOK
<1>1. Inv => TypeOK
  BY DEF Inv
<1>. QED
  BY <1>1, Invariance, PTL

(* No list of clients to send to ever holds a client whose ban was in      *)
(* force throughout the call that built the list: dispatch_filter.go and   *)
(* ban_enforcement.go under every interleaving.                            *)
THEOREM BansHonoured == Spec => []NoDispatchThroughBan
<1>1. Inv => NoDispatchThroughBan
  BY DEF Inv
<1>. QED
  BY <1>1, Invariance, PTL

-----------------------------------------------------------------------------
(* Every step of the implementation is a step of BanLedger or leaves its   *)
(* variables alone.                                                        *)
LEMMA StepRefines == Inv /\ [Next]_vars => [Ledger!LedgerNext]_(Ledger!ledgerVars)
<1>. SUFFICES ASSUME Inv, [Next]_vars
              PROVE  [Ledger!LedgerNext]_(Ledger!ledgerVars)
  OBVIOUS
<1>. DEFINE Goal == [Ledger!LedgerNext]_(Ledger!ledgerVars)
<1>typ. filter \in [Caller -> FilterCall] /\ row \in [Key -> {"none", "active", "lifted"}]
  BY DEF Inv, TypeOK
<1>0. filter' = filter /\ row' = row => Goal
  BY DEF Ledger!ledgerVars, list
<1>1. ASSUME NEW k \in Client \X WorkflowType, SaveBan(k) PROVE Goal
  <2>1. Ledger!Ban(k)
    BY <1>1 DEF SaveBan, Ledger!Ban, list
  <2>. QED
    BY <2>1 DEF Ledger!LedgerNext
<1>2. ASSUME NEW a \in Admin, NEW k \in Key, LiftBan(a, k) PROVE Goal
  <2>1. Ledger!Lift(k)
    BY <1>2 DEF LiftBan, Ledger!Lift, list
  <2>. QED
    BY <2>1 DEF Ledger!LedgerNext, Key, BanType, Ledger!Key, Ledger!BanType
<1>3. ASSUME NEW f \in Caller, NEW t \in WorkflowType, NEW C \in SUBSET Client,
             StartFilter(f, t, C)
      PROVE  Goal
  <2>1. filter' = [filter EXCEPT ![f] = Call(t, C)] /\ filter[f] = Idle /\ row' = row
    BY <1>3 DEF StartFilter
  <2>2. list[f] = Ledger!Closed
    BY <2>1 DEF list, Idle, Call, Ledger!Closed
  <2>3. list' = [list EXCEPT ![f].type = t]
    BY <1>typ, <2>1, <2>2 DEF list, Call, Ledger!Closed
  <2>4. Ledger!Open(f, t)
    BY <2>1, <2>2, <2>3 DEF Ledger!Open
  <2>. QED
    BY <2>4 DEF Ledger!LedgerNext
<1>4. ASSUME NEW f \in Caller, NEW c \in Client, CacheHit(f, c) PROVE Goal
  <2>1. list' = [list EXCEPT ![f].filtered = @ \cup {c}]
    BY <1>4, <1>typ, CacheHitStep DEF list
  <2>2. \E k \in Ledger!Covering(c, list[f].type) : row[k] # "none"
    BY <1>4, NoClientAssumption
       DEF CacheHit, ShouldBlockDispatch, Inv, TypeOK, Covering, Ledger!Covering, list, NoKey
  <2>3. Ledger!Refuse(f, c)
    BY <1>4, <2>1, <2>2 DEF CacheHit, Ledger!Refuse
  <2>. QED
    BY <2>3 DEF Ledger!LedgerNext
<1>5. ASSUME NEW f \in Caller, NEW c \in Client, CacheMiss(f, c) PROVE Goal
  <2>1. list' = list
    BY <1>5, <1>typ DEF CacheMiss, list
  <2>. QED
    BY <1>5, <2>1 DEF CacheMiss, Ledger!ledgerVars
<1>6. ASSUME NEW f \in Caller, LookupAllows(f) PROVE Goal
  <2>. DEFINE c == filter[f].at
  <2>1. list' = [list EXCEPT ![f].allowed = @ \cup {c}]
    BY <1>6, <1>typ, LookupAllowsStep DEF list
  <2>2. \A k \in Ledger!Covering(c, list[f].type) : row[k] # "active"
    <3>1. c \in Client /\ list[f].type \in BanType /\ list[f].type = filter[f].type
      BY <1>6, <1>typ, LookupAllowsStep DEF list, FilterCall
    <3>2. Covering(c, list[f].type) \cap Active = {}
      BY <1>6, <3>1 DEF LookupAllows, CanDispatchToClient
    <3>3. Covering(c, list[f].type) \subseteq Key
      BY <3>1 DEF Covering, Key, BanType
    <3>. QED
      BY <3>2, <3>3 DEF Active, Covering, Ledger!Covering
  <2>3. Ledger!Admit(f, c)
    BY <1>6, <2>1, <2>2 DEF LookupAllows, Ledger!Admit
  <2>. QED
    BY <1>6, <1>typ, <2>3, LookupAllowsStep DEF Ledger!LedgerNext
<1>7. ASSUME NEW f \in Caller, LookupBlocks(f) PROVE Goal
  <2>. DEFINE c == filter[f].at
  <2>1. list' = [list EXCEPT ![f].filtered = @ \cup {c}]
    BY <1>7, <1>typ, LookupBlocksStep DEF list
  <2>2. \E k \in Ledger!Covering(c, list[f].type) : row[k] # "none"
    <3>1. Covering(c, list[f].type) \cap Active # {}
      BY <1>7 DEF LookupBlocks, CanDispatchToClient, list
    <3>. QED
      BY <3>1 DEF Active, Covering, Ledger!Covering
  <2>3. Ledger!Refuse(f, c)
    BY <1>7, <2>1, <2>2 DEF LookupBlocks, Ledger!Refuse
  <2>. QED
    BY <1>7, <1>typ, <2>3, LookupBlocksStep DEF Ledger!LedgerNext
<1>8. ASSUME NEW f \in Caller, filter' = [filter EXCEPT ![f] = Idle], row' = row
      PROVE  Goal
  <2>1. list' = [g \in Caller |-> IF g \in {f} THEN Ledger!Closed ELSE list[g]]
    BY <1>8, <1>typ DEF list, Idle, Call, Ledger!Closed
  <2>2. Ledger!Close({f})
    BY <1>8, <2>1 DEF Ledger!Close
  <2>. QED
    BY <2>2 DEF Ledger!LedgerNext
<1>9. CASE Restart
  <2>1. list' = [g \in Caller |-> IF g \in Caller THEN Ledger!Closed ELSE list[g]]
    BY <1>9 DEF Restart, list, Idle, Call, Ledger!Closed
  <2>2. Ledger!Close(Caller)
    BY <1>9, <2>1 DEF Restart, Ledger!Close
  <2>. QED
    BY <2>2 DEF Ledger!LedgerNext
<1>10. CASE UNCHANGED vars
  BY <1>0, <1>10 DEF vars
<1>11. CASE Enforcement
  BY <1>0, <1>1, <1>11 DEF Enforcement, AddToCache
<1>12. ASSUME NEW a \in Admin, Unban(a) PROVE Goal
  BY <1>0, <1>2, <1>12 DEF Unban, BanNotFound, UnbanFails, RemoveFromCache
<1>13. ASSUME NEW f \in Caller, FilterStep(f) PROVE Goal
  BY <1>4, <1>5, <1>6, <1>7, <1>8, <1>13 DEF FilterStep, LookupFails, ReturnFilter
<1>. QED
  BY <1>3, <1>9, <1>10, <1>11, <1>12, <1>13 DEF Next

(* BanEnforcement implements BanLedger: the cache, the table and the check *)
(* in two steps are indistinguishable, to whoever builds a dispatch list,  *)
(* from one table that is consulted in one step.                           *)
THEOREM Refinement == Spec => ImplementsLedger
<1>1. Init => Ledger!LedgerInit
  BY DEF Init, Ledger!LedgerInit, list, Idle, Call, Ledger!Closed, Key, BanType,
         Ledger!Key, Ledger!BanType
<1>. QED
  BY <1>1, Invariance, StepRefines, PTL DEF Spec, ImplementsLedger, Ledger!LedgerSpec
=============================================================================
