--------------------------- MODULE BanEnforcement ---------------------------
(***************************************************************************)
(* BanEnforcementService with the bans table (SQLiteBanRepo), the cache of *)
(* active bans (InMemoryDispatchBlocker) and the dispatch filter.          *)
(*                                                                         *)
(* Three kinds of goroutine meet here: the result dispatcher, which alone  *)
(* bans (LoopDetectionService is the only caller of BanClient); one HTTP   *)
(* handler per unban request; and one caller of FilterDispatchList per     *)
(* TriggerWorkflow in progress.  A statement of SQLite is one step, a      *)
(* section under the blocker's mutex is one step, and steps of different   *)
(* goroutines interleave.  Any statement may fail.                         *)
(***************************************************************************)
CONSTANTS Client,        \* client ids
          WorkflowType,  \* workflow types a workflow may have (never "")
          Global,        \* the type "": a ban from every type
          Admin,         \* unban requests that can be in progress at once
          Caller,        \* FilterDispatchList calls that can be in progress
          NoClient       \* not a client

ASSUME GlobalAssumption   == Global \notin WorkflowType
ASSUME NoClientAssumption == NoClient \notin Client

BanType == WorkflowType \cup {Global}
Key     == Client \X BanType
NoKey   == <<NoClient, Global>>

VARIABLES
  row,     \* row[k]: "none", or an "active" row in bans, or only "lifted" ones
  cache,   \* the keys in InMemoryDispatchBlocker.bans
  ban,     \* the key BanClient has saved and not yet cached, or NoKey
  unban,   \* unban[a]: the key UnbanClient has lifted and not yet uncached
  reply,   \* reply[a]: what the last unban request of a returned
  filter,  \* filter[f]: the progress of a FilterDispatchList call
  owed     \* history: owed[f], the keys active ever since filter[f] began

vars == <<row, cache, ban, unban, reply, filter, owed>>

Active == {k \in Key : row[k] = "active"}

(* ShouldBlockDispatch and CanDispatchToClient look for the same two keys. *)
Covering(c, t) == {<<c, t>>, <<c, Global>>}

(* A call for a run of type t that has the clients in C to look at: todo   *)
(* is what is left of them, at the one whose database lookup comes next.   *)
Call(t, C) == [type |-> t, todo |-> C, at |-> NoClient,
               allowed |-> {}, filtered |-> {}]

Idle == Call(Global, {})

FilterCall == [type : BanType, todo : SUBSET Client, at : Client \cup {NoClient},
               allowed : SUBSET Client, filtered : SUBSET Client]

Init == /\ row = [k \in Key |-> "none"]
        /\ cache = {}
        /\ ban = NoKey
        /\ unban = [a \in Admin |-> NoKey]
        /\ reply = [a \in Admin |-> "none"]
        /\ filter = [f \in Caller |-> Idle]
        /\ owed = [f \in Caller |-> {}]
-----------------------------------------------------------------------------
(* Wrong: the error of the INSERT is dropped and the ban is cached anyway. *)
SaveBanUnsaved(k) == /\ ban = NoKey
                     /\ ban' = k
                     /\ UNCHANGED <<row, cache, unban, reply, filter, owed>>

(* BanClient: the INSERT.  Should it fail, nothing changes and the caller  *)
(* only logs the error.                                                    *)
SaveBan(k) == /\ ban = NoKey
              /\ row' = [row EXCEPT ![k] = "active"]
              /\ ban' = k
              /\ UNCHANGED <<cache, unban, reply, filter, owed>>

(* BanClient: blocker.Add, with the record as it was saved.                *)
AddToCache == /\ ban # NoKey
              /\ cache' = cache \cup {ban}
              /\ ban' = NoKey
              /\ UNCHANGED <<row, unban, reply, filter, owed>>

(* UnbanClient: the UPDATE changes at least one row.                       *)
LiftBan(a, k) == /\ unban[a] = NoKey
                 /\ row[k] = "active"
                 /\ row' = [row EXCEPT ![k] = "lifted"]
                 /\ unban' = [unban EXCEPT ![a] = k]
                 /\ owed' = [f \in Caller |-> owed[f] \ {k}]
                 /\ UNCHANGED <<cache, ban, reply, filter>>

(* UnbanClient: the UPDATE changes no row, ErrBanNotFound is returned and  *)
(* the cache is left as it is.                                             *)
BanNotFound(a, k) == /\ unban[a] = NoKey
                     /\ row[k] # "active"
                     /\ reply' = [reply EXCEPT ![a] = "not_found"]
                     /\ UNCHANGED <<row, cache, ban, unban, filter, owed>>

(* UnbanClient: the UPDATE fails.                                          *)
UnbanFails(a) == /\ unban[a] = NoKey
                 /\ reply' = [reply EXCEPT ![a] = "error"]
                 /\ UNCHANGED <<row, cache, ban, unban, filter, owed>>

(* UnbanClient: blocker.Remove.                                            *)
RemoveFromCache(a) == /\ unban[a] # NoKey
                      /\ cache' = cache \ {unban[a]}
                      /\ unban' = [unban EXCEPT ![a] = NoKey]
                      /\ reply' = [reply EXCEPT ![a] = "ok"]
                      /\ UNCHANGED <<row, ban, filter, owed>>
-----------------------------------------------------------------------------
(* FilterDispatchList, called with the clients in C for a run of type t.   *)
StartFilter(f, t, C) ==
  /\ filter[f] = Idle
  /\ filter' = [filter EXCEPT ![f] = Call(t, C)]
  /\ owed' = [owed EXCEPT ![f] = Active]
  /\ UNCHANGED <<row, cache, ban, unban, reply>>

ShouldBlockDispatch(c, t) == Covering(c, t) \cap cache # {}

(* Wrong: only a ban from every type is looked for.                        *)
CanDispatchIfNotGlobal(c, t) == <<c, Global>> \notin Active

CanDispatchToClient(c, t) == Covering(c, t) \cap Active = {}

(* IsBanned(c): found in the cache, true without a look at the database.   *)
CacheHit(f, c) ==
  /\ filter[f].at = NoClient
  /\ c \in filter[f].todo
  /\ ShouldBlockDispatch(c, filter[f].type)
  /\ filter' = [filter EXCEPT ![f].todo = @ \ {c}, ![f].filtered = @ \cup {c}]
  /\ UNCHANGED <<row, cache, ban, unban, reply, owed>>

(* Wrong: a client that is not in the cache is taken to be free.           *)
CacheMissAllows(f, c) ==
  /\ filter[f].at = NoClient
  /\ c \in filter[f].todo
  /\ ~ShouldBlockDispatch(c, filter[f].type)
  /\ filter' = [filter EXCEPT ![f].todo = @ \ {c}, ![f].allowed = @ \cup {c}]
  /\ UNCHANGED <<row, cache, ban, unban, reply, owed>>

(* IsBanned(c): not in the cache.                                          *)
CacheMiss(f, c) ==
  /\ filter[f].at = NoClient
  /\ c \in filter[f].todo
  /\ ~ShouldBlockDispatch(c, filter[f].type)
  /\ filter' = [filter EXCEPT ![f].todo = @ \ {c}, ![f].at = c]
  /\ UNCHANGED <<row, cache, ban, unban, reply, owed>>

(* IsBanned: the active bans of the client are read, and none covers it.   *)
LookupAllows(f) ==
  LET c == filter[f].at IN
  /\ c # NoClient
  /\ CanDispatchToClient(c, filter[f].type)
  /\ filter' = [filter EXCEPT ![f].at = NoClient, ![f].allowed = @ \cup {c}]
  /\ UNCHANGED <<row, cache, ban, unban, reply, owed>>

(* IsBanned: the active bans of the client are read, and one covers it.    *)
LookupBlocks(f) ==
  LET c == filter[f].at IN
  /\ c # NoClient
  /\ ~CanDispatchToClient(c, filter[f].type)
  /\ filter' = [filter EXCEPT ![f].at = NoClient, ![f].filtered = @ \cup {c}]
  /\ UNCHANGED <<row, cache, ban, unban, reply, owed>>

(* IsBanned: the read fails; FilterDispatchList returns (nil, nil, err).   *)
LookupFails(f) ==
  /\ filter[f].at # NoClient
  /\ filter' = [filter EXCEPT ![f] = Idle]
  /\ owed' = [owed EXCEPT ![f] = {}]
  /\ UNCHANGED <<row, cache, ban, unban, reply>>

(* FilterDispatchList returns allowed and filtered.                        *)
ReturnFilter(f) ==
  /\ filter[f] # Idle
  /\ filter[f].at = NoClient
  /\ filter[f].todo = {}
  /\ filter' = [filter EXCEPT ![f] = Idle]
  /\ owed' = [owed EXCEPT ![f] = {}]
  /\ UNCHANGED <<row, cache, ban, unban, reply>>
-----------------------------------------------------------------------------
(* WarmCache: what a new process finds in its cache.  ListAllBans returns  *)
(* lifted bans too; if it fails, main only logs and carries on.            *)
WarmCache == {Active, {}}

(* The process dies at any moment and starts again; the table remains.     *)
Restart == /\ cache' \in WarmCache
           /\ ban' = NoKey
           /\ unban' = [a \in Admin |-> NoKey]
           /\ reply' = [a \in Admin |-> "none"]
           /\ filter' = [f \in Caller |-> Idle]
           /\ owed' = [f \in Caller |-> {}]
           /\ UNCHANGED row
-----------------------------------------------------------------------------
Enforcement == (\E k \in Client \X WorkflowType : SaveBan(k)) \/ AddToCache

Unban(a) == \/ \E k \in Key : LiftBan(a, k) \/ BanNotFound(a, k)
            \/ UnbanFails(a)
            \/ RemoveFromCache(a)

FilterStep(f) == \/ \E c \in Client : CacheHit(f, c) \/ CacheMiss(f, c)
                 \/ LookupAllows(f)
                 \/ LookupBlocks(f)
                 \/ LookupFails(f)
                 \/ ReturnFilter(f)

Next == \/ Enforcement
        \/ \E a \in Admin : Unban(a)
        \/ \E f \in Caller, t \in WorkflowType, C \in SUBSET Client : StartFilter(f, t, C)
        \/ \E f \in Caller : FilterStep(f)
        \/ Restart

Spec == Init /\ [][Next]_vars
-----------------------------------------------------------------------------
(* Every variable has its type, and a call that is not in progress has     *)
(* left nothing behind: an idle filter call holds no client and owes       *)
(* nothing, and the key of a ban or unban in progress is a real one.       *)
TypeOK == /\ row \in [Key -> {"none", "active", "lifted"}]
          /\ cache \subseteq Key
          /\ ban \in (Client \X WorkflowType) \cup {NoKey}
          /\ unban \in [Admin -> Key \cup {NoKey}]
          /\ reply \in [Admin -> {"none", "ok", "not_found", "error"}]
          /\ filter \in [Caller -> FilterCall]
          /\ owed \in [Caller -> SUBSET Key]
          /\ \A f \in Caller : filter[f] = Idle => owed[f] = {}

(* A client whose ban was in force from before FilterDispatchList began    *)
(* until now is not on the list of clients to send to, however bans,       *)
(* unbans, failed statements, late cache updates and restarts interleave   *)
(* with the call (ban_enforcement.go, dispatch_filter.go).                 *)
NoDispatchThroughBan ==
  \A f \in Caller : \A c \in filter[f].allowed :
    Covering(c, filter[f].type) \cap owed[f] = {}

(* A key has only ever been cached or is being unbanned after its row was  *)
(* written, and what is owed is active: the strengthening of the two       *)
(* properties above and of the refinement that is inductive.               *)
Inv == /\ TypeOK
       /\ NoDispatchThroughBan
       /\ \A k \in cache \cup {ban} : k # NoKey => row[k] # "none"
       /\ \A f \in Caller : owed[f] \subseteq Active

(* The lists of BanLedger, without the bookkeeping of the calls.           *)
list == [f \in Caller |-> [type     |-> filter[f].type,
                           allowed  |-> filter[f].allowed,
                           filtered |-> filter[f].filtered]]

Ledger == INSTANCE BanLedger WITH row <- row, list <- list

(* The cache, the table and the two-step check behave like a table of bans *)
(* consulted in one step: whoever is admitted was covered by no active ban *)
(* at that very step, and nobody is refused who was never banned.          *)
ImplementsLedger == Ledger!LedgerSpec

(* README.md:460: "Bans are permanent until lifted by an administrator via *)
(* PUT /bans/{client_id}/unban".  While nothing else is in progress, an    *)
(* administrator who is told that there is no ban to lift is told so of a  *)
(* client that the cache does not block (UnbanClient, ban_enforcement.go). *)
BanNotFoundMeansNotBlocked ==
  [][\A a \in Admin, k \in Key :
       BanNotFound(a, k) /\ ban = NoKey /\ (\A b \in Admin : unban[b] = NoKey)
         => k \notin cache]_vars
=============================================================================
