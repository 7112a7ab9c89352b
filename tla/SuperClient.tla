---------------------------- MODULE SuperClient ----------------------------
(***************************************************************************)
(* The super-client process: it hosts a pool of clients, receives their    *)
(* dispatches over NATS, executes them and publishes the results.          *)
(*                                                                         *)
(* Its goroutines are the callbacks of NATS, one per subscription and so   *)
(* one per client, which decode messages and put them on a channel; the    *)
(* one that closes the channel once the context is cancelled; and the main *)
(* one, ClientPoolManager.Run and then Shutdown, which alone uses the      *)
(* store of client states and the ResultCollector.  HandleDispatch touches *)
(* nothing another goroutine sees, so that it is one step with the receipt *)
(* of its message; a publication is one step.                              *)
(***************************************************************************)
EXTENDS ActivityExecutor, Sequences, SequencesExt

CONSTANTS Client,         \* the pool
          Dispatch,       \* ids: a dispatch is published once
          Offered,        \* the activities dispatches may ask for
          ChannelSize,    \* 256 in the code
          MaxFailures     \* bound: publications that fail

ASSUME ChannelAssumption == ChannelSize \in Nat \ {0}
ASSUME FailuresAssumption == MaxFailures \in Nat
ASSUME OfferedAssumption ==
  \A a \in Offered : a.package \in Package \cup {NoPackage} /\ a.config \in 0..MaxVersion

VARIABLES
  sub,        \* sub[c]: messages that NATS has for the subscription of c
  channel,    \* decoded dispatches, on their way to the main goroutine
  cancelled,  \* SIGTERM has cancelled the context
  closed,     \* the channel is closed
  at,         \* where the main goroutine is
  store,      \* store[c]: MemoryStore
  queue,      \* ResultCollector.pending
  flushing,   \* what FlushResults has yet to publish
  failed,     \* what it could not publish
  published,  \* the results NATS has accepted
  executed,   \* history: the results in the order they were collected
  sent,       \* history: the dispatches that were published to the pool
  failures

natsVars    == <<sub, sent>>
poolVars    == <<store, executed>>
collectVars == <<queue, flushing, failed, published, failures>>
vars == <<natsVars, channel, cancelled, closed, at, poolVars, collectVars>>

(* The activity of a message is the name of its type, as the server sends  *)
(* it (README.md:413), or an object with type and params, as the           *)
(* super-client declares it.                                               *)
Form == {"name", "object"}

Message == [id : Dispatch, form : Form, addressed : BOOLEAN, activity : Offered]

Running == at \notin {"exited", "crashed"}

Init == /\ sub = [c \in Client |-> <<>>]
        /\ channel = <<>>
        /\ cancelled = FALSE /\ closed = FALSE
        /\ at = "select"
        /\ store = [c \in Client |-> NewInnerClient]
        /\ queue = <<>> /\ flushing = <<>> /\ failed = <<>> /\ published = <<>>
        /\ executed = <<>> /\ sent = {} /\ failures = 0

(* Someone publishes to dispatch.<c>.  What the server sends has both ids. *)
SendDispatch(c, m) ==
  /\ Running
  /\ m.id \notin sent
  /\ m.form = "name" => m.addressed
  /\ sent' = sent \cup {m.id}
  /\ sub' = [sub EXCEPT ![c] = Append(@, m)]
  /\ UNCHANGED <<channel, cancelled, closed, at, poolVars, collectVars>>

(* SIGTERM or SIGINT.                                                      *)
Cancel == /\ Running /\ ~cancelled
          /\ cancelled' = TRUE
          /\ UNCHANGED <<natsVars, channel, closed, at, poolVars, collectVars>>

(* Wrong: the goroutine that closes the channel does not wait.             *)
CloseChannelEarly == /\ Running /\ ~closed
                     /\ closed' = TRUE
                     /\ UNCHANGED <<natsVars, channel, cancelled, at, poolVars, collectVars>>

CloseChannel == /\ Running /\ cancelled /\ ~closed
                /\ closed' = TRUE
                /\ UNCHANGED <<natsVars, channel, cancelled, at, poolVars, collectVars>>
-----------------------------------------------------------------------------
(* The callback of a subscription has its next message in hand.            *)
Callback(c) == /\ Running /\ sub[c] # <<>>
               /\ sub' = [sub EXCEPT ![c] = Tail(@)]
               /\ UNCHANGED <<sent, cancelled, closed, poolVars, collectVars>>

(* json.Unmarshal cannot decode the name of an activity into an Activity.  *)
Malformed(c) == /\ Callback(c)
                /\ Head(sub[c]).form = "name"
                /\ UNCHANGED <<channel, at>>

(* Wrong: the callback drops what the channel cannot take.                 *)
EnqueueOrDrop(c) ==
  /\ Callback(c)
  /\ Head(sub[c]).form = "object"
  /\ ~closed
  /\ channel' = IF Len(channel) < ChannelSize
                  THEN Append(channel, [client |-> c, message |-> Head(sub[c])])
                  ELSE channel
  /\ UNCHANGED at

(* Wrong: the name of an activity is decoded too.                          *)
EnqueueNamed(c) == /\ Callback(c)
                   /\ ~closed /\ Len(channel) < ChannelSize
                   /\ channel' = Append(channel, [client |-> c, message |-> Head(sub[c])])
                   /\ UNCHANGED at

(* The select of the callback: it waits for room in the channel, ...       *)
Enqueue(c) == /\ Callback(c)
              /\ Head(sub[c]).form = "object"
              /\ ~closed /\ Len(channel) < ChannelSize
              /\ channel' = Append(channel, [client |-> c, message |-> Head(sub[c])])
              /\ UNCHANGED at

(* ... gives up when the context is cancelled, ...                         *)
GiveUp(c) == /\ Callback(c)
             /\ Head(sub[c]).form = "object"
             /\ cancelled
             /\ UNCHANGED <<channel, at>>

(* ... and, as select chooses at random, may send on the closed channel,   *)
(* which panics and ends the process.                                      *)
SendOnClosed(c) == /\ Callback(c)
                   /\ Head(sub[c]).form = "object"
                   /\ closed
                   /\ at' = "crashed"
                   /\ UNCHANGED channel
-----------------------------------------------------------------------------
(* HandleDispatch: the outcomes of a message.  An unknown activity is      *)
(* answered with an error.                                                 *)
Outcomes(m, s) == IF m.activity.type \in ActivityType
                    THEN Execute(m.activity, s) ELSE {Outcome(s, "error")}

Result(m, c, o) == [id |-> m.id, client |-> c, status |-> o.status, state |-> o.state]

(* Wrong: the newest result goes first.                                    *)
CollectFirst(r) == <<r>> \o queue

Collect(r) == Append(queue, r)

(* The start of FlushResults: it takes the whole queue.                    *)
FlushResults(from, where) == /\ at' = where
                             /\ flushing' = from
                             /\ queue' = <<>>
                             /\ failed' = <<>>

(* Wrong: the new state is reported but not stored.                        *)
HandleUnstored ==
  /\ at = "select" /\ channel # <<>>
  /\ channel' = Tail(channel)
  /\ LET m == Head(channel).message
         c == Head(channel).client
     IN IF m.addressed
          THEN \E o \in Outcomes(m, store[c]) :
                 /\ executed' = Append(executed, Result(m, c, o))
                 /\ FlushResults(Collect(Result(m, c, o)), "flush")
          ELSE /\ UNCHANGED executed
               /\ FlushResults(queue, "flush")
  /\ UNCHANGED <<natsVars, cancelled, closed, store, published, failures>>

(* Run takes a dispatch: HandleDispatch executes it, stores the new state  *)
(* and collects the result, and the flush begins.  A dispatch without      *)
(* run_id or wf_id is neither executed nor answered, for the collector     *)
(* refuses its error too.                                                  *)
HandleDispatch ==
  /\ at = "select" /\ channel # <<>>
  /\ channel' = Tail(channel)
  /\ LET m == Head(channel).message
         c == Head(channel).client
     IN IF m.addressed
          THEN \E o \in Outcomes(m, store[c]) :
                 /\ store' = [store EXCEPT ![c] = o.state]
                 /\ executed' = Append(executed, Result(m, c, o))
                 /\ FlushResults(Collect(Result(m, c, o)), "flush")
          ELSE /\ UNCHANGED poolVars
               /\ FlushResults(queue, "flush")
  /\ UNCHANGED <<natsVars, cancelled, closed, published, failures>>

(* Run sees the cancellation and flushes once more.                        *)
Done == /\ at = "select" /\ cancelled
        /\ FlushResults(queue, "final")
        /\ UNCHANGED <<natsVars, channel, cancelled, closed, poolVars, published, failures>>

(* Wrong: Run goes on with the closed channel.                             *)
DrainedGoesOn == /\ at = "select" /\ closed /\ channel = <<>>
                 /\ FlushResults(queue, "flush")
                 /\ UNCHANGED <<natsVars, channel, cancelled, closed, poolVars, published, failures>>

(* Run sees the closed channel first and returns; Shutdown flushes.        *)
Drained == /\ at = "select" /\ closed /\ channel = <<>>
           /\ FlushResults(queue, "shutdown")
           /\ UNCHANGED <<natsVars, channel, cancelled, closed, poolVars, published, failures>>

(* PublishResult of the next result, which may fail.                       *)
PublishResult ==
  /\ Running /\ flushing # <<>>
  /\ flushing' = Tail(flushing)
  /\ \/ /\ published' = Append(published, Head(flushing))
        /\ UNCHANGED <<failed, failures>>
     \/ /\ failures < MaxFailures
        /\ failures' = failures + 1
        /\ failed' = Append(failed, Head(flushing))
        /\ UNCHANGED published
  /\ UNCHANGED <<natsVars, channel, cancelled, closed, at, queue, poolVars>>

(* Wrong: what failed is forgotten.                                        *)
Forget == queue

(* What failed goes back to the head of the queue.                         *)
Remaining == failed \o queue

(* The end of FlushResults, and what Run and Shutdown do next.             *)
EndFlush ==
  /\ flushing = <<>>
  /\ \/ /\ at = "flush"
        /\ at' = "select" /\ queue' = Remaining /\ failed' = <<>>
        /\ UNCHANGED flushing
     \/ at = "final" /\ FlushResults(Remaining, "shutdown")
     \/ /\ at = "shutdown"
        /\ at' = "exited" /\ queue' = Remaining /\ failed' = <<>>
        /\ UNCHANGED flushing
  /\ UNCHANGED <<natsVars, channel, cancelled, closed, poolVars, published, failures>>
-----------------------------------------------------------------------------
Receive(c) == Malformed(c) \/ Enqueue(c) \/ GiveUp(c) \/ SendOnClosed(c)

Run == HandleDispatch \/ Done \/ Drained \/ PublishResult \/ EndFlush

Next == \/ \E c \in Client, m \in Message : SendDispatch(c, m)
        \/ Cancel \/ CloseChannel
        \/ \E c \in Client : Receive(c)
        \/ Run

Spec == Init /\ [][Next]_vars

(* Goroutines that can go on do.  Nobody has to send, or to cancel.        *)
Fairness == /\ \A c \in Client : WF_vars(Receive(c))
            /\ WF_vars(CloseChannel)
            /\ WF_vars(Run)

FairSpec == Spec /\ Fairness
-----------------------------------------------------------------------------
Results == [id : Dispatch, client : Client, status : {"success", "fail", "error"},
            state : ClientState]

(* Every variable has its type, the channel is within its size, and a      *)
(* flush is under way only where the main goroutine flushes.               *)
TypeOK == /\ sub \in [Client -> Seq(Message)]
          /\ channel \in Seq([client : Client, message : Message])
          /\ Len(channel) <= ChannelSize
          /\ cancelled \in BOOLEAN /\ closed \in BOOLEAN
          /\ closed => cancelled
          /\ at \in {"select", "flush", "final", "shutdown", "exited", "crashed"}
          /\ store \in [Client -> ClientState]
          /\ {queue, flushing, failed, published, executed} \subseteq Seq(Results)
          /\ sent \subseteq Dispatch
          /\ failures \in 0..MaxFailures
          /\ at \in {"select", "exited"} => flushing = <<>> /\ failed = <<>>

Ids(results) == {r.id : r \in ToSet(results)}

(* Between its execution and its publication a result is in exactly one    *)
(* place: no flush, failed publication or shutdown loses one or publishes  *)
(* it twice, and nothing is executed twice (FlushResults, Run, Shutdown).  *)
EachResultOnce ==
  LET all == published \o flushing \o failed \o queue
  IN /\ ToSet(all) = ToSet(executed) /\ Len(all) = Len(executed)
     /\ Cardinality(Ids(executed)) = Len(executed)

(* Results are published in the order of execution, and a publication that *)
(* fails once does not change that: it takes a second failure for a later  *)
(* result to overtake (FlushResults goes on after an error).               *)
OrderSurvivesOneFailure ==
  failures <= 1 => published \o failed \o flushing \o queue = executed

(* The state of client c after the last of these results, or a new one.    *)
LastReport(results, c) ==
  LET reports == {i \in DOMAIN results : results[i].client = c}
  IN IF reports = {} THEN NewInnerClient ELSE results[Max(reports)].state

(* Whenever the main goroutine waits with nothing left to publish, the     *)
(* last state the server has been told of each client (first of all by its *)
(* registration) is the state the client is in.  Reordering needs two      *)
(* failures (HandleDispatch, FlushResults).                                *)
ServerKnowsState ==
  at = "select" /\ queue = <<>> /\ failures <= 1 =>
    \A c \in Client : LastReport(published, c) = store[c]

(* README.md:976: for a silent client "all activities appear to succeed    *)
(* but no state change is committed".  That holds of reboots as well, so   *)
(* that from the result that cripples it on, a silent client answers       *)
(* "success" with the same state for ever: nothing can bring it back.      *)
SilentForEver ==
  \A i, j \in DOMAIN executed :
    /\ i < j
    /\ executed[i].client = executed[j].client
    /\ executed[i].state.mode = "silent"
    => /\ executed[j].state = executed[i].state
       /\ executed[j].status \in {"success", "error"}

Waiting(form) == {m \in UNION {ToSet(sub[c]) : c \in Client} : m.form = form /\ m.addressed}

(* As long as nothing fails and nobody stops the process, every dispatch   *)
(* that it can decode is answered, however small the channel.              *)
DispatchAnswered ==
  \A d \in Dispatch :
    (\E m \in Waiting("object") : m.id = d) ~> (d \in Ids(published) \/ cancelled \/ failures > 0)

(* README.md:410-421 is the dispatch as the server sends it, with the name *)
(* of the activity.  The super-client, which declares an object there,     *)
(* never answers one, although it answers an activity it does not know     *)
(* (nats_broker.go with activity.go and the server's dispatch.go).         *)
ServerDispatchUnanswered ==
  \A d \in Dispatch :
    []((\E m \in Waiting("name") : m.id = d) => [](d \notin Ids(published)))

Flushed == failures = 0 => published = executed

(* README.md:956: on a signal the process "cancels the dispatch loop,      *)
(* flushes all pending results to NATS, then exits cleanly".  So it does,  *)
(* unless a callback that still has a dispatch sends it on the channel     *)
(* that has been closed, which ends the process in a panic.                *)
ShutdownFlushesOrPanics == cancelled ~> at = "crashed" \/ (at = "exited" /\ Flushed)
=============================================================================
