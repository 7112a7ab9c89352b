------------------------ MODULE LoopDetection_proofs ------------------------
(***************************************************************************)
(* Proofs about LoopDetection and TriggerCoordination, for any number of   *)
(* workflows, any schedules and clients, and any bounds.                   *)
(***************************************************************************)
EXTENDS LoopDetection, NaturalLemmas, SequenceTheorems

Born(w, rows) == rows[w].state # "unborn"

(* A stack of calls: each is for a later workflow than the one before, and *)
(* those it has yet to come to are later still.                            *)
SoundStack(s, rows) ==
  /\ s \in Seq(Frames)
  /\ \A i, j \in 1..Len(s) : i < j => s[i].of < s[j].of
  /\ \A i \in 1..Len(s) : \A v \in s[i].left : s[i].of < v /\ Born(v, rows)

SoundCall(x, rows) ==
  /\ x \in Calls
  /\ x.at = "idle" <=> x.stack = <<>>
  /\ x.at \in {"create", "publish"} <=> x.w # 0
  /\ SoundStack(x.stack, rows)
  /\ x.w # 0 => Born(x.w, rows) /\ \A i \in 1..Len(x.stack) : x.stack[i].of < x.w

(* The inductive invariant of the trigger loop, but for the due times of   *)
(* runs: the trigger of a workflow names an earlier one, and what          *)
(* CronEvaluator knows of a workflow is a due time after the tick at which *)
(* the workflow was last fired.                                            *)
TInv ==
  /\ TriggerTypeOK
  /\ \A w \in Workflow :
       /\ wf[w].trigger.on < w
       /\ next[w] # NoTime => Born(w, wf)
       /\ fired[w] <= tick
       /\ next[w] # NoTime /\ wf[w].trigger.due # {} =>
            next[w] \in wf[w].trigger.due /\ fired[w] < next[w]
  /\ \A t \in Thread : SoundCall(thread[t], wf)
  /\ \A r \in DOMAIN runs : Born(runs[r].w, wf)

(* Sound calls are well-typed, and chains of them end.                     *)
LEMMA SoundCalls ==
  ASSUME \A t \in Thread : SoundCall(thread[t], wf)
  PROVE  /\ ChainEnds
         /\ \A t \in Thread : /\ thread[t] \in Calls
                              /\ thread[t].at = "idle" <=> thread[t].stack = <<>>
                              /\ thread[t].at \in {"create", "publish"} <=> thread[t].w # 0
<1>1. \A t \in Thread : DOMAIN thread[t].stack = 1..Len(thread[t].stack)
  BY DEF SoundCall, SoundStack
<1>. QED
  BY <1>1 DEF SoundCall, SoundStack, ChainEnds

(* What a stack holds.                                                     *)
LEMMA FramesOf ==
  ASSUME NEW s \in Seq(Frames)
  PROVE  /\ Len(s) \in Nat /\ (s # <<>> => Len(s) \in 1..Len(s))
         /\ \A i \in 1..Len(s) : s[i] \in Frames /\ s[i].of \in Int /\ s[i].left \subseteq Workflow
<1>1. \A f \in Frames : f.of \in Int /\ f.left \subseteq Workflow
  BY DEF Frames
<1>. QED
  BY <1>1

(* A sequence without its last element.                                    *)
LEMMA FrontOfSeq ==
  ASSUME NEW S, NEW s \in Seq(S), s # <<>>
  PROVE  /\ SubSeq(s, 1, Len(s) - 1) \in Seq(S)
         /\ Len(SubSeq(s, 1, Len(s) - 1)) = Len(s) - 1
         /\ \A i \in 1..Len(s) - 1 : SubSeq(s, 1, Len(s) - 1)[i] = s[i]
<1>. DEFINE n == Len(s) - 1
<1>1. n \in Nat /\ \A i \in 1..n : s[i] \in S
  OBVIOUS
<1>. HIDE DEF n
<1>2. PICK m \in Int : m = 1
  OBVIOUS
<1>3. \A i \in m..n : s[i] \in S
  BY <1>1, <1>2
<1>4. /\ SubSeq(s, m, n) \in Seq(S)
      /\ Len(SubSeq(s, m, n)) = IF m <= n THEN n - m + 1 ELSE 0
      /\ \A i \in 1..n - m + 1 : SubSeq(s, m, n)[i] = s[m + i - 1]
  BY <1>1, <1>3, SubSeqProperties, SMT
<1>5. Len(SubSeq(s, m, n)) = n /\ \A i \in 1..n : SubSeq(s, m, n)[i] = s[i]
  BY <1>1, <1>2, <1>4
<1>. QED
  BY <1>2, <1>4, <1>5 DEF n

(* A stack without its last frame, with a frame on top, or with a smaller  *)
(* last frame, is sound.                                                   *)
LEMMA PopSound ==
  ASSUME NEW s, NEW rows, SoundStack(s, rows), s # <<>>
  PROVE  /\ SoundStack(SubSeq(s, 1, Len(s) - 1), rows)
         /\ Len(SubSeq(s, 1, Len(s) - 1)) = Len(s) - 1
         /\ \A i \in 1..Len(s) - 1 : SubSeq(s, 1, Len(s) - 1)[i] = s[i]
<1>. DEFINE r == SubSeq(s, 1, Len(s) - 1)
<1>1. s \in Seq(Frames) /\ Len(s) \in Nat \ {0} /\ \A i \in 1..Len(s) : s[i] \in Frames
  BY DEF SoundStack
<1>2. /\ r \in Seq(Frames) /\ Len(r) = Len(s) - 1
      /\ \A i \in 1..Len(s) - 1 : r[i] = s[i]
  BY <1>1, FrontOfSeq
<1>. HIDE DEF r
<1>3. SoundStack(r, rows)
  BY <1>1, <1>2 DEF SoundStack
<1>. QED
  BY <1>2, <1>3 DEF r

(* Pushing the chained workflows of a younger workflow keeps a stack       *)
(* sound.                                                                  *)
LEMMA PushSound ==
  ASSUME NEW s, NEW rows, SoundStack(s, rows), NEW f \in Frames,
         \A i \in 1..Len(s) : s[i].of < f.of,
         \A v \in f.left : f.of < v /\ Born(v, rows)
  PROVE  SoundStack(Append(s, f), rows) /\ Append(s, f) # <<>>
<1>. DEFINE r == Append(s, f)
<1>1. s \in Seq(Frames) /\ Len(s) \in Nat /\ \A i \in 1..Len(s) : s[i] \in Frames
  BY DEF SoundStack
<1>2. /\ r \in Seq(Frames) /\ Len(r) = Len(s) + 1 /\ r # <<>>
      /\ \A i \in 1..Len(s) : r[i] = s[i]
      /\ r[Len(s) + 1] = f
  BY <1>1, AppendProperties
<1>. HIDE DEF r
<1>3. \A i \in 1..Len(r) : i \in 1..Len(s) \/ i = Len(s) + 1
  BY <1>1, <1>2
<1>4. \A i, j \in 1..Len(r) : i < j => r[i].of < r[j].of
  BY <1>1, <1>2, <1>3 DEF SoundStack
<1>5. \A i \in 1..Len(r) : \A v \in r[i].left : r[i].of < v /\ Born(v, rows)
  BY <1>2, <1>3 DEF SoundStack
<1>. QED
  BY <1>2, <1>4, <1>5 DEF SoundStack, r

(* Taking a workflow off the top of the stack keeps it sound, and its      *)
(* depth and chain as they are.                                            *)
LEMMA TakenSound ==
  ASSUME NEW t \in Thread, NEW w, NEW rows, SoundStack(thread[t].stack, rows),
         thread[t].stack # <<>>
  PROVE  /\ SoundStack(Taken(t, w), rows) /\ Taken(t, w) # <<>>
         /\ Len(Taken(t, w)) = Len(thread[t].stack)
         /\ \A i \in 1..Len(Taken(t, w)) : Taken(t, w)[i].of = thread[t].stack[i].of
<1>. DEFINE s == thread[t].stack
            n == Len(s)
            f == Frame(s[n].of, s[n].left \ {w})
            r == [s EXCEPT ![n] = f]
<1>1. s \in Seq(Frames) /\ n \in Nat \ {0} /\ n \in 1..n /\ \A i \in 1..n : s[i] \in Frames
  BY DEF SoundStack
<1>2. f \in Frames /\ f.of = s[n].of /\ f.left \subseteq s[n].left
  BY <1>1 DEF Frame, Frames
<1>3. /\ r \in Seq(Frames) /\ Len(r) = n
      /\ \A i \in 1..n : r[i] = IF i = n THEN f ELSE s[i]
  BY <1>1, <1>2
<1>4. r # <<>>
  BY <1>1, <1>3
<1>5. Taken(t, w) = r
  BY DEF Taken, Top
<1>6. SoundStack(s, rows)
  OBVIOUS
<1>. HIDE DEF s, n, f, r
<1>7. \A i \in 1..n : r[i].of = s[i].of /\ r[i].left \subseteq s[i].left
  BY <1>2, <1>3
<1>8. SoundStack(r, rows)
  BY <1>1, <1>3, <1>6, <1>7 DEF SoundStack, n
<1>. QED
  BY <1>3, <1>4, <1>5, <1>7, <1>8 DEF s, n
-----------------------------------------------------------------------------
(* What the invariant says of one goroutine.                               *)
LEMMA ThreadFacts ==
  ASSUME TInv, NEW t \in Thread
  PROVE  /\ thread[t] \in Calls /\ SoundStack(thread[t].stack, wf)
         /\ thread[t].at # "idle" => thread[t].stack # <<>>
         /\ thread[t].at \in {"create", "publish"} =>
              /\ thread[t].w \in Workflow /\ Born(thread[t].w, wf)
              /\ \A i \in 1..Len(thread[t].stack) : thread[t].stack[i].of < thread[t].w
<1>1. SoundCall(thread[t], wf)
  BY DEF TInv
<1>2. thread[t].w \in 0..LastWorkflow
  BY <1>1 DEF SoundCall, Calls
<1>. QED
  BY <1>1, <1>2, BoundAssumption DEF SoundCall, Workflow

(* An idle thread, one that walks a list and one that is about to create a *)
(* run are sound.                                                          *)
LEMMA IdleSound ==
  ASSUME NEW rows
  PROVE  SoundCall(Idle, rows)
<1>1. /\ Idle.at = "idle" /\ Idle.stack = <<>> /\ Idle.w = 0
      /\ Idle.due = NoTime /\ Idle.time = 0
  BY DEF Idle
<1>2. SoundStack(<<>>, rows)
  BY DEF SoundStack
<1>3. Idle \in Calls
  BY BoundAssumption DEF Idle, Calls
<1>. QED
  BY <1>1, <1>2, <1>3 DEF SoundCall

(* A goroutine that goes through a sound stack is a sound call.            *)
LEMMA WalkingSound ==
  ASSUME NEW rows, NEW s, SoundStack(s, rows), s # <<>>
  PROVE  SoundCall(Walking(s), rows) /\ Walking(s).due = NoTime
<1>1. /\ Walking(s).at = "walk" /\ Walking(s).stack = s /\ Walking(s).w = 0
      /\ Walking(s).due = NoTime /\ Walking(s).time = 0
  BY DEF Walking, Idle
<1>2. Walking(s) \in Calls
  <2>1. Idle \in Calls
    BY IdleSound DEF SoundCall
  <2>2. s \in Seq(Frames)
    BY DEF SoundStack
  <2>. QED
    BY <2>1, <2>2 DEF Walking, Calls
<1>. QED
  BY <1>1, <1>2 DEF SoundCall

(* Replacing the call of one goroutine by a sound one keeps all of them    *)
(* sound.                                                                  *)
LEMMA StepOfThread ==
  ASSUME TInv, NEW t \in Thread, NEW x, SoundCall(x, wf), thread' = [thread EXCEPT ![t] = x]
  PROVE  thread' \in [Thread -> Calls] /\ \A u \in Thread : SoundCall(thread'[u], wf)
BY DEF TInv, TriggerTypeOK, SoundCall

(* Calling TriggerWorkflow for a workflow younger than all that wait on    *)
(* the stack keeps the goroutines sound.                                   *)
LEMMA CallSound ==
  ASSUME TInv, NEW t \in Thread, NEW w \in Workflow, NEW due \in Nat \cup {NoTime}, NEW s,
         SoundStack(s, wf), s # <<>>, \A i \in 1..Len(s) : s[i].of < w,
         Call(t, w, due, s)
  PROVE  thread' \in [Thread -> Calls] /\ \A u \in Thread : SoundCall(thread'[u], wf)
<1>. DEFINE x == [at |-> "create", stack |-> s, w |-> w, due |-> due, time |-> now]
<1>1. CASE Active(w)
  <2>1. x \in Calls
    BY BoundAssumption DEF Calls, SoundStack, TInv, TriggerTypeOK, Workflow
  <2>2. SoundCall(x, wf)
    BY <1>1, <2>1 DEF SoundCall, Active, Born, Workflow
  <2>3. thread' = [thread EXCEPT ![t] = x]
    BY <1>1 DEF Call
  <2>. QED
    BY <2>1, <2>2, <2>3, StepOfThread
<1>2. CASE ~Active(w)
  <2>1. thread' = [thread EXCEPT ![t] = Walking(s)]
    BY <1>2 DEF Call
  <2>. QED
    BY <2>1, WalkingSound, StepOfThread
<1>. QED
  BY <1>1, <1>2

(* More rows leave a call sound.                                           *)
LEMMA MoreRows ==
  ASSUME NEW x, SoundCall(x, wf), NEW rows, \A w \in Workflow : Born(w, wf) => Born(w, rows)
  PROVE  SoundCall(x, rows)
<1>1. x.w \in 0..LastWorkflow /\ x.stack \in Seq(Frames)
  BY DEF SoundCall, Calls
<1>2. \A i \in 1..Len(x.stack) : x.stack[i].left \subseteq Workflow
  BY <1>1, FramesOf
<1>3. x.w # 0 => Born(x.w, rows)
  BY <1>1, BoundAssumption DEF SoundCall, Workflow
<1>. QED
  BY <1>2, <1>3 DEF SoundCall, SoundStack

(* The workflow that a loop over a list has come to is later than all      *)
(* whose completion led to it.                                             *)
LEMMA Considered ==
  ASSUME TInv, NEW t \in Thread, NEW w \in Workflow, thread[t].at = "walk", First(t, w)
  PROVE  /\ Born(w, wf)
         /\ SoundStack(Taken(t, w), wf) /\ Taken(t, w) # <<>>
         /\ \A i \in 1..Len(Taken(t, w)) : Taken(t, w)[i].of < w
<1>. DEFINE s == thread[t].stack
<1>1. s # <<>> /\ SoundStack(s, wf)
  BY ThreadFacts
<1>2. s \in Seq(Frames) /\ Len(s) \in 1..Len(s) /\ \A i \in 1..Len(s) : s[i].of \in Int
  BY <1>1, FramesOf DEF SoundStack
<1>3. s[Len(s)].of < w /\ Born(w, wf)
  BY <1>1, <1>2 DEF SoundStack, First, Top
<1>4. \A i \in 1..Len(s) : s[i].of < w
  <2>1. ASSUME NEW i \in 1..Len(s), i # Len(s) PROVE s[i].of < s[Len(s)].of
    <3>1. i < Len(s)
      BY <2>1, <1>2
    <3>. QED
      BY <3>1, <1>1, <1>2 DEF SoundStack
  <2>. QED
    BY <2>1, <1>2, <1>3 DEF Workflow
<1>. QED
  BY <1>1, <1>3, <1>4, TakenSound

(* A due time is found whenever there is one.                              *)
LEMMA NextDueIsDue ==
  ASSUME TInv, NEW w \in Workflow
  PROVE  LET d == NextDue(wf[w].trigger.due, tick) IN
         d \in Nat /\ (wf[w].trigger.due # {} => d \in wf[w].trigger.due /\ tick < d)
<1>. DEFINE s == wf[w].trigger.due
            later == {d \in s : d > tick}
<1>1. s \in Schedule \cup {{}}
  BY DEF TInv, TriggerTypeOK, Rows
<1>2. tick \in Nat /\ tick <= MaxTime /\ MaxTime \in Nat
  BY BoundAssumption DEF TInv, TriggerTypeOK
<1>3. CASE s = {}
  BY <1>3 DEF NextDue
<1>4. CASE s # {}
  <2>1. s \subseteq Nat /\ \E d \in s : d > MaxTime
    BY <1>1, <1>4, ScheduleAssumption
  <2>2. later \in SUBSET Nat /\ later # {}
    BY <2>1, <1>2
  <2>3. PICK m \in later : \A n \in later : m <= n
    BY <2>2, LeastOfNat, Zenon
  <2>4. m \in s /\ m > tick /\ \A e \in s : e > tick => m <= e
    BY <2>3
  <2>5. NextDue(s, tick) = CHOOSE d \in s : d > tick /\ \A e \in s : e > tick => d <= e
    BY <1>4 DEF NextDue
  <2>6. NextDue(s, tick) \in s /\ NextDue(s, tick) > tick
    BY <2>4, <2>5, Zenon
  <2>. QED
    BY <2>1, <2>6, <1>2
<1>. QED
  BY <1>3, <1>4

(* The last due time is the latest one that is not after the tick, if      *)
(* there is any.                                                           *)
LEMMA LastDueIsDue ==
  ASSUME TInv, NEW w \in Workflow
  PROVE  LET d == LastDue(wf[w].trigger.due, tick) IN
         /\ d \in Nat \cup {NoTime}
         /\ d # NoTime => d \in wf[w].trigger.due /\ d <= tick
         /\ d # NoTime => \A e \in wf[w].trigger.due : e <= tick => e <= d
<1>. DEFINE s == wf[w].trigger.due
            earlier == {d \in s : d <= tick}
<1>1. s \subseteq Nat
  BY ScheduleAssumption DEF TInv, TriggerTypeOK, Rows
<1>2. tick \in Nat
  BY BoundAssumption DEF TInv, TriggerTypeOK
<1>3. CASE earlier = {}
  <2>1. LastDue(s, tick) = NoTime
    BY <1>3 DEF LastDue
  <2>. QED
    BY <2>1
<1>4. CASE earlier # {}
  <2>1. earlier \in SUBSET Nat /\ \A d \in earlier : d <= tick
    BY <1>1
  <2>2. PICK m \in earlier : \A n \in earlier : n <= m
    BY <2>1, <1>2, <1>4, GreatestOfNat, Zenon
  <2>3. m \in s /\ m <= tick /\ \A e \in s : e <= tick => e <= m
    BY <2>2
  <2>4. LastDue(s, tick) = CHOOSE d \in s : d <= tick /\ \A e \in s : e <= tick => e <= d
    BY <2>3 DEF LastDue
  <2>5. LastDue(s, tick) \in s /\ LastDue(s, tick) <= tick
        /\ \A e \in s : e <= tick => e <= LastDue(s, tick)
    BY <2>3, <2>4, Zenon
  <2>. QED
    BY <1>1, <2>5
<1>. QED
  BY <1>3, <1>4
-----------------------------------------------------------------------------
(* A step of the threads alone keeps the invariant.                        *)
LEMMA ThreadStep ==
  ASSUME TInv, thread' \in [Thread -> Calls], \A t \in Thread : SoundCall(thread'[t], wf'),
         UNCHANGED <<now, wf, next, tick, runs, fired>>, acts' \in 0..MaxActs
  PROVE  TInv'
<1>1. \A t \in Thread : /\ thread'[t].at = "idle" <=> thread'[t].stack = <<>>
                        /\ thread'[t].at \in {"create", "publish"} <=> thread'[t].w # 0
  BY DEF SoundCall
<1>2. TriggerTypeOK'
  BY <1>1 DEF TInv, TriggerTypeOK, Rows, Calls, Runs, Frames
<1>. QED
  BY <1>2 DEF TInv

(* Time passing keeps the invariant.                                       *)
LEMMA PassStep ==
  ASSUME TInv, Pass
  PROVE  TInv'
BY BoundAssumption DEF TInv, TriggerTypeOK, Pass, Born

(* A restart keeps the invariant: all goroutines are idle again and the    *)
(* cron evaluator is empty.                                                *)
LEMMA RestartStep ==
  ASSUME TInv, Restart
  PROVE  TInv'
<1>1. \A t \in Thread : thread'[t] = Idle
  BY DEF Restart
<1>2. \A t \in Thread : SoundCall(thread'[t], wf')
  BY <1>1, IdleSound
<1>3. thread' \in [Thread -> Calls]
  BY IdleSound DEF Restart, SoundCall
<1>4. acts' \in 0..MaxActs
  BY BoundAssumption DEF Restart, Act, TInv, TriggerTypeOK
<1>5. \A w \in Workflow : next'[w] = NoTime
  BY DEF Restart
<1>6. \A t \in Thread : /\ thread'[t].at = "idle" <=> thread'[t].stack = <<>>
                        /\ thread'[t].at \in {"create", "publish"} <=> thread'[t].w # 0
  BY <1>2 DEF SoundCall
<1>7. TriggerTypeOK'
  BY <1>3, <1>4, <1>6 DEF TInv, TriggerTypeOK, Restart
<1>. QED
  BY <1>2, <1>5, <1>7 DEF TInv, Restart

(* A tick keeps the invariant: the loop starts on the scheduled workflows  *)
(* that are active.                                                        *)
LEMMA EvaluateStep ==
  ASSUME TInv, NEW at \in 1..MaxTime, Evaluate(at)
  PROVE  TInv' /\ thread' \in [Thread -> Calls] /\ thread'["loop"].due = NoTime
<1>. DEFINE f == Frame(0, {w \in Workflow : Active(w) /\ wf[w].trigger.kind = "scheduled"})
<1>1. f \in Frames /\ f.of = 0 /\ \A v \in f.left : v \in Workflow /\ f.of < v /\ Born(v, wf)
  BY BoundAssumption DEF Frame, Frames, Active, Born, Workflow
<1>2. SoundStack(<<f>>, wf)
  BY <1>1 DEF SoundStack
<1>3. SoundCall(Walking(<<f>>), wf) /\ Walking(<<f>>).due = NoTime
  BY <1>2, WalkingSound
<1>4. "loop" \in Thread /\ thread' = [thread EXCEPT !["loop"] = Walking(<<f>>)]
  BY DEF Evaluate, Thread
<1>. HIDE DEF f
<1>5. thread' \in [Thread -> Calls] /\ \A u \in Thread : SoundCall(thread'[u], wf)
  BY <1>3, <1>4, StepOfThread, Zenon
<1>6. \A t \in Thread : /\ thread'[t].at = "idle" <=> thread'[t].stack = <<>>
                        /\ thread'[t].at \in {"create", "publish"} <=> thread'[t].w # 0
  BY <1>5 DEF SoundCall
<1>7. tick' \in 0..now /\ tick <= tick' /\ now \in Nat /\ tick \in Nat
  BY BoundAssumption DEF Evaluate, TInv, TriggerTypeOK
<1>8. TriggerTypeOK'
  BY <1>5, <1>6, <1>7 DEF TInv, TriggerTypeOK, Evaluate
<1>9. \A w \in Workflow : fired'[w] <= tick'
  BY <1>7, BoundAssumption DEF TInv, TriggerTypeOK, Evaluate
<1>10. TInv'
  BY <1>5, <1>8, <1>9 DEF TInv, Evaluate
<1>. QED
  BY <1>3, <1>4, <1>5, <1>10 DEF TInv, TriggerTypeOK

(* Considering the next scheduled workflow keeps the goroutines sound.     *)
LEMMA TakenStep ==
  ASSUME TInv, NEW w \in Workflow, Consider(w),
         thread' = [thread EXCEPT !["loop"].stack = Taken("loop", w)]
  PROVE  thread' \in [Thread -> Calls] /\ \A u \in Thread : SoundCall(thread'[u], wf)
<1>. DEFINE x == [thread["loop"] EXCEPT !.stack = Taken("loop", w)]
<1>1. "loop" \in Thread /\ thread["loop"].at = "walk" /\ First("loop", w)
  BY DEF Consider, Thread
<1>2. SoundStack(Taken("loop", w), wf) /\ Taken("loop", w) # <<>>
  BY <1>1, Considered
<1>3. SoundCall(thread["loop"], wf) /\ thread["loop"] \in Calls
  BY <1>1 DEF TInv, SoundCall
<1>4. x \in Calls /\ x.at = "walk" /\ x.stack = Taken("loop", w) /\ x.w = thread["loop"].w
  BY <1>1, <1>2, <1>3 DEF Calls, SoundStack
<1>5. thread' = [thread EXCEPT !["loop"] = x]
  BY <1>1 DEF TInv, TriggerTypeOK
<1>. HIDE DEF x
<1>6. x.w = 0
  BY <1>1, <1>3, <1>4 DEF SoundCall
<1>7. SoundCall(x, wf)
  BY <1>2, <1>4, <1>6 DEF SoundCall
<1>. QED
  BY <1>1, <1>5, <1>7, StepOfThread, Zenon

(* The first look at a schedule keeps the invariant.                       *)
LEMMA SeedStep ==
  ASSUME TInv, NEW w \in Workflow, Seed(w)
  PROVE  TInv'
<1>1. Consider(w) /\ thread' = [thread EXCEPT !["loop"].stack = Taken("loop", w)]
  BY DEF Seed
<1>2. thread' \in [Thread -> Calls] /\ \A t \in Thread : SoundCall(thread'[t], wf)
  BY <1>1, TakenStep
<1>3. \A t \in Thread : /\ thread'[t].at = "idle" <=> thread'[t].stack = <<>>
                        /\ thread'[t].at \in {"create", "publish"} <=> thread'[t].w # 0
  BY <1>2 DEF SoundCall
<1>4. Born(w, wf)
  BY <1>1, Considered DEF Consider, Thread
<1>. DEFINE d == NextDue(wf[w].trigger.due, tick)
<1>5. d \in Nat /\ (wf[w].trigger.due # {} => d \in wf[w].trigger.due /\ tick < d)
  BY NextDueIsDue
<1>6. next' = [next EXCEPT ![w] = d]
  BY DEF Seed
<1>. HIDE DEF d
<1>7. TriggerTypeOK'
  BY <1>2, <1>3, <1>5, <1>6 DEF Seed, TInv, TriggerTypeOK
<1>8. next' \in [Workflow -> Nat \cup {NoTime}] /\ \A x \in Workflow : next'[x] = IF x = w THEN d ELSE next[x]
  BY <1>5, <1>6 DEF TInv, TriggerTypeOK
<1>9. fired[w] < d \/ wf[w].trigger.due = {}
  BY <1>5, BoundAssumption DEF TInv, TriggerTypeOK
<1>. QED
  BY <1>2, <1>4, <1>5, <1>7, <1>8, <1>9 DEF Seed, TInv

(* A schedule that is not due keeps the invariant.                         *)
LEMMA NotYetStep ==
  ASSUME TInv, NEW w \in Workflow, NotYet(w)
  PROVE  TInv'
<1>1. thread' \in [Thread -> Calls] /\ \A t \in Thread : SoundCall(thread'[t], wf)
  BY TakenStep DEF NotYet
<1>. QED
  BY <1>1, ThreadStep DEF NotYet, TInv, TriggerTypeOK

(* What is due: the last due time, which is after the tick at which the    *)
(* workflow was last fired.                                                *)
LEMMA FireIsDue ==
  ASSUME TInv, NEW w \in Workflow, Fire(w)
  PROVE  LET d == LastDue(wf[w].trigger.due, tick) IN
         /\ d \in Nat \cup {NoTime}
         /\ wf[w].trigger.due # {} => d # NoTime
         /\ d # NoTime => d \in wf[w].trigger.due /\ fired[w] < d /\ d <= tick
<1>. DEFINE s == wf[w].trigger.due
            d == LastDue(s, tick)
<1>1. /\ d \in Nat \cup {NoTime}
      /\ d # NoTime => d \in s /\ d <= tick
      /\ d # NoTime => \A e \in s : e <= tick => e <= d
  BY LastDueIsDue
<1>2. /\ s # {} => next[w] \in s /\ fired[w] < next[w] /\ next[w] <= tick
      /\ next[w] \in Nat /\ tick \in Nat /\ fired[w] \in Nat
  BY BoundAssumption DEF Fire, TInv, TriggerTypeOK
<1>3. s # {} => d # NoTime
  <2>1. ASSUME s # {} PROVE \E e \in s : e <= tick
    BY <2>1, <1>2
  <2>2. ASSUME NEW e \in s, e <= tick PROVE d # NoTime
    <3>1. s \subseteq Nat /\ NoTime \notin Nat
      BY ScheduleAssumption DEF TInv, TriggerTypeOK, Rows
    <3>2. {x \in s : x <= tick} \in SUBSET Nat /\ {x \in s : x <= tick} # {}
          /\ \A x \in {y \in s : y <= tick} : x <= tick
      BY <3>1, <2>2
    <3>3. PICK m \in {x \in s : x <= tick} : \A n \in {x \in s : x <= tick} : n <= m
      BY <3>2, <1>2, GreatestOfNat, Zenon
    <3>4. m \in s /\ m <= tick /\ \A x \in s : x <= tick => x <= m
      BY <3>3
    <3>5. d = CHOOSE x \in s : x <= tick /\ \A y \in s : y <= tick => y <= x
      BY <2>2 DEF LastDue
    <3>6. d \in s
      BY <3>4, <3>5, Zenon
    <3>. QED
      BY <3>1, <3>6
  <2>. QED
    BY <2>1, <2>2
<1>4. d # NoTime => s # {} /\ fired[w] < d
  BY <1>1, <1>2
<1>. QED
  BY <1>1, <1>3, <1>4

(* A schedule that is due keeps the invariant: it is called for a due time *)
(* later than the last one.                                                *)
LEMMA FireStep ==
  ASSUME TInv, NEW w \in Workflow, Fire(w)
  PROVE  TInv'
<1>. DEFINE due == LastDue(wf[w].trigger.due, tick)
            d   == NextDue(wf[w].trigger.due, tick)
<1>1. Consider(w) /\ "loop" \in Thread /\ thread["loop"].at = "walk" /\ First("loop", w)
  BY DEF Fire, Consider, Thread
<1>2. due \in Nat \cup {NoTime}
  BY FireIsDue
<1>3. /\ Born(w, wf)
      /\ SoundStack(Taken("loop", w), wf) /\ Taken("loop", w) # <<>>
      /\ \A i \in 1..Len(Taken("loop", w)) : Taken("loop", w)[i].of < w
  BY <1>1, Considered
<1>4. Call("loop", w, due, Taken("loop", w))
  BY DEF Fire
<1>5. thread' \in [Thread -> Calls] /\ \A u \in Thread : SoundCall(thread'[u], wf)
  BY <1>1, <1>2, <1>3, <1>4, CallSound
<1>6. \A t \in Thread : /\ thread'[t].at = "idle" <=> thread'[t].stack = <<>>
                        /\ thread'[t].at \in {"create", "publish"} <=> thread'[t].w # 0
  BY <1>5 DEF SoundCall
<1>7. d \in Nat /\ (wf[w].trigger.due # {} => d \in wf[w].trigger.due /\ tick < d)
  BY NextDueIsDue
<1>8. next' = [next EXCEPT ![w] = d] /\ fired' = [fired EXCEPT ![w] = tick]
      /\ UNCHANGED <<now, wf, tick, runs, acts>>
  BY DEF Fire
<1>. HIDE DEF d, due
<1>9. tick \in Nat /\ tick <= now /\ now \in Nat /\ now <= MaxTime /\ MaxTime \in Nat
  BY BoundAssumption DEF TInv, TriggerTypeOK
<1>10. next' \in [Workflow -> Nat \cup {NoTime}] /\ fired' \in [Workflow -> 0..MaxTime]
  BY <1>7, <1>8, <1>9 DEF TInv, TriggerTypeOK
<1>11. TriggerTypeOK'
  BY <1>5, <1>6, <1>8, <1>10 DEF TInv, TriggerTypeOK
<1>12. \A x \in Workflow : /\ next'[x] = IF x = w THEN d ELSE next[x]
                           /\ fired'[x] = IF x = w THEN tick ELSE fired[x]
  BY <1>8 DEF TInv, TriggerTypeOK
<1>. QED
  BY <1>3, <1>5, <1>7, <1>8, <1>9, <1>11, <1>12 DEF TInv

(* A trigger request over HTTP keeps the invariant.                        *)
LEMMA RequestStep ==
  ASSUME TInv, NEW w \in Workflow, Request(w)
  PROVE  TInv'
<1>. DEFINE s == <<Frame(0, {})>>
<1>1. Frame(0, {}) \in Frames /\ Frame(0, {}).of = 0 /\ Frame(0, {}).left = {}
  BY BoundAssumption DEF Frame, Frames
<1>2. SoundStack(s, wf) /\ s # <<>> /\ \A i \in 1..Len(s) : s[i].of < w
  BY <1>1 DEF SoundStack, Workflow
<1>3. Call("api", w, NoTime, s) /\ "api" \in Thread
  BY DEF Request, Thread
<1>. HIDE DEF s
<1>4. thread' \in [Thread -> Calls] /\ \A u \in Thread : SoundCall(thread'[u], wf)
  BY <1>2, <1>3, CallSound
<1>5. acts' \in 0..MaxActs
  BY BoundAssumption DEF Request, Act, TInv, TriggerTypeOK
<1>. QED
  BY <1>4, <1>5, ThreadStep DEF Request

(* Triggering a chained workflow keeps the invariant: it is younger than   *)
(* the one it waited for.                                                  *)
LEMMA FireChildStep ==
  ASSUME TInv, NEW t \in Thread, NEW w \in Workflow, FireChild(t, w)
  PROVE  TInv'
<1>1. thread[t].at = "walk" /\ First(t, w) /\ Call(t, w, NoTime, Taken(t, w))
  BY DEF FireChild
<1>2. /\ SoundStack(Taken(t, w), wf) /\ Taken(t, w) # <<>>
      /\ \A i \in 1..Len(Taken(t, w)) : Taken(t, w)[i].of < w
  BY <1>1, Considered
<1>3. thread' \in [Thread -> Calls] /\ \A u \in Thread : SoundCall(thread'[u], wf)
  BY <1>1, <1>2, CallSound
<1>. QED
  BY <1>3, ThreadStep DEF FireChild, TInv, TriggerTypeOK

(* Creating a run keeps the invariant: runs are appended in the order of   *)
(* their times.                                                            *)
LEMMA CreateRunStep ==
  ASSUME TInv, NEW t \in Thread, NEW C \in SUBSET Client, CreateRun(t, C)
  PROVE  TInv'
<1>. DEFINE x == [thread[t] EXCEPT !.at = "publish"]
            r == [w |-> thread[t].w, type |-> wf[thread[t].w].type,
                  time |-> thread[t].time, due |-> thread[t].due, clients |-> C]
<1>1. thread[t].at = "create" /\ thread' = [thread EXCEPT ![t].at = "publish"] /\ runs' = Append(runs, r)
  BY DEF CreateRun
<1>2. thread[t] \in Calls /\ thread[t].w \in Workflow /\ Born(thread[t].w, wf) /\ SoundCall(thread[t], wf)
  BY <1>1, ThreadFacts DEF TInv
<1>3. thread' = [thread EXCEPT ![t] = x]
  BY <1>1 DEF TInv, TriggerTypeOK
<1>4. SoundCall(x, wf)
  <2>1. x \in Calls /\ x.at = "publish" /\ x.stack = thread[t].stack /\ x.w = thread[t].w
    BY <1>2 DEF Calls
  <2>. QED
    BY <1>1, <1>2, <2>1 DEF SoundCall
<1>5. thread' \in [Thread -> Calls] /\ \A u \in Thread : SoundCall(thread'[u], wf)
  BY <1>3, <1>4, StepOfThread, Zenon
<1>6. \A u \in Thread : /\ thread'[u].at = "idle" <=> thread'[u].stack = <<>>
                        /\ thread'[u].at \in {"create", "publish"} <=> thread'[u].w # 0
  BY <1>5 DEF SoundCall
<1>7. r \in Runs /\ r.w = thread[t].w
  BY <1>2 DEF Runs, Calls, TInv, TriggerTypeOK, Rows
<1>. HIDE DEF r, x
<1>8. /\ runs' \in Seq(Runs) /\ DOMAIN runs' = 1..Len(runs) + 1
      /\ \A i \in 1..Len(runs) : runs'[i] = runs[i]
      /\ runs'[Len(runs) + 1] = r /\ Len(runs) \in Nat /\ DOMAIN runs = 1..Len(runs)
  BY <1>1, <1>7, AppendProperties DEF TInv, TriggerTypeOK
<1>9. TriggerTypeOK'
  BY <1>5, <1>6, <1>8 DEF CreateRun, TInv, TriggerTypeOK
<1>10. \A i \in DOMAIN runs' : Born(runs'[i].w, wf)
  <2>1. \A i \in DOMAIN runs' : i \in 1..Len(runs) \/ i = Len(runs) + 1
    BY <1>8
  <2>. QED
    BY <2>1, <1>2, <1>7, <1>8 DEF TInv
<1>. QED
  BY <1>5, <1>9, <1>10 DEF CreateRun, TInv

(* A trigger that fails keeps the invariant, whether its run is stored or  *)
(* not.                                                                    *)
LEMMA TriggerFailsStep ==
  ASSUME TInv, NEW t \in Thread, TriggerFails(t)
  PROVE  TInv'
<1>1. thread[t].at \in {"create", "publish"} /\ thread' = [thread EXCEPT ![t] = Walking(thread[t].stack)]
  BY DEF TriggerFails
<1>2. SoundStack(thread[t].stack, wf) /\ thread[t].stack # <<>>
  BY <1>1, ThreadFacts
<1>3. SoundCall(Walking(thread[t].stack), wf)
  BY <1>2, WalkingSound
<1>4. thread' \in [Thread -> Calls] /\ \A u \in Thread : SoundCall(thread'[u], wf)
  BY <1>1, <1>3, StepOfThread, Zenon
<1>. QED
  BY <1>4, ThreadStep DEF TriggerFails, TInv, TriggerTypeOK

(* Publishing workflow.completed keeps the invariant: the handlers are     *)
(* pushed above the workflow.                                              *)
LEMMA PublishStep ==
  ASSUME TInv, NEW t \in Thread, Publish(t)
  PROVE  TInv'
<1>. DEFINE w == thread[t].w
            children == {x \in Workflow : Active(x) /\ wf[x].trigger = OnComplete(w)}
            s == Append(thread[t].stack, Frame(w, children))
<1>1. thread[t].at = "publish" /\ thread' = [thread EXCEPT ![t] = Walking(s)]
  BY DEF Publish
<1>2. /\ SoundStack(thread[t].stack, wf)
      /\ w \in Workflow /\ Born(w, wf)
      /\ \A i \in 1..Len(thread[t].stack) : thread[t].stack[i].of < w
  BY <1>1, ThreadFacts
<1>3. \A v \in children : w < v /\ Born(v, wf)
  BY DEF TInv, OnComplete, Active, Born
<1>4. Frame(w, children) \in Frames /\ Frame(w, children).of = w /\ Frame(w, children).left = children
  BY <1>2, BoundAssumption DEF Frame, Frames, Workflow
<1>. HIDE DEF w, children
<1>5. SoundStack(s, wf) /\ s # <<>>
  BY <1>2, <1>3, <1>4, PushSound
<1>. HIDE DEF s
<1>6. thread' \in [Thread -> Calls] /\ \A u \in Thread : SoundCall(thread'[u], wf)
  BY <1>1, <1>5, WalkingSound, StepOfThread, Zenon
<1>. QED
  BY <1>6, ThreadStep DEF Publish, TInv, TriggerTypeOK

(* Returning from the handlers of an event keeps the invariant.            *)
LEMMA ReturnStep ==
  ASSUME TInv, NEW t \in Thread, Return(t)
  PROVE  TInv'
<1>. DEFINE rest == SubSeq(thread[t].stack, 1, Len(thread[t].stack) - 1)
            x == IF rest = <<>> THEN Idle ELSE Walking(rest)
<1>1. thread[t].at = "walk" /\ thread' = [thread EXCEPT ![t] = x]
  BY DEF Return
<1>2. SoundStack(thread[t].stack, wf) /\ thread[t].stack # <<>>
  BY <1>1, ThreadFacts
<1>3. SoundStack(rest, wf)
  BY <1>2, PopSound
<1>. HIDE DEF rest
<1>4. SoundCall(x, wf)
  BY <1>3, IdleSound, WalkingSound
<1>. HIDE DEF x
<1>5. thread' \in [Thread -> Calls] /\ \A u \in Thread : SoundCall(thread'[u], wf)
  BY <1>1, <1>4, StepOfThread, Zenon
<1>. QED
  BY <1>5, ThreadStep DEF Return, TInv, TriggerTypeOK

(* What a row of table runs holds.                                         *)
LEMMA RunRows ==
  ASSUME TInv
  PROVE  \A r \in DOMAIN runs : /\ r \in 1..Len(runs) /\ runs[r] \in Runs
                                /\ runs[r].w \in Workflow /\ runs[r].type \in Type \cup {""}
                                /\ runs[r].time \in 0..MaxTime /\ runs[r].due \in Nat \cup {NoTime}
<1>1. runs \in Seq(Runs)
  BY DEF TInv, TriggerTypeOK
<1>2. \A r \in DOMAIN runs : r \in 1..Len(runs) /\ runs[r] \in Runs
  BY <1>1
<1>. QED
  BY <1>2 DEF Runs

(* A step that leaves all but the rows alone keeps the invariant if it     *)
(* keeps the triggers of the workflows there are.                          *)
LEMMA RowsStep ==
  ASSUME TInv, wf' \in [Workflow -> Rows], \A w \in Workflow : wf'[w].trigger.on < w,
         \A w \in Workflow : Born(w, wf) => Born(w, wf') /\ wf'[w].trigger = wf[w].trigger,
         UNCHANGED <<now, next, tick, thread, runs, fired>>, acts' \in 0..MaxActs
  PROVE  TInv'
<1>1. TriggerTypeOK'
  BY DEF TInv, TriggerTypeOK
<1>2. \A t \in Thread : SoundCall(thread'[t], wf')
  BY MoreRows DEF TInv
<1>3. \A r \in DOMAIN runs' : Born(runs'[r].w, wf')
  BY RunRows DEF TInv
<1>. QED
  BY <1>1, <1>2, <1>3 DEF TInv

(* Creating a workflow keeps the invariant, for it can only name an older  *)
(* one, and changes no row.                                                *)
LEMMA CreateWorkflowStep ==
  ASSUME TInv, NEW w \in Workflow, NEW type \in Type, NEW s \in Schedule, CreateWorkflow(w, type, s)
  PROVE  TInv' /\ \A v \in Workflow : Born(v, wf) => wf'[v] = wf[v]
<1>1. PICK trigger \in {Manual, Scheduled(s)} \cup {OnComplete(v) : v \in 1..(w - 1)} :
        wf' = [wf EXCEPT ![w] = [state |-> "active", type |-> type, trigger |-> trigger]]
  BY DEF CreateWorkflow
<1>2. /\ trigger \in [kind : {"manual", "scheduled", "event"}, due : Schedule \cup {{}}, on : 0..LastWorkflow]
      /\ trigger.on < w
  BY BoundAssumption DEF Manual, Scheduled, OnComplete, Workflow
<1>. DEFINE row == [state |-> "active", type |-> type, trigger |-> trigger]
<1>3. row \in Rows /\ row.state = "active" /\ row.trigger = trigger
  BY <1>2 DEF Rows
<1>. HIDE DEF row
<1>4. wf' = [wf EXCEPT ![w] = row]
  BY <1>1 DEF row
<1>5. wf' \in [Workflow -> Rows] /\ \A v \in Workflow : wf'[v] = IF v = w THEN row ELSE wf[v]
  BY <1>3, <1>4 DEF TInv, TriggerTypeOK
<1>6. ~Born(w, wf)
  BY DEF CreateWorkflow, Born
<1>7. acts' \in 0..MaxActs
  BY BoundAssumption DEF CreateWorkflow, Act, TInv, TriggerTypeOK
<1>8. \A v \in Workflow : Born(v, wf) => wf'[v] = wf[v]
  BY <1>5, <1>6
<1>9. \A v \in Workflow : wf'[v].trigger.on < v
  BY <1>2, <1>3, <1>5 DEF TInv
<1>10. \A v \in Workflow : Born(v, wf) => Born(v, wf') /\ wf'[v].trigger = wf[v].trigger
  BY <1>8 DEF Born
<1>. QED
  BY <1>5, <1>7, <1>8, <1>9, <1>10, RowsStep DEF CreateWorkflow

(* Activating, deactivating and deleting keep the invariant, and every     *)
(* trigger and type as they are.                                           *)
LEMMA SetStateStep ==
  ASSUME TInv, NEW w \in Workflow, NEW state \in {"active", "inactive", "deleted"}, SetState(w, state)
  PROVE  TInv' /\ \A v \in Workflow : wf'[v].trigger = wf[v].trigger /\ wf'[v].type = wf[v].type
<1>. DEFINE row == [wf[w] EXCEPT !.state = state]
<1>1. wf' = [wf EXCEPT ![w] = row]
  BY DEF SetState, TInv, TriggerTypeOK
<1>2. /\ row \in Rows /\ row.trigger = wf[w].trigger /\ row.state # "unborn" /\ row.type = wf[w].type
  BY DEF TInv, TriggerTypeOK, Rows
<1>. HIDE DEF row
<1>3. wf' \in [Workflow -> Rows] /\ \A v \in Workflow : wf'[v] = IF v = w THEN row ELSE wf[v]
  BY <1>1, <1>2 DEF TInv, TriggerTypeOK
<1>4. acts' \in 0..MaxActs
  BY BoundAssumption DEF SetState, Act, TInv, TriggerTypeOK
<1>5. \A v \in Workflow : /\ wf'[v].trigger = wf[v].trigger /\ wf'[v].type = wf[v].type
                          /\ Born(v, wf) => Born(v, wf')
  BY <1>2, <1>3 DEF Born
<1>6. \A v \in Workflow : wf'[v].trigger.on < v
  BY <1>5 DEF TInv
<1>. QED
  BY <1>3, <1>4, <1>5, <1>6, RowsStep DEF SetState
-----------------------------------------------------------------------------
(* The invariant of the triggers holds initially.                          *)
LEMMA TInit == Init => TInv
<1>. SUFFICES ASSUME Init PROVE TInv
  OBVIOUS
<1>1. \A t \in Thread : thread[t] = Idle /\ SoundCall(thread[t], wf)
  BY IdleSound DEF Init
<1>2. thread \in [Thread -> Calls]
  BY IdleSound DEF Init, SoundCall
<1>3. \A t \in Thread : /\ thread[t].at = "idle" <=> thread[t].stack = <<>>
                        /\ thread[t].at \in {"create", "publish"} <=> thread[t].w # 0
  BY <1>1 DEF SoundCall
<1>4. wf \in [Workflow -> Rows] /\ \A w \in Workflow : wf[w].trigger.on = 0
  <2>1. [state |-> "unborn", type |-> "", trigger |-> Manual] \in Rows
    BY BoundAssumption DEF Rows, Manual
  <2>. QED
    BY <2>1 DEF Init, Manual
<1>5. /\ MaxTime \in Nat /\ MaxTime >= 1 /\ MaxActs \in Nat
      /\ now = 1 /\ tick = 0 /\ acts = 0 /\ runs = <<>>
  <2>1. MaxTime \in Nat \ {0} /\ MaxActs \in Nat
    BY BoundAssumption
  <2>2. MaxTime >= 1
    BY <2>1
  <2>3. now = 1 /\ tick = 0 /\ acts = 0 /\ runs = <<>>
    BY DEF Init
  <2>. QED
    BY <2>1, <2>2, <2>3
<1>6. /\ now \in 1..MaxTime /\ tick \in 0..now /\ acts \in 0..MaxActs /\ runs \in Seq(Runs)
      /\ next \in [Workflow -> Nat \cup {NoTime}] /\ \A w \in Workflow : next[w] = NoTime
      /\ fired \in [Workflow -> 0..MaxTime] /\ \A w \in Workflow : fired[w] = 0
  <2>1. now \in 1..MaxTime /\ tick \in 0..now /\ acts \in 0..MaxActs /\ runs \in Seq(Runs)
    BY <1>5
  <2>2. 0 \in 0..MaxTime
    BY <1>5
  <2>. QED
    BY <2>1, <2>2 DEF Init
<1>7. TriggerTypeOK
  BY <1>2, <1>3, <1>4, <1>6 DEF TriggerTypeOK
<1>8. \A w \in Workflow : wf[w].trigger.on < w /\ fired[w] <= tick
  BY <1>4, <1>5, <1>6 DEF Workflow
<1>. QED
  BY <1>1, <1>5, <1>6, <1>7, <1>8 DEF TInv

(* Every step of the triggers keeps their invariant.                       *)
LEMMA TNext ==
  ASSUME TInv, [TriggerNext]_vars
  PROVE  TInv'
<1>1. ASSUME UNCHANGED vars PROVE TInv'
  <2>. USE <1>1 DEF vars
  <2>1. TriggerTypeOK'
    BY DEF TInv, TriggerTypeOK
  <2>2. \A t \in Thread : SoundCall(thread'[t], wf')
    BY DEF TInv
  <2>3. \A r \in DOMAIN runs' : Born(runs'[r].w, wf')
    BY DEF TInv
  <2>. QED
    BY <2>1, <2>2, <2>3 DEF TInv
<1>2. ASSUME NEW t \in Thread, Trigger(t) PROVE TInv'
  BY <1>2, FireChildStep, TriggerFailsStep, PublishStep, ReturnStep, CreateRunStep DEF Trigger
<1>. QED
  BY <1>1, <1>2, PassStep, RestartStep, EvaluateStep, SeedStep, NotYetStep, FireStep, RequestStep,
     CreateWorkflowStep, SetStateStep DEF TriggerNext
-----------------------------------------------------------------------------
(* The inductive invariant of due times: a run that the schedule made has  *)
(* a due time of its workflow, which has passed, of its own.               *)
DueInv ==
  /\ \A r \in DOMAIN runs : runs[r].due # NoTime =>
       /\ runs[r].due \in wf[runs[r].w].trigger.due
       /\ runs[r].due <= fired[runs[r].w] /\ runs[r].due <= runs[r].time
  /\ \A r, q \in DOMAIN runs :
       r # q /\ runs[r].w = runs[q].w /\ runs[r].due # NoTime => runs[r].due # runs[q].due
  /\ \A t \in Thread : thread[t].due # NoTime =>
       /\ t = "loop" /\ thread[t].at \in {"create", "publish"}
       /\ thread[t].due \in wf[thread[t].w].trigger.due
       /\ thread[t].due <= fired[thread[t].w] /\ thread[t].due <= thread[t].time
       /\ thread[t].at = "create" =>
            \A r \in DOMAIN runs : runs[r].w = thread[t].w => runs[r].due # thread[t].due

(* A step that creates no run, fires nothing and keeps the triggers keeps  *)
(* what is known of due times.                                             *)
LEMMA DueKept ==
  ASSUME TInv, DueInv, runs' = runs, fired' = fired,
         \A v \in Workflow : Born(v, wf) => wf'[v].trigger = wf[v].trigger,
         \A t \in Thread : \/ thread'[t].due = NoTime
                           \/ /\ thread'[t].at = thread[t].at /\ thread'[t].w = thread[t].w
                              /\ thread'[t].due = thread[t].due /\ thread'[t].time = thread[t].time
  PROVE  DueInv'
<1>1. \A r \in DOMAIN runs : wf'[runs[r].w].trigger = wf[runs[r].w].trigger
  BY RunRows DEF TInv
<1>2. \A t \in Thread : thread[t].at \in {"create", "publish"} =>
        wf'[thread[t].w].trigger = wf[thread[t].w].trigger
  BY ThreadFacts
<1>. QED
  BY <1>1, <1>2 DEF DueInv

(* Firing a schedule keeps what is known of due times: the due time was    *)
(* not fired before.                                                       *)
LEMMA DueFire ==
  ASSUME TInv, DueInv, NEW w \in Workflow, Fire(w)
  PROVE  DueInv'
<1>. DEFINE d == LastDue(wf[w].trigger.due, tick)
            x == [at |-> "create", stack |-> Taken("loop", w), w |-> w, due |-> d, time |-> now]
<1>1. /\ d \in Nat \cup {NoTime}
      /\ d # NoTime => d \in wf[w].trigger.due /\ fired[w] < d /\ d <= tick
  BY FireIsDue
<1>2. thread' = [thread EXCEPT !["loop"] = IF Active(w) THEN x ELSE Walking(Taken("loop", w))]
  BY DEF Fire, Call
<1>3. Walking(Taken("loop", w)).due = NoTime
  BY DEF Walking, Idle
<1>4. /\ \A t \in Thread : t # "loop" => thread'[t] = thread[t]
      /\ thread'["loop"] = x \/ thread'["loop"].due = NoTime
  BY <1>2, <1>3 DEF TInv, TriggerTypeOK, Thread
<1>5. x.at = "create" /\ x.w = w /\ x.due = d /\ x.time = now
  OBVIOUS
<1>6. runs' = runs /\ wf' = wf /\ fired' = [fired EXCEPT ![w] = tick] /\ fired[w] <= tick
  BY DEF Fire, TInv
<1>7. fired \in [Workflow -> Nat] /\ tick \in Nat /\ tick <= now /\ now \in Nat
  BY BoundAssumption DEF TInv, TriggerTypeOK
<1>. HIDE DEF d, x
<1>8. \A r \in DOMAIN runs : /\ runs[r].w \in Workflow /\ runs[r].due \in Nat \cup {NoTime}
                             /\ runs[r].time \in Nat
  <2>1. 0..MaxTime \subseteq Nat
    OBVIOUS
  <2>. QED
    BY <2>1, RunRows, Zenon
<1>9. \A r \in DOMAIN runs : runs[r].due # NoTime => runs[r].due <= fired'[runs[r].w]
  <2>1. \A v \in Workflow : fired[v] <= fired'[v] /\ fired'[v] \in Nat /\ fired[v] \in Nat
    BY <1>6, <1>7
  <2>. QED
    BY <1>8, <2>1 DEF DueInv
<1>10. d # NoTime => \A r \in DOMAIN runs : runs[r].w = w => runs[r].due # d
  BY <1>1, <1>7, <1>8 DEF DueInv
<1>11. d # NoTime => d <= fired'[w] /\ d <= now
  BY <1>1, <1>6, <1>7
<1>. QED
  BY <1>1, <1>4, <1>5, <1>6, <1>9, <1>10, <1>11 DEF DueInv

(* Creating a run keeps what is known of due times: the due time passes    *)
(* from the goroutine to the run.                                          *)
LEMMA DueCreateRun ==
  ASSUME TInv, DueInv, NEW t \in Thread, NEW C \in SUBSET Client, CreateRun(t, C)
  PROVE  DueInv'
<1>. DEFINE r == [w |-> thread[t].w, type |-> wf[thread[t].w].type,
                  time |-> thread[t].time, due |-> thread[t].due, clients |-> C]
            n == Len(runs) + 1
<1>1. /\ thread[t].at = "create" /\ thread' = [thread EXCEPT ![t].at = "publish"]
      /\ runs' = Append(runs, r) /\ wf' = wf /\ fired' = fired
  BY DEF CreateRun
<1>2. r.w = thread[t].w /\ r.due = thread[t].due /\ r.time = thread[t].time
  OBVIOUS
<1>. HIDE DEF r
<1>3. /\ DOMAIN runs' = (DOMAIN runs) \cup {n} /\ n \notin DOMAIN runs
      /\ runs'[n] = r /\ \A i \in DOMAIN runs : runs'[i] = runs[i]
  BY <1>1 DEF TInv, TriggerTypeOK
<1>. HIDE DEF n
<1>4. \A u \in Thread : /\ thread'[u].w = thread[u].w /\ thread'[u].due = thread[u].due
                        /\ thread'[u].time = thread[u].time
                        /\ thread'[u].at = IF u = t THEN "publish" ELSE thread[u].at
  BY <1>1 DEF TInv, TriggerTypeOK, Calls
<1>5. ASSUME NEW i \in DOMAIN runs', runs'[i].due # NoTime
      PROVE  /\ runs'[i].due \in wf'[runs'[i].w].trigger.due
             /\ runs'[i].due <= fired'[runs'[i].w] /\ runs'[i].due <= runs'[i].time
  BY <1>1, <1>2, <1>3, <1>5 DEF DueInv
<1>6. ASSUME NEW i \in DOMAIN runs', NEW q \in DOMAIN runs',
             i # q, runs'[i].w = runs'[q].w, runs'[i].due # NoTime
      PROVE  runs'[i].due # runs'[q].due
  BY <1>1, <1>2, <1>3, <1>6 DEF DueInv
<1>7. ASSUME NEW u \in Thread, thread'[u].due # NoTime
      PROVE  /\ u = "loop" /\ thread'[u].at \in {"create", "publish"}
             /\ thread'[u].due \in wf'[thread'[u].w].trigger.due
             /\ thread'[u].due <= fired'[thread'[u].w] /\ thread'[u].due <= thread'[u].time
             /\ thread'[u].at = "create" =>
                  \A i \in DOMAIN runs' : runs'[i].w = thread'[u].w => runs'[i].due # thread'[u].due
  <2>1. u # t => r.due = NoTime
    BY <1>2, <1>4, <1>7 DEF DueInv
  <2>. QED
    BY <1>1, <1>3, <1>4, <1>7, <2>1 DEF DueInv
<1>. QED
  BY <1>5, <1>6, <1>7 DEF DueInv

(* Every step of the triggers keeps what is known of due times.            *)
LEMMA DueNext ==
  ASSUME TInv, DueInv, [TriggerNext]_vars
  PROVE  DueInv'
<1>0. Idle.due = NoTime /\ \A s : Walking(s).due = NoTime
  BY DEF Idle, Walking
<1>. DEFINE Kept == /\ runs' = runs /\ fired' = fired
                    /\ \A v \in Workflow : Born(v, wf) => wf'[v].trigger = wf[v].trigger
                    /\ \A t \in Thread : \/ thread'[t].due = NoTime
                                         \/ /\ thread'[t].at = thread[t].at /\ thread'[t].w = thread[t].w
                                            /\ thread'[t].due = thread[t].due /\ thread'[t].time = thread[t].time
<1>1. CASE UNCHANGED vars
  BY <1>1, DueKept DEF vars
<1>2. CASE Pass
  BY <1>2, DueKept DEF Pass
<1>3. CASE Restart
  BY <1>0, <1>3, DueKept DEF Restart
<1>4. ASSUME NEW at \in 1..MaxTime, Evaluate(at) PROVE DueInv'
  <2>1. Kept
    BY <1>0, <1>4 DEF Evaluate, TInv, TriggerTypeOK
  <2>. QED
    BY <2>1, DueKept
<1>5. ASSUME NEW w \in Workflow, Seed(w) \/ NotYet(w) PROVE DueInv'
  <2>1. /\ runs' = runs /\ fired' = fired /\ wf' = wf
        /\ thread' = [thread EXCEPT !["loop"].stack = Taken("loop", w)]
    BY <1>5 DEF Seed, NotYet
  <2>2. thread \in [Thread -> Calls]
    BY DEF TInv, TriggerTypeOK
  <2>3. \A t \in Thread : /\ thread'[t].at = thread[t].at /\ thread'[t].w = thread[t].w
                          /\ thread'[t].due = thread[t].due /\ thread'[t].time = thread[t].time
    BY <2>1, <2>2 DEF Calls
  <2>. QED
    BY <2>1, <2>3, DueKept
<1>6. ASSUME NEW t \in Thread, NEW w, NEW s, Call(t, w, NoTime, s)
      PROVE  thread'[t].due = NoTime /\ \A u \in Thread : u # t => thread'[u] = thread[u]
  BY <1>0, <1>6 DEF Call, TInv, TriggerTypeOK
<1>7. ASSUME NEW w \in Workflow, Request(w) PROVE DueInv'
  <2>1. Kept
    BY <1>6, <1>7 DEF Request, Thread
  <2>. QED
    BY <2>1, DueKept
<1>8. ASSUME NEW t \in Thread, NEW w \in Workflow, FireChild(t, w) PROVE DueInv'
  <2>1. Kept
    BY <1>6, <1>8 DEF FireChild
  <2>. QED
    BY <2>1, DueKept
<1>9. ASSUME NEW t \in Thread, TriggerFails(t) \/ Publish(t) \/ Return(t) PROVE DueInv'
  <2>1. \E x : x.due = NoTime /\ thread' = [thread EXCEPT ![t] = x]
    <3>1. CASE TriggerFails(t)
      BY <1>0, <3>1 DEF TriggerFails
    <3>2. CASE Publish(t)
      BY <1>0, <3>2 DEF Publish
    <3>3. CASE Return(t)
      BY <1>0, <3>3 DEF Return
    <3>. QED
      BY <1>9, <3>1, <3>2, <3>3
  <2>2. runs' = runs /\ fired' = fired /\ wf' = wf
    BY <1>9 DEF TriggerFails, Publish, Return
  <2>3. thread \in [Thread -> Calls]
    BY DEF TInv, TriggerTypeOK
  <2>4. thread'[t].due = NoTime /\ \A u \in Thread : u # t => thread'[u] = thread[u]
    BY <2>1, <2>3
  <2>5. Kept
    BY <2>2, <2>4
  <2>. QED
    BY <2>5, DueKept
<1>10. ASSUME NEW w \in Workflow, NEW type \in Type, NEW s \in Schedule, CreateWorkflow(w, type, s)
       PROVE  DueInv'
  <2>1. Kept
    BY <1>10, CreateWorkflowStep DEF CreateWorkflow
  <2>. QED
    BY <2>1, DueKept
<1>11. ASSUME NEW w \in Workflow, NEW state \in {"active", "inactive", "deleted"}, SetState(w, state)
       PROVE  DueInv'
  <2>1. Kept
    BY <1>11, SetStateStep DEF SetState
  <2>. QED
    BY <2>1, DueKept
<1>12. ASSUME NEW t \in Thread, Trigger(t) PROVE DueInv'
  BY <1>8, <1>9, <1>12, DueCreateRun DEF Trigger
<1>. QED
  BY <1>1, <1>2, <1>3, <1>4, <1>5, <1>7, <1>10, <1>11, <1>12, DueFire DEF TriggerNext
-----------------------------------------------------------------------------
(* The inductive invariant of the composition.                             *)
LoopInv == TInv /\ DueInv /\ TypeOK /\ BannedOnlyForLoop /\ LoopsAreBanned

(* Rows of table runs are only added, and never change.                    *)
LEMMA RunsGrow ==
  ASSUME TInv, [TriggerNext]_vars
  PROVE  DOMAIN runs \subseteq DOMAIN runs' /\ \A r \in DOMAIN runs : runs'[r] = runs[r]
<1>1. ASSUME NEW t \in Thread, NEW C \in SUBSET Client, CreateRun(t, C)
      PROVE  DOMAIN runs \subseteq DOMAIN runs' /\ \A r \in DOMAIN runs : runs'[r] = runs[r]
  <2>1. PICK x : runs' = Append(runs, x)
    BY <1>1 DEF CreateRun
  <2>. QED
    BY <2>1 DEF TInv, TriggerTypeOK
<1>2. ASSUME NEW t \in Thread, Trigger(t), runs' # runs PROVE \E C \in SUBSET Client : CreateRun(t, C)
  BY <1>2 DEF Trigger, FireChild, TriggerFails, Publish, Return
<1>3. ASSUME runs' # runs PROVE \E t \in Thread : Trigger(t)
  BY <1>3 DEF TriggerNext, vars, Pass, Restart, Evaluate, Seed, NotYet, Fire, Request, CreateWorkflow, SetState
<1>. QED
  BY <1>1, <1>2, <1>3

(* The triggers ban nobody, and the runs that justify a ban stay.          *)
LEMMA BannedKept ==
  ASSUME TInv, BannedOnlyForLoop, ban \subseteq Client \X (Type \cup {""}) \X (DOMAIN runs),
         [TriggerNext]_vars, ban' = ban
  PROVE  BannedOnlyForLoop' /\ ban' \subseteq Client \X (Type \cup {""}) \X (DOMAIN runs')
<1>1. DOMAIN runs \subseteq DOMAIN runs' /\ \A r \in DOMAIN runs : runs'[r] = runs[r]
  BY RunsGrow
<1>2. \A b \in ban : b[3] \in DOMAIN runs
  OBVIOUS
<1>3. ASSUME NEW b \in ban
      PROVE  \E p \in (DOMAIN runs') \ {b[3]} :
               /\ Close(p, b[3])'
               /\ runs'[p].type = b[2] /\ runs'[b[3]].type = b[2] /\ b[1] \in runs'[p].clients
  <2>1. PICK p \in (DOMAIN runs) \ {b[3]} :
               /\ Close(p, b[3])
               /\ runs[p].type = b[2] /\ runs[b[3]].type = b[2] /\ b[1] \in runs[p].clients
    BY DEF BannedOnlyForLoop
  <2>2. p \in (DOMAIN runs') \ {b[3]} /\ runs'[p] = runs[p] /\ runs'[b[3]] = runs[b[3]]
    BY <1>1, <1>2
  <2>3. Close(p, b[3])'
    BY <2>1, <2>2 DEF Close
  <2>. QED
    BY <2>1, <2>2, <2>3
<1>. QED
  BY <1>1, <1>3 DEF BannedOnlyForLoop

(* An answer bans whom it must, and nobody else.                           *)
LEMMA HandleStep ==
  ASSUME LoopInv, NEW r \in 1..MaxRuns, NEW c \in Client, HandleResult(r, c)
  PROVE  TypeOK' /\ BannedOnlyForLoop' /\ LoopsAreBanned'
<1>1. r \in DOMAIN runs /\ runs' = runs /\ wf' = wf /\ last' = {<<r, c>>}
  BY DEF HandleResult, vars
<1>2. \A q \in DOMAIN runs : runs[q].time \in Nat
  <2>1. 0..MaxTime \subseteq Nat
    OBVIOUS
  <2>. QED
    BY <2>1, RunRows, Zenon DEF LoopInv
<1>3. runs[r].w \in Workflow /\ runs[r].type \in Type \cup {""} /\ LoopThreshold[runs[r].w] \in Nat
  BY <1>1, RunRows, ThresholdAssumption DEF LoopInv
<1>. DEFINE new == <<c, runs[r].type, r>>
            P   == PreviousRuns(r, c)
            hit == wf[runs[r].w].state # "deleted" /\ \E p \in Latest(P) : IsLoop(p, r)
<1>4. ban' = IF hit THEN ban \cup {new} ELSE ban
  BY DEF HandleResult
<1>5. \A p \in P : /\ p \in DOMAIN runs /\ p # r /\ c \in runs[p].clients
                   /\ runs[p].type = runs[r].type /\ runs[p].time <= runs[r].time
  BY DEF PreviousRuns
<1>. HIDE DEF P
<1>6. TypeOK'
  <2>1. TriggerTypeOK'
    BY DEF LoopInv, TypeOK, HandleResult, vars, TriggerTypeOK
  <2>2. new \in Client \X (Type \cup {""}) \X (DOMAIN runs)
    BY <1>1, <1>3
  <2>3. last' \subseteq (DOMAIN runs) \X Client
    BY <1>1
  <2>4. ban \subseteq Client \X (Type \cup {""}) \X (DOMAIN runs)
    BY DEF LoopInv, TypeOK
  <2>. HIDE DEF new, hit
  <2>5. ban' \subseteq Client \X (Type \cup {""}) \X (DOMAIN runs)
    BY <1>4, <2>2, <2>4
  <2>. QED
    BY <1>1, <2>1, <2>3, <2>5 DEF TypeOK
<1>7. BannedOnlyForLoop'
  <2>1. ASSUME hit
        PROVE  \E p \in (DOMAIN runs) \ {r} :
                 /\ Close(p, r) /\ runs[p].type = runs[r].type /\ c \in runs[p].clients
    <3>1. PICK p \in P : IsLoop(p, r)
      BY <2>1 DEF Latest
    <3>2. p \in (DOMAIN runs) \ {r} /\ runs[p].type = runs[r].type /\ c \in runs[p].clients
      BY <1>5
    <3>3. /\ runs[p].time \in Nat /\ runs[r].time \in Nat /\ runs[p].time <= runs[r].time
          /\ runs[r].time - runs[p].time <= LoopThreshold[runs[r].w]
      BY <1>1, <1>2, <1>5, <3>1, <3>2 DEF IsLoop
    <3>. DEFINE a == runs[p].time
                b == runs[r].time
                k == LoopThreshold[runs[r].w]
    <3>4. a \in Nat /\ b \in Nat /\ k \in Nat /\ a <= b /\ b - a <= k
      BY <3>3, <1>3, Zenon
    <3>. HIDE DEF a, b, k
    <3>6. b - a \in 0..k
      BY <3>4
    <3>5. Close(p, r)
      BY <3>6 DEF Close, a, b, k
    <3>. QED
      BY <3>2, <3>5
  <2>2. \A p, q : Close(p, q)' <=> Close(p, q)
    BY <1>1 DEF Close
  <2>. HIDE DEF hit
  <2>3. \A b \in ban' : b \in ban \/ (b = new /\ hit)
    BY <1>4
  <2>4. new[1] = c /\ new[2] = runs[r].type /\ new[3] = r
    OBVIOUS
  <2>. HIDE DEF new
  <2>. QED
    BY <1>1, <2>1, <2>2, <2>3, <2>4 DEF BannedOnlyForLoop, LoopInv
<1>8. LoopsAreBanned'
  <2>1. ASSUME wf[runs[r].w].state # "deleted", NEW q \in P, Close(q, r)
        PROVE  hit
    <3>. DEFINE T == {runs[p].time : p \in P}
    <3>1. T \in SUBSET Nat /\ T # {} /\ runs[r].time \in Nat /\ \A n \in T : n <= runs[r].time
      BY <1>1, <1>2, <1>5
    <3>2. PICK m \in T : \A n \in T : n <= m
      <4>. HIDE DEF T
      <4>. QED
        BY <3>1, GreatestOfNat, Zenon
    <3>3. PICK p \in P : runs[p].time = m
      BY <3>2
    <3>4. \A x \in P : runs[x].time <= runs[p].time
      BY <3>2, <3>3
    <3>5. p \in Latest(P)
      BY <3>4 DEF Latest
    <3>6. IsLoop(p, r)
      <4>1. runs[q].time <= runs[p].time /\ q \in DOMAIN runs /\ p \in DOMAIN runs
        BY <1>5, <3>4
      <4>2. runs[r].time - runs[q].time \in 0..LoopThreshold[runs[r].w]
        BY <2>1 DEF Close
      <4>3. runs[q].time \in Nat /\ runs[p].time \in Nat /\ runs[r].time \in Nat
        BY <1>1, <1>2, <4>1
      <4>. DEFINE a == runs[p].time
                  b == runs[r].time
                  x == runs[q].time
                  k == LoopThreshold[runs[r].w]
      <4>4. {a, b, x, k} \subseteq Nat /\ x <= a /\ b - x \in 0..k
        BY <1>3, <4>1, <4>2, <4>3, Zenon
      <4>. HIDE DEF a, b, x, k
      <4>5. b - a <= k
        <5>1. a \in Nat /\ b \in Nat /\ x \in Nat /\ k \in Nat
          BY <4>4, Zenon
        <5>. QED
          BY <4>4, <5>1
      <4>. QED
        BY <4>5 DEF IsLoop, a, b, k
    <3>. QED
      BY <2>1, <3>5, <3>6
  <2>2. P = PreviousRuns(r, c)' /\ \A p : Close(p, r)' <=> Close(p, r)
    BY <1>1 DEF P, PreviousRuns, Close
  <2>. HIDE DEF hit
  <2>3. hit => new \in ban'
    BY <1>4
  <2>4. \A x \in DOMAIN runs, y \in Client : <<x, y>> \in last' => x = r /\ y = c
    BY <1>1
  <2>. QED
    BY <1>1, <2>1, <2>2, <2>3, <2>4 DEF LoopsAreBanned
<1>. QED
  BY <1>6, <1>7, <1>8

(* The invariant holds initially.                                          *)
LEMMA LoopInvInit == LoopInit => LoopInv
<1>. SUFFICES ASSUME LoopInit PROVE LoopInv
  OBVIOUS
<1>1. TInv
  BY TInit DEF LoopInit
<1>2. /\ DOMAIN runs = {} /\ ban = {} /\ last = {}
      /\ \A t \in Thread : thread[t].due = NoTime
  <2>1. runs = <<>> /\ ban = {} /\ last = {} /\ \A t \in Thread : thread[t] = Idle
    BY DEF LoopInit, Init
  <2>. QED
    BY <2>1 DEF Idle
<1>3. DueInv
  BY <1>2 DEF DueInv
<1>4. TypeOK /\ BannedOnlyForLoop /\ LoopsAreBanned
  BY <1>1, <1>2 DEF TInv, TypeOK, BannedOnlyForLoop, LoopsAreBanned
<1>. QED
  BY <1>1, <1>3, <1>4 DEF LoopInv

(* Every step keeps the invariant.                                         *)
LEMMA LoopInvNext == LoopInv /\ [Next]_allVars => LoopInv'
<1>. SUFFICES ASSUME LoopInv, [Next]_allVars PROVE LoopInv'
  OBVIOUS
<1>1. [TriggerNext]_vars
  BY DEF Next, allVars, HandleResult
<1>2. TInv' /\ DueInv'
  BY <1>1, TNext, DueNext DEF LoopInv
<1>3. CASE TriggerNext /\ last' = {} /\ UNCHANGED ban
  <2>1. BannedOnlyForLoop' /\ ban' \subseteq Client \X (Type \cup {""}) \X (DOMAIN runs')
    BY <1>1, <1>3, BannedKept DEF LoopInv, TypeOK
  <2>2. TypeOK' /\ LoopsAreBanned'
    BY <1>2, <1>3, <2>1 DEF TypeOK, TInv, LoopsAreBanned
  <2>. QED
    BY <1>2, <2>1, <2>2 DEF LoopInv
<1>4. ASSUME NEW r \in 1..MaxRuns, NEW c \in Client, HandleResult(r, c) PROVE LoopInv'
  BY <1>2, <1>4, HandleStep DEF LoopInv
<1>5. CASE UNCHANGED allVars
  <2>1. TypeOK'
    BY <1>2, <1>5 DEF LoopInv, TypeOK, TInv, allVars, vars
  <2>2. BannedOnlyForLoop'
    BY <1>5 DEF LoopInv, BannedOnlyForLoop, Close, allVars, vars
  <2>3. LoopsAreBanned'
    BY <1>5 DEF LoopInv, LoopsAreBanned, PreviousRuns, Close, allVars, vars
  <2>. QED
    BY <1>2, <2>1, <2>2, <2>3 DEF LoopInv
<1>. QED
  BY <1>3, <1>4, <1>5 DEF Next

(* The trigger loop, chains and loop detection keep LoopInv.               *)
THEOREM Invariance == Spec => []LoopInv
BY LoopInvInit, LoopInvNext, PTL DEF Spec

(* Every variable of the trigger loop and of loop detection keeps its type *)
(* (trigger_coordination.go, loop_detection.go).                           *)
THEOREM Typing == Spec => []TypeOK
<1>1. LoopInv => TypeOK
  BY DEF LoopInv
<1>. QED
  BY <1>1, Invariance, PTL

(* However workflows are chained, the calls that the synchronous bus nests *)
(* come to an end (onWorkflowCompleted in trigger_coordination.go).        *)
THEOREM Chains == Spec => []ChainEnds
<1>1. LoopInv => ChainEnds
  BY SoundCalls DEF LoopInv, TInv
<1>. QED
  BY <1>1, Invariance, PTL

(* No due time of any schedule fires twice, whatever happens to ticks,     *)
(* workflows and the server (ShouldFire in cron_evaluator.go).             *)
THEOREM DueOnce == Spec => DueTimesFireOnce
<1>1. ASSUME LoopInv, NEW w \in Workflow, Fire(w)
      PROVE  \/ \E d \in wf[w].trigger.due : fired[w] < d /\ d <= tick
             \/ wf[w].trigger.due = {}
  BY <1>1, FireIsDue DEF LoopInv
<1>2. LoopInv /\ [Next]_allVars =>
        [\A w \in Workflow :
           Fire(w) => \/ \E d \in wf[w].trigger.due : fired[w] < d /\ d <= tick
                      \/ wf[w].trigger.due = {}]_vars
  BY <1>1
<1>. QED
  BY <1>2, Invariance, PTL DEF Spec, DueTimesFireOnce

(* Only a client that matched two runs of the type within the threshold is *)
(* banned (HandleResult in loop_detection.go).                             *)
THEOREM OnlyLoops == Spec => []BannedOnlyForLoop
<1>1. LoopInv => BannedOnlyForLoop
  BY DEF LoopInv
<1>. QED
  BY <1>1, Invariance, PTL

(* It is enough to look at the latest of the earlier runs (GetPreviousRun  *)
(* in run_repo.go).                                                        *)
THEOREM AllLoops == Spec => []LoopsAreBanned
<1>1. LoopInv => LoopsAreBanned
  BY DEF LoopInv
<1>. QED
  BY <1>1, Invariance, PTL

(* Punctual runs of a schedule that is coarser than the threshold ban      *)
(* nobody (cron_evaluator.go with loop_detection.go).                      *)
THEOREM Punctuality == Spec => []PunctualRunsBanNobody
<1>1. ASSUME LoopInv, NEW type \in Type, NEW w \in Workflow, Spaced(w),
             \A r \in DOMAIN runs : runs[r].type = type => Punctual(r, w),
             NEW b \in ban, b[2] = type
      PROVE  FALSE
  <2>. DEFINE r == b[3]
  <2>1. PICK p \in (DOMAIN runs) \ {r} : Close(p, r) /\ runs[p].type = b[2] /\ runs[r].type = b[2]
    BY <1>1 DEF LoopInv, BannedOnlyForLoop
  <2>2. r \in DOMAIN runs /\ p \in DOMAIN runs /\ p # r
    BY <1>1, <2>1 DEF LoopInv, TypeOK
  <2>. HIDE DEF r
  <2>3. Punctual(p, w) /\ Punctual(r, w)
    BY <1>1, <2>1, <2>2
  <2>. DEFINE d == runs[p].due
              e == runs[r].due
              s == wf[w].trigger.due
  <2>4. /\ d \in s /\ e \in s /\ d # e
        /\ d <= runs[p].time /\ e <= runs[r].time
        /\ runs[p].time <= d + Slack /\ runs[r].time <= e + Slack
    BY <2>2, <2>3, <1>1 DEF LoopInv, DueInv, Punctual
  <2>5. /\ d \in Nat \cup {NoTime} /\ e \in Nat \cup {NoTime} /\ d # NoTime /\ e # NoTime
        /\ runs[p].time \in Int /\ runs[r].time \in Int
    <3>1. 0..MaxTime \subseteq Int
      OBVIOUS
    <3>. QED
      BY <1>1, <2>2, <2>3, <3>1, RunRows, Zenon DEF LoopInv, Punctual
  <2>6. LoopThreshold[w] \in Nat /\ Slack \in Nat /\ runs[r].w = w
    BY <1>1, <2>3, ThresholdAssumption DEF Punctual
  <2>7. runs[r].time - runs[p].time \in 0..LoopThreshold[w]
    BY <2>1, <2>6 DEF Close
  <2>8. /\ d < e => e - d > LoopThreshold[w] + Slack
        /\ e < d => d - e > LoopThreshold[w] + Slack
    BY <1>1, <2>4 DEF Spaced
  <2>. HIDE DEF d, e, s
  <2>. QED
    BY <2>4, <2>5, <2>6, <2>7, <2>8
<1>2. LoopInv => PunctualRunsBanNobody
  BY <1>1 DEF PunctualRunsBanNobody
<1>. QED
  BY <1>2, Invariance, PTL
=============================================================================
