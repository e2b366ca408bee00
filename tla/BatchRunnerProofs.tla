-------------------------- MODULE BatchRunnerProofs --------------------------
(***************************************************************************)
(* Theorems about BatchRunner, for any jobs, any calls of flush with or    *)
(* without a timeout, and any number of permits.                           *)
(***************************************************************************)
EXTENDS BatchRunner, FiniteSetTheorems, SequenceTheorems, TLAPS

USE NamesAssumption, BoundsAssumption

-----------------------------------------------------------------------------
\* What is on a queue, once a job is put at its end or taken off its head.
LEMMA ToSetAppend ==
  ASSUME NEW S, NEW q \in Seq(S), NEW e \in S
  PROVE  /\ ToSet(Append(q, e)) = ToSet(q) \cup {e}
         /\ DOMAIN Append(q, e) = 1..(Len(q) + 1) /\ DOMAIN q = 1..Len(q)
         /\ \A i \in 1..(Len(q) + 1) : Append(q, e)[i] = IF i = Len(q) + 1 THEN e ELSE q[i]
<1>1. /\ Append(q, e) \in Seq(S) /\ Len(Append(q, e)) = Len(q) + 1 /\ Len(q) \in Nat
      /\ \A i \in 1..Len(q) : Append(q, e)[i] = q[i]
      /\ Append(q, e)[Len(q) + 1] = e
  BY AppendProperties
<1>2. DOMAIN Append(q, e) = 1..(Len(q) + 1) /\ DOMAIN q = 1..Len(q)
  BY <1>1
<1>3. \A i \in 1..(Len(q) + 1) : Append(q, e)[i] = IF i = Len(q) + 1 THEN e ELSE q[i]
  BY <1>1
<1>4. ToSet(Append(q, e)) = ToSet(q) \cup {e}
  BY <1>1, <1>2, <1>3 DEF ToSet
<1> QED
  BY <1>2, <1>3, <1>4

LEMMA ToSetTail ==
  ASSUME NEW S, NEW q \in Seq(S), q # <<>>
  PROVE  /\ Head(q) = q[1] /\ Head(q) \in S /\ Tail(q) \in Seq(S) /\ 1 \in DOMAIN q
         /\ ToSet(Tail(q)) \subseteq ToSet(q)
         /\ \A i \in DOMAIN Tail(q) : i + 1 \in DOMAIN q /\ i + 1 # 1 /\ Tail(q)[i] = q[i + 1]
<1>1. /\ Head(q) \in S /\ Tail(q) \in Seq(S) /\ Len(Tail(q)) = Len(q) - 1 /\ Len(q) \in Nat
      /\ \A i \in 1..Len(Tail(q)) : Tail(q)[i] = q[i + 1]
  BY HeadTailProperties
<1>2. DOMAIN q = 1..Len(q) /\ DOMAIN Tail(q) = 1..Len(Tail(q)) /\ Len(q) # 0
  BY <1>1
<1>3. \A i \in DOMAIN Tail(q) : i + 1 \in DOMAIN q /\ i + 1 # 1 /\ Tail(q)[i] = q[i + 1]
  BY <1>1, <1>2
<1>4. ToSet(Tail(q)) \subseteq ToSet(q)
  BY <1>3 DEF ToSet
<1> QED
  BY <1>1, <1>2, <1>3, <1>4

\* Permits: the jobs in the client change by one or not at all.
LEMMA PermitTaken ==
  ASSUME IInv, NEW j \in Job, Acquire(j)
  PROVE  /\ free' = MaxInflight - Cardinality(InClient') /\ IsFiniteSet(InClient')
         /\ free' \in 0..MaxInflight
<1>1. InClient' = InClient \cup {j} /\ j \notin InClient
  BY DEF IInv, TypeOK, Acquire, InClient, InDispatch
<1>2. IsFiniteSet(InClient') /\ Cardinality(InClient') = Cardinality(InClient) + 1
  BY <1>1, FS_AddElement DEF IInv
<1>3. Cardinality(InClient) \in Nat
  BY FS_CardinalityType DEF IInv
<1>4. free = MaxInflight - Cardinality(InClient) /\ free \in 0..MaxInflight /\ free > 0 /\ free' = free - 1
  BY DEF IInv, TypeOK, Acquire
<1> QED
  BY <1>2, <1>3, <1>4

LEMMA PermitReturned ==
  ASSUME IInv, NEW j \in InClient, Finish(j)
  PROVE  /\ free' = MaxInflight - Cardinality(InClient') /\ IsFiniteSet(InClient')
         /\ free' \in 0..MaxInflight
<1>1. InClient' = InClient \ {j}
  <2>1. j \in Job /\ \A i \in Job : task'[i] = IF i = j THEN "done" ELSE task[i]
    BY DEF IInv, TypeOK, Finish, InClient
  <2> QED
    BY <2>1 DEF InClient, InDispatch
<1>2. IsFiniteSet(InClient') /\ Cardinality(InClient') = Cardinality(InClient) - 1
  BY <1>1, FS_RemoveElement DEF IInv
<1>3. Cardinality(InClient) \in Nat /\ Cardinality(InClient') \in Nat
  BY <1>2, FS_CardinalityType DEF IInv
<1>4. /\ free = MaxInflight - Cardinality(InClient) /\ free' = free + 1
      /\ free \in 0..MaxInflight
  BY DEF IInv, TypeOK, Finish
<1>5. \A m, c, d \in Nat : d = c - 1 /\ m - c \in 0..m =>
        m - c + 1 = m - d /\ m - d \in 0..m
  OBVIOUS
<1> QED
  BY <1>2, <1>3, <1>4, <1>5

LEMMA PermitsUnchanged ==
  ASSUME IInv, UNCHANGED free, InClient' = InClient
  PROVE  /\ free' = MaxInflight - Cardinality(InClient') /\ IsFiniteSet(InClient')
         /\ free' \in 0..MaxInflight
BY DEF IInv, TypeOK

LEMMA PermitsNext ==
  ASSUME IInv, [Next]_vars
  PROVE  /\ free' = MaxInflight - Cardinality(InClient') /\ IsFiniteSet(InClient')
         /\ free' \in 0..MaxInflight
<1>1. CASE \E j \in Job : Acquire(j)
  BY <1>1, PermitTaken
<1>2. CASE \E j \in Job : CallbackReturns(j) \/ Die(j)
  <2>1. PICK j \in Job : CallbackReturns(j) \/ Die(j)
    BY <1>2
  <2>2. j \in InClient /\ Finish(j)
    BY <2>1 DEF CallbackReturns, Die, InClient, InDispatch
  <2> QED
    BY <2>2, PermitReturned
<1>3. CASE \E j \in Job : Answered(j) \/ CallRaises(j) \/ CallbackRaises(j)
  <2>1. InClient' = InClient /\ UNCHANGED free
    BY <1>3 DEF IInv, TypeOK, Answered, CallRaises, CallbackRaises, CallBack, InClient, InDispatch
  <2> QED
    BY <2>1, PermitsUnchanged
<1>4. CASE \E j \in Job : Submit(j)
  <2>1. InClient' = InClient /\ UNCHANGED free
    BY <1>4 DEF IInv, TypeOK, Submit, InClient, InDispatch
  <2> QED
    BY <2>1, PermitsUnchanged
<1>5. CASE CreateTask
  <2>1. InClient' = InClient /\ UNCHANGED free
    BY <1>5 DEF IInv, TypeOK, QueuedOnce, CreateTask, InClient, InDispatch
  <2> QED
    BY <2>1, PermitsUnchanged
<1>6. CASE LoopCloses
  <2>1. InClient' = {} /\ free' = MaxInflight
    BY <1>6 DEF IInv, TypeOK, LoopCloses, InClient, InDispatch
  <2> QED
    BY <2>1, FS_EmptySet
<1>7. CASE UNCHANGED <<task, free>>
  <2>1. InClient' = InClient
    BY <1>7 DEF InClient
  <2> QED
    BY <1>7, <2>1, PermitsUnchanged
<1> QED
  BY <1>1, <1>2, <1>3, <1>4, <1>5, <1>6, <1>7
     DEF Next, RunStep, DispatchStep, Start, Stop, StopReturns, Loop, Get, Timeout, Flush,
         FlushReturns, FlushTimesOut, jobs, vars

-----------------------------------------------------------------------------
LEMMA IInit == Init => IInv
<1> SUFFICES ASSUME Init PROVE IInv
  OBVIOUS
<1>1. InClient = {}
  BY DEF Init, InClient, InDispatch
<1>2. free = MaxInflight - Cardinality(InClient) /\ IsFiniteSet(InClient) /\ free \in 0..MaxInflight
  BY <1>1, FS_EmptySet DEF Init
<1>3. queue = <<>> /\ queue \in Seq(Job) /\ DOMAIN queue = {}
  BY DEF Init
<1>4. <<>> \in {<<>>, <<"answer">>, <<"none">>, <<"answer", "none">>}
  OBVIOUS
<1>7. told \in [Job -> {<<>>, <<"answer">>, <<"none">>, <<"answer", "none">>}]
  BY <1>4 DEF Init
<1>9. /\ run = "off" /\ held = NoJob /\ stopping = FALSE /\ stop = "uncalled" /\ raises \in 0..MaxRaises
      /\ task \in [Job -> {"unsubmitted", "queued", "done", "cancelled"} \cup InDispatch]
      /\ flush \in [Flusher -> {"uncalled", "waiting", "returned", "raised", "cancelled"}]
      /\ covered \in [Flusher -> SUBSET Job]
  BY DEF Init
<1>8. TypeOK
  BY <1>2, <1>3, <1>7, <1>9 DEF TypeOK
<1>5. QueuedOnce /\ ToldAfterCall
  BY <1>3 DEF Init, QueuedOnce, ToldAfterCall
<1>6. CoveredSubmitted /\ FlushDrains
  BY DEF Init, CoveredSubmitted, FlushDrains
<1> QED
  BY <1>2, <1>8, <1>5, <1>6 DEF IInv

\* What a callback is called with, put into words.
LEMMA AppendFirst == \A x : Append(<<>>, x) = <<x>>
OBVIOUS

LEMMA AppendSecond == \A x, y : Append(<<x>>, y) = <<x, y>>
<1> TAKE x, y
<1>1. <<x>> \in Seq({x, y}) /\ <<x, y>> \in Seq({x, y}) /\ Len(<<x>>) = 1 /\ Len(<<x, y>>) = 2
  OBVIOUS
<1>2. /\ Append(<<x>>, y) \in Seq({x, y}) /\ Len(Append(<<x>>, y)) = 2
      /\ Append(<<x>>, y)[1] = x /\ Append(<<x>>, y)[2] = y
  BY <1>1, AppendProperties
<1>3. \A i \in 1..2 : Append(<<x>>, y)[i] = <<x, y>>[i]
  BY <1>2
<1> QED
  BY <1>1, <1>2, <1>3, SeqEqual

\* Everything but the permits.
LEMMA TypeNext ==
  ASSUME IInv, [Next]_vars
  PROVE  TypeOK'
<1> DEFINE Rest ==
      /\ queue \in Seq(Job)
      /\ run \in {"off", "loop", "get", "got", "ended", "closed"}
      /\ held \in Job \cup {NoJob}
      /\ stopping \in BOOLEAN
      /\ stop \in {"uncalled", "waiting", "returned"}
      /\ task \in [Job -> {"unsubmitted", "queued", "done", "cancelled"} \cup InDispatch]
      /\ told \in [Job -> {<<>>, <<"answer">>, <<"none">>, <<"answer", "none">>}]
      /\ flush \in [Flusher -> {"uncalled", "waiting", "returned", "raised", "cancelled"}]
      /\ covered \in [Flusher -> SUBSET Job]
      /\ raises \in 0..MaxRaises
<1>0. Rest
  BY DEF IInv, TypeOK
<1>1. ASSUME NEW j \in Job, Submit(j) PROVE Rest'
  <2>1. queue' \in Seq(Job)
    BY <1>0, <1>1, AppendProperties DEF Submit
  <2> QED
    BY <1>0, <1>1, <2>1 DEF Submit, runner, flushes
<1>2. ASSUME Start \/ Stop \/ StopReturns \/ Loop \/ Timeout PROVE Rest'
  BY <1>0, <1>2 DEF Start, Stop, StopReturns, Loop, Timeout, runner, jobs, flushes
<1>3. ASSUME NEW f \in Flusher, Flush(f) \/ FlushReturns(f) \/ FlushTimesOut(f) PROVE Rest'
  <2>1. ToSet(queue) \subseteq Job
    BY <1>0 DEF ToSet
  <2> QED
    BY <1>0, <1>3, <2>1 DEF Flush, FlushReturns, FlushTimesOut, runner, jobs
<1>4. ASSUME Get PROVE Rest'
  <2>1. held' \in Job /\ queue' \in Seq(Job)
    BY <1>0, <1>4, ToSetTail DEF Get
  <2> QED
    BY <1>0, <1>4, <2>1 DEF Get, jobs, flushes
<1>5. ASSUME CreateTask PROVE Rest'
  BY <1>0, <1>5 DEF CreateTask, flushes, InDispatch
<1>6. ASSUME LoopCloses PROVE Rest'
  BY <1>0, <1>6 DEF LoopCloses, InDispatch
<1>7. ASSUME NEW j \in Job, DispatchStep(j) PROVE Rest'
  <2>1. /\ UNCHANGED <<queue, run, held, stopping, stop, flush, covered>>
        /\ UNCHANGED raises \/ Raising
    BY <1>7 DEF DispatchStep, Acquire, Answered, CallRaises, CallbackRaises, CallbackReturns, Die,
                Finish, runner, flushes
  <2>2. raises' \in 0..MaxRaises
    BY <1>0, <2>1 DEF Raising
  <2>3. task' \in [Job -> {"unsubmitted", "queued", "done", "cancelled"} \cup InDispatch]
    BY <1>0, <1>7 DEF DispatchStep, Acquire, Answered, CallRaises, CallbackRaises, CallbackReturns,
                      Die, Finish, CallBack, InDispatch
  <2>4. told' \in [Job -> {<<>>, <<"answer">>, <<"none">>, <<"answer", "none">>}]
    <3>1. told[j] = <<>> => Append(told[j], "answer") = <<"answer">> /\ Append(told[j], "none") = <<"none">>
      BY AppendFirst
    <3>2. told[j] = <<"answer">> => Append(told[j], "none") = <<"answer", "none">>
      BY AppendSecond
    <3>3. task[j] = "call" => told[j] = <<>>
      BY DEF IInv, ToldAfterCall
    <3>4. task[j] = "callback" => told[j] = <<"answer">>
      BY DEF IInv, ToldAfterCall
    <3>5. CASE UNCHANGED told
      BY <1>0, <3>5
    <3>6. CASE Answered(j) \/ CallRaises(j)
      BY <1>0, <3>1, <3>3, <3>6 DEF Answered, CallRaises, CallBack
    <3>7. CASE CallbackRaises(j)
      BY <1>0, <3>2, <3>4, <3>7 DEF CallbackRaises, CallBack
    <3> QED
      BY <1>7, <3>5, <3>6, <3>7 DEF DispatchStep, Acquire, CallbackReturns, Die, Finish
  <2> QED
    BY <1>0, <2>1, <2>2, <2>3, <2>4
<1>8. ASSUME UNCHANGED vars PROVE Rest'
  BY <1>0, <1>8 DEF vars, runner, jobs, flushes
<1>9. Rest'
  <2> HIDE DEF Rest
  <2> QED
    BY <1>1, <1>2, <1>3, <1>4, <1>5, <1>6, <1>7, <1>8 DEF Next, RunStep
<1> QED
  BY <1>9, PermitsNext DEF TypeOK
-----------------------------------------------------------------------------
\* A job is queued once: it is put there when it is submitted, and taken off by
\* _run alone, which holds it until it has created the task.
LEMMA QueuedNext ==
  ASSUME IInv, [Next]_vars
  PROVE  QueuedOnce'
<1>0. /\ task \in [Job -> {"unsubmitted", "queued", "done", "cancelled"} \cup InDispatch]
      /\ queue \in Seq(Job) /\ held \in Job \cup {NoJob} /\ QueuedOnce
      /\ \A i \in DOMAIN queue : queue[i] \in Job
  BY DEF IInv, TypeOK
<1>1. ASSUME NEW j \in Job, Submit(j) PROVE QueuedOnce'
  <2>1. /\ \A i \in DOMAIN queue : queue[i] # j
        /\ held # j /\ j \notin ToSet(queue)
    BY <1>0, <1>1, NamesAssumption DEF Submit, QueuedOnce, ToSet
  <2>2. /\ DOMAIN queue' = 1..(Len(queue) + 1) /\ DOMAIN queue = 1..Len(queue) /\ Len(queue) \in Nat
        /\ \A i \in DOMAIN queue' : queue'[i] = IF i = Len(queue) + 1 THEN j ELSE queue[i]
        /\ ToSet(queue') = ToSet(queue) \cup {j}
    BY <1>0, <1>1, ToSetAppend DEF Submit
  <2>3. \A i \in DOMAIN queue' : i # Len(queue) + 1 => i \in DOMAIN queue
    BY <2>2
  <2>4. \A i \in Job : task'[i] = IF i = j THEN "queued" ELSE task[i]
    BY <1>0, <1>1 DEF Submit
  <2>5. \A i \in DOMAIN queue' : task'[queue'[i]] = "queued"
    BY <1>0, <2>2, <2>3, <2>4 DEF QueuedOnce
  <2>6. \A i, k \in DOMAIN queue' : queue'[i] = queue'[k] => i = k
    BY <1>0, <2>1, <2>2, <2>3 DEF QueuedOnce
  <2>7. held' # NoJob => run' = "got" /\ task'[held'] = "queued" /\ held' \notin ToSet(queue')
    BY <1>0, <1>1, <2>1, <2>2, <2>4 DEF Submit, QueuedOnce, runner
  <2> QED
    BY <2>5, <2>6, <2>7 DEF QueuedOnce
<1>2. ASSUME Get PROVE QueuedOnce'
  <2>1. /\ Head(queue) = queue[1] /\ 1 \in DOMAIN queue
        /\ ToSet(Tail(queue)) \subseteq ToSet(queue)
        /\ \A i \in DOMAIN Tail(queue) :
             i + 1 \in DOMAIN queue /\ i + 1 # 1 /\ Tail(queue)[i] = queue[i + 1]
    BY <1>0, <1>2, ToSetTail DEF Get
  <2>2. DOMAIN Tail(queue) \subseteq Nat
    BY <1>0, <1>2, HeadTailProperties DEF Get
  <2>3. \A i, k \in DOMAIN Tail(queue) : Tail(queue)[i] = Tail(queue)[k] => i = k
    BY <1>0, <2>1, <2>2 DEF QueuedOnce
  <2>4. queue[1] \notin ToSet(Tail(queue))
    BY <1>0, <2>1 DEF QueuedOnce, ToSet
  <2>5. /\ queue' = Tail(queue) /\ held' = queue[1] /\ run' = "got" /\ task' = task
    BY <1>2, <2>1 DEF Get, jobs
  <2>6. \A i \in DOMAIN queue' : task'[queue'[i]] = "queued"
    BY <1>0, <2>1, <2>5 DEF QueuedOnce
  <2>7. task'[held'] = "queued"
    BY <1>0, <2>1, <2>5 DEF QueuedOnce
  <2> QED
    BY <2>3, <2>4, <2>5, <2>6, <2>7 DEF QueuedOnce
<1>3. ASSUME CreateTask PROVE QueuedOnce'
  <2>1. /\ queue' = queue /\ held' = NoJob
        /\ \A i \in Job : i # held => task'[i] = task[i]
    BY <1>0, <1>3 DEF CreateTask
  <2>2. \A i \in DOMAIN queue : held # NoJob => queue[i] # held
    BY <1>0 DEF QueuedOnce, ToSet
  <2>3. \A i \in DOMAIN queue : queue[i] # held
    BY <1>0, <2>2, NamesAssumption
  <2> QED
    BY <1>0, <2>1, <2>3 DEF QueuedOnce
\* The others leave the queue and what is held alone, and no job stops being queued.
<1>4. ASSUME UNCHANGED <<queue, held>>, held # NoJob => run' = run,
             \A j \in Job : task[j] = "queued" => task'[j] = "queued"
      PROVE  QueuedOnce'
  BY <1>0, <1>4 DEF QueuedOnce
<1>5. ASSUME NEW j \in Job, DispatchStep(j) PROVE QueuedOnce'
  <2>1. /\ UNCHANGED <<queue, held, run>>
        /\ \A i \in Job : task[i] = "queued" => task'[i] = "queued"
    BY <1>0, <1>5 DEF DispatchStep, Acquire, Answered, CallRaises, CallbackRaises, CallbackReturns, Die,
                Finish, CallBack, runner
  <2> QED
    BY <2>1, <1>4
<1>6. ASSUME LoopCloses PROVE QueuedOnce'
  <2>1. /\ UNCHANGED <<queue, held>> /\ run # "got"
        /\ \A i \in Job : task[i] = "queued" => task'[i] = "queued"
    BY <1>0, <1>6 DEF LoopCloses, InDispatch
  <2>2. held = NoJob
    BY <1>0, <2>1 DEF QueuedOnce
  <2> QED
    BY <2>1, <2>2, <1>4
<1>7. ASSUME Start \/ Stop \/ StopReturns \/ Loop \/ Timeout PROVE QueuedOnce'
  <2>1. /\ UNCHANGED <<queue, held, task>> /\ (run # "got" \/ run' = run)
    BY <1>7 DEF Start, Stop, StopReturns, Loop, Timeout, runner, jobs
  <2>2. held # NoJob => run' = run
    BY <1>0, <2>1 DEF QueuedOnce
  <2> QED
    BY <2>1, <2>2, <1>4
<1>8. ASSUME NEW f \in Flusher, Flush(f) \/ FlushReturns(f) \/ FlushTimesOut(f) PROVE QueuedOnce'
  BY <1>8, <1>4 DEF Flush, FlushReturns, FlushTimesOut, runner, jobs
<1>9. ASSUME UNCHANGED vars PROVE QueuedOnce'
  BY <1>9, <1>4 DEF vars, runner, jobs
<1> QED
  BY <1>1, <1>2, <1>3, <1>5, <1>6, <1>7, <1>8, <1>9 DEF Next, RunStep

\* A job is told what came of it once it has been called, and that it was
\* answered before anything else.
LEMMA ToldNext ==
  ASSUME IInv, [Next]_vars
  PROVE  ToldAfterCall'
<1>0. /\ task \in [Job -> {"unsubmitted", "queued", "done", "cancelled"} \cup InDispatch]
      /\ told \in [Job -> {<<>>, <<"answer">>, <<"none">>, <<"answer", "none">>}]
      /\ ToldAfterCall
  BY DEF IInv, TypeOK
<1>1. ASSUME NEW j \in Job, Answered(j) \/ CallRaises(j) \/ CallbackRaises(j) PROVE ToldAfterCall'
  <2>1. /\ \A i \in Job : i # j => task'[i] = task[i] /\ told'[i] = told[i]
        /\ task'[j] \in {"callback", "callback_none"}
        /\ task'[j] = "callback" => task[j] = "call" /\ told'[j] = Append(told[j], "answer")
    BY <1>0, <1>1 DEF Answered, CallRaises, CallbackRaises, CallBack
  <2>2. task'[j] = "callback" => told'[j] = <<"answer">>
    BY <1>0, <2>1, AppendFirst DEF ToldAfterCall
  <2> QED
    BY <1>0, <2>1, <2>2 DEF ToldAfterCall
<1>2. ASSUME UNCHANGED told,
             \A j \in Job : task'[j] = task[j]
                            \/ task'[j] \in {"done", "cancelled"}
                            \/ /\ task[j] \in {"unsubmitted", "queued", "acquire"}
                               /\ task'[j] \in {"queued", "acquire", "call"}
      PROVE  ToldAfterCall'
  BY <1>0, <1>2 DEF ToldAfterCall
<1>3. ASSUME NEW j \in Job, Submit(j) \/ Acquire(j) \/ CallbackReturns(j) \/ Die(j) PROVE ToldAfterCall'
  BY <1>0, <1>2, <1>3 DEF Submit, Acquire, CallbackReturns, Die, Finish
<1>4. ASSUME CreateTask PROVE ToldAfterCall'
  <2>1. /\ told' = told
        /\ \A j \in Job : task'[j] = task[j] \/ (j = held /\ task'[j] = "acquire")
    BY <1>0, <1>4 DEF CreateTask
  <2>2. held \in Job => task[held] = "queued"
    BY NamesAssumption DEF IInv, QueuedOnce
  <2> QED
    BY <2>1, <2>2, <1>2
<1>5. ASSUME LoopCloses PROVE ToldAfterCall'
  BY <1>0, <1>2, <1>5 DEF LoopCloses
<1>6. ASSUME UNCHANGED <<told, task>> PROVE ToldAfterCall'
  BY <1>2, <1>6
<1> QED
  BY <1>1, <1>3, <1>4, <1>5, <1>6
     DEF Next, RunStep, DispatchStep, Start, Stop, StopReturns, Loop, Get, Timeout, Flush,
         FlushReturns, FlushTimesOut, jobs, vars

-----------------------------------------------------------------------------
\* A flush covers jobs that have been submitted, ...
LEMMA CoveredNext ==
  ASSUME IInv, [Next]_vars
  PROVE  CoveredSubmitted'
<1>0. /\ task \in [Job -> {"unsubmitted", "queued", "done", "cancelled"} \cup InDispatch]
      /\ covered \in [Flusher -> SUBSET Job] /\ CoveredSubmitted /\ QueuedOnce
  BY DEF IInv, TypeOK
<1>1. \A j \in Job : task[j] # "unsubmitted" => task'[j] # "unsubmitted"
  BY <1>0 DEF Next, RunStep, DispatchStep, Submit, Start, Stop, StopReturns, LoopCloses, Loop, Get,
              Timeout, CreateTask, Acquire, Answered, CallRaises, CallbackRaises, CallbackReturns, Die,
              Finish, CallBack, Flush, FlushReturns, FlushTimesOut, InDispatch, jobs, vars
<1>2. ASSUME NEW f \in Flusher, Flush(f) PROVE CoveredSubmitted'
  <2>1. \A j \in ToSet(queue) : task[j] = "queued"
    BY <1>0 DEF QueuedOnce, ToSet
  <2>2. /\ task' = task
        /\ \A g \in Flusher : covered'[g] = IF g = f THEN ToSet(queue) ELSE covered[g]
    BY <1>0, <1>2 DEF Flush, jobs
  <2> QED
    BY <1>0, <2>1, <2>2 DEF CoveredSubmitted
<1>3. ASSUME UNCHANGED covered PROVE CoveredSubmitted'
  BY <1>0, <1>1, <1>3 DEF CoveredSubmitted
<1> QED
  BY <1>2, <1>3
     DEF Next, RunStep, DispatchStep, Submit, Start, Stop, StopReturns, LoopCloses, Loop, Get,
         Timeout, CreateTask, Acquire, Answered, CallRaises, CallbackRaises, CallbackReturns, Die,
         Finish, FlushReturns, FlushTimesOut, flushes, vars

\* ... and these do not come back once the queue was empty.
LEMMA DrainsNext ==
  ASSUME IInv, [Next]_vars
  PROVE  FlushDrains'
<1>0. /\ queue \in Seq(Job) /\ flush \in [Flusher -> {"uncalled", "waiting", "returned", "raised", "cancelled"}]
      /\ covered \in [Flusher -> SUBSET Job] /\ CoveredSubmitted /\ FlushDrains
  BY DEF IInv, TypeOK
<1>1. ASSUME NEW j \in Job, Submit(j) PROVE FlushDrains'
  <2>1. ToSet(queue') = ToSet(queue) \cup {j} /\ UNCHANGED <<flush, covered>>
    BY <1>0, <1>1, ToSetAppend DEF Submit, flushes
  <2>2. \A f \in Flusher : j \notin covered[f]
    BY <1>0, <1>1 DEF Submit, CoveredSubmitted
  <2> QED
    BY <1>0, <2>1, <2>2 DEF FlushDrains
<1>2. ASSUME Get PROVE FlushDrains'
  <2>1. ToSet(queue') \subseteq ToSet(queue) /\ UNCHANGED <<flush, covered>>
    BY <1>0, <1>2, ToSetTail DEF Get, flushes
  <2> QED
    BY <1>0, <2>1 DEF FlushDrains
<1>3. ASSUME NEW f \in Flusher, Flush(f) PROVE FlushDrains'
  <2>1. /\ queue' = queue /\ flush'[f] = "waiting"
        /\ \A g \in Flusher : g # f => flush'[g] = flush[g] /\ covered'[g] = covered[g]
    BY <1>0, <1>3 DEF Flush
  <2> QED
    BY <1>0, <2>1 DEF FlushDrains
<1>4. ASSUME NEW f \in Flusher, FlushReturns(f) PROVE FlushDrains'
  <2>1. /\ queue' = <<>> /\ ToSet(<<>>) = {}
    BY <1>4 DEF FlushReturns, ToSet
  <2> QED
    BY <2>1 DEF FlushDrains
<1>5. ASSUME UNCHANGED <<queue, covered>>,
             \A f \in Flusher : flush'[f] = "returned" => flush[f] = "returned"
      PROVE  FlushDrains'
  BY <1>0, <1>5 DEF FlushDrains
<1>6. ASSUME NEW f \in Flusher, FlushTimesOut(f) PROVE FlushDrains'
  BY <1>0, <1>5, <1>6 DEF FlushTimesOut
<1>7. ASSUME LoopCloses PROVE FlushDrains'
  BY <1>0, <1>5, <1>7 DEF LoopCloses
<1>8. ASSUME UNCHANGED <<queue, flush, covered>> PROVE FlushDrains'
  BY <1>5, <1>8
<1> QED
  BY <1>1, <1>2, <1>3, <1>4, <1>6, <1>7, <1>8
     DEF Next, RunStep, DispatchStep, Start, Stop, StopReturns, Loop, Timeout, CreateTask, Acquire,
         Answered, CallRaises, CallbackRaises, CallbackReturns, Die, Finish, flushes, vars

LEMMA INext == IInv /\ [Next]_vars => IInv'
BY TypeNext, PermitsNext, QueuedNext, ToldNext, CoveredNext, DrainsNext DEF IInv

-----------------------------------------------------------------------------
\* A job is queued once, held by _run or with its task, and a flush covers only
\* jobs that were submitted before it.
THEOREM RunnerInvariant == Spec => []IInv
<1>1. Init => IInv
  BY IInit
<1>2. IInv /\ [Next]_vars => IInv'
  BY INext
<1> QED
  BY <1>1, <1>2, PTL DEF Spec

\* The state of the runner is of its type: among it, that the permits left are
\* those that no dispatched job holds, and that a callback is called with an
\* answer at most once and with None at most once, in this order.
THEOREM TypeCorrect == Spec => []TypeOK
<1>1. IInv => TypeOK
  BY DEF IInv
<1> QED
  BY <1>1, RunnerInvariant, PTL

\* A flush that returns has seen every job that was queued before it taken off
\* the queue (batch_runner.BatchRunner.flush).
THEOREM FlushesDrain == Spec => []FlushDrains
<1>1. IInv => FlushDrains
  BY DEF IInv
<1> QED
  BY <1>1, RunnerInvariant, PTL
=============================================================================
