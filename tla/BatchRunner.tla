----------------------------- MODULE BatchRunner -----------------------------
(***************************************************************************)
(* BatchRunner (semantic_analysis/llm/batch_runner.py): a queue of jobs,   *)
(* the task _run that takes them off and creates a task _dispatch for      *)
(* each, and a semaphore that bounds how many of those are in the client.  *)
(* A step runs from one await that may suspend to the next, as asyncio     *)
(* schedules.                                                              *)
(*                                                                         *)
(* What the client answers is an oracle (see LLMClient), and so is whether *)
(* a callback raises.                                                      *)
(***************************************************************************)
EXTENDS Naturals, Sequences, FiniteSets, SequencesExt

CONSTANTS
  Job,
  Flusher,     \* calls of flush
  Timed,       \* those given a timeout
  MaxInflight, \* permits of _sem
  NoJob,
  MaxRaises    \* bound: calls of the client and callbacks that raise

ASSUME NamesAssumption == NoJob \notin Job /\ Timed \subseteq Flusher
ASSUME BoundsAssumption == MaxInflight \in Nat \ {0} /\ MaxRaises \in Nat

VARIABLES
  queue,    \* _queue
  run,      \* where _run is; "off" before start
  held,     \* the job that get has taken off and _run not yet dispatched
  stopping, \* _stopping
  stop,     \* the call of stop
  task,     \* task[j]: where _dispatch(j) is
  free,     \* the permits left in _sem
  told,     \* told[j]: what job.callback was called with, in order
  flush,    \* flush[f]: where the call is
  covered,  \* covered[f]: the jobs that were queued when it began
  raises

runner == <<run, held>>
jobs == <<task, free, told>>
flushes == <<flush, covered>>
vars == <<queue, runner, stopping, stop, jobs, flushes, raises>>

Init ==
  /\ queue = <<>>
  /\ run = "off" /\ held = NoJob
  /\ stopping = FALSE /\ stop = "uncalled"
  /\ task = [j \in Job |-> "unsubmitted"]
  /\ free = MaxInflight
  /\ told = [j \in Job |-> <<>>]
  /\ flush = [f \in Flusher |-> "uncalled"]
  /\ covered = [f \in Flusher |-> {}]
  /\ raises = 0

\* asyncio.run has ended and cancelled what was left.
Closed == run = "closed"

-----------------------------------------------------------------------------
\* The callers.
Submit(j) ==
  /\ task[j] = "unsubmitted" /\ ~Closed
  /\ queue' = Append(queue, j)
  /\ task' = [task EXCEPT ![j] = "queued"]
  /\ UNCHANGED <<runner, stopping, stop, free, told, flushes, raises>>

\* start does nothing the second time, not even after stop.
Start ==
  /\ run = "off"
  /\ run' = "loop"
  /\ UNCHANGED <<queue, held, stopping, stop, jobs, flushes, raises>>

Stop ==
  /\ stop = "uncalled"
  /\ stopping' = TRUE
  /\ stop' = IF run = "off" THEN "returned" ELSE "waiting"
  /\ UNCHANGED <<queue, runner, jobs, flushes, raises>>

StopReturns ==
  /\ stop = "waiting" /\ run = "ended"
  /\ stop' = "returned"
  /\ UNCHANGED <<queue, runner, stopping, jobs, flushes, raises>>

Flush(f) ==
  /\ flush[f] = "uncalled" /\ ~Closed
  /\ flush' = [flush EXCEPT ![f] = "waiting"]
  /\ covered' = [covered EXCEPT ![f] = ToSet(queue)]
  /\ UNCHANGED <<queue, runner, stopping, stop, jobs, raises>>

\* _drain looks every 50 ms whether the queue is empty.
FlushReturns(f) ==
  /\ flush[f] = "waiting"
  /\ queue = <<>>
  /\ flush' = [flush EXCEPT ![f] = "returned"]
  /\ UNCHANGED <<queue, runner, stopping, stop, jobs, covered, raises>>

\* Faulty: the timeout is swallowed.
FlushGivesUp(f) ==
  /\ flush[f] = "waiting" /\ f \in Timed
  /\ flush' = [flush EXCEPT ![f] = "returned"]
  /\ UNCHANGED <<queue, runner, stopping, stop, jobs, covered, raises>>

FlushTimesOut(f) ==
  /\ flush[f] = "waiting" /\ f \in Timed
  /\ flush' = [flush EXCEPT ![f] = "raised"]
  /\ UNCHANGED <<queue, runner, stopping, stop, jobs, covered, raises>>

-----------------------------------------------------------------------------
\* _run
Loop ==
  /\ run = "loop"
  /\ run' = IF stopping THEN "ended" ELSE "get"
  /\ UNCHANGED <<queue, held, stopping, stop, jobs, flushes, raises>>

\* wait_for runs get in a task of its own: _run has the job a step later.
Get ==
  /\ run = "get" /\ queue # <<>>
  /\ held' = Head(queue)
  /\ queue' = Tail(queue)
  /\ run' = "got"
  /\ UNCHANGED <<stopping, stop, jobs, flushes, raises>>

\* Faulty: get is awaited without a timeout.
NoTimeout ==
  /\ run = "get" /\ FALSE
  /\ UNCHANGED vars

\* After a second without a job; nothing is lost.
Timeout ==
  /\ run = "get"
  /\ run' = "loop"
  /\ UNCHANGED <<queue, held, stopping, stop, jobs, flushes, raises>>

CreateTask ==
  /\ run = "got"
  /\ task' = [task EXCEPT ![held] = "acquire"]
  /\ held' = NoJob
  /\ run' = "loop"
  /\ UNCHANGED <<queue, stopping, stop, free, told, flushes, raises>>

-----------------------------------------------------------------------------
\* _dispatch
Raising == raises < MaxRaises /\ raises' = raises + 1

CallBack(j, with) ==
  /\ told' = [told EXCEPT ![j] = Append(@, with)]
  /\ task' = [task EXCEPT ![j] = IF with = "answer" THEN "callback" ELSE "callback_none"]

Acquire(j) ==
  /\ task[j] = "acquire" /\ free > 0
  /\ free' = free - 1
  /\ task' = [task EXCEPT ![j] = "call"]
  /\ UNCHANGED <<queue, runner, stopping, stop, told, flushes, raises>>

Answered(j) ==
  /\ task[j] = "call"
  /\ CallBack(j, "answer")
  /\ UNCHANGED <<queue, runner, stopping, stop, free, flushes, raises>>

CallRaises(j) ==
  /\ task[j] = "call"
  /\ Raising
  /\ CallBack(j, "none")
  /\ UNCHANGED <<queue, runner, stopping, stop, free, flushes>>

\* Faulty: the answer is delivered again.
Redeliver(j) ==
  /\ task[j] = "callback"
  /\ Raising
  /\ CallBack(j, "answer")
  /\ UNCHANGED <<queue, runner, stopping, stop, free, flushes>>

\* The same except clause catches what the callback raises.
CallbackRaises(j) ==
  /\ task[j] = "callback"
  /\ Raising
  /\ CallBack(j, "none")
  /\ UNCHANGED <<queue, runner, stopping, stop, free, flushes>>

Finish(j) ==
  /\ free' = free + 1
  /\ task' = [task EXCEPT ![j] = "done"]
  /\ UNCHANGED <<queue, runner, stopping, stop, told, flushes>>

CallbackReturns(j) ==
  /\ task[j] \in {"callback", "callback_none"}
  /\ Finish(j)
  /\ UNCHANGED raises

\* Faulty: the permit is released by the last line of _dispatch.
DieHolding(j) ==
  /\ task[j] = "callback_none"
  /\ Raising
  /\ task' = [task EXCEPT ![j] = "done"]
  /\ UNCHANGED <<queue, runner, stopping, stop, free, told, flushes>>

\* Nobody awaits the task: the exception ends there.
Die(j) ==
  /\ task[j] = "callback_none"
  /\ Raising
  /\ Finish(j)

-----------------------------------------------------------------------------
InDispatch == {"acquire", "call", "callback", "callback_none"}

\* Once stop has returned the program may end: asyncio.run cancels the tasks
\* that are left, and CancelledError is no Exception: no callback is told.
LoopCloses ==
  /\ stop = "returned" /\ run \in {"off", "ended"}
  /\ run' = "closed"
  /\ task' = [j \in Job |-> IF task[j] \in InDispatch THEN "cancelled" ELSE task[j]]
  /\ free' = MaxInflight
  /\ flush' = [f \in Flusher |-> IF flush[f] = "waiting" THEN "cancelled" ELSE flush[f]]
  /\ UNCHANGED <<queue, held, stopping, stop, told, covered, raises>>

RunStep == Loop \/ Get \/ Timeout \/ CreateTask

DispatchStep(j) ==
  \/ Acquire(j) \/ Answered(j) \/ CallRaises(j)
  \/ CallbackRaises(j) \/ CallbackReturns(j) \/ Die(j)

Next ==
  \/ Start \/ Stop \/ StopReturns \/ LoopCloses \/ RunStep
  \/ \E j \in Job : Submit(j) \/ DispatchStep(j)
  \/ \E f \in Flusher : Flush(f) \/ FlushReturns(f) \/ FlushTimesOut(f)
  \/ Closed /\ UNCHANGED vars

Spec == Init /\ [][Next]_vars

\* The event loop runs what is ready, the client's calls and the callbacks end,
\* and a get that finds a job on the queue takes it at once.
FairSpec ==
  /\ Spec
  /\ WF_vars(RunStep) /\ SF_vars(Get) /\ WF_vars(StopReturns)
  /\ \A j \in Job : WF_vars(DispatchStep(j))
  /\ \A f \in Flusher : WF_vars(FlushReturns(f))

-----------------------------------------------------------------------------
\* A callback is called at most twice, the second time with None after it
\* raised over the answer; permits are those not in use.
InClient == {j \in Job : task[j] \in InDispatch \ {"acquire"}}

TypeOK ==
  /\ queue \in Seq(Job)
  /\ run \in {"off", "loop", "get", "got", "ended", "closed"}
  /\ held \in Job \cup {NoJob}
  /\ stopping \in BOOLEAN
  /\ stop \in {"uncalled", "waiting", "returned"}
  /\ task \in [Job -> {"unsubmitted", "queued", "done", "cancelled"} \cup InDispatch]
  /\ free = MaxInflight - Cardinality(InClient)
  /\ told \in [Job -> {<<>>, <<"answer">>, <<"none">>, <<"answer", "none">>}]
  /\ flush \in [Flusher -> {"uncalled", "waiting", "returned", "raised", "cancelled"}]
  /\ covered \in [Flusher -> SUBSET Job]
  /\ raises \in 0..MaxRaises

\* What a flush that returns can be relied on for: whatever was queued when it
\* began has been taken off - though its callback may not have been called.
FlushDrains ==
  \A f \in Flusher : flush[f] = "returned" => covered[f] \cap ToSet(queue) = {}

\* What makes these inductive: a job waits in one place, on the queue once, or
\* held by _run, ...
QueuedOnce ==
  /\ \A i \in DOMAIN queue : task[queue[i]] = "queued"
  /\ \A i, k \in DOMAIN queue : queue[i] = queue[k] => i = k
  /\ held # NoJob => run = "got" /\ task[held] = "queued" /\ held \notin ToSet(queue)

\* ... it is told what came of it only then, and a flush covers nothing else.
ToldAfterCall ==
  \A j \in Job :
    /\ task[j] \in {"unsubmitted", "queued", "acquire", "call"} => told[j] = <<>>
    /\ task[j] = "callback" => told[j] = <<"answer">>

CoveredSubmitted == \A f \in Flusher : \A j \in covered[f] : task[j] # "unsubmitted"

IInv ==
  /\ TypeOK
  /\ IsFiniteSet(InClient) /\ free \in 0..MaxInflight
  /\ QueuedOnce /\ ToldAfterCall /\ CoveredSubmitted
  /\ FlushDrains

\* A job that was taken off the queue is called back in the end, however many
\* calls and callbacks raise while it waits for a permit, unless the program
\* ends first.
TakenAnswered ==
  \A j \in Job : (held = j) ~> (told[j] # <<>> \/ task[j] = "cancelled")

\* stop returns, whether the queue is empty or not; flush ends while the runner
\* runs.  Once it is stopping, a flush may wait for ever.
WaitsEnd ==
  /\ stop = "waiting" ~> stop = "returned"
  /\ \A f \in Flusher :
       (flush[f] = "waiting" /\ run # "off") ~> (flush[f] # "waiting" \/ stopping)

\* The module's docstring: `flush()` is a synchronous flush.
FlushSynchronous ==
  \A f \in Flusher : flush[f] = "returned" => \A j \in covered[f] : told[j] # <<>>
=============================================================================
