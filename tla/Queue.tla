------------------------------- MODULE Queue --------------------------------
(***************************************************************************)
(* Jobs of packages/queue whose handle() sends mail: QueueManager puts     *)
(* them in queues, one worker process per queue (queue:work) attempts      *)
(* them. BullMQ itself is external: it keeps the jobs, counts the failed   *)
(* attempts, and hands the jobs of a process that died to another one.     *)
(***************************************************************************)
EXTENDS Mail, Sequences

CONSTANTS Job, QueueName,
          QueueOf,     \* Job -> the queue of its class
          Tries,       \* Job -> jobOptions.attempts
          Registered,  \* the jobs whose class the workers registered
          Slots,       \* WorkerOptions.concurrency
          MaxSignals, MaxDeaths  \* bounds: what befalls worker processes

\* The calls of sendBulk: one per attempt, and every death repeats an attempt.
Attempts == UNION {{j} \X (1..(Tries[j] + MaxDeaths)) : j \in Job}

ASSUME QueueAssumption ==
    /\ QueueOf \in [Job -> QueueName] /\ Tries \in [Job -> Nat \ {0}]
    /\ Registered \subseteq Job /\ Slots \in Nat \ {0} /\ MaxSignals \in Nat /\ MaxDeaths \in Nat
    /\ Attempts \subseteq Batch

VARIABLES bulk,     \* the dispatchBulk of all jobs: what became of each queue's addBulk
          job,      \* Job -> its record in BullMQ
          hook,     \* Job -> its failed() hook: "none", "running", "done", "lost",
                    \* or "reported" to onUnknownJob
          worker,   \* QueueName -> "down", "up" or "draining"
          signals, deaths

ends == <<signals, deaths>>
vars == <<calls, bulk, job, hook, worker, ends>>

Init ==
    /\ MailInit
    /\ bulk = [q \in QueueName |-> "adding"]
    /\ job = [j \in Job |-> [state |-> "new", made |-> 0, runs |-> 0]]
    /\ hook = [j \in Job |-> "none"]
    /\ worker = [q \in QueueName |-> "down"]
    /\ signals = 0 /\ deaths = 0

\* dispatchBulk: one addBulk per queue, at once; one that fails leaves the others be.
AddBulk(q) ==
    /\ bulk[q] = "adding"
    /\ bulk' = [bulk EXCEPT ![q] = "added"]
    /\ job' = [j \in Job |-> IF QueueOf[j] = q THEN [job[j] EXCEPT !.state = "waiting"]
                             ELSE job[j]]
    /\ UNCHANGED <<calls, hook, worker, ends>>

AddBulkFails(q) ==
    /\ bulk[q] = "adding"
    /\ bulk' = [bulk EXCEPT ![q] = "failed"]
    /\ UNCHANGED <<calls, job, hook, worker, ends>>
-----------------------------------------------------------------------------
Active(q) == {j \in Job : QueueOf[j] = q /\ job[j].state = "active"}
Attempt(j) == <<j, job[j].runs>>

\* QueueWorker.start, in a process of its own.
Start(q) ==
    /\ worker[q] = "down"
    /\ worker' = [worker EXCEPT ![q] = "up"]
    /\ UNCHANGED <<calls, bulk, job, hook, ends>>

\* BullMQ hands a job over, and process() calls handle(), which calls sendBulk.
Process(j) ==
    /\ worker[QueueOf[j]] = "up" /\ job[j].state = "waiting"
    /\ Cardinality(Active(QueueOf[j])) < Slots
    /\ job' = [job EXCEPT ![j].state = "active", ![j].runs = @ + 1]
    /\ IF j \in Registered THEN SendBulk(<<j, job[j].runs + 1>>) ELSE UNCHANGED calls
    /\ UNCHANGED <<bulk, hook, worker, ends>>

Completes(j) ==
    /\ job[j].state = "active" /\ j \in Registered /\ calls[Attempt(j)].result = "resolved"
    /\ job' = [job EXCEPT ![j].state = "completed"]
    /\ UNCHANGED <<calls, bulk, hook, worker, ends>>

\* Seeded defect: the attempt that just failed is not counted as made.
HookEveryTime(j, made) == IF j \in Registered THEN "running" ELSE "reported"

\* handleFailed, of the failed event that follows each failed attempt.
HandleFailed(j, made) ==
    IF made < Tries[j] THEN hook[j] ELSE IF j \in Registered THEN "running" ELSE "reported"

\* process() throws, for a class nobody registered or because handle() did. BullMQ counts
\* the attempt, and retries after the backoff while it has attempts left.
Fails(j) ==
    /\ job[j].state = "active"
    /\ j \in Registered => calls[Attempt(j)].result = "rejected"
    /\ job' = [job EXCEPT ![j].made = @ + 1,
                  ![j].state = IF job[j].made + 1 < Tries[j] THEN "waiting" ELSE "failed"]
    /\ hook' = [hook EXCEPT ![j] = HandleFailed(j, job[j].made + 1)]
    /\ UNCHANGED <<calls, bulk, worker, ends>>

\* failed() settles; what it throws is logged.
HookEnds(j) ==
    /\ hook[j] = "running"
    /\ hook' = [hook EXCEPT ![j] = "done"]
    /\ UNCHANGED <<calls, bulk, job, worker, ends>>

\* The first SIGINT or SIGTERM: worker.stop(), which takes no more jobs.
Signal(q) ==
    /\ worker[q] = "up" /\ signals < MaxSignals
    /\ worker' = [worker EXCEPT ![q] = "draining"]
    /\ signals' = signals + 1
    /\ UNCHANGED <<calls, bulk, job, hook, deaths>>

\* The process of q ends; a job it was at is found stalled, and waits again.
Exit(q) ==
    /\ worker' = [worker EXCEPT ![q] = "down"]
    /\ Abandon({b \in Batch : b[1] \in Job /\ QueueOf[b[1]] = q})
    /\ job' = [j \in Job |-> IF j \in Active(q) THEN [job[j] EXCEPT !.state = "waiting"]
                             ELSE job[j]]
    /\ hook' = [j \in Job |-> IF QueueOf[j] = q /\ hook[j] = "running" THEN "lost"
                              ELSE hook[j]]
    /\ UNCHANGED bulk

\* close() has waited for the jobs that are active, and for nothing else; then exit(0).
Drained(q) == worker[q] = "draining" /\ Active(q) = {} /\ Exit(q) /\ UNCHANGED ends

\* A second signal (exit 130) or a crash.
Dies(q) ==
    /\ worker[q] # "down" /\ deaths < MaxDeaths /\ Exit(q)
    /\ deaths' = deaths + 1 /\ UNCHANGED signals

Sends == \E b \in Batch : \E k \in DOMAIN calls[b].lanes :
             /\ SendSucceeds(b, k) \/ SendFails(b, k)
             /\ UNCHANGED <<bulk, job, hook, worker, ends>>

Works ==
    \/ \E q \in QueueName : Start(q) \/ Drained(q)
    \/ \E j \in Job : Process(j) \/ Completes(j) \/ Fails(j) \/ HookEnds(j)
    \/ Sends

Next == \/ \E q \in QueueName : AddBulk(q) \/ AddBulkFails(q) \/ Signal(q) \/ Dies(q)
        \/ Works

Spec == Init /\ [][Next]_vars /\ WF_vars(Works)
-----------------------------------------------------------------------------
\* "Called when all retry attempts are exhausted" (Job.failed), and only then: once, for a
\* job that no attempt will complete, with `tries' attempts that really failed. A worker told
\* to stop finishes what it has begun: attempts are cut off by deaths alone.
FailedAfterAllTries ==
    /\ \A j \in Job :
           /\ hook[j] # "none" => job[j].state = "failed" /\ job[j].made = Tries[j]
           /\ job[j].state = "failed" /\ j \in Registered =>
                 Tries[j] <= Cardinality({n \in 1..job[j].runs :
                                             calls[<<j, n>>].result = "rejected"})
    /\ Cardinality({b \in Batch : calls[b].result = "abandoned"}) <= Slots * deaths

\* Every job that was added ends, though the dispatchBulk that added it may have rejected
\* because of another queue, and though processes stop or die under it.
AddedJobsEnd ==
    \A j \in Job : (job[j].state # "new") ~>
        (job[j].state \in {"completed", "failed"} /\ hook[j] # "running")
=============================================================================
