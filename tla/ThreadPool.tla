----------------------------- MODULE ThreadPool -----------------------------
(***************************************************************************)
(* The thread pool that verifies blocks and transactions (common/          *)
(* threadpool.cpp).  Threads of the node, the clients, submit jobs with a  *)
(* waiter and wait for them; jobs may submit jobs and wait in turn.  There *)
(* are max - 1 workers; a thread that waits runs whatever is queued, its   *)
(* own jobs or not, until the queue is empty.                              *)
(*                                                                         *)
(* A thread has a stack of frames, one per job in progress, nested by      *)
(* waits and by submissions that run at once.  A section under a mutex is  *)
(* one step.  The waiter of a frame is named after its client or job.      *)
(*                                                                         *)
(* The pool is never stopped: destroy runs when the program ends, and      *)
(* recycle has no caller.  Every job has a waiter, and every waiter is     *)
(* waited for once.  The wait in its destructor, left out, then finds its  *)
(* counter at 0; it would only run what others have queued.                *)
(***************************************************************************)
EXTENDS Naturals, Sequences, FiniteSets, Functions

(* A sequence without its last element, and that element.                  *)
Front(s) == SubSeq(s, 1, Len(s) - 1)
Last(s) == s[Len(s)]

CONSTANTS
    Client, Worker, Job,
    Work,         \* Work[w]: the jobs that client or job w submits, in order
    Leaf,         \* jobs submitted as leaves: they submit nothing
    Throws        \* jobs that end with an exception

Thread == Client \union Worker
max == Cardinality(Worker) + 1
Owner(j) == CHOOSE w \in Client \union Job : j \in Range(Work[w])

ASSUME WorkAssumption ==
    /\ Client \cap (Worker \union Job) = {} /\ Worker \cap Job = {}
    /\ Work \in [Client \union Job -> Seq(Job)]
    /\ Leaf \subseteq Job /\ \A j \in Leaf : Work[j] = <<>>
    /\ \A j \in Job : \E w \in Client \union Job : j \in Range(Work[w])
    /\ \A v, w \in Client \union Job : \A i \in DOMAIN Work[v], k \in DOMAIN Work[w] :
          Work[v][i] = Work[w][k] => v = w /\ i = k

VARIABLES
    queue,        \* the jobs that wait for a thread
    active,       \* threads that run a job of the queue
    stack,        \* stack[t]: the frames of t, the innermost last
    depth,        \* thread-local nesting of jobs
    is_leaf,      \* thread-local: the job in progress is a leaf
    asleep,       \* workers that wait on has_work
    num,          \* num[w]: jobs of waiter w that have not ended
    error,        \* waiters whose error_flag is set
    ended,        \* ended[j]: how j ended, if it has
    answer        \* answer[w]: what wait of waiter w returned, if it has

vars == <<queue, active, stack, depth, is_leaf, asleep, num, error, ended, answer>>

(* A frame submits, flushes the queue, blocks on its waiter and is parked   *)
(* on its condition variable, or it is at its end; a job of the queue then  *)
(* has the mutex to take again.                                             *)
Frame(w, from) == [who |-> w, next |-> 1, from |-> from, failed |-> FALSE,
                   phase |-> IF Work[w] = <<>> THEN "end" ELSE "submit"]

Init ==
    /\ queue = <<>> /\ active = 0 /\ asleep = {}
    /\ stack = [t \in Thread |-> IF t \in Client THEN <<Frame(t, "client")>> ELSE <<>>]
    /\ depth = [t \in Thread |-> 0]
    /\ is_leaf = [t \in Thread |-> FALSE]
    /\ num = [w \in Client \union Job |-> 0]
    /\ error = {}
    /\ ended = [j \in Job |-> "no"]
    /\ answer = [w \in Client \union Job |-> "none"]

Top(t) == Last(stack[t])
In(t, phase) == stack[t] # <<>> /\ Top(t).phase = phase
SetTop(t, f) == Append(Front(stack[t]), f)

(* Faulty: nobody is told of the new job.                                   *)
NotifyNobody == asleep' = asleep

(* has_work.notify_one                                                      *)
NotifyOne ==
    \/ asleep = {} /\ UNCHANGED asleep
    \/ \E u \in asleep : asleep' = asleep \ {u}

(* threadpool::submit: a leaf always queues, in front; another job runs at  *)
(* once when all threads run and work is waiting, or inside a job.          *)
Submit(t) ==
    /\ In(t, "submit")
    /\ LET f == Top(t)
           j == Work[f.who][f.next]
           rest == [f EXCEPT !.next = @ + 1,
                             !.phase = IF f.next = Len(Work[f.who]) THEN "flush" ELSE "submit"]
       IN  IF is_leaf[t]
           THEN /\ stack' = [stack EXCEPT ![t] = SetTop(t, [f EXCEPT !.phase = "flush", !.failed = TRUE])]
                /\ UNCHANGED <<queue, active, depth, is_leaf, asleep, num>>
           ELSE IF j \notin Leaf /\ ((active = max /\ queue # <<>>) \/ depth[t] > 0)
           THEN /\ stack' = [stack EXCEPT ![t] = Append(SetTop(t, rest), Frame(j, "inline"))]
                /\ depth' = [depth EXCEPT ![t] = @ + 1]
                /\ is_leaf' = [is_leaf EXCEPT ![t] = FALSE]
                /\ UNCHANGED <<queue, active, asleep, num>>
           ELSE /\ stack' = [stack EXCEPT ![t] = SetTop(t, rest)]
                /\ num' = [num EXCEPT ![f.who] = @ + 1]
                /\ queue' = IF j \in Leaf THEN <<j>> \o queue ELSE Append(queue, j)
                /\ NotifyOne
                /\ UNCHANGED <<active, depth, is_leaf>>
    /\ UNCHANGED <<error, ended, answer>>

(* threadpool::run takes the next job; of a worker, or of a thread in wait. *)
Take(t) ==
    /\ queue # <<>>
    /\ (t \in Worker \ asleep /\ stack[t] = <<>>) \/ In(t, "flush")
    /\ active' = active + 1
    /\ queue' = Tail(queue)
    /\ stack' = [stack EXCEPT ![t] = Append(@, Frame(Head(queue), "queue"))]
    /\ depth' = [depth EXCEPT ![t] = @ + 1]
    /\ is_leaf' = [is_leaf EXCEPT ![t] = Head(queue) \in Leaf]
    /\ UNCHANGED <<asleep, num, error, ended, answer>>

(* run(false) finds no work.                                                *)
Sleep(t) ==
    /\ queue = <<>> /\ t \in Worker \ asleep /\ stack[t] = <<>>
    /\ asleep' = asleep \union {t}
    /\ UNCHANGED <<queue, active, stack, depth, is_leaf, num, error, ended, answer>>

(* run(true) finds no work.                                                 *)
Flushed(t) ==
    /\ queue = <<>> /\ In(t, "flush")
    /\ stack' = [stack EXCEPT ![t] = SetTop(t, [Top(t) EXCEPT !.phase = "block"])]
    /\ UNCHANGED <<queue, active, depth, is_leaf, asleep, num, error, ended, answer>>

(* Faulty: that the queue is empty is taken for the end of all jobs.        *)
WaitForQueueOnly(t) ==
    /\ In(t, "block")
    /\ stack' = [stack EXCEPT ![t] = SetTop(t, [Top(t) EXCEPT !.phase = "end"])]
    /\ answer' = [answer EXCEPT ![Top(t).who] = IF Top(t).who \in error THEN "error" ELSE "done"]
    /\ UNCHANGED <<queue, active, depth, is_leaf, asleep, num, error, ended>>

(* The rest of waiter::wait                                                 *)
Wait(t) ==
    /\ In(t, "block")
    /\ LET w == Top(t).who
       IN  IF num[w] # 0
           THEN /\ stack' = [stack EXCEPT ![t] = SetTop(t, [Top(t) EXCEPT !.phase = "parked"])]
                /\ UNCHANGED answer
           ELSE /\ stack' = [stack EXCEPT ![t] = SetTop(t, [Top(t) EXCEPT !.phase = "end"])]
                /\ answer' = [answer EXCEPT ![w] = IF w \in error THEN "error" ELSE "done"]
    /\ UNCHANGED <<queue, active, depth, is_leaf, asleep, num, error, ended>>

(* Faulty: the last dec tells nobody.                                       *)
WakeNobody(st, w, n) == st

(* waiter::dec: whoever is parked on the condition variable looks again     *)
(* when the count n has reached zero.                                       *)
Wake(st, w, n) ==
    [t \in Thread |->
        IF n = 0 /\ st[t] # <<>> /\ Last(st[t]).phase = "parked" /\ Last(st[t]).who = w
        THEN Append(Front(st[t]), [Last(st[t]) EXCEPT !.phase = "block"])
        ELSE st[t]]

(* Faulty: is_leaf is not reset.                                            *)
LeafStays(t) == is_leaf' = is_leaf
LeafReset(t) == is_leaf' = [is_leaf EXCEPT ![t] = FALSE]

(* A job of the queue ends: run catches an exception, sets the error flag   *)
(* of the waiter and counts the job as ended.                               *)
EndQueued(t) ==
    /\ In(t, "end") /\ Top(t).from = "queue"
    /\ LET j == Top(t).who
           threw == j \in Throws \/ Top(t).failed
           relock == [stack EXCEPT ![t] = SetTop(t, [Top(t) EXCEPT !.phase = "relock"])]
       IN  /\ error' = IF threw THEN error \union {Owner(j)} ELSE error
           /\ ended' = [ended EXCEPT ![j] = IF threw THEN "threw" ELSE "ok"]
           /\ num' = [num EXCEPT ![Owner(j)] = @ - 1]
           /\ stack' = Wake(relock, Owner(j), num'[Owner(j)])
    /\ depth' = [depth EXCEPT ![t] = @ - 1]
    /\ LeafReset(t)
    /\ UNCHANGED <<queue, active, asleep, answer>>

(* run goes on with the mutex.                                              *)
Relock(t) ==
    /\ In(t, "relock")
    /\ active' = active - 1
    /\ stack' = [stack EXCEPT ![t] = Front(@)]
    /\ UNCHANGED <<queue, depth, is_leaf, asleep, num, error, ended, answer>>

(* A job that submit ran at once ends.  An exception leaves submit without  *)
(* resetting depth and ends the frame below, whose waiter waits in its      *)
(* destructor.                                                              *)
EndInline(t) ==
    /\ In(t, "end") /\ Top(t).from = "inline"
    /\ LET j == Top(t).who
           threw == j \in Throws \/ Top(t).failed
           below == Front(stack[t])
       IN  /\ stack' = [stack EXCEPT ![t] =
                 IF threw THEN Append(Front(below), [Last(below) EXCEPT !.phase = "flush", !.failed = TRUE])
                 ELSE below]
           /\ ended' = [ended EXCEPT ![j] = IF threw THEN "raised" ELSE "ok"]
           /\ depth' = IF threw THEN depth ELSE [depth EXCEPT ![t] = @ - 1]
           /\ IF threw THEN UNCHANGED is_leaf ELSE LeafReset(t)
    /\ UNCHANGED <<queue, active, asleep, num, error, answer>>

(* A client is done.                                                        *)
EndClient(t) ==
    /\ In(t, "end") /\ Top(t).from = "client"
    /\ stack' = [stack EXCEPT ![t] = <<>>]
    /\ UNCHANGED <<queue, active, depth, is_leaf, asleep, num, error, ended, answer>>

Step(t) ==
    \/ Submit(t) \/ Take(t) \/ Sleep(t) \/ Flushed(t) \/ Wait(t)
    \/ EndQueued(t) \/ Relock(t) \/ EndInline(t) \/ EndClient(t)

Next == \E t \in Thread : Step(t)

(* The operating system runs every thread.                                  *)
FairSpec == Init /\ [][Next]_vars /\ \A t \in Thread : WF_vars(Step(t))

-----------------------------------------------------------------------------
Running(j) == \E t \in Thread : \E i \in DOMAIN stack[t] :
                 stack[t][i].who = j /\ stack[t][i].phase # "relock"

(* When wait returns, no job submitted with the waiter is queued or still   *)
(* running, on whichever thread, and the answer says whether one of them    *)
(* threw; also when the destructor waits after an exception.                *)
WaitMeansDone ==
    \A w \in Client \union Job : answer[w] # "none" =>
        /\ \A j \in Range(Work[w]) : j \notin Range(queue) /\ ~Running(j)
        /\ (answer[w] = "error") = (\E j \in Range(Work[w]) : ended[j] = "threw")

(* is_leaf says whether the job in progress is a leaf, however jobs nest,   *)
(* so that submit never refuses a job that may submit.                      *)
LeafKnown ==
    \A t \in Thread :
        is_leaf[t] = (stack[t] # <<>> /\ Top(t).phase # "relock" /\ Top(t).who \in Leaf)

(* Queued work never waits for a thread while all workers, if there are     *)
(* any, sleep: the notification of one worker per job is enough.            *)
NoLostWakeup == queue # <<>> /\ Worker # {} => Worker \ asleep # {}

(* Every wait returns, though waits nest in jobs that threads run while     *)
(* they wait, and the workers may all be waiting too.                       *)
Returns == \A c \in Client : <>(stack[c] = <<>>)
=============================================================================
