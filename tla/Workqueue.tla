------------------------------ MODULE Workqueue ------------------------------
(***************************************************************************)
(* gold's scheduler: the Workqueue (gold/workqueue.cc), its thread pool    *)
(* (gold/workqueue-threads.cc) and the Task_tokens (gold/token.h).         *)
(*                                                                         *)
(* Every member below belongs to the workqueue lock.  A section of code    *)
(* that holds it is one step, except for release_locks, which is a step    *)
(* per token with lock_ held in between.  What a task does to the          *)
(* workqueue while it runs is its Program: calls of queue, queue_soon,     *)
(* queue_next, set_thread_count and add_blocker, each a step of its own.   *)
(***************************************************************************)
EXTENDS Integers, Sequences, FiniteSetsExt

CONSTANTS Task,        \* the tasks of a link
          Token,       \* their Task_tokens
          Blocker,     \* the tokens with is_blocker_
          WaitsFor,    \* task -> the tokens is_runnable looks at, in order
          Locks,       \* task -> the tokens locks() adds, in order
          Owns,        \* task -> the tokens its destructor deletes
          Program(_, _), \* the sequences of calls that run of a task may make,
                       \* given the tasks queued so far
          Main,        \* the caller of process(0), before it calls it
          NoTask, NoToken,
          MaxThreads   \* bound on the threads ever created

NoThread == -1
Thread   == 0..MaxThreads

max_task_count == 4    \* of a Task_locker

(* A task that waits for a write token takes it.                           *)
ASSUME TokenAssumption ==
    /\ Blocker \subseteq Token
    /\ NoToken \notin Token
    /\ {Main, NoTask} \cap Task = {}
    /\ Main # NoTask
ASSUME TaskAssumption ==
    /\ WaitsFor \in [Task -> Seq(Token)]
    /\ Locks \in [Task -> Seq(Token)]
    /\ Owns \in [Task -> SUBSET Token]
    /\ \A t \in Task : /\ Len(Locks[t]) <= max_task_count
                       /\ \A i \in DOMAIN WaitsFor[t] :
                            WaitsFor[t][i] \notin Blocker =>
                              \E j \in DOMAIN Locks[t] : Locks[t][j] = WaitsFor[t][i]
ASSUME ThreadAssumption == MaxThreads \in Nat

(* The calls that run of a task makes to the workqueue.                    *)
CallType == [op : {"queue", "queue_soon", "queue_next"}, arg : Task]
              \cup [op : {"set_thread_count"}, arg : Nat]
              \cup [op : {"add_blocker"}, arg : [token : Token, count : Nat]]
ProgramTyped(was_queued) ==
    \A t \in Task \cup {Main} :
        \A j \in DOMAIN Program(t, was_queued) : Program(t, was_queued)[j] \in Seq(CallType)

VARIABLES
    first_tasks_, tasks_,      \* the two Task_lists
    running_, waiting_,        \* the counts of the workqueue
    soon,                      \* the tasks with should_run_soon_
    blockers_, writer_,        \* of every token
    waiters,                   \* token -> the Task_list of its waiting_
    lock_,                     \* who is inside release_locks
    pc,                        \* where each thread is
    thread_number,
    task,                      \* the task it runs
    prog,                      \* the calls its run has still to make
    next,                      \* ret of release_locks
    held,                      \* the tokens it has still to release
    doomed,                    \* the task it has to delete
    desired_thread_count_, threads_, check_thread_count_,
    queued, done, freed,       \* history: tasks queued and finished, tokens deleted
    failed                     \* the gold_asserts that did not hold

listVars   == <<first_tasks_, tasks_, waiters, waiting_>>
tokenVars  == <<blockers_, writer_>>
threadVars == <<desired_thread_count_, threads_, check_thread_count_, thread_number>>
runVars    == <<task, prog, next, held, doomed>>
histVars   == <<queued, done, freed>>
vars == <<listVars, tokenVars, threadVars, runVars, histVars, running_, soon, lock_, pc, failed>>

Asleep == {i \in Thread : pc[i] = "asleep"}

(* gold_assert: a condition that does not hold is recorded.                *)
gold_assert(name, cond) == IF cond THEN {} ELSE {name}

-----------------------------------------------------------------------------
(* Tokens and lists.                                                       *)

(* Mutant of is_runnable: only the first token is looked at.               *)
is_runnable_first(t, but) ==
    IF WaitsFor[t] # <<>> /\ WaitsFor[t][1] # but
         /\ (IF WaitsFor[t][1] \in Blocker THEN blockers_[WaitsFor[t][1]] > 0
                                           ELSE writer_[WaitsFor[t][1]] # NoTask)
    THEN WaitsFor[t][1] ELSE NoToken

(* is_runnable: the first token that t has to wait for.  The token but is  *)
(* just being released.                                                    *)
Blocked(k) == IF k \in Blocker THEN blockers_[k] > 0 ELSE writer_[k] # NoTask
is_runnable(t, but) ==
    LET stop == {i \in DOMAIN WaitsFor[t] : WaitsFor[t][i] # but /\ Blocked(WaitsFor[t][i])}
    IN  IF stop = {} THEN NoToken ELSE WaitsFor[t][Min(stop)]

(* The tasks at the places I of a list, in its order.                      *)
Pick(ts, I) == [n \in 1..Cardinality(I) |->
                   ts[CHOOSE i \in I : Cardinality({j \in I : j < i}) = n - 1]]
Among(ts, S) == Pick(ts, {i \in DOMAIN ts : ts[i] \in S})

(* The tasks of ts for which is_runnable gives k.                          *)
Given(ts, but, k) == Pick(ts, {i \in DOMAIN ts : is_runnable(ts[i], but) = k})
Runnable(ts, but) == Given(ts, but, NoToken)
Stuck(ts, but)    == Pick(ts, {i \in DOMAIN ts : is_runnable(ts[i], but) # NoToken})

(* The waiting lists ws after the tasks of ts that have to wait joined     *)
(* them.                                                                   *)
add_waiting(ws, ts, but) == [k \in Token |-> ws[k] \o Given(ts, but, k)]

(* find_runnable: the first runnable task of the two lists; the ones       *)
(* before it join the lists of their tokens.                               *)
find_runnable ==
    LET all   == first_tasks_ \o tasks_
        ready == {i \in DOMAIN all : is_runnable(all[i], NoToken) = NoToken}
    IN  IF ready = {} THEN [task |-> NoTask, passed |-> Len(all)]
        ELSE [task |-> all[Min(ready)], passed |-> Min(ready) - 1]

TakeFrom(f) ==
    LET nf == Len(first_tasks_)
    IN  /\ first_tasks_' = SubSeq(first_tasks_, f.passed + 2, nf)
        /\ tasks_' = SubSeq(tasks_, Max({1, f.passed + 2 - nf}), Len(tasks_))
        /\ waiters' = add_waiting(waiters, SubSeq(first_tasks_ \o tasks_, 1, f.passed), NoToken)
        /\ waiting_' = waiting_ + f.passed

(* The write tokens t locks, and t->locks(&tl) and ++running_.             *)
WriteTokens(t) == {Locks[t][j] : j \in DOMAIN Locks[t]} \ Blocker
locks(i, t) ==
    /\ writer_' = [k \in Token |-> IF k \in WriteTokens(t) THEN t ELSE writer_[k]]
    /\ failed' = failed \cup gold_assert("writer_ == NULL",
                               \A k \in WriteTokens(t) : writer_[k] = NoTask)
    /\ \E j \in DOMAIN Program(t, queued) : prog' = [prog EXCEPT ![i] = Program(t, queued)[j]]
    /\ task' = [task EXCEPT ![i] = t]
    /\ running_' = running_ + 1

(* n calls of condvar_.signal, and broadcast; i goes on to where.          *)
signal(n, i, where) ==
    \E w \in kSubset(Min({n, Cardinality(Asleep)}), Asleep) :
        pc' = [j \in Thread |-> IF j = i THEN where ELSE IF j \in w THEN "find" ELSE pc[j]]
broadcast(i, where) ==
    pc' = [j \in Thread |-> IF j = i THEN where ELSE IF pc[j] = "asleep" THEN "find" ELSE pc[j]]

-----------------------------------------------------------------------------
(* Calls a running task makes.  Main makes its own before process(0).      *)

Calls(i, op) == pc[i] = "run" /\ prog[i] # <<>> /\ Head(prog[i]).op = op /\ lock_ = NoThread
Arg(i)       == Head(prog[i]).arg
Return(i)    == prog' = [prog EXCEPT ![i] = Tail(@)]

(* add_to_queue, from queue, queue_soon and queue_next: to the list of the *)
(* token t has to wait for, or to a list of the workqueue and a signal.    *)
AddToQueue(i, op, queue_soon, front) ==
    /\ Calls(i, op)
    /\ LET t     == Arg(i)
           token == is_runnable(t, NoToken)
           add(list) == IF front THEN <<t>> \o list ELSE Append(list, t)
       IN  /\ queued' = queued \cup {t}
           /\ soon' = IF queue_soon THEN soon \cup {t} ELSE soon
           /\ IF token # NoToken
              THEN /\ waiters' = [waiters EXCEPT ![token] = add(@)]
                   /\ waiting_' = waiting_ + 1
                   /\ UNCHANGED <<first_tasks_, tasks_, pc>>
              ELSE /\ first_tasks_' = IF queue_soon THEN add(first_tasks_) ELSE first_tasks_
                   /\ tasks_' = IF queue_soon THEN tasks_ ELSE add(tasks_)
                   /\ signal(1, i, "run")
                   /\ UNCHANGED <<waiters, waiting_>>
    /\ Return(i)
    /\ UNCHANGED <<tokenVars, threadVars, task, next, held, doomed, done, freed, running_, lock_,
                   failed>>

queue(i)      == AddToQueue(i, "queue", FALSE, FALSE)
queue_soon(i) == AddToQueue(i, "queue_soon", TRUE, FALSE)
queue_next(i) == AddToQueue(i, "queue_next", TRUE, TRUE)

(* set_thread_count: new threads are numbered from threads_ on; too many   *)
(* are told by check_thread_count_.  Threads that were never created are   *)
(* used up in order.                                                       *)
set_thread_count(i) ==
    /\ Calls(i, "set_thread_count")
    /\ LET n      == Arg(i)
           create == n - threads_
           unborn == {j \in Thread : pc[j] = "unborn"}
           new    == {j \in unborn : Cardinality({k \in unborn : k < j}) < create}
       IN  /\ create <= Cardinality(unborn)
           /\ desired_thread_count_' = n
           /\ check_thread_count_' = (check_thread_count_ \/ create < 0)
           /\ threads_' = threads_ + Max({0, create})
           /\ thread_number' = [j \in Thread |->
                IF j \in new THEN threads_ + Cardinality({k \in new : k < j}) ELSE thread_number[j]]
           /\ pc' = [j \in Thread |-> IF j \in new \cup Asleep THEN "find" ELSE pc[j]]
    /\ Return(i)
    /\ UNCHANGED <<listVars, tokenVars, task, next, held, doomed, histVars, running_, soon, lock_,
                   failed>>

(* add_blocker with the lock held, or add_blocker and add_blockers on a    *)
(* token that is new.                                                      *)
add_blocker(i) ==
    /\ Calls(i, "add_blocker")
    /\ blockers_' = [blockers_ EXCEPT ![Arg(i).token] = @ + Arg(i).count]
    /\ Return(i)
    /\ UNCHANGED <<listVars, writer_, threadVars, task, next, held, doomed, histVars, running_,
                   soon, lock_, pc, failed>>

(* main calls process(0).                                                  *)
process(i) ==
    /\ pc[i] = "run" /\ task[i] = Main /\ prog[i] = <<>>
    /\ pc' = [pc EXCEPT ![i] = "find"]
    /\ task' = [task EXCEPT ![i] = NoTask]
    /\ UNCHANGED <<listVars, tokenVars, threadVars, prog, next, held, doomed, histVars, running_,
                   soon, lock_, failed>>

-----------------------------------------------------------------------------
(* find_and_run_task up to its loop: find_runnable_or_wait and locks.  A   *)
(* thread that wakes up looks for a task as one that arrives does.         *)
Finds(i) == pc[i] = "find" /\ lock_ = NoThread

FindTask(i) ==
    /\ Finds(i)
    /\ find_runnable.task # NoTask
    /\ TakeFrom(find_runnable)
    /\ locks(i, find_runnable.task)
    /\ pc' = [pc EXCEPT ![i] = "run"]
    /\ UNCHANGED <<blockers_, threadVars, next, held, doomed, histVars, soon, lock_>>

(* Mutant of AllDone: the others are not woken.                            *)
AllDoneQuiet(i) ==
    /\ Finds(i)
    /\ find_runnable.task = NoTask
    /\ running_ = 0
    /\ TakeFrom(find_runnable)
    /\ pc' = [pc EXCEPT ![i] = "exit"]
    /\ UNCHANGED <<tokenVars, threadVars, runVars, histVars, running_, soon, lock_, failed>>

(* Nothing runs and nothing is queued: every thread is to exit.            *)
AllDone(i) ==
    /\ Finds(i)
    /\ find_runnable.task = NoTask
    /\ running_ = 0
    /\ TakeFrom(find_runnable)
    /\ failed' = failed \cup gold_assert("waiting_ == 0", waiting_ + find_runnable.passed = 0)
    /\ broadcast(i, "exit")
    /\ UNCHANGED <<tokenVars, threadVars, runVars, histVars, running_, soon, lock_>>

should_cancel_thread(i) == check_thread_count_ /\ thread_number[i] > desired_thread_count_

Cancel(i) ==
    /\ Finds(i)
    /\ find_runnable.task = NoTask
    /\ running_ > 0
    /\ should_cancel_thread(i)
    /\ TakeFrom(find_runnable)
    /\ threads_' = threads_ - 1
    /\ check_thread_count_' = (check_thread_count_ /\ threads_ - 1 > desired_thread_count_)
    /\ pc' = [pc EXCEPT ![i] = "exit"]
    /\ UNCHANGED <<tokenVars, desired_thread_count_, thread_number, runVars, histVars, running_,
                   soon, lock_, failed>>

Sleep(i) ==
    /\ Finds(i)
    /\ find_runnable.task = NoTask
    /\ running_ > 0
    /\ ~should_cancel_thread(i)
    /\ TakeFrom(find_runnable)
    /\ pc' = [pc EXCEPT ![i] = "asleep"]
    /\ UNCHANGED <<tokenVars, threadVars, runVars, histVars, running_, soon, lock_, failed>>

(* pthread_cond_wait may return without a signal.                          *)
SpuriousWakeup(i) ==
    /\ pc[i] = "asleep"
    /\ pc' = [pc EXCEPT ![i] = "find"]
    /\ UNCHANGED <<listVars, tokenVars, threadVars, runVars, histVars, running_, soon, lock_, failed>>

-----------------------------------------------------------------------------
(* The loop of find_and_run_task after run: release the locks, find the    *)
(* next task, delete the old one.                                          *)

Finish(i) ==
    /\ pc[i] = "run" /\ task[i] # Main /\ prog[i] = <<>> /\ lock_ = NoThread
    /\ lock_' = i
    /\ running_' = running_ - 1
    /\ held' = [held EXCEPT ![i] = Locks[task[i]]]
    /\ pc' = [pc EXCEPT ![i] = "release"]
    /\ UNCHANGED <<listVars, tokenVars, threadVars, task, prog, next, doomed, histVars, soon, failed>>

(* What return_or_queue makes of the tasks ts taken from the list of the   *)
(* token k: the task to run next, if there is none yet.                    *)
return_or_queue(ts, k, ret) ==
    LET ready == Runnable(ts, k)
        now   == Among(ready, soon)
    IN  IF ret # NoTask \/ ready = <<>> THEN ret
        ELSE IF k \notin Blocker \/ first_tasks_ \o tasks_ = <<>> THEN Head(ready)
        ELSE IF now # <<>> THEN Head(now) ELSE NoTask

(* Mutant of Woken: stop at the first task that can run.                   *)
WokenOne(k, ret) ==
    LET ready == {j \in DOMAIN waiters[k] : is_runnable(waiters[k][j], k) = NoToken}
    IN  IF ready = {} THEN waiters[k] ELSE SubSeq(waiters[k], 1, Min(ready))

(* The tasks release_locks takes from the list of a token that is free     *)
(* now: all of them, or for a write token up to the one it runs next.      *)
Woken(k, ret) ==
    LET ready == {j \in DOMAIN waiters[k] : is_runnable(waiters[k][j], k) = NoToken}
    IN  IF k \in Blocker \/ ret # NoTask \/ ready = {} THEN waiters[k]
        ELSE SubSeq(waiters[k], 1, Min(ready))

(* The waiting tasks of k move on: to other tokens, to the lists of the    *)
(* workqueue with a signal each, or to run next.                           *)
WakeWaiters(i, k) ==
    LET ts   == Woken(k, next[i])
        ret  == return_or_queue(ts, k, next[i])
        rest == Among(Runnable(ts, k), Task \ {ret})
        left == [waiters EXCEPT ![k] = SubSeq(@, Len(ts) + 1, Len(@))]
    IN  /\ waiters' = add_waiting(left, Stuck(ts, k), k)
        /\ waiting_' = waiting_ - Len(ts) + Len(Stuck(ts, k))
        /\ first_tasks_' = first_tasks_ \o Among(rest, soon)
        /\ tasks_' = tasks_ \o Among(rest, Task \ soon)
        /\ next' = [next EXCEPT ![i] = ret]
        /\ signal(Len(rest), i, "release")

(* One token of release_locks.                                             *)
Releases(i, k) == pc[i] = "release" /\ held[i] # <<>> /\ k = Head(held[i])

ReleaseBlocker(i, k) ==
    /\ Releases(i, k) /\ k \in Blocker
    /\ blockers_' = [blockers_ EXCEPT ![k] = @ - 1]
    /\ failed' = failed \cup gold_assert("blockers_ > 0", blockers_[k] > 0)
    /\ IF blockers_[k] = 1 THEN WakeWaiters(i, k) ELSE UNCHANGED <<listVars, next, pc>>
    /\ held' = [held EXCEPT ![i] = Tail(@)]
    /\ UNCHANGED <<writer_, threadVars, task, prog, doomed, histVars, running_, soon, lock_>>

ReleaseWriter(i, k) ==
    /\ Releases(i, k) /\ k \notin Blocker
    /\ writer_' = [writer_ EXCEPT ![k] = NoTask]
    /\ failed' = failed \cup gold_assert("writer_ == t", writer_[k] = task[i])
    /\ WakeWaiters(i, k)
    /\ held' = [held EXCEPT ![i] = Tail(@)]
    /\ UNCHANGED <<blockers_, threadVars, task, prog, doomed, histVars, running_, soon, lock_>>

(* Where a thread goes on with the task t it has, or has not, found.       *)
Goes(t) == IF t = NoTask THEN "find" ELSE "run"

(* Mutant of NextTask: the task release_locks returns is dropped.          *)
NextTaskDrops(i) ==
    /\ pc[i] = "release" /\ held[i] = <<>>
    /\ TakeFrom(find_runnable)
    /\ IF find_runnable.task # NoTask THEN locks(i, find_runnable.task)
       ELSE task' = [task EXCEPT ![i] = NoTask] /\ UNCHANGED <<writer_, failed, prog, running_>>
    /\ pc' = [pc EXCEPT ![i] = Goes(find_runnable.task)]
    /\ done' = done \cup {task[i]}
    /\ next' = [next EXCEPT ![i] = NoTask]
    /\ lock_' = NoThread
    /\ UNCHANGED <<blockers_, threadVars, held, doomed, queued, freed, soon>>

(* All tokens released: the next task, from release_locks or               *)
(* find_runnable, and unlock.  delete t is a step of its own where the     *)
(* destructor has tokens to delete.                                        *)
NextTask(i) ==
    /\ pc[i] = "release" /\ held[i] = <<>>
    /\ LET found == next[i] = NoTask
           t     == IF found THEN find_runnable.task ELSE next[i]
       IN  /\ IF found THEN TakeFrom(find_runnable) ELSE UNCHANGED listVars
           /\ IF t # NoTask THEN locks(i, t)
              ELSE /\ task' = [task EXCEPT ![i] = NoTask]
                   /\ UNCHANGED <<writer_, failed, prog, running_>>
           /\ IF Owns[task[i]] # {}
              THEN pc' = [pc EXCEPT ![i] = "delete"] /\ doomed' = [doomed EXCEPT ![i] = task[i]]
              ELSE pc' = [pc EXCEPT ![i] = Goes(t)] /\ UNCHANGED doomed
    /\ done' = done \cup {task[i]}
    /\ next' = [next EXCEPT ![i] = NoTask]
    /\ lock_' = NoThread
    /\ UNCHANGED <<blockers_, threadVars, held, queued, freed, soon>>

(* delete t, outside the lock: its destructor deletes the tokens it owns.  *)
(* Besides what ~Task_token asserts, nobody may wait for such a token and  *)
(* it is not deleted twice.                                                *)
DeleteTask(i) ==
    /\ pc[i] = "delete"
    /\ freed' = freed \cup Owns[doomed[i]]
    /\ failed' = failed
         \cup gold_assert("~Task_token", \A k \in Owns[doomed[i]] :
                            ~Blocked(k) /\ waiters[k] = <<>> /\ k \notin freed)
    /\ doomed' = [doomed EXCEPT ![i] = NoTask]
    /\ pc' = [pc EXCEPT ![i] = Goes(task[i])]
    /\ UNCHANGED <<listVars, tokenVars, threadVars, task, prog, next, held, queued, done, running_,
                   soon, lock_>>

-----------------------------------------------------------------------------
(* main starts alone, with desired_thread_count_ and threads_ at 1.        *)
Init ==
    /\ first_tasks_ = <<>> /\ tasks_ = <<>>
    /\ running_ = 0 /\ waiting_ = 0
    /\ soon = {}
    /\ blockers_ = [k \in Token |-> 0]
    /\ writer_ = [k \in Token |-> NoTask]
    /\ waiters = [k \in Token |-> <<>>]
    /\ lock_ = NoThread
    /\ pc = [i \in Thread |-> IF i = 0 THEN "run" ELSE "unborn"]
    /\ thread_number = [i \in Thread |-> 0]
    /\ task = [i \in Thread |-> IF i = 0 THEN Main ELSE NoTask]
    /\ \E j \in DOMAIN Program(Main, {}) :
         prog = [i \in Thread |-> IF i = 0 THEN Program(Main, {})[j] ELSE <<>>]
    /\ next = [i \in Thread |-> NoTask]
    /\ held = [i \in Thread |-> <<>>]
    /\ doomed = [i \in Thread |-> NoTask]
    /\ desired_thread_count_ = 1 /\ threads_ = 1 /\ check_thread_count_ = FALSE
    /\ queued = {} /\ done = {} /\ freed = {}
    /\ failed = {}

Step(i) ==
    \/ queue(i) \/ queue_soon(i) \/ queue_next(i) \/ set_thread_count(i) \/ add_blocker(i)
    \/ process(i)
    \/ FindTask(i) \/ AllDone(i) \/ Cancel(i) \/ Sleep(i)
    \/ Finish(i)
    \/ \E k \in Token : ReleaseBlocker(i, k) \/ ReleaseWriter(i, k)
    \/ NextTask(i) \/ DeleteTask(i)

(* The workqueue stops when its threads have.                              *)
Stopped == (\A i \in Thread : pc[i] \in {"unborn", "exit"}) /\ UNCHANGED vars

Next == (\E i \in Thread : Step(i) \/ SpuriousWakeup(i)) \/ Stopped

(* Threads that can take a step do: the lock is held only in release_locks *)
(* and a run returns.  Nothing is assumed of spurious wakeups.             *)
Fairness == \A i \in Thread : WF_vars(Step(i))

Spec == Init /\ [][Next]_vars /\ Fairness

-----------------------------------------------------------------------------
(* Properties.                                                             *)

Elements(s)   == {s[j] : j \in DOMAIN s}
Waiting       == UNION {Elements(waiters[k]) : k \in Token}
WaitingLength == Cardinality(UNION {{k} \X DOMAIN waiters[k] : k \in Token})
Running       == {i \in Thread : task[i] \notin {NoTask, Main}}
Chosen        == {i \in Thread : next[i] # NoTask}

TaskOrNone == Task \cup {NoTask}

(* is_runnable of a task looks at every write token that its locks() adds. *)
LooksAtLocks ==
    \A t \in Task : WriteTokens(t) \subseteq {WaitsFor[t][j] : j \in DOMAIN WaitsFor[t]}

(* The members of the workqueue, the tokens and the thread pool have their *)
(* types; running_, waiting_ and the blocker counts are never negative.    *)
wqTypeOK ==
    /\ Elements(first_tasks_) \cup Elements(tasks_) \cup soon \cup queued \cup done \subseteq Task
    /\ running_ \in Nat /\ waiting_ \in Nat
    /\ blockers_ \in [Token -> Nat]
    /\ writer_ \in [Token -> TaskOrNone]
    /\ \A k \in Token : Elements(waiters[k]) \subseteq Task
    /\ lock_ \in Thread \cup {NoThread}
    /\ pc \in [Thread -> {"unborn", "find", "asleep", "run", "release", "delete", "exit"}]
    /\ thread_number \in [Thread -> Nat]
    /\ task \in [Thread -> TaskOrNone \cup {Main}]
    /\ next \in [Thread -> TaskOrNone]
    /\ doomed \in [Thread -> TaskOrNone]
    /\ desired_thread_count_ \in Nat /\ threads_ \in Nat /\ check_thread_count_ \in BOOLEAN
    /\ freed \subseteq Token

(* The workqueue is well-formed.  A task that was queued and has not       *)
(* finished is in exactly one place, a list of the workqueue, the list of  *)
(* one token or one thread, however find_runnable and release_locks of     *)
(* several threads move it; and waiting_ and running_, which tell the      *)
(* threads when to exit, count them.                                       *)
TasksAccounted ==
    LET places == Elements(first_tasks_) \cup Elements(tasks_) \cup Waiting
                    \cup {task[i] : i \in Running} \cup {next[i] : i \in Chosen}
    IN  /\ wqTypeOK
        /\ places = queued \ done
        /\ Len(first_tasks_) + Len(tasks_) + WaitingLength + Cardinality(Running)
             + Cardinality(Chosen) = Cardinality(places)
        /\ waiting_ = WaitingLength
        /\ running_ = Cardinality({i \in Running : pc[i] # "release"})

(* No task that waits for a token is left there when the token is free and *)
(* no thread is inside release_locks: nobody would wake it.                *)
WaitersBlocked ==
    lock_ = NoThread => \A k \in Token : waiters[k] # <<>> => Blocked(k)

(* Two tasks that lock the same file never run together, also where a task *)
(* locks a token that its is_runnable does not look at.                    *)
WritersExclusive ==
    \A i, j \in Running :
        i # j /\ pc[i] # "release" /\ pc[j] # "release"
        => WriteTokens(task[i]) \cap WriteTokens(task[j]) = {}

(* The gold_asserts of the workqueue and of Task_token hold: when a thread *)
(* finds that all is done no task waits, also while main is still queueing;*)
(* a released token was held; a token is deleted when nobody needs it.     *)
AssertsHold == failed = {}

(* No task that is still to run, and no call that a running one still has  *)
(* to make, uses a token that a destructor has deleted.                    *)
FreedUnused ==
    /\ \A t \in queued \ done : (Elements(WaitsFor[t]) \cup Elements(Locks[t])) \cap freed = {}
    /\ \A i \in Thread : \A j \in DOMAIN prog[i] :
         prog[i][j].op = "add_blocker" => prog[i][j].arg.token \notin freed

(* process returns, and every thread exits: no order of steps leaves all   *)
(* threads asleep or a task waiting for ever.                              *)
ThreadsExit == <>[](\A i \in Thread : pc[i] \in {"unborn", "exit"})
=============================================================================
