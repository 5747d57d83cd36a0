------------------------------- MODULE TaskPool -------------------------------
(***************************************************************************)
(* What the workqueue promises the tasks of a link: a task that was queued *)
(* starts once, when the blockers it waits for are down and no running     *)
(* task has a file that it locks; when it finishes its blockers count down *)
(* together; and process returns when every task has finished.  Which      *)
(* thread runs a task and which list it waits in are left open.            *)
(***************************************************************************)
EXTENDS Integers, Sequences, FiniteSets

CONSTANTS Task, Token, Blocker, WaitsFor, Locks

VARIABLES status,    \* of every task
          count,     \* the blockers of every token
          returned   \* process has returned to main

poolVars == <<status, count, returned>>

Tokens(s)     == {s[j] : j \in DOMAIN s}
Occurs(k, s)  == Cardinality({j \in DOMAIN s : s[j] = k})
WriteLocks(t) == Tokens(Locks[t]) \ Blocker
In(state)     == {t \in Task : status[t] = state}
Becomes(t, state) == status' = [status EXCEPT ![t] = state]

poolInit ==
    /\ status = [t \in Task |-> "new"]
    /\ count = [k \in Token |-> 0]
    /\ returned = FALSE

Queue(t) ==
    /\ status[t] = "new"
    /\ ~returned
    /\ Becomes(t, "queued")
    /\ UNCHANGED <<count, returned>>

AddBlocker(k) ==
    /\ ~returned
    /\ count'[k] > count[k]
    /\ count' = [count EXCEPT ![k] = count'[k]]
    /\ UNCHANGED <<status, returned>>

Start(t) ==
    /\ status[t] = "queued"
    /\ \A k \in Tokens(WaitsFor[t]) \cap Blocker : count[k] = 0
    /\ \A u \in In("running") : WriteLocks(t) \cap WriteLocks(u) = {}
    /\ Becomes(t, "running")
    /\ UNCHANGED <<count, returned>>

Finish(t) ==
    /\ status[t] = "running"
    /\ Becomes(t, "done")
    /\ count' = [k \in Token |-> count[k] - IF k \in Blocker THEN Occurs(k, Locks[t]) ELSE 0]
    /\ UNCHANGED returned

Return ==
    /\ In("queued") \cup In("running") = {}
    /\ ~returned
    /\ returned' = TRUE
    /\ UNCHANGED <<status, count>>

poolNext ==
    \/ \E t \in Task : Queue(t) \/ Start(t) \/ Finish(t)
    \/ \E k \in Blocker : AddBlocker(k)
    \/ Return

poolSpec == poolInit /\ [][poolNext]_poolVars
=============================================================================
