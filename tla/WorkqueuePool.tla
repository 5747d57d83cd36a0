--------------------------- MODULE WorkqueuePool ---------------------------
(***************************************************************************)
(* The workqueue as the TaskPool it implements.  A task is done when its   *)
(* thread enters release_locks.                                            *)
(***************************************************************************)
EXTENDS Workqueue

StillHeld(k) == IF lock_ = NoThread THEN 0 ELSE Cardinality({j \in DOMAIN held[lock_] : held[lock_][j] = k})
Status(t) ==
    CASE t \in done -> "done"
      [] \E i \in Running : task[i] = t /\ pc[i] = "release" -> "done"
      [] \E i \in Running : task[i] = t /\ pc[i] # "release" -> "running"
      [] t \in queued /\ t \notin done /\ \A i \in Running : task[i] # t -> "queued"
      [] OTHER -> "new"

Pool == INSTANCE TaskPool WITH
            status   <- [t \in Task |-> Status(t)],
            count    <- [k \in Token |-> IF k \in Blocker THEN blockers_[k] - StillHeld(k) ELSE 0],
            returned <- pc[0] = "exit"

(* The workqueue is a TaskPool: whatever thread takes a task from whatever *)
(* list, it starts once and with its tokens free, and the blockers that    *)
(* release_locks takes down one by one fall together for the other tasks.  *)
ImplementsPool == Pool!poolSpec
=============================================================================
