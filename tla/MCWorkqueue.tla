----------------------------- MODULE MCWorkqueue -----------------------------
(* An instance of Workqueue.  Two inputs in the file f are read, then      *)
(* added in order: a1 takes down b1, for which a2 waits, and o, for which  *)
(* x and y wait, y also for the file.  The function end, after a2, changes *)
(* the number of threads and queues one more task that uses the file.      *)
EXTENDS WorkqueuePool

MCTask    == {"r1", "r2", "a1", "a2", "x", "y", "end", "z"}
MCToken   == {"b1", "b2", "o", "f"}
MCBlocker == {"b1", "b2", "o"}

Filled(f)   == [t \in MCTask |-> IF t \in DOMAIN f THEN f[t] ELSE <<>>]
MCWaitsFor  == Filled([r1 |-> <<"f">>, r2 |-> <<"f">>, a1 |-> <<"f">>, a2 |-> <<"b1", "f">>,
                      x |-> <<"o">>, y |-> <<"o", "f">>, end |-> <<"b2">>, z |-> <<"f">>])
MCLocks     == Filled([r1 |-> <<"f">>, r2 |-> <<"f">>, a1 |-> <<"b1", "o", "f">>,
                      a2 |-> <<"b2", "f">>, y |-> <<"f">>, z |-> <<"f">>])
MCOwns      == [t \in MCTask |-> CASE t = "a2" -> {"b1"} [] t = "end" -> {"b2"} [] OTHER -> {}]

Do(op, arg) == [op |-> op, arg |-> arg]
New(k)      == Do("add_blocker", [token |-> k, count |-> 1])

(* The first thread count is three; end asks for fewer or more.             *)
MCProgram(t, was_queued) ==
    CASE t = Main -> << <<New("b1"), New("b2"), New("o"), Do("set_thread_count", 3),
                          Do("queue", "r1"), Do("queue", "r2"), Do("queue", "x"), Do("queue", "y"),
                          Do("queue", "end")>> >>
      [] t = "r1" -> << <<Do("queue_next", "a1")>> >>
      [] t = "r2" -> << <<Do("queue_next", "a2")>>, <<Do("queue_soon", "a2")>> >>
      [] t = "end" -> [n \in 1..3 |-> <<Do("set_thread_count", <<1, 2, 4>>[n]), Do("queue", "z")>>]
      [] OTHER -> << <<>> >>

(* The tasks are as the theorems on the workqueue assume.                  *)
ASSUME TasksDisciplined == (\A q \in SUBSET Task : ProgramTyped(q)) /\ LooksAtLocks
=============================================================================
