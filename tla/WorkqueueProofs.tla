--------------------------- MODULE WorkqueueProofs ---------------------------
(***************************************************************************)
(* Proofs about Workqueue, gold's scheduler (gold/workqueue.cc), for any   *)
(* number of tasks, tokens and threads and for whatever the tasks call.    *)
(*                                                                         *)
(* wqInv says where a task can be and that a token with a waiting task is  *)
(* blocked: WaitersCorrect.  exclInv adds which tasks hold which locks:    *)
(* ExclusionCorrect.                                                       *)
(***************************************************************************)
EXTENDS Workqueue, Extremes, FiniteSetTheorems

(* The provers, in the order in which a leaf is given to them.             *)
USE ZenonT(5), SMTT(30), ZenonT(30)

-----------------------------------------------------------------------------
(* Lists.                                                                  *)

(* The places of a list that come before one of them.                      *)
Before(I, i) == {j \in I : j < i}

(* A set of places is finite.                                              *)
LEMMA PlacesFinite ==
    ASSUME NEW m \in Nat, NEW I \in SUBSET (1..m)
    PROVE  IsFiniteSet(I) /\ Cardinality(I) \in Nat
  <1>1. IsFiniteSet(1..m)
    BY FS_Interval
  <1>2. IsFiniteSet(I)
    BY <1>1, FS_Subset
  <1>3. QED
    BY <1>2, FS_CardinalityType

(* A set of places has places with any number of places before them that   *)
(* is smaller than their own number.                                       *)
LEMMA PlaceExists ==
    ASSUME NEW m \in Nat, NEW I \in SUBSET (1..m), NEW n \in 1..Cardinality(I)
    PROVE  \E i \in I : Cardinality(Before(I, i)) = n - 1
  <1>1. IsFiniteSet(I) /\ Cardinality(I) \in Nat
    BY PlacesFinite
  <1>2. \A i : Before(I, i) \subseteq I /\ IsFiniteSet(Before(I, i)) /\ Cardinality(Before(I, i)) \in Nat
    <2> TAKE i
    <2>1. Before(I, i) \in SUBSET I
      BY DEF Before
    <2>2. QED
      BY <1>1, <2>1, FS_Subset, FS_CardinalityType
  (* Without the greatest of its places there is one less. *)
  <1>3. ASSUME NEW J \in SUBSET I, J # {}
        PROVE  /\ Max(J) \in J /\ \A x \in J : Max(J) >= x
               /\ Cardinality({j \in J : j < Max(J)}) = Cardinality(J) - 1
    <2>1. J \subseteq 0..m
      OBVIOUS
    <2>2. Max(J) \in J /\ \A x \in J : Max(J) >= x
      BY <1>3, <2>1, MaxIn
    <2>3. {j \in J : j < Max(J)} = J \ {Max(J)}
      <3>1. PICK g : g = Max(J)
        OBVIOUS
      <3>2. \A j \in J : j < g <=> j # g
        <4>1. \A j \in J : j \in Int
          BY <2>1
        <4>2. g \in J /\ \A j \in J : g >= j
          BY <2>2, <3>1
        <4>3. QED
          BY <4>1, <4>2
      <3>3. QED
        BY <3>1, <3>2
    <2>4. IsFiniteSet(J)
      BY <1>1, FS_Subset
    <2>5. QED
      BY <2>2, <2>3, <2>4, FS_RemoveElement
  <1>4. I # {}
    BY <1>1, FS_EmptySet
  <1> DEFINE A == {i \in I : Cardinality(Before(I, i)) >= n - 1}
  <1>5. A # {} /\ A \subseteq Nat
    <2>1. Max(I) \in I /\ Cardinality(Before(I, Max(I))) = Cardinality(I) - 1
      BY <1>3, <1>4 DEF Before
    <2>2. Max(I) \in A
      BY <1>1, <2>1
    <2>3. \A i \in I : i \in Nat
      OBVIOUS
    <2>4. QED
      BY <2>2, <2>3
  <1>6. PICK i \in A : \A x \in A : i <= x
    BY <1>5, MinIn
  <1>7. CASE Cardinality(Before(I, i)) > n - 1
    <2>1. Before(I, i) # {}
      BY <1>7, FS_EmptySet
    <2>2. PICK k : k = Max(Before(I, i))
      OBVIOUS
    <2>3. /\ k \in Before(I, i) /\ \A x \in Before(I, i) : k >= x
          /\ Cardinality({j \in Before(I, i) : j < k}) = Cardinality(Before(I, i)) - 1
      BY <1>2, <1>3, <2>1, <2>2
    <2>4. k \in I /\ k \in Nat /\ i \in Nat /\ k < i
      BY <1>6, <2>3 DEF Before
    <2>5. {j \in Before(I, i) : j < k} = Before(I, k)
      <3>1. \A j \in I : j < k => j < i
        <4>1. \A j \in I : j \in Int
          OBVIOUS
        <4>2. QED
          BY <2>4, <4>1
      <3>2. QED
        BY <3>1 DEF Before
    <2>6. Cardinality(Before(I, k)) >= n - 1
      BY <1>2, <1>7, <2>3, <2>5
    <2>7. QED
      BY <1>6, <2>4, <2>6
  <1>8. QED
    BY <1>2, <1>6, <1>7

(* Pick gives tasks at the places asked for, and as many.                  *)
LEMMA PickIs ==
    ASSUME NEW S, NEW ts \in Seq(S), NEW I \in SUBSET (DOMAIN ts)
    PROVE  /\ Pick(ts, I) \in Seq(S)
           /\ I = {} => Pick(ts, I) = <<>>
           /\ I # {} => Pick(ts, I) # <<>>
           /\ \A n \in DOMAIN Pick(ts, I) : \E i \in I : Pick(ts, I)[n] = ts[i]
  <1>1. Len(ts) \in Nat /\ DOMAIN ts = 1..Len(ts)
    OBVIOUS
  <1>2. IsFiniteSet(I) /\ Cardinality(I) \in Nat
    BY <1>1, PlacesFinite
  <1>3. ASSUME NEW n \in 1..Cardinality(I) PROVE Pick(ts, I)[n] \in S /\ \E i \in I : Pick(ts, I)[n] = ts[i]
    <2>1. PICK i : i = CHOOSE j \in I : Cardinality(Before(I, j)) = n - 1
      OBVIOUS
    <2>2. i \in I
      BY <1>1, <2>1, PlaceExists
    <2>3. Pick(ts, I)[n] = ts[i]
      BY <2>1 DEF Pick, Before
    <2>4. QED
      BY <1>1, <2>2, <2>3
  <1>4. DOMAIN Pick(ts, I) = 1..Cardinality(I) /\ Pick(ts, I) = [n \in 1..Cardinality(I) |-> Pick(ts, I)[n]]
    BY DEF Pick
  <1>5. Pick(ts, I) \in Seq(S) /\ Len(Pick(ts, I)) = Cardinality(I)
    BY <1>2, <1>3, <1>4
  <1>6. I = {} <=> Cardinality(I) = 0
    BY <1>2, FS_EmptySet
  <1>7. QED
    BY <1>2, <1>3, <1>4, <1>5, <1>6

(* The tasks of a list that are in a set.                                  *)
LEMMA AmongIs ==
    ASSUME NEW ts \in Seq(Task), NEW S
    PROVE  Among(ts, S) \in Seq(Task) /\ \A n \in DOMAIN Among(ts, S) : \E i \in DOMAIN ts : Among(ts, S)[n] = ts[i]
  <1>1. PICK I : I = {i \in DOMAIN ts : ts[i] \in S}
    OBVIOUS
  <1>2. I \in SUBSET DOMAIN ts /\ Among(ts, S) = Pick(ts, I)
    BY <1>1 DEF Among
  <1>3. QED
    BY <1>2, PickIs

(* The lists of two lists one after the other, and parts of lists.         *)
LEMMA Concatenated ==
    ASSUME NEW S, NEW s \in Seq(S), NEW t \in Seq(S)
    PROVE  /\ s \o t \in Seq(S)
           /\ s \o t # <<>> => s # <<>> \/ t # <<>>
           /\ \A n \in DOMAIN (s \o t) : \/ \E j \in DOMAIN s : (s \o t)[n] = s[j]
                                         \/ \E j \in DOMAIN t : (s \o t)[n] = t[j]
  <1>1. s \o t \in Seq(S) /\ Len(s \o t) = Len(s) + Len(t) /\ Len(s) \in Nat /\ Len(t) \in Nat
    OBVIOUS
  <1>2. ASSUME NEW n \in DOMAIN (s \o t)
        PROVE  \/ \E j \in DOMAIN s : (s \o t)[n] = s[j]
               \/ \E j \in DOMAIN t : (s \o t)[n] = t[j]
    <2>1. n \in 1..(Len(s) + Len(t)) /\ DOMAIN s = 1..Len(s) /\ DOMAIN t = 1..Len(t)
      BY <1>1
    <2>2. CASE n <= Len(s)
      BY <1>1, <2>1, <2>2
    <2>3. CASE n > Len(s)
      <3>1. n - Len(s) \in DOMAIN t
        BY <1>1, <2>1, <2>3
      <3>2. (s \o t)[n] = t[n - Len(s)]
        BY <1>1, <2>1, <2>3
      <3>3. QED
        BY <3>1, <3>2
    <2>4. QED
      BY <1>1, <2>1, <2>2, <2>3
  <1>3. s = <<>> /\ t = <<>> => s \o t = <<>>
    OBVIOUS
  <1>4. QED
    BY <1>1, <1>2, <1>3

(* A part of a list holds elements of the list from between its ends.      *)
LEMMA PartOf ==
    ASSUME NEW S, NEW s \in Seq(S), NEW a \in Int, NEW b \in Int, a >= 1, b <= Len(s)
    PROVE  /\ SubSeq(s, a, b) \in Seq(S)
           /\ a > b => SubSeq(s, a, b) = <<>>
           /\ \A n \in DOMAIN SubSeq(s, a, b) : \E j \in DOMAIN s : a <= j /\ j <= b /\ SubSeq(s, a, b)[n] = s[j]
  <1>1. \A j \in a..b : s[j] \in S
    OBVIOUS
  <1>2. CASE a > b
    BY <1>2
  <1>3. CASE a <= b
    <2>1. /\ SubSeq(s, a, b) \in Seq(S) /\ Len(SubSeq(s, a, b)) = b - a + 1
          /\ \A n \in 1..(b - a + 1) : SubSeq(s, a, b)[n] = s[a + n - 1]
      BY <1>1, <1>3
    <2>2. ASSUME NEW n \in DOMAIN SubSeq(s, a, b)
          PROVE  \E j \in DOMAIN s : a <= j /\ j <= b /\ SubSeq(s, a, b)[n] = s[j]
      <3>1. n \in 1..(b - a + 1)
        BY <2>1
      <3>2. a + n - 1 \in DOMAIN s /\ a <= a + n - 1 /\ a + n - 1 <= b
        BY <3>1
      <3>3. QED
        BY <2>1, <3>1, <3>2
    <2>3. QED
      BY <1>3, <2>1, <2>2
  <1>4. QED
    BY <1>2, <1>3

-----------------------------------------------------------------------------
(* Tokens.                                                                 *)

(* Task t has to wait for the token k, and t locks k for writing.          *)
Waits(t, k) == \E j \in DOMAIN WaitsFor[t] : WaitsFor[t][j] = k

(* is_runnable finds no token that is not free, except perhaps the one     *)
(* being released; or it gives one that t has to wait for.                 *)
LEMMA RunnableIs ==
    ASSUME NEW t \in Task, NEW but
    PROVE  /\ is_runnable(t, but) = NoToken => \A k : Waits(t, k) /\ k # but => ~Blocked(k)
           /\ is_runnable(t, but) # NoToken => /\ is_runnable(t, but) \in Token \ {but}
                                               /\ Blocked(is_runnable(t, but))
                                               /\ Waits(t, is_runnable(t, but))
  <1> DEFINE stop == {i \in DOMAIN WaitsFor[t] : WaitsFor[t][i] # but /\ Blocked(WaitsFor[t][i])}
  <1>1. WaitsFor[t] \in Seq(Token)
    BY TaskAssumption
  <1>2. DOMAIN WaitsFor[t] \subseteq Nat /\ \A i \in DOMAIN WaitsFor[t] : WaitsFor[t][i] \in Token
    BY <1>1
  <1>3. is_runnable(t, but) = IF stop = {} THEN NoToken ELSE WaitsFor[t][Min(stop)]
    BY DEF is_runnable
  <1>4. CASE stop = {}
    BY <1>3, <1>4 DEF Waits
  <1>5. CASE stop # {}
    <2>1. stop \subseteq Nat
      BY <1>2
    <2>2. PICK i : i = Min(stop)
      OBVIOUS
    <2>3. i \in stop
      BY <1>5, <2>1, <2>2, MinIn
    <2>4. is_runnable(t, but) = WaitsFor[t][i]
      BY <1>3, <1>5, <2>2
    <2>5. WaitsFor[t][i] \in Token /\ WaitsFor[t][i] # but /\ Blocked(WaitsFor[t][i]) /\ Waits(t, WaitsFor[t][i])
      BY <1>2, <2>3 DEF Waits
    <2>6. WaitsFor[t][i] # NoToken
      BY <2>5, TokenAssumption
    <2>7. QED
      BY <2>4, <2>5, <2>6
  <1>6. QED
    BY <1>4, <1>5

(* What Given takes from a list are the tasks for which is_runnable gives  *)
(* k.                                                                      *)
LEMMA GivenIs ==
    ASSUME NEW ts \in Seq(Task), NEW but, NEW k
    PROVE  /\ Given(ts, but, k) \in Seq(Task)
           /\ Given(ts, but, k) # <<>> <=> \E i \in DOMAIN ts : is_runnable(ts[i], but) = k
           /\ \A n \in DOMAIN Given(ts, but, k) :
                \E i \in DOMAIN ts : is_runnable(ts[i], but) = k /\ Given(ts, but, k)[n] = ts[i]
  <1> DEFINE I == {i \in DOMAIN ts : is_runnable(ts[i], but) = k}
  <1>1. Given(ts, but, k) = Pick(ts, I)
    BY DEF Given
  <1>2. I \in SUBSET DOMAIN ts
    OBVIOUS
  <1> HIDE DEF I
  <1>3. /\ Pick(ts, I) \in Seq(Task)
        /\ I = {} => Pick(ts, I) = <<>>
        /\ I # {} => Pick(ts, I) # <<>>
        /\ \A n \in DOMAIN Pick(ts, I) : \E i \in I : Pick(ts, I)[n] = ts[i]
    BY <1>2, PickIs
  <1>4. QED
    BY <1>1, <1>3 DEF I

(* The lists ws of the tokens hold tasks that have to wait for them.       *)
Joined(ws) == /\ ws \in [Token -> Seq(Task)]
              /\ \A k \in Token : \A n \in DOMAIN ws[k] : Waits(ws[k][n], k)

(* add_waiting adds tasks to the lists of tokens that are not free and     *)
(* that they have to wait for.                                             *)
LEMMA WaitingJoins ==
    ASSUME NEW ws, Joined(ws), NEW ts \in Seq(Task), NEW but, NEW u, u = add_waiting(ws, ts, but)
    PROVE  /\ Joined(u)
           /\ \A k \in Token : u[k] # <<>> => ws[k] # <<>> \/ (k # but /\ Blocked(k))
  <1>1. \A k \in Token : u[k] = ws[k] \o Given(ts, but, k)
    BY DEF add_waiting
  <1>2. ASSUME NEW k \in Token
        PROVE  /\ u[k] \in Seq(Task)
               /\ \A n \in DOMAIN u[k] : Waits(u[k][n], k)
               /\ u[k] # <<>> => ws[k] # <<>> \/ (k # but /\ Blocked(k))
    <2>1. ws[k] \in Seq(Task) /\ \A n \in DOMAIN ws[k] : Waits(ws[k][n], k)
      BY DEF Joined
    <2>2. ASSUME NEW i \in DOMAIN ts, is_runnable(ts[i], but) = k
          PROVE  Waits(ts[i], k) /\ k # but /\ Blocked(k)
      <3>1. ts[i] \in Task /\ k # NoToken
        BY TokenAssumption
      <3>2. QED
        BY <2>2, <3>1, RunnableIs
    <2>3. PICK g : g = Given(ts, but, k)
      OBVIOUS
    <2>4. /\ g \in Seq(Task)
          /\ g # <<>> => k # but /\ Blocked(k)
          /\ \A n \in DOMAIN g : Waits(g[n], k)
      BY <2>2, <2>3, GivenIs
    <2>5. u[k] = ws[k] \o g
      BY <1>1, <2>3
    <2>6. /\ ws[k] \o g \in Seq(Task)
          /\ ws[k] \o g # <<>> => ws[k] # <<>> \/ g # <<>>
          /\ \A n \in DOMAIN (ws[k] \o g) : \/ \E j \in DOMAIN ws[k] : (ws[k] \o g)[n] = ws[k][j]
                                            \/ \E j \in DOMAIN g : (ws[k] \o g)[n] = g[j]
      BY <2>1, <2>4, Concatenated
    <2>7. QED
      BY <2>1, <2>4, <2>5, <2>6
  <1>3. u \in [Token -> Seq(Task)]
    <2>1. DOMAIN u = Token /\ u = [k \in Token |-> u[k]]
      BY DEF add_waiting
    <2>2. QED
      BY <1>2, <2>1
  <1>4. QED
    BY <1>2, <1>3 DEF Joined

-----------------------------------------------------------------------------
(* The lists of the workqueue.                                             *)

Lists == first_tasks_ \in Seq(Task) /\ tasks_ \in Seq(Task) /\ Joined(waiters)

(* The greater of 1 and a number.                                          *)
LEMMA AtLeastOne ==
    ASSUME NEW a \in Int
    PROVE  Max({1, a}) \in Int /\ Max({1, a}) >= 1
  <1>1. PICK x \in {1, a} : \A y \in {1, a} : x >= y
    OBVIOUS
  <1>2. Max({1, a}) \in {1, a} /\ \A y \in {1, a} : Max({1, a}) >= y
    BY <1>1 DEF Max
  <1>3. QED
    BY <1>2

(* find_runnable gives a task all of whose tokens are free, or none.       *)
LEMMA FoundIs ==
    ASSUME Lists
    PROVE  /\ find_runnable.passed \in Nat /\ find_runnable.passed <= Len(first_tasks_ \o tasks_)
           /\ \/ find_runnable.task = NoTask
              \/ /\ find_runnable.task \in Task
                 /\ \A k \in Token : Waits(find_runnable.task, k) => ~Blocked(k)
  <1> DEFINE all   == first_tasks_ \o tasks_
             ready == {i \in DOMAIN all : is_runnable(all[i], NoToken) = NoToken}
  <1>1. all \in Seq(Task)
    BY DEF Lists
  <1>2. find_runnable = IF ready = {} THEN [task |-> NoTask, passed |-> Len(all)]
                        ELSE [task |-> all[Min(ready)], passed |-> Min(ready) - 1]
    BY DEF find_runnable
  <1> HIDE DEF all
  <1>3. CASE ready = {}
    <2>1. find_runnable = [task |-> NoTask, passed |-> Len(all)]
      BY <1>2, <1>3
    <2>2. QED
      BY <1>1, <2>1 DEF all
  <1>4. CASE ready # {}
    <2>1. ready \subseteq Nat
      BY <1>1
    <2>2. PICK i : i = Min(ready)
      OBVIOUS
    <2>3. i \in ready
      BY <1>4, <2>1, <2>2, MinIn
    <2>4. find_runnable = [task |-> all[i], passed |-> i - 1]
      BY <1>2, <1>4, <2>2
    <2>5. all[i] \in Task /\ is_runnable(all[i], NoToken) = NoToken
      BY <1>1, <2>3
    <2>6. \A k \in Token : Waits(all[i], k) => ~Blocked(k)
      BY <2>5, RunnableIs, TokenAssumption
    <2>7. i \in 1..Len(all)
      BY <1>1, <2>3
    <2>8. i - 1 \in Nat /\ i - 1 <= Len(all)
      BY <1>1, <2>7
    <2>9. QED
      BY <2>4, <2>5, <2>6, <2>8 DEF all
  <1>5. QED
    BY <1>3, <1>4

(* After find_runnable the lists are in order, and tasks have joined       *)
(* tokens that are not free.                                               *)
LEMMA Takes ==
    ASSUME Lists, TakeFrom(find_runnable)
    PROVE  Lists' /\ \A k \in Token : waiters'[k] # <<>> => waiters[k] # <<>> \/ Blocked(k)
  <1>1. PICK n : n = find_runnable.passed
    OBVIOUS
  <1>2. n \in Nat /\ n <= Len(first_tasks_ \o tasks_)
    BY <1>1, FoundIs
  <1>3. PICK m : m = Max({1, n + 2 - Len(first_tasks_)})
    OBVIOUS
  <1>4. first_tasks_ \in Seq(Task) /\ tasks_ \in Seq(Task) /\ Joined(waiters)
    BY DEF Lists
  <1>5. /\ first_tasks_' = SubSeq(first_tasks_, n + 2, Len(first_tasks_))
        /\ tasks_' = SubSeq(tasks_, m, Len(tasks_))
        /\ waiters' = add_waiting(waiters, SubSeq(first_tasks_ \o tasks_, 1, n), NoToken)
    BY <1>1, <1>3 DEF TakeFrom
  <1>6. n + 2 \in Int /\ n + 2 >= 1 /\ Len(first_tasks_) \in Int /\ Len(tasks_) \in Int
    BY <1>2, <1>4
  <1>7. m \in Int /\ m >= 1
    <2>1. n + 2 - Len(first_tasks_) \in Int
      BY <1>2, <1>6
    <2>2. QED
      BY <1>3, <2>1, AtLeastOne
  <1>8. first_tasks_' \in Seq(Task)
    BY <1>4, <1>5, <1>6, PartOf
  <1>9. tasks_' \in Seq(Task)
    BY <1>4, <1>5, <1>6, <1>7, PartOf
  <1>10. SubSeq(first_tasks_ \o tasks_, 1, n) \in Seq(Task)
    <2>1. first_tasks_ \o tasks_ \in Seq(Task)
      BY <1>4, Concatenated
    <2>2. QED
      BY <1>2, <2>1, PartOf
  <1>11. Joined(waiters') /\ \A k \in Token : waiters'[k] # <<>> => waiters[k] # <<>> \/ Blocked(k)
    <2>1. PICK ws, ts : ws = waiters' /\ ts = SubSeq(first_tasks_ \o tasks_, 1, n)
      OBVIOUS
    <2>2. ts \in Seq(Task) /\ ws = add_waiting(waiters, ts, NoToken)
      BY <1>5, <1>10, <2>1
    <2>3. Joined(ws) /\ \A k \in Token : ws[k] # <<>> => waiters[k] # <<>> \/ (k # NoToken /\ Blocked(k))
      BY <1>4, <2>2, WaitingJoins
    <2>4. QED
      BY <2>1, <2>3
  <1>12. QED
    BY <1>8, <1>9, <1>11 DEF Lists, Joined

-----------------------------------------------------------------------------
(* Releasing a token.                                                      *)

(* is_runnable(t, k) gives no token: t could run once k is free.           *)
Ready(t, k) == is_runnable(t, k) = NoToken

(* The first task of a list that is not empty.                             *)
LEMMA HeadOf ==
    ASSUME NEW S, NEW s \in Seq(S), s # <<>>
    PROVE  1 \in DOMAIN s /\ Head(s) = s[1] /\ Head(s) \in S
  OBVIOUS

(* What release_locks takes from the list of k is the whole list, or for a *)
(* write token a part with a task that can run.                            *)
LEMMA WokenIs ==
    ASSUME Joined(waiters), NEW k \in Token, NEW ret, NEW ts, ts = Woken(k, ret)
    PROVE  /\ ts \in Seq(Task) /\ Len(ts) <= Len(waiters[k])
           /\ \A n \in DOMAIN ts : Waits(ts[n], k)
           /\ \/ ts = waiters[k]
              \/ k \notin Blocker /\ ret = NoTask /\ \E n \in DOMAIN ts : Ready(ts[n], k)
  <1> DEFINE ready == {j \in DOMAIN waiters[k] : is_runnable(waiters[k][j], k) = NoToken}
  <1>1. waiters[k] \in Seq(Task) /\ \A n \in DOMAIN waiters[k] : Waits(waiters[k][n], k)
    BY DEF Joined
  <1>2. ts = IF k \in Blocker \/ ret # NoTask \/ ready = {} THEN waiters[k]
             ELSE SubSeq(waiters[k], 1, Min(ready))
    BY DEF Woken
  <1>3. CASE k \in Blocker \/ ret # NoTask \/ ready = {}
    <2>1. ts = waiters[k]
      BY <1>2, <1>3
    <2>2. Len(waiters[k]) <= Len(waiters[k])
      BY <1>1
    <2>3. QED
      BY <1>1, <2>1, <2>2
  <1>4. CASE ~(k \in Blocker \/ ret # NoTask \/ ready = {})
    <2>1. ready \subseteq Nat
      BY <1>1
    <2>2. PICK m : m = Min(ready)
      OBVIOUS
    <2>3. m \in ready
      BY <1>4, <2>1, <2>2, MinIn
    <2>4. ts = SubSeq(waiters[k], 1, m)
      BY <1>2, <1>4, <2>2
    <2>5. m \in 1..Len(waiters[k]) /\ Len(waiters[k]) \in Nat
      BY <1>1, <2>3
    <2>6. /\ ts \in Seq(Task)
          /\ \A n \in DOMAIN ts : \E j \in DOMAIN waiters[k] : ts[n] = waiters[k][j]
      BY <1>1, <2>4, <2>5, PartOf
    <2>7. Len(ts) = m /\ m \in DOMAIN ts /\ ts[m] = waiters[k][m]
      BY <1>1, <2>4, <2>5
    <2>8. Ready(ts[m], k)
      BY <2>3, <2>7 DEF Ready
    <2>9. QED
      BY <1>1, <1>4, <2>5, <2>6, <2>7, <2>8
  <1>5. QED
    BY <1>3, <1>4

(* release_locks runs next the task that it has already, or one of those   *)
(* it takes from the list of k that can run; for a write token one of them *)
(* if there is any.                                                        *)
LEMMA ReturnIs ==
    ASSUME NEW ts \in Seq(Task), NEW k, NEW ret \in TaskOrNone, NEW r, r = return_or_queue(ts, k, ret)
    PROVE  /\ ret # NoTask => r = ret
           /\ ret = NoTask => \/ r = NoTask
                              \/ \E n \in DOMAIN ts : r = ts[n] /\ Ready(ts[n], k)
           /\ k \notin Blocker /\ (\E n \in DOMAIN ts : Ready(ts[n], k)) => r # NoTask
  <1>1. PICK ready : ready = Runnable(ts, k)
    OBVIOUS
  <1>2. PICK now : now = Among(ready, soon)
    OBVIOUS
  <1>3. r = IF ret # NoTask \/ ready = <<>> THEN ret
            ELSE IF k \notin Blocker \/ first_tasks_ \o tasks_ = <<>> THEN Head(ready)
            ELSE IF now # <<>> THEN Head(now) ELSE NoTask
    BY <1>1, <1>2 DEF return_or_queue
  <1>4. /\ ready \in Seq(Task)
        /\ ready # <<>> <=> \E i \in DOMAIN ts : Ready(ts[i], k)
        /\ \A n \in DOMAIN ready : \E i \in DOMAIN ts : Ready(ts[i], k) /\ ready[n] = ts[i]
    BY <1>1, GivenIs DEF Runnable, Ready
  <1>5. now \in Seq(Task) /\ \A n \in DOMAIN now : \E i \in DOMAIN ready : now[n] = ready[i]
    BY <1>2, <1>4, AmongIs
  <1>6. NoTask \notin Task
    BY TokenAssumption
  <1>7. ready # <<>> => Head(ready) \in Task /\ \E i \in DOMAIN ts : Ready(ts[i], k) /\ Head(ready) = ts[i]
    BY <1>4, HeadOf
  <1>8. now # <<>> => \E i \in DOMAIN ts : Ready(ts[i], k) /\ Head(now) = ts[i]
    BY <1>4, <1>5, HeadOf
  <1>9. QED
    BY <1>3, <1>4, <1>6, <1>7, <1>8

(* The waiting tasks of k move on as they should: what is left on the      *)
(* lists of other tokens waits for one that is not free; what is left on   *)
(* the list of k is behind the task that runs next and takes k.            *)
LEMMA Wakes ==
    ASSUME Lists, NEW i \in Thread, NEW k \in Token, next \in [Thread -> TaskOrNone], WakeWaiters(i, k)
    PROVE  /\ Lists'
           /\ next' = [next EXCEPT ![i] = next'[i]] /\ next'[i] \in TaskOrNone
           /\ next[i] # NoTask => next'[i] = next[i]
           /\ next[i] = NoTask /\ next'[i] # NoTask =>
                Waits(next'[i], k) /\ \A l \in Token \ {k} : Waits(next'[i], l) => ~Blocked(l)
           /\ \A l \in Token \ {k} : waiters'[l] # <<>> => waiters[l] # <<>> \/ Blocked(l)
           /\ waiters'[k] # <<>> => k \notin Blocker /\ next[i] = NoTask /\ next'[i] # NoTask
           /\ \E n : signal(n, i, "release")
  <1>1. PICK ts : ts = Woken(k, next[i])
    OBVIOUS
  <1>2. PICK ret : ret = return_or_queue(ts, k, next[i])
    OBVIOUS
  <1>3. PICK rest : rest = Among(Runnable(ts, k), Task \ {ret})
    OBVIOUS
  <1>4. PICK left : left = [waiters EXCEPT ![k] = SubSeq(@, Len(ts) + 1, Len(@))]
    OBVIOUS
  <1>5. PICK stuck : stuck = Stuck(ts, k)
    OBVIOUS
  <1>6. /\ waiters' = add_waiting(left, stuck, k)
        /\ first_tasks_' = first_tasks_ \o Among(rest, soon)
        /\ tasks_' = tasks_ \o Among(rest, Task \ soon)
        /\ next' = [next EXCEPT ![i] = ret]
        /\ signal(Len(rest), i, "release")
    BY <1>1, <1>2, <1>3, <1>4, <1>5 DEF WakeWaiters
  <1>7. first_tasks_ \in Seq(Task) /\ tasks_ \in Seq(Task) /\ Joined(waiters) /\ next[i] \in TaskOrNone
    BY DEF Lists
  <1>8. /\ ts \in Seq(Task) /\ Len(ts) <= Len(waiters[k])
        /\ \A n \in DOMAIN ts : Waits(ts[n], k)
        /\ \/ ts = waiters[k]
           \/ k \notin Blocker /\ next[i] = NoTask /\ \E n \in DOMAIN ts : Ready(ts[n], k)
    BY <1>1, <1>7, WokenIs
  <1>9. /\ next[i] # NoTask => ret = next[i]
        /\ next[i] = NoTask => ret = NoTask \/ \E n \in DOMAIN ts : ret = ts[n] /\ Ready(ts[n], k)
        /\ k \notin Blocker /\ (\E n \in DOMAIN ts : Ready(ts[n], k)) => ret # NoTask
    BY <1>2, <1>7, <1>8, ReturnIs
  <1>10. ret \in TaskOrNone
    BY <1>7, <1>8, <1>9 DEF TaskOrNone
  <1>11. next'[i] = ret
    BY <1>6
  <1>12. first_tasks_' \in Seq(Task) /\ tasks_' \in Seq(Task)
    <2>1. Runnable(ts, k) \in Seq(Task)
      BY <1>8, GivenIs DEF Runnable
    <2>2. rest \in Seq(Task)
      BY <1>3, <2>1, AmongIs
    <2>3. Among(rest, soon) \in Seq(Task) /\ Among(rest, Task \ soon) \in Seq(Task)
      BY <2>2, AmongIs
    <2>4. QED
      BY <1>6, <1>7, <2>3, Concatenated
  <1>13. PICK part : part = SubSeq(waiters[k], Len(ts) + 1, Len(waiters[k]))
    OBVIOUS
  <1>14. waiters \in [Token -> Seq(Task)]
    BY <1>7 DEF Joined
  <1>15. left = [waiters EXCEPT ![k] = part]
    BY <1>4, <1>13
  <1>16. /\ part \in Seq(Task)
         /\ ts = waiters[k] => part = <<>>
         /\ \A n \in DOMAIN part : \E j \in DOMAIN waiters[k] : part[n] = waiters[k][j]
    <2>1. waiters[k] \in Seq(Task)
      BY <1>14
    <2>2. Len(ts) + 1 \in Int /\ Len(ts) + 1 >= 1 /\ Len(waiters[k]) \in Int /\ Len(waiters[k]) <= Len(waiters[k])
      BY <1>8, <2>1
    <2>3. ts = waiters[k] => Len(ts) + 1 > Len(waiters[k])
      BY <1>8, <2>1
    <2>4. QED
      BY <1>13, <2>1, <2>2, <2>3, PartOf
  <1>17. Joined(left) /\ left[k] = part /\ \A l \in Token \ {k} : left[l] = waiters[l]
    <2>1. left \in [Token -> Seq(Task)] /\ left[k] = part /\ \A l \in Token \ {k} : left[l] = waiters[l]
      BY <1>14, <1>15, <1>16
    <2>2. ASSUME NEW l \in Token, NEW n \in DOMAIN left[l] PROVE Waits(left[l][n], l)
      <3>1. CASE l = k
        BY <1>7, <1>16, <2>1, <2>2, <3>1 DEF Joined
      <3>2. CASE l # k
        BY <1>7, <2>1, <2>2, <3>2 DEF Joined
      <3>3. QED
        BY <3>1, <3>2
    <2>3. QED
      BY <2>1, <2>2 DEF Joined
  <1>18. stuck \in Seq(Task)
    <2>1. PICK I : I = {j \in DOMAIN ts : is_runnable(ts[j], k) # NoToken}
      OBVIOUS
    <2>2. I \in SUBSET DOMAIN ts /\ stuck = Pick(ts, I)
      BY <1>5, <2>1 DEF Stuck
    <2>3. QED
      BY <1>8, <2>2, PickIs
  <1>19. PICK ws : ws = waiters'
    OBVIOUS
  <1>20. Joined(ws) /\ \A l \in Token : ws[l] # <<>> => left[l] # <<>> \/ (l # k /\ Blocked(l))
    BY <1>6, <1>17, <1>18, <1>19, WaitingJoins
  <1>21. ws[k] # <<>> => k \notin Blocker /\ next[i] = NoTask /\ ret # NoTask
    BY <1>8, <1>9, <1>16, <1>17, <1>20
  <1>22. \A l \in Token \ {k} : ws[l] # <<>> => waiters[l] # <<>> \/ Blocked(l)
    BY <1>17, <1>20
  <1>23. next[i] = NoTask /\ ret # NoTask =>
           Waits(ret, k) /\ \A l \in Token \ {k} : Waits(ret, l) => ~Blocked(l)
    <2> SUFFICES ASSUME next[i] = NoTask, ret # NoTask
                 PROVE  Waits(ret, k) /\ \A l \in Token \ {k} : Waits(ret, l) => ~Blocked(l)
      OBVIOUS
    <2>1. PICK n \in DOMAIN ts : ret = ts[n] /\ Ready(ts[n], k)
      BY <1>9
    <2>2. ret \in Task /\ is_runnable(ret, k) = NoToken
      BY <1>8, <2>1 DEF Ready
    <2>3. \A l : Waits(ret, l) /\ l # k => ~Blocked(l)
      BY <2>2, RunnableIs
    <2>4. QED
      BY <1>8, <2>1, <2>3
  <1>24. Lists'
    BY <1>12, <1>19, <1>20 DEF Lists, Joined
  <1>25. next' = [next EXCEPT ![i] = next'[i]]
    BY <1>6, <1>11
  <1>26. QED
    BY <1>6, <1>9, <1>10, <1>11, <1>19, <1>21, <1>22, <1>23, <1>24, <1>25

-----------------------------------------------------------------------------
(* Threads.                                                                *)

Places == {"unborn", "find", "asleep", "run", "release", "delete", "exit"}

(* Thread i goes to where; others at most begin to look for a task.        *)
Moves(i, where) ==
    /\ pc' \in [Thread -> Places] /\ pc'[i] = where
    /\ \A j \in Thread \ {i} : pc'[j] = pc[j] \/ (pc[j] \in {"asleep", "unborn"} /\ pc'[j] = "find")

(* A step of thread i, and the signals it gives.                           *)
LEMMA MovesOne ==
    ASSUME pc \in [Thread -> Places], NEW i \in Thread, NEW where \in Places,
           pc' = [pc EXCEPT ![i] = where]
    PROVE  Moves(i, where)
  BY DEF Moves

(* No thread moves when pc stays as it is.                                 *)
LEMMA MovesNone ==
    ASSUME pc \in [Thread -> Places], NEW i \in Thread, pc' = pc
    PROVE  Moves(i, pc[i])
  BY DEF Moves

(* condvar_.signal moves the thread that signals, and wakes others up at   *)
(* most.                                                                   *)
LEMMA MovesSignal ==
    ASSUME pc \in [Thread -> Places], NEW i \in Thread, NEW where \in Places, NEW n, signal(n, i, where)
    PROVE  Moves(i, where)
  <1>1. PICK w \in SUBSET Asleep :
          pc' = [j \in Thread |-> IF j = i THEN where ELSE IF j \in w THEN "find" ELSE pc[j]]
    BY DEF signal, kSubset
  <1>2. \A j \in w : pc[j] = "asleep"
    BY <1>1 DEF Asleep
  <1>3. "find" \in Places
    BY DEF Places
  <1>4. \A j \in Thread : pc[j] \in Places
    OBVIOUS
  <1>5. pc' \in [Thread -> Places]
    BY <1>1, <1>3, <1>4
  <1>6. QED
    BY <1>1, <1>2, <1>5 DEF Moves

(* So does condvar_.broadcast.                                             *)
LEMMA MovesBroadcast ==
    ASSUME pc \in [Thread -> Places], NEW i \in Thread, NEW where \in Places, broadcast(i, where)
    PROVE  Moves(i, where)
  <1>1. pc' = [j \in Thread |-> IF j = i THEN where ELSE IF pc[j] = "asleep" THEN "find" ELSE pc[j]]
    BY DEF broadcast
  <1>2. "find" \in Places
    BY DEF Places
  <1>3. pc' \in [Thread -> Places]
    BY <1>1, <1>2
  <1>4. QED
    BY <1>1, <1>3 DEF Moves

-----------------------------------------------------------------------------
(* The invariant of the waiting tasks.                                     *)

(* Every program that a task can have is a sequence of calls.              *)
ProgramsTyped == \A q \in SUBSET Task : ProgramTyped(q)

(* The variables that the tokens depend on have their types.               *)
Shape ==
    /\ pc \in [Thread -> Places]
    /\ task \in [Thread -> TaskOrNone \cup {Main}]
    /\ next \in [Thread -> TaskOrNone]
    /\ held \in [Thread -> Seq(Token)]
    /\ prog \in [Thread -> Seq(CallType)]
    /\ lock_ \in Thread \cup {NoThread}
    /\ blockers_ \in [Token -> Int]
    /\ writer_ \in [Token -> TaskOrNone]
    /\ queued \subseteq Task

(* The lock is held by the thread in release_locks, only there is a next   *)
(* task known, and a thread that runs has a task.                          *)
LockExact == /\ \A j \in Thread : pc[j] = "release" <=> lock_ = j
             /\ \A j \in Thread : next[j] # NoTask => lock_ = j
             /\ \A j \in Thread : pc[j] = "run" => task[j] # NoTask

(* A token that tasks wait for is not free, or the task that runs next     *)
(* takes it.                                                               *)
Taking(k) == \E j \in Thread : next[j] # NoTask /\ k \in WriteTokens(next[j])
Guarded   == \A k \in Token : waiters[k] # <<>> => Blocked(k) \/ Taking(k)

wqInv == Lists /\ Shape /\ LockExact /\ Guarded

(* A task that waits for a write token takes it.                           *)
LEMMA WaitsTakes ==
    ASSUME NEW t \in Task, NEW k, Waits(t, k), k \notin Blocker
    PROVE  k \in WriteTokens(t)
  BY TaskAssumption DEF Waits, WriteTokens

(* A token is blocked as long as its writer and its blockers are the same. *)
LEMMA BlockedSame ==
    ASSUME UNCHANGED tokenVars, NEW k PROVE Blocked(k)' <=> Blocked(k)
  BY DEF tokenVars, Blocked

(* A step of thread i outside of release_locks after which tasks wait only *)
(* for tokens that are not free.                                           *)
LEMMA CalmStep ==
    ASSUME wqInv, NEW i \in Thread, NEW where, Moves(i, where), where # "release", pc[i] # "release",
           UNCHANGED <<next, held, lock_>>, Lists',
           task' \in [Thread -> TaskOrNone \cup {Main}], prog' \in [Thread -> Seq(CallType)],
           blockers_' \in [Token -> Int], writer_' \in [Token -> TaskOrNone], queued' \subseteq Task,
           \A j \in Thread \ {i} : task'[j] = task[j],
           where = "run" => task'[i] # NoTask,
           \A k \in Token : waiters'[k] # <<>> => waiters[k] # <<>> \/ Blocked(k),
           \A k \in Token : Blocked(k) => Blocked(k)'
    PROVE  wqInv'
  <1>1. Shape'
    BY DEF wqInv, Shape, Moves
  <1>2. LockExact'
    <2>1. \A j \in Thread : pc'[j] = "release" <=> pc[j] = "release"
      BY DEF Moves
    <2>2. \A j \in Thread : pc'[j] = "run" => task'[j] # NoTask
      BY DEF Moves, wqInv, LockExact
    <2>3. QED
      BY <2>1, <2>2 DEF wqInv, LockExact
  <1>3. Guarded'
    <2> SUFFICES ASSUME NEW k \in Token, waiters'[k] # <<>> PROVE Blocked(k)' \/ Taking(k)'
      BY DEF Guarded
    <2>1. Blocked(k) \/ Taking(k)
      BY DEF wqInv, Guarded
    <2>2. Taking(k) => Taking(k)'
      BY DEF Taking
    <2>3. QED
      BY <2>1, <2>2
  <1>4. QED
    BY <1>1, <1>2, <1>3 DEF wqInv

-----------------------------------------------------------------------------
(* The calls of a running task keep the invariant.                         *)

(* The arguments of calls, and the calls that remain.                      *)
LEMMA CallIs ==
    ASSUME Shape, NEW i \in Thread, NEW op, Calls(i, op)
    PROVE  /\ op \in {"queue", "queue_soon", "queue_next"} => Arg(i) \in Task
           /\ op = "add_blocker" => Arg(i).token \in Token /\ Arg(i).count \in Nat
           /\ Return(i) => prog' \in [Thread -> Seq(CallType)]
           /\ pc[i] = "run" /\ lock_ = NoThread
  <1>1. prog \in [Thread -> Seq(CallType)] /\ prog[i] \in Seq(CallType) /\ prog[i] # <<>>
    BY DEF Shape, Calls
  <1>2. PICK c : c = Head(prog[i])
    OBVIOUS
  <1>3. c \in CallType
    BY <1>1, <1>2, HeadOf
  <1>4. c.op = op /\ Arg(i) = c.arg
    BY <1>2 DEF Calls, Arg
  <1>5. op \in {"queue", "queue_soon", "queue_next"} => c.arg \in Task
    BY <1>3, <1>4 DEF CallType
  <1>6. op = "add_blocker" => c.arg.token \in Token /\ c.arg.count \in Nat
    BY <1>3, <1>4 DEF CallType
  <1>7. ASSUME Return(i) PROVE prog' \in [Thread -> Seq(CallType)]
    <2>1. PICK rest : rest = Tail(prog[i])
      OBVIOUS
    <2>2. rest \in Seq(CallType)
      BY <1>1, <2>1
    <2>3. prog' = [prog EXCEPT ![i] = rest]
      BY <1>7, <2>1 DEF Return
    <2>4. QED
      BY <1>1, <2>2, <2>3
  <1>8. QED
    BY <1>4, <1>5, <1>6, <1>7 DEF Calls

(* A list with one more task, at the front or at the end.                  *)
WithTask(u, s, t) == u = <<t>> \o s \/ u = Append(s, t)

(* A list with a task added at either end holds that task and what was     *)
(* there.                                                                  *)
LEMMA Longer ==
    ASSUME NEW s \in Seq(Task), NEW t \in Task, NEW u, WithTask(u, s, t)
    PROVE  u \in Seq(Task) /\ \A n \in DOMAIN u : u[n] = t \/ \E j \in DOMAIN s : u[n] = s[j]
  <1>1. CASE u = <<t>> \o s
    <2>1. <<t>> \in Seq(Task) /\ \A j \in DOMAIN <<t>> : <<t>>[j] = t
      OBVIOUS
    <2>2. QED
      BY <1>1, <2>1, Concatenated
  <1>2. CASE u = Append(s, t)
    <2>1. u \in Seq(Task) /\ Len(u) = Len(s) + 1 /\ Len(s) \in Nat
      BY <1>2
    <2>2. ASSUME NEW n \in DOMAIN u PROVE u[n] = t \/ \E j \in DOMAIN s : u[n] = s[j]
      <3>1. n \in 1..(Len(s) + 1)
        BY <2>1
      <3>2. CASE n = Len(s) + 1
        BY <1>2, <3>2
      <3>3. CASE n # Len(s) + 1
        <4>1. n \in 1..Len(s)
          BY <2>1, <3>1, <3>3
        <4>2. n \in DOMAIN s /\ u[n] = s[n]
          BY <1>2, <4>1
        <4>3. QED
          BY <4>2
      <3>4. QED
        BY <3>2, <3>3
    <2>3. QED
      BY <2>1, <2>2
  <1>3. QED
    BY <1>1, <1>2 DEF WithTask

(* A task joins the list of one token.                                     *)
Put(ws, k, new) == [ws EXCEPT ![k] = new]

(* A task that waits for a token may be put on the list of that token.     *)
LEMMA JoinsOne ==
    ASSUME NEW ws, Joined(ws), NEW t \in Task, NEW k \in Token, Waits(t, k),
           NEW new, WithTask(new, ws[k], t),
           NEW u, u = Put(ws, k, new)
    PROVE  Joined(u) /\ \A l \in Token : u[l] # <<>> => ws[l] # <<>> \/ l = k
  <1>1. ws \in [Token -> Seq(Task)] /\ \A l \in Token : \A n \in DOMAIN ws[l] : Waits(ws[l][n], l)
    BY DEF Joined
  <1>2. ws[k] \in Seq(Task)
    BY <1>1
  <1>3. new \in Seq(Task) /\ \A n \in DOMAIN new : new[n] = t \/ \E j \in DOMAIN ws[k] : new[n] = ws[k][j]
    BY <1>2, Longer
  <1>4. u \in [Token -> Seq(Task)] /\ u[k] = new /\ \A l \in Token \ {k} : u[l] = ws[l]
    BY <1>1, <1>3 DEF Put
  <1>5. ASSUME NEW l \in Token, NEW n \in DOMAIN u[l] PROVE Waits(u[l][n], l)
    <2>1. CASE l = k
      BY <1>1, <1>3, <1>4, <1>5, <2>1
    <2>2. CASE l # k
      BY <1>1, <1>4, <1>5, <2>2
    <2>3. QED
      BY <2>1, <2>2
  <1>6. QED
    BY <1>4, <1>5 DEF Joined

(* queue, queue_soon and queue_next.                                       *)
LEMMA QueueStep ==
    ASSUME wqInv, NEW i \in Thread, NEW op \in {"queue", "queue_soon", "queue_next"},
           NEW queue_soon_ \in BOOLEAN, NEW front \in BOOLEAN, AddToQueue(i, op, queue_soon_, front)
    PROVE  wqInv'
  <1>1. PICK t : t = Arg(i)
    OBVIOUS
  <1>2. PICK token : token = is_runnable(t, NoToken)
    OBVIOUS
  <1> DEFINE add(list) == IF front THEN <<t>> \o list ELSE Append(list, t)
  <1>3. Calls(i, op) /\ Return(i)
    BY DEF AddToQueue
  <1>4. Lists /\ Shape /\ LockExact
    BY DEF wqInv
  <1>5. t \in Task /\ prog' \in [Thread -> Seq(CallType)] /\ pc[i] = "run" /\ lock_ = NoThread
    BY <1>1, <1>3, <1>4, CallIs
  <1>6. /\ UNCHANGED <<tokenVars, task, next, held, lock_>>
        /\ queued' = queued \cup {t}
    BY <1>1 DEF AddToQueue
  <1>7. /\ token # NoToken => /\ waiters' = [waiters EXCEPT ![token] = add(waiters[token])]
                              /\ UNCHANGED <<first_tasks_, tasks_, pc>>
        /\ token = NoToken => /\ first_tasks_' = IF queue_soon_ THEN add(first_tasks_) ELSE first_tasks_
                              /\ tasks_' = IF queue_soon_ THEN tasks_ ELSE add(tasks_)
                              /\ signal(1, i, "run")
                              /\ waiters' = waiters
    BY <1>1, <1>2 DEF AddToQueue
  <1>8. pc \in [Thread -> Places] /\ task[i] # NoTask /\ task \in [Thread -> TaskOrNone \cup {Main}]
    BY <1>4, <1>5 DEF LockExact, Shape
  <1>9. \A list \in Seq(Task) : add(list) \in Seq(Task)
    BY <1>5, Longer DEF WithTask
  <1>10. first_tasks_ \in Seq(Task) /\ tasks_ \in Seq(Task) /\ Joined(waiters)
    BY <1>4 DEF Lists
  <1>11. /\ Moves(i, "run") /\ Lists'
         /\ \A k \in Token : waiters'[k] # <<>> => waiters[k] # <<>> \/ Blocked(k)
    <2>1. CASE token # NoToken
      <3>1. token \in Token /\ Blocked(token) /\ Waits(t, token)
        BY <1>2, <1>5, <2>1, RunnableIs
      <3>2. PICK new, ws : new = add(waiters[token]) /\ ws = waiters'
        OBVIOUS
      <3>3. Joined(ws) /\ \A k \in Token : ws[k] # <<>> => waiters[k] # <<>> \/ k = token
        <4>1. WithTask(new, waiters[token], t)
          BY <3>2 DEF WithTask
        <4>2. ws = Put(waiters, token, new)
          BY <1>7, <2>1, <3>2 DEF Put
        <4>3. QED
          BY <1>5, <1>10, <3>1, <4>1, <4>2, JoinsOne
      <3>4. Moves(i, pc[i])
        BY <1>7, <1>8, <2>1, MovesNone
      <3>5. Lists'
        BY <1>7, <1>10, <2>1, <3>2, <3>3 DEF Lists, Joined
      <3>6. QED
        BY <1>5, <3>1, <3>2, <3>3, <3>4, <3>5
    <2>2. CASE token = NoToken
      <3>1. Moves(i, "run")
        <4>1. "run" \in Places
          BY DEF Places
        <4>2. QED
          BY <1>7, <1>8, <2>2, <4>1, MovesSignal
      <3>2. first_tasks_' \in Seq(Task) /\ tasks_' \in Seq(Task)
        BY <1>7, <1>9, <1>10, <2>2
      <3>3. Lists'
        BY <1>7, <1>10, <2>2, <3>2 DEF Lists, Joined
      <3>4. QED
        BY <1>7, <2>2, <3>1, <3>3
    <2>3. QED
      BY <2>1, <2>2
  <1>12. \A k \in Token : Blocked(k) => Blocked(k)'
    BY <1>6, BlockedSame
  <1>13. blockers_' \in [Token -> Int] /\ writer_' \in [Token -> TaskOrNone] /\ queued' \subseteq Task
    BY <1>4, <1>5, <1>6 DEF Shape, tokenVars
  <1>14. task' = task /\ UNCHANGED <<next, held, lock_>>
    BY <1>6
  <1>15. QED
    BY <1>5, <1>8, <1>11, <1>12, <1>13, <1>14, CalmStep

(* A step that changes neither tokens nor lists.                           *)
LEMMA ListsSame ==
    ASSUME wqInv, UNCHANGED listVars
    PROVE  Lists' /\ \A k \in Token : waiters'[k] # <<>> => waiters[k] # <<>> \/ Blocked(k)
  BY DEF wqInv, Lists, Joined, listVars

(* A step that leaves the tokens alone leaves them typed and blocked.      *)
LEMMA TokensSame ==
    ASSUME wqInv, UNCHANGED tokenVars
    PROVE  /\ blockers_' \in [Token -> Int] /\ writer_' \in [Token -> TaskOrNone]
           /\ \A k \in Token : Blocked(k) => Blocked(k)'
  <1>1. blockers_' \in [Token -> Int] /\ writer_' \in [Token -> TaskOrNone]
    BY DEF wqInv, Shape, tokenVars
  <1>2. QED
    BY <1>1, BlockedSame

(* set_thread_count.                                                       *)
LEMMA ThreadsStep ==
    ASSUME wqInv, NEW i \in Thread, set_thread_count(i)
    PROVE  wqInv'
  <1>1. Calls(i, "set_thread_count") /\ Return(i) /\ UNCHANGED <<listVars, tokenVars, task, next, held, queued, lock_>>
    BY DEF set_thread_count, histVars
  <1>2. Shape /\ LockExact
    BY DEF wqInv
  <1>3. prog' \in [Thread -> Seq(CallType)] /\ pc[i] = "run"
    BY <1>1, <1>2, CallIs
  <1>4. PICK new : /\ \A j \in new : pc[j] = "unborn"
                   /\ pc' = [j \in Thread |-> IF j \in new \cup Asleep THEN "find" ELSE pc[j]]
    BY DEF set_thread_count
  <1>5. Moves(i, "run")
    <2>1. \A j \in Asleep : pc[j] = "asleep"
      BY DEF Asleep
    <2>2. pc \in [Thread -> Places] /\ "find" \in Places
      BY <1>2 DEF Shape, Places
    <2>3. pc' \in [Thread -> Places]
      BY <1>4, <2>2
    <2>4. QED
      BY <1>3, <1>4, <2>1, <2>3 DEF Moves
  <1>6. task' = task /\ task[i] # NoTask /\ task' \in [Thread -> TaskOrNone \cup {Main}] /\ queued' \subseteq Task
    BY <1>1, <1>2, <1>3 DEF LockExact, Shape
  <1>7. Lists' /\ \A k \in Token : waiters'[k] # <<>> => waiters[k] # <<>> \/ Blocked(k)
    BY <1>1, ListsSame
  <1>8. /\ blockers_' \in [Token -> Int] /\ writer_' \in [Token -> TaskOrNone]
        /\ \A k \in Token : Blocked(k) => Blocked(k)'
    BY <1>1, TokensSame
  <1>9. UNCHANGED <<next, held, lock_>>
    BY <1>1
  <1>10. QED
    BY <1>3, <1>5, <1>6, <1>7, <1>8, <1>9, CalmStep

(* add_blocker: a token that is not free stays so.                         *)
LEMMA AddBlockerStep ==
    ASSUME wqInv, NEW i \in Thread, add_blocker(i)
    PROVE  wqInv'
  <1>1. /\ Calls(i, "add_blocker") /\ Return(i)
        /\ UNCHANGED <<listVars, writer_, task, next, held, queued, lock_, pc>>
    BY DEF add_blocker, histVars
  <1>2. Shape /\ LockExact
    BY DEF wqInv
  <1>3. prog' \in [Thread -> Seq(CallType)] /\ pc[i] = "run" /\ Arg(i).token \in Token /\ Arg(i).count \in Nat
    BY <1>1, <1>2, CallIs
  <1>4. PICK k, n : k = Arg(i).token /\ n = Arg(i).count
    OBVIOUS
  <1>5. k \in Token /\ n \in Nat /\ blockers_' = [blockers_ EXCEPT ![k] = @ + n]
    BY <1>3, <1>4 DEF add_blocker
  <1>6. blockers_ \in [Token -> Int]
    BY <1>2 DEF Shape
  <1>7. blockers_' \in [Token -> Int] /\ \A l \in Token : blockers_[l] > 0 => blockers_'[l] > 0
    BY <1>5, <1>6
  <1>8. \A l \in Token : Blocked(l) => Blocked(l)'
    BY <1>1, <1>7 DEF Blocked
  <1>9. Moves(i, "run")
    BY <1>1, <1>2, <1>3, MovesNone DEF Shape
  <1>10. /\ task' = task /\ task[i] # NoTask /\ task' \in [Thread -> TaskOrNone \cup {Main}]
         /\ queued' \subseteq Task /\ writer_' \in [Token -> TaskOrNone]
    BY <1>1, <1>2, <1>3 DEF LockExact, Shape
  <1>11. Lists' /\ \A l \in Token : waiters'[l] # <<>> => waiters[l] # <<>> \/ Blocked(l)
    BY <1>1, ListsSame
  <1>12. UNCHANGED <<next, held, lock_>>
    BY <1>1
  <1>13. QED
    BY <1>3, <1>7, <1>8, <1>9, <1>10, <1>11, <1>12, CalmStep

(* Steps of a thread that only moves on.                                   *)
LEMMA PlainStep ==
    ASSUME wqInv, NEW i \in Thread, NEW where \in Places, Moves(i, where),
           where # "release", pc[i] # "release", where = "run" => task'[i] # NoTask,
           UNCHANGED <<tokenVars, next, held, lock_, prog, queued>>,
           Lists', \A k \in Token : waiters'[k] # <<>> => waiters[k] # <<>> \/ Blocked(k),
           task' = task \/ task' = [task EXCEPT ![i] = NoTask]
    PROVE  wqInv'
  <1>1. Shape
    BY DEF wqInv
  <1>2. task' \in [Thread -> TaskOrNone \cup {Main}] /\ \A j \in Thread \ {i} : task'[j] = task[j]
    BY <1>1 DEF Shape, TaskOrNone
  <1>3. /\ blockers_' \in [Token -> Int] /\ writer_' \in [Token -> TaskOrNone]
        /\ \A k \in Token : Blocked(k) => Blocked(k)'
    BY TokensSame
  <1>4. prog' \in [Thread -> Seq(CallType)] /\ queued' \subseteq Task
    BY <1>1 DEF Shape
  <1>5. UNCHANGED <<next, held, lock_>>
    OBVIOUS
  <1>6. QED
    BY <1>2, <1>3, <1>4, <1>5, CalmStep

(* main calls process, and a thread wakes up without a signal.             *)
LEMMA ProcessStep ==
    ASSUME wqInv, NEW i \in Thread, process(i)
    PROVE  wqInv'
  <1>1. /\ UNCHANGED <<listVars, tokenVars, next, held, lock_, prog, queued>>
        /\ pc[i] = "run" /\ pc' = [pc EXCEPT ![i] = "find"] /\ task' = [task EXCEPT ![i] = NoTask]
    BY DEF process, histVars
  <1>2. "find" \in Places /\ pc \in [Thread -> Places]
    BY DEF Places, wqInv, Shape
  <1>3. Moves(i, "find")
    BY <1>1, <1>2, MovesOne
  <1>4. Lists' /\ \A k \in Token : waiters'[k] # <<>> => waiters[k] # <<>> \/ Blocked(k)
    BY <1>1, ListsSame
  <1>5. QED
    BY <1>1, <1>2, <1>3, <1>4, PlainStep

(* A thread that wakes up without a signal only moves.                     *)
LEMMA WakeupStep ==
    ASSUME wqInv, NEW i \in Thread, SpuriousWakeup(i)
    PROVE  wqInv'
  <1>1. /\ UNCHANGED <<listVars, tokenVars, next, held, lock_, prog, queued, task>>
        /\ pc[i] = "asleep" /\ pc' = [pc EXCEPT ![i] = "find"]
    BY DEF SpuriousWakeup, histVars, runVars
  <1>2. "find" \in Places /\ pc \in [Thread -> Places]
    BY DEF Places, wqInv, Shape
  <1>3. Moves(i, "find")
    BY <1>1, <1>2, MovesOne
  <1>4. Lists' /\ \A k \in Token : waiters'[k] # <<>> => waiters[k] # <<>> \/ Blocked(k)
    BY <1>1, ListsSame
  <1>5. QED
    BY <1>1, <1>2, <1>3, <1>4, PlainStep

(* delete t.                                                               *)
LEMMA DeleteStep ==
    ASSUME wqInv, NEW i \in Thread, DeleteTask(i)
    PROVE  wqInv'
  <1>1. /\ UNCHANGED <<listVars, tokenVars, next, held, lock_, prog, queued, task>>
        /\ pc[i] = "delete" /\ pc' = [pc EXCEPT ![i] = Goes(task[i])]
    BY DEF DeleteTask
  <1>2. PICK where : where = Goes(task[i])
    OBVIOUS
  <1>3. where \in Places /\ pc \in [Thread -> Places] /\ where # "release" /\ (where = "run" => task[i] # NoTask)
    BY <1>2 DEF Places, wqInv, Shape, Goes
  <1>4. Moves(i, where)
    BY <1>1, <1>2, <1>3, MovesOne
  <1>5. Lists' /\ \A k \in Token : waiters'[k] # <<>> => waiters[k] # <<>> \/ Blocked(k)
    BY <1>1, ListsSame
  <1>6. QED
    BY <1>1, <1>3, <1>4, <1>5, PlainStep

(* A thread that finds nothing: all is done, it is cancelled, or it waits. *)
LEMMA IdleStep ==
    ASSUME wqInv, NEW i \in Thread, AllDone(i) \/ Cancel(i) \/ Sleep(i)
    PROVE  wqInv'
  <1>1. UNCHANGED <<tokenVars, next, held, lock_, prog, queued, task>> /\ TakeFrom(find_runnable) /\ pc[i] = "find"
    BY DEF AllDone, Cancel, Sleep, histVars, runVars, Finds
  <1>2. {"exit", "asleep"} \subseteq Places /\ pc \in [Thread -> Places]
    BY DEF Places, wqInv, Shape
  <1>3. Moves(i, "exit") \/ Moves(i, "asleep")
    <2>1. CASE AllDone(i)
      BY <1>2, <2>1, MovesBroadcast DEF AllDone
    <2>2. CASE Cancel(i)
      BY <1>2, <2>2, MovesOne DEF Cancel
    <2>3. CASE Sleep(i)
      BY <1>2, <2>3, MovesOne DEF Sleep
    <2>4. QED
      BY <2>1, <2>2, <2>3
  <1>4. Lists' /\ \A k \in Token : waiters'[k] # <<>> => waiters[k] # <<>> \/ Blocked(k)
    BY <1>1, Takes DEF wqInv
  <1>5. QED
    BY <1>1, <1>2, <1>3, <1>4, PlainStep

-----------------------------------------------------------------------------
(* Taking a task, and releasing its tokens.                                *)

(* t->locks(&tl): the write tokens of t are not free any more.             *)
LEMMA LocksIs ==
    ASSUME ProgramsTyped, Shape, NEW i \in Thread, NEW t \in Task, locks(i, t), blockers_' = blockers_
    PROVE  /\ writer_' \in [Token -> TaskOrNone]
           /\ \A k \in Token : writer_'[k] = IF k \in WriteTokens(t) THEN t ELSE writer_[k]
           /\ \A k \in Token : Blocked(k) \/ k \in WriteTokens(t) => Blocked(k)'
           /\ task' = [task EXCEPT ![i] = t] /\ task' \in [Thread -> TaskOrNone \cup {Main}]
           /\ prog' \in [Thread -> Seq(CallType)]
  <1>1. /\ writer_ \in [Token -> TaskOrNone] /\ task \in [Thread -> TaskOrNone \cup {Main}]
        /\ prog \in [Thread -> Seq(CallType)] /\ queued \in SUBSET Task
    BY DEF Shape
  <1>2. t \in TaskOrNone /\ t # NoTask
    BY TokenAssumption DEF TaskOrNone
  <1>3. writer_' = [k \in Token |-> IF k \in WriteTokens(t) THEN t ELSE writer_[k]]
    BY DEF locks
  <1>4. /\ writer_' \in [Token -> TaskOrNone]
        /\ \A k \in Token : writer_'[k] = IF k \in WriteTokens(t) THEN t ELSE writer_[k]
    BY <1>1, <1>2, <1>3
  <1>5. \A k \in WriteTokens(t) : k \notin Blocker
    BY DEF WriteTokens
  <1>6. \A k \in Token : Blocked(k) \/ k \in WriteTokens(t) => Blocked(k)'
    BY <1>2, <1>4, <1>5 DEF Blocked
  <1>7. task' = [task EXCEPT ![i] = t] /\ task' \in [Thread -> TaskOrNone \cup {Main}]
    BY <1>1, <1>2 DEF locks
  <1>8. PICK j \in DOMAIN Program(t, queued) : prog' = [prog EXCEPT ![i] = Program(t, queued)[j]]
    BY DEF locks
  <1>9. Program(t, queued)[j] \in Seq(CallType)
    BY <1>1, <1>8 DEF ProgramsTyped, ProgramTyped
  <1>10. prog' \in [Thread -> Seq(CallType)]
    BY <1>1, <1>8, <1>9
  <1>11. QED
    BY <1>4, <1>6, <1>7, <1>10

(* A thread takes a task; those that find_runnable has passed over wait    *)
(* for a token that is not free.                                           *)
LEMMA FindStep ==
    ASSUME ProgramsTyped, wqInv, NEW i \in Thread, FindTask(i)
    PROVE  wqInv'
  <1>1. /\ pc[i] = "find" /\ lock_ = NoThread /\ find_runnable.task # NoTask /\ TakeFrom(find_runnable)
        /\ locks(i, find_runnable.task) /\ pc' = [pc EXCEPT ![i] = "run"]
        /\ UNCHANGED <<blockers_, next, held, queued, lock_>>
    BY DEF FindTask, Finds, histVars
  <1>2. Lists /\ Shape
    BY DEF wqInv
  <1>3. PICK t : t = find_runnable.task
    OBVIOUS
  <1>4. t \in Task /\ t # NoTask /\ locks(i, t)
    BY <1>1, <1>2, <1>3, FoundIs
  <1>5. Lists' /\ \A k \in Token : waiters'[k] # <<>> => waiters[k] # <<>> \/ Blocked(k)
    BY <1>1, <1>2, Takes
  <1>6. /\ writer_' \in [Token -> TaskOrNone]
        /\ \A k \in Token : Blocked(k) => Blocked(k)'
        /\ task' = [task EXCEPT ![i] = t] /\ task' \in [Thread -> TaskOrNone \cup {Main}]
        /\ prog' \in [Thread -> Seq(CallType)]
    BY <1>1, <1>2, <1>4, LocksIs
  <1>7. /\ task'[i] # NoTask /\ (\A j \in Thread \ {i} : task'[j] = task[j])
        /\ blockers_' \in [Token -> Int] /\ queued' \subseteq Task
    BY <1>1, <1>2, <1>4, <1>6 DEF Shape
  <1>8. Moves(i, "run")
    <2>1. "run" \in Places /\ pc \in [Thread -> Places]
      BY <1>2 DEF Shape, Places
    <2>2. QED
      BY <1>1, <2>1, MovesOne
  <1>9. UNCHANGED <<next, held, lock_>>
    BY <1>1
  <1>10. QED
    BY <1>1, <1>5, <1>6, <1>7, <1>8, <1>9, CalmStep

(* No thread is NoThread.                                                  *)
LEMMA ThreadIs == NoThread \notin Thread
  BY ThreadAssumption DEF NoThread, Thread

(* run of a task has returned: its thread takes the lock for               *)
(* release_locks.                                                          *)
LEMMA FinishStep ==
    ASSUME wqInv, NEW i \in Thread, Finish(i)
    PROVE  wqInv'
  <1>1. /\ pc[i] = "run" /\ task[i] # Main /\ lock_ = NoThread /\ lock_' = i
        /\ held' = [held EXCEPT ![i] = Locks[task[i]]] /\ pc' = [pc EXCEPT ![i] = "release"]
        /\ UNCHANGED <<listVars, tokenVars, task, prog, next, queued>>
    BY DEF Finish, histVars
  <1>2. Shape /\ LockExact /\ Guarded
    BY DEF wqInv
  <1>3. Moves(i, "release")
    <2>1. "release" \in Places /\ pc \in [Thread -> Places]
      BY <1>2 DEF Shape, Places
    <2>2. QED
      BY <1>1, <2>1, MovesOne
  <1>4. held' \in [Thread -> Seq(Token)]
    <2>1. task[i] \in Task
      BY <1>1, <1>2 DEF Shape, LockExact, TaskOrNone
    <2>2. PICK s : s = Locks[task[i]]
      OBVIOUS
    <2>3. s \in Seq(Token)
      BY <2>1, <2>2, TaskAssumption
    <2>4. QED
      BY <1>1, <1>2, <2>2, <2>3 DEF Shape
  <1>5. Shape'
    BY <1>1, <1>2, <1>3, <1>4 DEF Shape, Moves, tokenVars
  <1>6. LockExact'
    <2>1. \A j \in Thread : next[j] = NoTask /\ pc[j] # "release"
      BY <1>1, <1>2, ThreadIs DEF LockExact
    <2>2. QED
      BY <1>1, <1>2, <1>3, <2>1 DEF LockExact, Moves
  <1>7. Guarded'
    <2>1. \A k \in Token : Blocked(k) => Blocked(k)'
      BY <1>1, BlockedSame
    <2>2. UNCHANGED <<waiters, next>>
      BY <1>1 DEF listVars
    <2>3. QED
      BY <1>2, <2>1, <2>2 DEF Guarded, Taking
  <1>8. Lists'
    BY <1>1, ListsSame
  <1>9. QED
    BY <1>5, <1>6, <1>7, <1>8 DEF wqInv

(* One token of release_locks after which it is free or tasks still wait   *)
(* for it because it is not.                                               *)
LEMMA ReleaseLeaves ==
    ASSUME wqInv, NEW i \in Thread, NEW k \in Token, pc[i] = "release",
           Lists', Moves(i, "release"),
           next' = [next EXCEPT ![i] = next'[i]], next'[i] \in TaskOrNone,
           next[i] # NoTask => next'[i] = next[i],
           blockers_' \in [Token -> Int], writer_' \in [Token -> TaskOrNone],
           held' = [held EXCEPT ![i] = Tail(@)], held[i] # <<>>,
           UNCHANGED <<task, prog, queued, lock_>>,
           \A l \in Token \ {k} : Blocked(l) => Blocked(l)',
           \A l \in Token \ {k} : waiters'[l] # <<>> => waiters[l] # <<>> \/ Blocked(l),
           waiters'[k] # <<>> => Blocked(k)' \/ Taking(k)'
    PROVE  wqInv'
  <1>1. Shape /\ LockExact /\ Guarded
    BY DEF wqInv
  <1>2. next \in [Thread -> TaskOrNone] /\ next' \in [Thread -> TaskOrNone] /\ \A j \in Thread \ {i} : next'[j] = next[j]
    BY <1>1 DEF Shape
  <1>3. held' \in [Thread -> Seq(Token)]
    <2>1. held \in [Thread -> Seq(Token)] /\ held[i] \in Seq(Token)
      BY <1>1 DEF Shape
    <2>2. PICK s : s = Tail(held[i])
      OBVIOUS
    <2>3. s \in Seq(Token) /\ held' = [held EXCEPT ![i] = s]
      BY <2>1, <2>2
    <2>4. QED
      BY <2>1, <2>3
  <1>4. Shape'
    BY <1>1, <1>2, <1>3 DEF Shape, Moves
  <1>5. LockExact'
    BY <1>1, <1>2 DEF LockExact, Moves
  <1>6. \A l \in Token : Taking(l) => Taking(l)'
    BY <1>2 DEF Taking
  <1>7. Guarded'
    <2> SUFFICES ASSUME NEW l \in Token, waiters'[l] # <<>> PROVE Blocked(l)' \/ Taking(l)'
      BY DEF Guarded
    <2>1. CASE l = k
      BY <2>1
    <2>2. CASE l # k
      BY <1>1, <1>6, <2>2 DEF Guarded
    <2>3. QED
      BY <2>1, <2>2
  <1>8. QED
    BY <1>4, <1>5, <1>7 DEF wqInv

(* The tasks that wait for k are woken, and what is left on its list is    *)
(* behind a task that takes k.                                             *)
LEMMA WokenLeaves ==
    ASSUME wqInv, NEW i \in Thread, NEW k \in Token, WakeWaiters(i, k)
    PROVE  /\ Lists' /\ Moves(i, "release")
           /\ next' = [next EXCEPT ![i] = next'[i]] /\ next'[i] \in TaskOrNone
           /\ next[i] # NoTask => next'[i] = next[i]
           /\ next[i] = NoTask /\ next'[i] # NoTask => \A l \in Token \ {k} : Waits(next'[i], l) => ~Blocked(l)
           /\ \A l \in Token \ {k} : waiters'[l] # <<>> => waiters[l] # <<>> \/ Blocked(l)
           /\ waiters'[k] # <<>> => Taking(k)'
  <1>1. Lists /\ next \in [Thread -> TaskOrNone] /\ pc \in [Thread -> Places]
    BY DEF wqInv, Shape
  <1>2. /\ Lists'
        /\ next' = [next EXCEPT ![i] = next'[i]] /\ next'[i] \in TaskOrNone
        /\ next[i] # NoTask => next'[i] = next[i]
        /\ next[i] = NoTask /\ next'[i] # NoTask =>
             Waits(next'[i], k) /\ \A l \in Token \ {k} : Waits(next'[i], l) => ~Blocked(l)
        /\ \A l \in Token \ {k} : waiters'[l] # <<>> => waiters[l] # <<>> \/ Blocked(l)
        /\ waiters'[k] # <<>> => k \notin Blocker /\ next[i] = NoTask /\ next'[i] # NoTask
        /\ \E n : signal(n, i, "release")
    BY <1>1, Wakes
  <1>3. Moves(i, "release")
    <2>1. "release" \in Places
      BY DEF Places
    <2>2. QED
      BY <1>1, <1>2, <2>1, MovesSignal
  <1>4. ASSUME waiters'[k] # <<>> PROVE Taking(k)'
    <2>1. next'[i] \in Task /\ Waits(next'[i], k) /\ k \notin Blocker
      BY <1>2, <1>4 DEF TaskOrNone
    <2>2. k \in WriteTokens(next'[i])
      BY <2>1, WaitsTakes
    <2>3. next'[i] # NoTask
      BY <1>2, <1>4
    <2>4. QED
      BY <2>2, <2>3 DEF Taking
  <1>5. QED
    BY <1>2, <1>3, <1>4

(* release_locks of a token with this task as its writer hands the waiting *)
(* tasks back to the queue.                                                *)
LEMMA ReleaseWriterStep ==
    ASSUME wqInv, NEW i \in Thread, NEW k \in Token, ReleaseWriter(i, k)
    PROVE  wqInv'
  <1>1. /\ pc[i] = "release" /\ held[i] # <<>> /\ k \notin Blocker
        /\ writer_' = [writer_ EXCEPT ![k] = NoTask] /\ WakeWaiters(i, k)
        /\ held' = [held EXCEPT ![i] = Tail(@)]
        /\ UNCHANGED <<blockers_, task, prog, queued, lock_>>
    BY DEF ReleaseWriter, Releases, histVars
  <1>2. blockers_' \in [Token -> Int] /\ writer_ \in [Token -> TaskOrNone]
    BY <1>1 DEF wqInv, Shape
  <1>3. writer_' \in [Token -> TaskOrNone]
    BY <1>1, <1>2 DEF TaskOrNone
  <1>4. \A l \in Token \ {k} : Blocked(l) => Blocked(l)'
    BY <1>1, <1>2 DEF Blocked
  <1>5. /\ Lists' /\ Moves(i, "release")
        /\ next' = [next EXCEPT ![i] = next'[i]] /\ next'[i] \in TaskOrNone
        /\ next[i] # NoTask => next'[i] = next[i]
        /\ \A l \in Token \ {k} : waiters'[l] # <<>> => waiters[l] # <<>> \/ Blocked(l)
        /\ waiters'[k] # <<>> => Taking(k)'
    BY <1>1, WokenLeaves
  <1>6. QED
    BY <1>1, <1>2, <1>3, <1>4, <1>5, ReleaseLeaves

(* release_locks of a blocker: when its count falls to 0 the waiting tasks *)
(* go back to the queue.                                                   *)
LEMMA ReleaseBlockerStep ==
    ASSUME wqInv, NEW i \in Thread, NEW k \in Token, ReleaseBlocker(i, k)
    PROVE  wqInv'
  <1>1. /\ pc[i] = "release" /\ held[i] # <<>> /\ k \in Blocker
        /\ blockers_' = [blockers_ EXCEPT ![k] = @ - 1]
        /\ held' = [held EXCEPT ![i] = Tail(@)]
        /\ UNCHANGED <<writer_, task, prog, queued, lock_>>
        /\ blockers_[k] = 1 => WakeWaiters(i, k)
        /\ blockers_[k] # 1 => UNCHANGED <<listVars, next, pc>>
    BY DEF ReleaseBlocker, Releases, histVars
  <1>2. blockers_ \in [Token -> Int] /\ writer_' \in [Token -> TaskOrNone]
    BY <1>1 DEF wqInv, Shape
  <1>3. /\ blockers_' \in [Token -> Int] /\ blockers_'[k] = blockers_[k] - 1
        /\ \A l \in Token \ {k} : blockers_'[l] = blockers_[l]
    BY <1>1, <1>2
  <1>4. \A l \in Token \ {k} : Blocked(l) => Blocked(l)'
    BY <1>1, <1>3 DEF Blocked
  <1>5. CASE blockers_[k] = 1
    <2>1. /\ Lists' /\ Moves(i, "release")
          /\ next' = [next EXCEPT ![i] = next'[i]] /\ next'[i] \in TaskOrNone
          /\ next[i] # NoTask => next'[i] = next[i]
          /\ \A l \in Token \ {k} : waiters'[l] # <<>> => waiters[l] # <<>> \/ Blocked(l)
          /\ waiters'[k] # <<>> => Taking(k)'
      BY <1>1, <1>5, WokenLeaves
    <2>2. QED
      BY <1>1, <1>2, <1>3, <1>4, <2>1, ReleaseLeaves
  <1>6. CASE blockers_[k] # 1
    <2>1. UNCHANGED <<listVars, next, pc>>
      BY <1>1, <1>6
    <2>2. Lists' /\ waiters' = waiters
      BY <2>1, ListsSame DEF listVars
    <2>3. Moves(i, "release")
      BY <1>1, <2>1, MovesNone DEF wqInv, Shape
    <2>4. next' = [next EXCEPT ![i] = next'[i]] /\ next'[i] \in TaskOrNone /\ next'[i] = next[i]
      BY <2>1 DEF wqInv, Shape
    <2>5. waiters'[k] # <<>> => Blocked(k)' \/ Taking(k)'
      <3>1. Blocked(k) => Blocked(k)'
        BY <1>1, <1>2, <1>3, <1>6 DEF Blocked
      <3>2. Taking(k) => Taking(k)'
        BY <2>1 DEF Taking
      <3>3. QED
        BY <2>2, <3>1, <3>2 DEF wqInv, Guarded
    <2>6. \A l \in Token \ {k} : waiters'[l] # <<>> => waiters[l] # <<>> \/ Blocked(l)
      BY <2>2
    <2>7. QED
      BY <1>1, <1>2, <1>3, <1>4, <2>2, <2>3, <2>4, <2>5, <2>6, ReleaseLeaves
  <1>7. QED
    BY <1>5, <1>6

(* The end of release_locks: the next task, if there is one, takes the     *)
(* tokens that others wait for.                                            *)
LEMMA NextTaskStep ==
    ASSUME ProgramsTyped, wqInv, NEW i \in Thread, NextTask(i)
    PROVE  wqInv'
  <1>1. PICK t : t = IF next[i] = NoTask THEN find_runnable.task ELSE next[i]
    OBVIOUS
  <1>2. Lists /\ Shape /\ LockExact /\ Guarded
    BY DEF wqInv
  <1>3. /\ pc[i] = "release" /\ lock_' = NoThread /\ next' = [next EXCEPT ![i] = NoTask]
        /\ UNCHANGED <<blockers_, held, queued>>
        /\ next[i] = NoTask => TakeFrom(find_runnable)
        /\ next[i] # NoTask => UNCHANGED listVars
        /\ t # NoTask => locks(i, t)
        /\ t = NoTask => task' = [task EXCEPT ![i] = NoTask] /\ UNCHANGED <<writer_, prog>>
        /\ pc' = [pc EXCEPT ![i] = "delete"] \/ pc' = [pc EXCEPT ![i] = Goes(t)]
    BY <1>1 DEF NextTask
  <1>4. t \in TaskOrNone
    BY <1>1, <1>2, FoundIs DEF TaskOrNone, Shape
  <1>5. Lists' /\ \A k \in Token : waiters'[k] # <<>> => waiters[k] # <<>> \/ Blocked(k)
    BY <1>2, <1>3, Takes, ListsSame
  <1>6. /\ writer_' \in [Token -> TaskOrNone] /\ task' \in [Thread -> TaskOrNone \cup {Main}]
        /\ prog' \in [Thread -> Seq(CallType)] /\ task' = [task EXCEPT ![i] = t]
        /\ \A k \in Token : Blocked(k) => Blocked(k)'
        /\ t # NoTask => \A k \in Token : k \in WriteTokens(t) => Blocked(k)'
    <2>1. CASE t # NoTask
      <3>1. t \in Task /\ locks(i, t) /\ blockers_' = blockers_
        BY <1>3, <1>4, <2>1 DEF TaskOrNone
      <3>2. QED
        BY <1>2, <3>1, LocksIs
    <2>2. CASE t = NoTask
      <3>1. UNCHANGED tokenVars
        BY <1>3, <2>2 DEF tokenVars
      <3>2. /\ task' = [task EXCEPT ![i] = t] /\ task' \in [Thread -> TaskOrNone \cup {Main}]
            /\ writer_' \in [Token -> TaskOrNone] /\ prog' \in [Thread -> Seq(CallType)]
        BY <1>2, <1>3, <1>4, <2>2 DEF Shape
      <3>3. QED
        BY <2>2, <3>1, <3>2, BlockedSame
    <2>3. QED
      BY <2>1, <2>2
  <1>7. PICK where : where = pc'[i]
    OBVIOUS
  <1>8. Moves(i, where) /\ where # "release" /\ (where = "run" => t # NoTask)
    <2>1. {"delete", "find", "run"} \subseteq Places /\ pc \in [Thread -> Places]
      BY <1>2 DEF Places, Shape
    <2>2. Goes(t) \in {"find", "run"} /\ (Goes(t) = "run" => t # NoTask)
      BY DEF Goes
    <2>3. PICK w \in {"delete", "find", "run"} : pc' = [pc EXCEPT ![i] = w] /\ (w = "run" => t # NoTask)
      BY <1>3, <2>2
    <2>4. Moves(i, w) /\ where = w
      BY <1>7, <2>1, <2>3, MovesOne
    <2>5. QED
      BY <2>3, <2>4
  <1>9. Shape'
    BY <1>2, <1>3, <1>6, <1>8 DEF Shape, Moves, TaskOrNone
  <1>10. LockExact'
    <2>1. lock_ = i
      BY <1>2, <1>3 DEF LockExact
    <2>2. \A j \in Thread : pc'[j] # "release" /\ next'[j] = NoTask
      BY <1>2, <1>3, <1>8, <2>1 DEF LockExact, Moves, Shape
    <2>3. \A j \in Thread : pc'[j] = "run" => task'[j] # NoTask
      BY <1>2, <1>6, <1>8 DEF LockExact, Moves, Shape
    <2>4. QED
      BY <1>3, <2>2, <2>3, ThreadIs DEF LockExact
  <1>11. Guarded'
    <2> SUFFICES ASSUME NEW k \in Token, waiters'[k] # <<>> PROVE Blocked(k)'
      BY DEF Guarded
    <2>1. CASE Blocked(k)
      BY <1>6, <2>1
    <2>2. CASE ~Blocked(k)
      <3>1. Taking(k)
        BY <1>2, <1>5, <2>2 DEF Guarded
      <3>2. next[i] # NoTask /\ k \in WriteTokens(next[i])
        BY <1>2, <1>3, <3>1 DEF Taking, LockExact
      <3>3. QED
        BY <1>1, <1>6, <3>2
    <2>3. QED
      BY <2>1, <2>2
  <1>12. QED
    BY <1>5, <1>9, <1>10, <1>11 DEF wqInv

-----------------------------------------------------------------------------
(* The invariant holds from the start.                                     *)
LEMMA wqInvInit == ASSUME ProgramsTyped, Init PROVE wqInv
  <1>1. Lists
    BY DEF Init, Lists, Joined
  <1>2. Shape
    <2>1. PICK j \in DOMAIN Program(Main, {}) :
            prog = [i \in Thread |-> IF i = 0 THEN Program(Main, {})[j] ELSE <<>>]
      BY DEF Init
    <2>2. Program(Main, {})[j] \in Seq(CallType)
      BY <2>1 DEF ProgramsTyped, ProgramTyped
    <2>3. prog \in [Thread -> Seq(CallType)]
      BY <2>1, <2>2
    <2>4. pc \in [Thread -> Places]
      BY DEF Init, Places
    <2>5. QED
      BY <2>3, <2>4 DEF Init, Shape, TaskOrNone
  <1>3. LockExact
    BY ThreadIs, TokenAssumption DEF Init, LockExact
  <1>4. Guarded
    BY DEF Init, Guarded
  <1>5. QED
    BY <1>1, <1>2, <1>3, <1>4 DEF wqInv

(* Every step keeps it.                                                    *)
LEMMA wqInvStep == ASSUME ProgramsTyped, wqInv, [Next]_vars PROVE wqInv'
  <1>1. ASSUME NEW i \in Thread, Step(i) PROVE wqInv'
    <2>1. CASE queue(i) \/ queue_soon(i) \/ queue_next(i)
      BY <2>1, QueueStep DEF queue, queue_soon, queue_next
    <2>2. CASE set_thread_count(i)
      BY <2>2, ThreadsStep
    <2>3. CASE add_blocker(i)
      BY <2>3, AddBlockerStep
    <2>4. CASE process(i)
      BY <2>4, ProcessStep
    <2>5. CASE FindTask(i)
      BY <2>5, FindStep
    <2>6. CASE AllDone(i) \/ Cancel(i) \/ Sleep(i)
      BY <2>6, IdleStep
    <2>7. CASE Finish(i)
      BY <2>7, FinishStep
    <2>8. CASE \E k \in Token : ReleaseBlocker(i, k) \/ ReleaseWriter(i, k)
      BY <2>8, ReleaseBlockerStep, ReleaseWriterStep
    <2>9. CASE NextTask(i)
      BY <2>9, NextTaskStep
    <2>10. CASE DeleteTask(i)
      BY <2>10, DeleteStep
    <2>11. QED
      BY <1>1, <2>1, <2>2, <2>3, <2>4, <2>5, <2>6, <2>7, <2>8, <2>9, <2>10 DEF Step
  <1>2. ASSUME UNCHANGED vars PROVE wqInv'
    BY <1>2 DEF vars, listVars, tokenVars, threadVars, runVars, histVars, wqInv, Lists, Joined, Shape,
                LockExact, Guarded, Taking, Blocked
  <1>3. QED
    BY <1>1, <1>2, WakeupStep DEF Next, Stopped

(* No task is left waiting for a token that is free, for any tasks, tokens *)
(* and threads.                                                            *)
THEOREM WaitersCorrect == ASSUME ProgramsTyped PROVE Spec => []WaitersBlocked
  <1>1. wqInv => WaitersBlocked
    BY ThreadIs DEF wqInv, LockExact, Guarded, Taking, WaitersBlocked
  <1>2. QED
    BY <1>1, wqInvInit, wqInvStep, PTL DEF Spec

-----------------------------------------------------------------------------
(* Exclusion.                                                              *)

(* Thread j runs a task, whose tokens are locked.                          *)
Active(j) == task[j] \in Task /\ pc[j] # "release"

(* The write tokens of a task that runs are locked; no other task that     *)
(* runs has them; release_locks of another thread does not release them;   *)
(* and those that the next task looks at are free.                         *)
Locked   == \A j \in Thread : Active(j) => \A k \in WriteTokens(task[j]) : writer_[k] # NoTask
Disjoint == \A i, j \in Thread : i # j /\ Active(i) /\ Active(j) =>
                WriteTokens(task[i]) \cap WriteTokens(task[j]) = {}
Others   == \A i, j \in Thread : i # j /\ pc[i] = "release" /\ Active(j) =>
                \A n \in DOMAIN held[i] : held[i][n] \notin WriteTokens(task[j])
Free(t)  == \A k \in Token \ Blocker : Waits(t, k) => writer_[k] = NoTask
NextFree == \A i \in Thread : next[i] # NoTask => Free(next[i])

exclInv == Locked /\ Disjoint /\ Others /\ NextFree

(* A step that starts no task and locks nothing.                           *)
LEMMA NobodyStarts ==
    ASSUME exclInv, UNCHANGED <<writer_, held, next>>,
           \A j \in Thread : Active(j)' => Active(j) /\ task'[j] = task[j],
           \A j \in Thread : pc'[j] = "release" => pc[j] = "release"
    PROVE  exclInv'
  <1>1. Locked'
    BY DEF exclInv, Locked, WriteTokens
  <1>2. Disjoint'
    <2>1. \A i, j \in Thread : i # j /\ Active(i)' /\ Active(j)' =>
             WriteTokens(task'[i]) \cap WriteTokens(task'[j]) = {}
      BY DEF exclInv, Disjoint
    <2>2. QED
      BY <2>1 DEF Disjoint, WriteTokens
  <1>3. Others'
    <2>1. \A i, j \in Thread : i # j /\ pc'[i] = "release" /\ Active(j)' =>
             \A n \in DOMAIN held'[i] : held'[i][n] \notin WriteTokens(task'[j])
      BY DEF exclInv, Others
    <2>2. QED
      BY <2>1 DEF Others, WriteTokens
  <1>4. NextFree'
    BY DEF exclInv, NextFree, Free, Waits
  <1>5. QED
    BY <1>1, <1>2, <1>3, <1>4 DEF exclInv

(* A task whose tokens are free starts, and nobody is in release_locks.    *)
LEMMA OneStarts ==
    ASSUME Shape, exclInv, NEW i \in Thread, NEW t \in Task, LooksAtLocks, Free(t),
           task' = [task EXCEPT ![i] = t],
           \A k \in Token : writer_'[k] = IF k \in WriteTokens(t) THEN t ELSE writer_[k],
           \A j \in Thread \ {i} : Active(j)' => Active(j),
           \A j \in Thread : pc'[j] # "release" /\ next'[j] = NoTask
    PROVE  exclInv'
  <1>1. t # NoTask /\ task'[i] = t /\ \A j \in Thread \ {i} : task'[j] = task[j]
    BY TokenAssumption DEF Shape
  <1>2. \A u \in Task : WriteTokens(u) \subseteq Token \ Blocker
    BY TaskAssumption DEF WriteTokens
  <1>3. \A k \in WriteTokens(t) : writer_[k] = NoTask
    BY <1>2 DEF Free, Waits, LooksAtLocks
  <1>4. ASSUME NEW j \in Thread \ {i}, Active(j)'
        PROVE  /\ Active(j) /\ task'[j] = task[j] /\ task[j] \in Task
               /\ \A k \in WriteTokens(task[j]) : writer_[k] # NoTask
    BY <1>1, <1>4 DEF exclInv, Locked, Active
  <1>5. Locked'
    <2> SUFFICES ASSUME NEW j \in Thread, Active(j)', NEW k \in WriteTokens(task'[j])
                 PROVE  writer_'[k] # NoTask
      BY DEF Locked, WriteTokens
    <2>1. CASE j = i
      BY <1>1, <1>2, <2>1
    <2>2. CASE j # i
      BY <1>1, <1>2, <1>4, <2>2
    <2>3. QED
      BY <2>1, <2>2
  <1>6. Disjoint'
    <2>1. \A j \in Thread \ {i} : Active(j)' => WriteTokens(task'[j]) \cap WriteTokens(t) = {}
      BY <1>3, <1>4
    <2>2. \A j, l \in Thread \ {i} : j # l /\ Active(j)' /\ Active(l)' =>
             WriteTokens(task'[j]) \cap WriteTokens(task'[l]) = {}
      BY <1>4 DEF exclInv, Disjoint
    <2>3. \A j, l \in Thread : j # l /\ Active(j)' /\ Active(l)' =>
             WriteTokens(task'[j]) \cap WriteTokens(task'[l]) = {}
      BY <1>1, <2>1, <2>2
    <2>4. QED
      BY <2>3 DEF Disjoint, WriteTokens
  <1>7. Others' /\ NextFree'
    BY DEF Others, NextFree
  <1>8. QED
    BY <1>5, <1>6, <1>7 DEF exclInv

(* Who is in release_locks is told by the lock.                            *)
LEMMA LockSame ==
    ASSUME wqInv, wqInv', UNCHANGED <<lock_, task>>
    PROVE  \A j \in Thread : (pc'[j] = "release" <=> pc[j] = "release") /\ (Active(j)' <=> Active(j))
  BY DEF wqInv, LockExact, Active

(* run has returned: the tokens of its task are no other's.                *)
LEMMA FinishExcludes ==
    ASSUME wqInv, wqInv', exclInv, NEW i \in Thread, Finish(i)
    PROVE  exclInv'
  <1>1. /\ pc[i] = "run" /\ task[i] # Main /\ lock_' = i /\ lock_ = NoThread
        /\ held' = [held EXCEPT ![i] = Locks[task[i]]] /\ UNCHANGED <<writer_, task, next>>
    BY DEF Finish, tokenVars
  <1>2. /\ task[i] \in Task /\ held'[i] = Locks[task[i]] /\ Active(i)
        /\ \A n \in DOMAIN held'[i] : held'[i][n] \in WriteTokens(task[i]) \/ held'[i][n] \in Blocker
    <2>1. task[i] \in Task /\ Active(i)
      BY <1>1 DEF wqInv, Shape, LockExact, TaskOrNone, Active
    <2>2. held'[i] = Locks[task[i]]
      BY <1>1 DEF wqInv, Shape
    <2>3. \A n \in DOMAIN Locks[task[i]] :
             Locks[task[i]][n] \in WriteTokens(task[i]) \/ Locks[task[i]][n] \in Blocker
      BY DEF WriteTokens
    <2>4. QED
      BY <2>1, <2>2, <2>3
  <1>3. \A j \in Thread : (pc'[j] = "release" => j = i) /\ (Active(j)' => j # i /\ Active(j))
    BY <1>1, ThreadIs DEF wqInv, LockExact, Active
  <1>4. Locked'
    BY <1>1, <1>3 DEF exclInv, Locked, WriteTokens
  <1>5. Disjoint'
    <2>1. \A l, j \in Thread : l # j /\ Active(l)' /\ Active(j)' =>
             WriteTokens(task'[l]) \cap WriteTokens(task'[j]) = {}
      BY <1>1, <1>3 DEF exclInv, Disjoint
    <2>2. QED
      BY <2>1 DEF Disjoint, WriteTokens
  <1>6. Others'
    <2>1. ASSUME NEW j \in Thread, j # i, Active(j)', NEW n \in DOMAIN held'[i]
          PROVE  held'[i][n] \notin WriteTokens(task'[j])
      <3>1. WriteTokens(task[i]) \cap WriteTokens(task[j]) = {}
        BY <1>2, <1>3, <2>1 DEF exclInv, Disjoint
      <3>2. WriteTokens(task[j]) \cap Blocker = {}
        BY DEF WriteTokens
      <3>3. QED
        BY <1>1, <1>2, <2>1, <3>1, <3>2
    <2>2. \A l, j \in Thread : l # j /\ pc'[l] = "release" /\ Active(j)' =>
             \A n \in DOMAIN held'[l] : held'[l][n] \notin WriteTokens(task'[j])
      BY <1>3, <2>1
    <2>3. QED
      BY <2>2 DEF Others, WriteTokens
  <1>7. NextFree'
    BY <1>1 DEF exclInv, NextFree, Free, Waits
  <1>8. QED
    BY <1>4, <1>5, <1>6, <1>7 DEF exclInv

(* What Sequences says of the rest of a sequence.                          *)
LEMMA TailIs ==
    ASSUME NEW S, NEW s \in Seq(S), s # <<>>
    PROVE  1 \in DOMAIN s /\ \A n \in DOMAIN Tail(s) : n + 1 \in DOMAIN s /\ Tail(s)[n] = s[n + 1]
  OBVIOUS

(* One token of release_locks: it was no other's.                          *)
LEMMA ReleaseExcludes ==
    ASSUME wqInv, wqInv', exclInv, NEW i \in Thread, NEW k \in Token, Releases(i, k),
           held' = [held EXCEPT ![i] = Tail(@)], UNCHANGED <<task, lock_>>,
           \A l \in Token : writer_'[l] = IF l = k /\ k \notin Blocker THEN NoTask ELSE writer_[l],
           \A j \in Thread \ {i} : next'[j] = next[j],
           next'[i] # NoTask => \/ next'[i] = next[i]
                                \/ \A l \in Token \ {k} : Waits(next'[i], l) => ~Blocked(l)
    PROVE  exclInv'
  <1>1. pc[i] = "release" /\ held[i] \in Seq(Token) /\ held[i] # <<>> /\ k = held[i][1]
    BY DEF Releases, wqInv, Shape
  <1>2. /\ held'[i] = Tail(held[i]) /\ \A j \in Thread \ {i} : held'[j] = held[j]
    BY DEF wqInv, Shape
  <1>3. 1 \in DOMAIN held[i] /\ \A n \in DOMAIN held'[i] : n + 1 \in DOMAIN held[i] /\ held'[i][n] = held[i][n + 1]
    <2>1. 1 \in DOMAIN held[i]
          /\ \A n \in DOMAIN Tail(held[i]) : n + 1 \in DOMAIN held[i] /\ Tail(held[i])[n] = held[i][n + 1]
      BY <1>1, TailIs
    <2>2. QED
      BY <1>2, <2>1
  <1>4. \A j \in Thread : (pc'[j] = "release" <=> pc[j] = "release") /\ (Active(j)' <=> Active(j))
    BY LockSame
  <1>5. \A j \in Thread : Active(j) => j # i /\ k \notin WriteTokens(task[j]) /\ task[j] \in Task
    BY <1>1, <1>3 DEF exclInv, Others, Active
  <1>6. \A u \in Task : WriteTokens(u) \subseteq Token \ Blocker
    BY TaskAssumption DEF WriteTokens
  <1>7. Locked'
    <2>1. ASSUME NEW j \in Thread, Active(j)', NEW l \in WriteTokens(task'[j]) PROVE writer_'[l] # NoTask
      <3>1. Active(j) /\ l \in WriteTokens(task[j]) /\ l # k /\ l \in Token
        BY <1>4, <1>5, <1>6, <2>1
      <3>2. writer_[l] # NoTask
        BY <3>1 DEF exclInv, Locked
      <3>3. QED
        BY <3>1, <3>2
    <2>2. QED
      BY <2>1 DEF Locked, WriteTokens
  <1>8. Disjoint'
    <2>1. \A l, j \in Thread : l # j /\ Active(l)' /\ Active(j)' =>
             WriteTokens(task'[l]) \cap WriteTokens(task'[j]) = {}
      BY <1>4 DEF exclInv, Disjoint
    <2>2. QED
      BY <2>1 DEF Disjoint, WriteTokens
  <1>9. Others'
    <2>1. ASSUME NEW l \in Thread, NEW j \in Thread, l # j, pc'[l] = "release", Active(j)',
                 NEW n \in DOMAIN held'[l]
          PROVE  held'[l][n] \notin WriteTokens(task'[j])
      <3>1. pc[l] = "release" /\ Active(j) /\ task'[j] = task[j]
        BY <1>4, <2>1
      <3>2. \A m \in DOMAIN held[l] : held[l][m] \notin WriteTokens(task[j])
        BY <2>1, <3>1 DEF exclInv, Others
      <3>3. \E m \in DOMAIN held[l] : held'[l][n] = held[l][m]
        BY <1>2, <1>3, <2>1
      <3>4. QED
        BY <3>1, <3>2, <3>3
    <2>2. QED
      BY <2>1 DEF Others, WriteTokens
  <1>10. NextFree'
    <2>1. ASSUME NEW j \in Thread, next'[j] # NoTask, NEW l \in Token \ Blocker, Waits(next'[j], l)
          PROVE  writer_'[l] = NoTask
      <3>1. CASE next'[j] = next[j]
        <4>1. writer_[l] = NoTask
          BY <2>1, <3>1 DEF exclInv, NextFree, Free
        <4>2. QED
          BY <2>1, <4>1
      <3>2. CASE next'[j] # next[j]
        <4>1. j = i /\ \A m \in Token \ {k} : Waits(next'[i], m) => ~Blocked(m)
          BY <2>1, <3>2
        <4>2. l # k => writer_[l] = NoTask
          BY <2>1, <4>1 DEF Blocked
        <4>3. QED
          BY <2>1, <4>2
      <3>3. QED
        BY <3>1, <3>2
    <2>2. QED
      BY <2>1 DEF NextFree, Free, Waits
  <1>11. QED
    BY <1>7, <1>8, <1>9, <1>10 DEF exclInv

(* A task that find_runnable finds, or that release_locks returns, starts. *)
LEMMA FindExcludes ==
    ASSUME ProgramsTyped, LooksAtLocks, wqInv, wqInv', exclInv, NEW i \in Thread, FindTask(i)
    PROVE  exclInv'
  <1>1. PICK t : t = find_runnable.task
    OBVIOUS
  <1>2. /\ t # NoTask /\ locks(i, t) /\ lock_ = NoThread /\ UNCHANGED <<blockers_, next, lock_>>
    BY <1>1 DEF FindTask, Finds
  <1>3. t \in Task /\ Free(t)
    <2>1. t \in Task /\ \A k \in Token : Waits(t, k) => ~Blocked(k)
      BY <1>1, <1>2, FoundIs DEF wqInv
    <2>2. QED
      BY <2>1 DEF Free, Blocked
  <1>4. /\ task' = [task EXCEPT ![i] = t]
        /\ \A k \in Token : writer_'[k] = IF k \in WriteTokens(t) THEN t ELSE writer_[k]
    BY <1>2, <1>3, LocksIs DEF wqInv
  <1>5. \A j \in Thread : pc'[j] # "release" /\ pc[j] # "release" /\ next'[j] = NoTask
    BY <1>2, ThreadIs DEF wqInv, LockExact
  <1>6. \A j \in Thread \ {i} : Active(j)' => Active(j)
    BY <1>4, <1>5 DEF Active, wqInv, Shape
  <1>7. QED
    BY <1>3, <1>4, <1>5, <1>6, OneStarts DEF wqInv

(* The task that follows, from release_locks or find_runnable, starts only *)
(* when its tokens are free.                                               *)
LEMMA NextExcludes ==
    ASSUME ProgramsTyped, LooksAtLocks, wqInv, wqInv', exclInv, NEW i \in Thread, NextTask(i)
    PROVE  exclInv'
  <1>1. PICK t : t = IF next[i] = NoTask THEN find_runnable.task ELSE next[i]
    OBVIOUS
  <1>2. /\ pc[i] = "release" /\ lock_' = NoThread /\ next' = [next EXCEPT ![i] = NoTask]
        /\ UNCHANGED <<blockers_, held>>
        /\ t # NoTask => locks(i, t)
        /\ t = NoTask => task' = [task EXCEPT ![i] = NoTask] /\ writer_' = writer_
    BY <1>1 DEF NextTask
  <1>3. t # NoTask => t \in Task /\ Free(t)
    <2>1. CASE next[i] = NoTask
      <3>1. t = NoTask \/ (t \in Task /\ \A k \in Token : Waits(t, k) => ~Blocked(k))
        BY <1>1, <2>1, FoundIs DEF wqInv
      <3>2. QED
        BY <3>1 DEF Free, Blocked
    <2>2. CASE next[i] # NoTask
      <3>1. t = next[i] /\ next[i] \in Task
        BY <1>1, <2>2 DEF wqInv, Shape, TaskOrNone
      <3>2. QED
        BY <2>2, <3>1 DEF exclInv, NextFree
    <2>3. QED
      BY <2>1, <2>2
  <1>4. \A j \in Thread : pc'[j] # "release" /\ next'[j] = NoTask /\ (j # i => pc[j] # "release")
    BY <1>2, ThreadIs DEF wqInv, LockExact
  <1>5. CASE t # NoTask
    <2>1. /\ task' = [task EXCEPT ![i] = t]
          /\ \A k \in Token : writer_'[k] = IF k \in WriteTokens(t) THEN t ELSE writer_[k]
      BY <1>2, <1>3, <1>5, LocksIs DEF wqInv
    <2>2. \A j \in Thread \ {i} : Active(j)' => Active(j)
      BY <1>4, <2>1 DEF Active, wqInv, Shape
    <2>3. QED
      BY <1>3, <1>4, <1>5, <2>1, <2>2, OneStarts DEF wqInv
  <1>6. CASE t = NoTask
    <2>1. \A j \in Thread : Active(j)' => Active(j) /\ task'[j] = task[j]
      BY <1>2, <1>4, <1>6, TokenAssumption DEF Active, wqInv, Shape
    <2>2. next' = next
      <3>1. next[i] = NoTask
        BY <1>1, <1>6
      <3>2. QED
        BY <1>2, <3>1 DEF wqInv, Shape
    <2>3. QED
      BY <1>2, <1>4, <1>6, <2>1, <2>2, NobodyStarts
  <1>7. QED
    BY <1>5, <1>6

(* Every step keeps the exclusion.                                         *)
LEMMA exclInvStep ==
    ASSUME ProgramsTyped, LooksAtLocks, wqInv, exclInv, [Next]_vars PROVE exclInv'
  <1>1. wqInv'
    BY wqInvStep
  <1>2. ASSUME NEW i \in Thread, Step(i) PROVE exclInv'
    <2>1. CASE \/ queue(i) \/ queue_soon(i) \/ queue_next(i) \/ set_thread_count(i) \/ add_blocker(i)
               \/ AllDone(i) \/ Cancel(i) \/ Sleep(i) \/ DeleteTask(i)
      <3>1. UNCHANGED <<writer_, held, next, task, lock_>>
        BY <2>1 DEF queue, queue_soon, queue_next, AddToQueue, set_thread_count, add_blocker, AllDone,
                    Cancel, Sleep, DeleteTask, tokenVars, runVars
      <3>2. QED
        BY <1>1, <3>1, LockSame, NobodyStarts
    <2>2. CASE process(i)
      <3>1. /\ UNCHANGED <<writer_, held, next, lock_>> /\ task' = [task EXCEPT ![i] = NoTask]
            /\ pc[i] = "run"
        BY <2>2 DEF process, tokenVars
      <3>2. \A j \in Thread : pc'[j] = "release" <=> pc[j] = "release"
        BY <1>1, <3>1 DEF wqInv, LockExact
      <3>3. \A j \in Thread : Active(j)' => Active(j) /\ task'[j] = task[j]
        BY <3>1, <3>2, TokenAssumption DEF Active, wqInv, Shape
      <3>4. QED
        BY <3>1, <3>2, <3>3, NobodyStarts
    <2>3. CASE FindTask(i)
      BY <1>1, <2>3, FindExcludes
    <2>4. CASE Finish(i)
      BY <1>1, <2>4, FinishExcludes
    <2>5. ASSUME NEW k \in Token, ReleaseBlocker(i, k) PROVE exclInv'
      <3>1. /\ Releases(i, k) /\ held' = [held EXCEPT ![i] = Tail(@)] /\ UNCHANGED <<task, lock_, writer_>>
            /\ k \in Blocker
            /\ blockers_[k] = 1 => WakeWaiters(i, k)
            /\ blockers_[k] # 1 => next' = next
        BY <2>5 DEF ReleaseBlocker
      <3>2. /\ \A j \in Thread \ {i} : next'[j] = next[j]
            /\ next'[i] # NoTask => \/ next'[i] = next[i]
                                    \/ \A l \in Token \ {k} : Waits(next'[i], l) => ~Blocked(l)
        BY <3>1, WokenLeaves DEF wqInv, Shape
      <3>3. QED
        BY <1>1, <3>1, <3>2, ReleaseExcludes
    <2>6. ASSUME NEW k \in Token, ReleaseWriter(i, k) PROVE exclInv'
      <3>1. /\ Releases(i, k) /\ held' = [held EXCEPT ![i] = Tail(@)] /\ UNCHANGED <<task, lock_>>
            /\ k \notin Blocker /\ WakeWaiters(i, k) /\ writer_' = [writer_ EXCEPT ![k] = NoTask]
        BY <2>6 DEF ReleaseWriter
      <3>2. /\ \A j \in Thread \ {i} : next'[j] = next[j]
            /\ next'[i] # NoTask => \/ next'[i] = next[i]
                                    \/ \A l \in Token \ {k} : Waits(next'[i], l) => ~Blocked(l)
        BY <3>1, WokenLeaves DEF wqInv, Shape
      <3>3. \A l \in Token : writer_'[l] = IF l = k /\ k \notin Blocker THEN NoTask ELSE writer_[l]
        BY <3>1 DEF wqInv, Shape
      <3>4. QED
        BY <1>1, <3>1, <3>2, <3>3, ReleaseExcludes
    <2>7. CASE NextTask(i)
      BY <1>1, <2>7, NextExcludes
    <2>8. QED
      BY <1>2, <2>1, <2>2, <2>3, <2>4, <2>5, <2>6, <2>7 DEF Step
  <1>3. ASSUME NEW i \in Thread, SpuriousWakeup(i) PROVE exclInv'
    <2>1. UNCHANGED <<writer_, held, next, task, lock_>>
      BY <1>3 DEF SpuriousWakeup, tokenVars, runVars
    <2>2. QED
      BY <1>1, <2>1, LockSame, NobodyStarts
  <1>4. ASSUME UNCHANGED vars PROVE exclInv'
    <2>1. UNCHANGED <<writer_, held, next, task, lock_>>
      BY <1>4 DEF vars, tokenVars, runVars
    <2>2. QED
      BY <1>1, <2>1, LockSame, NobodyStarts
  <1>5. QED
    BY <1>2, <1>3, <1>4 DEF Next, Stopped

(* Tasks that lock the same token never run together, for any tasks whose  *)
(* is_runnable looks at the write tokens they lock, any tokens and any     *)
(* number of threads.                                                      *)
THEOREM ExclusionCorrect == ASSUME ProgramsTyped, LooksAtLocks PROVE Spec => []WritersExclusive
  <1>1. Init => exclInv
    BY TokenAssumption DEF Init, exclInv, Locked, Disjoint, Others, NextFree, Active
  <1>2. wqInv /\ exclInv => WritersExclusive
    <2>1. wqInv => \A i \in Thread : i \in Running /\ pc[i] # "release" => Active(i)
      BY DEF wqInv, Shape, Running, Active, TaskOrNone
    <2>2. QED
      BY <2>1 DEF exclInv, Disjoint, WritersExclusive, Running
  <1>3. Init => wqInv /\ exclInv
    BY <1>1, wqInvInit
  <1>4. wqInv /\ exclInv /\ [Next]_vars => wqInv' /\ exclInv'
    BY wqInvStep, exclInvStep
  <1>5. QED
    BY <1>2, <1>3, <1>4, PTL DEF Spec
=============================================================================
