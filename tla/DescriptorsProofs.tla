-------------------------- MODULE DescriptorsProofs --------------------------
(* Proofs about Descriptors, gold's table of file descriptors              *)
(* (gold/descriptors.cc). The stack of released descriptors is a list      *)
(* linked through the table itself; the proofs show that it is a chain     *)
(* without repetition whose members are the descriptors marked as being on *)
(* it, that each of open, release and close_some_descriptor keeps it so,   *)
(* and that every entry of the table belongs to one file. What they assume *)
(* is that names are distinct, and Intact: over the limit release closes a *)
(* descriptor without unlinking it, and nothing here holds after that.     *)
EXTENDS Descriptors, Extremes, FiniteSetTheorems

(* The provers, in the order in which a leaf is given to them.             *)
USE ZenonT(5), SMTT(30), ZenonT(30)

(* A link of the stack of released descriptors: a descriptor, or -1 at its *)
(* end; and an entry of open_descriptors_.                                 *)
Link == Descriptor \cup {-1}
Pod  == [name : {Name(f) : f \in File} \cup {NoName}, stack_next : Link,
         inuse : BOOLEAN, is_write : BOOLEAN, is_on_stack : BOOLEAN]

(* Entry d of table t says that it is on the stack, and what it is linked  *)
(* to.                                                                     *)
On(t, d)    == t.pods[d].is_on_stack = TRUE
After(t, d) == t.pods[d].stack_next

(* From the top of the stack the links of t lead through the m different   *)
(* descriptors w[0], ..., w[m - 1] and end there, and those are exactly    *)
(* the descriptors that are marked as being on the stack.                  *)
Chain(t, w, m) ==
    /\ m \in 0..Fds /\ w \in [0..Fds -> Link] /\ w[0] = t.top
    /\ \A n \in 0..Fds : w[n] = -1 <=> n >= m
    /\ \A n \in 0..m - 1 : After(t, w[n]) = w[n + 1]
    /\ \A n, k \in 0..m - 1 : w[n] = w[k] => n = k
    /\ \A d \in Descriptor : On(t, d) <=> \E n \in 0..m - 1 : w[n] = d

(* The equation that defines Walk(t), as a condition on a function.        *)
Steps(t, w) == w = [n \in 0..Fds |-> IF n = 0 THEN t.top
                                     ELSE IF w[n - 1] < 0 THEN -1
                                     ELSE t.pods[w[n - 1]].stack_next]

(* The descriptors of a chain follow each other as the walk of             *)
(* close_some_descriptor does.                                             *)
LEMMA StepsOfChain ==
    ASSUME NEW t, NEW w, NEW m, Chain(t, w, m)
    PROVE  Steps(t, w)
  <1>1. Fds \in Nat /\ m \in 0..Fds /\ w \in [0..Fds -> Link] /\ w[0] = t.top
    BY DescriptorsAssumption DEF Chain
  <1>2. ASSUME NEW n \in 0..Fds
        PROVE  w[n] = IF n = 0 THEN t.top ELSE IF w[n - 1] < 0 THEN -1
                      ELSE t.pods[w[n - 1]].stack_next
    <2>1. CASE n = 0
      BY <1>1, <2>1
    <2>2. CASE n # 0 /\ w[n - 1] < 0
      BY <1>1, <2>2 DEF Chain, Link, Descriptor
    <2>3. CASE n # 0 /\ ~(w[n - 1] < 0)
      <3>1. n - 1 \in 0..Fds /\ n - 1 + 1 = n
        BY <1>1, <2>3
      <3>2. w[n - 1] # -1
        BY <2>3
      <3>3. n - 1 \in 0..m - 1
        BY <1>1, <3>1, <3>2 DEF Chain
      <3>4. t.pods[w[n - 1]].stack_next = w[n]
        BY <3>1, <3>3 DEF Chain, After
      <3>5. QED
        BY <2>3, <3>4
    <2>4. QED
      BY <2>1, <2>2, <2>3
  <1>3. QED
    BY <1>1, <1>2 DEF Steps

(* Only one function follows the links: at the least place where two       *)
(* differed they would have come from the same place.                      *)
LEMMA StepsUnique ==
    ASSUME NEW t, NEW v, NEW w, Steps(t, v), Steps(t, w)
    PROVE  v = w
  <1> DEFINE S == {n \in 0..Fds : v[n] # w[n]}
  <1>1. Fds \in Nat
    BY DescriptorsAssumption
  <1>2. DOMAIN v = 0..Fds /\ DOMAIN w = 0..Fds /\ v = [n \in 0..Fds |-> v[n]] /\ w = [n \in 0..Fds |-> w[n]]
    BY DEF Steps
  <1>3. ASSUME S # {} PROVE FALSE
    <2>1. S \subseteq Nat
      BY <1>1
    <2>2. PICK k \in S : \A n \in S : k <= n
      BY <1>3, <2>1, MinIn
    <2>3. v[0] = w[0]
      BY <1>1 DEF Steps
    <2>4. k - 1 \in 0..Fds /\ k \in 0..Fds /\ k # 0 /\ k - 1 \notin S
      BY <1>1, <2>2, <2>3
    <2>5. v[k - 1] = w[k - 1]
      BY <2>4
    <2>6. v[k] = IF v[k - 1] < 0 THEN -1 ELSE t.pods[v[k - 1]].stack_next
      BY <2>4 DEF Steps
    <2>7. w[k] = IF w[k - 1] < 0 THEN -1 ELSE t.pods[w[k - 1]].stack_next
      BY <2>4 DEF Steps
    <2>8. QED
      BY <2>2, <2>5, <2>6, <2>7
  <1>4. QED
    BY <1>2, <1>3

(* The walk of close_some_descriptor along a chain meets the chain.        *)
LEMMA WalkOfChain ==
    ASSUME NEW t, NEW w, NEW m, Chain(t, w, m)
    PROVE  Walk(t) = w
  <1>1. Steps(t, w)
    BY StepsOfChain
  <1>2. Walk(t) = CHOOSE v : Steps(t, v)
    BY DEF Walk, Steps
  <1>3. Steps(t, Walk(t))
    BY <1>1, <1>2
  <1>4. QED
    BY <1>1, <1>3, StepsUnique

(* There are n numbers below n.                                            *)
LEMMA Below ==
    ASSUME NEW n \in Nat
    PROVE  IsFiniteSet(0..n - 1) /\ Cardinality(0..n - 1) = n
  <1>1. 0 \in Int /\ n - 1 \in Int
    OBVIOUS
  <1>2. IsFiniteSet(0..n - 1)
    BY <1>1, FS_Interval
  <1>3. Cardinality(0..n - 1) = IF 0 > n - 1 THEN 0 ELSE n - 1 - 0 + 1
    BY <1>1, FS_Interval
  <1>4. QED
    BY <1>2, <1>3

(* A chain stays one while the top, the marks and the links of its         *)
(* descriptors stay.                                                       *)
LEMMA ChainKept ==
    ASSUME NEW t, NEW u, NEW w, NEW m, Chain(t, w, m), u.top = t.top,
           \A d \in Descriptor : /\ On(u, d) <=> On(t, d)
                                 /\ On(t, d) => After(u, d) = After(t, d)
    PROVE  Chain(u, w, m)
  <1>1. Fds \in Nat /\ m \in 0..Fds /\ w \in [0..Fds -> Link]
    BY DescriptorsAssumption DEF Chain
  <1>2. ASSUME NEW n \in 0..m - 1 PROVE After(u, w[n]) = w[n + 1]
    <2>1. n \in 0..Fds /\ ~(n >= m)
      BY <1>1
    <2>2. w[n] \in Descriptor
      BY <1>1, <2>1 DEF Chain, Link
    <2>3. On(t, w[n]) /\ After(t, w[n]) = w[n + 1]
      BY <2>2 DEF Chain
    <2>4. QED
      BY <2>2, <2>3
  <1>3. QED
    BY <1>2 DEF Chain

(* What a chain leads through are descriptors that are marked as being on  *)
(* the stack.                                                              *)
LEMMA ChainElements ==
    ASSUME NEW t, NEW w, NEW m, Chain(t, w, m), NEW n \in 0..m - 1
    PROVE  n \in 0..Fds /\ w[n] \in Descriptor /\ On(t, w[n])
  <1>1. Fds \in Nat /\ m \in 0..Fds /\ w \in [0..Fds -> Link]
    BY DescriptorsAssumption DEF Chain
  <1>2. n \in 0..Fds /\ ~(n >= m)
    BY <1>1
  <1>3. w[n] \in Descriptor
    BY <1>1, <1>2 DEF Chain, Link
  <1>4. QED
    BY <1>2, <1>3 DEF Chain

(* Putting a descriptor that is not on the stack on top of it (release)    *)
(* gives a chain. It has room: there are only Fds descriptors.             *)
LEMMA ChainPushed ==
    ASSUME NEW t, NEW u, NEW w, NEW m, Chain(t, w, m), NEW d \in Descriptor,
           ~On(t, d),
           u.top = d, On(u, d), After(u, d) = t.top,
           \A e \in Descriptor \ {d} : /\ On(u, e) <=> On(t, e)
                                       /\ After(u, e) = After(t, e)
    PROVE  \E v : Chain(u, v, m + 1)
  <1>1. Fds \in Nat /\ m \in 0..Fds /\ w \in [0..Fds -> Link] /\ w[0] = t.top
    BY DescriptorsAssumption DEF Chain
  <1>2. \A n \in 0..m - 1 : n \in 0..Fds /\ w[n] \in Descriptor \ {d} /\ On(t, w[n])
    BY ChainElements
  <1>3. m + 1 \in 0..Fds
    <2>1. SUFFICES ASSUME m >= Fds PROVE FALSE
      BY <1>1
    <2>2. IsFiniteSet(0..m - 1) /\ Cardinality(0..m - 1) = m
      BY <1>1, Below
    <2>3. IsFiniteSet(Descriptor) /\ Cardinality(Descriptor) = Fds
      BY <1>1, Below DEF Descriptor
    <2>4. IsFiniteSet(Descriptor \ {d}) /\ Cardinality(Descriptor \ {d}) = Fds - 1
      BY <2>3, FS_RemoveElement
    <2>5. PICK g : g = [n \in 0..m - 1 |-> w[n]]
      OBVIOUS
    <2>6. g \in [0..m - 1 -> Descriptor \ {d}] /\ \A n \in 0..m - 1 : g[n] = w[n]
      BY <1>2, <2>5
    <2>7. Cardinality(Descriptor \ {d}) < Cardinality(0..m - 1)
      BY <1>1, <2>1, <2>2, <2>4
    <2>8. \E x, y \in 0..m - 1 : x # y /\ g[x] = g[y]
      <3>1. PICK S, T : S = 0..m - 1 /\ T = Descriptor \ {d}
        OBVIOUS
      <3>2. IsFiniteSet(S) /\ IsFiniteSet(T) /\ Cardinality(T) < Cardinality(S) /\ g \in [S -> T]
        BY <2>2, <2>4, <2>6, <2>7, <3>1
      <3>3. \E x, y \in S : x # y /\ g[x] = g[y]
        BY <3>2, FS_PigeonHole
      <3>4. QED
        BY <3>1, <3>3
    <2>9. QED
      BY <2>6, <2>8 DEF Chain
  <1>4. PICK v : v = [n \in 0..Fds |-> IF n = 0 THEN d ELSE w[n - 1]]
    OBVIOUS
  <1>5. v \in [0..Fds -> Link] /\ v[0] = d /\ \A n \in 0..Fds : n # 0 => n - 1 \in 0..Fds /\ v[n] = w[n - 1]
    BY <1>1, <1>4 DEF Link
  <1>6. \A n \in 0..Fds : v[n] = -1 <=> n >= m + 1
    <2>1. d # -1
      BY <1>1 DEF Descriptor
    <2>2. \A n \in 0..Fds : n # 0 => (w[n - 1] = -1 <=> n - 1 >= m)
      BY <1>5 DEF Chain
    <2>3. QED
      BY <1>1, <1>5, <2>1, <2>2
  <1>7. \A n \in 0..m : After(u, v[n]) = v[n + 1]
    <2>1. After(u, v[0]) = v[1]
      BY <1>1, <1>3, <1>5
    <2>2. ASSUME NEW n \in 0..m, n # 0 PROVE After(u, v[n]) = v[n + 1]
      <3>1. n - 1 \in 0..m - 1 /\ n \in 0..Fds /\ n + 1 \in 0..Fds /\ n - 1 + 1 = n /\ n + 1 - 1 = n /\ n + 1 # 0
        BY <1>1, <1>3, <2>2
      <3>2. After(t, w[n - 1]) = w[n]
        BY <3>1 DEF Chain
      <3>3. v[n] = w[n - 1] /\ v[n + 1] = w[n] /\ w[n - 1] \in Descriptor \ {d}
        BY <1>2, <1>5, <2>2, <3>1
      <3>4. QED
        BY <3>2, <3>3
    <2>3. QED
      BY <2>1, <2>2
  <1>8. \A n, k \in 0..m : v[n] = v[k] => n = k
    <2>1. \A n \in 0..m : n # 0 => n - 1 \in 0..m - 1 /\ n \in 0..Fds /\ v[n] = w[n - 1] /\ v[n] # d
      BY <1>1, <1>2, <1>3, <1>5
    <2>2. ASSUME NEW n \in 0..m, NEW k \in 0..m, v[n] = v[k], n # 0, k # 0 PROVE n = k
      <3>1. n - 1 \in 0..m - 1 /\ k - 1 \in 0..m - 1 /\ w[n - 1] = w[k - 1]
        BY <2>1, <2>2
      <3>2. n - 1 = k - 1
        BY <3>1 DEF Chain
      <3>3. QED
        BY <1>1, <3>2
    <2>3. QED
      BY <1>5, <2>1, <2>2
  <1>9. ASSUME NEW e \in Descriptor PROVE On(u, e) <=> \E n \in 0..m : v[n] = e
    <2>1. CASE e = d
      BY <1>1, <1>5, <2>1
    <2>2. CASE e # d
      <3>1. On(u, e) <=> \E n \in 0..m - 1 : w[n] = e
        BY <2>2 DEF Chain
      <3>2. ASSUME NEW n \in 0..m - 1, w[n] = e PROVE \E k \in 0..m : v[k] = e
        <4>1. n + 1 \in 0..m /\ n + 1 \in 0..Fds /\ n + 1 # 0 /\ n + 1 - 1 = n
          BY <1>1, <1>3
        <4>2. QED
          BY <1>5, <3>2, <4>1
      <3>3. ASSUME NEW n \in 0..m, v[n] = e PROVE \E k \in 0..m - 1 : w[k] = e
        <4>1. n # 0 /\ n - 1 \in 0..m - 1 /\ n \in 0..Fds
          BY <1>1, <1>3, <1>5, <2>2, <3>3
        <4>2. QED
          BY <1>5, <3>3, <4>1
      <3>4. QED
        BY <3>1, <3>2, <3>3
    <2>3. QED
      BY <2>1, <2>2
  <1>10. PICK k : k = m + 1 /\ 0..k - 1 = 0..m
    BY <1>1
  <1>11. /\ k \in 0..Fds /\ v \in [0..Fds -> Link] /\ v[0] = u.top
         /\ \A n \in 0..Fds : v[n] = -1 <=> n >= k
    BY <1>3, <1>5, <1>6, <1>10
  <1>12. /\ \A n \in 0..k - 1 : After(u, v[n]) = v[n + 1]
         /\ \A n, j \in 0..k - 1 : v[n] = v[j] => n = j
         /\ \A e \in Descriptor : On(u, e) <=> \E n \in 0..k - 1 : v[n] = e
    BY <1>7, <1>8, <1>9, <1>10
  <1>13. Chain(u, v, k)
    BY <1>11, <1>12 DEF Chain
  <1>14. QED
    BY <1>10, <1>13

(* Taking the descriptor at place h out, by letting the top or the one     *)
(* before it point to the one behind it (close_some_descriptor, open),     *)
(* gives a chain.                                                          *)
LEMMA ChainDropped ==
    ASSUME NEW t, NEW u, NEW w, NEW m, Chain(t, w, m), NEW h \in 0..m - 1, NEW i, i = w[h],
           ~On(u, i),
           h = 0 => u.top = After(t, i),
           h # 0 => u.top = t.top /\ After(u, w[h - 1]) = After(t, i),
           \A d \in Descriptor \ {i} :
              /\ On(u, d) <=> On(t, d)
              /\ h = 0 \/ d # w[h - 1] => After(u, d) = After(t, d)
    PROVE  \E v : Chain(u, v, m - 1)
  <1>1. Fds \in Nat /\ m \in 0..Fds /\ w \in [0..Fds -> Link] /\ w[0] = t.top /\ h \in 0..Fds /\ m > 0
    BY DescriptorsAssumption DEF Chain
  <1>2. \A n \in 0..m - 1 : n \in 0..Fds /\ n + 1 \in 0..Fds /\ w[n] \in Descriptor /\ After(t, w[n]) = w[n + 1]
    <2>1. ASSUME NEW n \in 0..m - 1 PROVE n + 1 \in 0..Fds
      BY <1>1
    <2>2. QED
      BY <2>1, ChainElements DEF Chain
  <1>3. PICK k : k = m - 1 /\ k \in 0..Fds /\ k >= h /\ k + 1 = m
    BY <1>1
  <1>4. PICK v : v = [n \in 0..Fds |-> IF n < h THEN w[n] ELSE IF n < Fds THEN w[n + 1] ELSE -1]
    OBVIOUS
  <1>5. v \in [0..Fds -> Link]
    BY <1>1, <1>4 DEF Link
  <1>6. \A n \in 0..Fds : n < h => v[n] = w[n]
    BY <1>1, <1>4
  <1>7. \A n \in 0..Fds : n >= h /\ n < Fds => n + 1 \in 0..Fds /\ v[n] = w[n + 1]
    BY <1>1, <1>4
  <1>8. v[0] = u.top
    <2>1. CASE h = 0
      BY <1>1, <1>2, <1>7, <2>1
    <2>2. CASE h # 0
      BY <1>1, <1>6, <2>2
    <2>3. QED
      BY <2>1, <2>2
  <1>9. \A n \in 0..Fds : v[n] = -1 <=> n >= k
    <2>1. ASSUME NEW n \in 0..Fds, n < h PROVE v[n] = -1 <=> n >= k
      BY <1>1, <1>3, <1>6, <2>1 DEF Chain
    <2>2. ASSUME NEW n \in 0..Fds, n >= h, n < Fds PROVE v[n] = -1 <=> n >= k
      <3>1. w[n + 1] = -1 <=> n + 1 >= m
        BY <1>7, <2>2 DEF Chain
      <3>2. QED
        BY <1>1, <1>3, <1>7, <2>2, <3>1
    <2>3. v[Fds] = -1 /\ Fds >= k
      BY <1>1, <1>3, <1>4
    <2>4. QED
      BY <1>1, <2>1, <2>2, <2>3
  <1>10. ASSUME NEW n \in 0..k - 1 PROVE n \in 0..Fds /\ n < Fds /\ n \in 0..m - 1 /\ n + 1 \in 0..m - 1
    BY <1>1, <1>3
  <1>11. ASSUME NEW n \in 0..k - 1 PROVE After(u, v[n]) = v[n + 1]
    <2>1. n \in 0..Fds /\ n < Fds /\ n \in 0..m - 1 /\ n + 1 \in 0..m - 1 /\ n + 1 \in 0..Fds
      BY <1>2, <1>10
    <2>2. CASE n + 1 < h
      <3>1. v[n] = w[n] /\ v[n + 1] = w[n + 1]
        BY <1>1, <1>6, <2>1, <2>2
      <3>2. w[n] # i /\ w[n] # w[h - 1]
        <4>1. h - 1 \in 0..m - 1 /\ n # h /\ n # h - 1
          BY <1>1, <2>1, <2>2
        <4>2. QED
          BY <2>1, <4>1 DEF Chain
      <3>3. QED
        BY <1>2, <2>1, <3>1, <3>2
    <2>3. CASE n + 1 = h
      <3>1. v[n] = w[n] /\ n + 1 < Fds
        BY <1>1, <1>3, <1>6, <2>1, <2>3
      <3>2. v[n + 1] = w[n + 1 + 1]
        BY <1>1, <1>7, <2>1, <2>3, <3>1
      <3>3. h # 0 /\ h - 1 = n
        BY <1>1, <2>1, <2>3
      <3>4. After(u, w[n]) = After(t, i) /\ After(t, i) = w[h + 1]
        BY <1>2, <3>3
      <3>5. QED
        BY <2>3, <3>1, <3>2, <3>4
    <2>4. CASE n >= h
      <3>1. v[n] = w[n + 1]
        BY <1>7, <2>1, <2>4
      <3>2. n + 1 < Fds /\ n + 1 >= h
        BY <1>1, <1>3, <2>1, <2>4
      <3>3. v[n + 1] = w[n + 1 + 1]
        BY <1>7, <2>1, <3>2
      <3>4. w[n + 1] # i /\ (h # 0 => w[n + 1] # w[h - 1])
        <4>1. n + 1 # h /\ (h # 0 => h - 1 \in 0..m - 1 /\ n + 1 # h - 1)
          BY <1>1, <2>1, <2>4
        <4>2. QED
          BY <2>1, <4>1 DEF Chain
      <3>5. After(t, w[n + 1]) = w[n + 1 + 1] /\ w[n + 1] \in Descriptor
        BY <1>2, <2>1
      <3>6. QED
        BY <3>1, <3>3, <3>4, <3>5
    <2>5. QED
      BY <1>1, <2>1, <2>2, <2>3, <2>4
  <1>12. ASSUME NEW n \in 0..k - 1, NEW j \in 0..k - 1, v[n] = v[j] PROVE n = j
    <2>1. /\ n \in 0..Fds /\ n < Fds /\ n \in 0..m - 1 /\ n + 1 \in 0..m - 1
          /\ j \in 0..Fds /\ j < Fds /\ j \in 0..m - 1 /\ j + 1 \in 0..m - 1
      BY <1>10
    <2>2. CASE n < h /\ j < h
      BY <1>6, <1>12, <2>1, <2>2 DEF Chain
    <2>3. CASE n >= h /\ j >= h
      <3>1. w[n + 1] = w[j + 1]
        BY <1>7, <1>12, <2>1, <2>3
      <3>2. n + 1 = j + 1
        BY <2>1, <3>1 DEF Chain
      <3>3. QED
        BY <2>1, <3>2
    <2>4. CASE n < h /\ j >= h
      <3>1. w[n] = w[j + 1]
        BY <1>6, <1>7, <1>12, <2>1, <2>4
      <3>2. n = j + 1
        BY <2>1, <3>1 DEF Chain
      <3>3. QED
        BY <2>1, <2>4, <3>2
    <2>5. CASE n >= h /\ j < h
      <3>1. w[n + 1] = w[j]
        BY <1>6, <1>7, <1>12, <2>1, <2>5
      <3>2. n + 1 = j
        BY <2>1, <3>1 DEF Chain
      <3>3. QED
        BY <2>1, <2>5, <3>2
    <2>6. QED
      BY <1>1, <2>1, <2>2, <2>3, <2>4, <2>5
  <1>13. ASSUME NEW d \in Descriptor PROVE On(u, d) <=> \E n \in 0..k - 1 : v[n] = d
    <2>1. ASSUME NEW n \in 0..m - 1, w[n] = d, d # i PROVE \E j \in 0..k - 1 : v[j] = d
      <3>1. n # h
        BY <2>1
      <3>2. CASE n < h
        <4>1. n \in 0..k - 1 /\ v[n] = d
          BY <1>1, <1>2, <1>3, <1>6, <2>1, <3>2
        <4>2. QED
          BY <4>1
      <3>3. CASE n > h
        <4>1. n - 1 \in 0..k - 1 /\ n - 1 \in 0..Fds /\ n - 1 >= h /\ n - 1 < Fds /\ n - 1 + 1 = n
          BY <1>1, <1>2, <1>3, <3>3
        <4>2. v[n - 1] = d
          BY <1>7, <2>1, <4>1
        <4>3. QED
          BY <4>1, <4>2
      <3>4. QED
        BY <1>1, <3>1, <3>2, <3>3
    <2>2. ASSUME NEW n \in 0..k - 1, v[n] = d PROVE d # i /\ \E j \in 0..m - 1 : w[j] = d
      <3>1. n \in 0..Fds /\ n < Fds /\ n \in 0..m - 1 /\ n + 1 \in 0..m - 1
        BY <1>10
      <3>2. CASE n < h
        <4>1. w[n] = d /\ n # h
          BY <1>6, <2>2, <3>1, <3>2
        <4>2. QED
          BY <3>1, <4>1 DEF Chain
      <3>3. CASE n >= h
        <4>1. w[n + 1] = d /\ n + 1 # h
          BY <1>1, <1>7, <2>2, <3>1, <3>3
        <4>2. QED
          BY <3>1, <4>1 DEF Chain
      <3>4. QED
        BY <1>1, <3>1, <3>2, <3>3
    <2>3. On(t, d) <=> \E n \in 0..m - 1 : w[n] = d
      BY DEF Chain
    <2>4. CASE d = i
      BY <2>2, <2>4
    <2>5. CASE d # i
      BY <2>1, <2>2, <2>3, <2>5
    <2>6. QED
      BY <2>4, <2>5
  <1>14. Chain(u, v, k)
    BY <1>3, <1>5, <1>8, <1>9, <1>11, <1>12, <1>13 DEF Chain
  <1>15. QED
    BY <1>3, <1>14

-----------------------------------------------------------------------------
(* The names, the tables and their parts.                                  *)
Names   == {Name(f) : f \in File} \cup {NoName}
Pods    == [Descriptor -> Pod]
Kernels == [Descriptor -> Names]
Tables  == [pods : Pods, top : Link, current : Int, limit : Nat, kernel : Kernels]

(* What entry d of table t says.                                           *)
InUse(t, d)   == t.pods[d].inuse = TRUE
Written(t, d) == t.pods[d].is_write = TRUE
Named(t, d)   == t.pods[d].name

(* Entry d says the same in t and u, apart from its link.                  *)
Alike(t, u, d) ==
    /\ Named(u, d) = Named(t, d)
    /\ InUse(u, d) <=> InUse(t, d)
    /\ Written(u, d) <=> Written(t, d)
    /\ On(u, d) <=> On(t, d)

(* A table, and the entries of one, with entry d replaced.                 *)
WithPod(t, d, z) == [t EXCEPT !.pods[d] = z]
PodSet(p, d, z)  == [p EXCEPT ![d] = z]

(* Table u differs from t in its entries only.                             *)
Same(t, u) ==
    /\ u \in Tables /\ u.top = t.top /\ u.current = t.current
    /\ u.limit = t.limit /\ u.kernel = t.kernel

(* Replacing one entry leaves the others.                                  *)
LEMMA PodsUpdated ==
    ASSUME NEW p \in Pods, NEW d \in Descriptor, NEW z \in Pod, NEW q, q = PodSet(p, d, z)
    PROVE  q \in Pods /\ q[d] = z /\ \A e \in Descriptor \ {d} : q[e] = p[e]
  BY DEF Pods, PodSet

(* Replacing one entry of a table leaves the rest of the table.            *)
LEMMA PodChanged ==
    ASSUME NEW t \in Tables, NEW d \in Descriptor, NEW z \in Pod, NEW u, u = WithPod(t, d, z)
    PROVE  /\ Same(t, u) /\ u.pods[d] = z
           /\ \A e \in Descriptor \ {d} : u.pods[e] = t.pods[e]
  <1>1. PICK q : q = PodSet(t.pods, d, z)
    OBVIOUS
  <1>2. t.pods \in Pods
    BY DEF Tables
  <1>3. q \in Pods /\ q[d] = z /\ \A e \in Descriptor \ {d} : q[e] = t.pods[e]
    BY <1>1, <1>2, PodsUpdated
  <1>4. u = [t EXCEPT !.pods = q]
    BY <1>1 DEF PodSet, WithPod
  <1>5. Same(t, u) /\ u.pods = q
    BY <1>3, <1>4 DEF Tables, Same
  <1>6. QED
    BY <1>3, <1>5

(* What the kernel has open once it has x open as d.                       *)
KernelSet(k, d, x) == [k EXCEPT ![d] = x]

(* What ::close, the reset of the name and the count of release do to a    *)
(* table.                                                                  *)
LEMMA ClosedIs ==
    ASSUME NEW t \in Tables, NEW d \in Descriptor, NEW u, u = Closed(t, d)
    PROVE  /\ u \in Tables /\ u.top = t.top /\ u.limit = t.limit /\ u.current = t.current - 1
           /\ u.kernel = KernelSet(t.kernel, d, NoName)
           /\ u.pods[d] = [t.pods[d] EXCEPT !.name = NoName]
           /\ \A e \in Descriptor \ {d} : u.pods[e] = t.pods[e]
  <1>1. PICK z : z = [t.pods[d] EXCEPT !.name = NoName]
    OBVIOUS
  <1>2. PICK q : q = PodSet(t.pods, d, z)
    OBVIOUS
  <1>3. PICK k : k = KernelSet(t.kernel, d, NoName)
    OBVIOUS
  <1>4. t.pods \in Pods /\ t.pods[d] \in Pod /\ t.kernel \in Kernels /\ t.current \in Int
    BY DEF Tables, Pods
  <1>5. PICK c \in Int : c = t.current - 1
    BY <1>4
  <1>6. z \in Pod
    BY <1>1, <1>4 DEF Pod
  <1>7. q \in Pods /\ q[d] = z /\ \A e \in Descriptor \ {d} : q[e] = t.pods[e]
    BY <1>2, <1>4, <1>6, PodsUpdated
  <1>8. k \in Kernels
    BY <1>3, <1>4 DEF Kernels, Names, KernelSet
  <1>9. u = [t EXCEPT !.kernel = k, !.pods = q, !.current = c]
    BY <1>1, <1>2, <1>3, <1>5 DEF Closed, PodSet, KernelSet
  <1>10. /\ u \in Tables /\ u.top = t.top /\ u.limit = t.limit /\ u.current = c
         /\ u.kernel = k /\ u.pods = q
    BY <1>7, <1>8, <1>9 DEF Tables
  <1>11. QED
    BY <1>1, <1>3, <1>5, <1>7, <1>10

(* An entry, and a table, once close_some_descriptor has closed a          *)
(* descriptor.                                                             *)
Off(p) == [p EXCEPT !.name = NoName, !.stack_next = -1, !.is_on_stack = FALSE]
Gone(t, d) == [Closed(t, d) EXCEPT !.pods[d].stack_next = -1, !.pods[d].is_on_stack = FALSE]

(* What close_some_descriptor does to a table before it mends the stack.   *)
LEMMA GoneIs ==
    ASSUME NEW t \in Tables, NEW d \in Descriptor, NEW u, u = Gone(t, d)
    PROVE  /\ u \in Tables /\ u.top = t.top /\ u.limit = t.limit /\ u.current = t.current - 1
           /\ u.kernel = KernelSet(t.kernel, d, NoName)
           /\ u.pods[d] = Off(t.pods[d])
           /\ \A e \in Descriptor \ {d} : u.pods[e] = t.pods[e]
  <1>1. PICK c : c = Closed(t, d)
    OBVIOUS
  <1>2. /\ c \in Tables /\ c.top = t.top /\ c.limit = t.limit /\ c.current = t.current - 1
        /\ c.kernel = KernelSet(t.kernel, d, NoName)
        /\ c.pods[d] = [t.pods[d] EXCEPT !.name = NoName]
        /\ \A e \in Descriptor \ {d} : c.pods[e] = t.pods[e]
    BY <1>1, ClosedIs
  <1>3. PICK y, z : y = c.pods[d] /\ z = [y EXCEPT !.stack_next = -1, !.is_on_stack = FALSE]
    OBVIOUS
  <1>4. y \in Pod /\ t.pods[d] \in Pod
    BY <1>2, <1>3 DEF Tables, Pods
  <1>5. z \in Pod
    BY <1>3, <1>4 DEF Pod, Link
  <1>6. z = Off(t.pods[d])
    BY <1>2, <1>3, <1>4 DEF Off, Pod
  <1>7. u = WithPod(c, d, z)
    BY <1>1, <1>3 DEF Gone, WithPod
  <1>8. Same(c, u) /\ u.pods[d] = z /\ \A e \in Descriptor \ {d} : u.pods[e] = c.pods[e]
    BY <1>2, <1>5, <1>7, PodChanged
  <1>9. QED
    BY <1>2, <1>6, <1>8 DEF Same

(* From t to u a descriptor i that was on the stack, neither in use nor    *)
(* written to, was closed and taken off the stack.                         *)
Closes(t, u, i) ==
    /\ i \in Descriptor /\ On(t, i) /\ ~InUse(t, i) /\ ~Written(t, i)
    /\ u \in Tables /\ u.limit = t.limit /\ u.current = t.current - 1
    /\ u.kernel = KernelSet(t.kernel, i, NoName)
    /\ Named(u, i) = NoName /\ ~On(u, i)
    /\ \A d \in Descriptor \ {i} : Alike(t, u, d)
    /\ \E v, k : Chain(u, v, k)

(* Nothing on the stack may be closed.                                     *)
AllTaken(t) == \A d \in Descriptor : On(t, d) => InUse(t, d) \/ Written(t, d)

(* On a chain close_some_descriptor comes to an end, and it can close what *)
(* is neither in use nor written to.                                       *)
LEMMA ClosableIs ==
    ASSUME NEW t \in Tables, NEW w, NEW m, Chain(t, w, m)
    PROVE  /\ Closable(t) = {n \in 0..m - 1 : ~InUse(t, w[n]) /\ ~Written(t, w[n])}
           /\ ~Hangs(t)
  <1>1. Fds \in Nat /\ m \in 0..Fds /\ w \in [0..Fds -> Link]
    BY DescriptorsAssumption DEF Chain
  <1>2. Walk(t) = w
    BY WalkOfChain
  <1>3. \A n \in 0..Fds : w[n] >= 0 <=> n \in 0..m - 1
    <2>1. \A n \in 0..Fds : w[n] = -1 <=> n >= m
      BY DEF Chain
    <2>2. \A n \in 0..Fds : w[n] >= 0 <=> w[n] # -1
      BY <1>1 DEF Link, Descriptor
    <2>3. QED
      BY <1>1, <2>1, <2>2
  <1>4. \A n \in 0..m - 1 : n \in 0..Fds /\ w[n] \in Descriptor
    BY ChainElements
  <1>5. \A d \in Descriptor : t.pods[d].inuse \in BOOLEAN /\ t.pods[d].is_write \in BOOLEAN
    BY DEF Tables, Pods, Pod
  <1>6. \A d \in Descriptor : (~t.pods[d].inuse /\ ~t.pods[d].is_write) <=> (~InUse(t, d) /\ ~Written(t, d))
    BY <1>5 DEF InUse, Written
  <1>7. Closable(t) = {n \in 0..Fds : w[n] >= 0 /\ ~t.pods[w[n]].inuse /\ ~t.pods[w[n]].is_write}
    BY <1>2 DEF Closable
  <1>8. Closable(t) = {n \in 0..m - 1 : ~InUse(t, w[n]) /\ ~Written(t, w[n])}
    BY <1>3, <1>4, <1>6, <1>7
  <1>9. w[Fds] = -1
    BY <1>1 DEF Chain
  <1>10. QED
    BY <1>2, <1>8, <1>9 DEF Hangs

(* A descriptor that was closed has no name and is not on the stack.       *)
LEMMA OffIs ==
    ASSUME NEW t \in Tables, NEW u, NEW i \in Descriptor, u.pods[i] = Off(t.pods[i])
    PROVE  Named(u, i) = NoName /\ ~On(u, i)
  <1>1. t.pods[i] \in Pod
    BY DEF Tables, Pods
  <1>2. QED
    BY <1>1 DEF Pod, Off, Named, On

(* Entries that are equal are alike.                                       *)
LEMMA SamePod ==
    ASSUME NEW t, NEW u, NEW d, u.pods[d] = t.pods[d]
    PROVE  Alike(t, u, d) /\ After(u, d) = After(t, d)
  BY DEF Alike, Named, InUse, Written, On, After

(* close_some_descriptor closes one descriptor of the stack and mends the  *)
(* stack, or there is nothing on the stack to close and it changes         *)
(* nothing.                                                                *)
LEMMA CloseSome ==
    ASSUME NEW t \in Tables, NEW w, NEW m, Chain(t, w, m)
    PROVE  \/ Closable(t) = {} /\ close_some_descriptor(t) = t /\ AllTaken(t)
           \/ Closable(t) # {} /\ \E i : Closes(t, close_some_descriptor(t), i)
  <1>1. Fds \in Nat /\ m \in 0..Fds /\ w \in [0..Fds -> Link]
    BY DescriptorsAssumption DEF Chain
  <1>2. Closable(t) = {n \in 0..m - 1 : ~InUse(t, w[n]) /\ ~Written(t, w[n])}
    BY ClosableIs
  <1>3. Walk(t) = w
    BY WalkOfChain
  <1>4. CASE Closable(t) = {}
    <2>1. close_some_descriptor(t) = t
      BY <1>4 DEF close_some_descriptor
    <2>2. ASSUME NEW d \in Descriptor, On(t, d) PROVE InUse(t, d) \/ Written(t, d)
      <3>1. PICK n \in 0..m - 1 : w[n] = d
        BY <2>2 DEF Chain
      <3>2. InUse(t, w[n]) \/ Written(t, w[n])
        BY <1>2, <1>4, <3>1
      <3>3. QED
        BY <3>1, <3>2
    <2>3. AllTaken(t)
      BY <2>2 DEF AllTaken
    <2>4. QED
      BY <1>4, <2>1, <2>3
  <1>5. CASE Closable(t) # {}
    <2>1. PICK n : n = Min(Closable(t))
      OBVIOUS
    <2>2. Closable(t) \subseteq Nat
      BY <1>1, <1>2
    <2>3. n \in Closable(t)
      BY <1>5, <2>1, <2>2, MinIn
    <2>4. n \in 0..m - 1 /\ ~InUse(t, w[n]) /\ ~Written(t, w[n])
      BY <1>2, <2>3
    <2>5. PICK i : i = w[n]
      OBVIOUS
    <2>6. i \in Descriptor /\ On(t, i) /\ After(t, i) = w[n + 1] /\ After(t, i) \in Link
      <3>1. n + 1 \in 0..Fds
        BY <1>1, <2>4
      <3>2. i \in Descriptor /\ On(t, i)
        BY <2>4, <2>5, ChainElements
      <3>3. After(t, i) = w[n + 1]
        BY <2>4, <2>5 DEF Chain
      <3>4. QED
        BY <1>1, <3>1, <3>2, <3>3
    <2>7. PICK s : s = IF n = 0 THEN [t EXCEPT !.top = After(t, i)]
                       ELSE [t EXCEPT !.pods[w[n - 1]].stack_next = After(t, i)]
      OBVIOUS
    <2>8. close_some_descriptor(t) = Gone(s, i)
      BY <1>3, <1>5, <2>1, <2>5, <2>7 DEF close_some_descriptor, Gone, After
    <2>9. /\ s \in Tables /\ s.limit = t.limit /\ s.current = t.current /\ s.kernel = t.kernel
          /\ n = 0 => s.top = After(t, i)
          /\ n # 0 => s.top = t.top /\ After(s, w[n - 1]) = After(t, i)
          /\ \A d \in Descriptor : /\ Alike(t, s, d)
                                   /\ n = 0 \/ d # w[n - 1] => After(s, d) = After(t, d)
      <3>1. CASE n = 0
        <4>1. s = [t EXCEPT !.top = After(t, i)]
          BY <2>7, <3>1
        <4>2. /\ s \in Tables /\ s.limit = t.limit /\ s.current = t.current /\ s.kernel = t.kernel
              /\ s.top = After(t, i) /\ s.pods = t.pods
          BY <2>6, <4>1 DEF Tables
        <4>3. QED
          BY <3>1, <4>2, SamePod
      <3>2. CASE n # 0
        <4>1. n - 1 \in 0..m - 1
          BY <1>1, <2>4, <3>2
        <4>2. PICK e : e = w[n - 1]
          OBVIOUS
        <4>3. e \in Descriptor
          BY <4>1, <4>2, ChainElements
        <4>4. PICK z : z = [t.pods[e] EXCEPT !.stack_next = After(t, i)]
          OBVIOUS
        <4>5. t.pods[e] \in Pod
          BY <4>3 DEF Tables, Pods
        <4>6. /\ z \in Pod /\ z.stack_next = After(t, i) /\ z.name = t.pods[e].name /\ z.inuse = t.pods[e].inuse
              /\ z.is_write = t.pods[e].is_write /\ z.is_on_stack = t.pods[e].is_on_stack
          BY <2>6, <4>4, <4>5 DEF Pod
        <4>7. s = WithPod(t, e, z)
          BY <2>7, <3>2, <4>2, <4>4 DEF WithPod
        <4>8. Same(t, s) /\ s.pods[e] = z /\ \A d \in Descriptor \ {e} : s.pods[d] = t.pods[d]
          BY <4>3, <4>6, <4>7, PodChanged
        <4>9. Alike(t, s, e) /\ After(s, e) = After(t, i)
          BY <4>6, <4>8 DEF Alike, Named, InUse, Written, On, After
        <4>10. \A d \in Descriptor \ {e} : Alike(t, s, d) /\ After(s, d) = After(t, d)
          BY <4>8, SamePod
        <4>11. QED
          BY <3>2, <4>2, <4>3, <4>8, <4>9, <4>10 DEF Same
      <3>3. QED
        BY <3>1, <3>2
    <2>10. PICK u : u = Gone(s, i)
      OBVIOUS
    <2>11. /\ u \in Tables /\ u.top = s.top /\ u.limit = s.limit /\ u.current = s.current - 1
           /\ u.kernel = KernelSet(s.kernel, i, NoName)
           /\ u.pods[i] = Off(s.pods[i])
           /\ \A e \in Descriptor \ {i} : u.pods[e] = s.pods[e]
      BY <2>6, <2>9, <2>10, GoneIs
    <2>12. Named(u, i) = NoName /\ ~On(u, i)
      BY <2>6, <2>9, <2>11, OffIs
    <2>13. \A d \in Descriptor \ {i} : Alike(s, u, d) /\ After(u, d) = After(s, d)
      BY <2>11, SamePod
    <2>14. \A d \in Descriptor \ {i} : Alike(t, u, d)
      BY <2>9, <2>13 DEF Alike
    <2>15. n # 0 => w[n - 1] \in Descriptor \ {i}
      <3>1. n # 0 => n - 1 \in 0..m - 1 /\ n - 1 # n
        BY <1>1, <2>4
      <3>2. QED
        BY <2>4, <2>5, <3>1, ChainElements DEF Chain
    <2>16. \E v : Chain(u, v, m - 1)
      <3>1. n = 0 => u.top = After(t, i)
        BY <2>9, <2>11
      <3>2. n # 0 => u.top = t.top /\ After(u, w[n - 1]) = After(t, i)
        BY <2>9, <2>11, <2>13, <2>15
      <3>3. \A d \in Descriptor \ {i} :
              /\ On(u, d) <=> On(t, d)
              /\ n = 0 \/ d # w[n - 1] => After(u, d) = After(t, d)
        BY <2>9, <2>13, <2>14 DEF Alike
      <3>4. QED
        BY <2>4, <2>5, <2>12, <3>1, <3>2, <3>3, ChainDropped
    <2>17. Closes(t, u, i)
      BY <2>4, <2>5, <2>6, <2>9, <2>11, <2>12, <2>14, <2>16 DEF Closes
    <2>18. QED
      BY <1>5, <2>8, <2>10, <2>17
  <1>6. QED
    BY <1>4, <1>5

-----------------------------------------------------------------------------
(* No two File_reads are of the same name (a library named twice on the    *)
(* command line is the case that is left out).                             *)
DistinctNames == \A f, g \in File : Name(f) = Name(g) => f = g

(* Where a file is in its use of the descriptors.                          *)
PCs == {"released", "opening", "opened", "EMFILE", "open", "closed"}

(* Entry d has a name: it was recorded and not closed since.               *)
Has(t, d) == Named(t, d) # NoName

(* Entry d is of file f: it has the name of f, f remembers d, it is in use *)
(* exactly while f holds it, it is written to if f is, and the kernel has  *)
(* f open as d unless f is a file written to that was closed behind the    *)
(* table.                                                                  *)
Owner(t, p, ds, d, f) ==
    /\ ds[f] = d /\ Named(t, d) = Name(f) /\ p[f] \in {"released", "open", "closed"}
    /\ InUse(t, d) <=> p[f] # "released"
    /\ Written(t, d) <=> f \in Writers
    /\ p[f] = "closed" => f \in Writers
    /\ p[f] # "closed" => t.kernel[d] = Name(f)

(* The parts of the inductive invariant: the types; the stack is a chain;  *)
(* every entry with a name has an owner; what is neither in use nor        *)
(* written to is on the stack; what a file has just been given by the      *)
(* kernel is its own and not in the table; what a file holds has its name; *)
(* files written to are closed at the end only; current_ counts the        *)
(* entries that have a name.                                               *)
Typed(t, p, ds)   == t \in Tables /\ p \in [File -> PCs] /\ ds \in [File -> Link]
Linked(t)         == \E w, m : Chain(t, w, m)
Owned(t, p, ds)   == \A d \in Descriptor : Has(t, d) => \E f \in File : Owner(t, p, ds, d, f)
Reachable(t)      == \A d \in Descriptor : Has(t, d) => InUse(t, d) \/ Written(t, d) \/ On(t, d)
Opened(t, p, ds)  == \A f \in File : p[f] = "opened" =>
                        ds[f] \in Descriptor /\ t.kernel[ds[f]] = Name(f) /\ ~Has(t, ds[f])
Open(t, p, ds)    == \A f \in File : p[f] = "open" => ds[f] \in Descriptor /\ Named(t, ds[f]) = Name(f)
Over(p)           == (\E f \in Writers : p[f] = "closed") =>
                        \A f \in File : /\ p[f] \in {"released", "open", "closed"}
                                        /\ p[f] = "open" => f \in Writers
HasNames(t)       == {d \in Descriptor : Has(t, d)}
Counted(t)        == t.current = Cardinality(HasNames(t))

(* All of them.                                                            *)
Sound(t, p, ds) ==
    /\ Typed(t, p, ds) /\ Linked(t) /\ Owned(t, p, ds) /\ Reachable(t)
    /\ Opened(t, p, ds) /\ Open(t, p, ds) /\ Over(p) /\ Counted(t)

(* What is on the stack has a name: nothing was closed while it was        *)
(* linked.                                                                 *)
Whole(t) == \A d \in Descriptor : On(t, d) => Has(t, d)

(* The table has at most Fds entries.                                      *)
LEMMA NamesFinite ==
    ASSUME NEW t
    PROVE  IsFiniteSet(HasNames(t)) /\ Cardinality(HasNames(t)) \in 0..Fds
  <1>1. Fds \in Nat /\ IsFiniteSet(Descriptor) /\ Cardinality(Descriptor) = Fds
    BY DescriptorsAssumption, Below DEF Descriptor
  <1>2. HasNames(t) \in SUBSET Descriptor
    BY DEF HasNames
  <1>3. IsFiniteSet(HasNames(t)) /\ Cardinality(HasNames(t)) <= Fds
    BY <1>1, <1>2, FS_Subset
  <1>4. Cardinality(HasNames(t)) \in Nat
    BY <1>3, FS_CardinalityType
  <1>5. QED
    BY <1>1, <1>3, <1>4

(* What opening or closing one descriptor leaves of the others.            *)
LEMMA KernelChanged ==
    ASSUME NEW k \in Kernels, NEW d \in Descriptor, NEW x \in Names, NEW j, j = KernelSet(k, d, x)
    PROVE  j \in Kernels /\ j[d] = x /\ \A e \in Descriptor \ {d} : j[e] = k[e]
  BY DEF Kernels, KernelSet

(* Closing a descriptor of the stack keeps the invariant: its owner has    *)
(* released it and, should it come back, finds another name or none there. *)
LEMMA CloseKeeps ==
    ASSUME DistinctNames, NEW t, NEW p, NEW ds, Sound(t, p, ds), Whole(t),
           NEW u, NEW i, Closes(t, u, i)
    PROVE  Sound(u, p, ds)
  <1>1. i \in Descriptor /\ Has(t, i) /\ ~InUse(t, i) /\ ~Written(t, i)
    BY DEF Closes, Whole
  <1>2. t.kernel \in Kernels /\ NoName \in Names /\ p \in [File -> PCs]
    BY DEF Sound, Typed, Tables, Names
  <1>3. u.kernel[i] = NoName /\ \A d \in Descriptor \ {i} : u.kernel[d] = t.kernel[d]
    BY <1>1, <1>2, KernelChanged DEF Closes
  <1>4. ~Has(u, i) /\ \A d \in Descriptor \ {i} : Alike(t, u, d) /\ (Has(u, d) <=> Has(t, d))
    BY DEF Closes, Has, Alike
  <1>5. Typed(u, p, ds) /\ Linked(u)
    BY DEF Closes, Sound, Typed, Linked
  <1>6. Owned(u, p, ds)
    <2> SUFFICES ASSUME NEW d \in Descriptor, Has(u, d) PROVE \E f \in File : Owner(u, p, ds, d, f)
      BY DEF Owned
    <2>1. d # i /\ Has(t, d) /\ Alike(t, u, d) /\ u.kernel[d] = t.kernel[d]
      BY <1>3, <1>4
    <2>2. PICK f \in File : Owner(t, p, ds, d, f)
      BY <2>1 DEF Sound, Owned
    <2>3. Owner(u, p, ds, d, f)
      BY <2>1, <2>2 DEF Owner, Alike
    <2>4. QED
      BY <2>3
  <1>7. Reachable(u)
    BY <1>4 DEF Sound, Reachable, Alike
  <1>8. Opened(u, p, ds)
    <2> SUFFICES ASSUME NEW f \in File, p[f] = "opened"
                 PROVE  ds[f] \in Descriptor /\ u.kernel[ds[f]] = Name(f) /\ ~Has(u, ds[f])
      BY DEF Opened
    <2>1. ds[f] \in Descriptor /\ t.kernel[ds[f]] = Name(f) /\ ~Has(t, ds[f])
      BY DEF Sound, Opened
    <2>2. ds[f] # i
      BY <1>1, <2>1
    <2>3. QED
      BY <1>3, <1>4, <2>1, <2>2
  <1>9. Open(u, p, ds)
    <2> SUFFICES ASSUME NEW f \in File, p[f] = "open"
                 PROVE  ds[f] \in Descriptor /\ Named(u, ds[f]) = Name(f)
      BY DEF Open
    <2>1. ds[f] \in Descriptor /\ Named(t, ds[f]) = Name(f)
      BY DEF Sound, Open
    <2>2. ds[f] # i
      <3>1. SUFFICES ASSUME ds[f] = i PROVE FALSE
        OBVIOUS
      <3>2. PICK g \in File : Owner(t, p, ds, i, g)
        BY <1>1 DEF Sound, Owned
      <3>3. g = f
        BY <2>1, <3>1, <3>2 DEF Owner, DistinctNames
      <3>4. QED
        BY <1>1, <3>2, <3>3 DEF Owner
    <2>3. QED
      BY <1>4, <2>1, <2>2 DEF Alike
  <1>10. Counted(u)
    <2>1. HasNames(u) = HasNames(t) \ {i}
      BY <1>4 DEF HasNames
    <2>2. i \in HasNames(t) /\ IsFiniteSet(HasNames(t))
      BY <1>1, NamesFinite DEF HasNames
    <2>3. Cardinality(HasNames(u)) = Cardinality(HasNames(t)) - 1
      BY <2>1, <2>2, FS_RemoveElement
    <2>4. QED
      BY <2>3 DEF Sound, Counted, Closes
  <1>11. QED
    BY <1>5, <1>6, <1>7, <1>8, <1>9, <1>10 DEF Sound

(* File f goes on to x.                                                    *)
Moves(p, q, f, x) == q = [p EXCEPT ![f] = x]

(* The other files stay where they are.                                    *)
LEMMA Moved ==
    ASSUME NEW p \in [File -> PCs], NEW f \in File, NEW x \in PCs, NEW q, Moves(p, q, f, x)
    PROVE  q \in [File -> PCs] /\ q[f] = x /\ \A g \in File \ {f} : q[g] = p[g]
  BY DEF Moves

(* From t to u descriptor d came into use again, taken off the stack if it *)
(* was on top of it.                                                       *)
TakesUp(t, u, d) ==
    /\ u \in Tables /\ u.limit = t.limit /\ u.current = t.current /\ u.kernel = t.kernel
    /\ Named(u, d) = Named(t, d) /\ InUse(u, d)
    /\ Written(u, d) <=> Written(t, d)
    /\ \A e \in Descriptor \ {d} : Alike(t, u, e)
    /\ Linked(u)

(* What open does with a descriptor it uses again.                         *)
LEMMA TakenIs ==
    ASSUME NEW t \in Tables, Linked(t), NEW d \in Descriptor, NEW u, u = Taken(t, d)
    PROVE  TakesUp(t, u, d)
  <1>1. PICK w, m : Chain(t, w, m)
    BY DEF Linked
  <1>2. t.pods[d] \in Pod /\ t.top \in Link /\ After(t, d) \in Link
    BY DEF Tables, Pods, Pod, After
  <1>3. CASE d = t.top
    <2>1. PICK z : z = [t.pods[d] EXCEPT !.inuse = TRUE, !.stack_next = -1, !.is_on_stack = FALSE]
      OBVIOUS
    <2>2. /\ z \in Pod /\ z.name = t.pods[d].name /\ z.inuse = TRUE
          /\ z.is_write = t.pods[d].is_write /\ z.is_on_stack = FALSE
      BY <1>2, <2>1 DEF Pod, Link
    <2>3. PICK s : s = WithPod(t, d, z)
      OBVIOUS
    <2>4. Same(t, s) /\ s.pods[d] = z /\ \A e \in Descriptor \ {d} : s.pods[e] = t.pods[e]
      BY <2>2, <2>3, PodChanged
    <2>5. u = [s EXCEPT !.top = After(t, d)]
      BY <1>3, <2>1, <2>3 DEF Taken, WithPod, After
    <2>6. /\ u \in Tables /\ u.limit = s.limit /\ u.current = s.current /\ u.kernel = s.kernel
          /\ u.top = After(t, d) /\ u.pods = s.pods
      BY <1>2, <2>4, <2>5 DEF Same, Tables
    <2>7. Named(u, d) = Named(t, d) /\ InUse(u, d) /\ (Written(u, d) <=> Written(t, d)) /\ ~On(u, d)
      BY <2>2, <2>4, <2>6 DEF Named, InUse, Written, On
    <2>8. \A e \in Descriptor \ {d} : Alike(t, u, e) /\ After(u, e) = After(t, e)
      BY <2>4, <2>6, SamePod
    <2>9. 0 \in 0..m - 1 /\ d = w[0]
      <3>1. Fds \in Nat /\ m \in 0..Fds /\ w[0] = d /\ (w[0] = -1 <=> 0 >= m)
        BY <1>1, <1>3, DescriptorsAssumption DEF Chain
      <3>2. d # -1
        BY <3>1 DEF Descriptor
      <3>3. QED
        BY <3>1, <3>2
    <2>10. \E v : Chain(u, v, m - 1)
      <3>1. \A e \in Descriptor \ {d} :
               /\ On(u, e) <=> On(t, e)
               /\ 0 = 0 \/ e # w[0 - 1] => After(u, e) = After(t, e)
        BY <2>8 DEF Alike
      <3>2. 0 = 0 => u.top = After(t, d)
        BY <2>6
      <3>3. 0 # 0 => u.top = t.top /\ After(u, w[0 - 1]) = After(t, d)
        OBVIOUS
      <3>4. QED
        BY <1>1, <2>7, <2>9, <3>1, <3>2, <3>3, ChainDropped
    <2>11. QED
      BY <2>4, <2>6, <2>7, <2>8, <2>10 DEF TakesUp, Linked, Same
  <1>4. CASE d # t.top
    <2>1. PICK z : z = [t.pods[d] EXCEPT !.inuse = TRUE]
      OBVIOUS
    <2>2. /\ z \in Pod /\ z.name = t.pods[d].name /\ z.inuse = TRUE /\ z.stack_next = t.pods[d].stack_next
          /\ z.is_write = t.pods[d].is_write /\ z.is_on_stack = t.pods[d].is_on_stack
      BY <1>2, <2>1 DEF Pod
    <2>3. u = WithPod(t, d, z)
      BY <1>4, <2>1 DEF Taken, WithPod
    <2>4. Same(t, u) /\ u.pods[d] = z /\ \A e \in Descriptor \ {d} : u.pods[e] = t.pods[e]
      BY <2>2, <2>3, PodChanged
    <2>5. /\ Named(u, d) = Named(t, d) /\ InUse(u, d) /\ (Written(u, d) <=> Written(t, d))
          /\ On(u, d) <=> On(t, d)
          /\ After(u, d) = After(t, d)
      BY <2>2, <2>4 DEF Named, InUse, Written, On, After
    <2>6. \A e \in Descriptor \ {d} : Alike(t, u, e) /\ After(u, e) = After(t, e)
      BY <2>4, SamePod
    <2>7. \A e \in Descriptor : /\ On(u, e) <=> On(t, e)
                                /\ On(t, e) => After(u, e) = After(t, e)
      BY <2>5, <2>6 DEF Alike
    <2>8. u.top = t.top
      BY <2>4 DEF Same
    <2>9. Chain(u, w, m)
      BY <1>1, <2>7, <2>8, ChainKept
    <2>10. QED
      BY <2>4, <2>5, <2>6, <2>9 DEF TakesUp, Linked, Same
  <1>5. QED
    BY <1>3, <1>4

(* No file that is written to was closed yet.                              *)
NoneClosed(p) == \A f \in Writers : p[f] # "closed"

(* Using a descriptor again keeps the invariant, and open finds it not in  *)
(* use: the assertion of open holds.                                       *)
LEMMA TakenKeeps ==
    ASSUME DistinctNames, NEW t, NEW p, NEW ds, Sound(t, p, ds), NoneClosed(p),
           NEW f \in File, NEW d \in Descriptor, p[f] = "released", ds[f] = d, Named(t, d) = Name(f),
           NEW u, TakesUp(t, u, d), NEW q, Moves(p, q, f, "open")
    PROVE  Sound(u, q, ds) /\ ~InUse(t, d)
  <1>1. p \in [File -> PCs] /\ "open" \in PCs
    BY DEF Sound, Typed, PCs
  <1>2. q \in [File -> PCs] /\ q[f] = "open" /\ \A g \in File \ {f} : q[g] = p[g]
    BY <1>1, Moved
  <1>3. Has(t, d) /\ Has(u, d) /\ Named(u, d) = Name(f) /\ InUse(u, d)
    BY DescriptorsAssumption DEF Has, TakesUp
  <1>4. Owner(t, p, ds, d, f)
    <2>1. PICK g \in File : Owner(t, p, ds, d, g)
      BY <1>3 DEF Sound, Owned
    <2>2. g = f
      BY <2>1 DEF Owner, DistinctNames
    <2>3. QED
      BY <2>1, <2>2
  <1>5. ~InUse(t, d) /\ (Written(t, d) <=> f \in Writers) /\ t.kernel[d] = Name(f)
    BY <1>4 DEF Owner
  <1>6. \A e \in Descriptor \ {d} : Alike(t, u, e) /\ (Has(u, e) <=> Has(t, e))
    BY DEF TakesUp, Alike, Has
  <1>7. Typed(u, q, ds) /\ Linked(u) /\ u.kernel = t.kernel
    BY <1>2 DEF Sound, Typed, TakesUp
  <1>8. Owned(u, q, ds)
    <2> SUFFICES ASSUME NEW e \in Descriptor, Has(u, e) PROVE \E g \in File : Owner(u, q, ds, e, g)
      BY DEF Owned
    <2>1. CASE e = d
      <3>1. Written(u, d) <=> f \in Writers
        BY <1>5 DEF TakesUp
      <3>2. Owner(u, q, ds, d, f)
        BY <1>2, <1>3, <1>5, <1>7, <3>1 DEF Owner
      <3>3. QED
        BY <2>1, <3>2
    <2>2. CASE e # d
      <3>1. Has(t, e) /\ Alike(t, u, e)
        BY <1>6, <2>2
      <3>2. PICK g \in File : Owner(t, p, ds, e, g)
        BY <3>1 DEF Sound, Owned
      <3>3. q[g] = p[g]
        BY <1>2, <2>2, <3>2 DEF Owner
      <3>4. Owner(u, q, ds, e, g)
        BY <1>7, <3>1, <3>2, <3>3 DEF Owner, Alike
      <3>5. QED
        BY <3>4
    <2>3. QED
      BY <2>1, <2>2
  <1>9. Reachable(u)
    BY <1>3, <1>6 DEF Sound, Reachable, Alike
  <1>10. Opened(u, q, ds)
    <2> SUFFICES ASSUME NEW g \in File, q[g] = "opened"
                 PROVE  ds[g] \in Descriptor /\ u.kernel[ds[g]] = Name(g) /\ ~Has(u, ds[g])
      BY DEF Opened
    <2>1. p[g] = "opened"
      BY <1>2
    <2>2. ds[g] \in Descriptor /\ t.kernel[ds[g]] = Name(g) /\ ~Has(t, ds[g])
      BY <2>1 DEF Sound, Opened
    <2>3. QED
      BY <1>3, <1>6, <1>7, <2>2
  <1>11. Open(u, q, ds)
    <2> SUFFICES ASSUME NEW g \in File, q[g] = "open"
                 PROVE  ds[g] \in Descriptor /\ Named(u, ds[g]) = Name(g)
      BY DEF Open
    <2>1. CASE g = f
      BY <1>3, <2>1
    <2>2. CASE g # f
      <3>1. p[g] = "open"
        BY <1>2, <2>2
      <3>2. ds[g] \in Descriptor /\ Named(t, ds[g]) = Name(g)
        BY <3>1 DEF Sound, Open
      <3>3. ds[g] # d
        BY <2>2, <3>2 DEF DistinctNames
      <3>4. QED
        BY <1>6, <3>2, <3>3 DEF Alike
    <2>3. QED
      BY <2>1, <2>2
  <1>12. Over(q)
    <2>1. Writers \subseteq File
      BY DescriptorsAssumption
    <2>2. QED
      BY <1>2, <2>1 DEF Over, NoneClosed
  <1>13. Counted(u)
    <2>1. HasNames(u) = HasNames(t)
      BY <1>3, <1>6 DEF HasNames
    <2>2. QED
      BY <2>1 DEF Sound, Counted, TakesUp
  <1>14. QED
    BY <1>5, <1>7, <1>8, <1>9, <1>10, <1>11, <1>12, <1>13 DEF Sound

(* While a file is read no file that is written to was closed.             *)
LEMMA BusyNoneClosed ==
    ASSUME NEW p, Over(p), NEW f \in File,
           p[f] \notin {"released", "open", "closed"} \/ (p[f] = "open" /\ f \notin Writers)
    PROVE  NoneClosed(p)
  BY DEF Over, NoneClosed

(* Going on to ::open, or having failed in it, keeps the invariant.        *)
LEMMA OpeningKeeps ==
    ASSUME NEW t, NEW p, NEW ds, Sound(t, p, ds), NoneClosed(p), NEW f \in File,
           \A d \in Descriptor : Has(t, d) => ~Owner(t, p, ds, d, f),
           NEW x \in {"opening", "EMFILE"}, NEW q, Moves(p, q, f, x)
    PROVE  Sound(t, q, ds)
  <1>1. p \in [File -> PCs] /\ x \in PCs /\ x \notin {"released", "opened", "open", "closed"}
    BY DEF Sound, Typed, PCs
  <1>2. q \in [File -> PCs] /\ q[f] = x /\ \A g \in File \ {f} : q[g] = p[g]
    BY <1>1, Moved
  <1>3. Typed(t, q, ds)
    BY <1>2 DEF Sound, Typed
  <1>4. Owned(t, q, ds)
    <2> SUFFICES ASSUME NEW e \in Descriptor, Has(t, e) PROVE \E g \in File : Owner(t, q, ds, e, g)
      BY DEF Owned
    <2>1. PICK g \in File : Owner(t, p, ds, e, g)
      BY DEF Sound, Owned
    <2>2. q[g] = p[g]
      BY <1>2, <2>1
    <2>3. Owner(t, q, ds, e, g)
      BY <2>1, <2>2 DEF Owner
    <2>4. QED
      BY <2>3
  <1>5. \A g \in File : q[g] \in {"opened", "open", "closed"} => q[g] = p[g]
    BY <1>1, <1>2
  <1>6. Opened(t, q, ds) /\ Open(t, q, ds)
    BY <1>5 DEF Sound, Opened, Open
  <1>7. Over(q)
    <2>1. Writers \subseteq File
      BY DescriptorsAssumption
    <2>2. QED
      BY <1>5, <2>1 DEF Over, NoneClosed
  <1>8. QED
    BY <1>3, <1>4, <1>6, <1>7 DEF Sound

(* Lowering the limit keeps the invariant.                                 *)
LEMMA LimitKeeps ==
    ASSUME NEW t, NEW p, NEW ds, Sound(t, p, ds), NEW n \in Nat, NEW u, u = [t EXCEPT !.limit = n]
    PROVE  Sound(u, p, ds) /\ (Whole(t) => Whole(u))
  <1>1. t \in Tables
    BY DEF Sound, Typed
  <1>2. /\ u \in Tables /\ u.pods = t.pods /\ u.top = t.top /\ u.current = t.current
        /\ u.kernel = t.kernel
    BY <1>1 DEF Tables
  <1>3. \A d \in Descriptor : Alike(t, u, d) /\ After(u, d) = After(t, d)
    BY <1>2, SamePod
  <1>4. \A d \in Descriptor : Has(u, d) <=> Has(t, d)
    BY <1>3 DEF Alike, Has
  <1>5. Linked(u)
    <2>1. PICK w, m : Chain(t, w, m)
      BY DEF Sound, Linked
    <2>2. \A d \in Descriptor : /\ On(u, d) <=> On(t, d)
                                /\ On(t, d) => After(u, d) = After(t, d)
      BY <1>3 DEF Alike
    <2>3. Chain(u, w, m)
      BY <1>2, <2>1, <2>2, ChainKept
    <2>4. QED
      BY <2>3 DEF Linked
  <1>6. Owned(u, p, ds)
    <2> SUFFICES ASSUME NEW e \in Descriptor, Has(u, e) PROVE \E g \in File : Owner(u, p, ds, e, g)
      BY DEF Owned
    <2>1. PICK g \in File : Owner(t, p, ds, e, g)
      BY <1>4 DEF Sound, Owned
    <2>2. Owner(u, p, ds, e, g)
      BY <1>2, <1>3, <2>1 DEF Owner, Alike
    <2>3. QED
      BY <2>2
  <1>7. Reachable(u) /\ (Whole(t) => Whole(u))
    BY <1>3, <1>4 DEF Sound, Reachable, Whole, Alike
  <1>8. Opened(u, p, ds) /\ Open(u, p, ds)
    BY <1>2, <1>3, <1>4 DEF Sound, Opened, Open, Alike
  <1>9. Counted(u)
    <2>1. HasNames(u) = HasNames(t)
      BY <1>4 DEF HasNames
    <2>2. QED
      BY <1>2, <2>1 DEF Sound, Counted
  <1>10. QED
    BY <1>2, <1>5, <1>6, <1>7, <1>8, <1>9 DEF Sound, Typed

(* ::open keeps the invariant: the number it gives out is not in the table *)
(* as one that is open, since the kernel has every such number open.       *)
LEMMA KernelKeeps ==
    ASSUME NEW t, NEW p, NEW ds, Sound(t, p, ds), NEW f \in File, p[f] = "opening",
           NEW d \in Descriptor, t.kernel[d] = NoName,
           NEW u, u = [t EXCEPT !.kernel = KernelSet(t.kernel, d, Name(f))],
           NEW q, Moves(p, q, f, "opened"), NEW es, es = [ds EXCEPT ![f] = d]
    PROVE  Sound(u, q, es)
  <1>1. p \in [File -> PCs] /\ "opened" \in PCs /\ ds \in [File -> Link] /\ t \in Tables
    BY DEF Sound, Typed, PCs
  <1>2. q \in [File -> PCs] /\ q[f] = "opened" /\ \A g \in File \ {f} : q[g] = p[g]
    BY <1>1, Moved
  <1>3. es \in [File -> Link] /\ es[f] = d /\ \A g \in File \ {f} : es[g] = ds[g]
    BY <1>1 DEF Link
  <1>4. PICK k : k = KernelSet(t.kernel, d, Name(f))
    OBVIOUS
  <1>5. t.kernel \in Kernels /\ Name(f) \in Names /\ Name(f) # NoName
    BY <1>1, DescriptorsAssumption DEF Tables, Names
  <1>6. k \in Kernels /\ k[d] = Name(f) /\ \A e \in Descriptor \ {d} : k[e] = t.kernel[e]
    BY <1>4, <1>5, KernelChanged
  <1>7. /\ u \in Tables /\ u.pods = t.pods /\ u.top = t.top /\ u.current = t.current
        /\ u.kernel = k
    BY <1>1, <1>4, <1>6 DEF Tables
  <1>8. \A e \in Descriptor : Alike(t, u, e) /\ After(u, e) = After(t, e)
    BY <1>7, SamePod
  <1>9. \A e \in Descriptor : Has(u, e) <=> Has(t, e)
    BY <1>8 DEF Alike, Has
  <1>10. NoneClosed(p)
    BY BusyNoneClosed DEF Sound
  <1>11. ~Has(t, d)
    <2>1. SUFFICES ASSUME Has(t, d) PROVE FALSE
      OBVIOUS
    <2>2. PICK g \in File : Owner(t, p, ds, d, g)
      BY <2>1 DEF Sound, Owned
    <2>3. Name(g) # NoName
      BY DescriptorsAssumption
    <2>4. p[g] = "closed" /\ g \in Writers
      BY <2>2, <2>3 DEF Owner
    <2>5. QED
      BY <1>10, <2>4 DEF NoneClosed
  <1>12. Linked(u)
    <2>1. PICK w, m : Chain(t, w, m)
      BY DEF Sound, Linked
    <2>2. \A e \in Descriptor : /\ On(u, e) <=> On(t, e)
                                /\ On(t, e) => After(u, e) = After(t, e)
      BY <1>8 DEF Alike
    <2>3. Chain(u, w, m)
      BY <1>7, <2>1, <2>2, ChainKept
    <2>4. QED
      BY <2>3 DEF Linked
  <1>13. Owned(u, q, es)
    <2> SUFFICES ASSUME NEW e \in Descriptor, Has(u, e) PROVE \E g \in File : Owner(u, q, es, e, g)
      BY DEF Owned
    <2>1. Has(t, e) /\ e # d /\ Alike(t, u, e) /\ u.kernel[e] = t.kernel[e]
      BY <1>6, <1>7, <1>8, <1>9, <1>11
    <2>2. PICK g \in File : Owner(t, p, ds, e, g)
      BY <2>1 DEF Sound, Owned
    <2>3. g # f
      BY <2>2 DEF Owner
    <2>4. q[g] = p[g] /\ es[g] = ds[g]
      BY <1>2, <1>3, <2>3
    <2>5. Owner(u, q, es, e, g)
      BY <2>1, <2>2, <2>4 DEF Owner, Alike
    <2>6. QED
      BY <2>5
  <1>14. Reachable(u)
    BY <1>8, <1>9 DEF Sound, Reachable, Alike
  <1>15. Opened(u, q, es)
    <2> SUFFICES ASSUME NEW g \in File, q[g] = "opened"
                 PROVE  es[g] \in Descriptor /\ u.kernel[es[g]] = Name(g) /\ ~Has(u, es[g])
      BY DEF Opened
    <2>1. CASE g = f
      BY <1>3, <1>6, <1>7, <1>9, <1>11, <2>1
    <2>2. CASE g # f
      <3>1. p[g] = "opened" /\ es[g] = ds[g]
        BY <1>2, <1>3, <2>2
      <3>2. ds[g] \in Descriptor /\ t.kernel[ds[g]] = Name(g) /\ ~Has(t, ds[g])
        BY <3>1 DEF Sound, Opened
      <3>3. ds[g] # d
        BY <3>2, DescriptorsAssumption
      <3>4. QED
        BY <1>6, <1>7, <1>9, <3>1, <3>2, <3>3
    <2>3. QED
      BY <2>1, <2>2
  <1>16. Open(u, q, es)
    <2> SUFFICES ASSUME NEW g \in File, q[g] = "open"
                 PROVE  es[g] \in Descriptor /\ Named(u, es[g]) = Name(g)
      BY DEF Open
    <2>1. p[g] = "open" /\ es[g] = ds[g]
      BY <1>2, <1>3
    <2>2. QED
      BY <1>8, <2>1 DEF Sound, Open, Alike
  <1>17. Over(q)
    <2>1. Writers \subseteq File
      BY DescriptorsAssumption
    <2>2. QED
      BY <1>2, <1>10, <2>1 DEF Over, NoneClosed
  <1>18. Counted(u)
    <2>1. HasNames(u) = HasNames(t)
      BY <1>9 DEF HasNames
    <2>2. QED
      BY <1>7, <2>1 DEF Sound, Counted
  <1>19. QED
    BY <1>2, <1>3, <1>7, <1>12, <1>13, <1>14, <1>15, <1>16, <1>17, <1>18 DEF Sound, Typed

(* The entry open makes, and the table with it, counted.                   *)
New(f) == [Unused EXCEPT !.name = Name(f), !.inuse = TRUE, !.is_write = f \in Writers]
Recording(t, d, f) == [t EXCEPT !.pods[d] = New(f), !.current = @ + 1]

(* What that entry says.                                                   *)
LEMMA NewIs ==
    ASSUME NEW f \in File
    PROVE  /\ New(f) \in Pod /\ New(f).name = Name(f) /\ New(f).inuse = TRUE
           /\ New(f).is_on_stack = FALSE
           /\ New(f).is_write = TRUE <=> f \in Writers
  <1>1. PICK b : b = (f \in Writers)
    OBVIOUS
  <1>2. b \in BOOLEAN /\ (b = TRUE <=> f \in Writers)
    <2>1. CASE f \in Writers
      <3>1. (f \in Writers) = TRUE
        BY <2>1
      <3>2. QED
        BY <1>1, <2>1, <3>1
    <2>2. CASE f \notin Writers
      <3>1. (f \in Writers) = FALSE
        BY <2>2
      <3>2. b = FALSE
        BY <1>1, <3>1
      <3>3. QED
        BY <2>2, <3>2
    <2>3. QED
      BY <2>1, <2>2
  <1>3. New(f) = [Unused EXCEPT !.name = Name(f), !.inuse = TRUE, !.is_write = b]
    BY <1>1 DEF New
  <1>4. New(f) = [name |-> Name(f), stack_next |-> -1, inuse |-> TRUE, is_write |-> b, is_on_stack |-> FALSE]
    BY <1>3 DEF Unused
  <1>5. New(f) \in Pod
    BY <1>2, <1>4 DEF Pod, Link
  <1>6. New(f).name = Name(f) /\ New(f).inuse = TRUE /\ New(f).is_on_stack = FALSE /\ New(f).is_write = b
    BY <1>4
  <1>7. QED
    BY <1>2, <1>5, <1>6

(* Entering a descriptor into the table keeps the invariant. Here nothing  *)
(* linked may have been closed: open resets stack_next and is_on_stack of  *)
(* an entry, and would cut the stack behind it.                            *)
LEMMA RecordKeeps ==
    ASSUME DistinctNames, NEW t, NEW p, NEW ds, Sound(t, p, ds), Whole(t),
           NEW f \in File, p[f] = "opened", NEW d, d = ds[f],
           NEW u, u = Recording(t, d, f), NEW q, Moves(p, q, f, "open")
    PROVE  Sound(u, q, ds) /\ Whole(u) /\ u.current = t.current + 1 /\ u.limit = t.limit
  <1>1. p \in [File -> PCs] /\ "open" \in PCs /\ ds \in [File -> Link] /\ t \in Tables
    BY DEF Sound, Typed, PCs
  <1>2. q \in [File -> PCs] /\ q[f] = "open" /\ \A g \in File \ {f} : q[g] = p[g]
    BY <1>1, Moved
  <1>3. d \in Descriptor /\ t.kernel[d] = Name(f) /\ ~Has(t, d) /\ ~On(t, d)
    BY DEF Sound, Opened, Whole
  <1>4. PICK z : z = New(f)
    OBVIOUS
  <1>5. /\ z \in Pod /\ z.name = Name(f) /\ z.inuse = TRUE /\ z.is_on_stack = FALSE
        /\ z.is_write = TRUE <=> f \in Writers
    BY <1>4, NewIs
  <1>6. PICK s : s = WithPod(t, d, z)
    OBVIOUS
  <1>7. Same(t, s) /\ s.pods[d] = z /\ \A e \in Descriptor \ {d} : s.pods[e] = t.pods[e]
    BY <1>1, <1>3, <1>5, <1>6, PodChanged
  <1>8. t.current \in Int
    BY <1>1 DEF Tables
  <1>9. PICK c \in Int : c = t.current + 1
    BY <1>8
  <1>10. u = [s EXCEPT !.current = c]
    BY <1>4, <1>6, <1>9 DEF Recording, WithPod
  <1>11. /\ u \in Tables /\ u.pods = s.pods /\ u.top = t.top /\ u.current = c
         /\ u.kernel = t.kernel /\ u.limit = t.limit
    BY <1>7, <1>10 DEF Same, Tables
  <1>12. Named(u, d) = Name(f) /\ InUse(u, d) /\ ~On(u, d) /\ (Written(u, d) <=> f \in Writers)
    BY <1>5, <1>7, <1>11 DEF Named, InUse, On, Written
  <1>13. \A e \in Descriptor \ {d} : Alike(t, u, e) /\ After(u, e) = After(t, e)
    BY <1>7, <1>11, SamePod
  <1>14. Has(u, d) /\ \A e \in Descriptor \ {d} : Has(u, e) <=> Has(t, e)
    BY <1>12, <1>13, DescriptorsAssumption DEF Alike, Has
  <1>15. Linked(u)
    <2>1. PICK w, m : Chain(t, w, m)
      BY DEF Sound, Linked
    <2>2. \A e \in Descriptor : /\ On(u, e) <=> On(t, e)
                                /\ On(t, e) => After(u, e) = After(t, e)
      BY <1>3, <1>12, <1>13 DEF Alike
    <2>3. Chain(u, w, m)
      BY <1>11, <2>1, <2>2, ChainKept
    <2>4. QED
      BY <2>3 DEF Linked
  <1>16. Owned(u, q, ds)
    <2> SUFFICES ASSUME NEW e \in Descriptor, Has(u, e) PROVE \E g \in File : Owner(u, q, ds, e, g)
      BY DEF Owned
    <2>1. CASE e = d
      <3>1. Owner(u, q, ds, d, f)
        BY <1>2, <1>3, <1>11, <1>12 DEF Owner
      <3>2. QED
        BY <2>1, <3>1
    <2>2. CASE e # d
      <3>1. Has(t, e) /\ Alike(t, u, e)
        BY <1>13, <1>14, <2>2
      <3>2. PICK g \in File : Owner(t, p, ds, e, g)
        BY <3>1 DEF Sound, Owned
      <3>3. q[g] = p[g]
        BY <1>2, <2>2, <3>2 DEF Owner
      <3>4. Owner(u, q, ds, e, g)
        BY <1>11, <3>1, <3>2, <3>3 DEF Owner, Alike
      <3>5. QED
        BY <3>4
    <2>3. QED
      BY <2>1, <2>2
  <1>17. Reachable(u)
    BY <1>12, <1>13, <1>14 DEF Sound, Reachable, Alike
  <1>18. Opened(u, q, ds)
    <2> SUFFICES ASSUME NEW g \in File, q[g] = "opened"
                 PROVE  ds[g] \in Descriptor /\ u.kernel[ds[g]] = Name(g) /\ ~Has(u, ds[g])
      BY DEF Opened
    <2>1. p[g] = "opened" /\ g # f
      BY <1>2
    <2>2. ds[g] \in Descriptor /\ t.kernel[ds[g]] = Name(g) /\ ~Has(t, ds[g])
      BY <2>1 DEF Sound, Opened
    <2>3. ds[g] # d
      BY <1>3, <2>1, <2>2 DEF DistinctNames
    <2>4. QED
      BY <1>11, <1>14, <2>2, <2>3
  <1>19. Open(u, q, ds)
    <2> SUFFICES ASSUME NEW g \in File, q[g] = "open"
                 PROVE  ds[g] \in Descriptor /\ Named(u, ds[g]) = Name(g)
      BY DEF Open
    <2>1. CASE g = f
      BY <1>3, <1>12, <2>1
    <2>2. CASE g # f
      <3>1. p[g] = "open"
        BY <1>2, <2>2
      <3>2. ds[g] \in Descriptor /\ Named(t, ds[g]) = Name(g)
        BY <3>1 DEF Sound, Open
      <3>3. ds[g] # d
        BY <1>3, <3>2, DescriptorsAssumption DEF Has
      <3>4. QED
        BY <1>13, <3>2, <3>3 DEF Alike
    <2>3. QED
      BY <2>1, <2>2
  <1>20. Over(q)
    <2>1. NoneClosed(p)
      BY BusyNoneClosed DEF Sound
    <2>2. Writers \subseteq File
      BY DescriptorsAssumption
    <2>3. QED
      BY <1>2, <2>1, <2>2 DEF Over, NoneClosed
  <1>21. Counted(u)
    <2>1. HasNames(u) = HasNames(t) \cup {d} /\ d \notin HasNames(t)
      BY <1>3, <1>14 DEF HasNames
    <2>2. IsFiniteSet(HasNames(t))
      BY NamesFinite
    <2>3. Cardinality(HasNames(u)) = Cardinality(HasNames(t)) + 1
      BY <2>1, <2>2, FS_AddElement
    <2>4. QED
      BY <1>9, <1>11, <2>3 DEF Sound, Counted
  <1>22. Whole(u)
    BY <1>12, <1>13, <1>14 DEF Whole, Alike
  <1>23. QED
    BY <1>2, <1>9, <1>11, <1>15, <1>16, <1>17, <1>18, <1>19, <1>20, <1>21, <1>22 DEF Sound, Typed

(* Closing a file that is written to without release keeps the invariant.  *)
LEMMA WriterKeeps ==
    ASSUME DistinctNames, NEW t, NEW p, NEW ds, Sound(t, p, ds), NEW f \in Writers, p[f] = "open",
           \A g \in File : p[g] \in {"released", "closed"} \/ (p[g] = "open" /\ g \in Writers),
           NEW u, u = [t EXCEPT !.kernel = KernelSet(t.kernel, ds[f], NoName)],
           NEW q, Moves(p, q, f, "closed")
    PROVE  Sound(u, q, ds)
  <1>1. p \in [File -> PCs] /\ "closed" \in PCs /\ t \in Tables /\ f \in File
    BY DescriptorsAssumption DEF Sound, Typed, PCs
  <1>2. q \in [File -> PCs] /\ q[f] = "closed" /\ \A g \in File \ {f} : q[g] = p[g]
    BY <1>1, Moved
  <1>3. PICK d : d = ds[f]
    OBVIOUS
  <1>4. d \in Descriptor /\ Named(t, d) = Name(f) /\ Has(t, d)
    BY <1>1, <1>3, DescriptorsAssumption DEF Sound, Open, Has
  <1>5. PICK k : k = KernelSet(t.kernel, d, NoName)
    OBVIOUS
  <1>6. t.kernel \in Kernels /\ NoName \in Names
    BY <1>1 DEF Tables, Names
  <1>7. \A e \in Descriptor \ {d} : k[e] = t.kernel[e]
    BY <1>4, <1>5, <1>6, KernelChanged
  <1>8. k \in Kernels
    BY <1>4, <1>5, <1>6, KernelChanged
  <1>9. /\ u \in Tables /\ u.pods = t.pods /\ u.top = t.top /\ u.current = t.current
        /\ u.kernel = k
    BY <1>1, <1>3, <1>5, <1>8 DEF Tables
  <1>10. \A e \in Descriptor : Alike(t, u, e) /\ After(u, e) = After(t, e)
    BY <1>9, SamePod
  <1>11. \A e \in Descriptor : Has(u, e) <=> Has(t, e)
    BY <1>10 DEF Alike, Has
  <1>12. Linked(u)
    <2>1. PICK w, m : Chain(t, w, m)
      BY DEF Sound, Linked
    <2>2. \A e \in Descriptor : /\ On(u, e) <=> On(t, e)
                                /\ On(t, e) => After(u, e) = After(t, e)
      BY <1>10 DEF Alike
    <2>3. Chain(u, w, m)
      BY <1>9, <2>1, <2>2, ChainKept
    <2>4. QED
      BY <2>3 DEF Linked
  <1>13. Owned(u, q, ds)
    <2> SUFFICES ASSUME NEW e \in Descriptor, Has(u, e) PROVE \E g \in File : Owner(u, q, ds, e, g)
      BY DEF Owned
    <2>1. PICK g \in File : Owner(t, p, ds, e, g)
      BY <1>11 DEF Sound, Owned
    <2>2. CASE e = d
      <3>1. g = f
        BY <1>1, <1>4, <2>1, <2>2 DEF Owner, DistinctNames
      <3>2. Owner(u, q, ds, e, f)
        BY <1>2, <1>10, <2>1, <3>1 DEF Owner, Alike
      <3>3. QED
        BY <1>1, <3>2
    <2>3. CASE e # d
      <3>1. q[g] = p[g] /\ u.kernel[e] = t.kernel[e]
        BY <1>2, <1>3, <1>7, <1>9, <2>1, <2>3 DEF Owner
      <3>2. Owner(u, q, ds, e, g)
        BY <1>10, <2>1, <3>1 DEF Owner, Alike
      <3>3. QED
        BY <3>2
    <2>4. QED
      BY <2>2, <2>3
  <1>14. Reachable(u)
    BY <1>10, <1>11 DEF Sound, Reachable, Alike
  <1>15. Opened(u, q, ds)
    BY <1>2 DEF Opened
  <1>16. Open(u, q, ds)
    BY <1>2, <1>10 DEF Sound, Open, Alike
  <1>17. Over(q)
    BY <1>2 DEF Over
  <1>18. Counted(u)
    <2>1. HasNames(u) = HasNames(t)
      BY <1>11 DEF HasNames
    <2>2. QED
      BY <1>9, <2>1 DEF Sound, Counted
  <1>19. QED
    BY <1>2, <1>9, <1>12, <1>13, <1>14, <1>15, <1>16, <1>17, <1>18 DEF Sound, Typed

(* From t to u descriptor d was put back: out of use and on the stack.     *)
PutBack(t, u, d) ==
    /\ u \in Tables /\ u.limit = t.limit /\ u.current = t.current /\ u.kernel = t.kernel
    /\ Named(u, d) = Named(t, d) /\ ~InUse(u, d) /\ On(u, d)
    /\ Written(u, d) <=> Written(t, d)
    /\ \A e \in Descriptor \ {d} : Alike(t, u, e)
    /\ Linked(u)

(* release closes the descriptor or puts it back.                          *)
LEMMA ReleaseIs ==
    ASSUME NEW t \in Tables, Linked(t), NEW d \in Descriptor, ~Written(t, d), NEW permanent \in BOOLEAN,
           NEW u, u = release(t, d, permanent)
    PROVE  u = Closed(t, d) \/ (~permanent /\ PutBack(t, u, d))
  <1>1. PICK w, m : Chain(t, w, m)
    BY DEF Linked
  <1>2. t.pods[d] \in Pod /\ t.top \in Link /\ t.pods[d].is_write = FALSE /\ t.pods[d].is_on_stack \in BOOLEAN
    BY DEF Tables, Pods, Pod, Written
  <1>3. CASE permanent \/ (t.current > t.limit /\ ~t.pods[d].is_write)
    BY <1>3 DEF release
  <1>4. CASE ~(permanent \/ (t.current > t.limit /\ ~t.pods[d].is_write)) /\ On(t, d)
    <2>1. PICK z : z = [t.pods[d] EXCEPT !.inuse = FALSE]
      OBVIOUS
    <2>2. /\ z \in Pod /\ z.name = t.pods[d].name /\ z.inuse = FALSE /\ z.stack_next = t.pods[d].stack_next
          /\ z.is_write = t.pods[d].is_write /\ z.is_on_stack = t.pods[d].is_on_stack
      BY <1>2, <2>1 DEF Pod
    <2>3. u = WithPod(t, d, z)
      BY <1>4, <2>1 DEF release, WithPod, On
    <2>4. Same(t, u) /\ u.pods[d] = z /\ \A e \in Descriptor \ {d} : u.pods[e] = t.pods[e]
      BY <2>2, <2>3, PodChanged
    <2>5. /\ Named(u, d) = Named(t, d) /\ ~InUse(u, d) /\ (Written(u, d) <=> Written(t, d))
          /\ On(u, d) <=> On(t, d)
          /\ After(u, d) = After(t, d)
      BY <2>2, <2>4 DEF Named, InUse, Written, On, After
    <2>6. \A e \in Descriptor \ {d} : Alike(t, u, e) /\ After(u, e) = After(t, e)
      BY <2>4, SamePod
    <2>7. \A e \in Descriptor : /\ On(u, e) <=> On(t, e)
                                /\ On(t, e) => After(u, e) = After(t, e)
      BY <2>5, <2>6 DEF Alike
    <2>8. u.top = t.top
      BY <2>4 DEF Same
    <2>9. Chain(u, w, m)
      BY <1>1, <2>7, <2>8, ChainKept
    <2>10. QED
      BY <1>4, <2>4, <2>5, <2>6, <2>9 DEF PutBack, Linked, Same
  <1>5. CASE ~(permanent \/ (t.current > t.limit /\ ~t.pods[d].is_write)) /\ ~On(t, d)
    <2>1. PICK z : z = [t.pods[d] EXCEPT !.inuse = FALSE, !.is_on_stack = TRUE, !.stack_next = t.top]
      OBVIOUS
    <2>2. /\ z \in Pod /\ z.name = t.pods[d].name /\ z.inuse = FALSE /\ z.stack_next = t.top
          /\ z.is_write = t.pods[d].is_write /\ z.is_on_stack = TRUE
      BY <1>2, <2>1 DEF Pod
    <2>3. PICK s : s = WithPod(t, d, z)
      OBVIOUS
    <2>4. Same(t, s) /\ s.pods[d] = z /\ \A e \in Descriptor \ {d} : s.pods[e] = t.pods[e]
      BY <2>2, <2>3, PodChanged
    <2>5. u = [s EXCEPT !.top = d]
      <3>1. ~(t.pods[d].is_write \/ t.pods[d].is_on_stack)
        BY <1>2, <1>5 DEF On
      <3>2. u = [t EXCEPT !.pods[d] = z, !.top = d]
        BY <1>5, <2>1, <3>1 DEF release
      <3>3. QED
        BY <2>3, <3>2 DEF WithPod
    <2>6. /\ u \in Tables /\ u.limit = s.limit /\ u.current = s.current /\ u.kernel = s.kernel
          /\ u.top = d /\ u.pods = s.pods
      <3>1. d \in Link
        BY DEF Link
      <3>2. QED
        BY <2>4, <2>5, <3>1 DEF Same, Tables
    <2>7. /\ Named(u, d) = Named(t, d) /\ ~InUse(u, d) /\ (Written(u, d) <=> Written(t, d)) /\ On(u, d)
          /\ After(u, d) = t.top
      BY <2>2, <2>4, <2>6 DEF Named, InUse, Written, On, After
    <2>8. \A e \in Descriptor \ {d} : Alike(t, u, e) /\ After(u, e) = After(t, e)
      BY <2>4, <2>6, SamePod
    <2>9. \E v : Chain(u, v, m + 1)
      <3>1. \A e \in Descriptor \ {d} : /\ On(u, e) <=> On(t, e)
                                        /\ After(u, e) = After(t, e)
        BY <2>8 DEF Alike
      <3>2. QED
        BY <1>1, <1>5, <2>6, <2>7, <3>1, ChainPushed
    <2>10. QED
      BY <1>5, <2>4, <2>6, <2>7, <2>8, <2>9 DEF PutBack, Linked, Same
  <1>6. QED
    BY <1>3, <1>4, <1>5

(* Either keeps the invariant.                                             *)
LEMMA ReleaseKeeps ==
    ASSUME DistinctNames, NEW t, NEW p, NEW ds, Sound(t, p, ds), NEW f \in File \ Writers, p[f] = "open",
           NEW d, d = ds[f], NEW x \in {"released", "closed"},
           NEW u, u = Closed(t, d) \/ (x = "released" /\ PutBack(t, u, d)),
           NEW q, Moves(p, q, f, x)
    PROVE  Sound(u, q, ds)
  <1>1. p \in [File -> PCs] /\ x \in PCs /\ t \in Tables /\ f \in File
    BY DEF Sound, Typed, PCs
  <1>2. q \in [File -> PCs] /\ q[f] = x /\ \A g \in File \ {f} : q[g] = p[g]
    BY <1>1, Moved
  <1>3. d \in Descriptor /\ Named(t, d) = Name(f) /\ Has(t, d)
    BY <1>1, DescriptorsAssumption DEF Sound, Open, Has
  <1>4. Owner(t, p, ds, d, f)
    <2>1. PICK g \in File : Owner(t, p, ds, d, g)
      BY <1>3 DEF Sound, Owned
    <2>2. g = f
      BY <1>1, <1>3, <2>1 DEF Owner, DistinctNames
    <2>3. QED
      BY <2>1, <2>2
  <1>5. u \in Tables /\ Linked(u) /\ \A e \in Descriptor \ {d} : Alike(t, u, e) /\ u.kernel[e] = t.kernel[e]
    <2>1. CASE u = Closed(t, d)
      <3>1. /\ u \in Tables /\ u.top = t.top /\ u.kernel = KernelSet(t.kernel, d, NoName)
            /\ u.pods[d] = [t.pods[d] EXCEPT !.name = NoName]
            /\ \A e \in Descriptor \ {d} : u.pods[e] = t.pods[e]
        BY <1>1, <1>3, <2>1, ClosedIs
      <3>2. \A e \in Descriptor \ {d} : Alike(t, u, e) /\ After(u, e) = After(t, e)
        BY <3>1, SamePod
      <3>3. On(u, d) <=> On(t, d)
        <4>1. t.pods[d] \in Pod
          BY <1>1, <1>3 DEF Tables, Pods
        <4>2. QED
          BY <3>1, <4>1 DEF On, Pod
      <3>4. After(u, d) = After(t, d)
        <4>1. t.pods[d] \in Pod
          BY <1>1, <1>3 DEF Tables, Pods
        <4>2. QED
          BY <3>1, <4>1 DEF After, Pod
      <3>5. \A e \in Descriptor : /\ On(u, e) <=> On(t, e)
                                  /\ On(t, e) => After(u, e) = After(t, e)
        BY <3>2, <3>3, <3>4 DEF Alike
      <3>6. PICK w, m : Chain(t, w, m)
        BY DEF Sound, Linked
      <3>7. Chain(u, w, m)
        BY <3>1, <3>5, <3>6, ChainKept
      <3>8. t.kernel \in Kernels /\ NoName \in Names
        BY <1>1 DEF Tables, Names
      <3>9. \A e \in Descriptor \ {d} : u.kernel[e] = t.kernel[e]
        BY <1>3, <3>1, <3>8, KernelChanged
      <3>10. QED
        BY <3>1, <3>2, <3>7, <3>9 DEF Linked
    <2>2. CASE PutBack(t, u, d)
      BY <2>2 DEF PutBack
    <2>3. QED
      BY <2>1, <2>2
  <1>6. /\ u = Closed(t, d) => ~Has(u, d) /\ u.current = t.current - 1
        /\ u # Closed(t, d) => Has(u, d) /\ u.current = t.current
    <2>1. CASE u = Closed(t, d)
      <3>1. t.pods[d] \in Pod
        BY <1>1, <1>3 DEF Tables, Pods
      <3>2. u.pods[d] = [t.pods[d] EXCEPT !.name = NoName] /\ u.current = t.current - 1
        BY <1>1, <1>3, <2>1, ClosedIs
      <3>3. QED
        BY <2>1, <3>1, <3>2 DEF Has, Named, Pod
    <2>2. CASE u # Closed(t, d)
      BY <1>3, <2>2 DEF PutBack, Has
    <2>3. QED
      BY <2>1, <2>2
  <1>7. \A e \in Descriptor \ {d} : Has(u, e) <=> Has(t, e)
    BY <1>5 DEF Alike, Has
  <1>8. Owned(u, q, ds)
    <2> SUFFICES ASSUME NEW e \in Descriptor, Has(u, e) PROVE \E g \in File : Owner(u, q, ds, e, g)
      BY DEF Owned
    <2>1. CASE e = d
      <3>1. x = "released" /\ PutBack(t, u, d)
        BY <1>6, <2>1
      <3>2. Owner(u, q, ds, d, f)
        BY <1>2, <1>4, <3>1 DEF Owner, PutBack
      <3>3. QED
        BY <1>1, <2>1, <3>2
    <2>2. CASE e # d
      <3>1. Has(t, e) /\ Alike(t, u, e) /\ u.kernel[e] = t.kernel[e]
        BY <1>5, <1>7, <2>2
      <3>2. PICK g \in File : Owner(t, p, ds, e, g)
        BY <3>1 DEF Sound, Owned
      <3>3. q[g] = p[g]
        BY <1>2, <2>2, <3>2 DEF Owner
      <3>4. Owner(u, q, ds, e, g)
        BY <3>1, <3>2, <3>3 DEF Owner, Alike
      <3>5. QED
        BY <3>4
    <2>3. QED
      BY <2>1, <2>2
  <1>9. Reachable(u)
    <2> SUFFICES ASSUME NEW e \in Descriptor, Has(u, e) PROVE InUse(u, e) \/ Written(u, e) \/ On(u, e)
      BY DEF Reachable
    <2>1. CASE e = d
      BY <1>6, <2>1 DEF PutBack
    <2>2. CASE e # d
      BY <1>5, <1>7, <2>2 DEF Sound, Reachable, Alike
    <2>3. QED
      BY <2>1, <2>2
  <1>10. Opened(u, q, ds)
    <2> SUFFICES ASSUME NEW g \in File, q[g] = "opened"
                 PROVE  ds[g] \in Descriptor /\ u.kernel[ds[g]] = Name(g) /\ ~Has(u, ds[g])
      BY DEF Opened
    <2>1. p[g] = "opened"
      BY <1>2
    <2>2. ds[g] \in Descriptor /\ t.kernel[ds[g]] = Name(g) /\ ~Has(t, ds[g])
      BY <2>1 DEF Sound, Opened
    <2>3. ds[g] # d
      BY <1>3, <2>2
    <2>4. QED
      BY <1>5, <1>7, <2>2, <2>3
  <1>11. Open(u, q, ds)
    <2> SUFFICES ASSUME NEW g \in File, q[g] = "open"
                 PROVE  ds[g] \in Descriptor /\ Named(u, ds[g]) = Name(g)
      BY DEF Open
    <2>1. p[g] = "open" /\ g # f
      BY <1>2
    <2>2. ds[g] \in Descriptor /\ Named(t, ds[g]) = Name(g)
      BY <2>1 DEF Sound, Open
    <2>3. ds[g] # d
      BY <1>1, <1>3, <2>1, <2>2 DEF DistinctNames
    <2>4. QED
      BY <1>5, <2>2, <2>3 DEF Alike
  <1>12. Over(q)
    <2>1. NoneClosed(p)
      BY <1>1, BusyNoneClosed DEF Sound
    <2>2. Writers \subseteq File
      BY DescriptorsAssumption
    <2>3. QED
      BY <1>2, <2>1, <2>2 DEF Over, NoneClosed
  <1>13. Counted(u)
    <2>1. CASE u = Closed(t, d)
      <3>1. HasNames(u) = HasNames(t) \ {d} /\ d \in HasNames(t) /\ IsFiniteSet(HasNames(t))
        BY <1>3, <1>6, <1>7, <2>1, NamesFinite DEF HasNames
      <3>2. Cardinality(HasNames(u)) = Cardinality(HasNames(t)) - 1
        BY <3>1, FS_RemoveElement
      <3>3. QED
        BY <1>6, <2>1, <3>2 DEF Sound, Counted
    <2>2. CASE u # Closed(t, d)
      <3>1. HasNames(u) = HasNames(t)
        BY <1>3, <1>6, <1>7, <2>2 DEF HasNames
      <3>2. QED
        BY <1>6, <2>2, <3>1 DEF Sound, Counted
    <2>3. QED
      BY <2>1, <2>2
  <1>14. QED
    BY <1>2, <1>5, <1>8, <1>9, <1>10, <1>11, <1>12, <1>13 DEF Sound, Typed

-----------------------------------------------------------------------------
(* Nothing in the table may be closed.                                     *)
AllInUse(t) == \A d \in Descriptor : Has(t, d) => InUse(t, d) \/ Written(t, d)

(* The inductive invariant: the table is sound, and the link has at most   *)
(* ended because there was nothing to close.                               *)
descInv ==
    /\ Sound(Table, pc, descriptor_)
    /\ ended \in {"", "fatal"} /\ (ended = "fatal" => AllInUse(Table))

(* The constants and the descriptors are numbers.                          *)
LEMMA Numbers ==
    /\ Fds \in Nat /\ Slack \in Nat /\ Floor \in Nat
    /\ \A d \in Descriptor : d \in Nat /\ d >= 0
    /\ \A d \in Link : d >= 0 => d \in Descriptor
  <1>1. Fds \in Nat /\ Slack \in Nat /\ Floor \in Nat
    BY DescriptorsAssumption
  <1>2. QED
    BY <1>1 DEF Descriptor, Link

(* The limit that open lowers itself to is a natural number.               *)
LEMMA GreaterOfTwo ==
    ASSUME NEW c \in Int, NEW k \in Nat, NEW b \in Nat
    PROVE  Max({c - k, b}) \in Nat
  <1>1. PICK a \in Int : a = c - k
    OBVIOUS
  <1>2. PICK x \in {a, b} : \A y \in {a, b} : x >= y
    OBVIOUS
  <1>3. Max({a, b}) \in {a, b} /\ \A y \in {a, b} : Max({a, b}) >= y
    BY <1>2 DEF Max
  <1>4. QED
    BY <1>1, <1>3

(* Membership is TRUE or FALSE.                                            *)
LEMMA Decided ==
    ASSUME NEW x, NEW S
    PROVE  (x \in S /\ (x \in S) = TRUE) \/ (x \notin S /\ (x \in S) = FALSE)
  OBVIOUS

(* The variables take the values of the table they become.                 *)
LEMMA Became ==
    ASSUME NEW u \in Tables, Becomes(u)
    PROVE  Table' = u
  <1>1. u = [pods |-> u.pods, top |-> u.top, current |-> u.current, limit |-> u.limit, kernel |-> u.kernel]
    BY DEF Tables
  <1>2. QED
    BY <1>1 DEF Becomes, Table

(* The variables are the parts of the table.                               *)
LEMMA TableFields ==
    /\ Table.pods = open_descriptors_ /\ Table.top = stack_top_ /\ Table.current = current_
    /\ Table.limit = limit_ /\ Table.kernel = kernel
  BY DEF Table

(* Whole is Intact for the table of the variables.                         *)
LEMMA WholeIsIntact ==
    ASSUME Sound(Table, pc, descriptor_)
    PROVE  Intact <=> Whole(Table)
  <1>1. \A d \in Descriptor : Has(Table, d) <=> d \in Recorded
    BY TableFields DEF Has, Named, Recorded
  <1>2. \A d \in Descriptor : open_descriptors_[d].is_on_stack \in BOOLEAN
    BY TableFields DEF Sound, Typed, Tables, Pods, Pod
  <1>3. \A d \in Descriptor : On(Table, d) <=> open_descriptors_[d].is_on_stack
    BY <1>2, TableFields DEF On
  <1>4. QED
    BY <1>1, <1>3 DEF Intact, Whole

(* open with a descriptor, up to ::open, keeps the invariant.              *)
LEMMA ReuseStep ==
    ASSUME DistinctNames, descInv, ended = "", NEW f \in File, Reuse(f)
    PROVE  descInv'
  <1>1. PICK t : t = Table
    OBVIOUS
  <1>2. Sound(t, pc, descriptor_) /\ t \in Tables /\ t.pods = open_descriptors_ /\ Linked(t)
    BY <1>1, TableFields DEF descInv, Sound, Typed
  <1>3. NoneClosed(pc) /\ pc[f] = "released" /\ descriptor_' = descriptor_
    BY DEF Reuse, Ended, NoneClosed
  <1>4. CASE ~StillOpen(f) /\ pc' = [pc EXCEPT ![f] = "opening"] /\ UNCHANGED <<tableVars, ended>>
    <2>1. Table' = t /\ ended' = ""
      BY <1>1, <1>4 DEF Table, tableVars
    <2>2. ASSUME NEW d \in Descriptor, Owner(t, pc, descriptor_, d, f) PROVE FALSE
      <3>1. descriptor_[f] = d /\ open_descriptors_[d].name = Name(f)
        BY <1>2, <2>2 DEF Owner, Named
      <3>2. d >= 0
        BY Numbers
      <3>3. QED
        BY <1>4, <3>1, <3>2 DEF StillOpen
    <2>3. Moves(pc, pc', f, "opening")
      BY <1>4 DEF Moves
    <2>4. Sound(t, pc', descriptor_)
      BY <1>2, <1>3, <2>2, <2>3, OpeningKeeps
    <2>5. QED
      BY <1>3, <2>1, <2>4 DEF descInv
  <1>5. CASE /\ StillOpen(f) /\ pc' = [pc EXCEPT ![f] = "open"]
             /\ ended' = IF open_descriptors_[descriptor_[f]].inuse THEN "assert" ELSE ended
             /\ Becomes(Taken(Table, descriptor_[f]))
    <2>1. PICK d : d = descriptor_[f]
      OBVIOUS
    <2>2. d \in Descriptor
      <3>1. d \in Link /\ d >= 0
        BY <1>2, <1>5, <2>1 DEF StillOpen, Sound, Typed
      <3>2. QED
        BY <3>1, Numbers
    <2>3. Named(t, d) = Name(f)
      BY <1>2, <1>5, <2>1 DEF StillOpen, Named
    <2>4. PICK u : u = Taken(t, d)
      OBVIOUS
    <2>5. TakesUp(t, u, d)
      BY <1>2, <2>2, <2>4, TakenIs
    <2>6. Moves(pc, pc', f, "open")
      BY <1>5 DEF Moves
    <2>7. Sound(u, pc', descriptor_) /\ ~InUse(t, d)
      BY <1>2, <1>3, <2>1, <2>2, <2>3, <2>5, <2>6, TakenKeeps
    <2>8. Table' = u
      BY <1>1, <1>5, <2>1, <2>4, <2>7, Became DEF Sound, Typed
    <2>9. t.pods[d].inuse = FALSE
      BY <1>2, <2>2, <2>7 DEF Tables, Pods, Pod, InUse
    <2>10. ended' = ""
      BY <1>2, <1>5, <2>1, <2>9
    <2>11. QED
      BY <1>3, <2>7, <2>8, <2>10 DEF descInv
  <1>6. QED
    BY <1>4, <1>5 DEF Reuse

(* ::open keeps the invariant.                                             *)
LEMMA KernelOpenStep ==
    ASSUME descInv, ended = "", NEW f \in File, KernelOpen(f)
    PROVE  descInv'
  <1>1. PICK t : t = Table
    OBVIOUS
  <1>2. Sound(t, pc, descriptor_) /\ t \in Tables /\ t.kernel = kernel
    BY <1>1, TableFields DEF descInv, Sound, Typed
  <1>3. pc[f] = "opening" /\ ended' = ""
    BY DEF KernelOpen
  <1>4. PICK free : free = {d \in Descriptor : kernel[d] = NoName}
    OBVIOUS
  <1>5. CASE free = {}
    <2>1. pc' = [pc EXCEPT ![f] = "EMFILE"] /\ descriptor_' = descriptor_ /\ Table' = t
      BY <1>1, <1>4, <1>5 DEF KernelOpen, Table
    <2>2. Moves(pc, pc', f, "EMFILE")
      BY <2>1 DEF Moves
    <2>3. NoneClosed(pc)
      BY <1>2, <1>3, BusyNoneClosed DEF Sound
    <2>4. \A d \in Descriptor : ~Owner(t, pc, descriptor_, d, f)
      BY <1>3 DEF Owner
    <2>5. Sound(t, pc', descriptor_)
      BY <1>2, <2>2, <2>3, <2>4, OpeningKeeps
    <2>6. QED
      BY <1>3, <2>1, <2>5 DEF descInv
  <1>6. CASE free # {}
    <2>1. PICK d : d = Min(free)
      OBVIOUS
    <2>2. free \subseteq Nat
      BY <1>4, Numbers
    <2>3. d \in free
      BY <1>6, <2>1, <2>2, MinIn
    <2>4. d \in Descriptor /\ t.kernel[d] = NoName
      BY <1>2, <1>4, <2>3
    <2>5. /\ pc' = [pc EXCEPT ![f] = "opened"] /\ kernel' = [kernel EXCEPT ![d] = Name(f)]
          /\ descriptor_' = [descriptor_ EXCEPT ![f] = d]
          /\ UNCHANGED <<open_descriptors_, stack_top_, current_, limit_>>
      BY <1>4, <1>6, <2>1 DEF KernelOpen
    <2>6. PICK u : u = [t EXCEPT !.kernel = KernelSet(t.kernel, d, Name(f))]
      OBVIOUS
    <2>7. Table' = u
      BY <1>1, <2>5, <2>6 DEF Table, KernelSet
    <2>8. Moves(pc, pc', f, "opened")
      BY <2>5 DEF Moves
    <2>9. Sound(u, pc', descriptor_')
      BY <1>2, <1>3, <2>4, <2>5, <2>6, <2>8, KernelKeeps
    <2>10. QED
      BY <1>3, <2>7, <2>9 DEF descInv
  <1>7. QED
    BY <1>5, <1>6

(* open with the number it got, close_some_descriptor at the limit         *)
(* included, keeps the invariant.                                          *)
LEMMA RecordStep ==
    ASSUME DistinctNames, descInv, Intact, ended = "", NEW f \in File, Record(f)
    PROVE  descInv'
  <1>1. PICK t : t = Table
    OBVIOUS
  <1>2. Sound(t, pc, descriptor_) /\ Whole(t)
    BY <1>1, WholeIsIntact DEF descInv
  <1>3. PICK d : d = descriptor_[f]
    OBVIOUS
  <1>4. PICK u : u = Recording(t, d, f)
    OBVIOUS
  <1>5. /\ pc[f] = "opened" /\ pc' = [pc EXCEPT ![f] = "open"] /\ descriptor_' = descriptor_
        /\ Becomes(IF u.current >= u.limit THEN close_some_descriptor(u) ELSE u)
        /\ ended' = IF u.current >= u.limit /\ Hangs(u) THEN "hang" ELSE ended
    BY <1>1, <1>3, <1>4 DEF Record, Recording, New
  <1>6. Moves(pc, pc', f, "open")
    BY <1>5 DEF Moves
  <1>7. Sound(u, pc', descriptor_) /\ Whole(u)
    BY <1>2, <1>3, <1>4, <1>5, <1>6, RecordKeeps
  <1>8. u \in Tables
    BY <1>7 DEF Sound, Typed
  <1>9. PICK w, m : Chain(u, w, m)
    BY <1>7 DEF Sound, Linked
  <1>10. ended' = ""
    BY <1>5, <1>8, <1>9, ClosableIs
  <1>11. PICK v : v = IF u.current >= u.limit THEN close_some_descriptor(u) ELSE u
    OBVIOUS
  <1>12. Sound(v, pc', descriptor_)
    <2>1. CASE v = u
      BY <1>7, <2>1
    <2>2. CASE v # u
      <3>1. v = close_some_descriptor(u)
        BY <1>11, <2>2
      <3>2. PICK i : Closes(u, v, i)
        BY <1>8, <1>9, <2>2, <3>1, CloseSome
      <3>3. QED
        BY <1>7, <3>2, CloseKeeps
    <2>3. QED
      BY <2>1, <2>2
  <1>13. Table' = v
    BY <1>5, <1>11, <1>12, Became DEF Sound, Typed
  <1>14. QED
    BY <1>5, <1>10, <1>12, <1>13 DEF descInv

(* open when there are no more descriptors keeps the invariant; when       *)
(* close_some_descriptor closes nothing everything is in use.              *)
LEMMA RunOutStep ==
    ASSUME DistinctNames, descInv, Intact, ended = "", NEW f \in File, RunOut(f)
    PROVE  descInv'
  <1>1. PICK t : t = Table
    OBVIOUS
  <1>2. Sound(t, pc, descriptor_) /\ Whole(t) /\ t.current = current_
    BY <1>1, WholeIsIntact, TableFields DEF descInv
  <1>3. PICK n : n = Max({current_ - Slack, Floor})
    OBVIOUS
  <1>4. n \in Nat
    <2>1. PICK c \in Int : c = current_
      BY <1>2 DEF Sound, Typed, Tables
    <2>2. PICK k \in Nat : k = Slack
      BY Numbers
    <2>3. QED
      BY <1>3, <2>1, <2>2, Numbers, GreaterOfTwo
  <1>5. PICK u : u = [t EXCEPT !.limit = n]
    OBVIOUS
  <1>6. /\ pc[f] = "EMFILE" /\ pc' = [pc EXCEPT ![f] = "opening"] /\ descriptor_' = descriptor_
        /\ Becomes(close_some_descriptor(u))
        /\ ended' = IF Hangs(u) THEN "hang" ELSE IF Closable(u) = {} THEN "fatal" ELSE ended
    BY <1>1, <1>3, <1>5 DEF RunOut
  <1>7. Sound(u, pc, descriptor_) /\ Whole(u)
    BY <1>2, <1>4, <1>5, LimitKeeps
  <1>8. u \in Tables
    BY <1>7 DEF Sound, Typed
  <1>9. PICK w, m : Chain(u, w, m)
    BY <1>7 DEF Sound, Linked
  <1>10. ~Hangs(u)
    BY <1>8, <1>9, ClosableIs
  <1>11. PICK v : v = close_some_descriptor(u)
    OBVIOUS
  <1>12. \/ Closable(u) = {} /\ v = u /\ AllTaken(u)
         \/ Closable(u) # {} /\ \E i : Closes(u, v, i)
    BY <1>8, <1>9, <1>11, CloseSome
  <1>13. Sound(v, pc, descriptor_)
    BY <1>7, <1>12, CloseKeeps
  <1>14. Moves(pc, pc', f, "opening")
    BY <1>6 DEF Moves
  <1>15. NoneClosed(pc)
    BY <1>2, <1>6, BusyNoneClosed DEF Sound
  <1>16. \A d \in Descriptor : ~Owner(v, pc, descriptor_, d, f)
    BY <1>6 DEF Owner
  <1>17. Sound(v, pc', descriptor_)
    BY <1>13, <1>14, <1>15, <1>16, OpeningKeeps
  <1>18. Table' = v
    BY <1>6, <1>11, <1>17, Became DEF Sound, Typed
  <1>19. ended' \in {"", "fatal"} /\ (ended' = "fatal" => AllInUse(v))
    <2>1. CASE Closable(u) = {}
      <3>1. AllInUse(v)
        BY <1>7, <1>12, <2>1 DEF AllTaken, AllInUse, Sound, Reachable
      <3>2. QED
        BY <1>6, <1>10, <2>1, <3>1
    <2>2. CASE Closable(u) # {}
      BY <1>6, <1>10, <2>2
    <2>3. QED
      BY <2>1, <2>2
  <1>20. QED
    BY <1>6, <1>17, <1>18, <1>19 DEF descInv

(* release keeps the invariant.                                            *)
LEMMA ReleaseStep ==
    ASSUME DistinctNames, descInv, ended = "", NEW f \in File, Release(f)
    PROVE  descInv'
  <1>1. PICK t : t = Table
    OBVIOUS
  <1>2. Sound(t, pc, descriptor_) /\ t \in Tables /\ Linked(t)
    BY <1>1 DEF descInv, Sound, Typed
  <1>3. PICK d, x : d = descriptor_[f] /\ x = IF f \in Once THEN "closed" ELSE "released"
    OBVIOUS
  <1>4. PICK u : u = release(t, d, f \in Once)
    OBVIOUS
  <1>5. /\ pc[f] = "open" /\ f \in File \ Writers /\ pc' = [pc EXCEPT ![f] = x]
        /\ Becomes(u) /\ descriptor_' = descriptor_ /\ ended' = ""
    BY <1>1, <1>3, <1>4 DEF Release
  <1>6. d \in Descriptor /\ ~Written(t, d)
    <2>1. d \in Descriptor /\ Named(t, d) = Name(f) /\ Name(f) # NoName
      BY <1>2, <1>3, <1>5, DescriptorsAssumption DEF Sound, Open
    <2>2. PICK g \in File : Owner(t, pc, descriptor_, d, g)
      BY <1>2, <2>1 DEF Sound, Owned, Has
    <2>3. g = f
      BY <2>1, <2>2 DEF Owner, DistinctNames
    <2>4. QED
      BY <1>5, <2>1, <2>2, <2>3 DEF Owner
  <1>7. PICK permanent \in BOOLEAN : (permanent <=> f \in Once) /\ u = release(t, d, permanent)
    <2>1. CASE f \in Once
      <3>1. (f \in Once) = TRUE
        BY <2>1, Decided
      <3>2. u = release(t, d, TRUE)
        BY <1>4, <3>1
      <3>3. QED
        BY <2>1, <3>2
    <2>2. CASE f \notin Once
      <3>1. (f \in Once) = FALSE
        BY <2>2, Decided
      <3>2. u = release(t, d, FALSE)
        BY <1>4, <3>1
      <3>3. QED
        BY <2>2, <3>2
    <2>3. QED
      BY <2>1, <2>2
  <1>8. u = Closed(t, d) \/ (~permanent /\ PutBack(t, u, d))
    BY <1>2, <1>6, <1>7, ReleaseIs
  <1>9. x \in {"released", "closed"} /\ (~permanent => x = "released")
    BY <1>3, <1>7
  <1>10. Moves(pc, pc', f, x)
    BY <1>5 DEF Moves
  <1>11. u = Closed(t, d) \/ (x = "released" /\ PutBack(t, u, d))
    BY <1>8, <1>9
  <1>12. Sound(u, pc', descriptor_)
    BY <1>2, <1>3, <1>5, <1>9, <1>10, <1>11, ReleaseKeeps
  <1>13. Table' = u
    BY <1>5, <1>12, Became DEF Sound, Typed
  <1>14. QED
    BY <1>5, <1>12, <1>13 DEF descInv

(* Closing a file that is written to keeps the invariant.                  *)
LEMMA CloseStep ==
    ASSUME DistinctNames, descInv, ended = "", NEW f \in File, Close(f)
    PROVE  descInv'
  <1>1. PICK t : t = Table
    OBVIOUS
  <1>2. Sound(t, pc, descriptor_) /\ t \in Tables /\ t.kernel = kernel
    BY <1>1, TableFields DEF descInv, Sound, Typed
  <1>3. /\ pc[f] = "open" /\ f \in Writers /\ pc' = [pc EXCEPT ![f] = "closed"]
        /\ descriptor_' = descriptor_ /\ ended' = ""
    BY DEF Close
  <1>4. \A g \in File : pc[g] \in {"released", "closed"} \/ (pc[g] = "open" /\ g \in Writers)
    BY DEF Close, Busy
  <1>5. PICK u : u = [t EXCEPT !.kernel = KernelSet(t.kernel, descriptor_[f], NoName)]
    OBVIOUS
  <1>6. Table' = u
    BY <1>1, <1>5 DEF Close, Table, KernelSet
  <1>7. Moves(pc, pc', f, "closed")
    BY <1>3 DEF Moves
  <1>8. Sound(u, pc', descriptor_)
    BY <1>2, <1>3, <1>4, <1>5, <1>7, WriterKeeps
  <1>9. QED
    BY <1>3, <1>6, <1>8 DEF descInv

(* The empty table satisfies the invariant.                                *)
LEMMA AtFirst ==
    ASSUME Init
    PROVE  descInv
  <1>1. PICK t : t = Table
    OBVIOUS
  <1>2. /\ t.pods = [d \in Descriptor |-> Unused] /\ t.top = -1 /\ t.current = 0
        /\ t.limit \in Nat /\ t.kernel = [d \in Descriptor |-> NoName]
    BY <1>1, TableFields, DescriptorsAssumption DEF Init
  <1>3. Unused \in Pod /\ Unused.name = NoName /\ Unused.is_on_stack = FALSE
    BY DEF Unused, Pod, Link
  <1>4. t \in Tables
    <2>1. t.pods \in Pods
      BY <1>2, <1>3 DEF Pods
    <2>2. t.kernel \in Kernels
      BY <1>2 DEF Kernels, Names
    <2>3. QED
      BY <1>1, <1>2, <2>1, <2>2, TableFields DEF Tables, Link, Table
  <1>5. Typed(t, pc, descriptor_) /\ \A f \in File : pc[f] = "released"
    BY <1>4 DEF Typed, Init, PCs, Link
  <1>6. \A d \in Descriptor : ~Has(t, d) /\ ~On(t, d)
    BY <1>2, <1>3 DEF Has, Named, On
  <1>7. Linked(t)
    <2>1. PICK w : w = [n \in 0..Fds |-> -1]
      OBVIOUS
    <2>2. Chain(t, w, 0)
      BY <1>2, <1>6, <2>1, Numbers DEF Chain, Link
    <2>3. QED
      BY <2>2 DEF Linked
  <1>8. Counted(t)
    <2>1. HasNames(t) = {}
      BY <1>6 DEF HasNames
    <2>2. QED
      BY <1>2, <2>1, FS_EmptySet DEF Counted
  <1>9. Writers \subseteq File
    BY DescriptorsAssumption
  <1>10. Sound(t, pc, descriptor_)
    BY <1>5, <1>6, <1>7, <1>8, <1>9 DEF Sound, Owned, Reachable, Opened, Open, Over
  <1>11. QED
    BY <1>1, <1>10 DEF descInv, Init

(* Every step from a table whose linked descriptors are open keeps the     *)
(* invariant.                                                              *)
LEMMA EveryStep ==
    ASSUME DistinctNames, descInv, Intact, [Next]_vars
    PROVE  descInv'
  <1>1. CASE UNCHANGED vars
    <2>1. Table' = Table /\ pc' = pc /\ descriptor_' = descriptor_ /\ ended' = ended
      BY <1>1 DEF vars, tableVars, Table
    <2>2. QED
      BY <2>1 DEF descInv
  <1>2. CASE Next
    <2>1. PICK f \in File : \/ Reuse(f) \/ KernelOpen(f) \/ Record(f) \/ RunOut(f)
                            \/ Release(f) \/ Close(f)
      BY <1>2 DEF Next
    <2>2. ended = ""
      BY <1>2 DEF Next
    <2>3. QED
      BY <2>1, <2>2, ReuseStep, KernelOpenStep, RecordStep, RunOutStep, ReleaseStep, CloseStep
  <1>3. QED
    BY <1>1, <1>2

(* The invariant implies what the run checks.                              *)
LEMMA InvariantSuffices ==
    ASSUME DistinctNames, descInv
    PROVE  OwnDescriptor /\ CountExact /\ ReleasedClosable /\ KeepsRunning
  <1>1. PICK t : t = Table
    OBVIOUS
  <1>2. Sound(t, pc, descriptor_) /\ t \in Tables
    BY <1>1 DEF descInv, Sound, Typed
  <1>3. /\ t.pods = open_descriptors_ /\ t.top = stack_top_ /\ t.current = current_
        /\ t.limit = limit_ /\ t.kernel = kernel
    BY <1>1, TableFields
  <1>4. Recorded = HasNames(t)
    BY <1>3 DEF Recorded, HasNames, Has, Named
  <1>5. OwnDescriptor
    <2>1. ASSUME NEW f \in File, pc[f] = "open" PROVE kernel[descriptor_[f]] = Name(f)
      <3>1. descriptor_[f] \in Descriptor /\ Named(t, descriptor_[f]) = Name(f) /\ Name(f) # NoName
        BY <1>2, <2>1, DescriptorsAssumption DEF Sound, Open
      <3>2. PICK g \in File : Owner(t, pc, descriptor_, descriptor_[f], g)
        BY <1>2, <3>1 DEF Sound, Owned, Has
      <3>3. g = f
        BY <3>1, <3>2 DEF Owner, DistinctNames
      <3>4. QED
        BY <1>3, <2>1, <3>2, <3>3 DEF Owner
    <2>2. ASSUME NEW f \in File, NEW g \in File \ {f}, pc[f] = "open", pc[g] = "open"
          PROVE  descriptor_[f] # descriptor_[g]
      BY <1>2, <2>2 DEF Sound, Open, DistinctNames
    <2>3. QED
      BY <2>1, <2>2 DEF OwnDescriptor
  <1>6. CountExact
    <2>1. current_ = Cardinality(Recorded) /\ current_ \in 0..Fds
      BY <1>2, <1>3, <1>4, NamesFinite DEF Sound, Counted
    <2>2. descTypeOK
      BY <1>2, <1>3, <2>1 DEF descTypeOK, Tables, Pods, Pod, Link
    <2>3. QED
      BY <2>1, <2>2 DEF CountExact
  <1>7. \A d \in Descriptor : /\ InUse(t, d) <=> open_descriptors_[d].inuse
                              /\ Written(t, d) <=> open_descriptors_[d].is_write
    <2>1. \A d \in Descriptor : open_descriptors_[d].inuse \in BOOLEAN /\ open_descriptors_[d].is_write \in BOOLEAN
      BY <1>2, <1>3 DEF Tables, Pods, Pod
    <2>2. QED
      BY <1>3, <2>1 DEF InUse, Written
  <1>8. ReleasedClosable
    <2>1. PICK w, m : Chain(t, w, m)
      BY <1>2 DEF Sound, Linked
    <2>2. Walk(Table) = w
      BY <1>1, <2>1, WalkOfChain
    <2>3. w[Fds] = -1
      BY <2>1, Numbers DEF Chain
    <2>4. ASSUME NEW d \in Descriptor, On(t, d) PROVE d \in OnStack
      <3>1. PICK n \in 0..m - 1 : w[n] = d
        BY <2>1, <2>4 DEF Chain
      <3>2. n \in 0..Fds /\ d # -1
        BY <2>1, <3>1, ChainElements, Numbers
      <3>3. QED
        BY <2>2, <3>1, <3>2 DEF OnStack
    <2>5. \A d \in Recorded : d \in Descriptor /\ (InUse(t, d) \/ Written(t, d) \/ On(t, d))
      BY <1>2, <1>4 DEF HasNames, Sound, Reachable
    <2>6. QED
      BY <1>7, <2>2, <2>3, <2>4, <2>5 DEF ReleasedClosable
  <1>9. KeepsRunning
    <2>1. ended = "fatal" => \A d \in Recorded : d \in Descriptor /\ (InUse(t, d) \/ Written(t, d))
      BY <1>1, <1>4 DEF descInv, AllInUse, HasNames
    <2>2. QED
      BY <1>7, <2>1 DEF KeepsRunning, descInv
  <1>10. QED
    BY <1>5, <1>6, <1>8, <1>9

(* For any number of files, threads and descriptors, any limit and slack,  *)
(* and files of different names: as long as release has closed no          *)
(* descriptor that was still linked (Intact), a file that holds a          *)
(* descriptor holds one that the kernel has open for it and that no other  *)
(* file holds; current_ counts the open descriptors of the table; whatever *)
(* is neither in use nor written to can be found from stack_top_; and open *)
(* never fails an assertion, never goes round the stack for ever, and      *)
(* gives up only when everything is in use.                                *)
THEOREM DescriptorsCorrect ==
    ASSUME DistinctNames
    PROVE  Spec /\ []Intact => [](OwnDescriptor /\ CountExact /\ ReleasedClosable /\ KeepsRunning)
  <1>1. Init => descInv
    BY AtFirst
  <1>2. descInv /\ Intact /\ [Next]_vars => descInv'
    BY EveryStep
  <1>3. descInv => OwnDescriptor /\ CountExact /\ ReleasedClosable /\ KeepsRunning
    BY InvariantSuffices
  <1>4. QED
    BY <1>1, <1>2, <1>3, PTL DEF Spec

(* In particular: current_ is the number of descriptors in the table.      *)
THEOREM CountCorrect == ASSUME DistinctNames PROVE Spec /\ []Intact => []CountExact
  BY DescriptorsCorrect, PTL

(* In particular: what was released can be found and closed, and the stack *)
(* ends, however often descriptors in its midst are used again.            *)
THEOREM StackCorrect == ASSUME DistinctNames PROVE Spec /\ []Intact => []ReleasedClosable
  BY DescriptorsCorrect, PTL

(* In particular: open fails no assertion, never walks in a circle, and    *)
(* gives up only when every descriptor is in use.                          *)
THEOREM RunsOn == ASSUME DistinctNames PROVE Spec /\ []Intact => []KeepsRunning
  BY DescriptorsCorrect, PTL
=============================================================================
