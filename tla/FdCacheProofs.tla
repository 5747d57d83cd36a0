---------------------------- MODULE FdCacheProofs ----------------------------
(***************************************************************************)
(* What the functions of cache.c and bfdio.c do to the state they are      *)
(* given, for every number of files: lemmas on FdCache. Good says that the *)
(* ring is exact and the limit kept, and every function keeps it.          *)
(***************************************************************************)
EXTENDS FdCache, TLAPS

(* The provers, in the order in which a leaf is given to them.             *)
USE ZenonT(5), SMTT(30), ZenonT(30)

(* q is a ring of exactly the files of S.                                  *)
Ring(q, S) ==
    /\ q \in Seq(File)
    /\ \A f \in File : f \in S <=> \E i \in DOMAIN q : q[i] = f
    /\ \A i, j \in DOMAIN q : q[i] = q[j] => i = j

(* What Sequences says of s \o t.                                          *)
LEMMA Concatenated ==
    ASSUME NEW S, NEW s \in Seq(S), NEW t \in Seq(S)
    PROVE  /\ s \o t \in Seq(S) /\ Len(s \o t) = Len(s) + Len(t)
           /\ \A i \in 1..(Len(s) + Len(t)) : (s \o t)[i] = IF i <= Len(s) THEN s[i] ELSE t[i - Len(s)]
  OBVIOUS

(* What it says of a part of a sequence.                                   *)
LEMMA SubSeqIs ==
    ASSUME NEW S, NEW s, NEW m \in Int, NEW n \in Int, \A i \in m..n : s[i] \in S
    PROVE  /\ SubSeq(s, m, n) \in Seq(S)
           /\ Len(SubSeq(s, m, n)) = IF m <= n THEN n - m + 1 ELSE 0
           /\ \A i \in 1..(n - m + 1) : SubSeq(s, m, n)[i] = s[m + i - 1]
  OBVIOUS

(* A file that is inserted comes first.                                    *)
LEMMA Inserted ==
    ASSUME NEW q, NEW S \in SUBSET File, Ring(q, S), NEW b \in File \ S
    PROVE  Ring(<<b>> \o q, S \cup {b}) /\ Len(<<b>> \o q) = Len(q) + 1
  <1> DEFINE p == <<b>> \o q
             n == Len(q)
  <1>1. q \in Seq(File) /\ n \in Nat /\ DOMAIN q = 1..n
    BY DEF Ring
  <1>2. <<b>> \in Seq(File) /\ Len(<<b>>) = 1 /\ <<b>>[1] = b
    OBVIOUS
  <1>3. p \in Seq(File) /\ Len(p) = n + 1 /\ DOMAIN p = 1..(n + 1)
    BY <1>1, <1>2, Concatenated
  <1>4. \A i \in 1..(n + 1) : p[i] = IF i = 1 THEN b ELSE q[i - 1]
    BY <1>1, <1>2, Concatenated
  <1> HIDE DEF p, n
  <1>5. \A i \in 1..n : q[i] \in S /\ q[i] # b
    BY <1>1 DEF Ring
  <1>6. \A i \in 1..(n + 1) : i # 1 => i - 1 \in 1..n
    BY <1>1
  <1>7. ASSUME NEW i \in 1..(n + 1), NEW j \in 1..(n + 1), p[i] = p[j]
        PROVE  i = j
    <2>1. CASE i = 1 \/ j = 1
      BY <1>4, <1>5, <1>6, <1>7, <2>1
    <2>2. CASE i # 1 /\ j # 1
      <3>1. i - 1 \in 1..n /\ j - 1 \in 1..n /\ q[i - 1] = q[j - 1]
        BY <1>4, <1>6, <1>7, <2>2
      <3>2. i - 1 = j - 1
        BY <1>1, <3>1 DEF Ring
      <3>3. QED
        BY <3>2
    <2>3. QED
      BY <2>1, <2>2
  <1>8. ASSUME NEW f \in File
        PROVE  f \in S \cup {b} <=> \E i \in 1..(n + 1) : p[i] = f
    <2>1. ASSUME f \in S PROVE \E i \in 1..(n + 1) : p[i] = f
      <3>1. PICK i \in 1..n : q[i] = f
        BY <1>1, <2>1 DEF Ring
      <3>2. i + 1 \in 1..(n + 1) /\ i + 1 # 1 /\ (i + 1) - 1 = i
        BY <1>1
      <3>3. QED
        BY <1>4, <3>1, <3>2
    <2>2. 1 \in 1..(n + 1) /\ p[1] = b
      BY <1>1, <1>4
    <2>3. \A i \in 1..(n + 1) : p[i] \in S \cup {b}
      BY <1>4, <1>5, <1>6
    <2>4. QED
      BY <2>1, <2>2, <2>3
  <1>9. QED
    BY <1>3, <1>7, <1>8 DEF Ring, p, n

(* A file that is snipped is gone, and the others stay.                    *)
LEMMA Snipped ==
    ASSUME NEW q, NEW S \in SUBSET File, Ring(q, S), NEW b \in S,
           NEW k \in DOMAIN q, q[k] = b
    PROVE  LET p == SubSeq(q, 1, k - 1) \o SubSeq(q, k + 1, Len(q))
           IN  Ring(p, S \ {b}) /\ Len(p) = Len(q) - 1
  <1> DEFINE l == SubSeq(q, 1, k - 1)
             r == SubSeq(q, k + 1, Len(q))
             p == l \o r
             n == Len(q)
  <1>1. q \in Seq(File) /\ n \in Nat /\ DOMAIN q = 1..n /\ k \in 1..n
    BY DEF Ring
  <1>2. l \in Seq(File) /\ Len(l) = k - 1 /\ \A i \in 1..(k - 1) : l[i] = q[i]
    BY <1>1, 1 \in 1..(n + 1), k - 1 \in 0..n, SubSeqIs
  <1>3. r \in Seq(File) /\ Len(r) = n - k /\ \A i \in 1..(n - k) : r[i] = q[k + i]
    BY <1>1, k + 1 \in 1..(n + 1), n \in k..n, SubSeqIs
  <1> HIDE DEF l, r
  <1>4. /\ p \in Seq(File) /\ Len(p) = Len(l) + Len(r)
        /\ \A i \in 1..(Len(l) + Len(r)) : p[i] = IF i <= Len(l) THEN l[i] ELSE r[i - Len(l)]
    BY <1>2, <1>3, Concatenated
  <1> HIDE DEF p
  <1>5. p \in Seq(File) /\ Len(p) = n - 1 /\ DOMAIN p = 1..(n - 1)
    BY <1>1, <1>2, <1>3, <1>4
  <1> HIDE DEF n
  <1>6. \A i \in 1..(n - 1) : p[i] = IF i < k THEN q[i] ELSE q[i + 1]
    <2> SUFFICES ASSUME NEW i \in 1..(n - 1)
                 PROVE  p[i] = IF i < k THEN q[i] ELSE q[i + 1]
      OBVIOUS
    <2>1. p[i] = IF i <= k - 1 THEN l[i] ELSE r[i - (k - 1)]
      BY <1>1, <1>2, <1>3, <1>4
    <2>2. CASE i < k
      BY <1>1, <1>2, <2>1, <2>2
    <2>3. CASE i >= k
      <3>1. i - (k - 1) \in 1..(n - k) /\ k + (i - (k - 1)) = i + 1
        BY <1>1, <2>3
      <3>2. r[i - (k - 1)] = q[i + 1]
        BY <1>3, <3>1
      <3>3. ~(i <= k - 1) /\ ~(i < k)
        BY <1>1, <2>3
      <3>4. QED
        BY <2>1, <3>2, <3>3
    <2>4. QED
      BY <1>1, <2>2, <2>3
  <1> DEFINE from(i) == IF i < k THEN i ELSE i + 1
  <1>7. \A i \in 1..(n - 1) : from(i) \in 1..n /\ from(i) # k /\ p[i] = q[from(i)]
    BY <1>1, <1>6
  <1>8. \A i, j \in 1..(n - 1) : from(i) = from(j) => i = j
    BY <1>1
  <1>9. \A i \in 1..n : i # k => \E j \in 1..(n - 1) : from(j) = i
    <2> SUFFICES ASSUME NEW i \in 1..n, i # k
                 PROVE  \E j \in 1..(n - 1) : from(j) = i
      OBVIOUS
    <2>1. CASE i < k
      BY <1>1, <2>1, i \in 1..(n - 1), from(i) = i
    <2>2. CASE i > k
      BY <1>1, <2>2, i - 1 \in 1..(n - 1), from(i - 1) = i
    <2>3. QED
      BY <1>1, <2>1, <2>2
  <1> HIDE DEF from
  <1>10. \A i, j \in 1..(n - 1) : p[i] = p[j] => i = j
    BY <1>1, <1>7, <1>8 DEF Ring
  <1>11. ASSUME NEW f \in File
         PROVE  f \in S \ {b} <=> \E i \in 1..(n - 1) : p[i] = f
    <2>1. f \in S \ {b} <=> \E i \in 1..n : i # k /\ q[i] = f
      BY <1>1 DEF Ring
    <2>2. QED
      BY <1>7, <1>9, <2>1
  <1>12. QED
    BY <1>1, <1>5, <1>10, <1>11 DEF Ring, p, l, r, n

-----------------------------------------------------------------------------
(* The states that the functions of the cache pass on, and their results.  *)
Item   == CellType \cup Byte \cup {0}
Lists  == Seq(File)
Places == [File -> Nat \cup {Null}]
Wheres == [Bfd -> Nat]
Flags  == [File -> BOOLEAN]
Stores == [File -> Seq(Item)]
State  == [lru : Lists, open_files : Nat, stream : Places, where : Wheres,
           cacheable : Flags, opened_once : Flags, data : Stores]

(* The files that are open and in the ring: all but those of E.            *)
InRing(s, E) == {f \in File : s.stream[f] # Null} \ E

(* The ring is exact and the limit is kept, but for the files of E, which  *)
(* bfd_open_file has opened and not yet entered.                           *)
Good(s, E) ==
    /\ s \in State
    /\ Ring(s.lru, InRing(s, E)) /\ s.open_files = Len(s.lru)
    /\ s.open_files > max_open_files =>
         \A f, g \in InRing(s, E) : s.cacheable[f] /\ s.cacheable[g] => f = g

(* There is room for one more file, or nothing to be closed for it.        *)
Room(s, E) ==
    s.open_files < max_open_files \/ \A f \in InRing(s, E) : ~s.cacheable[f]

(* From s to t the file f was left alone, or closed with its position kept.*)
Same(s, t, f)    == t.stream[f] = s.stream[f] /\ t.where[f] = s.where[f]
Evicted(s, t, f) == s.stream[f] # Null /\ t.stream[f] = Null /\ t.where[f] = s.stream[f]

(* From s to t nothing has happened but evictions of files outside of E.   *)
Evictions(s, t, E) ==
    /\ t.data = s.data /\ t.opened_once = s.opened_once /\ t.cacheable = s.cacheable
    /\ \A f \in File : Same(s, t, f) \/ (f \notin E /\ Evicted(s, t, f))
    /\ \A e \in Elt : t.where[e] = s.where[e]

(* A file is no member, and Null is no position.                           *)
LEMMA Sorts ==
    /\ File \subseteq Bfd /\ Elt \subseteq Bfd /\ File \cap Elt = {}
    /\ Null \notin Nat /\ max_open_files \in Nat \ {0}
  BY FileAssumption, LimitAssumption DEF Bfd, Null

(* Whether a state is good does not depend on the positions.               *)
LEMMA GoodAlike ==
    ASSUME NEW E, NEW s, Good(s, E), NEW t \in State, t.lru = s.lru,
           t.open_files = s.open_files, t.cacheable = s.cacheable,
           \A f \in File : t.stream[f] = Null <=> s.stream[f] = Null
    PROVE  Good(t, E) /\ InRing(t, E) = InRing(s, E)
  <1>1. InRing(t, E) = InRing(s, E)
    BY DEF InRing
  <1>2. QED
    BY <1>1 DEF Good

(* A BFD's own position is set.                                            *)
SetWhere(s, b, v) == [s EXCEPT !.where[b] = v]

(* Nothing else changes with it.                                           *)
LEMMA WhereSet ==
    ASSUME NEW s \in State, NEW b \in Bfd, NEW v, {v} \subseteq Nat,
           NEW t, t = SetWhere(s, b, v)
    PROVE  /\ t \in State
           /\ t.lru = s.lru /\ t.open_files = s.open_files /\ t.stream = s.stream
           /\ t.cacheable = s.cacheable /\ t.opened_once = s.opened_once /\ t.data = s.data
           /\ t.where[b] = v /\ \A c \in Bfd : c # b => t.where[c] = s.where[c]
  <1>1. s.where \in Wheres
    BY DEF State
  <1>2. [s.where EXCEPT ![b] = v] \in Wheres
    BY <1>1 DEF Wheres
  <1>3. t \in State /\ t.where = [s.where EXCEPT ![b] = v]
    BY <1>2 DEF State, SetWhere
  <1>4. QED
    BY <1>1, <1>3 DEF State, Wheres, SetWhere

(* A file's stream is moved.                                               *)
SetStream(s, c, v) == [s EXCEPT !.stream[c] = v]

(* Nothing else changes with it.                                           *)
LEMMA StreamSet ==
    ASSUME NEW s \in State, NEW c \in File, NEW v \in Nat \cup {Null},
           NEW t, t = SetStream(s, c, v)
    PROVE  /\ t \in State
           /\ t.lru = s.lru /\ t.open_files = s.open_files /\ t.where = s.where
           /\ t.cacheable = s.cacheable /\ t.opened_once = s.opened_once /\ t.data = s.data
           /\ t.stream[c] = v /\ \A f \in File : f # c => t.stream[f] = s.stream[f]
  <1>1. s.stream \in Places
    BY DEF State
  <1>2. [s.stream EXCEPT ![c] = v] \in Places
    BY <1>1 DEF Places
  <1>3. t \in State /\ t.stream = [s.stream EXCEPT ![c] = v]
    BY <1>2 DEF State, SetStream
  <1>4. QED
    BY <1>1, <1>3 DEF State, Places, SetStream

(* The state that bfd_cache_delete leaves.                                 *)
LEMMA Deleted ==
    ASSUME NEW E, NEW s, Good(s, E), NEW b \in InRing(s, E),
           NEW r \in bfd_cache_delete(s, b)
    PROVE  /\ Good(r.s, E)
           /\ r.s.open_files = s.open_files - 1
           /\ r.s.stream = [s.stream EXCEPT ![b] = Null]
           /\ r.s.where = s.where /\ r.s.cacheable = s.cacheable
           /\ r.s.opened_once = s.opened_once /\ r.s.data = s.data
  <1> DEFINE k == CHOOSE j \in DOMAIN s.lru : s.lru[j] = b
             q == SubSeq(s.lru, 1, k - 1) \o SubSeq(s.lru, k + 1, Len(s.lru))
             u == [s EXCEPT !.lru = q]
             t == [u EXCEPT !.stream[b] = Null, !.open_files = @ - 1]
  <1>1. s \in State /\ Ring(s.lru, InRing(s, E)) /\ InRing(s, E) \in SUBSET File
    BY DEF Good, InRing
  <1>2. \E j \in DOMAIN s.lru : s.lru[j] = b
    BY <1>1 DEF Ring
  <1>3. k \in DOMAIN s.lru /\ s.lru[k] = b
    BY <1>2
  <1> HIDE DEF k
  <1>4. Ring(q, InRing(s, E) \ {b}) /\ Len(q) = Len(s.lru) - 1
    BY <1>1, <1>3, Snipped
  <1>5. r = Ok(t) \/ r = Failed(t)
    BY DEF bfd_cache_delete, snip, k
  <1> HIDE DEF q
  <1>6. /\ t.lru = q /\ t.open_files = s.open_files - 1
        /\ t.stream = [s.stream EXCEPT ![b] = Null]
        /\ t.where = s.where /\ t.cacheable = s.cacheable
        /\ t.opened_once = s.opened_once /\ t.data = s.data
    BY <1>1 DEF State
  <1>7. q \in Lists /\ s.open_files - 1 \in Nat
    <2>1. s.lru \in Seq(File) /\ q \in Seq(File) /\ s.open_files = Len(s.lru)
      BY <1>1, <1>4 DEF Good, Ring
    <2>2. QED
      BY <1>4, <2>1 DEF Lists
  <1>8. [s.stream EXCEPT ![b] = Null] \in Places
    <2>1. s.stream \in Places
      BY <1>1 DEF State
    <2>2. QED
      BY <2>1 DEF Places
  <1>9. t \in State
    BY <1>1, <1>7, <1>8 DEF State
  <1> HIDE DEF t
  <1>10. InRing(t, E) = InRing(s, E) \ {b}
    <2>1. s.stream \in Places
      BY <1>1 DEF State
    <2>2. QED
      BY <1>6, <2>1 DEF InRing, Places
  <1>11. Good(t, E)
    BY <1>4, <1>6, <1>7, <1>9, <1>10, LimitAssumption DEF Good
  <1>12. r.s = t
    BY <1>5 DEF Ok, Failed
  <1>13. QED
    BY <1>6, <1>11, <1>12

(* close_one closes a file that may be closed, if there is any.            *)
LEMMA ClosesOne ==
    ASSUME NEW E, NEW s, Good(s, E), NEW r \in close_one(s)
    PROVE  /\ Good(r.s, E) /\ Evictions(s, r.s, E)
           /\ r.ok => (IF r.s = s THEN \A f \in InRing(s, E) : ~s.cacheable[f]
                       ELSE \E f \in InRing(s, E) : /\ s.cacheable[f]
                                                    /\ InRing(r.s, E) = InRing(s, E) \ {f}
                                                    /\ r.s.open_files = s.open_files - 1)
           /\ (\A f \in InRing(s, E) : ~s.cacheable[f]) => r = Ok(s)
  <1>1. s \in State /\ Ring(s.lru, InRing(s, E)) /\ InRing(s, E) \in SUBSET File
    BY DEF Good, InRing
  <1>2. s.lru \in Seq(File) /\ DOMAIN s.lru = 1..Len(s.lru) /\ Len(s.lru) \in Nat
    BY <1>1 DEF Ring
  <1>3. \A i \in DOMAIN s.lru : s.lru[i] \in InRing(s, E)
    BY <1>1, <1>2 DEF Ring
  <1>4. \A f \in InRing(s, E) : \E i \in DOMAIN s.lru : s.lru[i] = f
    BY <1>1 DEF Ring
  <1>5. CASE Cacheable(s) = {}
    <2>1. r = Ok(s)
      BY <1>5 DEF close_one
    <2>2. r.s = s
      BY <2>1 DEF Ok
    <2>3. QED
      BY <1>4, <1>5, <2>1, <2>2 DEF Evictions, Same, Cacheable
  <1>6. CASE Cacheable(s) # {}
    <2>1. PICK b \in to_kill(s) : r \in bfd_cache_delete([s EXCEPT !.where[b] = s.stream[b]], b)
      BY <1>6 DEF close_one
    <2> DEFINE u == [s EXCEPT !.where[b] = s.stream[b]]
    <2>2. \E i \in Cacheable(s) : b = s.lru[i]
      BY DEF to_kill
    <2>3. b \in InRing(s, E) /\ s.cacheable[b]
      BY <1>3, <2>2 DEF Cacheable
    <2>4. r \in bfd_cache_delete(u, b)
      BY <2>1
    <2>5. s.stream \in Places
      BY <1>1 DEF State
    <2>6. b \in File /\ b \in Bfd /\ s.stream[b] \in Nat /\ s.stream[b] # Null /\ b \notin E
      BY <2>3, <2>5, Sorts DEF InRing, Places
    <2>7. PICK v \in Nat : v = s.stream[b]
      BY <2>6
    <2>8. u = SetWhere(s, b, v)
      BY <2>7 DEF SetWhere
    <2> HIDE DEF u
    <2>9. /\ u \in State /\ u.stream = s.stream /\ u.lru = s.lru
          /\ u.open_files = s.open_files /\ u.cacheable = s.cacheable
          /\ u.opened_once = s.opened_once /\ u.data = s.data
          /\ u.where[b] = s.stream[b] /\ \A c \in Bfd : c # b => u.where[c] = s.where[c]
      BY <1>1, <2>6, <2>8, <2>7, WhereSet
    <2>10. Good(u, E) /\ InRing(u, E) = InRing(s, E)
      BY <2>9, GoodAlike
    <2>11. /\ Good(r.s, E) /\ r.s.open_files = s.open_files - 1
          /\ r.s.stream = [s.stream EXCEPT ![b] = Null]
          /\ r.s.where = u.where /\ r.s.cacheable = s.cacheable
          /\ r.s.opened_once = s.opened_once /\ r.s.data = s.data
      BY <2>3, <2>4, <2>9, <2>10, Deleted
    <2>12. r.s.stream[b] = Null /\ \A f \in File : f # b => r.s.stream[f] = s.stream[f]
      BY <2>5, <2>6, <2>11 DEF Places
    <2>13. Evictions(s, r.s, E)
      <3>1. \A f \in File : Same(s, r.s, f) \/ (f \notin E /\ Evicted(s, r.s, f))
        BY <2>6, <2>9, <2>11, <2>12, Sorts DEF Same, Evicted
      <3>2. \A e \in Elt : r.s.where[e] = s.where[e]
        BY <2>6, <2>9, <2>11, Sorts
      <3>3. QED
        BY <2>11, <3>1, <3>2 DEF Evictions
    <2>14. InRing(r.s, E) = InRing(s, E) \ {b}
      BY <2>12 DEF InRing
    <2>15. r.s # s
      BY <2>6, <2>12
    <2>16. QED
      BY <2>3, <2>11, <2>13, <2>14, <2>15
  <1>7. QED
    BY <1>5, <1>6

(* Before a file is opened there is room for it, if there can be.          *)
LEMMA MakesRoom ==
    ASSUME NEW E, NEW s, Good(s, E), NEW r \in MakeRoom(s)
    PROVE  /\ Good(r.s, E) /\ Evictions(s, r.s, E)
           /\ r.ok => Room(r.s, E)
           /\ Room(s, E) => r = Ok(s)
  <1>1. s.open_files \in Nat /\ max_open_files \in Nat
    BY Sorts DEF Good, State
  <1>2. CASE s.open_files < max_open_files
    <2>1. r = Ok(s) /\ r.s = s
      BY <1>1, <1>2 DEF MakeRoom, Ok
    <2>2. QED
      BY <1>2, <2>1 DEF Evictions, Same, Room
  <1>3. CASE s.open_files >= max_open_files
    <2>1. r \in close_one(s)
      BY <1>3 DEF MakeRoom
    <2>2. Room(s, E) => r = Ok(s)
      BY <1>1, <1>3, <2>1, ClosesOne DEF Room
    <2>3. r.ok => Room(r.s, E)
      <3> SUFFICES ASSUME r.ok PROVE Room(r.s, E)
        OBVIOUS
      <3>1. CASE r.s = s
        BY <2>1, <3>1, ClosesOne DEF Room
      <3>2. CASE r.s # s
        <4>1. PICK f \in InRing(s, E) : /\ s.cacheable[f]
                                       /\ InRing(r.s, E) = InRing(s, E) \ {f}
                                       /\ r.s.open_files = s.open_files - 1
          BY <2>1, <3>2, ClosesOne
        <4>2. r.s.cacheable = s.cacheable
          BY <2>1, ClosesOne DEF Evictions
        <4>3. CASE s.open_files > max_open_files
          BY <4>1, <4>2, <4>3 DEF Good, Room
        <4>4. CASE s.open_files = max_open_files
          BY <1>1, <4>1, <4>4 DEF Room
        <4>5. QED
          BY <1>1, <1>3, <4>3, <4>4
      <3>3. QED
        BY <3>1, <3>2
    <2>4. QED
      BY <2>1, <2>2, <2>3, ClosesOne
  <1>4. QED
    BY <1>1, <1>2, <1>3

(* bfd_cache_init enters the file that was just opened.                    *)
LEMMA CacheInit ==
    ASSUME NEW s, NEW b \in File, Good(s, {b}), s.stream[b] # Null,
           NEW r \in bfd_cache_init(s, b)
    PROVE  /\ Evictions(s, r.s, {b}) /\ Good(r.s, IF r.ok THEN {} ELSE {b})
           /\ Room(s, {b}) => r.ok
           /\ r.ok /\ r.s.open_files > max_open_files =>
                \A f \in InRing(r.s, {}) : f # b => ~r.s.cacheable[f]
  <1>1. PICK m \in MakeRoom(s) :
          r = IF m.ok THEN Ok([insert(m.s, b) EXCEPT !.open_files = @ + 1]) ELSE m
    BY DEF bfd_cache_init
  <1>2. /\ Good(m.s, {b}) /\ Evictions(s, m.s, {b})
        /\ m.ok => Room(m.s, {b})
        /\ Room(s, {b}) => m = Ok(s)
    BY <1>1, MakesRoom
  <1>3. CASE ~m.ok
    BY <1>1, <1>2, <1>3 DEF Ok
  <1>4. CASE m.ok
    <2> DEFINE u == [m.s EXCEPT !.lru = <<b>> \o @]
               t == [u EXCEPT !.open_files = @ + 1]
    <2>1. r = Ok(t)
      BY <1>1, <1>4 DEF insert
    <2>2. m.s \in State /\ Ring(m.s.lru, InRing(m.s, {b})) /\ m.s.open_files = Len(m.s.lru)
      BY <1>2 DEF Good
    <2>3. InRing(m.s, {b}) \in SUBSET File /\ b \in File \ InRing(m.s, {b})
      BY DEF InRing
    <2>4. Ring(<<b>> \o m.s.lru, InRing(m.s, {b}) \cup {b}) /\ Len(<<b>> \o m.s.lru) = Len(m.s.lru) + 1
      BY <2>2, <2>3, Inserted
    <2> DEFINE q == <<b>> \o m.s.lru
    <2>5. q \in Lists /\ m.s.open_files \in Nat
      BY <2>2, <2>4 DEF Lists, Ring, State
    <2>6. u = [m.s EXCEPT !.lru = q]
      OBVIOUS
    <2> HIDE DEF q, u
    <2>7. t \in State
      <3>1. u \in State /\ u.open_files + 1 \in Nat
        BY <2>2, <2>5, <2>6 DEF State
      <3>2. QED
        BY <3>1 DEF State
    <2>8. /\ t.lru = q /\ t.open_files = m.s.open_files + 1
          /\ t.stream = m.s.stream /\ t.where = m.s.where /\ t.cacheable = m.s.cacheable
          /\ t.opened_once = m.s.opened_once /\ t.data = m.s.data
      BY <2>2, <2>5, <2>6 DEF State
    <2> HIDE DEF t
    <2>9. m.s.stream[b] # Null
      BY <1>2 DEF Evictions, Same
    <2>10. InRing(t, {}) = InRing(m.s, {b}) \cup {b}
      BY <2>8, <2>9 DEF InRing
    <2>11. Ring(t.lru, InRing(t, {})) /\ t.open_files = Len(t.lru)
      BY <2>2, <2>4, <2>8, <2>10 DEF q
    <2>12. t.open_files > max_open_files =>
             \A f \in InRing(t, {}) : f # b => ~t.cacheable[f]
      <3>1. Room(m.s, {b})
        BY <1>2, <1>4
      <3>2. CASE m.s.open_files < max_open_files
        BY <2>5, <2>8, <3>2, Sorts
      <3>3. CASE \A f \in InRing(m.s, {b}) : ~m.s.cacheable[f]
        BY <2>8, <2>10, <3>3
      <3>4. QED
        BY <3>1, <3>2, <3>3 DEF Room
    <2>13. Good(t, {})
      BY <2>7, <2>11, <2>12 DEF Good
    <2>14. Evictions(s, t, {b})
      BY <1>2, <2>8 DEF Evictions, Same, Evicted
    <2>15. r.s = t /\ r.ok = TRUE
      BY <2>1 DEF Ok
    <2>16. QED
      BY <2>12, <2>13, <2>14, <2>15
  <1>5. QED
    BY <1>3, <1>4

-----------------------------------------------------------------------------
(* From s to t, nothing but evictions has happened to the files but b.     *)
Others(s, t, b) ==
    /\ \A f \in File \ {b} : /\ Same(s, t, f) \/ Evicted(s, t, f)
                            /\ t.data[f] = s.data[f]
                            /\ t.opened_once[f] = s.opened_once[f]
    /\ \A e \in Elt : t.where[e] = s.where[e]

(* fopen opens a file that is not open.                                    *)
LEMMA Fopens ==
    ASSUME NEW s, NEW b \in File, Good(s, {}), s.stream[b] = Null,
           NEW t, t = fopen(s, b)
    PROVE  /\ Good(t, {b}) /\ InRing(t, {b}) = InRing(s, {})
           /\ Others(s, t, b) /\ t.stream[b] = 0 /\ t.where = s.where
           /\ t.cacheable = s.cacheable /\ t.open_files = s.open_files
           /\ t.opened_once[b] <=> s.opened_once[b] \/ b \in Writers
           /\ t.data[b] = IF b \in Writers /\ ~s.opened_once[b] THEN <<>> ELSE s.data[b]
  <1> DEFINE o == s.opened_once[b] \/ b \in Writers
             d == IF b \in Writers /\ ~s.opened_once[b] THEN <<>> ELSE s.data[b]
             st == [s.stream EXCEPT ![b] = 0]
             oo == [s.opened_once EXCEPT ![b] = o]
             dd == [s.data EXCEPT ![b] = d]
  <1>1. s \in State /\ s.stream \in Places /\ s.opened_once \in Flags /\ s.data \in Stores
    BY DEF Good, State
  <1>2. st \in Places /\ st[b] = 0 /\ \A f \in File \ {b} : st[f] = s.stream[f]
    BY <1>1 DEF Places
  <1>3. oo \in Flags /\ (oo[b] <=> o) /\ \A f \in File \ {b} : oo[f] = s.opened_once[f]
    BY <1>1 DEF Flags
  <1>4. d \in Seq(Item)
    BY <1>1 DEF Stores
  <1>5. dd \in Stores /\ dd[b] = d /\ \A f \in File \ {b} : dd[f] = s.data[f]
    BY <1>1, <1>4 DEF Stores
  <1>6. t = [s EXCEPT !.stream = st, !.opened_once = oo, !.data = dd]
    BY <1>1 DEF fopen, State
  <1> HIDE DEF st, oo, dd
  <1>7. /\ t \in State /\ t.stream = st /\ t.opened_once = oo /\ t.data = dd
        /\ t.lru = s.lru /\ t.open_files = s.open_files /\ t.where = s.where
        /\ t.cacheable = s.cacheable
    BY <1>1, <1>2, <1>3, <1>5, <1>6 DEF State
  <1>8. InRing(t, {b}) = InRing(s, {})
    BY <1>2, <1>7 DEF InRing
  <1>9. Good(t, {b})
    BY <1>7, <1>8 DEF Good
  <1>10. Others(s, t, b)
    BY <1>2, <1>3, <1>5, <1>7, Sorts DEF Others, Same
  <1>11. QED
    BY <1>2, <1>3, <1>5, <1>7, <1>8, <1>9, <1>10

(* bfd_open_file opens a file, or leaves it closed.                        *)
LEMMA OpensFile ==
    ASSUME NEW s, NEW b \in File, Good(s, {}), s.stream[b] = Null,
           NEW r \in bfd_open_file(s, b)
    PROVE  /\ Good(r.s, {}) /\ Others(s, r.s, b)
           /\ r.s.where[b] = s.where[b]
           /\ IF r.ok
              THEN /\ r.s.stream[b] = 0
                   /\ r.s.opened_once[b] <=> s.opened_once[b] \/ b \in Writers
                   /\ r.s.data[b] = IF b \in Writers /\ ~s.opened_once[b] THEN <<>> ELSE s.data[b]
              ELSE /\ r.s.stream[b] = Null /\ r.s.data[b] = s.data[b]
                   /\ r.s.opened_once[b] = s.opened_once[b]
  <1> DEFINE u == [s EXCEPT !.cacheable[b] = TRUE]
  <1>1. /\ u \in State /\ u.lru = s.lru /\ u.open_files = s.open_files
        /\ u.stream = s.stream /\ u.where = s.where /\ u.opened_once = s.opened_once
        /\ u.data = s.data /\ \A f \in File \ {b} : u.cacheable[f] = s.cacheable[f]
    <2>1. s \in State /\ s.cacheable \in Flags
      BY DEF Good, State
    <2>2. [s.cacheable EXCEPT ![b] = TRUE] \in Flags
      BY <2>1 DEF Flags
    <2>3. QED
      BY <2>1, <2>2 DEF State, Flags
  <1>2. PICK m \in MakeRoom(u) :
          r \in IF m.ok THEN {Failed(m.s)} \cup bfd_cache_init(fopen(m.s, b), b) ELSE {m}
    BY DEF bfd_open_file
  <1> HIDE DEF u
  <1>3. InRing(u, {}) = InRing(s, {}) /\ b \notin InRing(s, {}) /\ InRing(s, {}) \subseteq File
    BY <1>1 DEF InRing
  <1>4. Good(u, {})
    BY <1>1, <1>3 DEF Good
  <1>5. Good(m.s, {}) /\ Evictions(u, m.s, {}) /\ (m.ok => Room(m.s, {}))
    BY <1>2, <1>4, MakesRoom
  <1>6. /\ Others(s, m.s, b) /\ m.s.stream[b] = Null /\ m.s.where[b] = s.where[b]
        /\ m.s.data[b] = s.data[b] /\ m.s.opened_once[b] = s.opened_once[b]
    BY <1>1, <1>5 DEF Evictions, Others, Same, Evicted
  <1>7. CASE ~m.ok
    <2>1. r = m
      BY <1>2, <1>7
    <2>2. QED
      BY <1>5, <1>6, <1>7, <2>1
  <1>8. CASE m.ok /\ r = Failed(m.s)
    <2>1. r.s = m.s /\ ~r.ok
      BY <1>8 DEF Failed
    <2>2. QED
      BY <1>5, <1>6, <2>1
  <1>9. CASE m.ok /\ r \in bfd_cache_init(fopen(m.s, b), b)
    <2> DEFINE t == fopen(m.s, b)
    <2>1. /\ Good(t, {b}) /\ InRing(t, {b}) = InRing(m.s, {})
          /\ Others(m.s, t, b) /\ t.stream[b] = 0 /\ t.where = m.s.where
          /\ t.cacheable = m.s.cacheable /\ t.open_files = m.s.open_files
          /\ t.opened_once[b] <=> m.s.opened_once[b] \/ b \in Writers
          /\ t.data[b] = IF b \in Writers /\ ~m.s.opened_once[b] THEN <<>> ELSE m.s.data[b]
      BY <1>5, <1>6, Fopens
    <2>2. r \in bfd_cache_init(t, b)
      BY <1>9
    <2> HIDE DEF t
    <2>3. t.stream[b] # Null
      BY <2>1 DEF Null
    <2>4. Room(t, {b})
      BY <1>5, <1>9, <2>1 DEF Room
    <2>5. r.ok /\ Good(r.s, {}) /\ Evictions(t, r.s, {b})
      BY <2>1, <2>2, <2>3, <2>4, CacheInit
    <2>6. /\ r.s.stream[b] = 0 /\ r.s.where[b] = s.where[b]
          /\ r.s.opened_once[b] = t.opened_once[b] /\ r.s.data[b] = t.data[b]
      BY <1>6, <2>1, <2>5 DEF Evictions, Same
    <2>7. Others(m.s, r.s, b)
      BY <2>1, <2>5 DEF Evictions, Others, Same, Evicted
    <2>8. Others(s, r.s, b)
      BY <1>6, <2>7 DEF Others, Same, Evicted
    <2>9. QED
      BY <1>6, <2>1, <2>5, <2>6, <2>8
  <1>10. QED
    BY <1>2, <1>7, <1>8, <1>9

(* Every BFD has a file behind it: its own, or that of its archive.        *)
LEMMA Containers ==
    /\ \A b \in Bfd : Container(b) \in File
    /\ \A b \in File : Container(b) = b
    /\ \A e \in Elt : Container(e) = e.my_archive /\ Container(e) \in Archive
  <1>1. \A e \in Elt : e.my_archive \in Archive
    BY DEF Elt
  <1>2. Archive \subseteq File
    BY FileAssumption
  <1>3. QED
    BY <1>1, <1>2, Sorts DEF Container, Bfd

(* A file that is used moves to the front of the ring.                     *)
LEMMA Fronted ==
    ASSUME NEW s, Good(s, {}), NEW c \in InRing(s, {}),
           NEW t, t = insert(snip(s, c), c)
    PROVE  /\ Good(t, {}) /\ t.stream = s.stream /\ t.where = s.where
           /\ t.opened_once = s.opened_once /\ t.data = s.data
  <1> DEFINE k == CHOOSE j \in DOMAIN s.lru : s.lru[j] = c
             q == SubSeq(s.lru, 1, k - 1) \o SubSeq(s.lru, k + 1, Len(s.lru))
             p == <<c>> \o q
             S == InRing(s, {})
  <1>1. s \in State /\ Ring(s.lru, S) /\ S \in SUBSET File /\ c \in S
    BY DEF Good, InRing
  <1> HIDE DEF S
  <1>2. \E j \in DOMAIN s.lru : s.lru[j] = c
    BY <1>1 DEF Ring
  <1>3. k \in DOMAIN s.lru /\ s.lru[k] = c
    BY <1>2
  <1> HIDE DEF k
  <1>4. Ring(q, S \ {c}) /\ Len(q) = Len(s.lru) - 1
    BY <1>1, <1>3, Snipped
  <1>5. snip(s, c) = [s EXCEPT !.lru = q]
    BY DEF snip, k
  <1> HIDE DEF q
  <1>6. Ring(p, (S \ {c}) \cup {c}) /\ Len(p) = Len(q) + 1
    BY <1>1, <1>4, Inserted
  <1>7. (S \ {c}) \cup {c} = S
    BY <1>1
  <1>8. t = [s EXCEPT !.lru = p]
    BY <1>1, <1>5 DEF insert, State
  <1> HIDE DEF p
  <1>9. s.lru \in Seq(File) /\ p \in Lists
    BY <1>1, <1>6 DEF Ring, Lists
  <1>10. Len(p) = Len(s.lru)
    BY <1>4, <1>6, <1>9
  <1>11. /\ t \in State /\ t.lru = p /\ t.open_files = s.open_files
         /\ t.stream = s.stream /\ t.where = s.where /\ t.cacheable = s.cacheable
         /\ t.opened_once = s.opened_once /\ t.data = s.data
    BY <1>1, <1>8, <1>9 DEF State
  <1>12. InRing(t, {}) = S
    BY <1>11 DEF InRing, S
  <1>13. Good(t, {})
    BY <1>6, <1>7, <1>10, <1>11, <1>12 DEF Good, S
  <1>14. QED
    BY <1>11, <1>13

(* What bfd_cache_lookup does to the file c of the BFD b.                  *)
LEMMA Looks ==
    ASSUME NEW s, NEW b \in Bfd, NEW flags, Good(s, {}),
           NEW r \in bfd_cache_lookup(s, b, flags), NEW c, c = Container(b)
    PROVE  /\ Good(r.s, {}) /\ Others(s, r.s, c)
           /\ r.s.where[c] = s.where[c]
           /\ c \notin Writers \/ s.opened_once[c] => r.s.data[c] = s.data[c]
           /\ s.opened_once[c] => r.s.opened_once[c]
           /\ r.ok <=> r.s.stream[c] # Null
           /\ s.stream[c] # Null => r.s.stream[c] = s.stream[c]
           /\ s.stream[c] = Null /\ r.ok =>
                r.s.stream[c] = IF "CACHE_NO_SEEK" \in flags THEN 0 ELSE s.where[c]
           /\ s.stream[c] = Null /\ "CACHE_NO_OPEN" \in flags => r = Failed(s)
  <1>1. c \in File /\ s \in State /\ s.stream \in Places /\ s.where \in Wheres
    BY Containers DEF Good, State
  <1>2. CASE s.stream[c] # Null
    <2>1. r = Ok(s) \/ r = Ok(insert(snip(s, c), c))
      BY <1>2 DEF bfd_cache_lookup
    <2>2. c \in InRing(s, {})
      BY <1>1, <1>2 DEF InRing
    <2>3. /\ Good(r.s, {}) /\ r.s.stream = s.stream /\ r.s.where = s.where
          /\ r.s.opened_once = s.opened_once /\ r.s.data = s.data /\ r.ok
      BY <2>1, <2>2, Fronted DEF Ok
    <2>4. QED
      BY <1>2, <2>3 DEF Others, Same
  <1>3. CASE s.stream[c] = Null /\ "CACHE_NO_OPEN" \in flags
    <2>1. r = Failed(s)
      BY <1>3 DEF bfd_cache_lookup
    <2>2. r.s = s /\ ~r.ok
      BY <2>1 DEF Failed
    <2>3. QED
      BY <1>3, <2>1, <2>2 DEF Others, Same
  <1>4. CASE s.stream[c] = Null /\ "CACHE_NO_OPEN" \notin flags
    <2>1. PICK o \in bfd_open_file(s, c) :
            r = IF ~o.ok THEN o
                ELSE IF "CACHE_NO_SEEK" \in flags THEN Ok(o.s)
                ELSE Ok([o.s EXCEPT !.stream[c] = o.s.where[c]])
      BY <1>4 DEF bfd_cache_lookup
    <2>2. /\ Good(o.s, {}) /\ Others(s, o.s, c) /\ o.s.where[c] = s.where[c]
          /\ IF o.ok
             THEN /\ o.s.stream[c] = 0
                  /\ o.s.opened_once[c] <=> s.opened_once[c] \/ c \in Writers
                  /\ o.s.data[c] = IF c \in Writers /\ ~s.opened_once[c] THEN <<>> ELSE s.data[c]
             ELSE /\ o.s.stream[c] = Null /\ o.s.data[c] = s.data[c]
                  /\ o.s.opened_once[c] = s.opened_once[c]
      BY <1>1, <1>4, OpensFile
    <2>3. CASE ~o.ok
      <3>1. r = o
        BY <2>1, <2>3
      <3>2. QED
        BY <1>4, <2>2, <2>3, <3>1
    <2>4. CASE o.ok /\ "CACHE_NO_SEEK" \in flags
      <3>1. r.s = o.s /\ r.ok
        BY <2>1, <2>4 DEF Ok
      <3>2. QED
        BY <1>4, <2>2, <2>4, <3>1 DEF Null
    <2>5. CASE o.ok /\ "CACHE_NO_SEEK" \notin flags
      <3>1. PICK v \in Nat : v = o.s.where[c]
        BY <1>1, <2>2, Sorts DEF Wheres
      <3> DEFINE t == SetStream(o.s, c, v)
      <3>2. r.s = t /\ r.ok
        BY <2>1, <2>5, <3>1 DEF Ok, SetStream
      <3>3. /\ t \in State /\ t.lru = o.s.lru /\ t.open_files = o.s.open_files
            /\ t.where = o.s.where /\ t.cacheable = o.s.cacheable
            /\ t.opened_once = o.s.opened_once /\ t.data = o.s.data
            /\ t.stream[c] = v /\ \A f \in File : f # c => t.stream[f] = o.s.stream[f]
        <4>1. o.s \in State /\ v \in Nat \cup {Null} /\ t = SetStream(o.s, c, v)
          BY <2>2 DEF Good
        <4> HIDE DEF t
        <4>2. QED
          BY <1>1, <4>1, StreamSet
      <3> HIDE DEF t
      <3>4. \A f \in File : t.stream[f] = Null <=> o.s.stream[f] = Null
        BY <2>2, <2>5, <3>3 DEF Null
      <3>5. Good(t, {})
        BY <2>2, <3>3, <3>4, GoodAlike
      <3>6. Others(s, t, c)
        BY <2>2, <3>3 DEF Others, Same, Evicted
      <3>7. t.stream[c] # Null
        BY <2>2, <2>5, <3>4, <1>1 DEF Null
      <3>8. QED
        BY <1>4, <2>2, <2>5, <3>1, <3>2, <3>3, <3>5, <3>6, <3>7
    <2>6. QED
      BY <2>3, <2>4, <2>5
  <1>5. QED
    BY <1>2, <1>3, <1>4

-----------------------------------------------------------------------------
(* The transfers.  From s to t, nothing but evictions has happened to the  *)
(* files but that of b, and to the members but b; and the file of b was    *)
(* not created again.                                                      *)
Apart(s, t, b) ==
    /\ \A f \in File \ {Container(b)} : /\ Same(s, t, f) \/ Evicted(s, t, f)
                                       /\ t.data[f] = s.data[f]
                                       /\ t.opened_once[f] = s.opened_once[f]
    /\ \A e \in Elt \ {b} : t.where[e] = s.where[e]
    /\ b \in Elt => t.where[Container(b)] = s.where[Container(b)]
Kept(s, t, c) ==
    /\ c \notin Writers \/ s.opened_once[c] => t.data[c] = s.data[c]
    /\ s.opened_once[c] => t.opened_once[c]

(* Where the next transfer of the file c takes place.                      *)
Place(s, c) == IF s.stream[c] # Null THEN s.stream[c] ELSE s.where[c]

(* A position below the modulus is what it is modulo it.                   *)
LEMMA Modular ==
    /\ Modulus \in Nat \ {0}
    /\ \A x \in Int : x % Modulus \in 0..(Modulus - 1)
    /\ \A x \in 0..(Modulus - 1) : x % Modulus = x
  <1>1. Modulus \in Nat \ {0}
    BY LimitAssumption DEF ar_hdr
  <1>2. \A m \in Nat \ {0} : \A x \in Int : x % m \in 0..(m - 1)
    OBVIOUS
  <1>3. \A m \in Nat \ {0} : \A x \in 0..(m - 1) : x % m = x
    OBVIOUS
  <1>4. QED
    BY <1>1, <1>2, <1>3

(* g is what d holds from the offset at on.                                *)
Excerpt(g, d, at) == \A i \in 1..Len(g) : at + i \in 1..Len(d) /\ g[i] = d[at + i]

(* How long up to n items of d from the offset at on are.                  *)
Lengths(g, d, at, n) ==
    /\ at + n <= Len(d) => Len(g) = n
    /\ at + n > Len(d) /\ at <= Len(d) => Len(g) = Len(d) - at
    /\ at > Len(d) => Len(g) = 0

(* Up to n items from the offset at on.                                    *)
LEMMA Sliced ==
    ASSUME NEW T, NEW d \in Seq(T), NEW at \in Nat, NEW n \in Nat,
           NEW g, g = Files!Slice(d, at, n)
    PROVE  /\ g \in Seq(T) /\ Len(g) \in 0..n
           /\ Len(g) # 0 => at + Len(g) <= Len(d)
           /\ Lengths(g, d, at, n)
           /\ Excerpt(g, d, at)
  <1>1. Len(d) \in Nat /\ at + n \in Nat
    OBVIOUS
  <1>2. PICK m : m = IF at + n <= Len(d) THEN at + n ELSE Len(d)
    OBVIOUS
  <1>3. g = SubSeq(d, at + 1, m)
    BY <1>2 DEF Files!Slice
  <1>4. m \in Nat /\ m <= Len(d) /\ \A i \in (at + 1)..m : d[i] \in T
    BY <1>1, <1>2
  <1>5. /\ g \in Seq(T) /\ Len(g) = (IF at + 1 <= m THEN m - (at + 1) + 1 ELSE 0)
        /\ \A i \in 1..(m - (at + 1) + 1) : g[i] = d[(at + 1) + i - 1]
    BY <1>3, <1>4, SubSeqIs
  <1>6. Lengths(g, d, at, n) /\ (Len(g) # 0 => at + Len(g) <= Len(d)) /\ Len(g) \in 0..n
    BY <1>1, <1>2, <1>4, <1>5 DEF Lengths
  <1>7. Excerpt(g, d, at)
    BY <1>1, <1>4, <1>5 DEF Excerpt
  <1>8. QED
    BY <1>1, <1>5, <1>6, <1>7

(* A file that was written holds items.                                    *)
LEMMA PatchedTyped ==
    ASSUME NEW T, NEW d \in Seq(T), NEW at \in Nat, NEW v \in T, 0 \in T,
           NEW p, p = Files!Patched(d, at, v)
    PROVE  p \in Seq(T)
  <1> DEFINE m == IF at < Len(d) THEN Len(d) ELSE at + 1
  <1>1. m \in Nat /\ Len(d) \in Nat
    OBVIOUS
  <1>2. p = [i \in 1..m |-> IF i = at + 1 THEN v ELSE IF i <= Len(d) THEN d[i] ELSE 0]
    BY DEF Files!Patched
  <1> HIDE DEF m
  <1>3. \A i \in 1..m : (IF i = at + 1 THEN v ELSE IF i <= Len(d) THEN d[i] ELSE 0) \in T
    BY <1>1
  <1>4. QED
    BY <1>1, <1>2, <1>3

(* The facts on a state that the lemmas on transfers start from.           *)
LEMMA StateTyped ==
    ASSUME NEW s \in State, NEW b \in Bfd, NEW c, c = Container(b)
    PROVE  /\ c \in File /\ c \in Bfd /\ (b \in File => c = b) /\ (b \in Elt => c # b)
           /\ b \in File \/ b \in Elt
           /\ s.where[b] \in Nat /\ s.where[c] \in Nat
           /\ s.stream[c] \in Nat \cup {Null} /\ Place(s, c) \in Nat
           /\ s.data[c] \in Seq(Item)
  <1>1. c \in File /\ c \in Bfd /\ (b \in File => c = b) /\ (b \in Elt => c # b) /\ (b \in File \/ b \in Elt)
    BY Containers, Sorts DEF Bfd
  <1>2. s.where \in Wheres /\ s.stream \in Places /\ s.data \in Stores
    BY DEF State
  <1>3. /\ s.where[b] \in Nat /\ s.where[c] \in Nat
        /\ s.stream[c] \in Nat \cup {Null} /\ s.data[c] \in Seq(Item)
    BY <1>1, <1>2 DEF Wheres, Places, Stores
  <1>4. QED
    BY <1>1, <1>3 DEF Place

(* bfd_tell takes the position of the stream, if it is open, for that of b.*)
LEMMA Tells ==
    ASSUME NEW s, NEW b \in Bfd, Good(s, {}), Offset(b) \in Nat,
           NEW t \in bfd_tell(s, b), NEW c, c = Container(b)
    PROVE  /\ Good(t, {}) /\ Apart(s, t, b) /\ Kept(s, t, c) /\ t.stream[c] = s.stream[c]
           /\ t.where[b] = IF s.stream[c] # Null THEN (s.stream[c] - Offset(b)) % Modulus
                           ELSE (s.where[b] - Offset(b)) % Modulus
           /\ t.where[b] \in 0..(Modulus - 1)
  <1> DEFINE at == IF s.stream[c] # Null THEN s.stream[c] ELSE s.where[b]
             v == (at - Offset(b)) % Modulus
  <1>1. PICK r \in bfd_cache_lookup(s, b, {"CACHE_NO_OPEN"}) :
          t = [r.s EXCEPT !.where[b] = IF r.ok THEN (r.s.stream[c] - Offset(b)) % Modulus
                                       ELSE (r.s.where[b] - Offset(b)) % Modulus]
    BY DEF bfd_tell
  <1>2. s \in State
    BY DEF Good
  <1>3. /\ c \in File /\ c \in Bfd /\ (b \in File => c = b) /\ (b \in Elt => c # b)
        /\ b \in File \/ b \in Elt
        /\ s.where[b] \in Nat /\ s.stream[c] \in Nat \cup {Null}
    BY <1>2, StateTyped
  <1>4. at \in Nat /\ at - Offset(b) \in Int
    BY <1>3
  <1>5. v \in 0..(Modulus - 1) /\ v \in Nat
    BY <1>4, Modular
  <1>6. /\ Good(r.s, {}) /\ Others(s, r.s, c) /\ r.s.where[c] = s.where[c] /\ Kept(s, r.s, c)
        /\ r.ok <=> r.s.stream[c] # Null
        /\ s.stream[c] # Null => r.s.stream[c] = s.stream[c]
        /\ s.stream[c] = Null => r = Failed(s)
    BY <1>1, Looks DEF Kept
  <1>7. r.s.stream[c] = s.stream[c] /\ r.s.where[b] = s.where[b]
    BY <1>3, <1>6 DEF Failed, Others
  <1>8. (IF r.ok THEN (r.s.stream[c] - Offset(b)) % Modulus
         ELSE (r.s.where[b] - Offset(b)) % Modulus) = v
    BY <1>6, <1>7
  <1>9. t = SetWhere(r.s, b, v)
    BY <1>1, <1>8 DEF SetWhere
  <1>10. v = IF s.stream[c] # Null THEN (s.stream[c] - Offset(b)) % Modulus
             ELSE (s.where[b] - Offset(b)) % Modulus
    OBVIOUS
  <1> HIDE DEF v, at
  <1>11. r.s \in State
    BY <1>6 DEF Good
  <1>12. /\ t \in State /\ t.lru = r.s.lru /\ t.open_files = r.s.open_files
         /\ t.stream = r.s.stream /\ t.cacheable = r.s.cacheable
         /\ t.opened_once = r.s.opened_once /\ t.data = r.s.data
         /\ t.where[b] = v /\ \A x \in Bfd : x # b => t.where[x] = r.s.where[x]
    BY <1>5, <1>9, <1>11, WhereSet
  <1>13. Good(t, {})
    BY <1>6, <1>12, GoodAlike
  <1>14. Apart(s, t, b)
    BY <1>3, <1>6, <1>12, Sorts DEF Apart, Others, Same, Evicted
  <1>15. QED
    BY <1>5, <1>6, <1>7, <1>10, <1>12, <1>13, <1>14 DEF Kept

(* A transfer moves the stream of b and b.                                 *)
Transfer(s, b, n, p) == [s EXCEPT !.stream[Container(b)] = n, !.where[b] = p]

(* A transfer of a BFD leaves the state good, and the other BFDs alone.    *)
LEMMA Transfers ==
    ASSUME NEW s, NEW b \in Bfd, Good(s, {}), s.stream[Container(b)] # Null,
           NEW n, NEW p, {n, p} \subseteq Nat, NEW t, t = Transfer(s, b, n, p)
    PROVE  /\ Good(t, {}) /\ Apart(s, t, b)
           /\ t.stream[Container(b)] = n /\ t.where[b] = p
           /\ t.data = s.data /\ t.opened_once = s.opened_once
  <1>1. PICK c \in File : c = Container(b)
    BY Containers
  <1> DEFINE u == SetStream(s, c, n)
  <1>2. s \in State
    BY DEF Good
  <1>3. t = SetWhere(u, b, p)
    BY <1>1, <1>2 DEF Transfer, SetStream, SetWhere, State
  <1>4. n \in Nat \cup {Null}
    OBVIOUS
  <1>5. /\ u \in State /\ u.lru = s.lru /\ u.open_files = s.open_files
        /\ u.where = s.where /\ u.cacheable = s.cacheable
        /\ u.opened_once = s.opened_once /\ u.data = s.data
        /\ u.stream[c] = n /\ \A f \in File : f # c => u.stream[f] = s.stream[f]
    BY <1>2, <1>4, StreamSet
  <1> HIDE DEF u
  <1>6. /\ t \in State /\ t.lru = u.lru /\ t.open_files = u.open_files
        /\ t.stream = u.stream /\ t.cacheable = u.cacheable
        /\ t.opened_once = u.opened_once /\ t.data = u.data
        /\ t.where[b] = p /\ \A x \in Bfd : x # b => t.where[x] = u.where[x]
    <2>1. u \in State /\ {p} \subseteq Nat
      BY <1>5
    <2>2. QED
      BY <1>3, <2>1, WhereSet
  <1>7. \A f \in File : t.stream[f] = Null <=> s.stream[f] = Null
    BY <1>1, <1>5, <1>6, Sorts
  <1>8. Good(t, {})
    BY <1>5, <1>6, <1>7, GoodAlike
  <1>9. Apart(s, t, b)
    BY <1>1, <1>5, <1>6, Sorts, Containers DEF Apart, Same
  <1>10. QED
    BY <1>1, <1>5, <1>6, <1>8, <1>9

(* bfd_seek moves the stream, unless a BFD outside of archives is there by *)
(* its own account.  If it fails, the stream was closed and is closed.     *)
LEMMA Seeks ==
    ASSUME NEW s, NEW b \in Bfd, Good(s, {}), Offset(b) \in Nat, NEW p \in Nat,
           NEW r \in bfd_seek(s, b, p), NEW c, c = Container(b)
    PROVE  /\ Good(r.s, {}) /\ Apart(s, r.s, b) /\ Kept(s, r.s, c)
           /\ r.ok => r.s.where[b] = p
           /\ r.ok => IF b \in File /\ s.where[b] = p THEN r.s = s ELSE r.s.stream[c] = Offset(b) + p
           /\ ~r.ok => /\ s.stream[c] = Null /\ r.s.stream[c] = Null
                       /\ r.s.where[b] = (s.where[b] - Offset(b)) % Modulus
                       /\ ~(b \in File /\ s.where[b] = p)
  <1>1. s \in State
    BY DEF Good
  <1>2. /\ c \in File /\ c \in Bfd /\ (b \in File => c = b) /\ (b \in Elt => c # b)
        /\ b \in File \/ b \in Elt
        /\ s.where[b] \in Nat /\ s.stream[c] \in Nat \cup {Null}
    BY <1>1, StateTyped
  <1>3. CASE b \in File /\ s.where[b] = p
    <2>1. r.s = s /\ r.ok
      BY <1>3 DEF bfd_seek, Ok
    <2>2. QED
      BY <1>3, <2>1 DEF Apart, Kept, Same
  <1>4. CASE ~(b \in File /\ s.where[b] = p)
    <2>1. PICK q \in bfd_cache_lookup(s, b, {"CACHE_NO_SEEK"}) :
            r \in IF q.ok
                  THEN {Ok([q.s EXCEPT !.stream[c] = Offset(b) + p, !.where[b] = p])}
                  ELSE {Failed(t) : t \in bfd_tell(q.s, b)}
      BY <1>4 DEF bfd_seek
    <2>2. /\ Good(q.s, {}) /\ Others(s, q.s, c) /\ q.s.where[c] = s.where[c] /\ Kept(s, q.s, c)
          /\ q.ok <=> q.s.stream[c] # Null
          /\ s.stream[c] # Null => q.s.stream[c] = s.stream[c]
      BY <2>1, Looks DEF Kept
    <2>3. q.s \in State
      BY <2>2 DEF Good
    <2>4. CASE q.ok
      <3>1. PICK n \in Nat : n = Offset(b) + p
        OBVIOUS
      <3>2. PICK t : t = Transfer(q.s, b, n, p)
        OBVIOUS
      <3>3. r.s = t /\ r.ok
        BY <2>1, <2>4, <3>1, <3>2 DEF Ok, Transfer
      <3>4. /\ Good(t, {}) /\ Apart(q.s, t, b) /\ t.stream[c] = n /\ t.where[b] = p
            /\ t.data = q.s.data /\ t.opened_once = q.s.opened_once
        BY <2>2, <2>4, <3>2, Transfers
      <3>5. Apart(s, t, b) /\ Kept(s, t, c)
        BY <1>2, <2>2, <3>4, Sorts DEF Apart, Others, Same, Evicted, Kept
      <3>6. QED
        BY <1>4, <3>1, <3>3, <3>4, <3>5
    <2>5. CASE ~q.ok
      <3>1. PICK t \in bfd_tell(q.s, b) : r = Failed(t)
        BY <2>1, <2>5
      <3>2. r.s = t /\ ~r.ok
        BY <3>1 DEF Failed
      <3>3. q.s.stream[c] = Null /\ s.stream[c] = Null /\ q.s.where[b] = s.where[b]
        BY <1>2, <2>2, <2>5 DEF Others
      <3>4. /\ Good(t, {}) /\ Apart(q.s, t, b) /\ Kept(q.s, t, c) /\ t.stream[c] = q.s.stream[c]
            /\ t.where[b] = IF q.s.stream[c] # Null THEN (q.s.stream[c] - Offset(b)) % Modulus
                            ELSE (q.s.where[b] - Offset(b)) % Modulus
        BY <2>2, <3>1, Tells
      <3>5. Apart(s, t, b)
        BY <1>2, <2>2, <3>4, Sorts DEF Apart, Others, Same, Evicted
      <3>6. Kept(s, t, c)
        BY <2>2, <3>4 DEF Kept
      <3>7. QED
        BY <1>4, <3>2, <3>3, <3>4, <3>5, <3>6
    <2>6. QED
      BY <2>4, <2>5
  <1>5. QED
    BY <1>3, <1>4

(* bfd_bread reads on from where the stream is, or was when it was closed. *)
LEMMA Reads ==
    ASSUME NEW s, NEW b \in Bfd, Good(s, {}), b \in Elt => elts[b].parsed_size \in Nat,
           NEW n \in Nat, NEW r \in bfd_bread(s, b, n), NEW c, c = Container(b), c \notin Writers
    PROVE  /\ Good(r.s, {}) /\ Apart(s, r.s, b) /\ r.s.data[c] = s.data[c]
           /\ r.ok => /\ r.got = Files!Slice(s.data[c], Place(s, c), limited(b, s.where[b], n))
                      /\ r.got \in Seq(Item) /\ Len(r.got) \in 0..n
                      /\ r.s.stream[c] = Place(s, c) + Len(r.got)
                      /\ r.s.where[b] = s.where[b] + Len(r.got)
           /\ ~r.ok => /\ r.got = <<>> /\ r.s.where[b] = s.where[b]
                       /\ r.s.stream[c] = s.stream[c]
           /\ b \in File /\ n # 0 /\ s.stream[c] # Null => r.ok
  <1> DEFINE size == limited(b, s.where[b], n)
  <1>1. s \in State
    BY DEF Good
  <1>2. /\ c \in File /\ c \in Bfd /\ (b \in File => c = b) /\ (b \in Elt => c # b)
        /\ b \in File \/ b \in Elt
        /\ s.where[b] \in Nat /\ s.stream[c] \in Nat \cup {Null} /\ Place(s, c) \in Nat
        /\ s.data[c] \in Seq(Item)
    BY <1>1, StateTyped
  <1>3. size \in Nat /\ size \in 0..n
    BY <1>2 DEF limited
  <1>4. b \in File => size = n
    BY Sorts DEF limited
  <1>5. CASE size = 0
    <2>1. r = [s |-> s, ok |-> FALSE, got |-> <<>>]
      BY <1>5 DEF bfd_bread
    <2>2. r.s = s /\ ~r.ok /\ r.got = <<>>
      BY <2>1
    <2>3. QED
      BY <1>4, <1>5, <2>2 DEF Apart, Same
  <1>6. CASE size # 0
    <2>1. PICK q \in bfd_cache_lookup(s, b, {}) :
            r = IF q.ok
                THEN [s |-> [q.s EXCEPT
                              !.stream[c] = @ + Len(Files!Slice(q.s.data[c], q.s.stream[c], size)),
                              !.where[b] = @ + Len(Files!Slice(q.s.data[c], q.s.stream[c], size))],
                      ok |-> TRUE, got |-> Files!Slice(q.s.data[c], q.s.stream[c], size)]
                ELSE [s |-> q.s, ok |-> FALSE, got |-> <<>>]
      BY <1>6 DEF bfd_bread
    <2>2. /\ Good(q.s, {}) /\ Others(s, q.s, c) /\ q.s.where[c] = s.where[c]
          /\ q.s.data[c] = s.data[c]
          /\ q.ok <=> q.s.stream[c] # Null
          /\ s.stream[c] # Null => q.s.stream[c] = s.stream[c]
          /\ s.stream[c] = Null /\ q.ok => q.s.stream[c] = s.where[c]
      BY <2>1, Looks
    <2>3. q.s.where[b] = s.where[b] /\ (q.ok => q.s.stream[c] = Place(s, c))
      BY <1>2, <2>2 DEF Others, Place
    <2>4. Apart(s, q.s, b)
      BY <1>2, <2>2 DEF Apart, Others
    <2>5. CASE ~q.ok
      <3>1. r.s = q.s /\ ~r.ok /\ r.got = <<>>
        BY <2>1, <2>5
      <3>2. QED
        BY <2>2, <2>3, <2>4, <2>5, <3>1
    <2>6. CASE q.ok
      <3> DEFINE at == Place(s, c)
      <3>1. PICK g : g = Files!Slice(s.data[c], at, size)
        OBVIOUS
      <3>2. g \in Seq(Item) /\ Len(g) \in 0..size
        BY <1>2, <1>3, <3>1, Sliced
      <3> HIDE DEF size, at
      <3>3. PICK m, p : m = at + Len(g) /\ p = s.where[b] + Len(g)
        OBVIOUS
      <3>4. {m, p} \subseteq Nat /\ Len(g) \in 0..n
        BY <1>2, <1>3, <3>2, <3>3 DEF at
      <3>5. PICK t : t = Transfer(q.s, b, m, p)
        OBVIOUS
      <3>6. g = Files!Slice(q.s.data[c], q.s.stream[c], size) /\ q.s.stream[c] = at
        BY <2>2, <2>3, <2>6, <3>1 DEF at
      <3>7. r.got = g /\ r.ok /\ r.s = [q.s EXCEPT !.stream[c] = @ + Len(g), !.where[b] = @ + Len(g)]
        BY <2>1, <2>6, <3>6
      <3>8. r.s = t
        BY <2>3, <3>3, <3>5, <3>6, <3>7 DEF Transfer
      <3>9. /\ Good(t, {}) /\ Apart(q.s, t, b) /\ t.stream[c] = m /\ t.where[b] = p
            /\ t.data = q.s.data
        BY <2>2, <2>6, <3>4, <3>5, Transfers
      <3>10. Apart(s, t, b)
        BY <2>4, <3>9 DEF Apart, Same, Evicted
      <3>11. QED
        BY <2>2, <3>1, <3>2, <3>3, <3>4, <3>7, <3>8, <3>9, <3>10 DEF at, size
    <2>7. QED
      BY <2>5, <2>6
  <1>7. QED
    BY <1>5, <1>6

(* What a successful bfd_bread has read.                                   *)
LEMMA ReadGot ==
    ASSUME NEW s, NEW b \in Bfd, Good(s, {}), b \in Elt => elts[b].parsed_size \in Nat,
           NEW n \in Nat, NEW r \in bfd_bread(s, b, n), NEW c, c = Container(b), c \notin Writers,
           r.ok
    PROVE  r.got = Files!Slice(s.data[c], Place(s, c), limited(b, s.where[b], n))
  BY Reads

(* bfd_bwrite writes where the stream is, or was when it was closed.       *)
LEMMA Writes ==
    ASSUME NEW s, NEW b \in File, Good(s, {}), s.opened_once[b], NEW v \in Byte,
           NEW r \in bfd_bwrite(s, b, v)
    PROVE  /\ Good(r.s, {}) /\ Apart(s, r.s, b) /\ r.s.opened_once[b]
           /\ r.ok => /\ r.s.data[b] = Files!Patched(s.data[b], Place(s, b), v)
                      /\ r.s.stream[b] = Place(s, b) + 1 /\ r.s.where[b] = s.where[b] + 1
           /\ ~r.ok => /\ r.s.data[b] = s.data[b] /\ r.s.where[b] = s.where[b]
                       /\ r.s.stream[b] = s.stream[b]
  <1>1. s \in State /\ b \in Bfd /\ Container(b) = b
    BY Sorts, Containers DEF Good
  <1>2. /\ s.where[b] \in Nat /\ s.stream[b] \in Nat \cup {Null} /\ Place(s, b) \in Nat
        /\ s.data[b] \in Seq(Item)
    BY <1>1, StateTyped
  <1>3. PICK q \in bfd_cache_lookup(s, b, {}) :
          r = IF q.ok
              THEN Ok([q.s EXCEPT !.stream[b] = @ + 1, !.where[b] = @ + 1,
                                  !.data[b] = Files!Patched(@, q.s.stream[b], v)])
              ELSE q
    BY DEF bfd_bwrite
  <1>4. /\ Good(q.s, {}) /\ Others(s, q.s, b) /\ q.s.where[b] = s.where[b]
        /\ q.s.data[b] = s.data[b] /\ q.s.opened_once[b]
        /\ q.ok <=> q.s.stream[b] # Null
        /\ s.stream[b] # Null => q.s.stream[b] = s.stream[b]
        /\ s.stream[b] = Null /\ q.ok => q.s.stream[b] = s.where[b]
    BY <1>1, <1>3, Looks
  <1>5. Apart(s, q.s, b) /\ (q.ok => q.s.stream[b] = Place(s, b))
    BY <1>1, <1>4, Sorts DEF Apart, Others, Place
  <1>6. CASE ~q.ok
    BY <1>3, <1>4, <1>5, <1>6
  <1>7. CASE q.ok
    <2>1. PICK m, p, d : /\ m = Place(s, b) + 1 /\ p = s.where[b] + 1
                         /\ d = Files!Patched(s.data[b], Place(s, b), v)
      OBVIOUS
    <2>2. {m, p} \subseteq Nat
      BY <1>2, <2>1
    <2>3. v \in Item /\ 0 \in Item
      BY DEF Item
    <2>4. d \in Seq(Item)
      BY <1>2, <2>1, <2>3, PatchedTyped
    <2>5. PICK u : u = Transfer(q.s, b, m, p)
      OBVIOUS
    <2>6. /\ Good(u, {}) /\ Apart(q.s, u, b) /\ u.stream[b] = m /\ u.where[b] = p
          /\ u.data = q.s.data /\ u.opened_once = q.s.opened_once
      BY <1>1, <1>4, <1>7, <2>2, <2>5, Transfers
    <2>7. PICK t : t = [u EXCEPT !.data[b] = d]
      OBVIOUS
    <2>8. r.s = [q.s EXCEPT !.stream[b] = m, !.where[b] = p, !.data[b] = d] /\ r.ok
      BY <1>3, <1>4, <1>5, <1>7, <2>1 DEF Ok
    <2>9. q.s \in State /\ u \in State /\ u.data \in Stores
      BY <1>4, <2>6 DEF Good, State
    <2>10. r.s = t
      BY <1>1, <2>5, <2>7, <2>8, <2>9 DEF Transfer, State
    <2>11. [u.data EXCEPT ![b] = d] \in Stores
      BY <2>4, <2>9 DEF Stores
    <2>12. /\ t \in State /\ t.lru = u.lru /\ t.open_files = u.open_files
           /\ t.stream = u.stream /\ t.where = u.where /\ t.cacheable = u.cacheable
           /\ t.opened_once = u.opened_once /\ t.data = [u.data EXCEPT ![b] = d]
      BY <2>7, <2>9, <2>11 DEF State
    <2>13. t.data[b] = d /\ \A f \in File \ {b} : t.data[f] = u.data[f]
      BY <2>9, <2>12 DEF Stores
    <2>14. Good(t, {})
      BY <2>6, <2>12, GoodAlike
    <2>15. Apart(s, t, b)
      BY <1>1, <1>5, <2>6, <2>12, <2>13 DEF Apart, Same, Evicted
    <2>16. QED
      BY <1>4, <2>1, <2>6, <2>8, <2>10, <2>12, <2>13, <2>14, <2>15
  <1>8. QED
    BY <1>6, <1>7
=============================================================================
