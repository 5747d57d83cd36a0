--------------------------- MODULE LinkSearchProofs ---------------------------
(***************************************************************************)
(* The search of archives and groups, for every number of symbols, members *)
(* and archives: the list of undefined symbols is sound, and no archive is *)
(* left with a member that defines an undefined symbol.                    *)
(*                                                                         *)
(* elf_link_add_archive_symbols and open_input_bfds only look at the last  *)
(* entry of the list to find out whether there is anything new on it.  The *)
(* argument is that a symbol goes on the list only when it is on neither   *)
(* the list nor 0 (NULL), so that a tail once passed does not return.      *)
(***************************************************************************)
EXTENDS LinkProofs, Extremes

(* The provers, in the order in which a leaf is given to them.             *)
USE ZenonT(5), SMTT(30), ZenonT(30)

(* What is linked, on the list or to itself, has been more than a name and *)
(* a weak reference; the list ends with a symbol on it, and the tail that  *)
(* the group remembers was on it or there was none.                        *)
listInv ==
    /\ undefs \subseteq Symbol
    /\ IF undefs = {} THEN undefs_tail = 0 ELSE undefs_tail \in undefs
    /\ tail \in undefs \cup {0}
    /\ \A s \in Symbol : s \in undefs \cup referenced => hash[s].type \notin {"new", "undefweak"}
    /\ \A s \in Symbol : hash[s].type = "undefined" => s \in undefs

(* What add_undef takes was new or a weak reference.                       *)
LEMMA AddedFresh ==
    ASSUME linkTypeOK, NEW o \in Object, NEW s \in Symbol
    PROVE  /\ Action(o, s) \in {"UND", "WEAK", "DEF", "CDEF", "DEFW", "COM", "REF", "CREF",
                                "NOACT", "BIG", "MDEF"}
           /\ add_undef(o, s) => hash[s].type \in {"new", "undefweak"}
           /\ Action(o, s) = "REF" => hash[s].type \in {"defined", "defweak"}
  <1>1. hash[s].type \in Types /\ symbols[o][s].row \in Rows \cup {"COMMON_ROW", "NONE"}
    BY DEF linkTypeOK, Entries, None
  <1>2. QED
    BY <1>1 DEF add_undef, Action, link_action, Line, Types, Rows

(* A symbol that is defined, weakly or not, or common stays so.            *)
Settled(s) == hash[s].type \in {"defined", "defweak", "common"}

(* What is defined, weakly defined or common stays so.                    *)
LEMMA SettledStays ==
    ASSUME linkTypeOK, NEW o \in Object, Enters(o), NEW s \in Symbol
    PROVE  /\ Settled(s) => Settled(s)'
           /\ hash[s].type \notin {"new", "undefweak"} => hash[s]'.type \notin {"new", "undefweak"}
           /\ hash[s]'.type = "undefined" => hash[s].type = "undefined" \/ add_undef(o, s)
           /\ add_undef(o, s) => hash[s]'.type \in {"undefined", "common"}
  <1>1. symbols[o][s].row \in Rows \cup {"COMMON_ROW", "NONE"} /\ hash[s].type \in Types
    BY DEF linkTypeOK, Entries, None
  <1>2. add_undef(o, s) <=> \/ symbols[o][s].row = "UNDEF_ROW" /\ hash[s].type \in {"new", "undefweak"}
                            \/ symbols[o][s].row = "COMMON_ROW" /\ hash[s].type = "new"
    BY <1>1 DEF add_undef, Action, link_action, Line, Types, Rows
  <1>3. QED
    BY <1>1, <1>2, EntryChanges DEF Settled, Types, Rows

(* The list and its tail when an object is entered.                        *)
LEMMA TailMoves ==
    ASSUME linkTypeOK, listInv, NEW o \in Object, AddObject(o)
    PROVE  \/ Added(o) = {} /\ undefs' = undefs /\ undefs_tail' = undefs_tail
           \/ /\ Added(o) # {} /\ undefs' = undefs \cup Added(o)
              /\ undefs_tail' \in Added(o) /\ undefs_tail' \notin undefs \cup {0}
  <1>1. Added(o) \subseteq Symbol /\ Added(o) \cap undefs = {}
    BY AddedFresh DEF Added, listInv
  <1>2. Symbol \subseteq 0..Sym /\ Sym \in Nat /\ 0 \notin Symbol
    BY LinkAssumption DEF Symbol
  <1>3. Added(o) # {} => Max(Added(o)) \in Added(o)
    BY <1>1, <1>2, MaxIn
  <1>4. QED
    BY <1>1, <1>2, <1>3 DEF AddObject

(* Entering an object keeps the list sound.                                *)
LEMMA ListStays ==
    ASSUME linkTypeOK, listInv, NEW o \in Object, AddObject(o), Enters(o), tail' \in {tail, undefs_tail'}
    PROVE  listInv'
  <1>1. undefs' = undefs \cup Added(o) /\ referenced' = referenced \cup {s \in Symbol \ undefs : Action(o, s) = "REF"}
    BY DEF AddObject
  <1>2. undefs' \subseteq Symbol
    BY <1>1 DEF listInv, Added
  <1>3. (IF undefs' = {} THEN undefs_tail' = 0 ELSE undefs_tail' \in undefs')
    BY <1>1, TailMoves DEF listInv
  <1>4. tail' \in undefs' \cup {0}
    BY <1>1, <1>3 DEF listInv
  <1>5. ASSUME NEW s \in Symbol
        PROVE  /\ s \in undefs' \cup referenced' => hash[s]'.type \notin {"new", "undefweak"}
               /\ hash[s]'.type = "undefined" => s \in undefs'
    BY <1>1, SettledStays, AddedFresh DEF listInv, Added
  <1>6. QED
    BY <1>2, <1>3, <1>4, <1>5 DEF listInv, Symbol

-----------------------------------------------------------------------------
(* A place of the map of a whose symbol the member would define.           *)
Missing(a, p) == Defines(Input[a][p[1]], p[2]) /\ hash[p[2]].type = "undefined"
Clean(a)      == \A p \in Places(a) : ~Missing(a, p)
Before(p, q)  == p[1] < q[1] \/ (p[1] = q[1] /\ p[2] < q[2])

(* What the search of the archive a knows: the symbols of the places that  *)
(* are included are settled, the member that last names has been entered,  *)
(* and behind the current place something is missing only if there is to   *)
(* be another pass.                                                        *)
archiveInv(a) ==
    /\ \A p \in included \cap Places(a) : Defines(Input[a][p[1]], p[2]) => Settled(p[2])
    /\ last \in DOMAIN Input[a] => \E k \in DOMAIN loaded : loaded[k] = Input[a][last]
    /\ \A p \in Places(a) : Before(p, i) /\ ~loop => ~Missing(a, p)

(* The archives of the group that this pass has searched are clean unless  *)
(* the list has grown.                                                     *)
groupInv ==
    \A a \in Group :
      IsArchive[a] /\ a < input /\ input <= Max(Group) /\ tail = undefs_tail => Clean(a)

searchInv ==
    /\ input \in Nat \ {0}
    /\ i \in (Nat \ {0}) \X (Nat \ {0}) /\ (Sym # 0 => i[2] <= Sym)
    /\ input \in DOMAIN Input /\ IsArchive[input] => archiveInv(input)
    /\ groupInv

(* What a loaded member defines is settled.                                *)
LEMMA LoadedSettled ==
    ASSUME linkTypeOK, ResolvedRightly, NEW s \in Symbol, NEW k \in DOMAIN loaded, Defines(loaded[k], s)
    PROVE  Settled(s)
  <1>1. \A row : symbols[loaded[k]][s].row = row => Saying(row, s) # {}
    BY DEF Saying
  <1>2. QED
    BY <1>1 DEF Defines, Settled, ResolvedRightly, TypeOf

(* What an object defines is settled once it is entered.                  *)
LEMMA EnteredSettled ==
    ASSUME linkTypeOK, NEW o \in Object, Enters(o), NEW s \in Symbol, Defines(o, s)
    PROVE  Settled(s)'
  <1>1. hash[s].type \in Types
    BY DEF linkTypeOK
  <1>2. QED
    BY <1>1, EntryChanges DEF Defines, Settled, Types

(* An object that leaves the tail of the list where it is makes no symbol  *)
(* undefined.                                                              *)
LEMMA MissingStays ==
    ASSUME linkTypeOK, listInv, NEW o \in Object, AddObject(o), Enters(o), undefs_tail' = undefs_tail,
           NEW a, NEW p, p[2] \in Symbol, ~Missing(a, p)
    PROVE  ~Missing(a, p)'
  <1>1. Added(o) = {}
    BY TailMoves DEF listInv
  <1>2. hash[p[2]]'.type = "undefined" => hash[p[2]].type = "undefined"
    BY <1>1, SettledStays DEF Added
  <1>3. QED
    BY <1>2 DEF Missing, Defines, Enters

(* The places behind the next place.                                       *)
LEMMA AfterBefore ==
    ASSUME NEW a, NEW q \in Places(a), NEW p \in Places(a), DOMAIN Input[a] \subseteq Nat,
           Before(p, After(q))
    PROVE  Before(p, q) \/ p = q
  <1>1. p[1] \in Nat /\ q[1] \in Nat /\ p[2] \in 1..Sym /\ q[2] \in 1..Sym /\ Sym \in Nat
    BY LinkAssumption DEF Places, Symbol
  <1>2. p = <<p[1], p[2]>> /\ q = <<q[1], q[2]>>
    BY DEF Places
  <1>3. QED
    BY <1>1, <1>2 DEF Before, After

(* A search that has come to its end leaves the archive clean.             *)
LEMMA EndClean ==
    ASSUME searchInv, input \in DOMAIN Input, IsArchive[input], i \notin Places(input), ~loop
    PROVE  Clean(input)
  <1> SUFFICES ASSUME NEW p \in Places(input) PROVE ~Missing(input, p)
    BY DEF Clean
  <1>1. Input[input] \in Seq(Object) /\ Sym \in Nat
    BY LinkAssumption
  <1>2. DOMAIN Input[input] = 1..Len(Input[input]) /\ Len(Input[input]) \in Nat
    BY <1>1
  <1>3. p[1] \in 1..Len(Input[input]) /\ p[2] \in 1..Sym
    BY <1>2 DEF Places, Symbol
  <1>4. i[1] \in Nat \ {0} /\ i[2] \in 1..Sym /\ i = <<i[1], i[2]>>
    BY <1>1, <1>3 DEF searchInv
  <1>5. i[1] > Len(Input[input])
    BY <1>2, <1>4 DEF Places, Symbol
  <1>6. Before(p, i)
    BY <1>2, <1>3, <1>4, <1>5 DEF Before
  <1>7. QED
    BY <1>6 DEF searchInv, archiveInv

-----------------------------------------------------------------------------
(* The group's invariant while the input stays the same.                   *)
LEMMA GroupStays ==
    ASSUME linkTypeOK, listInv, groupInv, input' = input, tail' = tail, symbols' = symbols,
           UNCHANGED tableVars \/ \E o \in Object : AddObject(o) /\ Enters(o)
    PROVE  groupInv'
  <1> SUFFICES ASSUME NEW a \in Group, IsArchive[a], a < input, input <= Max(Group), tail = undefs_tail',
                      NEW p \in Places(a)
               PROVE  ~Missing(a, p)'
    BY DEF groupInv, Clean, Places, Symbol
  <1>1. p[2] \in Symbol
    BY DEF Places
  <1>2. CASE UNCHANGED tableVars
    BY <1>2 DEF tableVars, groupInv, Clean, Missing, Defines
  <1>3. ASSUME NEW o \in Object, AddObject(o), Enters(o)
        PROVE  ~Missing(a, p)'
    <2>1. undefs_tail' = undefs_tail
      BY <1>3, TailMoves DEF listInv
    <2>2. ~Missing(a, p)
      BY <2>1 DEF groupInv, Clean
    <2>3. QED
      BY <1>1, <1>3, <2>1, <2>2, MissingStays
  <1>4. QED
    BY <1>2, <1>3

(* Look enters the member of an entry.                                     *)
LEMMA LoadStays ==
    ASSUME linkTypeOK, listInv, NEW a \in DOMAIN Input, archiveInv(a), NEW q \in Places(a), i = q,
           NEW o \in Object, o = Input[a][q[1]], AddObject(o), Enters(o), Defines(o, q[2]),
           loop' = (loop \/ Again(undefs_tail)),
           included' = included \cup {<<q[1], t>> : t \in 1..q[2]},
           last' = q[1], i' = After(q)
    PROVE  archiveInv(a)'
  <1>1. Input[a] \in Seq(Object) /\ DOMAIN Input[a] = 1..Len(Input[a]) /\ DOMAIN Input[a] \subseteq Nat
    BY LinkAssumption
  <1>2. \A x, s : Defines(x, s)' <=> Defines(x, s)
    BY DEF Enters, Defines
  <1>3. ASSUME NEW p \in included' \cap Places(a), Defines(Input[a][p[1]], p[2])
        PROVE  Settled(p[2])'
    <2>1. p[2] \in Symbol
      BY DEF Places
    <2>2. CASE p \in included
      BY <1>3, <2>1, <2>2, SettledStays DEF archiveInv
    <2>3. CASE p[1] = q[1]
      BY <1>3, <2>1, <2>3, EnteredSettled
    <2>4. QED
      BY <2>2, <2>3
  <1>4. \E k \in DOMAIN loaded' : loaded'[k] = Input[a][last']
    <2>1. loaded \in Seq(Object) /\ loaded' = Append(loaded, o)
      BY DEF linkTypeOK, Enters
    <2>2. PICK k : k = Len(loaded) + 1
      OBVIOUS
    <2>3. k \in DOMAIN Append(loaded, o) /\ Append(loaded, o)[k] = o
      BY <2>1, <2>2
    <2>4. QED
      BY <2>1, <2>3
  <1>5. ASSUME NEW p \in Places(a), Before(p, i'), ~loop'
        PROVE  ~Missing(a, p)'
    <2>1. p[2] \in Symbol
      BY DEF Places
    <2>2. undefs_tail' = undefs_tail /\ ~loop
      BY <1>5 DEF Again
    <2>3. CASE Before(p, q)
      <3>1. ~Missing(a, p)
        BY <2>2, <2>3 DEF archiveInv
      <3>2. QED
        BY <2>1, <2>2, <3>1, MissingStays
    <2>4. CASE p = q
      BY <2>1, <2>4, EnteredSettled DEF Missing, Settled
    <2>5. QED
      BY <1>1, <1>5, <2>3, <2>4, AfterBefore
  <1>6. QED
    BY <1>2, <1>3, <1>4, <1>5 DEF archiveInv, Places, Symbol, Before

(* Look passes an entry over.                                              *)
LEMMA SkipStays ==
    ASSUME linkTypeOK, ResolvedRightly, NEW a \in DOMAIN Input, archiveInv(a), NEW q \in Places(a), i = q,
           NEW o, o = Input[a][q[1]],
           ~(~(~Defines(o, q[2]) \/ q \in included) /\ q[1] # last /\ Wanted(o, q[2])),
           included' = IF ~(~Defines(o, q[2]) \/ q \in included)
                          /\ (q[1] = last \/ hash[q[2]].type \in {"defined", "defweak"})
                       THEN included \cup {q} ELSE included,
           UNCHANGED <<symbols, tableVars, loop, last>>, i' = After(q)
    PROVE  archiveInv(a)'
  <1>1. Input[a] \in Seq(Object) /\ DOMAIN Input[a] = 1..Len(Input[a]) /\ DOMAIN Input[a] \subseteq Nat
    BY LinkAssumption
  <1>2. /\ symbols' = symbols /\ hash' = hash /\ loaded' = loaded /\ loop' = loop /\ last' = last
        /\ q[1] \in DOMAIN Input[a] /\ q[2] \in Symbol
    BY DEF tableVars, Places
  <1>3. q[1] = last /\ Defines(o, q[2]) => Settled(q[2])
    BY <1>2, LoadedSettled DEF archiveInv
  <1>4. ~Missing(a, q)
    BY <1>2, <1>3 DEF archiveInv, Missing, Wanted, Settled
  <1>5. \A p \in included' \cap Places(a) : Defines(Input[a][p[1]], p[2]) => Settled(p[2])
    BY <1>3 DEF archiveInv, Settled
  <1>6. \A p \in Places(a) : Before(p, i') /\ ~loop => ~Missing(a, p)
    BY <1>1, <1>4, AfterBefore DEF archiveInv
  <1>7. /\ \A p : Missing(a, p)' <=> Missing(a, p)
        /\ \A x, s : Defines(x, s)' <=> Defines(x, s)
        /\ \A s : Settled(s)' <=> Settled(s)
    BY <1>2 DEF Missing, Defines, Settled
  <1>8. (last \in DOMAIN Input[a] => \E k \in DOMAIN loaded : loaded[k] = Input[a][last])'
    BY <1>2 DEF archiveInv
  <1>9. QED
    BY <1>2, <1>5, <1>6, <1>7, <1>8 DEF archiveInv, Places, Symbol, Before

(* Another pass begins with what is included.                              *)
LEMMA PassStays ==
    ASSUME i' = <<1, 1>>, included' = included, last' = 0, symbols' = symbols, hash' = hash,
           NEW a \in DOMAIN Input, archiveInv(a)
    PROVE  archiveInv(a)'
  <1>1. Input[a] \in Seq(Object) /\ DOMAIN Input[a] = 1..Len(Input[a]) /\ 0 \notin DOMAIN Input[a]
    BY LinkAssumption
  <1>2. \A p \in Places(a) : ~Before(p, i')
    BY <1>1 DEF Places, Before, Symbol
  <1>3. ASSUME NEW p \in included' \cap Places(a), Defines(Input[a][p[1]], p[2])'
        PROVE  Settled(p[2])'
    BY <1>3 DEF archiveInv, Defines, Settled
  <1>4. QED
    BY <1>1, <1>2, <1>3 DEF archiveInv, Places, Symbol, Before

(* The input after this one.  An object or a searched archive has been     *)
(* done with, and what is in the group before it is clean or the list has  *)
(* grown.                                                                  *)
LEMMA NextGroup ==
    ASSUME linkTypeOK, listInv, searchInv, input \in DOMAIN Input, NextInput,
           UNCHANGED tableVars \/ \E o \in Object : AddObject(o) /\ Enters(o),
           IsArchive[input] => UNCHANGED tableVars /\ Clean(input)
    PROVE  /\ input' \in Nat \ {0}
           /\ groupInv'
           /\ input' > input => \A a \in DOMAIN Input :
                IsArchive[a] /\ (a = input \/ (a \in Group /\ input = Max(Group))) =>
                  \A p \in Places(a) : ~Missing(a, p)'
  <1>1. Group \subseteq DOMAIN Input /\ DOMAIN Input = 1..Len(Input) /\ Len(Input) \in Nat
    BY LinkAssumption
  <1>2. Group # {} => /\ Min(Group) \in Group /\ \A x \in Group : Min(Group) <= x
                      /\ Max(Group) \in Group /\ \A x \in Group : Max(Group) >= x
    <2>1. Group \subseteq Nat /\ Group \subseteq 0..Len(Input)
      BY <1>1
    <2>2. QED
      BY <1>1, <2>1, MinIn, MaxIn
  <1>3. /\ input' = IF GroupAgain THEN Min(Group) ELSE input + 1
        /\ tail' = IF Group # {} /\ input' = Min(Group) THEN undefs_tail' ELSE tail
        /\ symbols' = symbols
    BY DEF NextInput
  <1>4. input' \in Nat \ {0}
    BY <1>1, <1>2, <1>3 DEF GroupAgain
  <1>5. ASSUME NEW a \in DOMAIN Input, IsArchive[a], NEW p \in Places(a),
               a = input \/ (a \in Group /\ a < input /\ input <= Max(Group) /\ tail = undefs_tail')
        PROVE  ~Missing(a, p)'
    <2>1. p[2] \in Symbol
      BY DEF Places
    <2>2. CASE UNCHANGED tableVars
      <3>1. ~Missing(a, p)
        BY <1>5, <2>2 DEF tableVars, searchInv, groupInv, Clean
      <3>2. QED
        BY <1>3, <2>2, <3>1 DEF tableVars, Missing, Defines
    <2>3. ASSUME NEW o \in Object, AddObject(o), Enters(o), ~IsArchive[input]
          PROVE  ~Missing(a, p)'
      <3>1. tail = undefs_tail' /\ a \in Group /\ a < input /\ input <= Max(Group)
        BY <1>5, <2>3
      <3>2. undefs_tail' = undefs_tail
        BY <2>3, <3>1, TailMoves DEF listInv
      <3>3. ~Missing(a, p)
        BY <1>5, <3>1, <3>2 DEF searchInv, groupInv, Clean
      <3>4. QED
        BY <2>1, <2>3, <3>2, <3>3, MissingStays
    <2>4. QED
      BY <2>2, <2>3
  <1>6. groupInv'
    <2> SUFFICES ASSUME NEW a \in Group, IsArchive[a], a < input', input' <= Max(Group),
                        tail' = undefs_tail', NEW p \in Places(a)
                 PROVE  ~Missing(a, p)'
      BY DEF groupInv, Clean, Places, Symbol
    <2>1. input' # Min(Group)
      BY <1>1, <1>2
    <2>2. input' = input + 1 /\ tail' = tail
      BY <1>3, <2>1
    <2>3. a = input \/ (a < input /\ input <= Max(Group))
      BY <1>1, <1>2, <2>2
    <2>4. QED
      BY <1>1, <1>5, <2>2, <2>3
  <1>7. ASSUME input' > input, NEW a \in DOMAIN Input, IsArchive[a], NEW p \in Places(a),
               a = input \/ (a \in Group /\ input = Max(Group))
        PROVE  ~Missing(a, p)'
    <2>1. CASE a = input
      BY <1>5, <1>7, <2>1
    <2>2. CASE a \in Group /\ input = Max(Group) /\ a # input
      <3>1. ~GroupAgain
        BY <1>1, <1>2, <1>3, <1>7, <2>2
      <3>2. tail = undefs_tail'
        BY <2>2, <3>1 DEF GroupAgain
      <3>3. a < input /\ input <= Max(Group)
        BY <1>1, <1>2, <2>2
      <3>4. QED
        BY <1>5, <1>7, <2>2, <3>2, <3>3
    <2>3. QED
      BY <1>7, <2>1, <2>2
  <1>8. QED
    BY <1>4, <1>6, <1>7

-----------------------------------------------------------------------------
fullInv == linkInv /\ listInv /\ searchInv

(* The list when nothing is entered.                                       *)
LEMMA ListUnchanged ==
    ASSUME listInv, UNCHANGED tableVars, tail' \in {tail, undefs_tail}
    PROVE  listInv'
  <1>1. hash' = hash /\ undefs' = undefs /\ undefs_tail' = undefs_tail /\ referenced' = referenced
    BY DEF tableVars
  <1>2. tail' \in undefs' \cup {0}
    BY <1>1 DEF listInv
  <1>3. QED
    BY <1>1, <1>2 DEF listInv, Symbol

(* Every step keeps the list sound.                                        *)
LEMMA ListStep ==
    ASSUME fullInv, [Next]_vars
    PROVE  listInv'
  <1>1. tail' \in {tail, undefs_tail'}
    BY DEF Next, Look, Pass, AddInput, EndArchive, NextInput, vars
  <1>2. CASE UNCHANGED tableVars
    BY <1>1, <1>2, ListUnchanged DEF fullInv, tableVars
  <1>3. QED
    BY <1>1, <1>2, TableSteps, ListStays DEF fullInv, linkInv

(* Every step keeps the knowledge of the search, and an archive is left    *)
(* only when it is clean.                                                  *)
LEMMA SearchStep ==
    ASSUME fullInv, [Next]_vars
    PROVE  /\ searchInv'
           /\ input' > input => \A a \in DOMAIN Input :
                IsArchive[a] /\ (a = input \/ (a \in Group /\ input = Max(Group))) =>
                  \A p \in Places(a) : ~Missing(a, p)'
  <1> USE DEF fullInv
  <1>1. symbols' = symbols /\ (UNCHANGED tableVars \/ \E o \in Object : AddObject(o) /\ Enters(o))
    BY TableSteps
  <1>2. input \in Nat /\ ~(input > input)
    BY DEF searchInv
  <1>3. CASE Look
    <2>1. PICK a, q : a = input /\ q = i
      OBVIOUS
    <2>2. /\ a \in DOMAIN Input /\ IsArchive[a] /\ q \in Places(a)
          /\ input' = a /\ i' = After(q) /\ tail' = tail
      BY <1>3, <2>1 DEF Look
    <2>3. /\ linkTypeOK /\ ResolvedRightly /\ archiveInv(a) /\ groupInv
          /\ Input[a] \in Seq(Object)
      BY <2>1, <2>2, LinkAssumption DEF linkInv, searchInv
    <2>4. PICK o \in Object : o = Input[a][q[1]]
      BY <2>2, <2>3 DEF Places
    <2>5. groupInv'
      BY <1>1, <2>1, <2>2, <2>3, GroupStays
    <2>6. archiveInv(a)'
      <3>1. CASE AddObject(o) /\ Defines(o, q[2]) /\ loop' = (loop \/ Again(undefs_tail))
                 /\ included' = included \cup {<<q[1], t>> : t \in 1..q[2]} /\ last' = q[1]
        <4>1. Enters(o)
          BY <1>1, <3>1 DEF AddObject, Enters
        <4>2. QED
          BY <2>1, <2>2, <2>3, <2>4, <3>1, <4>1, LoadStays
      <3>2. CASE /\ ~(~(~Defines(o, q[2]) \/ q \in included) /\ q[1] # last /\ Wanted(o, q[2]))
                 /\ included' = IF ~(~Defines(o, q[2]) \/ q \in included)
                                   /\ (q[1] = last \/ hash[q[2]].type \in {"defined", "defweak"})
                                THEN included \cup {q} ELSE included
                 /\ UNCHANGED <<tableVars, loop, last>>
        <4>1. UNCHANGED <<symbols, tableVars, loop, last>>
          BY <1>1, <3>2
        <4>2. QED
          BY <2>1, <2>2, <2>3, <2>4, <3>2, <4>1, SkipStays
      <3>3. QED
        BY <1>3, <2>1, <2>4, <3>1, <3>2 DEF Look
    <2>7. i' \in (Nat \ {0}) \X (Nat \ {0}) /\ (Sym # 0 => i'[2] <= Sym)
      <3>1. q[1] \in Nat \ {0} /\ q[2] \in 1..Sym /\ Sym \in Nat
        BY <2>1, <2>2, LinkAssumption DEF searchInv, Places, Symbol
      <3>2. QED
        BY <2>2, <3>1 DEF After
    <2>8. QED
      BY <1>2, <2>1, <2>2, <2>5, <2>6, <2>7 DEF searchInv
  <1>4. CASE Pass
    <2>1. PICK a : a = input
      OBVIOUS
    <2>2. /\ a \in DOMAIN Input /\ IsArchive[a] /\ UNCHANGED tableVars
          /\ input' = input /\ i' = <<1, 1>> /\ tail' = tail /\ last' = 0 /\ included' = included
      BY <1>4, <2>1 DEF Pass
    <2>3. archiveInv(a)'
      BY <1>1, <2>1, <2>2, PassStays DEF searchInv, tableVars
    <2>4. groupInv'
      BY <1>1, <2>2, GroupStays DEF searchInv, linkInv
    <2>5. QED
      BY <1>2, <2>1, <2>2, <2>3, <2>4, LinkAssumption DEF searchInv
  <1>5. CASE AddInput \/ EndArchive
    <2>1. input \in DOMAIN Input /\ NextInput
      BY <1>5 DEF AddInput, EndArchive
    <2>2. IsArchive[input] => UNCHANGED tableVars /\ Clean(input)
      BY <1>5, EndClean DEF AddInput, EndArchive
    <2>3. /\ input' \in Nat \ {0}
          /\ groupInv'
          /\ input' > input => \A a \in DOMAIN Input :
               IsArchive[a] /\ (a = input \/ (a \in Group /\ input = Max(Group))) =>
                 \A p \in Places(a) : ~Missing(a, p)'
      BY <1>1, <2>1, <2>2, NextGroup DEF linkInv
    <2>4. i' = <<1, 1>> /\ included' = {} /\ last' = 0
      BY <2>1 DEF NextInput
    <2>5. ASSUME NEW a \in DOMAIN Input
          PROVE  archiveInv(a)'
      <3>1. Input[a] \in Seq(Object) /\ DOMAIN Input[a] = 1..Len(Input[a]) /\ 0 \notin DOMAIN Input[a]
        BY LinkAssumption
      <3>2. \A p \in Places(a) : ~Before(p, i')
        BY <2>4, <3>1 DEF Places, Before, Symbol
      <3>3. QED
        BY <2>4, <3>1, <3>2 DEF archiveInv, Places, Symbol, Before
    <2>6. input' \in DOMAIN Input => archiveInv(input)'
      <3>1. PICK a : a = input'
        OBVIOUS
      <3>2. QED
        BY <2>5, <3>1
    <2>7. QED
      BY <2>3, <2>4, <2>6, LinkAssumption DEF searchInv
  <1>6. CASE UNCHANGED vars
    <2>1. /\ symbols' = symbols /\ hash' = hash /\ undefs_tail' = undefs_tail /\ loaded' = loaded
          /\ input' = input /\ i' = i /\ included' = included /\ last' = last /\ loop' = loop
          /\ tail' = tail
      BY <1>6 DEF vars, tableVars, searchVars
    <2>2. archiveInv(input)' <=> archiveInv(input)
      BY <2>1 DEF archiveInv, Places, Symbol, Before, Missing, Defines, Settled
    <2>3. groupInv' <=> groupInv
      BY <2>1 DEF groupInv, Clean, Places, Symbol, Missing, Defines
    <2>4. QED
      BY <1>2, <2>1, <2>2, <2>3 DEF searchInv
  <1>7. QED
    BY <1>3, <1>4, <1>5, <1>6 DEF Next

(* The invariant holds at the start.                                       *)
LEMMA SearchStarts ==
    ASSUME Init
    PROVE  fullInv
  <1>1. listInv
    BY DEF Init, listInv, New
  <1>2. DOMAIN Input = 1..Len(Input) /\ Group \subseteq DOMAIN Input /\ Sym \in Nat
    BY LinkAssumption
  <1>3. groupInv
    BY <1>2 DEF Init, groupInv
  <1>4. ASSUME NEW a \in DOMAIN Input
        PROVE  archiveInv(a)
    <2>1. Input[a] \in Seq(Object) /\ DOMAIN Input[a] = 1..Len(Input[a])
      BY LinkAssumption
    <2>2. QED
      BY <2>1 DEF Init, archiveInv, Places, Symbol, Missing, New
  <1>5. searchInv
    BY <1>2, <1>3, <1>4 DEF Init, searchInv
  <1>6. QED
    BY <1>1, <1>5, TableStarts DEF fullInv

(* bfd_link_add_undef finds every symbol it is called for unlinked, and    *)
(* the list has all that is undefined.                                     *)
THEOREM ListCorrect == Spec => []UndefsSound
  <1>1. Init => fullInv
    BY SearchStarts
  <1>2. fullInv /\ [Next]_vars => fullInv'
    BY TableStep, ListStep, SearchStep DEF fullInv
  <1>3. fullInv => UndefsSound
    BY AddedFresh DEF fullInv, linkInv, listInv, UndefsSound
  <1>4. QED
    BY <1>1, <1>2, <1>3, PTL DEF Spec

(* elf_link_add_archive_symbols and the loop of open_input_bfds over a     *)
(* group give up a search only when no member that is left would define an *)
(* undefined symbol.                                                       *)
THEOREM SearchCorrect == Spec => SearchedThrough
  <1>1. Init => fullInv
    BY SearchStarts
  <1>2. fullInv /\ [Next]_vars => fullInv'
    BY TableStep, ListStep, SearchStep DEF fullInv
  <1>3. fullInv /\ [Next]_vars =>
          [input' > input => \A a \in DOMAIN Input : IsArchive[a] /\ Left(a) => Unsearched(a)' = {}]_vars
    <2> SUFFICES ASSUME fullInv, [Next]_vars, input' > input,
                        NEW a \in DOMAIN Input, IsArchive[a], Left(a)
                 PROVE  Unsearched(a)' = {}
      OBVIOUS
    <2>1. \A p \in Places(a) : ~Missing(a, p)'
      BY SearchStep DEF Left
    <2>2. ASSUME NEW k \in DOMAIN Input[a], NEW s \in Symbol
          PROVE  ~(Defines(Input[a][k], s)' /\ hash[s]'.type = "undefined")
      <3>1. <<k, s>> \in Places(a)
        BY DEF Places
      <3>2. QED
        BY <2>1, <3>1 DEF Missing
    <2>3. QED
      BY <2>2 DEF Unsearched, Symbol
  <1>4. QED
    BY <1>1, <1>2, <1>3, PTL DEF Spec, SearchedThrough
=============================================================================
