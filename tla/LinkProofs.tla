------------------------------ MODULE LinkProofs ------------------------------
(***************************************************************************)
(* What symbols come to, for every number of symbols, objects, archives    *)
(* and groups.                                                             *)
(*                                                                         *)
(* Only AddObject touches the hash table, and it appends one object to     *)
(* loaded; the lemmas say what that does to Saying and to First, and the   *)
(* invariant is then carried over one symbol at a time.                    *)
(***************************************************************************)
EXTENDS Link, TLAPS

(* The provers, in the order in which a leaf is given to them.             *)
USE ZenonT(5), SMTT(30), ZenonT(30)

linkInv == linkTypeOK /\ ResolvedRightly /\ DuplicatesReported /\ LoadedOnce /\ MembersNeeded

(* An object is entered: what AddObject does to the invariant's variables. *)
Enters(o) ==
    /\ o \in Object
    /\ symbols' = symbols
    /\ hash' = [s \in Symbol |-> Entered(o, s)]
    /\ errors' = errors \cup {<<o, s>> : s \in {x \in Symbol : Action(o, x) = "MDEF"}}
    /\ loaded' = Append(loaded, o)

(* The place of the object in the order of loading, if it says row of s.   *)
LEMMA SayingGrows ==
    ASSUME linkTypeOK, NEW o \in Object, Enters(o), NEW row, NEW s \in Symbol
    PROVE  /\ Saying(row, s) \subseteq 1..Len(loaded)
           /\ Saying(row, s)' = Saying(row, s) \cup
                (IF symbols[o][s].row = row THEN {Len(loaded) + 1} ELSE {})
  <1>1. /\ Len(loaded) \in Nat /\ DOMAIN loaded = 1..Len(loaded)
        /\ DOMAIN loaded' = 1..(Len(loaded) + 1)
        /\ \A k \in 1..Len(loaded) : loaded'[k] = loaded[k]
        /\ loaded'[Len(loaded) + 1] = o
    BY DEF linkTypeOK, Enters
  <1>2. QED
    BY <1>1 DEF Enters, Saying
(* The first to say something stays the first.                             *)
LEMMA FirstStays ==
    ASSUME linkTypeOK, NEW o \in Object, Enters(o), NEW row, NEW s \in Symbol,
           NEW n, n = Len(loaded) + 1
    PROVE  /\ \A k \in 1..Len(loaded) : First(k, row, s)' <=> First(k, row, s)
           /\ First(n, row, s)' <=> symbols[o][s].row = row /\ Saying(row, s) = {}
  <1>1. Len(loaded) \in Nat
    BY DEF linkTypeOK
  <1> DEFINE S == Saying(row, s)
             T == Saying(row, s)'
  <1>2. S \subseteq 1..Len(loaded) /\ T = S \cup (IF symbols[o][s].row = row THEN {n} ELSE {})
    BY SayingGrows
  <1> HIDE DEF S, T
  <1>3. /\ \A k : First(k, row, s) <=> k \in S /\ \A j \in S : k <= j
        /\ \A k : First(k, row, s)' <=> k \in T /\ \A j \in T : k <= j
    BY DEF First, S, T
  <1>4. ASSUME NEW k \in 1..Len(loaded) PROVE First(k, row, s)' <=> First(k, row, s)
    BY <1>1, <1>2, <1>3
  <1>5. First(n, row, s)' <=> symbols[o][s].row = row /\ S = {}
    BY <1>1, <1>2, <1>3
  <1>6. QED
    BY <1>4, <1>5 DEF S

(* The entry of a symbol after an object that says something of it.        *)
LEMMA EntryChanges ==
    ASSUME linkTypeOK, NEW o \in Object, Enters(o), NEW s \in Symbol
    PROVE  LET row == symbols[o][s].row
               old == hash[s]
               new == hash[s]'
           IN  /\ row = "NONE" => new = old
               /\ row = "UNDEF_ROW" => IF old.type \in {"new", "undefweak"}
                                       THEN new.type = "undefined" ELSE new = old
               /\ row = "UNDEFW_ROW" => IF old.type = "new" THEN new.type = "undefweak" ELSE new = old
               /\ row = "DEF_ROW" => IF old.type = "defined" THEN new = old
                                     ELSE new.type = "defined" /\ new.def = o
               /\ row = "DEFW_ROW" => IF old.type \in {"new", "undefined", "undefweak"}
                                      THEN new.type = "defweak" /\ new.def = o ELSE new = old
               /\ row = "COMMON_ROW" =>
                    IF old.type = "defined" THEN new = old
                    ELSE /\ new.type = "common"
                         /\ new.size = IF old.type = "common" /\ old.size >= symbols[o][s].size
                                       THEN old.size ELSE symbols[o][s].size
  <1>1. hash[s]' = Entered(o, s)
    BY DEF Enters
  <1>2. hash[s] \in [type : Types, def : Object \cup {NoObject}, size : Nat] /\ hash[s].type \in Types
    BY DEF linkTypeOK
  <1>3. symbols[o][s] \in Entries /\ symbols[o][s].size \in Nat
    BY DEF linkTypeOK, Entries, None, Rows
  <1>4. Action(o, s) = link_action[symbols[o][s].row][hash[s].type]
    BY DEF Action
  <1>5. PICK ty \in Types : ty = hash[s].type
    BY <1>2
  <1>6. CASE symbols[o][s].row = "NONE"
    <2>1. Action(o, s) = "NOACT"
      BY <1>4, <1>5, <1>6 DEF link_action, Line, Types, Rows
    <2>2. QED
      BY <1>1, <1>2, <1>3, <1>5, <1>6, <2>1 DEF Entered, Types
  <1>7. CASE symbols[o][s].row = "UNDEF_ROW"
    <2>1. Action(o, s) = IF ty \in {"new", "undefweak"} THEN "UND"
                         ELSE IF ty \in {"defined", "defweak"} THEN "REF" ELSE "NOACT"
      BY <1>4, <1>5, <1>7 DEF link_action, Line, Types, Rows
    <2>2. QED
      BY <1>1, <1>2, <1>3, <1>5, <1>7, <2>1 DEF Entered, Types
  <1>8. CASE symbols[o][s].row = "UNDEFW_ROW"
    <2>1. Action(o, s) = IF ty = "new" THEN "WEAK"
                         ELSE IF ty \in {"defined", "defweak"} THEN "REF" ELSE "NOACT"
      BY <1>4, <1>5, <1>8 DEF link_action, Line, Types, Rows
    <2>2. QED
      BY <1>1, <1>2, <1>3, <1>5, <1>8, <2>1 DEF Entered, Types
  <1>9. CASE symbols[o][s].row = "DEF_ROW"
    <2>1. Action(o, s) = IF ty = "defined" THEN "MDEF"
                         ELSE IF ty = "common" THEN "CDEF" ELSE "DEF"
      BY <1>4, <1>5, <1>9 DEF link_action, Line, Types, Rows
    <2>2. QED
      BY <1>1, <1>2, <1>3, <1>5, <1>9, <2>1 DEF Entered, Types
  <1>10. CASE symbols[o][s].row = "DEFW_ROW"
    <2>1. Action(o, s) = IF ty \in {"new", "undefined", "undefweak"} THEN "DEFW" ELSE "NOACT"
      BY <1>4, <1>5, <1>10 DEF link_action, Line, Types, Rows
    <2>2. QED
      BY <1>1, <1>2, <1>3, <1>5, <1>10, <2>1 DEF Entered, Types
  <1>11. CASE symbols[o][s].row = "COMMON_ROW"
    <2>1. Action(o, s) = IF ty = "defined" THEN "CREF"
                         ELSE IF ty = "common" THEN "BIG" ELSE "COM"
      BY <1>4, <1>5, <1>11 DEF link_action, Line, Types, Rows
    <2>2. QED
      BY <1>1, <1>2, <1>3, <1>5, <1>11, <2>1 DEF Entered, Types
  <1>12. symbols[o][s].row \in {"NONE", "UNDEF_ROW", "UNDEFW_ROW", "DEF_ROW", "DEFW_ROW", "COMMON_ROW"}
    BY <1>3 DEF Entries, None, Rows
  <1>13. QED
    BY <1>6, <1>7, <1>8, <1>9, <1>10, <1>11, <1>12

(* The table stays well typed.                                             *)
LEMMA TypesStay ==
    ASSUME linkTypeOK, NEW o \in Object, Enters(o)
    PROVE  linkTypeOK'
  <1>1. ASSUME NEW s \in Symbol
        PROVE  Entered(o, s) \in [type : Types, def : Object \cup {NoObject}, size : Nat]
    <2>1. hash[s] \in [type : Types, def : Object \cup {NoObject}, size : Nat]
      BY DEF linkTypeOK
    <2>2. symbols[o][s].size \in Nat
      BY DEF linkTypeOK, Entries, None, Rows
    <2>3. QED
      BY <2>1, <2>2 DEF Entered, Types
  <1>2. QED
    BY <1>1 DEF linkTypeOK, Enters

(* What was said before it and what the object says decide what a symbol   *)
(* comes to.                                                               *)
LEMMA ResolutionStays ==
    ASSUME linkTypeOK, ResolvedRightly, NEW o \in Object, Enters(o)
    PROVE  ResolvedRightly'
  <1> SUFFICES ASSUME NEW s \in Symbol
               PROVE  /\ hash[s]'.type = TypeOf(s)'
                      /\ hash[s]'.type = "defined" => FirstDefines("DEF_ROW", s)'
                      /\ hash[s]'.type = "defweak" => FirstDefines("DEFW_ROW", s)'
                      /\ hash[s]'.type = "common" => Largest(s)'
    BY DEF ResolvedRightly
  <1> DEFINE row == symbols[o][s].row
  <1>0. PICK n : n = Len(loaded) + 1
    OBVIOUS
  <1>1. /\ n = Len(loaded) + 1
        /\ Len(loaded) \in Nat /\ DOMAIN loaded = 1..Len(loaded) /\ DOMAIN loaded' = 1..n
        /\ \A k \in 1..Len(loaded) : loaded'[k] = loaded[k]
        /\ loaded'[n] = o
    BY <1>0 DEF linkTypeOK, Enters
  <1>2. /\ hash[s].type = TypeOf(s)
        /\ hash[s].type = "defined" => FirstDefines("DEF_ROW", s)
        /\ hash[s].type = "defweak" => FirstDefines("DEFW_ROW", s)
        /\ hash[s].type = "common" => Largest(s)
    BY DEF ResolvedRightly
  <1>3. symbols[o][s] \in Entries /\ hash[s].size \in Nat
    BY DEF linkTypeOK
  <1>4. row \in {"NONE", "UNDEF_ROW", "UNDEFW_ROW", "DEF_ROW", "DEFW_ROW", "COMMON_ROW"}
    BY <1>3 DEF Entries, None, Rows
  <1>5. \A r : Saying(r, s)' # {} <=> Saying(r, s) # {} \/ row = r
    BY SayingGrows, <1>1
  <1>6. hash[s]'.type = TypeOf(s)'
    BY EntryChanges, <1>2, <1>4, <1>5 DEF TypeOf
  <1>7. ASSUME NEW r, FirstDefines(r, s), hash[s]' = hash[s]
        PROVE  FirstDefines(r, s)'
    BY <1>1, <1>7, FirstStays DEF FirstDefines
  <1>8. ASSUME NEW r, row = r, Saying(r, s) = {}, hash[s]'.def = o
        PROVE  FirstDefines(r, s)'
    BY <1>1, <1>8, FirstStays DEF FirstDefines
  <1>9. hash[s]'.type = "defined" => FirstDefines("DEF_ROW", s)'
    <2>1. hash[s].type # "defined" => Saying("DEF_ROW", s) = {}
      BY <1>2 DEF TypeOf
    <2>2. QED
      BY EntryChanges, <1>2, <1>4, <1>7, <1>8, <2>1
  <1>10. hash[s]'.type = "defweak" => FirstDefines("DEFW_ROW", s)'
    <2>1. hash[s].type \in {"new", "undefined", "undefweak"} => Saying("DEFW_ROW", s) = {}
      BY <1>2 DEF TypeOf
    <2>2. QED
      BY EntryChanges, <1>2, <1>4, <1>7, <1>8, <2>1
  <1>11. hash[s]'.type = "common" => Largest(s)'
    <2> DEFINE C == Saying("COMMON_ROW", s)
    <2>1. C \subseteq 1..Len(loaded) /\ C' = C \cup (IF row = "COMMON_ROW" THEN {n} ELSE {})
      BY SayingGrows, <1>1
    <2>2. \A k \in C : symbols'[loaded'[k]][s].size = symbols[loaded[k]][s].size
      BY <1>1, <2>1 DEF Enters
    <2>3. symbols'[loaded'[n]][s].size = symbols[o][s].size /\ symbols[o][s].size \in Nat
      BY <1>1, <1>3 DEF Enters, Entries, None, Rows
    <2>4. \A k \in C : symbols[loaded[k]][s].size \in Nat
      BY <1>1, <2>1 DEF linkTypeOK, Entries, None, Rows
    <2>5. CASE hash[s]'.type = "common" /\ row # "COMMON_ROW"
      <3>1. hash[s]' = hash[s]
        BY EntryChanges, <1>4, <2>5
      <3>2. QED
        BY <1>2, <2>1, <2>2, <2>5, <3>1 DEF Largest
    <2>6. CASE hash[s]'.type = "common" /\ row = "COMMON_ROW" /\ hash[s].type = "common"
      <3>1. hash[s]'.size = IF hash[s].size >= symbols[o][s].size THEN hash[s].size ELSE symbols[o][s].size
        BY EntryChanges, <2>6
      <3>2. QED
        BY <1>2, <1>3, <2>1, <2>2, <2>3, <2>4, <2>6, <3>1 DEF Largest
    <2>7. CASE hash[s]'.type = "common" /\ row = "COMMON_ROW" /\ hash[s].type # "common"
      <3>1. hash[s].type # "defined"
        BY EntryChanges, <2>7
      <3>2. hash[s]'.size = symbols[o][s].size
        BY EntryChanges, <2>7, <3>1
      <3>3. C = {}
        BY <1>2, <2>7, <3>1 DEF TypeOf
      <3>4. QED
        BY <2>1, <2>3, <2>7, <3>2, <3>3 DEF Largest
    <2>8. QED
      BY <2>5, <2>6, <2>7
  <1>12. QED
    BY <1>6, <1>9, <1>10, <1>11

(* The object's definitions are reported where there was one before.       *)
LEMMA ReportsStay ==
    ASSUME linkTypeOK, ResolvedRightly, DuplicatesReported, NEW o \in Object, Enters(o)
    PROVE  DuplicatesReported'
  <1> DEFINE Later(e) == \E k \in Saying("DEF_ROW", e[2]) :
                           loaded[k] = e[1] /\ ~First(k, "DEF_ROW", e[2])
  <1>0. PICK n : n = Len(loaded) + 1
    OBVIOUS
  <1>1. /\ n = Len(loaded) + 1 /\ Len(loaded) \in Nat
        /\ \A k \in 1..Len(loaded) : loaded'[k] = loaded[k]
        /\ loaded'[n] = o
    BY <1>0 DEF linkTypeOK, Enters
  <1>2. ASSUME NEW s \in Symbol
        PROVE  Action(o, s) = "MDEF" <=> symbols[o][s].row = "DEF_ROW" /\ Saying("DEF_ROW", s) # {}
    <2>1. hash[s].type \in Types /\ (hash[s].type = "defined" <=> Saying("DEF_ROW", s) # {})
      BY DEF linkTypeOK, ResolvedRightly, TypeOf
    <2>2. symbols[o][s].row \in Rows \cup {"COMMON_ROW", "NONE"}
      BY DEF linkTypeOK, Entries, None
    <2>3. QED
      BY <2>1, <2>2 DEF Action, link_action, Line, Types, Rows
  <1>3. ASSUME NEW x \in Object, NEW s \in Symbol
        PROVE  Later(<<x, s>>)' <=> Later(<<x, s>>) \/ (x = o /\ Action(o, s) = "MDEF")
    <2> DEFINE S == Saying("DEF_ROW", s)
    <2>1. S \subseteq 1..Len(loaded) /\ S' = S \cup (IF symbols[o][s].row = "DEF_ROW" THEN {n} ELSE {})
      BY SayingGrows, <1>1
    <2>2. /\ \A k \in S : First(k, "DEF_ROW", s)' <=> First(k, "DEF_ROW", s)
          /\ First(n, "DEF_ROW", s)' <=> symbols[o][s].row = "DEF_ROW" /\ S = {}
      BY FirstStays, <1>1, <2>1
    <2>3. Later(<<x, s>>) <=> \E k \in S : loaded[k] = x /\ ~First(k, "DEF_ROW", s)
      OBVIOUS
    <2>4. Later(<<x, s>>)' <=> \E k \in S' : loaded'[k] = x /\ ~First(k, "DEF_ROW", s)'
      OBVIOUS
    <2> HIDE DEF S, Later
    <2>5. QED
      BY <1>1, <1>2, <2>1, <2>2, <2>3, <2>4 DEF S
  <1>4. errors = {e \in Object \X Symbol : Later(e)}
    BY DEF DuplicatesReported
  <1>5. DuplicatesReported' <=> errors' = {e \in Object \X Symbol : Later(e)'}
    BY DEF DuplicatesReported, Symbol
  <1> HIDE DEF Later
  <1>6. \A e \in Object \X Symbol : Later(e)' <=> Later(e) \/ (e[1] = o /\ Action(o, e[2]) = "MDEF")
    BY <1>3
  <1>7. \A e \in Object \X Symbol : e \in errors' <=> e \in errors \/ (e[1] = o /\ Action(o, e[2]) = "MDEF")
    BY DEF Enters
  <1>8. errors' \subseteq Object \X Symbol
    BY DEF Enters, linkTypeOK
  <1>9. QED
    BY <1>4, <1>5, <1>6, <1>7, <1>8

(* A member that has been entered is not wanted again: what it defines is  *)
(* defined, or common if that is all it says of it.                        *)
LEMMA LoadedUnwanted ==
    ASSUME linkTypeOK, ResolvedRightly, NEW s \in Symbol, NEW k \in DOMAIN loaded, Defines(loaded[k], s)
    PROVE  ~Wanted(loaded[k], s)
  <1>1. \A row : symbols[loaded[k]][s].row = row => Saying(row, s) # {}
    BY DEF Saying
  <1>2. QED
    BY <1>1 DEF Defines, Wanted, elf_link_is_defined_archive_symbol, ResolvedRightly, TypeOf

(* Only an object that has not been entered is.                            *)
LEMMA OnceStays ==
    ASSUME linkTypeOK, LoadedOnce, NEW o \in Object, Enters(o),
           \A k \in DOMAIN loaded : loaded[k] # o
    PROVE  LoadedOnce'
  BY DEF linkTypeOK, LoadedOnce, Enters

(* A member is entered for a symbol that something before it refers to.    *)
LEMMA NeededStays ==
    ASSUME linkTypeOK, ResolvedRightly, MembersNeeded, NEW o \in Object, Enters(o),
           InArchive(o) => \E s \in Symbol : Defines(o, s) /\ Wanted(o, s)
    PROVE  MembersNeeded'
  <1>1. /\ Len(loaded) \in Nat /\ DOMAIN loaded = 1..Len(loaded)
        /\ DOMAIN loaded' = 1..(Len(loaded) + 1)
        /\ \A k \in 1..Len(loaded) : loaded'[k] = loaded[k]
        /\ loaded'[Len(loaded) + 1] = o
        /\ symbols' = symbols
    BY DEF linkTypeOK, Enters
  <1> DEFINE Need(k, x, l) == \E j \in 1..(k - 1), s \in Symbol :
               Defines(x, s) /\ symbols[l[j]][s].row \in {"UNDEF_ROW", "COMMON_ROW"}
  <1>2. SUFFICES \A k \in DOMAIN loaded' : InArchive(loaded'[k]) => Need(k, loaded'[k], loaded')
    BY <1>1 DEF MembersNeeded, InArchive, Defines, Symbol
  <1>3. ASSUME NEW k \in 1..Len(loaded), InArchive(loaded[k])
        PROVE  Need(k, loaded[k], loaded')
    <2>1. Need(k, loaded[k], loaded)
      BY <1>1, <1>3 DEF MembersNeeded
    <2>2. \A j \in 1..(k - 1) : loaded'[j] = loaded[j]
      BY <1>1
    <2>3. QED
      BY <2>1, <2>2
  <1>4. ASSUME InArchive(o)
        PROVE  Need(Len(loaded) + 1, o, loaded')
    <2>1. PICK s \in Symbol : Defines(o, s) /\ Wanted(o, s)
      BY <1>4
    <2>2. Saying("UNDEF_ROW", s) # {} \/ Saying("COMMON_ROW", s) # {}
      BY <2>1 DEF Wanted, elf_link_is_defined_archive_symbol, ResolvedRightly, TypeOf
    <2>3. PICK j \in 1..Len(loaded) : symbols[loaded[j]][s].row \in {"UNDEF_ROW", "COMMON_ROW"}
      BY <1>1, <2>2 DEF Saying
    <2>4. QED
      BY <1>1, <2>1, <2>3
  <1>5. QED
    BY <1>1, <1>2, <1>3, <1>4

(* Steps that leave the table alone.                                       *)
LEMMA TableUnchanged ==
    ASSUME linkInv, UNCHANGED <<symbols, tableVars>>
    PROVE  linkInv'
  <1>1. /\ symbols' = symbols /\ hash' = hash /\ loaded' = loaded /\ errors' = errors
    BY DEF tableVars
  <1>2. linkTypeOK'
    BY <1>1 DEF linkInv, linkTypeOK
  <1>3. ResolvedRightly'
    BY <1>1 DEF linkInv, ResolvedRightly, TypeOf, FirstDefines, Largest, First, Saying
  <1>4. DuplicatesReported'
    BY <1>1 DEF linkInv, DuplicatesReported, First, Saying
  <1>5. LoadedOnce' /\ MembersNeeded'
    BY <1>1 DEF linkInv, LoadedOnce, MembersNeeded, InArchive, Defines
  <1>6. QED
    BY <1>2, <1>3, <1>4, <1>5 DEF linkInv

(* A step enters an object that has not been entered, and a member for a   *)
(* symbol that it is wanted for, or leaves the table alone.                *)
LEMMA TableSteps ==
    ASSUME linkInv, [Next]_vars
    PROVE  /\ symbols' = symbols
           /\ \/ UNCHANGED tableVars
              \/ \E o \in Object :
                   /\ AddObject(o) /\ Enters(o)
                   /\ \A k \in DOMAIN loaded : loaded[k] # o
                   /\ InArchive(o) => \E s \in Symbol : Defines(o, s) /\ Wanted(o, s)
  <1>1. CASE Look
    <2> DEFINE o == Input[input][i[1]]
               load == ~(~Defines(o, i[2]) \/ i \in included) /\ i[1] # last /\ Wanted(o, i[2])
    <2>1. o \in Object /\ i[2] \in Symbol
      BY <1>1, LinkAssumption DEF Look, Places
    <2>2. UNCHANGED symbols /\ ((load /\ AddObject(o)) \/ UNCHANGED tableVars)
      BY <1>1 DEF Look
    <2>3. load => \A k \in DOMAIN loaded : loaded[k] # o
      BY <2>1, LoadedUnwanted DEF linkInv
    <2> HIDE DEF o
    <2>4. load /\ AddObject(o) => Enters(o)
      BY <2>1, <2>2 DEF AddObject, Enters
    <2>5. QED
      BY <2>1, <2>2, <2>3, <2>4
  <1>2. CASE AddInput
    <2> DEFINE o == Input[input][1]
    <2>1. o \in Object
      BY <1>2, LinkAssumption DEF AddInput
    <2>2. UNCHANGED symbols
      BY <1>2 DEF AddInput, NextInput
    <2>3. UNCHANGED tableVars \/ (AddObject(o) /\ \A k \in DOMAIN loaded : loaded[k] # o)
      BY <1>2 DEF AddInput
    <2>4. ~InArchive(o)
      BY <1>2, LinkAssumption DEF AddInput, InArchive
    <2> HIDE DEF o
    <2>5. AddObject(o) => Enters(o)
      BY <2>1, <2>2 DEF AddObject, Enters
    <2>6. QED
      BY <2>1, <2>2, <2>3, <2>4, <2>5
  <1>3. CASE Pass \/ EndArchive \/ UNCHANGED vars
    BY <1>3 DEF Pass, EndArchive, NextInput, vars
  <1>4. QED
    BY <1>1, <1>2, <1>3 DEF Next

(* The invariant holds at the start.                                       *)
LEMMA TableStarts ==
    ASSUME Init
    PROVE  linkInv
  <1>1. linkTypeOK
    BY LinkAssumption DEF Init, linkTypeOK, New, Types
  <1>2. \A row, s : Saying(row, s) = {}
    BY DEF Init, Saying
  <1>3. ResolvedRightly
    BY <1>2 DEF Init, ResolvedRightly, TypeOf, New
  <1>4. DuplicatesReported
    BY <1>2 DEF Init, DuplicatesReported
  <1>5. LoadedOnce /\ MembersNeeded
    BY DEF Init, LoadedOnce, MembersNeeded
  <1>6. QED
    BY <1>1, <1>3, <1>4, <1>5 DEF linkInv

(* Each step keeps it.                                                     *)
LEMMA TableStep ==
    ASSUME linkInv, [Next]_vars
    PROVE  linkInv'
  <1>1. CASE UNCHANGED tableVars
    BY <1>1, TableSteps, TableUnchanged
  <1>2. ASSUME NEW o \in Object, Enters(o), \A k \in DOMAIN loaded : loaded[k] # o,
               InArchive(o) => \E s \in Symbol : Defines(o, s) /\ Wanted(o, s)
        PROVE  linkInv'
    BY <1>2, TypesStay, ResolutionStays, ReportsStay, OnceStays, NeededStays DEF linkInv
  <1>3. QED
    BY <1>1, <1>2, TableSteps

(* Symbols come to what all the objects say of them together, every second *)
(* definition is reported, no member is entered twice, and none is entered *)
(* that nothing before it refers to, in every state of open_input_bfds.    *)
THEOREM ResolutionCorrect ==
    Spec => [](linkTypeOK /\ ResolvedRightly /\ DuplicatesReported /\ LoadedOnce /\ MembersNeeded)
  <1>1. Init => linkInv
    BY TableStarts
  <1>2. linkInv /\ [Next]_vars => linkInv'
    BY TableStep
  <1>3. linkInv => linkTypeOK /\ ResolvedRightly /\ DuplicatesReported /\ LoadedOnce /\ MembersNeeded
    BY DEF linkInv
  <1>4. QED
    BY <1>1, <1>2, <1>3, PTL DEF Spec

(* In particular: a symbol that two objects define is reported.            *)
THEOREM DuplicatesCorrect == Spec => []DuplicatesReported
  BY ResolutionCorrect, PTL

(* In particular: however often archives and the group are searched, no    *)
(* member is entered into the table twice.                                 *)
THEOREM LoadedCorrect == Spec => []LoadedOnce
  BY ResolutionCorrect, PTL

(* In particular: a member is entered only if something entered before it  *)
(* refers to a symbol that it defines.                                     *)
THEOREM NeededCorrect == Spec => []MembersNeeded
  BY ResolutionCorrect, PTL
=============================================================================
