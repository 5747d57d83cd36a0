--------------------------------- MODULE Link ---------------------------------
(***************************************************************************)
(* How ld collects its input: the global symbols of relocatable objects    *)
(* are entered into the linker hash table (bfd/linker.c), archives are     *)
(* searched for members that define what is undefined (bfd/elflink.c), and *)
(* the archives of a group are searched until nothing new is undefined     *)
(* (ld/ldlang.c).                                                          *)
(*                                                                         *)
(* An object is a function from symbols to what it says of them.  A step   *)
(* enters an object, looks at one entry of an archive map, or goes on to   *)
(* the next input.                                                         *)
(***************************************************************************)
EXTENDS Integers, Sequences, FiniteSetsExt

CONSTANTS Sym,       \* the symbols are 1..Sym, in the order of symbol tables
          Object,    \* the objects and the members of archives
          Input,     \* the inputs in order: sequences of objects
          IsArchive, \* for each input
          Group,     \* the inputs that form the group
          Tables     \* the symbol tables that the objects may have

Symbol == 1..Sym
NoObject == "none"

(* What an object may say of a symbol: the row of the table, and a size.   *)
None      == [row |-> "NONE", size |-> 0]
Rows      == {"UNDEF_ROW", "UNDEFW_ROW", "DEF_ROW", "DEFW_ROW"}
Entries   == {None} \cup [row : Rows, size : {0}] \cup [row : {"COMMON_ROW"}, size : Nat \ {0}]

ASSUME LinkAssumption ==
    /\ Sym \in Nat /\ NoObject \notin Object
    /\ Input \in Seq(Seq(Object)) /\ IsArchive \in [DOMAIN Input -> BOOLEAN]
    /\ \A a \in DOMAIN Input : ~IsArchive[a] => Len(Input[a]) = 1
    /\ \A a, b \in DOMAIN Input : IsArchive[a] /\ ~IsArchive[b] =>
         \A k \in DOMAIN Input[a] : Input[a][k] # Input[b][1]
    /\ Group \subseteq DOMAIN Input
    /\ Tables \subseteq [Object -> [Symbol -> Entries]]

VARIABLES
    symbols,     \* object -> symbol -> what it says of it
    hash,        \* symbol -> the entry of the linker hash table
    undefs,      \* the symbols on the list of undefined ones
    undefs_tail, \* the last of the list, 0 if there is none
    referenced,  \* symbols off the list that are linked to themselves
    loaded,      \* the objects that have been entered, in order
    errors,      \* multiple definitions reported: object and symbol
    input,       \* the input that is being read
    i, included, last, loop,  \* the search of an archive
    tail         \* undefs_tail when the pass through the group began

tableVars  == <<hash, undefs, undefs_tail, referenced, loaded, errors>>
searchVars == <<i, included, last, loop>>
vars == <<symbols, tableVars, input, searchVars, tail>>

New == [type |-> "new", def |-> NoObject, size |-> 0]

-----------------------------------------------------------------------------
(* _bfd_generic_link_add_one_symbol: link_action, for the rows and the     *)
(* types of relocatable objects.                                           *)

Types == {"new", "undefined", "undefweak", "defined", "defweak", "common"}

Line(new, undef, undefw, def, defw, com) ==
    [type \in Types |-> IF type = "new" THEN new ELSE IF type = "undefined" THEN undef
                        ELSE IF type = "undefweak" THEN undefw ELSE IF type = "defined" THEN def
                        ELSE IF type = "defweak" THEN defw ELSE com]

link_action ==
    [row \in Rows \cup {"COMMON_ROW", "NONE"} |->
     IF row = "UNDEF_ROW"       THEN Line("UND",  "NOACT", "UND",   "REF",   "REF",   "NOACT")
     ELSE IF row = "UNDEFW_ROW" THEN Line("WEAK", "NOACT", "NOACT", "REF",   "REF",   "NOACT")
     ELSE IF row = "DEF_ROW"    THEN Line("DEF",  "DEF",   "DEF",   "MDEF",  "DEF",   "CDEF")
     ELSE IF row = "DEFW_ROW"   THEN Line("DEFW", "DEFW",  "DEFW",  "NOACT", "NOACT", "NOACT")
     ELSE IF row = "COMMON_ROW" THEN Line("COM",  "COM",   "COM",   "CREF",  "COM",   "BIG")
     ELSE Line("NOACT", "NOACT", "NOACT", "NOACT", "NOACT", "NOACT")]

(* Mutant of Action: a common declaration gives way to a weak definition.  *)
Action_weak(o, s) ==
    IF symbols[o][s].row = "COMMON_ROW" /\ hash[s].type = "defweak" THEN "CREF"
    ELSE link_action[symbols[o][s].row][hash[s].type]

(* Mutant of Action: the definition of a common symbol is a second one.    *)
Action_common(o, s) ==
    IF symbols[o][s].row = "DEF_ROW" /\ hash[s].type = "common" THEN "MDEF"
    ELSE link_action[symbols[o][s].row][hash[s].type]

Action(o, s) == link_action[symbols[o][s].row][hash[s].type]

(* The entry of s once the object o is entered.                            *)
Entered(o, s) ==
    LET a    == Action(o, s)
        size == symbols[o][s].size
    IN  IF a = "UND" THEN [type |-> "undefined", def |-> NoObject, size |-> 0]
        ELSE IF a = "WEAK" THEN [type |-> "undefweak", def |-> NoObject, size |-> 0]
        ELSE IF a \in {"DEF", "CDEF"} THEN [type |-> "defined", def |-> o, size |-> 0]
        ELSE IF a = "DEFW" THEN [type |-> "defweak", def |-> o, size |-> 0]
        ELSE IF a = "COM" \/ (a = "BIG" /\ size > hash[s].size)
             THEN [type |-> "common", def |-> NoObject, size |-> size]
        ELSE hash[s]

(* Mutant of add_undef: whatever becomes common is added.                  *)
add_undef_common(o, s) == Action(o, s) \in {"UND", "COM"}

(* bfd_link_add_undef is called for the symbols that are undefined anew,   *)
(* and for new ones that are common.                                       *)
add_undef(o, s) ==
    \/ Action(o, s) = "UND"
    \/ Action(o, s) = "COM" /\ hash[s].type = "new"

(* elf_link_add_object_symbols: every symbol of the object, in order.      *)
Added(o) == {s \in Symbol : add_undef(o, s)}
AddObject(o) ==
    /\ hash' = [s \in Symbol |-> Entered(o, s)]
    /\ undefs' = undefs \cup Added(o)
    /\ undefs_tail' = IF Added(o) = {} THEN undefs_tail ELSE Max(Added(o))
    /\ referenced' = referenced \cup {s \in Symbol \ undefs : Action(o, s) = "REF"}
    /\ errors' = errors \cup {<<o, s>> : s \in {x \in Symbol : Action(o, x) = "MDEF"}}
    /\ loaded' = Append(loaded, o)

-----------------------------------------------------------------------------
(* elf_link_add_archive_symbols.  The archive map lists, member by member, *)
(* the symbols that a member defines: <<m, s>> is the place of symbol s of *)
(* member m, and not all places are taken.                                 *)

Places(a) == (DOMAIN Input[a]) \X Symbol
After(p)  == IF p[2] < Sym THEN <<p[1], p[2] + 1>> ELSE <<p[1] + 1, 1>>
Defines(o, s) == symbols[o][s].row \in {"DEF_ROW", "DEFW_ROW", "COMMON_ROW"}

(* What is common is looked for in the symbol table of the member: a       *)
(* definition that is not weak counts.                                     *)
elf_link_is_defined_archive_symbol(o, s) == symbols[o][s].row = "DEF_ROW"

(* Mutant of Wanted: a common declaration is taken for a definition.       *)
Wanted_common(o, s) == hash[s].type \in {"undefined", "common"}

(* Mutant of Wanted: a weak reference is enough.                           *)
Wanted_weak(o, s) ==
    \/ hash[s].type \in {"undefined", "undefweak"}
    \/ hash[s].type = "common" /\ elf_link_is_defined_archive_symbol(o, s)

(* The member o is to be entered for its symbol s.                         *)
Wanted(o, s) ==
    \/ hash[s].type = "undefined"
    \/ hash[s].type = "common" /\ elf_link_is_defined_archive_symbol(o, s)

(* Mutant of Again: another pass only if nothing was undefined before.     *)
Again_first(before) == before = 0 /\ undefs_tail' # 0

(* Another pass is needed: the list has grown.                             *)
Again(before) == undefs_tail' # before

(* An entry of the map: its member is entered, or it is passed over.       *)
Look ==
    /\ input \in DOMAIN Input /\ IsArchive[input] /\ i \in Places(input)
    /\ LET m == i[1]
           s == i[2]
           o == Input[input][m]
           seen == ~Defines(o, s) \/ i \in included
           load == ~seen /\ m # last /\ Wanted(o, s)
       IN  \/ /\ load
              /\ AddObject(o)
              /\ loop' = (loop \/ Again(undefs_tail))
              /\ included' = included \cup {<<m, t>> : t \in 1..s}
              /\ last' = m
           \/ /\ ~load
              /\ included' = IF ~seen /\ (m = last \/ hash[s].type \in {"defined", "defweak"})
                             THEN included \cup {i} ELSE included
              /\ UNCHANGED <<tableVars, loop, last>>
    /\ i' = After(i)
    /\ UNCHANGED <<symbols, input, tail>>

(* The end of a pass that has added to the list.                           *)
Pass ==
    /\ input \in DOMAIN Input /\ IsArchive[input] /\ i \notin Places(input) /\ loop
    /\ i' = <<1, 1>> /\ loop' = FALSE /\ last' = 0
    /\ UNCHANGED <<symbols, tableVars, input, included, tail>>

-----------------------------------------------------------------------------
(* open_input_bfds: the input after this one.  A group is left when a pass *)
(* through it has added nothing to the list.                               *)
Done == Len(Input) + 1

(* Mutant of GroupAgain: as long as anything was undefined.                *)
GroupAgain_any == Group # {} /\ input = Max(Group) /\ undefs_tail' # 0

GroupAgain == Group # {} /\ input = Max(Group) /\ tail # undefs_tail'

NextInput ==
    /\ input' = IF GroupAgain THEN Min(Group) ELSE input + 1
    /\ tail' = IF Group # {} /\ input' = Min(Group) THEN undefs_tail' ELSE tail
    /\ i' = <<1, 1>> /\ included' = {} /\ last' = 0 /\ loop' = FALSE
    /\ UNCHANGED symbols

AddInput ==
    /\ input \in DOMAIN Input /\ ~IsArchive[input]
    /\ LET o == Input[input][1]
       IN  IF \E k \in DOMAIN loaded : loaded[k] = o THEN UNCHANGED tableVars ELSE AddObject(o)
    /\ NextInput

EndArchive ==
    /\ input \in DOMAIN Input /\ IsArchive[input] /\ i \notin Places(input) /\ ~loop
    /\ UNCHANGED tableVars
    /\ NextInput

Init ==
    /\ symbols \in Tables
    /\ hash = [s \in Symbol |-> New]
    /\ undefs = {} /\ undefs_tail = 0 /\ referenced = {} /\ loaded = <<>> /\ errors = {}
    /\ input = 1 /\ i = <<1, 1>> /\ included = {} /\ last = 0 /\ loop = FALSE
    /\ tail = 0

Next == Look \/ Pass \/ AddInput \/ EndArchive
Spec == Init /\ [][Next]_vars
FairSpec == Spec /\ WF_vars(Next)

-----------------------------------------------------------------------------
(* The entries of the hash table are of a type of the table.               *)
linkTypeOK ==
    /\ symbols \in [Object -> [Symbol -> Entries]]
    /\ hash \in [Symbol -> [type : Types, def : Object \cup {NoObject}, size : Nat]]
    /\ loaded \in Seq(Object)
    /\ errors \subseteq Object \X Symbol

(* The places in load order that say row of s.                             *)
Saying(row, s) == {k \in DOMAIN loaded : symbols[loaded[k]][s].row = row}
First(k, row, s) == k \in Saying(row, s) /\ \A j \in Saying(row, s) : k <= j

(* What a symbol comes to depends on what was said of it, not in which     *)
(* order: a definition beats a common declaration, which beats a weak      *)
(* definition, which beats references.  Among definitions and among weak   *)
(* ones the first counts, of commons the largest.                          *)
TypeOf(s) ==
    IF Saying("DEF_ROW", s) # {} THEN "defined"
    ELSE IF Saying("COMMON_ROW", s) # {} THEN "common"
    ELSE IF Saying("DEFW_ROW", s) # {} THEN "defweak"
    ELSE IF Saying("UNDEF_ROW", s) # {} THEN "undefined"
    ELSE IF Saying("UNDEFW_ROW", s) # {} THEN "undefweak" ELSE "new"
FirstDefines(row, s) == \E k \in DOMAIN loaded : hash[s].def = loaded[k] /\ First(k, row, s)
Largest(s) ==
    /\ \E k \in Saying("COMMON_ROW", s) : hash[s].size = symbols[loaded[k]][s].size
    /\ \A k \in Saying("COMMON_ROW", s) : hash[s].size >= symbols[loaded[k]][s].size
ResolvedRightly ==
    \A s \in Symbol :
      /\ hash[s].type = TypeOf(s)
      /\ hash[s].type = "defined" => FirstDefines("DEF_ROW", s)
      /\ hash[s].type = "defweak" => FirstDefines("DEFW_ROW", s)
      /\ hash[s].type = "common" => Largest(s)

(* Each definition of a symbol but the first is reported by way of the     *)
(* multiple_definition callback, and nothing else is.                      *)
DuplicatesReported ==
    errors = {e \in Object \X Symbol :
                \E k \in Saying("DEF_ROW", e[2]) : loaded[k] = e[1] /\ ~First(k, "DEF_ROW", e[2])}

(* Whichever object comes next, bfd_link_add_undef adds no symbol that is  *)
(* linked already (its assertion), and what is undefined is on the list,   *)
(* which ends with one of its symbols.                                     *)
UndefsSound ==
    /\ \A o \in Object, s \in Symbol : add_undef(o, s) => s \notin undefs \cup referenced
    /\ \A s \in Symbol : hash[s].type = "undefined" => s \in undefs
    /\ IF undefs = {} THEN undefs_tail = 0 ELSE undefs_tail \in undefs

(* elf_link_add_archive_symbols enters no member twice, however often the  *)
(* group makes it search an archive with included cleared.                 *)
LoadedOnce == \A j, k \in DOMAIN loaded : loaded[j] = loaded[k] => j = k

(* When elf_link_add_archive_symbols leaves an archive, and when           *)
(* open_input_bfds leaves the group, none of the members defines a symbol  *)
(* that is still undefined.                                                *)
Unsearched(a) ==
    {o \in {Input[a][k] : k \in DOMAIN Input[a]} :
       \E s \in Symbol : Defines(o, s) /\ hash[s].type = "undefined"}
Left(a) == a = input \/ (a \in Group /\ input = Max(Group))
SearchedThrough ==
    [][input' > input => \A a \in DOMAIN Input : IsArchive[a] /\ Left(a) => Unsearched(a)' = {}]_vars

(* elf_link_add_archive_symbols enters members only for what is undefined  *)
(* or common: in the order of loading, something before a member refers to *)
(* a symbol it defines.                                                    *)
InArchive(o) == \E a \in DOMAIN Input : IsArchive[a] /\ \E j \in DOMAIN Input[a] : Input[a][j] = o
MembersNeeded ==
    \A k \in DOMAIN loaded : InArchive(loaded[k]) =>
      \E j \in 1..(k - 1), s \in Symbol :
        /\ Defines(loaded[k], s)
        /\ symbols[loaded[j]][s].row \in {"UNDEF_ROW", "COMMON_ROW"}

(* The passes over an archive, which elf_link_add_archive_symbols repeats  *)
(* as long as undefs_tail moves, and those over a group, which             *)
(* open_input_bfds repeats likewise, come to an end.                       *)
Finishes == <>(input = Done)
=============================================================================
