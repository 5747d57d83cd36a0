--------------------------------- MODULE Gold ---------------------------------
(***************************************************************************)
(* The tasks of a link with gold: what each one waits for, locks, deletes  *)
(* and queues (gold.cc, readsyms.cc, archive.cc, reloc.cc, common.cc,      *)
(* dirsearch.cc, layout.cc), as the constants of Workqueue.                *)
(*                                                                         *)
(* The input files are 1..Inputs.  A blocker orders each one after the one *)
(* before it.  Reading a file may fail, and an archive may turn out to be  *)
(* for another target, in which case the search goes on once.  The objects *)
(* are numbered in the order of the files they come from.                  *)
(***************************************************************************)
EXTENDS Workqueue, SequencesExt

CONSTANTS Inputs,        \* the number of input files
          Archive,       \* the files that are archives
          NeedsSearch,   \* the files given with -l
          Relobj,        \* the objects, numbered from 1
          FileOf,        \* object -> the file it is in
          RoundOf,       \* object -> 2 if it is in the file found by a second search
          MustFollow,    \* objects with relocs_must_follow_section_writes
          ThreadCounts   \* the thread counts the options may ask for

ASSUME InputAssumption ==
    /\ Inputs \in Nat \ {0}
    /\ Archive \subseteq 1..Inputs /\ NeedsSearch \subseteq 1..Inputs
    /\ FileOf \in [Relobj -> 1..Inputs]
    /\ RoundOf \in [Relobj -> {1, 2}]
    /\ \A o, p \in Relobj : o < p => FileOf[o] <= FileOf[p]

File == 1..Inputs

(* A task: its class, the file or object, and a variant: the search round, *)
(* the object before it in a chain, or any_postprocessing_sections.        *)
T(class, of, variant) == [class |-> class, of |-> of, variant |-> variant]

Round == {1, 2}
Prev  == Relobj \cup {0, -1} \* 0: the blocker of Allocate_commons_task, -1: NULL or the dummy
Post  == {0, 1}              \* 1: there are postprocessing sections

GoldTask ==
    {T("Dir_cache_task", 0, 0), T("Middle_runner", 0, 0), T("Allocate_commons_task", 0, 0),
     T("Write_symbols_task", 0, 0), T("Write_data_task", 0, 0)}
    \cup {T(c, f, r) : c \in {"Read_symbols", "Add_symbols", "Unblock_token"}, f \in File, r \in Round}
    \cup {T(c, o, p) : c \in {"Read_relocs", "Scan_relocs"}, o \in Relobj, p \in Prev}
    \cup {T("Layout_task_runner", 0, p) : p \in Prev}
    \cup {T("Relocate_task", o, p) : o \in Relobj, p \in Post}
    \cup {T(c, 0, p) : c \in {"Write_sections_task", "Write_after_input_sections_task",
                              "Close_task_runner"}, p \in Post}

(* The tokens.  The members of an archive share the token of its file.     *)
K(name, of) == [name |-> name, of |-> of]
DirToken    == K("search_path", 0)
Symbols(f)  == K("symbols", f)     \* next_blocker of the input file f
Relocs(o)   == K("relocs", o)      \* next_blocker of the object o
FileToken(f, round) == K("file", 2 * f + round)
ObjectToken(o) == FileToken(FileOf[o], RoundOf[o])

InputSections  == K("input_sections_blocker", 0)
OutputSections == K("output_sections_blocker", 0)
Final          == K("final_blocker", 0)
NewFinal       == K("new_final_blocker", 0)

GoldBlocker == {DirToken, InputSections, OutputSections, Final, NewFinal}
               \cup {Symbols(f) : f \in File} \cup {Relocs(p) : p \in Prev}
GoldToken   == GoldBlocker \cup {FileToken(f, r) : f \in File, r \in Round}

-----------------------------------------------------------------------------
(* this_blocker of the task that adds the symbols of file f.               *)
ThisBlocker(f, round) == IF f = 1 \/ round = 2 THEN <<>> ELSE <<Symbols(f - 1)>>

When(cond, s) == IF cond THEN s ELSE <<>>

(* Relocate_task::is_runnable, and a mutant that ignores the file's lock.  *)
RelocateWaitsNot(o) == When(o \in MustFollow, <<OutputSections>>)
RelocateWaits(o)    == When(o \in MustFollow, <<OutputSections>>) \o <<ObjectToken(o)>>

(* is_runnable of every class.                                             *)
GoldWaitsFor == [t \in GoldTask |->
    CASE t.class = "Read_symbols"    -> When(t.of \in NeedsSearch, <<DirToken>>)
      [] t.class = "Add_symbols"     -> ThisBlocker(t.of, t.variant)
                                        \o When(t.of \notin Archive, <<FileToken(t.of, t.variant)>>)
      [] t.class = "Unblock_token"   -> ThisBlocker(t.of, t.variant)
      [] t.class = "Middle_runner"   -> <<Symbols(Inputs)>>
      [] t.class = "Read_relocs"     -> <<ObjectToken(t.of)>>
      [] t.class = "Scan_relocs"     -> When(t.variant # -1, <<Relocs(t.variant)>>)
                                        \o <<ObjectToken(t.of)>>
      [] t.class = "Layout_task_runner" -> <<Relocs(t.variant)>>
      [] t.class = "Relocate_task"   -> RelocateWaits(t.of)
      [] t.class = "Write_after_input_sections_task" ->
            <<IF t.variant = 1 THEN Final ELSE InputSections>>
      [] t.class = "Close_task_runner" -> <<IF t.variant = 1 THEN NewFinal ELSE Final>>
      [] OTHER -> <<>>]

(* locks of every class.                                                   *)
GoldLocks == [t \in GoldTask |->
    CASE t.class = "Dir_cache_task"  -> <<DirToken>>
      [] t.class = "Add_symbols"     -> <<Symbols(t.of), FileToken(t.of, t.variant)>>
      [] t.class = "Unblock_token"   -> <<Symbols(t.of)>>
      [] t.class = "Allocate_commons_task" -> <<Relocs(0)>>
      [] t.class = "Read_relocs"     -> <<ObjectToken(t.of)>>
      [] t.class = "Scan_relocs"     -> <<ObjectToken(t.of), Relocs(t.of)>>
      [] t.class \in {"Write_symbols_task", "Write_data_task"} -> <<Final>>
      [] t.class = "Write_sections_task" ->
            <<OutputSections>> \o When(t.variant = 0, <<InputSections>>) \o <<Final>>
      [] t.class = "Relocate_task"   ->
            When(t.variant = 0, <<InputSections>>) \o <<Final, ObjectToken(t.of)>>
      [] t.class = "Write_after_input_sections_task" ->
            <<IF t.variant = 1 THEN NewFinal ELSE Final>>
      [] OTHER -> <<>>]

(* The classes whose destructor deletes this_blocker_ of an input file,    *)
(* and a mutant where Read_symbols does too.                               *)
OwnersAndReader == {"Add_symbols", "Unblock_token", "Read_symbols"}
Owners          == {"Add_symbols", "Unblock_token"}

(* The destructors: the blocker a task waited for, where it is its own.    *)
GoldOwns == [t \in GoldTask |->
    CASE t.class \in Owners -> ToSet(ThisBlocker(t.of, t.variant))
      [] t.class = "Scan_relocs" -> {Relocs(t.variant)} \ {Relocs(-1)}
      [] t.class \in {"Middle_runner", "Layout_task_runner", "Close_task_runner"} ->
            ToSet(GoldWaitsFor[t])
      [] OTHER -> {}]

-----------------------------------------------------------------------------
(* What run of each class does to the workqueue.                           *)

Queue(t)        == <<[op |-> "queue", arg |-> t]>>
QueueSoon(t)    == <<[op |-> "queue_soon", arg |-> t]>>
QueueNext(t)    == <<[op |-> "queue_next", arg |-> t]>>
AddBlockers(k, n) == <<[op |-> "add_blocker", arg |-> [token |-> k, count |-> n]]>>
SetThreads(n)   == <<[op |-> "set_thread_count", arg |-> n]>>

Counts == SetToSeq(ThreadCounts)
Each(s, Calls_(_)) == FlattenSeq([j \in DOMAIN s |-> Calls_(s[j])])
Files == [f \in File |-> f]

(* Mutant of queue_initial_tasks: the runner is queued first.              *)
RunnerFirst(n) ==
    AddBlockers(DirToken, 1) \o Queue(T("Dir_cache_task", 0, 0))
    \o SetThreads(n)
    \o Each(Files, LAMBDA f : AddBlockers(Symbols(f), 1))
    \o Queue(T("Middle_runner", 0, 0))
    \o Each(Files, LAMBDA f : Queue(T("Read_symbols", f, 1)))

(* main: Dirsearch::initialize, then queue_initial_tasks.                  *)
queue_initial_tasks(n) ==
    AddBlockers(DirToken, 1) \o Queue(T("Dir_cache_task", 0, 0))
    \o SetThreads(n)
    \o Each(Files, LAMBDA f : AddBlockers(Symbols(f), 1) \o Queue(T("Read_symbols", f, 1)))
    \o Queue(T("Middle_runner", 0, 0))

(* Read_symbols::run: the file is added, or cannot be read.                *)
ReadSymbols(f, round) ==
    << QueueNext(T("Add_symbols", f, round)), QueueSoon(T("Unblock_token", f, round)) >>

(* Add_archive_symbols::run may go on with the search.  A second search    *)
(* that finds another file takes it.                                       *)
requeue_late(f) == Queue(T("Read_symbols", f, 2)) \o AddBlockers(Symbols(f), 1)   \* a mutant
requeue(f) == AddBlockers(Symbols(f), 1) \o Queue(T("Read_symbols", f, 2))
AddSymbols(f, round) ==
    IF f \in Archive /\ round = 1 THEN << <<>>, requeue(f) >> ELSE << <<>> >>

(* The objects of the files that were added, when all have been.           *)
Objects(was_queued) ==
    SetToSortSeq({o \in Relobj :
                    /\ T("Add_symbols", FileOf[o], RoundOf[o]) \in was_queued
                    /\ RoundOf[o] = 1 => T("Read_symbols", FileOf[o], 2) \notin was_queued}, <)

(* queue_middle_tasks: a chain of blockers through the objects.            *)
queue_middle_tasks(n, define_common, objs) ==
    LET first   == IF define_common THEN 0 ELSE -1
        prev(j) == IF j = 1 THEN first ELSE objs[j - 1]
    IN  SetThreads(n)
        \o When(define_common, AddBlockers(Relocs(0), 1) \o Queue(T("Allocate_commons_task", 0, 0)))
        \o Each([j \in DOMAIN objs |-> j],
                LAMBDA j : AddBlockers(Relocs(objs[j]), 1)
                           \o Queue(T("Read_relocs", objs[j], prev(j))))
        \o Queue(T("Layout_task_runner", 0, prev(Len(objs) + 1)))

(* The blockers that queue_final_tasks counts, and a mutant one short.     *)
FinalShort(post, objs)  == 2 + Len(objs) + (1 - post)
FinalCount(post, objs)  == 3 + Len(objs) + (1 - post)
InputCount(objs)        == 1 + Len(objs)

(* queue_final_tasks: post is 1 for any_postprocessing_sections.           *)
queue_final_tasks(n, post, objs) ==
    SetThreads(n)
    \o When(post = 0, AddBlockers(InputSections, InputCount(objs)))
    \o AddBlockers(OutputSections, 1)
    \o AddBlockers(Final, FinalCount(post, objs))
    \o Queue(T("Write_symbols_task", 0, 0))
    \o Queue(T("Write_sections_task", 0, post))
    \o Queue(T("Write_data_task", 0, 0))
    \o Each(objs, LAMBDA o : Queue(T("Relocate_task", o, post)))
    \o When(post = 1, AddBlockers(NewFinal, 1))
    \o Queue(T("Write_after_input_sections_task", 0, post))
    \o Queue(T("Close_task_runner", 0, post))

Both(P(_)) == <<P(TRUE), P(FALSE)>>

GoldProgram(t, was_queued) ==
    IF t = Main THEN [j \in DOMAIN Counts |-> queue_initial_tasks(Counts[j])]
    ELSE CASE t.class = "Read_symbols" -> ReadSymbols(t.of, t.variant)
           [] t.class = "Add_symbols"  -> AddSymbols(t.of, t.variant)
           [] t.class = "Read_relocs"  -> << QueueNext(T("Scan_relocs", t.of, t.variant)) >>
           [] t.class = "Middle_runner" ->
                Each(Counts, LAMBDA n : Both(LAMBDA c : queue_middle_tasks(n, c, Objects(was_queued))))
           [] t.class = "Layout_task_runner" ->
                Each(Counts, LAMBDA n :
                  Both(LAMBDA c : queue_final_tasks(n, IF c THEN 1 ELSE 0, Objects(was_queued))))
           [] OTHER -> << <<>> >>

-----------------------------------------------------------------------------
(* Properties of the link.                                                 *)

Started(t) == t \in queued /\ (t \in done \/ \E i \in Thread : task[i] = t)

(* The symbols of the files go into the symbol table in the order of the   *)
(* command line, however many threads read them and however often a search *)
(* goes on: a file is added when every earlier one was added or given up.  *)
AddedInOrder ==
    \A f \in File : \A r \in Round :
        Started(T("Add_symbols", f, r)) =>
          \A t \in queued : t.class = "Read_symbols" /\ t.of < f =>
            {T("Add_symbols", t.of, t.variant), T("Unblock_token", t.of, t.variant)} \cap done # {}

(* What is written is written in order: a section that postprocesses input *)
(* sections after them, an object whose relocations must follow the output *)
(* sections after those; and the output file is closed when every task     *)
(* that writes to it has been queued and is done.                          *)
Writers == {"Write_symbols_task", "Write_sections_task", "Write_data_task", "Relocate_task",
            "Write_after_input_sections_task"}
WrittenInOrder ==
    /\ \A p \in Post : Started(T("Write_after_input_sections_task", 0, p)) =>
         \A t \in queued : t.class \in {"Relocate_task", "Write_sections_task"} => t \in done
    /\ \A o \in MustFollow : \A p \in Post : Started(T("Relocate_task", o, p)) =>
         T("Write_sections_task", 0, p) \in done
    /\ \A p \in Post : Started(T("Close_task_runner", 0, p)) =>
         /\ \A t \in queued : t.class \in Writers => t \in done
         /\ \A i \in Thread : prog[i] = <<>>
=============================================================================
