------------------------------ MODULE CallGraph ------------------------------
(***************************************************************************)
(* The call graph of gprof: cg_assemble (gprof/cg_arcs.c) numbers the      *)
(* functions depth first, collapsing cycles (gprof/cg_dfn.c), links the    *)
(* members of a cycle to a header, and passes flags down and times up the  *)
(* graph in the order of the numbers.                                      *)
(*                                                                         *)
(* A step is a call of cg_dfn or its return, and after that the treatment  *)
(* of one function.  A time is the set of the functions whose ticks are in *)
(* it, and a fraction is zero or not.                                      *)
(***************************************************************************)
EXTENDS Integers, SequencesExt

CONSTANTS Fns,       \* the functions are 1..Fns, in the order of the table
          Profiles   \* what was profiled, and the options

Fn     == 1..Fns
Header == (Fns + 1)..(2 * Fns)
Nobody == 0
DFN_NAN  == 0
DFN_BUSY == -1

Tables == [INCL_GRAPH : SUBSET Fn, EXCL_GRAPH : SUBSET Fn,
           INCL_TIME : SUBSET Fn, EXCL_TIME : SUBSET Fn]

ASSUME CallGraphAssumption ==
    /\ Fns \in Nat \ {0}
    /\ \A p \in Profiles : /\ \A f \in Fn : p.children[f] \in Seq(Fn)
                           /\ p.static \subseteq Fn \X Fn
                           /\ p.syms \in Tables

VARIABLES
    children,     \* function -> its arcs, in the order of the list
    static, syms, \* the arcs with a count of 0; the INCL_ and EXCL_ tables
    pc,           \* what cg_assemble is doing
    at,           \* where its loop has come to
    dfn_stack,    \* the calls of cg_dfn: a function and its arcs to come
    top_order, dfn_counter,
    head, next,   \* cyc.head and cyc.next, of functions and cycle headers
    sorted,       \* top_sorted_syms
    old_head,
    print_flag,
    fract,        \* prop.fract # 0
    hist,         \* whose ticks are the hist.time of a cycle header
    child_time,   \* whose ticks are the child_time of a function or header
    botched       \* a message "toporder botches" was printed

searchVars == <<dfn_stack, top_order, dfn_counter, head, next>>
flagVars   == <<old_head, print_flag, fract>>
timeVars   == <<hist, child_time, botched>>
vars == <<children, static, syms, pc, at, searchVars, sorted, flagVars, timeVars>>

-----------------------------------------------------------------------------
(* The list of cycle members from f on.                                    *)
RECURSIVE Chain(_, _)
Chain(link, f) == IF f = Nobody THEN <<>> ELSE <<f>> \o Chain(link, link[f])

dfn_depth == Len(dfn_stack)

(* Mutant of CycleTops: a member that has left the stack is not looked for. *)
CycleTops_stack(child) == {k \in 1..dfn_depth : dfn_stack[k].sym = child}

(* find_cycle: the place on the stack of the child, or of the cycle it is  *)
(* in already.                                                             *)
CycleTops(child) ==
    {k \in 1..dfn_depth : LET h == dfn_stack[k].sym
                          IN  child = h \/ (head[child] # child /\ head[child] = h)}

(* Mutant of Glom: what the child has glommed keeps its head.              *)
Glom_child(h, s, child) ==
    IF s.head[child] = child
    THEN LET glommed == Chain(s.next, child)
         IN  [s EXCEPT !.next[s.tail] = child, !.head[child] = h, !.tail = Last(glommed)]
    ELSE [s EXCEPT !.ok = @ /\ s.head[child] = h]

(* A function of the stack is glommed onto the cycle of h, with what it    *)
(* has glommed before.                                                     *)
Glom(h, s, child) ==
    IF s.head[child] = child
    THEN LET glommed == Chain(s.next, child)
         IN  [s EXCEPT !.next[s.tail] = child, !.tail = Last(glommed),
                       !.head = [f \in DOMAIN @ |-> IF f \in ToSet(glommed) THEN h ELSE @[f]]]
    ELSE [s EXCEPT !.ok = @ /\ s.head[child] = h]

find_cycle(child) ==
    IF CycleTops(child) = {} THEN [head |-> head, next |-> next, tail |-> Nobody, ok |-> FALSE]
    ELSE LET top  == Max(CycleTops(child))
             h    == dfn_stack[top].sym
             real == IF head[h] # h THEN head[h] ELSE h
         IN  FoldLeft(LAMBDA s, call : Glom(real, s, call.sym),
                      [head |-> head, next |-> next, tail |-> Last(Chain(next, h)), ok |-> TRUE],
                      SubSeq(dfn_stack, top + 1, dfn_depth))

Call(f) == [sym |-> f, arcs |-> children[f]]

(* Mutant of cg_dfn: what is busy is not looked at.                        *)
cg_dfn_blind(f, stack) ==
    IF top_order[f] = DFN_NAN
    THEN /\ dfn_stack' = Append(stack, Call(f))
         /\ top_order' = [top_order EXCEPT ![f] = DFN_BUSY]
         /\ UNCHANGED <<head, next, pc>>
    ELSE dfn_stack' = stack /\ UNCHANGED <<top_order, head, next, pc>>

(* cg_dfn up to its loop over the arcs: is_numbered, is_busy, pre_visit.   *)
cg_dfn(f, stack) ==
    \/ /\ top_order[f] \notin {DFN_NAN, DFN_BUSY}
       /\ dfn_stack' = stack /\ UNCHANGED <<top_order, head, next, pc>>
    \/ /\ top_order[f] = DFN_BUSY
       /\ LET s == find_cycle(f)
          IN  head' = s.head /\ next' = s.next /\ pc' = IF s.ok THEN pc ELSE "failed"
       /\ dfn_stack' = stack /\ UNCHANGED top_order
    \/ /\ top_order[f] = DFN_NAN
       /\ dfn_stack' = Append(stack, Call(f))
       /\ top_order' = [top_order EXCEPT ![f] = DFN_BUSY]
       /\ UNCHANGED <<head, next, pc>>

(* post_visit numbers the cycle of a head.                                 *)
Numbered(f) == ToSet(Chain(next, f))

-----------------------------------------------------------------------------
Arcs == {a \in Fn \X Fn : a[2] \in ToSet(children[a[1]])}

(* The arcs into a function, or into the cycle of a header, from outside.  *)
ArcsInto(h) == {a \in Arcs : head[a[2]] = h /\ head[a[1]] # h}

called(h) == ~(ArcsInto(h) \subseteq static)     \* ncalls # 0

(* The heads of cycles, in the order of the table.                         *)
Unattached == SelectSeq([f \in Fn |-> f], LAMBDA f : head[f] = f /\ next[f] # Nobody)

(* What is sorted by cmp_topo, in some order where it ties.                *)
Orders    == {s \in [Fn -> Fn] : IsInjective(s)}
TopSorted == {s \in Orders : \A i \in 2..Fns : top_order[s[i - 1]] <= top_order[s[i]]}

(* Mutant of inherit_flags: the flags stop at the first member.            *)
inherit_flags_one(f) == [print_flag |-> [print_flag EXCEPT ![f] = \E a \in ArcsInto(head[f]) : print_flag[a[1]]],
                         fract |-> [fract EXCEPT ![f] = \E a \in ArcsInto(head[f]) \ static : fract[a[1]]]]

(* A function, or a cycle and all its members, inherit from the parents.   *)
inherit_flags(f) ==
    LET done    == ToSet(Chain(next, head[f]))
        printed == \E a \in ArcsInto(head[f]) : print_flag[a[1]]
        passes  == \E a \in ArcsInto(head[f]) \ static : fract[a[1]]
    IN  [print_flag |-> [g \in Fn \cup Header |-> IF g \in done THEN printed ELSE print_flag[g]],
         fract      |-> [g \in Fn \cup Header |-> IF g \in done THEN passes ELSE fract[g]]]

(* What the tables of an option make of an inherited flag.                 *)
Ruled(f, inherited, incl, excl) ==
    IF inherited THEN f \in incl \/ f \notin excl
    ELSE f \in incl \/ (incl = {} /\ f \notin excl)

(* Mutant of Considered: a child that passes no time on is not left out.    *)
Considered_any(f) ==
    {a \in Arcs \ static : /\ a[1] = f /\ a[2] # f
                           /\ head[a[2]] # a[2] => head[a[2]] # head[f]}

(* The arcs along which propagate_time comes to its check of the order.    *)
Considered(f) ==
    {a \in Arcs \ static : /\ a[1] = f /\ a[2] # f /\ fract[a[2]]
                           /\ head[a[2]] # a[2] => head[a[2]] # head[f]}

Botched(a) == top_order[a[1]] <= top_order[a[2]]

(* The time of a function or a cycle, with its children's.                 *)
Total(h) == child_time[h] \cup IF h \in Header THEN hist[h] ELSE {h}

Shares(f) == UNION {Total(head[a[2]]) : a \in {b \in Considered(f) :
                        /\ Botched(b) => head[b[2]] # b[2]
                        /\ called(head[b[2]])}}

-----------------------------------------------------------------------------
later == <<sorted, flagVars, timeVars>>

Init ==
    /\ \E p \in Profiles : children = p.children /\ static = p.static /\ syms = p.syms
    /\ pc = "dfn" /\ at = 1 /\ dfn_stack = <<>>
    /\ top_order = [f \in Fn |-> DFN_NAN] /\ dfn_counter = DFN_NAN
    /\ head = [f \in Fn \cup Header |-> f] /\ next = [f \in Fn \cup Header |-> Nobody]
    /\ sorted = <<>> /\ old_head = Nobody
    /\ print_flag = [f \in Fn \cup Header |-> FALSE] /\ fract = [f \in Fn \cup Header |-> FALSE]
    /\ hist = [h \in Header |-> {}] /\ child_time = [f \in Fn \cup Header |-> {}]
    /\ botched = FALSE

(* The loop of cg_assemble over the functions that are not numbered.       *)
Root ==
    /\ pc = "dfn" /\ dfn_stack = <<>> /\ at \in Fn
    /\ IF top_order[at] = DFN_NAN THEN cg_dfn(at, <<>>)
       ELSE UNCHANGED <<dfn_stack, top_order, head, next, pc>>
    /\ at' = at + 1
    /\ UNCHANGED <<children, static, syms, dfn_counter, later>>

(* The loop of cg_dfn over the arcs of a function.                         *)
Visit ==
    /\ pc = "dfn" /\ dfn_stack # <<>> /\ Last(dfn_stack).arcs # <<>>
    /\ cg_dfn(Head(Last(dfn_stack).arcs), [dfn_stack EXCEPT ![dfn_depth].arcs = Tail(@)])
    /\ UNCHANGED <<children, static, syms, at, dfn_counter, later>>

post_visit ==
    /\ pc = "dfn" /\ dfn_stack # <<>> /\ Last(dfn_stack).arcs = <<>>
    /\ LET f == Last(dfn_stack).sym
       IN  IF head[f] = f
           THEN /\ dfn_counter' = dfn_counter + 1
                /\ top_order' = [g \in Fn |-> IF g \in Numbered(f) THEN dfn_counter' ELSE top_order[g]]
           ELSE UNCHANGED <<dfn_counter, top_order>>
    /\ dfn_stack' = Front(dfn_stack)
    /\ UNCHANGED <<children, static, syms, pc, at, head, next, later>>

(* cycle_link, and the sort after it.                                      *)
cycle_link ==
    /\ pc = "dfn" /\ dfn_stack = <<>> /\ at \notin Fn
    /\ LET header(f) == Fns + CHOOSE n \in DOMAIN Unattached : f \in ToSet(Chain(next, Unattached[n]))
           onCycle(f) == \E n \in DOMAIN Unattached : f \in ToSet(Chain(next, Unattached[n]))
           used(h)    == h - Fns \in DOMAIN Unattached
       IN  /\ head' = [f \in DOMAIN head |-> IF f \in Fn /\ onCycle(f) THEN header(f) ELSE head[f]]
           /\ next' = [f \in DOMAIN next |-> IF used(f) THEN Unattached[f - Fns] ELSE next[f]]
           /\ print_flag' = [f \in DOMAIN print_flag |-> used(f) \/ print_flag[f]]
    /\ sorted' \in TopSorted
    /\ pc' = "flags" /\ at' = Fns
    /\ UNCHANGED <<children, static, syms, dfn_stack, top_order, dfn_counter, old_head, fract, timeVars>>

propagate_flags ==
    /\ pc = "flags" /\ at \in Fn
    /\ LET f     == sorted[at]
           flags == IF head[f] # old_head THEN inherit_flags(f)
                    ELSE [print_flag |-> print_flag, fract |-> fract]
       IN  /\ old_head' = head[f]
           /\ print_flag' = [flags.print_flag EXCEPT ![f] = Ruled(f, @, syms.INCL_GRAPH, syms.EXCL_GRAPH)]
           /\ fract' = [flags.fract EXCEPT ![f] = Ruled(f, @, syms.INCL_TIME, syms.EXCL_TIME)]
    /\ at' = at - 1
    /\ UNCHANGED <<children, static, syms, pc, searchVars, sorted, timeVars>>

cycle_time ==
    /\ pc = "flags" /\ at \notin Fn
    /\ hist' = [h \in Header |-> {f \in ToSet(Chain(next, next[h])) : fract[f]}]
    /\ pc' = "times" /\ at' = 1
    /\ UNCHANGED <<children, static, syms, searchVars, sorted, flagVars, child_time, botched>>

propagate_time ==
    /\ pc = "times" /\ at \in Fn
    /\ LET f == sorted[at]
       IN  IF fract[f]
           THEN /\ child_time' = [g \in DOMAIN child_time |->
                                     IF g \in {f, head[f]} THEN child_time[g] \cup Shares(f) ELSE child_time[g]]
                /\ botched' = (botched \/ \E a \in Considered(f) : Botched(a))
           ELSE UNCHANGED <<child_time, botched>>
    /\ at' = at + 1
    /\ pc' = IF at = Fns THEN "done" ELSE pc
    /\ UNCHANGED <<children, static, syms, searchVars, sorted, flagVars, hist>>

Next == Root \/ Visit \/ post_visit \/ cycle_link \/ propagate_flags \/ cycle_time \/ propagate_time

Spec == Init /\ [][Next]_vars

-----------------------------------------------------------------------------
(* The state of gprof's call graph is well-formed, and once cg_assemble    *)
(* has left the numbering every function has a number.                     *)
cgTypeOK ==
    /\ pc \in {"dfn", "failed", "flags", "times", "done"} /\ at \in 0..(Fns + 1)
    /\ dfn_counter \in 0..Fns /\ dfn_depth <= Fns
    /\ top_order \in [Fn -> IF pc = "dfn" THEN DFN_BUSY..dfn_counter ELSE 1..dfn_counter]
    /\ head \in [Fn \cup Header -> Fn \cup Header]
    /\ next \in [Fn \cup Header -> {Nobody} \cup Fn]
    /\ print_flag \in [Fn \cup Header -> BOOLEAN] /\ fract \in [Fn \cup Header -> BOOLEAN]
    /\ hist \in [Header -> SUBSET Fn] /\ child_time \in [Fn \cup Header -> SUBSET Fn]

(* Where a path of some arcs can lead from a function, by its definition.  *)
Reach(arcs, f) ==
    LET R[n \in 0..Fns] ==
            IF n = 0 THEN {f}
            ELSE LET before == R[n - 1] IN before \cup {a[2] : a \in {b \in arcs : b[1] \in before}}
    IN  R[Fns]

(* The pairs of functions with call paths both ways.                       *)
Mutual ==
    LET arcs  == Arcs
        paths == UNION {{<<f, g>> : g \in Reach(arcs, f)} : f \in Fn}
    IN  {a \in paths : <<a[2], a[1]>> \in paths}

numbered == {f \in Fn : top_order[f] \notin {DFN_NAN, DFN_BUSY}}

(* find_cycle, at any time of the search and at the end: only functions    *)
(* with call paths both ways are glommed together; of the functions that   *)
(* are numbered, all of those are, and the list of a cycle has each once.  *)
CyclesExact ==
    pc \in {"dfn", "done"} =>
        LET mutual == Mutual
            known  == numbered
        IN  /\ \A f, g \in Fn : /\ head[f] = head[g] => <<f, g>> \in mutual
                                /\ <<f, g>> \in mutual /\ {f, g} \subseteq known => head[f] = head[g]
            /\ \A f \in known :
                  LET members == Chain(next, head[f])
                  IN  IsInjective(members) /\ ToSet(members) \cap Fn = {g \in Fn : head[g] = head[f]}

(* post_visit numbers every function, each after everything it calls, and  *)
(* a cycle as one: along an arc the numbers fall, except within a cycle.   *)
NumbersFall ==
    /\ cgTypeOK
    /\ pc \in {"dfn", "done"} =>
         LET mutual == Mutual
         IN  \A a \in Arcs : a[1] \in numbered =>
                /\ a[2] \in numbered
                /\ IF a \in mutual THEN top_order[a[2]] = top_order[a[1]]
                   ELSE top_order[a[2]] < top_order[a[1]]

(* The firewalls of find_cycle never stop gprof, and propagate_time never  *)
(* finds that the order "botches".                                         *)
FirewallsHold == pc # "failed" /\ ~botched

(* One pass from the last function to the first settles the flags: at the  *)
(* end each function's are what the tables make of its parents', or of     *)
(* those of the callers of its cycle, and a cycle's entry has the callers' *)
(* alone: one without callers is not printed.                              *)
FlagsSettled ==
    pc = "done" =>
        LET mutual    == Mutual
            into(f)   == {a \in Arcs : <<a[2], f>> \in mutual /\ <<a[1], f>> \notin mutual}
            prints(f) == \E a \in into(f) : print_flag[a[1]]
            passes(f) == \E a \in into(f) \ static : fract[a[1]]
        IN  \A f \in Fn :
                /\ print_flag[f] = Ruled(f, prints(f), syms.INCL_GRAPH, syms.EXCL_GRAPH)
                /\ fract[f] = Ruled(f, passes(f), syms.INCL_TIME, syms.EXCL_TIME)
                /\ head[f] \in Header => print_flag[head[f]] = prints(f) /\ fract[head[f]] = passes(f)

(* One pass from the first function to the last gathers the times: at the  *)
(* end a function that passes time on, or its cycle, has the ticks of      *)
(* exactly the functions that paths of calls lead to, and no tick is       *)
(* gathered where time does not pass.                                      *)
TimesExact ==
    pc = "done" =>
        LET passing == {a \in (Arcs \ static) \cup Mutual : fract[a[1]] /\ fract[a[2]]}
        IN  \A f \in Fn : IF fract[f] THEN Total(head[f]) = Reach(passing, f) ELSE child_time[f] = {}
=============================================================================
