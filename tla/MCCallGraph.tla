----------------------------- MODULE MCCallGraph -----------------------------
(***************************************************************************)
(* Every call graph of four functions with up to MaxArcs arcs, its lists   *)
(* in every order; and those with up to MaxOptionArcs arcs, and one of a   *)
(* function to itself, with an arc that was not called or an option given. *)
(***************************************************************************)
EXTENDS CallGraph

CONSTANTS MaxArcs, MaxOptionArcs

NoTables == [INCL_GRAPH |-> {}, EXCL_GRAPH |-> {}, INCL_TIME |-> {}, EXCL_TIME |-> {}]

Lists == {s \in UNION {[1..n -> Fn] : n \in 0..(Fns - 1)} : IsInjective(s)}

(* The arcs of a function to others, in every order.                       *)
Childrens(f) == {s \in Lists : f \notin ToSet(s)}

ArcCount(c) == FoldLeft(LAMBDA n, s : n + Len(s), 0, c)

AllGraphs == FoldLeft(LAMBDA cs, f : {c \in {Append(d, s) : d \in cs, s \in Childrens(f)} : ArcCount(c) <= MaxArcs},
                   {<<>>}, [f \in Fn |-> f])

Plain == {[children |-> c, static |-> {}, syms |-> NoTables] : c \in AllGraphs}

(* Some arcs in ascending order.                                           *)
Ascending(arcs) == [f \in Fn |-> SetToSortSeq({a[2] : a \in {b \in arcs : b[1] = f}}, <)]

Optioned ==
    LET others == {a \in Fn \X Fn : a[1] # a[2]}
        graphs == {Ascending(arcs \cup {<<1, 1>>}) : arcs \in UNION {kSubset(n, others) : n \in 0..MaxOptionArcs}}
    IN  UNION {{[children |-> c, static |-> {a}, syms |-> NoTables] : a \in {b \in Fn \X Fn : b[2] \in ToSet(c[b[1]])}}
                 \cup {[children |-> c, static |-> {}, syms |-> [NoTables EXCEPT ![t] = {f}]] :
                           t \in DOMAIN NoTables, f \in Fn} : c \in graphs}

MCProfiles == Plain \cup Optioned
=============================================================================
