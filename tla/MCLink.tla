-------------------------------- MODULE MCLink --------------------------------
(* An object, and a group of two archives, the first with two members.     *)
EXTENDS Link

MCInput     == <<<<"main">>, <<"m1", "m2">>, <<"m3">>>>
MCIsArchive == <<FALSE, TRUE, TRUE>>

Of(rows)  == [row : rows, size : {0}] \cup {None}
Common(n) == [row |-> "COMMON_ROW", size |-> n]

(* The functions that take one of the values.                              *)
Some(S, V) == {f \in [Symbol -> S] : \E s \in Symbol : f[s] \in V}

(* Every row meets every type, and each member may need the others.        *)
MCTables ==
    LET Main == Of({"UNDEF_ROW", "UNDEFW_ROW"}) \cup {Common(1)}
        M1   == Of({"UNDEF_ROW", "DEF_ROW", "DEFW_ROW"}) \cup {Common(2)}
        M2   == Of({"UNDEF_ROW", "DEF_ROW"}) \cup {Common(1)}
        M3   == Of({"UNDEF_ROW", "DEF_ROW", "DEFW_ROW"})
        Speaks(S) == Some(S, S \ {None})
    IN  {[o \in Object |-> CASE o = "main" -> t[1] [] o = "m1" -> t[2]
                             [] o = "m2" -> t[3] [] o = "m3" -> t[4]] :
         t \in Some(Main, Main \ Of({"UNDEFW_ROW"})) \X Speaks(M1) \X Speaks(M2) \X Speaks(M3)}
=============================================================================
