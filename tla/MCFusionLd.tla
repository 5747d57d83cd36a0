------------------------------ MODULE MCFusionLd ------------------------------
(***************************************************************************)
(* Sections of two words with a relocation on each: every type, against    *)
(* every kind of symbol, with addends on both sides of zero and of 2^16.   *)
(***************************************************************************)
EXTENDS FusionLd, TLC

MCSymtab == [s \in {".text", "*ABS*", "g", "e", "u", "w", "d"} |->
               CASE s = ".text" -> [kind |-> "text", value |-> 0]
                 [] s = "*ABS*" -> [kind |-> "defined", value |-> 0]
                 [] s = "g"     -> [kind |-> "text", value |-> 4]
                 [] s = "e"     -> [kind |-> "defined", value |-> 74565]
                 [] s = "u"     -> [kind |-> "undef", value |-> 0]
                 [] s = "w"     -> [kind |-> "undefweak", value |-> 0]
                 [] s = "d"     -> [kind |-> "discarded", value |-> 8]]

Rela(offset, types, names, addends) ==
    [r_offset : {offset}, r_type : types, sym : names, r_addend : addends]

ObjectOf(types) ==
    {[contents |-> (0 :> w @@ 4 :> {4, 9, 30}), rela |-> <<r, q>>, symtab |-> MCSymtab] :
        w \in {{}, Bit},
        r \in Rela(0, types, DOMAIN MCSymtab, {-4, 0, 65541}),
        q \in Rela(4, {"R_FUSION_LUI", "R_FUSION_BRANCH"}, {".text", "u"}, {12})}

AllObjects       == ObjectOf(R_FUSION)

Placements == {[vma |-> 262144, output_offset |-> 0], [vma |-> 98304, output_offset |-> 24]}
=============================================================================
