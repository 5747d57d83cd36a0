------------------------------- MODULE FusionLd -------------------------------
(***************************************************************************)
(* The linker back end for one input section: fusion_elf_relocate_section  *)
(* and what it calls (bfd/elf32-fusion.c, bfd/reloc.c), one relocation a   *)
(* step, inside elf_link_input_bfd (bfd/elflink.c), which after a          *)
(* relocatable link moves the relocations along with the section.  The     *)
(* output of a relocatable link can be linked again.                       *)
(***************************************************************************)
EXTENDS FusionIsa, Sequences

CONSTANTS Object,       \* the sections to link: [contents, rela, symtab]
          Placement,    \* where a link puts a section: [vma, output_offset]
          MaxPartial    \* bound on the relocatable links before the final one

ASSUME PartialAssumption == MaxPartial \in Nat

VARIABLES ldphase,     \* "idle", "object", "relocate", "adjust" or "linked"
          contents,    \* offset in the section -> word
          rela,        \* its relocations: [r_offset, r_type, sym, r_addend]
          symtab,      \* symbol -> [kind, value]
          rel,         \* the loop index of relocate_section
          place,       \* this link: [vma, output_offset, relocatable]
          partials,    \* relocatable links done
          reported,    \* symbols given to the undefined_symbol callback
          origin,      \* history: how far relocatable links moved the section
          object       \* history: [contents, rela, symtab] as first read

ldVars == <<ldphase, contents, rela, symtab, rel, place, partials, reported, origin, object>>

StnUndef == "STN_UNDEF"   \* symbol index 0

MASK_ALL == Bit

R_FUSION == {"R_FUSION_NONE", "R_FUSION_32", "R_FUSION_LI", "R_FUSION_LUI", "R_FUSION_LI_PCREL",
             "R_FUSION_LUI_PCREL", "R_FUSION_SYS", "R_FUSION_I", "R_FUSION_RELATIVE",
             "R_FUSION_LOAD", "R_FUSION_STORE", "R_FUSION_BRANCH", "R_FUSION_JUMP",
             "R_FUSION_JUMP_O"}
SymKind  == {"text", "defined", "undef", "undefweak", "discarded"}

(* An input section as the assembler writes them: words at offsets, at     *)
(* most one relocation on each, against a symbol of the table, the section *)
(* symbol or the absolute section's.                                       *)
Reloc(names) == [r_offset : Int, r_type : R_FUSION, sym : names \cup {StnUndef}, r_addend : Int]

WellFormed(o) ==
    /\ \A a \in DOMAIN o.contents : a \in Int /\ o.contents[a] \subseteq Bit
    /\ o.rela \in Seq(Reloc(DOMAIN o.symtab))
    /\ \A i \in DOMAIN o.rela : o.rela[i].r_offset \in DOMAIN o.contents
    /\ \A i, j \in DOMAIN o.rela : o.rela[i].r_offset = o.rela[j].r_offset => i = j
    /\ \A s \in DOMAIN o.symtab : o.symtab[s] \in [kind : SymKind, value : Int]
    /\ ".text" \in DOMAIN o.symtab => o.symtab[".text"].kind = "text"
    /\ "*ABS*" \in DOMAIN o.symtab => o.symtab["*ABS*"] = [kind |-> "defined", value |-> 0]

ASSUME ObjectAssumption == \A o \in Object : WellFormed(o)
ASSUME PlacementAssumption == \A p \in Placement : p.vma \in Int /\ p.output_offset \in Int

-----------------------------------------------------------------------------
(* fusion_elf_howto_table.  No entry complains of overflow; R_FUSION_NONE  *)
(* has size 3, which is no bytes at all.                                   *)
HOWTO(rightshift, pc_relative, src_mask, dst_mask) ==
    [rightshift |-> rightshift, pc_relative |-> pc_relative,
     src_mask |-> src_mask, dst_mask |-> dst_mask]

fusion_elf_howto_table(r_type) ==
    CASE r_type = "R_FUSION_NONE"      -> HOWTO(0, FALSE, {}, {})
      [] r_type = "R_FUSION_32"        -> HOWTO(0, FALSE, MASK_ALL, MASK_ALL)
      [] r_type = "R_FUSION_LI"        -> HOWTO(0, FALSE, {}, MASK_IMM_LI)
      [] r_type = "R_FUSION_LUI"       -> HOWTO(16, FALSE, {}, MASK_IMM_LI)
      [] r_type = "R_FUSION_LI_PCREL"  -> HOWTO(0, FALSE, {}, GEN_LI_IMM(MASK_IMM_LI))
      [] r_type = "R_FUSION_LUI_PCREL" -> HOWTO(0, FALSE, {}, GEN_LI_IMM(MASK_IMM_LI))
      [] r_type = "R_FUSION_SYS"       -> HOWTO(0, FALSE, MASK_ALL, GEN_SYS_IMM(MASK_ALL))
      [] r_type = "R_FUSION_I"         -> HOWTO(0, FALSE, MASK_ALL, MASK_ALL)
      [] r_type = "R_FUSION_RELATIVE"  -> HOWTO(0, TRUE, {}, MASK_ALL)
      [] r_type = "R_FUSION_LOAD"      -> HOWTO(0, TRUE, {}, GEN_L_IMM(MASK_ALL))
      [] r_type = "R_FUSION_STORE"     -> HOWTO(0, TRUE, {}, GEN_S_IMM(MASK_ALL))
      [] r_type = "R_FUSION_BRANCH"    -> HOWTO(0, TRUE, {}, GEN_B_IMM(MASK_ALL))
      [] r_type = "R_FUSION_JUMP"      -> HOWTO(0, TRUE, {}, GEN_J_IMM(MASK_ALL))
      [] r_type = "R_FUSION_JUMP_O"    -> HOWTO(0, FALSE, {}, GEN_J_IMM(MASK_ALL))

(* fusion_reloc_map, as fusion_reloc_type_lookup reads it.                 *)
fusion_reloc_map(code) ==
    CASE code = "32"       -> "R_FUSION_32"
      [] code = "16"       -> "R_FUSION_LI"
      [] code = "HI16"     -> "R_FUSION_LUI"
      [] code = "8"        -> "R_FUSION_SYS"
      [] code = "12"       -> "R_FUSION_I"
      [] code = "STORE"    -> "R_FUSION_STORE"
      [] code = "LOAD"     -> "R_FUSION_LOAD"
      [] code = "14_PCREL" -> "R_FUSION_BRANCH"
      [] code = "21_PCREL" -> "R_FUSION_JUMP"
      [] code = "21"       -> "R_FUSION_JUMP_O"

-----------------------------------------------------------------------------
(* The sum of two words, on halves so that no integer leaves 32 bits.      *)
Half(w) == MapThenSumSet(LAMBDA b : 2^b, w)
AddWord(v, w) ==
    LET lo == Half(v \cap 0..15) + Half(w \cap 0..15)
        hi == Half(Shr(v, 16)) + Half(Shr(w, 16)) + lo \div 65536
    IN  Bits(lo % 65536) \cup Shl(Bits(hi % 65536), 16)

(* _bfd_relocate_contents.                                                 *)
_bfd_relocate_contents(howto, relocation, x) ==
    (x \ howto.dst_mask)
      \cup (AddWord(x \cap howto.src_mask, Shr(relocation, howto.rightshift)) \cap howto.dst_mask)

(* _bfd_final_link_relocate; every PC relative howto that gets here has    *)
(* pcrel_offset.                                                           *)
_bfd_final_link_relocate(howto, value, addend, pc, x) ==
    _bfd_relocate_contents(howto,
        Bits(value + addend - (IF howto.pc_relative THEN pc ELSE 0)), x)

(* Mutant: the value is or'ed in without GEN_L_IMM and the mask.           *)
UnmaskedLoad(r_type, value, addend, pc, x) ==
    IF r_type = "R_FUSION_LOAD" THEN Bits(value) \cup x
    ELSE _bfd_final_link_relocate(fusion_elf_howto_table(r_type), value, addend, pc, x)

(* fusion_final_link_relocate: loads and stores or the symbol's value in.  *)
(* Its R_FUSION_BRANCH case is not reached.                                *)
fusion_final_link_relocate(r_type, value, addend, pc, x) ==
    LET howto == fusion_elf_howto_table(r_type)
    IN  CASE r_type = "R_FUSION_LOAD"  -> (GEN_L_IMM(Bits(value)) \cap howto.dst_mask) \cup x
          [] r_type = "R_FUSION_STORE" -> (GEN_S_IMM(Bits(value)) \cap howto.dst_mask) \cup x
          [] OTHER -> _bfd_final_link_relocate(howto, value, addend, pc, x)

(* perform_relocation, which only branches reach.                          *)
perform_relocation(howto, value, addend, pc, x) ==
    LET v == Bits(value + addend - (IF howto.pc_relative THEN pc ELSE 0))
    IN  (x \ howto.dst_mask) \cup (GEN_B_IMM(v) \cap howto.dst_mask)

(* The switch of relocate_section.                                         *)
Relocated(r_type, value, addend, pc, x) ==
    IF r_type = "R_FUSION_BRANCH"
    THEN perform_relocation(fusion_elf_howto_table(r_type), value, addend, pc, x)
    ELSE fusion_final_link_relocate(r_type, value, addend, pc, x)

Supported(r_type) == r_type # "R_FUSION_RELATIVE"

(* _bfd_elf_rela_local_sym and RELOC_FOR_GLOBAL_SYMBOL: the value of a     *)
(* symbol in a link that puts the section at base.  "text" symbols move    *)
(* with the section, the others are "defined" elsewhere, "undef",          *)
(* "undefweak" or "discarded".                                             *)
SymValue(table, sym, base) ==
    IF sym = StnUndef THEN 0
    ELSE CASE table[sym].kind = "text"    -> base + table[sym].value
           [] table[sym].kind = "defined" -> table[sym].value
           [] OTHER                       -> 0

Kind(sym) == IF sym = StnUndef THEN "defined" ELSE symtab[sym].kind

-----------------------------------------------------------------------------
sec_addr == place.vma + place.output_offset

(* A link starts: the final one, or one with -r.                           *)
StartLink(p, relocatable) ==
    /\ ldphase = "object"
    /\ relocatable => partials < MaxPartial
    /\ ldphase' = "relocate"
    /\ rel' = 1
    /\ place' = [vma |-> IF relocatable THEN 0 ELSE p.vma,
                 output_offset |-> p.output_offset, relocatable |-> relocatable]
    /\ UNCHANGED <<contents, rela, symtab, partials, reported, origin, object>>

(* One iteration of the loop of fusion_elf_relocate_section.               *)
InLoop == ldphase = "relocate" /\ rel <= Len(rela)
ReportUndefined(sym) ==
    reported' = IF Kind(sym) = "undef" /\ ~place.relocatable
                THEN reported \cup {sym} ELSE reported

(* Mutant: a discarded relocation stays as it was.                         *)
DiscardKeepsReloc ==
    /\ InLoop
    /\ Kind(rela[rel].sym) = "discarded"
    /\ contents' = [contents EXCEPT ![rela[rel].r_offset] =
                      @ \ fusion_elf_howto_table(rela[rel].r_type).dst_mask]
    /\ rel' = rel + 1
    /\ UNCHANGED <<ldphase, rela, symtab, place, partials, reported, origin, object>>

(* RELOC_AGAINST_DISCARDED_SECTION: the field is cleared, the relocation   *)
(* becomes R_FUSION_NONE.                                                  *)
DiscardedReloc ==
    /\ InLoop
    /\ LET r == rela[rel]
       IN  /\ Kind(r.sym) = "discarded"
           /\ contents' = [contents EXCEPT ![r.r_offset] =
                             @ \ fusion_elf_howto_table(r.r_type).dst_mask]
    /\ rela' = [rela EXCEPT ![rel] = [r_offset |-> @.r_offset, r_type |-> "R_FUSION_NONE",
                                      sym |-> StnUndef, r_addend |-> 0]]
    /\ rel' = rel + 1
    /\ UNCHANGED <<ldphase, symtab, place, partials, reported, origin, object>>

(* A relocatable link leaves the word alone.                               *)
KeepReloc ==
    /\ InLoop
    /\ Kind(rela[rel].sym) # "discarded"
    /\ place.relocatable
    /\ rel' = rel + 1
    /\ UNCHANGED <<ldphase, contents, rela, symtab, place, partials, reported, origin, object>>

ApplyReloc ==
    /\ InLoop
    /\ LET r == rela[rel]
       IN  /\ Kind(r.sym) # "discarded"
           /\ ~place.relocatable
           /\ Supported(r.r_type)
           /\ contents' = [contents EXCEPT ![r.r_offset] =
                             Relocated(r.r_type, SymValue(symtab, r.sym, sec_addr), r.r_addend,
                                       sec_addr + r.r_offset, @)]
           /\ ReportUndefined(r.sym)
    /\ rel' = rel + 1
    /\ UNCHANGED <<ldphase, rela, symtab, place, partials, origin, object>>

(* An unsupported relocation returns bfd_reloc_notsupported, which is not  *)
(* FALSE: elf_link_input_bfd goes on with the section as it is.            *)
UnsupportedReloc ==
    /\ InLoop
    /\ LET r == rela[rel]
       IN  /\ Kind(r.sym) # "discarded"
           /\ ~place.relocatable
           /\ ~Supported(r.r_type)
           /\ ReportUndefined(r.sym)
    /\ ldphase' = "linked"
    /\ UNCHANGED <<contents, rela, symtab, rel, place, partials, origin, object>>

(* Mutant: the loop stops before its last relocation.                      *)
EndTooEarly ==
    /\ ldphase = "relocate"
    /\ rel >= Len(rela)
    /\ ldphase' = IF place.relocatable THEN "adjust" ELSE "linked"
    /\ UNCHANGED <<contents, rela, symtab, rel, place, partials, reported, origin, object>>

EndRelocateSection ==
    /\ ldphase = "relocate"
    /\ rel > Len(rela)
    /\ ldphase' = IF place.relocatable THEN "adjust" ELSE "linked"
    /\ UNCHANGED <<contents, rela, symtab, rel, place, partials, reported, origin, object>>

(* Mutant: the addend of a section relocation does not move (as without    *)
(* rela_normal).                                                           *)
AddendStays(r) ==
    [r_offset |-> r.r_offset + place.output_offset,
     r_type   |-> r.r_type,
     sym      |-> IF r.sym = "*ABS*" THEN StnUndef ELSE r.sym,
     r_addend |-> r.r_addend]

(* The rest of elf_link_input_bfd for a relocatable link: offsets move by  *)
(* output_offset, a relocation against the section symbol adds it to the   *)
(* addend, one against the absolute section loses its symbol.              *)
MovedReloc(r) ==
    [r_offset |-> r.r_offset + place.output_offset,
     r_type   |-> r.r_type,
     sym      |-> IF r.sym = "*ABS*" THEN StnUndef ELSE r.sym,
     r_addend |-> IF r.sym = ".text" THEN r.r_addend + place.output_offset ELSE r.r_addend]

AdjustRelocs ==
    /\ ldphase = "adjust"
    /\ ldphase' = "object"
    /\ partials' = partials + 1
    /\ origin' = origin + place.output_offset
    /\ rela' = [i \in DOMAIN rela |-> MovedReloc(rela[i])]
    /\ contents' = [a \in {b + place.output_offset : b \in DOMAIN contents} |->
                      contents[a - place.output_offset]]
    /\ symtab' = [s \in DOMAIN symtab |->
                    IF symtab[s].kind = "text" /\ s # ".text"
                    THEN [symtab[s] EXCEPT !.value = @ + place.output_offset]
                    ELSE symtab[s]]
    /\ UNCHANGED <<rel, place, reported, object>>

ldNext ==
    \/ \E p \in Placement, relocatable \in BOOLEAN : StartLink(p, relocatable)
    \/ DiscardedReloc
    \/ KeepReloc
    \/ ApplyReloc
    \/ UnsupportedReloc
    \/ EndRelocateSection
    \/ AdjustRelocs

ldEmpty ==
    /\ rel = 1
    /\ place = [vma |-> 0, output_offset |-> 0, relocatable |-> FALSE]
    /\ partials = 0
    /\ reported = {}
    /\ origin = 0

ldInit ==
    /\ ldEmpty
    /\ ldphase = "object"
    /\ object \in Object
    /\ contents = object.contents
    /\ rela = object.rela
    /\ symtab = object.symtab

ldSpec == ldInit /\ [][ldNext]_ldVars

-----------------------------------------------------------------------------
(* Properties.                                                             *)

(* The variables of a link: rela indexes contents, the loop index stays in *)
(* rela, and relocations name symbols of the table.                        *)
ldTypeOK ==
    /\ ldphase \in {"object", "relocate", "adjust", "linked"}
    /\ WellFormed(object)
    /\ \A a \in DOMAIN contents : a \in Int /\ contents[a] \subseteq Bit
    /\ rela \in Seq(Reloc(DOMAIN symtab))
    /\ \A s \in DOMAIN symtab : symtab[s] \in [kind : SymKind, value : Int]
    /\ rel \in 1..(Len(rela) + 1)
    /\ place \in [vma : Int, output_offset : Int, relocatable : BOOLEAN]
    /\ partials \in 0..MaxPartial
    /\ reported \subseteq DOMAIN symtab
    /\ origin \in Int

(* What a final link of object with its section at base makes of the word  *)
(* x under the relocation r.                                               *)
Discarded(r) == r.sym # StnUndef /\ object.symtab[r.sym].kind = "discarded"
DirectReloc(r, base, x) ==
    IF Discarded(r)
    THEN x \ fusion_elf_howto_table(r.r_type).dst_mask
    ELSE Relocated(r.r_type, SymValue(object.symtab, r.sym, base),
                   r.r_addend, base + r.r_offset, x)

RelocsAt(a) == {object.rela[i] : i \in {j \in DOMAIN object.rela : object.rela[j].r_offset = a}}

(* The word at offset a of the object is what one final link at the same   *)
(* place would have made of it.                                            *)
LinkIsDirect(a) ==
    \/ RelocsAt(a) = {} /\ contents[origin + a] = object.contents[a]
    \/ \E r \in RelocsAt(a) :
          contents[origin + a] = DirectReloc(r, sec_addr + origin, object.contents[a])

(* Every relocation of the object has a type relocate_section supports.    *)
(* At another type it returns bfd_reloc_notsupported, which its caller     *)
(* takes for success, and the rest of the section stays unrelocated.       *)
SupportedOnly == \A i \in DOMAIN object.rela : Supported(object.rela[i].r_type)

(* Linking with -r any number of times before the final link gives the     *)
(* words a direct link gives: elf_link_input_bfd moves offsets, addends    *)
(* and symbols so that fusion_elf_relocate_section computes the same.      *)
(* Loads and stores are left to LoadStoreLinkIsDirect: their relocation    *)
(* ignores the addend that a relocatable link moves.                       *)
AddendIgnored(r_type) == r_type \in {"R_FUSION_LOAD", "R_FUSION_STORE"}
PartialLinkTransparent ==
    ldphase = "linked" /\ SupportedOnly =>
        \A a \in DOMAIN object.contents :
            (\A r \in RelocsAt(a) : ~AddendIgnored(r.r_type)) => LinkIsDirect(a)

(* The same of every relocation.                                           *)
LoadStoreLinkIsDirect ==
    ldphase = "linked" /\ SupportedOnly => \A a \in DOMAIN object.contents : LinkIsDirect(a)

(* A final link that goes through has told the user of every undefined     *)
(* symbol a relocation names.                                              *)
UndefinedReported ==
    ldphase = "linked" /\ SupportedOnly =>
        \A i \in DOMAIN rela : Kind(rela[i].sym) = "undef" => rela[i].sym \in reported

(* No step of a link changes a bit outside the field of a relocation: the  *)
(* opcode, function code and registers of an instruction stay as they were *)
(* assembled, wherever relocatable links move it.                          *)
Field(a) == UNION {fusion_elf_howto_table(r.r_type).dst_mask : r \in RelocsAt(a)}
OtherBitsKept ==
    \A a \in DOMAIN object.contents :
        contents[origin + a] \ Field(a) = object.contents[a] \ Field(a)
-----------------------------------------------------------------------------
(* The inductive invariant.  It says how far the loop is, in terms of the  *)
(* object as first read.                                                   *)

(* The final link has passed relocation i.                                 *)
Done(i) == ~place.relocatable /\ i < rel

(* A relocation after the links so far.  One against a discarded section   *)
(* is R_FUSION_NONE from the first link that meets it on.                  *)
MovedFrom(r, r0) ==
    /\ r.r_offset = r0.r_offset + origin
    /\ \/ /\ Discarded(r0)
          /\ r.r_type = "R_FUSION_NONE" /\ r.sym = StnUndef
       \/ /\ r.r_type = r0.r_type
          /\ \/ r.sym = r0.sym
             \/ r0.sym = "*ABS*" /\ r.sym = StnUndef
          /\ r.r_addend = r0.r_addend + (IF r0.sym = ".text" THEN origin ELSE 0)

RelasMoved ==
    /\ Len(rela) = Len(object.rela)
    /\ \A i \in DOMAIN rela : MovedFrom(rela[i], object.rela[i])

SymtabMoved ==
    /\ DOMAIN symtab = DOMAIN object.symtab
    /\ \A s \in DOMAIN symtab :
         /\ symtab[s].kind = object.symtab[s].kind
         /\ symtab[s].value = object.symtab[s].value
              + (IF object.symtab[s].kind = "text" /\ s # ".text" THEN origin ELSE 0)

ContentsMoved == DOMAIN contents = {a + origin : a \in DOMAIN object.contents}

(* The word under relocation i, and the words without a relocation.        *)
Settled(i) ==
    LET r0 == object.rela[i]
    IN  IF Discarded(r0) THEN rela[i].sym = StnUndef ELSE Done(i)

WordUnder(i) ==
    LET r0 == object.rela[i]
        x0 == object.contents[r0.r_offset]
        x  == contents[r0.r_offset + origin]
        outside == Bit \ fusion_elf_howto_table(r0.r_type).dst_mask
    IN  /\ ~Settled(i) => x = x0
        /\ Settled(i) => x \cap outside = x0 \cap outside
        /\ Settled(i) /\ ~AddendIgnored(r0.r_type) => x = DirectReloc(r0, sec_addr + origin, x0)

WordsSoFar ==
    /\ \A i \in DOMAIN object.rela : WordUnder(i)
    /\ \A a \in DOMAIN object.contents :
         RelocsAt(a) = {} => contents[a + origin] = object.contents[a]

(* Where the final link stops, and what it has reported until then.        *)
LoopPlace ==
    /\ ldphase = "object" => place.relocatable \/ rel = 1
    /\ ldphase = "adjust" => place.relocatable
    /\ ldphase \in {"relocate", "adjust"} /\ place.relocatable => partials < MaxPartial
    /\ ldphase = "linked" =>
         ~place.relocatable /\ (rel <= Len(rela) => ~Supported(rela[rel].r_type))
    /\ \A i \in DOMAIN rela : Discarded(object.rela[i]) /\ Done(i) => rela[i].sym = StnUndef
    /\ \A i \in DOMAIN rela : Done(i) /\ Kind(rela[i].sym) = "undef" => rela[i].sym \in reported

ldInv == ldTypeOK /\ RelasMoved /\ SymtabMoved /\ ContentsMoved /\ WordsSoFar /\ LoopPlace
=============================================================================
