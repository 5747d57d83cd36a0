---------------------------- MODULE FusionLdProofs ----------------------------
(***************************************************************************)
(* Proofs about FusionLd, for every set of input sections and placements   *)
(* and every number of relocatable links.                                  *)
(***************************************************************************)
EXTENDS FusionLd, TLAPS

(* The provers, in the order in which a leaf is given to them.             *)
USE ZenonT(5), SMTT(30), ZenonT(30)

(* What a relocation computes.                                             *)

(* The field a relocation writes lies within the 32 bits of a word.        *)
LEMMA MaskIsBits ==
    ASSUME NEW t \in R_FUSION
    PROVE  fusion_elf_howto_table(t).dst_mask \subseteq Bit
  BY DEF R_FUSION, fusion_elf_howto_table, HOWTO, MASK_ALL, Bit, MASK_IMM_LI, GEN_LI_IMM,
         GET_IMM_LI, GEN_SYS_IMM, MASK_IMM_SYS, GEN_L_IMM, GET_IMM_L, MASK_IMM_L, GEN_S_IMM,
         MASK_IMM_S, MASK_IMM_HI_S, MASK_IMM_LO_S, GEN_B_IMM, MASK_IMM_B, MASK_IMM_HI_B,
         MASK_IMM_LO_B, GEN_J_IMM, MASK_IMM_J, MASK_IMM_HI_J, MASK_IMM_LO_J

(* A relocation makes a word of a word and changes only its own field.     *)
LEMMA RelocatedKeeps ==
    ASSUME NEW t \in R_FUSION, NEW v, NEW addend, NEW pc, NEW x \in SUBSET Bit
    PROVE  /\ Relocated(t, v, addend, pc, x) \subseteq Bit
           /\ Relocated(t, v, addend, pc, x) \cap (Bit \ fusion_elf_howto_table(t).dst_mask)
                = x \cap (Bit \ fusion_elf_howto_table(t).dst_mask)
  <1>1. fusion_elf_howto_table(t).dst_mask \subseteq Bit
    BY MaskIsBits
  <1>2. CASE t = "R_FUSION_BRANCH"
    BY <1>1, <1>2 DEF Relocated, perform_relocation
  <1>3. CASE t = "R_FUSION_LOAD"
    BY <1>1, <1>3 DEF Relocated, fusion_final_link_relocate
  <1>4. CASE t = "R_FUSION_STORE"
    BY <1>1, <1>4 DEF Relocated, fusion_final_link_relocate
  <1>5. CASE t \notin {"R_FUSION_BRANCH", "R_FUSION_LOAD", "R_FUSION_STORE"}
    BY <1>1, <1>5 DEF Relocated, fusion_final_link_relocate, _bfd_final_link_relocate,
                      _bfd_relocate_contents
  <1> QED
    BY <1>2, <1>3, <1>4, <1>5

(* All but loads and stores use only the sum of the symbol and the addend. *)
LEMMA RelocatedSum ==
    ASSUME NEW t \in R_FUSION, ~AddendIgnored(t), NEW pc \in Int, NEW x,
           NEW v \in Int, NEW addend \in Int
    PROVE  Relocated(t, v, addend, pc, x) = Relocated(t, v + addend, 0, pc, x)
  <1> DEFINE p == IF fusion_elf_howto_table(t).pc_relative THEN pc ELSE 0
  <1>1. p \in Int
    OBVIOUS
  <1>2. v + addend - p = (v + addend) + 0 - p
    BY <1>1
  <1>3. CASE t = "R_FUSION_BRANCH"
    BY <1>2, <1>3 DEF Relocated, perform_relocation
  <1>4. CASE t # "R_FUSION_BRANCH"
    BY <1>2, <1>4 DEF AddendIgnored, Relocated, fusion_final_link_relocate,
                      _bfd_final_link_relocate
  <1> QED
    BY <1>3, <1>4

(* R_FUSION_NONE leaves the word alone.                                    *)
LEMMA RelocatedNone ==
    ASSUME NEW v, NEW addend, NEW pc, NEW x \in SUBSET Bit
    PROVE  Relocated("R_FUSION_NONE", v, addend, pc, x) = x
  BY DEF Relocated, fusion_final_link_relocate, _bfd_final_link_relocate,
         _bfd_relocate_contents, fusion_elf_howto_table, HOWTO

-----------------------------------------------------------------------------
(* The inductive invariant.                                                *)

(* A link starts in the invariant: nothing has moved and no relocation has *)
(* been passed.                                                            *)
LEMMA InitInv == ldInit => ldInv
  <1> SUFFICES ASSUME ldInit PROVE ldInv
    OBVIOUS
  <1>1. WellFormed(object)
    BY ObjectAssumption DEF ldInit
  <1>2. ldTypeOK
    BY <1>1, PartialAssumption DEF ldInit, ldEmpty, ldTypeOK, WellFormed
  <1>3. \A i \in DOMAIN rela : rela[i] \in Reloc(DOMAIN symtab) /\ i \in Int /\ 1 <= i
    BY <1>2 DEF ldTypeOK
  <1>4. RelasMoved
    BY <1>3 DEF ldInit, ldEmpty, RelasMoved, MovedFrom, Reloc
  <1>5. SymtabMoved
    BY <1>2 DEF ldInit, ldEmpty, SymtabMoved, ldTypeOK
  <1>6. ContentsMoved
    BY <1>2 DEF ldInit, ldEmpty, ContentsMoved, ldTypeOK
  <1>7. \A i \in DOMAIN object.rela : ~Settled(i)
    BY <1>3 DEF ldInit, ldEmpty, Settled, Done, Discarded, Reloc
  <1>8. WordsSoFar
    BY <1>1, <1>7 DEF ldInit, ldEmpty, WordsSoFar, WordUnder, WellFormed
  <1>9. LoopPlace
    BY <1>3 DEF ldInit, ldEmpty, LoopPlace, Done
  <1> QED
    BY <1>2, <1>4, <1>5, <1>6, <1>8, <1>9 DEF ldInv

(* What the invariant says of one relocation, in the forms used below.     *)
LEMMA RelaFacts ==
    ASSUME ldInv
    PROVE  /\ Len(rela) \in Nat
           /\ DOMAIN rela = 1..Len(rela)
           /\ DOMAIN object.rela = DOMAIN rela
           /\ \A i \in DOMAIN rela :
                /\ i \in Int /\ 1 <= i
                /\ rela[i] \in Reloc(DOMAIN symtab)
                /\ object.rela[i] \in Reloc(DOMAIN object.symtab)
                /\ object.rela[i].r_offset \in DOMAIN object.contents
                /\ object.rela[i].r_offset \in Int
                /\ object.rela[i].r_offset + origin \in DOMAIN contents
                /\ MovedFrom(rela[i], object.rela[i])
  <1>1. /\ Len(rela) \in Nat
        /\ DOMAIN rela = 1..Len(rela)
        /\ \A i \in DOMAIN rela : rela[i] \in Reloc(DOMAIN symtab)
    BY DEF ldInv, ldTypeOK
  <1>2. DOMAIN object.rela = DOMAIN rela
    BY <1>1 DEF ldInv, ldTypeOK, WellFormed, RelasMoved
  <1>3. \A i \in DOMAIN rela :
            /\ object.rela[i] \in Reloc(DOMAIN object.symtab)
            /\ object.rela[i].r_offset \in DOMAIN object.contents
            /\ object.rela[i].r_offset \in Int
    <2>1. object.rela \in Seq(Reloc(DOMAIN object.symtab))
      BY DEF ldInv, ldTypeOK, WellFormed
    <2>2. \A i \in DOMAIN object.rela : object.rela[i] \in Reloc(DOMAIN object.symtab)
      BY <2>1
    <2>3. \A i \in DOMAIN object.rela : object.rela[i].r_offset \in DOMAIN object.contents
      BY DEF ldInv, ldTypeOK, WellFormed
    <2> QED
      BY <2>2, <2>3, <1>2 DEF Reloc
  <1>4. \A i \in DOMAIN rela : object.rela[i].r_offset + origin \in DOMAIN contents
    BY <1>3 DEF ldInv, ContentsMoved
  <1> QED
    BY <1>1, <1>2, <1>3, <1>4 DEF ldInv, RelasMoved

(* Symbol and addend of a moved relocation add up to what they were, with  *)
(* the section moved by origin.                                            *)
LEMMA SumMoved ==
    ASSUME ldInv, NEW i \in DOMAIN rela, ~Discarded(object.rela[i])
    PROVE  LET r  == rela[i]
               r0 == object.rela[i]
               v  == SymValue(symtab, r.sym, sec_addr)
               v0 == SymValue(object.symtab, r0.sym, sec_addr + origin)
           IN  /\ v \in Int /\ v0 \in Int
               /\ v + r.r_addend = v0 + r0.r_addend
  <1> DEFINE r  == rela[i]
             r0 == object.rela[i]
  <1>1. /\ r \in Reloc(DOMAIN symtab) /\ r0 \in Reloc(DOMAIN object.symtab)
        /\ MovedFrom(r, r0)
    BY RelaFacts
  <1>2. /\ \/ r.sym = r0.sym
           \/ r0.sym = "*ABS*" /\ r.sym = StnUndef
        /\ r.r_addend = r0.r_addend + (IF r0.sym = ".text" THEN origin ELSE 0)
        /\ r.r_addend \in Int /\ r0.r_addend \in Int
        /\ r0.sym # StnUndef => r0.sym \in DOMAIN object.symtab
    BY <1>1 DEF MovedFrom, Reloc
  <1>3. sec_addr \in Int /\ origin \in Int
    BY DEF ldInv, ldTypeOK, sec_addr
  <1>4. CASE r0.sym = StnUndef
    BY <1>2, <1>3, <1>4 DEF SymValue, StnUndef
  <1>5. CASE r0.sym = "*ABS*"
    <2>1. object.symtab["*ABS*"].kind = "defined" /\ object.symtab["*ABS*"].value = 0
      BY <1>2, <1>5 DEF ldInv, ldTypeOK, WellFormed, StnUndef
    <2>2. symtab["*ABS*"].kind = "defined" /\ symtab["*ABS*"].value = 0
      BY <2>1, <1>2, <1>3, <1>5 DEF ldInv, SymtabMoved, StnUndef
    <2> QED
      BY <2>1, <2>2, <1>2, <1>3, <1>5 DEF SymValue, StnUndef
  <1>6. CASE r0.sym # StnUndef /\ r0.sym # "*ABS*"
    <2> DEFINE s == r0.sym
    <2>1. /\ s \in DOMAIN symtab /\ r.sym = s
          /\ object.symtab[s].value \in Int
          /\ symtab[s].kind = object.symtab[s].kind
          /\ symtab[s].value = object.symtab[s].value
               + (IF object.symtab[s].kind = "text" /\ s # ".text" THEN origin ELSE 0)
          /\ s = ".text" => object.symtab[s].kind = "text"
      BY <1>2, <1>6 DEF ldInv, SymtabMoved, ldTypeOK, WellFormed
    <2>2. CASE object.symtab[s].kind = "text"
      BY <2>1, <2>2, <1>2, <1>3, <1>6 DEF SymValue
    <2>3. CASE object.symtab[s].kind = "defined"
      BY <2>1, <2>3, <1>2, <1>3, <1>6 DEF SymValue
    <2>4. CASE object.symtab[s].kind \notin {"text", "defined"}
      <3>1. SymValue(symtab, s, sec_addr) = 0 /\ SymValue(object.symtab, s, sec_addr + origin) = 0
        BY <2>1, <2>4, <1>6 DEF SymValue
      <3> QED
        BY <3>1, <2>1, <2>4, <1>2
    <2> QED
      BY <2>2, <2>3, <2>4
  <1> QED
    BY <1>4, <1>5, <1>6

(* Steps that change neither the section nor which relocations the final   *)
(* link has passed keep what the invariant says of the words.              *)
LEMMA SameWords ==
    ASSUME ldInv, UNCHANGED <<contents, rela, symtab, origin, object>>,
           \A i \in DOMAIN rela : Done(i)' <=> Done(i),
           place' = place \/ \A i \in DOMAIN rela : ~Done(i)
    PROVE  RelasMoved' /\ SymtabMoved' /\ ContentsMoved' /\ WordsSoFar'
  <1>1. RelasMoved' /\ SymtabMoved' /\ ContentsMoved'
    BY DEF ldInv, RelasMoved, MovedFrom, Discarded, SymtabMoved, ContentsMoved
  <1>2. ASSUME NEW i \in DOMAIN object.rela PROVE WordUnder(i)'
    <2>1. i \in DOMAIN rela /\ WordUnder(i)
      BY RelaFacts DEF ldInv, WordsSoFar
    <2>2. Settled(i)' <=> Settled(i)
      BY <2>1 DEF Settled, Discarded
    <2>3. CASE place' = place
      BY <2>1, <2>2, <2>3 DEF WordUnder, DirectReloc, Discarded, sec_addr
    <2>4. CASE Discarded(object.rela[i])
      BY <2>1, <2>2, <2>4 DEF WordUnder, DirectReloc, Discarded
    <2>5. CASE place' # place /\ ~Discarded(object.rela[i])
      BY <2>1, <2>2, <2>5 DEF WordUnder, Settled
    <2> QED
      BY <2>3, <2>4, <2>5
  <1>3. WordsSoFar'
    BY <1>2 DEF ldInv, WordsSoFar, RelocsAt
  <1> QED
    BY <1>1, <1>3

(* Starting a link, relocatable or not, keeps the invariant.               *)
LEMMA StartLinkStep ==
    ASSUME ldInv, NEW p \in Placement, NEW relocatable \in BOOLEAN, StartLink(p, relocatable)
    PROVE  ldInv'
  <1>1. ldTypeOK'
    <2>1. place' \in [vma : Int, output_offset : Int, relocatable : BOOLEAN]
      BY PlacementAssumption DEF StartLink
    <2> QED
      BY <2>1, RelaFacts DEF StartLink, ldInv, ldTypeOK
  <1>2. \A i \in DOMAIN rela : ~Done(i) /\ ~Done(i)'
    BY RelaFacts DEF StartLink, ldInv, LoopPlace, Done
  <1>3. LoopPlace'
    BY <1>2 DEF StartLink, LoopPlace
  <1> QED
    BY <1>1, <1>2, <1>3, SameWords DEF StartLink, ldInv

(* A relocatable link that passes a relocation keeps the invariant.        *)
LEMMA KeepRelocStep ==
    ASSUME ldInv, KeepReloc
    PROVE  ldInv'
  <1>1. ldTypeOK'
    BY RelaFacts DEF KeepReloc, InLoop, ldInv, ldTypeOK
  <1>2. \A i \in DOMAIN rela : ~Done(i) /\ ~Done(i)'
    BY DEF KeepReloc, Done
  <1>3. LoopPlace'
    BY <1>2 DEF KeepReloc, InLoop, ldInv, LoopPlace
  <1> QED
    BY <1>1, <1>2, <1>3, SameWords DEF KeepReloc, ldInv

(* The early return on an unsupported type keeps the invariant.            *)
LEMMA UnsupportedRelocStep ==
    ASSUME ldInv, UnsupportedReloc
    PROVE  ldInv'
  <1>1. Kind(rela[rel].sym) = "undef" => rela[rel].sym \in DOMAIN symtab
    BY RelaFacts DEF UnsupportedReloc, InLoop, ldInv, ldTypeOK, Kind, Reloc
  <1>2. ldTypeOK'
    BY <1>1 DEF UnsupportedReloc, ReportUndefined, InLoop, ldInv, ldTypeOK
  <1>3. \A i \in DOMAIN rela : Done(i)' <=> Done(i)
    BY DEF UnsupportedReloc, Done
  <1>4. LoopPlace'
    BY <1>3 DEF UnsupportedReloc, ReportUndefined, InLoop, ldInv, LoopPlace, Discarded, Kind
  <1> QED
    BY <1>2, <1>3, <1>4, SameWords DEF UnsupportedReloc, ldInv

(* The end of the loop keeps the invariant.                                *)
LEMMA EndRelocateSectionStep ==
    ASSUME ldInv, EndRelocateSection
    PROVE  ldInv'
  <1>1. ldTypeOK'
    BY DEF EndRelocateSection, ldInv, ldTypeOK
  <1>2. \A i \in DOMAIN rela : Done(i)' <=> Done(i)
    BY DEF EndRelocateSection, Done
  <1>3. LoopPlace'
    BY <1>2, RelaFacts DEF EndRelocateSection, ldInv, ldTypeOK, LoopPlace, Discarded, Kind
  <1> QED
    BY <1>1, <1>2, <1>3, SameWords DEF EndRelocateSection, ldInv

(* A step on relocation rel writes its own word and no other.              *)
LEMMA OneWord ==
    ASSUME ldInv, InLoop, NEW k, k = rel, NEW w \in SUBSET Bit,
           contents' = [contents EXCEPT ![rela[rel].r_offset] = w],
           UNCHANGED <<symtab, place, origin, object>>, rel' = rel + 1,
           DOMAIN rela' = DOMAIN rela,
           \A i \in DOMAIN rela \ {k} : rela'[i] = rela[i],
           WordUnder(k)'
    PROVE  /\ \A b \in DOMAIN contents' : b \in Int /\ contents'[b] \subseteq Bit
           /\ ContentsMoved' /\ SymtabMoved' /\ WordsSoFar'
           /\ rel \in DOMAIN rela
           /\ \A i \in DOMAIN rela \ {k} : Done(i)' <=> Done(i)
  <1>1. rel \in DOMAIN rela /\ rela[rel].r_offset = object.rela[k].r_offset + origin
    BY RelaFacts DEF InLoop, ldInv, ldTypeOK, MovedFrom
  <1>2. \A i \in DOMAIN rela \ {k} : Done(i)' <=> Done(i)
    BY RelaFacts, <1>1 DEF Done, ldInv, ldTypeOK
  <1>3. ASSUME NEW i \in DOMAIN rela \ {k} PROVE WordUnder(i)'
    <2>1. object.rela[i].r_offset # object.rela[k].r_offset
      BY <1>1, RelaFacts DEF ldInv, ldTypeOK, WellFormed
    <2>2. contents'[object.rela[i].r_offset + origin] = contents[object.rela[i].r_offset + origin]
      <3>1. object.rela[i].r_offset + origin # object.rela[k].r_offset + origin
        <4>1. /\ object.rela[i].r_offset \in Int /\ object.rela[k].r_offset \in Int
              /\ origin \in Int
          BY <1>1, RelaFacts DEF ldInv, ldTypeOK
        <4> QED
          BY <2>1, <4>1
      <3> QED
        BY <3>1, <1>1, RelaFacts
    <2>3. Settled(i)' <=> Settled(i)
      BY <1>2 DEF Settled, Discarded
    <2>4. WordUnder(i)
      BY RelaFacts DEF ldInv, WordsSoFar
    <2> QED
      BY <2>2, <2>3, <2>4 DEF WordUnder, DirectReloc, Discarded, sec_addr
  <1>4. ASSUME NEW a \in DOMAIN object.contents, RelocsAt(a) = {}
        PROVE  contents'[a + origin] = contents[a + origin]
    <2>1. a # object.rela[k].r_offset
      BY <1>1, <1>4, RelaFacts DEF RelocsAt
    <2>2. a \in Int /\ origin \in Int /\ a + origin \in DOMAIN contents
      BY DEF ldInv, ldTypeOK, WellFormed, ContentsMoved
    <2>3. a + origin # object.rela[k].r_offset + origin
      BY <1>1, <2>1, <2>2, RelaFacts
    <2> QED
      BY <2>2, <2>3, <1>1
  <1>5. WordsSoFar'
    <2>1. \A i \in DOMAIN object.rela' : WordUnder(i)'
      BY <1>1, <1>3, RelaFacts
    <2>2. \A a \in DOMAIN object.contents :
              RelocsAt(a) = {} => contents'[a + origin] = object.contents[a]
      BY <1>4 DEF ldInv, WordsSoFar
    <2> QED
      BY <2>1, <2>2 DEF WordsSoFar, RelocsAt
  <1>6. ContentsMoved' /\ SymtabMoved'
    BY DEF ldInv, ContentsMoved, SymtabMoved
  <1>7. \A b \in DOMAIN contents' : b \in Int /\ contents'[b] \subseteq Bit
    BY DEF ldInv, ldTypeOK
  <1> QED
    BY <1>1, <1>2, <1>5, <1>6, <1>7

(* The relocation the loop is at.  A discarded one that an earlier link    *)
(* met is R_FUSION_NONE by now.                                            *)
LEMMA AtRel ==
    ASSUME ldInv, InLoop
    PROVE  LET r  == rela[rel]
               r0 == object.rela[rel]
           IN  /\ rel \in DOMAIN rela /\ rel \in Int
               /\ r \in Reloc(DOMAIN symtab) /\ r0 \in Reloc(DOMAIN object.symtab)
               /\ r.r_offset = r0.r_offset + origin
               /\ r.r_offset \in DOMAIN contents /\ r0.r_offset \in DOMAIN object.contents
               /\ contents[r.r_offset] \in SUBSET Bit
               /\ object.contents[r0.r_offset] \in SUBSET Bit
               /\ ~Done(rel)
               /\ Kind(r.sym) = "discarded" => Discarded(r0) /\ r.sym # StnUndef /\ r.r_type = r0.r_type
               /\ Kind(r.sym) # "discarded" /\ Discarded(r0)
                    => r.r_type = "R_FUSION_NONE" /\ r.sym = StnUndef
               /\ ~Discarded(r0) => r.r_type = r0.r_type
  <1> DEFINE r  == rela[rel]
             r0 == object.rela[rel]
  <1>1. rel \in DOMAIN rela /\ rel \in Int
    BY RelaFacts DEF InLoop, ldInv, ldTypeOK
  <1>2. /\ r \in Reloc(DOMAIN symtab) /\ r0 \in Reloc(DOMAIN object.symtab)
        /\ MovedFrom(r, r0)
        /\ r.r_offset = r0.r_offset + origin
        /\ r.r_offset \in DOMAIN contents /\ r0.r_offset \in DOMAIN object.contents
    BY <1>1, RelaFacts DEF MovedFrom
  <1>3. contents[r.r_offset] \in SUBSET Bit
    BY <1>2 DEF ldInv, ldTypeOK
  <1>4. object.contents[r0.r_offset] \in SUBSET Bit
    BY <1>2 DEF ldInv, ldTypeOK, WellFormed
  <1>5. ~Done(rel)
    BY <1>1 DEF Done
  <1>6. \A s \in DOMAIN symtab : symtab[s].kind = object.symtab[s].kind
    BY DEF ldInv, SymtabMoved
  <1>7. r.sym # StnUndef => r.sym \in DOMAIN symtab
    BY <1>2 DEF Reloc
  <1>8. Discarded(r0) => r0.sym # "*ABS*"
    <2>1. "*ABS*" \in DOMAIN object.symtab => object.symtab["*ABS*"].kind = "defined"
      BY DEF ldInv, ldTypeOK, WellFormed
    <2> QED
      BY <2>1, <1>2 DEF Discarded, Reloc
  <1>9. Kind(r.sym) = "discarded" => Discarded(r0) /\ r.sym # StnUndef /\ r.r_type = r0.r_type
    BY <1>2, <1>6, <1>7 DEF Kind, Discarded, MovedFrom
  <1>10. Kind(r.sym) # "discarded" /\ Discarded(r0)
           => r.r_type = "R_FUSION_NONE" /\ r.sym = StnUndef
    BY <1>2, <1>6, <1>7, <1>8 DEF Kind, Discarded, MovedFrom
  <1>11. ~Discarded(r0) => r.r_type = r0.r_type
    BY <1>2 DEF MovedFrom
  <1> QED
    BY <1>1, <1>2, <1>3, <1>4, <1>5, <1>9, <1>10, <1>11

(* Clearing the field of a relocation against a discarded section keeps    *)
(* the invariant.                                                          *)
LEMMA DiscardedRelocStep ==
    ASSUME ldInv, DiscardedReloc
    PROVE  ldInv'
  <1> DEFINE r  == rela[rel]
             r0 == object.rela[rel]
             w  == contents[r.r_offset] \ fusion_elf_howto_table(r.r_type).dst_mask
  <1>1. PICK k : k = rel
    OBVIOUS
  <1>2. InLoop /\ Kind(r.sym) = "discarded" /\ rel' = rel + 1
    BY DEF DiscardedReloc
  <1>3. /\ contents' = [contents EXCEPT ![r.r_offset] = w]
        /\ rela' = [rela EXCEPT ![rel] = [r_offset |-> @.r_offset, r_type |-> "R_FUSION_NONE",
                                          sym |-> StnUndef, r_addend |-> 0]]
        /\ UNCHANGED <<ldphase, symtab, place, partials, reported, origin, object>>
    BY DEF DiscardedReloc
  <1>4. /\ k \in DOMAIN rela /\ r \in Reloc(DOMAIN symtab) /\ Discarded(r0)
        /\ r.r_type = r0.r_type /\ r.sym # StnUndef
        /\ contents[r.r_offset] \in SUBSET Bit /\ r.r_offset \in DOMAIN contents
        /\ r.r_offset = r0.r_offset + origin
    BY <1>1, <1>2, AtRel
  <1>5. contents[r.r_offset] = object.contents[r0.r_offset]
    <2>1. WordUnder(k) /\ ~Settled(k)
      BY <1>1, <1>4, RelaFacts DEF ldInv, WordsSoFar, Settled
    <2> QED
      BY <2>1, <1>1, <1>4 DEF WordUnder
  <1>6. rela'[k].sym = StnUndef /\ rela'[k].r_type = "R_FUSION_NONE"
        /\ rela'[k].r_offset = r.r_offset /\ rela'[k] \in Reloc(DOMAIN symtab)
    <2>1. rela'[k] = [r_offset |-> r.r_offset, r_type |-> "R_FUSION_NONE",
                      sym |-> StnUndef, r_addend |-> 0]
      BY <1>1, <1>3, <1>4
    <2> QED
      BY <2>1, <1>4 DEF Reloc, R_FUSION
  <1>7. WordUnder(k)'
    <2>1. contents'[r0.r_offset + origin] = object.contents[r0.r_offset]
                                              \ fusion_elf_howto_table(r0.r_type).dst_mask
      BY <1>3, <1>4, <1>5
    <2>2. Settled(k)'
      BY <1>1, <1>3, <1>4, <1>6 DEF Settled, Discarded
    <2> QED
      BY <2>1, <2>2, <1>1, <1>3, <1>4 DEF WordUnder, DirectReloc, Discarded
  <1>8. /\ rela' \in Seq(Reloc(DOMAIN symtab)) /\ Len(rela') = Len(rela)
        /\ DOMAIN rela' = DOMAIN rela
        /\ \A i \in DOMAIN rela \ {k} : rela'[i] = rela[i]
    <2>1. rela \in Seq(Reloc(DOMAIN symtab))
      BY DEF ldInv, ldTypeOK
    <2> QED
      BY <2>1, <1>1, <1>3, <1>4, <1>6
  <1>9. w \in SUBSET Bit
    BY <1>4
  <1>10. /\ \A b \in DOMAIN contents' : b \in Int /\ contents'[b] \subseteq Bit
         /\ ContentsMoved' /\ SymtabMoved' /\ WordsSoFar'
         /\ \A i \in DOMAIN rela \ {k} : Done(i)' <=> Done(i)
    BY <1>1, <1>2, <1>3, <1>7, <1>8, <1>9, OneWord
  <1>11. ldTypeOK'
    <2>1. rel' \in 1..(Len(rela') + 1)
      <3>1. Len(rela) \in Nat /\ rel \in 1..Len(rela)
        BY <1>1, <1>4, RelaFacts
      <3>2. rel' = rel + 1 /\ Len(rela') = Len(rela)
        BY <1>2, <1>8
      <3> QED
        BY <3>1, <3>2
    <2> QED
      BY <2>1, <1>3, <1>8, <1>10 DEF ldInv, ldTypeOK
  <1>12. RelasMoved'
    <2>1. MovedFrom(rela[k], object.rela[k])'
      BY <1>1, <1>3, <1>4, <1>6 DEF MovedFrom, Discarded
    <2>2. ASSUME NEW i \in DOMAIN rela \ {k} PROVE MovedFrom(rela[i], object.rela[i])'
      <3>1. MovedFrom(rela[i], object.rela[i])
        BY RelaFacts
      <3> QED
        BY <3>1, <1>3, <1>8 DEF MovedFrom, Discarded
    <2> QED
      BY <2>1, <2>2, <1>3, <1>8 DEF ldInv, RelasMoved
  <1>13. LoopPlace'
    BY <1>2, <1>3, <1>6, <1>8, <1>10 DEF InLoop, ldInv, LoopPlace, Discarded, Kind
  <1> QED
    BY <1>10, <1>11, <1>12, <1>13 DEF ldInv

(* Applying a relocation in a final link keeps the invariant.              *)
LEMMA ApplyRelocStep ==
    ASSUME ldInv, ApplyReloc
    PROVE  ldInv'
  <1> DEFINE r    == rela[rel]
             r0   == object.rela[rel]
             v    == SymValue(symtab, r.sym, sec_addr)
             w    == Relocated(r.r_type, v, r.r_addend, sec_addr + r.r_offset, contents[r.r_offset])
             mask == fusion_elf_howto_table(r0.r_type).dst_mask
  <1>1. PICK k : k = rel
    OBVIOUS
  <1>2. InLoop /\ Kind(r.sym) # "discarded" /\ ~place.relocatable /\ rel' = rel + 1
    BY DEF ApplyReloc
  <1>3. /\ contents' = [contents EXCEPT ![r.r_offset] = w]
        /\ UNCHANGED <<ldphase, rela, symtab, place, partials, origin, object>>
        /\ ReportUndefined(r.sym)
    BY DEF ApplyReloc
  <1>4. /\ k \in DOMAIN rela /\ rel \in Int
        /\ r \in Reloc(DOMAIN symtab) /\ r0 \in Reloc(DOMAIN object.symtab)
        /\ contents[r.r_offset] \in SUBSET Bit /\ r.r_offset \in DOMAIN contents
        /\ object.contents[r0.r_offset] \in SUBSET Bit
        /\ r.r_offset = r0.r_offset + origin
        /\ ~Done(k)
        /\ Discarded(r0) => r.r_type = "R_FUSION_NONE" /\ r.sym = StnUndef
        /\ ~Discarded(r0) => r.r_type = r0.r_type
    BY <1>1, <1>2, AtRel
  <1>5. r.r_type \in R_FUSION /\ w \in SUBSET Bit
    BY <1>4, RelocatedKeeps DEF Reloc
  <1>6. WordUnder(k)
    BY <1>4, RelaFacts DEF ldInv, WordsSoFar
  <1>7. contents'[r0.r_offset + origin] = w
    BY <1>3, <1>4
  <1>8. Settled(k)'
    BY <1>1, <1>2, <1>3, <1>4 DEF Settled, Done, Discarded
  <1>9. WordUnder(k)'
    <2>1. CASE Discarded(r0)
      <3>1. w = contents[r.r_offset]
        BY <2>1, <1>4, RelocatedNone
      <3>2. Settled(k)
        BY <2>1, <1>1, <1>4 DEF Settled
      <3> QED
        BY <3>1, <3>2, <2>1, <1>1, <1>3, <1>4, <1>6, <1>7, <1>8 DEF WordUnder, DirectReloc, Discarded
    <2>2. CASE ~Discarded(r0)
      <3>1. contents[r.r_offset] = object.contents[r0.r_offset]
        BY <2>2, <1>1, <1>4, <1>6 DEF WordUnder, Settled
      <3>2. w \cap (Bit \ mask) = object.contents[r0.r_offset] \cap (Bit \ mask)
        BY <3>1, <2>2, <1>4, <1>5, RelocatedKeeps
      <3>3. ~AddendIgnored(r0.r_type)
              => w = DirectReloc(r0, sec_addr + origin, object.contents[r0.r_offset])
        <4> SUFFICES ASSUME ~AddendIgnored(r0.r_type)
                     PROVE  w = DirectReloc(r0, sec_addr + origin, object.contents[r0.r_offset])
          OBVIOUS
        <4> DEFINE v0 == SymValue(object.symtab, r0.sym, sec_addr + origin)
        <4>1. v \in Int /\ v0 \in Int /\ v + r.r_addend = v0 + r0.r_addend
          BY <1>1, <1>4, <2>2, SumMoved
        <4>2. /\ sec_addr \in Int /\ origin \in Int /\ r0.r_offset \in Int
              /\ r.r_addend \in Int /\ r0.r_addend \in Int
          <5>1. sec_addr \in Int /\ origin \in Int
            BY DEF ldInv, ldTypeOK, sec_addr
          <5> QED
            BY <5>1, <1>4 DEF Reloc
        <4>3. sec_addr + r.r_offset = sec_addr + origin + r0.r_offset /\ sec_addr + r.r_offset \in Int
          BY <4>2, <1>4
        <4>4. w = Relocated(r0.r_type, v0, r0.r_addend, sec_addr + r.r_offset,
                            object.contents[r0.r_offset])
          <5>1. ~AddendIgnored(r.r_type) /\ r.r_type = r0.r_type
            BY <2>2, <1>4
          <5> DEFINE pc == sec_addr + r.r_offset
                     x0 == object.contents[r0.r_offset]
          <5> HIDE DEF v, v0, pc, x0
          <5>2. pc \in Int
            BY <4>3 DEF pc
          <5>3. Relocated(r.r_type, v, r.r_addend, pc, x0)
                  = Relocated(r.r_type, v + r.r_addend, 0, pc, x0)
            BY <5>1, <5>2, <4>1, <4>2, <1>5, RelocatedSum
          <5>4. Relocated(r.r_type, v0, r0.r_addend, pc, x0)
                  = Relocated(r.r_type, v0 + r0.r_addend, 0, pc, x0)
            BY <5>1, <5>2, <4>1, <4>2, <1>5, RelocatedSum
          <5> QED
            BY <5>1, <5>3, <5>4, <4>1, <3>1 DEF v, v0, pc, x0
        <4> QED
          BY <4>3, <4>4, <2>2 DEF DirectReloc
      <3> QED
        BY <3>2, <3>3, <1>1, <1>3, <1>7, <1>8 DEF WordUnder, DirectReloc, Discarded, sec_addr
    <2> QED
      BY <2>1, <2>2
  <1>10. /\ \A b \in DOMAIN contents' : b \in Int /\ contents'[b] \subseteq Bit
         /\ ContentsMoved' /\ SymtabMoved' /\ WordsSoFar'
         /\ \A i \in DOMAIN rela \ {k} : Done(i)' <=> Done(i)
    BY <1>1, <1>2, <1>3, <1>5, <1>9, OneWord
  <1>11. Kind(r.sym) = "undef" => r.sym \in DOMAIN symtab /\ r.sym \in reported'
    BY <1>2, <1>3, <1>4 DEF Kind, Reloc, ReportUndefined
  <1>12. reported \subseteq reported' /\ reported' \subseteq DOMAIN symtab
    BY <1>3, <1>11 DEF ReportUndefined, ldInv, ldTypeOK
  <1>13. ldTypeOK'
    <2>1. rel' \in 1..(Len(rela') + 1)
      <3>1. Len(rela) \in Nat /\ rel \in 1..Len(rela)
        BY <1>1, <1>4, RelaFacts
      <3>2. rel' = rel + 1 /\ rela' = rela
        BY <1>2, <1>3
      <3> QED
        BY <3>1, <3>2
    <2> QED
      BY <2>1, <1>3, <1>10, <1>12 DEF ldInv, ldTypeOK
  <1>14. RelasMoved'
    BY <1>3 DEF ldInv, RelasMoved, MovedFrom, Discarded
  <1>15. LoopPlace'
    <2>1. \A i \in DOMAIN rela : Discarded(object.rela[i])' /\ Done(i)' => rela'[i].sym = StnUndef
      BY <1>1, <1>3, <1>4, <1>10 DEF ldInv, LoopPlace, Discarded
    <2>2. \A i \in DOMAIN rela : Done(i)' /\ Kind(rela[i].sym)' = "undef" => rela'[i].sym \in reported'
      BY <1>1, <1>3, <1>10, <1>11, <1>12 DEF ldInv, LoopPlace, Kind
    <2> QED
      BY <2>1, <2>2, <1>2, <1>3 DEF LoopPlace, InLoop
  <1> QED
    BY <1>10, <1>13, <1>14, <1>15 DEF ldInv

(* Moving offsets, addends and symbols after a relocatable link keeps the  *)
(* invariant.                                                              *)
LEMMA AdjustRelocsStep ==
    ASSUME ldInv, AdjustRelocs
    PROVE  ldInv'
  <1> DEFINE d == place.output_offset
  <1>1. /\ ldphase' = "object" /\ partials' = partials + 1 /\ origin' = origin + d
        /\ rela' = [i \in DOMAIN rela |-> MovedReloc(rela[i])]
        /\ contents' = [a \in {b + d : b \in DOMAIN contents} |-> contents[a - d]]
        /\ UNCHANGED <<rel, place, reported, object>>
        /\ place.relocatable
    BY DEF AdjustRelocs, ldInv, LoopPlace
  <1>2. d \in Int /\ origin \in Int /\ origin' \in Int
    BY <1>1 DEF ldInv, ldTypeOK
  <1>3. /\ DOMAIN symtab' = DOMAIN symtab
        /\ \A s \in DOMAIN symtab : symtab'[s] \in [kind : SymKind, value : Int]
        /\ SymtabMoved'
    <2>1. symtab' = [s \in DOMAIN symtab |-> IF symtab[s].kind = "text" /\ s # ".text"
                                             THEN [symtab[s] EXCEPT !.value = @ + d] ELSE symtab[s]]
      BY DEF AdjustRelocs
    <2>2. \A s \in DOMAIN symtab : symtab[s] \in [kind : SymKind, value : Int]
      BY DEF ldInv, ldTypeOK
    <2>3. \A s \in DOMAIN symtab :
            /\ symtab'[s] \in [kind : SymKind, value : Int]
            /\ symtab'[s].kind = symtab[s].kind
            /\ symtab'[s].value = symtab[s].value
                                    + (IF symtab[s].kind = "text" /\ s # ".text" THEN d ELSE 0)
      BY <2>1, <2>2, <1>2
    <2>4. DOMAIN symtab' = DOMAIN symtab
      BY <2>1
    <2>5. \A s \in DOMAIN object.symtab : object.symtab[s].value \in Int
      BY DEF ldInv, ldTypeOK, WellFormed
    <2> QED
      BY <2>3, <2>4, <2>5, <1>1, <1>2 DEF ldInv, SymtabMoved
  <1>4. /\ rela' \in Seq(Reloc(DOMAIN symtab)) /\ Len(rela') = Len(rela)
        /\ DOMAIN rela' = DOMAIN rela
    <2>1. \A i \in DOMAIN rela : MovedReloc(rela[i]) \in Reloc(DOMAIN symtab)
      BY <1>2, RelaFacts DEF MovedReloc, Reloc
    <2> QED
      BY <2>1, <1>1, RelaFacts
  <1>5. ASSUME NEW i \in DOMAIN rela
        PROVE  /\ MovedFrom(rela[i], object.rela[i])'
               /\ Discarded(object.rela[i]) => (rela'[i].sym = StnUndef <=> rela[i].sym = StnUndef)
    <2> DEFINE r0 == object.rela[i]
    <2>1. /\ rela[i] \in Reloc(DOMAIN symtab) /\ r0 \in Reloc(DOMAIN object.symtab)
          /\ MovedFrom(rela[i], r0)
          /\ rela'[i] = MovedReloc(rela[i])
      BY <1>1, RelaFacts
    <2>2. Discarded(r0) => r0.sym # "*ABS*"
      <3>1. "*ABS*" \in DOMAIN object.symtab => object.symtab["*ABS*"].kind = "defined"
        BY DEF ldInv, ldTypeOK, WellFormed
      <3> QED
        BY <3>1, <2>1 DEF Discarded, Reloc
    <2>3. /\ rela'[i].r_offset = r0.r_offset + origin'
          /\ rela'[i].r_type = rela[i].r_type
          /\ rela'[i].sym = IF rela[i].sym = "*ABS*" THEN StnUndef ELSE rela[i].sym
          /\ rela'[i].r_addend = rela[i].r_addend + (IF rela[i].sym = ".text" THEN d ELSE 0)
      BY <2>1, <1>1, <1>2 DEF MovedReloc, MovedFrom, Reloc
    <2>4. rela[i].r_addend \in Int /\ r0.r_addend \in Int
      BY <2>1 DEF Reloc
    <2>5. MovedFrom(rela[i], object.rela[i])'
      BY <2>1, <2>3, <2>4, <1>1, <1>2 DEF MovedFrom, Discarded, StnUndef
    <2> QED
      BY <2>1, <2>2, <2>3, <2>5 DEF MovedFrom, Discarded, StnUndef
  <1>6. \A i \in DOMAIN rela : ~Done(i) /\ ~Done(i)'
    BY <1>1 DEF Done
  <1>7. /\ ContentsMoved'
        /\ \A b \in DOMAIN contents' : b \in Int /\ contents'[b] \subseteq Bit
        /\ \A a \in DOMAIN object.contents : contents'[a + origin'] = contents[a + origin]
    <2>1. \A a \in DOMAIN object.contents : a \in Int
      BY DEF ldInv, ldTypeOK, WellFormed
    <2>2. DOMAIN contents = {a + origin : a \in DOMAIN object.contents}
      BY DEF ldInv, ContentsMoved
    <2>3. \A b \in DOMAIN contents : b \in Int /\ contents[b] \subseteq Bit
      BY DEF ldInv, ldTypeOK
    <2>4. \A b \in DOMAIN contents : b + d \in DOMAIN contents' /\ contents'[b + d] = contents[b]
      BY <2>3, <1>1, <1>2
    <2>5. \A a \in DOMAIN object.contents : a + origin' = (a + origin) + d
      BY <2>1, <1>1, <1>2
    <2>6. \A a \in DOMAIN object.contents : contents'[a + origin'] = contents[a + origin]
      BY <2>2, <2>4, <2>5
    <2>8. DOMAIN contents' = {a + origin' : a \in DOMAIN object.contents}
      <3>1. DOMAIN contents' = {b + d : b \in DOMAIN contents}
        BY <1>1
      <3> QED
        BY <3>1, <2>2, <2>5
    <2>7. \A b \in DOMAIN contents' : b \in Int /\ contents'[b] \subseteq Bit
      BY <2>3, <1>1, <1>2
    <2> QED
      BY <2>6, <2>7, <2>8, <1>1 DEF ContentsMoved
  <1>8. ASSUME NEW i \in DOMAIN rela PROVE WordUnder(i)'
    <2>1. WordUnder(i)
      BY RelaFacts DEF ldInv, WordsSoFar
    <2>2. Settled(i)' <=> Settled(i)
      BY <1>1, <1>5, <1>6 DEF Settled, Discarded
    <2>3. contents'[object.rela[i].r_offset + origin'] = contents[object.rela[i].r_offset + origin]
      BY <1>7, RelaFacts
    <2>4. CASE Discarded(object.rela[i])
      BY <2>1, <2>2, <2>3, <2>4, <1>1 DEF WordUnder, DirectReloc, Discarded
    <2>5. CASE ~Discarded(object.rela[i])
      BY <2>1, <2>2, <2>3, <2>5, <1>1, <1>6 DEF WordUnder, Settled
    <2> QED
      BY <2>4, <2>5
  <1>9. WordsSoFar'
    <2>1. \A i \in DOMAIN object.rela' : WordUnder(i)'
      BY <1>1, <1>8, RelaFacts
    <2>2. \A a \in DOMAIN object.contents :
              RelocsAt(a) = {} => contents'[a + origin'] = object.contents[a]
      BY <1>7 DEF ldInv, WordsSoFar
    <2>3. \A a : RelocsAt(a)' = RelocsAt(a)
      BY <1>1 DEF RelocsAt
    <2> QED
      BY <2>1, <2>2, <2>3, <1>1 DEF WordsSoFar
  <1>10. ldTypeOK'
    <2>1. partials' \in 0..MaxPartial
      BY <1>1, PartialAssumption DEF AdjustRelocs, ldInv, ldTypeOK, LoopPlace
    <2> QED
      BY <2>1, <1>1, <1>2, <1>3, <1>4, <1>7 DEF ldInv, ldTypeOK
  <1>11. LoopPlace' /\ RelasMoved'
    BY <1>1, <1>4, <1>5, <1>6 DEF ldInv, LoopPlace, RelasMoved
  <1> QED
    BY <1>3, <1>7, <1>9, <1>10, <1>11 DEF ldInv

(* The invariant holds in every state of a link, whatever is linked, and   *)
(* wherever it is put.                                                     *)
THEOREM LdInvariant == ldSpec => []ldInv
  <1>1. ldInit => ldInv
    BY InitInv
  <1>2. ldInv /\ [ldNext]_ldVars => ldInv'
    <2> SUFFICES ASSUME ldInv, [ldNext]_ldVars PROVE ldInv'
      OBVIOUS
    <2>1. CASE \E p \in Placement, relocatable \in BOOLEAN : StartLink(p, relocatable)
      BY <2>1, StartLinkStep
    <2>2. CASE DiscardedReloc
      BY <2>2, DiscardedRelocStep
    <2>3. CASE KeepReloc
      BY <2>3, KeepRelocStep
    <2>4. CASE ApplyReloc
      BY <2>4, ApplyRelocStep
    <2>5. CASE UnsupportedReloc
      BY <2>5, UnsupportedRelocStep
    <2>6. CASE EndRelocateSection
      BY <2>6, EndRelocateSectionStep
    <2>7. CASE AdjustRelocs
      BY <2>7, AdjustRelocsStep
    <2>8. CASE UNCHANGED ldVars
      <3>1. UNCHANGED <<contents, rela, symtab, origin, object>> /\ place' = place
        BY <2>8 DEF ldVars
      <3>2. \A i \in DOMAIN rela : Done(i)' <=> Done(i)
        BY <2>8 DEF ldVars, Done
      <3>3. ldTypeOK' /\ LoopPlace'
        BY <2>8, <3>2 DEF ldVars, ldInv, ldTypeOK, LoopPlace, Discarded, Kind
      <3> QED
        BY <3>1, <3>2, <3>3, SameWords DEF ldInv
    <2> QED
      BY <2>1, <2>2, <2>3, <2>4, <2>5, <2>6, <2>7, <2>8 DEF ldNext
  <1> QED
    BY <1>1, <1>2, PTL DEF ldSpec

(* The variables of a link keep their types: no relocation makes a word    *)
(* longer than 32 bits and the loop never leaves the table.                *)
THEOREM LdTypeCorrect == ldSpec => []ldTypeOK
  <1>1. ldInv => ldTypeOK
    BY DEF ldInv
  <1> QED
    BY <1>1, LdInvariant, PTL

(* No relocation of any type, by any number of links, reaches the opcode,  *)
(* the function code or the registers of an instruction.                   *)
THEOREM LdOtherBitsKept == ldSpec => []OtherBitsKept
  <1>1. ldInv => OtherBitsKept
    <2> SUFFICES ASSUME ldInv, NEW a \in DOMAIN object.contents
                 PROVE  contents[origin + a] \ Field(a) = object.contents[a] \ Field(a)
      BY DEF OtherBitsKept
    <2>1. origin + a = a + origin
      BY DEF ldInv, ldTypeOK, WellFormed
    <2>2. CASE RelocsAt(a) = {}
      BY <2>1, <2>2 DEF ldInv, WordsSoFar
    <2>3. CASE RelocsAt(a) # {}
      <3>1. PICK i \in DOMAIN object.rela : object.rela[i].r_offset = a
        BY <2>3 DEF RelocsAt
      <3> DEFINE mask == fusion_elf_howto_table(object.rela[i].r_type).dst_mask
      <3>2. mask \subseteq Field(a)
        BY <3>1 DEF Field, RelocsAt
      <3>3. WordUnder(i)
        BY <3>1 DEF ldInv, WordsSoFar
      <3>4. contents[a + origin] \cap (Bit \ mask) = object.contents[a] \cap (Bit \ mask)
        BY <3>1, <3>3 DEF WordUnder
      <3>5. contents[a + origin] \subseteq Bit /\ object.contents[a] \subseteq Bit
        BY <3>1, RelaFacts DEF ldInv, ldTypeOK, WellFormed
      <3> QED
        BY <2>1, <3>2, <3>4, <3>5
    <2> QED
      BY <2>2, <2>3
  <1> QED
    BY <1>1, LdInvariant, PTL

(* Without unsupported types a final link passes every relocation.         *)
LEMMA LinkedIsDone ==
    ASSUME SupportedOnly, ldInv, ldphase = "linked"
    PROVE  \A i \in DOMAIN rela : Done(i)
  <1>1. ~place.relocatable /\ (rel <= Len(rela) => ~Supported(rela[rel].r_type))
    BY DEF ldInv, LoopPlace
  <1>2. \A i \in DOMAIN rela : Supported(object.rela[i].r_type)
    BY RelaFacts DEF SupportedOnly
  <1>3. \A i \in DOMAIN rela : Supported(rela[i].r_type)
    BY <1>2, RelaFacts DEF MovedFrom, Supported
  <1>4. rel > Len(rela)
    BY <1>1, <1>3, RelaFacts DEF ldInv, ldTypeOK
  <1> QED
    BY <1>1, <1>4, RelaFacts DEF Done, ldInv, ldTypeOK

(* Every undefined symbol of a finished link has been reported.            *)
THEOREM LdUndefinedReported == ldSpec => []UndefinedReported
  <1>1. ldInv => UndefinedReported
    BY LinkedIsDone DEF ldInv, LoopPlace, UndefinedReported
  <1> QED
    BY <1>1, LdInvariant, PTL

(* Relocatable links before the final one change nothing in the result,    *)
(* loads and stores aside.                                                 *)
THEOREM LdPartialLinkTransparent == ldSpec => []PartialLinkTransparent
  <1>1. ldInv => PartialLinkTransparent
    <2> SUFFICES ASSUME ldInv, SupportedOnly, ldphase = "linked", NEW a \in DOMAIN object.contents,
                        \A r \in RelocsAt(a) : ~AddendIgnored(r.r_type)
                 PROVE  LinkIsDirect(a)
      BY DEF PartialLinkTransparent
    <2>1. origin + a = a + origin
      BY DEF ldInv, ldTypeOK, WellFormed
    <2>2. CASE RelocsAt(a) = {}
      BY <2>1, <2>2 DEF ldInv, WordsSoFar, LinkIsDirect
    <2>3. CASE RelocsAt(a) # {}
      <3>1. PICK i \in DOMAIN object.rela : object.rela[i].r_offset = a
        BY <2>3 DEF RelocsAt
      <3>2. object.rela[i] \in RelocsAt(a)
        BY <3>1 DEF RelocsAt
      <3>3. WordUnder(i) /\ i \in DOMAIN rela
        BY RelaFacts DEF ldInv, WordsSoFar
      <3>4. Settled(i)
        BY <3>3, LinkedIsDone DEF Settled, ldInv, LoopPlace
      <3> QED
        BY <2>1, <3>1, <3>2, <3>3, <3>4 DEF WordUnder, LinkIsDirect
    <2> QED
      BY <2>2, <2>3
  <1> QED
    BY <1>1, LdInvariant, PTL
=============================================================================
