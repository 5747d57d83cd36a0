--------------------------- MODULE FusionToolchain ---------------------------
(***************************************************************************)
(* Assembler, linker and disassembler together: a program is assembled,    *)
(* its object linked, directly or through relocatable links, and the       *)
(* words of the result are read back.  Symbols the program does not define *)
(* are defined by another object, at a value the link is free to choose.   *)
(***************************************************************************)
EXTENDS FusionAs, FusionLd, FusionDis

CONSTANT ExternValue   \* the values an undefined symbol may get in the link

vars == <<asVars, ldVars>>

(* The object file: the words by offset, write_relocs' relocations under   *)
(* their ELF types, and the symbols they may name.                         *)
Words  == [a \in {Address(k) : k \in DOMAIN insns} |->
             insns[CHOOSE k \in DOMAIN insns : Address(k) = a].word]
Relas  == [i \in DOMAIN relocs |->
             [r_offset |-> relocs[i].address, r_type |-> fusion_reloc_map(relocs[i].r_type),
              sym |-> relocs[i].sym, r_addend |-> relocs[i].addend]]
Symtab(ext) ==
    [s \in Symbol \cup {SecSym, AbsSym} |->
       CASE s = SecSym -> [kind |-> "text", value |-> 0]
         [] s = AbsSym -> [kind |-> "defined", value |-> 0]
         [] OTHER      -> CASE syms[s].seg = "text"  -> [kind |-> "text", value |-> S_GET_VALUE(s)]
                            [] syms[s].seg = "abs"   -> [kind |-> "defined", value |-> syms[s].value]
                            [] syms[s].seg = "undef" -> [kind |-> "defined", value |-> ext]]

Load(ext) ==
    /\ phase = "written" /\ ~had_errors /\ insns # <<>>
    /\ ldphase = "idle"
    /\ ldphase' = "object"
    /\ contents' = Words
    /\ rela' = Relas
    /\ symtab' = Symtab(ext)
    /\ object' = [contents |-> Words, rela |-> Relas, symtab |-> Symtab(ext)]
    /\ UNCHANGED <<rel, place, partials, reported, origin, asVars>>

Init ==
    /\ asInit
    /\ ldEmpty
    /\ ldphase = "idle"
    /\ contents = <<>>
    /\ rela = <<>>
    /\ symtab = <<>>
    /\ object = <<>>

Next == \/ asNext /\ UNCHANGED ldVars
        \/ \E ext \in ExternValue : Load(ext)
        \/ ldNext /\ UNCHANGED asVars

Spec == Init /\ [][Next]_vars

-----------------------------------------------------------------------------
(* What the program asked for.                                             *)

Linked == ldphase = "linked"

(* Where instruction k is in memory, and what is printed of it there.      *)
Pc(k)    == sec_addr + origin + Address(k)
Final(k) == contents[origin + Address(k)]
Shown(k) == print_insn_fusion(Pc(k), Final(k))

(* The value of an expression in the linked program.                       *)
Target(e) ==
    e.num + (IF e.X_op # "O_symbol" THEN 0
             ELSE CASE syms[e.sym].seg = "text"  -> sec_addr + origin + S_GET_VALUE(e.sym)
                    [] syms[e.sym].seg = "abs"   -> syms[e.sym].value
                    [] syms[e.sym].seg = "undef" -> symtab[e.sym].value)

(* The instruction statement k comes from, and its row of the table.       *)
Src(k)   == insns[k].src
Row(k)   == op_hash_ctrl(Src(k).name)
IsInsn(k) == Src(k).op = "insn"
Symbolic(k) == Src(k).expr.X_op = "O_symbol"

(* What the disassembler should name: the mnemonic and the registers in    *)
(* the order of the source line, or those of a macro's expansion.          *)
SourceRegs(s, args) ==
    CASE args = "USE_RDAB"                    -> <<s.rd.n, s.rsa.n, s.rsb.n>>
      [] args \in {"USE_RDAI", "USE_RDAI_O"}  -> <<s.rd.n, s.rsa.n>>
      [] args = "USE_RDI"                     -> <<s.rd.n>>
      [] args = "USE_RABI"                    -> <<s.rsa.n, s.rsb.n>>
      [] args = "USE_RABI_O"                  -> <<s.rsb.n, s.rsa.n>>
      [] args = "USE_RAI_O"                   -> <<s.rsa.n>>
      [] OTHER                                -> <<>>

Asked(k) ==
    LET name == Src(k).name
        part == insns[k].part
    IN  CASE name = "la"   -> [name |-> IF part = 1 THEN "lui" ELSE "lni", regs |-> <<Src(k).rd.n>>]
          [] name = "call" -> [name |-> IF part = 1 THEN "lui" ELSE "jrl", regs |-> <<22>>]
          [] name = "ret"  -> [name |-> "jr", regs |-> <<4>>]
          [] OTHER         -> [name |-> name, regs |-> SourceRegs(Src(k), Row(k).args)]

(* A linked instruction reads back with the mnemonic and the registers of  *)
(* its source line: fixups and relocations that or immediates into a word, *)
(* in whatever frag and object it ends up, never reach its other fields.   *)
ReadsBack ==
    Linked => \A k \in DOMAIN insns :
                IsInsn(k) => /\ Shown(k).name = Asked(k).name
                             /\ Shown(k).regs = Asked(k).regs

-----------------------------------------------------------------------------
(* Where the symbol of an operand is wrong in the object already: a global *)
(* symbol of the section is added by fixup_segment and again by the link,  *)
(* and a PC relative fixup adds the address of its frag, so that a branch  *)
(* in a later frag misses its target by that address.                      *)
Doubled(k)  == Symbolic(k) /\ LET s == syms[Src(k).expr.sym]
                              IN  s.seg = "text" /\ s.ext /\ S_GET_VALUE(Src(k).expr.sym) # 0
OffFrag(k)  == frags[insns[k].frag].address # 0

PcRelative(k) == \/ Row(k).opc = OPC_BRANCH
                 \/ Row(k).opc \in {OPC_JMP, OPC_JLNK} /\ Row(k).args = "USE_I"
Displacement(k) == Target(Src(k).expr) - Pc(k)

(* The displacements a branch can hold, and those a jump gets right:       *)
(* R_FUSION_JUMP does not split its value over the fields of the word.     *)
Reach(k) == IF Row(k).opc = OPC_BRANCH THEN -8192..8191 ELSE -65536..65535

TransferTo(k) == Shown(k).imms = <<Displacement(k)>>

(* Branches and jumps to a label or an external symbol hold the distance   *)
(* from the instruction to the target, whatever the section is linked at.  *)
TransfersExact ==
    Linked => \A k \in DOMAIN insns :
                IsInsn(k) /\ PcRelative(k) /\ Displacement(k) \in Reach(k)
                  /\ ~Doubled(k) /\ ~OffFrag(k)
                => TransferTo(k)

(* The address the two instructions of la or call make.                    *)
Pair(k) == Shown(k).imms[1] * 65536 + Shown(k + 1).imms[1]
PairAt(k, name) == IsInsn(k) /\ Src(k).name = name /\ insns[k].part = 1

(* A call reaches targets below 2^21, when the low halves of symbol and    *)
(* addend add up without a carry, and the value the assembler itself adds  *)
(* for the symbol fits the low half: its upper half would count in lui and *)
(* in jrl.                                                                 *)
CallInReach(k) ==
    LET e     == Src(k).expr
        lower == e.num % 65536
    IN  /\ Target(e) \in 0..2097151
        /\ ((Target(e) - e.num) % 65536) + lower < 65536
        /\ Symbolic(k) => S_GET_VALUE(e.sym) + lower < 65536

(* la puts the address of its operand in a register and call jumps to it,  *)
(* wherever the section and the symbol are linked, however the offset is   *)
(* split between the two instructions, the word and the relocation.        *)
PairsExact ==
    Linked => \A k \in DOMAIN insns :
                ~Doubled(k) /\ (PairAt(k, "la") \/ (PairAt(k, "call") /\ CallInReach(k)))
                => Pair(k) = Target(Src(k).expr)

(* la of a global symbol puts its address in a register as la of a local   *)
(* one does: the addend of the relocation does not hold the symbol's value.*)
GlobalExact ==
    Linked => \A k \in DOMAIN insns :
                PairAt(k, "la") => Pair(k) = Target(Src(k).expr)

(* The constants the immediate field of an instruction holds.              *)
Unsigned12 == {"addui", "subui", "noti", "andi", "ori", "xori"}
Holds(row) ==
    CASE row.opc = OPC_IMM -> IF row.name \in Unsigned12 THEN 0..4095 ELSE -2048..2047
      [] row.opc \in {OPC_LD, OPC_ST} -> 0..16383
      [] row.opc = OPC_LI -> 0..65535
      [] row.opc = OPC_SYS -> 0..255
      [] OTHER -> 0..2097151
Upper(row) == row.opc = OPC_LI /\ return_reloc(row) = "HI16"

(* A constant operand that its field can hold reads back as it was         *)
(* written.  The HI16 instructions keep the upper half, and only of a      *)
(* constant whose lower half is zero: the other is or'ed into the field.   *)
ConstantsExact ==
    Linked => \A k \in DOMAIN insns :
                IsInsn(k) /\ Row(k).cpid = "CPID_MAIN" /\ ~PcRelative(k)
                  /\ Src(k).expr.X_op = "O_constant"
                => LET c == Src(k).expr.num
                   IN  IF Upper(Row(k))
                       THEN c % 65536 = 0 => Shown(k).imms = <<(c \div 65536) % 65536>>
                       ELSE c \in Holds(Row(k)) => Shown(k).imms = <<c>>

IsLong(k) == Src(k).op = "long"

(* Both the word and the relocation carry what the assembler knew of the   *)
(* operand, and R_FUSION_32 adds the word to the addend.                   *)
AddedTwice(k) ==
    LET e == Src(k).expr
    IN  e.X_op = "O_symbol" /\ syms[e.sym].seg # "abs" /\ e.num + S_GET_VALUE(e.sym) # 0

(* A .long holds the value of its operand after the link, also when the    *)
(* symbol is set to a constant after its use.                              *)
LongsExact ==
    Linked => \A k \in DOMAIN insns :
                IsLong(k) /\ ~AddedTwice(k) => Final(k) = Bits(Target(Src(k).expr))
=============================================================================
