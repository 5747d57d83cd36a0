------------------------------- MODULE FusionAs -------------------------------
(***************************************************************************)
(* The assembler for one text section: md_assemble and the macros of       *)
(* gas/config/tc-fusion.c, the frags they fill, and the passes of          *)
(* gas/write.c that turn fixups into words and relocations.                *)
(*                                                                         *)
(* A program is a sequence of statements of one kind.  Its text is already *)
(* split into operands: a register operand is a token [syn, n] and an      *)
(* expression is [X_op, sym, num].  Addresses, constants and addends are C *)
(* ints.                                                                   *)
(***************************************************************************)
EXTENDS FusionOpc

CONSTANTS Symbol,       \* the names a program may use
          ProgramKind,  \* kinds of programs
          Stmt,         \* kind -> the statements a program is made of
          MaxStmts,     \* kind -> bound on the length of a program
          MaxFrags      \* bound on the number of frags of the section

ASSUME BoundsAssumption == MaxStmts \in [ProgramKind -> Nat] /\ MaxFrags \in Nat \ {0}

NoSym  == "none"    \* fx_addsy == NULL
SecSym == ".text"   \* the section symbol
AbsSym == "*ABS*"   \* abs_section_sym

VARIABLES phase,       \* how far write_object_file has come
          kind,        \* the kind of the program
          nstmts,      \* statements read
          frags,       \* the frchain: [fix, var, address]
          insns,       \* the words in it, with the statement they come from
          fixes,       \* the fixS list
          syms,        \* the symbol table: [seg, frag, value, ext]
          relocs,      \* the arelents of the section
          had_errors   \* as_bad or as_fatal was called

asVars == <<phase, kind, nstmts, frags, insns, fixes, syms, relocs, had_errors>>

O_constant(n)  == [X_op |-> "O_constant", sym |-> NoSym, num |-> n]
O_symbol(s, n) == [X_op |-> "O_symbol", sym |-> s, num |-> n]
O_absent       == [X_op |-> "O_absent", sym |-> NoSym, num |-> 0]

-----------------------------------------------------------------------------
(* Reading operands.                                                       *)

(* parse_register_operand.  A token is one of fusion_gpreg_name ("name"),  *)
(* the number of a register in one or two digits ("$d", "$dd"), "tmp8" or  *)
(* something unknown.  The number in "$d" is computed from the character   *)
(* after the digit ('\0' or `)'), and the names sp, fp, ra, rvalN, hi0 and *)
(* low0 may not precede `)'.  A number does not advance the line pointer,  *)
(* so a program has one only as the last operand of a line.                *)
parse_register_operand(tok, delim) ==
    CASE tok.syn = "name"    -> [reg |-> Bits(tok.n),
                                 bad |-> delim = ")" /\ tok.n \in {1, 2, 4, 9, 10, 30, 31}]
      [] tok.syn = "$d"      -> [reg |-> Bits(IF delim = ")" THEN -7 ELSE -48), bad |-> FALSE]
      [] tok.syn = "$dd"     -> [reg |-> Bits(IF tok.n > 31 THEN -1 ELSE tok.n),
                                 bad |-> tok.n > 31]
      [] tok.syn = "tmp8"    -> [reg |-> Bits(30), bad |-> FALSE]
      [] tok.syn = "unknown" -> [reg |-> Bits(-1), bad |-> TRUE]

(* Which register operands assemble_insn_bin parses, and what follows one  *)
(* in the text.                                                            *)
ParsedRegs(insn) ==
    IF insn.imm_mask = MASK_NO_IMM
    THEN CASE insn.args = "USE_RDAB" -> {"rd", "rsa", "rsb"}
           [] insn.args = "USE_RDA"  -> {"rd", "rsa"}
           [] insn.args = "USE_RAB"  -> {"rsa", "rsb"}
           [] OTHER                  -> {}
    ELSE CASE insn.args \in {"USE_RDAI", "USE_RDAI_O"} -> {"rd", "rsa"}
           [] insn.args = "USE_RDI"                    -> {"rd"}
           [] insn.args = "USE_RAI"                    -> {"rsa"}
           [] insn.args \in {"USE_RABI", "USE_RABI_O"} -> {"rsa", "rsb"}
           [] insn.args = "USE_RAI_O" /\ insn.cpid # "CPID_MACRO" -> {"rsa"}
           [] OTHER                                    -> {}

ParsesImm(insn) ==
    insn.imm_mask # MASK_NO_IMM /\ insn.args \notin {"USE_NONE", "USE_RDAB", "USE_RDA", "USE_RAB"}

Delimiter(insn, field) ==
    CASE field = "rsa" /\ insn.args \in {"USE_RDAI_O", "USE_RABI_O", "USE_RAI_O"} -> ")"
      [] insn.imm_mask = MASK_NO_IMM
           /\ field = (IF insn.args = "USE_RDAB" \/ insn.args = "USE_RAB" THEN "rsb" ELSE "rsa") -> "end"
      [] OTHER -> ","

(* expression: an absolute symbol that is already defined is a constant.   *)
expression(e) == IF e.X_op = "O_symbol" /\ syms[e.sym].seg = "abs"
                 THEN O_constant(syms[e.sym].value + e.num)
                 ELSE e

-----------------------------------------------------------------------------
(* Building a word.                                                        *)

return_reloc(insn) ==
    CASE insn.opc = OPC_IMM    -> "12"
      [] insn.opc = OPC_LD     -> "LOAD"
      [] insn.opc = OPC_ST     -> "STORE"
      [] insn.opc = OPC_LI     -> IF insn.index \in {Bits(i) : i \in {3, 4, 5, 11, 12, 13}}
                                  THEN "HI16" ELSE "16"
      [] insn.opc \in {OPC_JMP, OPC_JLNK} ->
           IF insn.cpid = "CPID_MACRO" \/ insn.index = Bits(1) THEN "21" ELSE "21_PCREL"
      [] insn.opc = OPC_BRANCH -> "14_PCREL"
      [] insn.opc = OPC_SYS /\ insn.imm_mask # MASK_NO_IMM -> "8"
      [] OTHER -> "UNUSED"

MakeWord(insn, rd, rsa, rsb, imm) ==
    CASE insn.opc = OPC_INT    -> MAKE_R_TYPE(rd, rsa, rsb, insn.index)
      [] insn.opc = OPC_IMM    -> MAKE_I_TYPE(rd, rsa, imm, insn.index)
      [] insn.opc = OPC_LD     -> MAKE_L_TYPE(rd, rsa, insn.index, imm)
      [] insn.opc = OPC_ST     -> MAKE_S_TYPE(insn.index, rsa, rsb, imm)
      [] insn.opc = OPC_LI     -> MAKE_LI_TYPE(rd, insn.index, imm)
      [] insn.opc = OPC_JMP    -> MAKE_J_TYPE(rsa, imm)
      [] insn.opc = OPC_JLNK   -> MAKE_JL_TYPE(rsa, imm)
      [] insn.opc = OPC_BRANCH -> MAKE_B_TYPE(rsa, rsb, imm, insn.index)
      [] insn.opc = OPC_SYS    -> MAKE_SYS_TYPE(rd, rsa, insn.index, imm)
      [] OTHER                 -> {}

(* assemble_insn_bin: the word, the operand left to a fixup and its type.  *)
(* Only the forms without an immediate give up on an unknown register;     *)
(* check_absolute_expr complains of a symbol in an I type.                 *)
assemble_insn_bin(s, insn) ==
    LET reg(f) == IF f \in ParsedRegs(insn)
                  THEN parse_register_operand(s[f], Delimiter(insn, f))
                  ELSE [reg |-> {}, bad |-> FALSE]
        expr   == IF ParsesImm(insn) THEN expression(s.expr) ELSE O_absent
        reloc  == return_reloc(insn)
    IN  [word  |-> MakeWord(insn, reg("rd").reg, reg("rsa").reg, reg("rsb").reg, Bits(expr.num)),
         expr  |-> expr,
         reloc |-> IF insn.opc \in {OPC_JMP, OPC_JLNK} /\ reg("rsa").reg # {} THEN "21" ELSE reloc,
         bad   |-> \/ \E f \in {"rd", "rsa", "rsb"} : reg(f).bad
                   \/ insn.opc = OPC_IMM /\ expr.X_op # "O_constant",
         ok    |-> \/ insn.imm_mask # MASK_NO_IMM
                   \/ \A f \in {"rd", "rsa", "rsb"} : reg(f).reg # Bits(-1)]

(* macro_build: an instruction of a macro, its fields inserted one by one. *)
macro_build(name, rd, rsa, expr, reloc) ==
    LET mo == op_hash_ctrl(name)
    IN  [word  |-> GEN_OPC(mo.opc) \cup GEN_RD(rd) \cup GEN_RSA(rsa)
                     \cup (IF mo.opc = OPC_LI THEN Shl(mo.index \cap 0..3, 17) ELSE {}),
         expr  |-> expr,
         reloc |-> reloc]

(* fusion_call splits the constant part of its operand over lui and jrl.   *)
fusion_call(ep) ==
    LET lower == ep.num % 65536
    IN  << macro_build("lui", Bits(22), {}, [ep EXCEPT !.num = @ - lower], "HI16"),
           macro_build("jrl", {}, Bits(22), [ep EXCEPT !.num = lower], "21") >>

fusion_return(ep) == << macro_build("jr", {}, Bits(4), [ep EXCEPT !.num = 0], "21") >>

(* Mutant: both instructions of la get the upper half.                     *)
load_upper_twice(reg, ep) ==
    << macro_build("lui", reg, {}, ep, "HI16"), macro_build("lni", reg, {}, ep, "HI16") >>

(* load_address of a symbol; load_const passes macro_build a format string *)
(* with a space in it, which is fatal.                                     *)
load_address(reg, ep) ==
    << macro_build("lui", reg, {}, ep, "HI16"), macro_build("lni", reg, {}, ep, "16") >>

(* md_assemble: the instructions a statement appends to the section.       *)
md_assemble(s) ==
    LET insn == op_hash_ctrl(s.name)
        a    == assemble_insn_bin(s, insn)
        out(pieces, fatal) == [pieces |-> pieces, fatal |-> fatal, bad |-> a.bad \/ ~a.ok \/ fatal]
    IN  CASE ~a.ok                   -> out(<<>>, FALSE)
          [] insn.cpid = "CPID_MAIN" ->
               out(<<[word |-> a.word, expr |-> a.expr, reloc |-> a.reloc]>>, FALSE)
          [] s.name = "la"           -> IF a.expr.X_op = "O_symbol"
                                        THEN out(load_address(GET_RD(a.word), a.expr), FALSE)
                                        ELSE out(<<>>, TRUE)
          [] s.name = "call"         -> out(fusion_call(a.expr), FALSE)
          [] s.name = "ret"          -> out(fusion_return(a.expr), FALSE)
-----------------------------------------------------------------------------
(* Appending to the section.                                               *)

(* frag_more(4): four bytes of the current frag.  frag_grow opens a new    *)
(* frag first when the obstack chunk of the current one is full, which no  *)
(* statement controls.                                                     *)
NewFrag(fix) == [fix |-> fix, var |-> 0, address |-> 0]
frag_more(fs, grow) == IF grow THEN Append(fs, NewFrag(4))
                               ELSE [fs EXCEPT ![Len(fs)].fix = @ + 4]

(* append_insn, and emit_expr for a .long: the word goes at the end of the *)
(* section and what is left of the operand into a fixup on it.             *)
append_insn(st, piece, src, part, grow) ==
    LET fs == frag_more(st.frags, grow)
        n  == Len(fs)
    IN  [frags |-> fs,
         insns |-> Append(st.insns, [frag |-> n, where |-> fs[n].fix - 4,
                                     word |-> piece.word, src |-> src, part |-> part]),
         fixes |-> IF piece.reloc = "UNUSED" THEN st.fixes
                   ELSE Append(st.fixes, [at |-> Len(st.insns) + 1, r_type |-> piece.reloc,
                                          addsy |-> piece.expr.sym, offset |-> piece.expr.num,
                                          done |-> FALSE, addnumber |-> 0])]

Section == [frags |-> frags, insns |-> insns, fixes |-> fixes]

(* The section after the pieces of one statement; g says which of them     *)
(* find their chunk full.                                                  *)
AppendPieces(pieces, src, g) ==
    LET one == append_insn(Section, pieces[1], src, 1, 1 \in g)
    IN  CASE Len(pieces) = 0 -> Section
          [] Len(pieces) = 1 -> one
          [] Len(pieces) = 2 -> append_insn(one, pieces[2], src, 2, 2 \in g)

Emit(pieces, src) ==
    \E g \in SUBSET (1..Len(pieces)) :
        LET new == AppendPieces(pieces, src, g)
        IN  /\ Len(new.frags) <= MaxFrags
            /\ frags' = new.frags
            /\ insns' = new.insns
            /\ fixes' = new.fixes

-----------------------------------------------------------------------------
(* Statements.                                                             *)

Reading(s, op) == s.op = op /\ nstmts' = nstmts + 1 /\ UNCHANGED kind

(* An instruction; as_fatal ends the run.                                  *)
Insn(s) ==
    /\ Reading(s, "insn")
    /\ LET a == md_assemble(s)
       IN  /\ phase' = IF a.fatal THEN "fatal" ELSE phase
           /\ had_errors' = (had_errors \/ a.bad)
           /\ Emit(a.pieces, s)
    /\ UNCHANGED <<syms, relocs>>

(* A .long: emit_expr_with_reloc writes a constant, and leaves a symbol to *)
(* a BFD_RELOC_32 fixup on a zero word.                                    *)
cons(s) ==
    /\ Reading(s, "long")
    /\ LET e == expression(s.expr)
       IN  Emit(<<IF e.X_op = "O_constant"
                  THEN [word |-> Bits(e.num), expr |-> e, reloc |-> "UNUSED"]
                  ELSE [word |-> {}, expr |-> e, reloc |-> "32"]>>, s)
    /\ UNCHANGED <<phase, had_errors, syms, relocs>>

(* A .space: frag_var closes the current frag with s.num bytes of fill.    *)
s_space(s) ==
    /\ Reading(s, "space")
    /\ Len(frags) < MaxFrags
    /\ frags' = Append([frags EXCEPT ![Len(frags)].var = s.num], NewFrag(0))
    /\ UNCHANGED <<phase, insns, fixes, syms, relocs, had_errors>>

(* A label, a .globl and a .set of a constant.  A program defines a symbol *)
(* once.                                                                   *)
colon(s) ==
    /\ Reading(s, "label")
    /\ syms[s.sym].seg = "undef"
    /\ syms' = [syms EXCEPT ![s.sym] = [@ EXCEPT !.seg = "text", !.frag = Len(frags),
                                                 !.value = frags[Len(frags)].fix]]
    /\ UNCHANGED <<phase, frags, insns, fixes, relocs, had_errors>>

s_globl(s) ==
    /\ Reading(s, "globl")
    /\ syms' = [syms EXCEPT ![s.sym].ext = TRUE]
    /\ UNCHANGED <<phase, frags, insns, fixes, relocs, had_errors>>

s_set(s) ==
    /\ Reading(s, "set")
    /\ syms[s.sym].seg = "undef"
    /\ syms' = [syms EXCEPT ![s.sym] = [@ EXCEPT !.seg = "abs", !.value = s.num]]
    /\ UNCHANGED <<phase, frags, insns, fixes, relocs, had_errors>>

-----------------------------------------------------------------------------
(* write_object_file.                                                      *)

(* Mutant: the variable part of the frag before is not counted.            *)
relax_fixed_parts ==
    /\ phase = "read"
    /\ phase' = "relaxed"
    /\ frags' = [i \in DOMAIN frags |->
                   [frags[i] EXCEPT !.address = MapThenSumSet(LAMBDA j : frags[j].var, 1..(i - 1))]]
    /\ UNCHANGED <<kind, nstmts, insns, fixes, syms, relocs, had_errors>>

(* relax_segment on frags of fixed size: their addresses.                  *)
relax_segment ==
    /\ phase = "read"
    /\ phase' = "relaxed"
    /\ frags' = [i \in DOMAIN frags |->
                   [frags[i] EXCEPT !.address =
                      MapThenSumSet(LAMBDA j : frags[j].fix + frags[j].var, 1..(i - 1))]]
    /\ UNCHANGED <<kind, nstmts, insns, fixes, syms, relocs, had_errors>>

S_GET_VALUE(s) ==
    IF s \in {SecSym, AbsSym} \/ syms[s].seg = "undef" THEN 0
    ELSE IF syms[s].seg = "abs" THEN syms[s].value
    ELSE frags[syms[s].frag].address + syms[s].value

(* Where an instruction is in the section: md_pcrel_from of its fixup.     *)
Address(k) == frags[insns[k].frag].address + insns[k].where
md_pcrel_from(f) == Address(f.at)

(* Mutant: the section symbol without the offset.                          *)
AdjustedNoOffset(f) ==
    IF f.addsy \in Symbol /\ syms[f.addsy].seg = "text" /\ ~syms[f.addsy].ext
    THEN [f EXCEPT !.addsy = SecSym]
    ELSE f

(* adjust_reloc_syms: a local symbol of the section becomes the section    *)
(* symbol and an offset.                                                   *)
Adjusted(f) ==
    IF f.addsy \in Symbol /\ syms[f.addsy].seg = "text" /\ ~syms[f.addsy].ext
    THEN [f EXCEPT !.offset = @ + S_GET_VALUE(f.addsy), !.addsy = SecSym]
    ELSE f

adjust_reloc_syms ==
    /\ phase = "relaxed"
    /\ phase' = "adjusted"
    /\ fixes' = [i \in DOMAIN fixes |-> Adjusted(fixes[i])]
    /\ UNCHANGED <<kind, nstmts, frags, insns, syms, relocs, had_errors>>

(* The part of fixup_segment before md_apply_fix: the value of the fixup,  *)
(* and an absolute symbol folded into it.  MD_APPLY_SYM_VALUE is 1 here,   *)
(* so a global symbol of the section adds its value as well.               *)
FixValue(f) == f.offset + (IF f.addsy = NoSym THEN 0 ELSE S_GET_VALUE(f.addsy))

(* Mutant: an absolute symbol stays in the fixup it was folded into.       *)
FixSymbolKept(f) == f.addsy

FixSymbol(f) == IF f.addsy \in Symbol /\ syms[f.addsy].seg = "abs" THEN NoSym ELSE f.addsy

(* fusion_apply_const_reloc.                                               *)
fusion_apply_const_reloc(r_type, value) ==
    CASE r_type = "32"    -> value
      [] r_type = "16"    -> GET_IMM_LI(value)
      [] r_type = "HI16"  -> GET_IMM_LI(Shr(value, 16))
      [] r_type = "8"     -> GEN_SYS_IMM(value)
      [] r_type = "STORE" -> GEN_S_IMM(value)
      [] r_type = "LOAD"  -> GEN_L_IMM(value)
      [] r_type = "12"    -> GEN_I_IMM(value)
      [] r_type = "21"    -> GEN_J_IMM(value)

(* md_apply_fix: what it ors into the word, whether the fixup is settled   *)
(* and whether it complains.  The PC relative types and "21" do nothing    *)
(* for a value of zero.                                                    *)
md_apply_fix(f, addsy, val) ==
    LET target == S_GET_VALUE(addsy) + val
        delta  == target - md_pcrel_from(f)
        out(bits, done, bad) == [bits |-> bits, done |-> done, bad |-> bad]
    IN  CASE f.r_type \in {"32", "8", "HI16", "16", "STORE", "LOAD", "12"} ->
               out(fusion_apply_const_reloc(f.r_type, Bits(val)), addsy = NoSym, FALSE)
          [] f.r_type = "14_PCREL" ->
               IF val = 0 \/ addsy = NoSym THEN out({}, FALSE, FALSE)
               ELSE out(GEN_B_IMM(Bits(delta)), FALSE, delta \notin -8192..8191)
          [] f.r_type = "21_PCREL" ->
               IF val = 0 \/ addsy = NoSym THEN out({}, FALSE, FALSE)
               ELSE out(GEN_J_IMM(Bits(delta)), FALSE, delta < -1048576 \/ delta > 1048576)
          [] f.r_type = "21" ->
               IF val = 0 THEN out({}, FALSE, FALSE)
               ELSE IF addsy = NoSym
                    THEN out(fusion_apply_const_reloc("21", Bits(val)), TRUE, FALSE)
                    ELSE out(GEN_J_IMM(Bits(target)), FALSE, target < 0 \/ target > 2097151)

Applied(f) == md_apply_fix(f, FixSymbol(f), FixValue(f))

(* fixup_segment; a fixup that is not settled and has no symbol gets the   *)
(* absolute section's.                                                     *)
fixup_segment ==
    /\ phase = "adjusted"
    /\ phase' = "fixed"
    /\ insns' = [k \in DOMAIN insns |->
                   [insns[k] EXCEPT !.word = @ \cup UNION {Applied(fixes[i]).bits :
                                               i \in {j \in DOMAIN fixes : fixes[j].at = k}}]]
    /\ fixes' = [i \in DOMAIN fixes |->
                   LET f == fixes[i]
                   IN  [f EXCEPT !.addnumber = FixValue(f), !.done = Applied(f).done,
                                 !.addsy = IF ~Applied(f).done /\ FixSymbol(f) = NoSym
                                           THEN AbsSym ELSE FixSymbol(f)]]
    /\ had_errors' = (had_errors \/ \E i \in DOMAIN fixes : Applied(fixes[i]).bad)
    /\ UNCHANGED <<kind, nstmts, frags, syms, relocs>>

(* tc_gen_reloc.  The PC relative types add the address of the frag, jumps *)
(* split the addend over the fields of the instruction.                    *)
tc_gen_reloc(f) ==
    LET delta == frags[insns[f.at].frag].address + f.addnumber
        out(addend, bad) == [address |-> Address(f.at), r_type |-> f.r_type,
                             sym |-> f.addsy, addend |-> addend, bad |-> bad]
    IN  CASE f.r_type = "21_PCREL" ->
               out(SInt(GEN_J_IMM(Bits(delta))), delta \notin -1048576..1048575)
          [] f.r_type = "14_PCREL" -> out(delta, delta \notin -8192..8191)
          [] f.r_type = "21"       -> out(SInt(GEN_J_IMM(Bits(f.addnumber))), FALSE)
          [] OTHER                 -> out(f.addnumber, FALSE)

(* write_relocs, and then the object file unless something was wrong.      *)
write_relocs ==
    /\ phase = "fixed"
    /\ LET left == SelectSeq(fixes, LAMBDA f : ~f.done)
       IN  /\ relocs' = [i \in DOMAIN left |-> tc_gen_reloc(left[i])]
           /\ had_errors' = (had_errors \/ \E i \in DOMAIN left : tc_gen_reloc(left[i]).bad)
    /\ phase' = "written"
    /\ UNCHANGED <<kind, nstmts, frags, insns, fixes, syms>>

-----------------------------------------------------------------------------
asInit ==
    /\ phase = "read"
    /\ kind \in ProgramKind /\ nstmts = 0
    /\ frags = <<NewFrag(0)>>
    /\ insns = <<>>
    /\ fixes = <<>>
    /\ syms = [s \in Symbol |-> [seg |-> "undef", frag |-> 0, value |-> 0, ext |-> FALSE]]
    /\ relocs = <<>>
    /\ had_errors = FALSE

read_a_source_file ==
    /\ phase = "read" /\ nstmts < MaxStmts[kind]
    /\ \E s \in Stmt[kind] : Insn(s) \/ cons(s) \/ s_space(s) \/ colon(s) \/ s_globl(s) \/ s_set(s)

write_object_file == relax_segment \/ adjust_reloc_syms \/ fixup_segment \/ write_relocs

asNext == read_a_source_file \/ write_object_file

asSpec == asInit /\ [][asNext]_asVars

-----------------------------------------------------------------------------
(* Properties.                                                             *)

(* Words are in frags of the section, fixups on words, and relocations in  *)
(* the section; relocations are made only in write_relocs.                 *)
asTypeOK ==
    /\ phase \in {"read", "relaxed", "adjusted", "fixed", "written", "fatal"}
    /\ kind \in ProgramKind /\ nstmts \in 0..MaxStmts[kind]
    /\ Len(frags) \in 1..MaxFrags
    /\ \A k \in DOMAIN insns :
         /\ insns[k].frag \in DOMAIN frags
         /\ insns[k].word \subseteq Bit
         /\ insns[k].where \in 0..(frags[insns[k].frag].fix - 4)
    /\ \A i \in DOMAIN fixes : fixes[i].at \in DOMAIN insns
    /\ \A s \in Symbol : syms[s].seg = "text" => syms[s].frag \in DOMAIN frags
    /\ relocs # <<>> => phase = "written"

(* The state is well-formed, and the section is laid out as it was read:   *)
(* after relax_segment each word follows the one before, with nothing      *)
(* between them but the .space of the frags that end there, wherever       *)
(* frag_grow opened a new frag.                                            *)
LaidOutInOrder ==
    /\ asTypeOK
    /\ phase \notin {"read", "fatal"} =>
         \A k \in DOMAIN insns \ {1} :
            Address(k) = Address(k - 1) + 4
              + MapThenSumSet(LAMBDA j : frags[j].var, insns[k - 1].frag..(insns[k].frag - 1))
=============================================================================
