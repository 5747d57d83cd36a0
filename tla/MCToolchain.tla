----------------------------- MODULE MCToolchain -----------------------------
(***************************************************************************)
(* Small programs for FusionToolchain.                                     *)
(***************************************************************************)
EXTENDS FusionToolchain

Reg(n)   == [syn |-> "name", n |-> n]
None     == Reg(0)
Op(name, rd, rsa, rsb, e) ==
    [op |-> "insn", name |-> name, rd |-> rd, rsa |-> rsa, rsb |-> rsb, expr |-> e]
Word32(e) == [op |-> "long", expr |-> e]
Label(s)  == [op |-> "label", sym |-> s]
Globl(s)  == [op |-> "globl", sym |-> s]
Space(n)  == [op |-> "space", num |-> n]
Set(s, n) == [op |-> "set", sym |-> s, num |-> n]

Beq(e) == Op("beq", None, Reg(11), Reg(31), e)
Jump(e) == Op("j", None, None, None, e)
La(e)  == Op("la", Reg(13), None, None, e)
Call(e) == Op("call", None, None, None, e)

(* Instructions of the main processor, with registers at both ends of the  *)
(* file and constants at the ends of the immediate fields.                 *)
Regs   == {Reg(n) : n \in {0, 4, 21, 31}} \cup {[syn |-> "tmp8", n |-> 30]}
Consts == {O_constant(c) : c \in {-2048, -4, 0, 1, 255, 2047, 4095, 16383, 65535, 65536, 2097151}}
Bases  == {Reg(n) : n \in {3, 5, 29}}
Named(names, rds, rsas, rsbs, es) ==
    {Op(n, rd, rsa, rsb, e) : n \in names, rd \in rds, rsa \in rsas, rsb \in rsbs, e \in es}
NamesOf(args) == {row.name : row \in {r \in fusion_insn_all : r.args = args /\ r.cpid = "CPID_MAIN"}}
OperandStmts ==
    Named(NamesOf("USE_RDAB"), Regs, Regs, Regs \cup {[syn |-> "$dd", n |-> 17]}, {O_absent})
    \cup Named(NamesOf("USE_RDAI"), Regs, {Reg(0), Reg(31)}, {None}, Consts)
    \cup Named(NamesOf("USE_RDI"), Regs, {None}, {None}, Consts)
    \cup Named(NamesOf("USE_RDAI_O"), Regs, Bases, {None}, Consts)
    \cup Named(NamesOf("USE_RABI_O"), {None}, Bases, Regs, Consts)
    \cup Named(NamesOf("USE_RAI_O"), {None}, Bases, {None}, Consts)
    \cup Named({"pmir", "pmd"}, {None}, {None}, {None}, Consts)
    \cup Named({"sync", "nop", "ret"}, {None}, {None}, {None}, {O_absent})

(* Branches and jumps, backward and forward, to a label that may be global *)
(* and to an external symbol, in one frag or several.                      *)
TransferStmts ==
    {Beq(O_symbol("l", 0)), Beq(O_symbol("x", -4)), Jump(O_symbol("l", 8)), Jump(O_symbol("x", 0)),
     Label("l"), Globl("l"), Space(8)}

(* Addresses in registers, of a label, an external symbol and a constant   *)
(* defined before or after its use.                                        *)
AddressStmts ==
    {La(O_symbol("l", 0)), La(O_symbol("x", -4)), Call(O_symbol("l", 65540)), Call(O_symbol("x", 8)),
     Call(O_symbol("c", 4)), Word32(O_symbol("x", 0)), Word32(O_symbol("c", -1)),
     Label("l"), Globl("l"), Set("c", 70000)}

(* A label that may be global.                                             *)
GlobalStmts  == {La(O_symbol("l", 0)), Label("l"), Globl("l")}

MCStmt == [k \in ProgramKind |-> CASE k = "operands"  -> OperandStmts
                            [] k = "transfers" -> TransferStmts
                            [] k = "addresses" -> AddressStmts
                            [] k = "globals"   -> GlobalStmts]
MCMaxStmts == [k \in ProgramKind |-> CASE k = "operands" -> 1 [] k = "addresses" -> 3 [] OTHER -> 4]

OnePlacement == {[vma |-> 98304, output_offset |-> 24]}
=============================================================================
