------------------------------ MODULE FusionDis ------------------------------
(***************************************************************************)
(* print_insn_fusion of opcodes/fusion-dis.c: the mnemonic, the registers  *)
(* in the order they are printed and the immediate, if any, of a word.     *)
(* Registers and immediates are the numbers printed, sign extension        *)
(* included; how they are laid out and in which base is left out.          *)
(***************************************************************************)
EXTENDS FusionOpc

Text(name, regs, imms) ==
    [name |-> name, regs |-> [i \in DOMAIN regs |-> SInt(regs[i])],
                    imms |-> [i \in DOMAIN imms |-> SInt(imms[i])]]

(* Above this address a word is printed as four characters.                *)
DataSection == 33554432

(* The entry of a table at an index taken from the word.                   *)
Entry(table, w) == table[SInt(w) + 1]

print_R_type(w) ==
    Text(Entry(fusion_insn_R, GET_ALUOP(w)), <<GET_RD(w), GET_RSA(w), GET_RSB(w)>>, <<>>)

print_I_type(w) ==
    LET aluop == SInt(GET_ALUOP(w))
        name  == Entry(fusion_insn_I, GET_ALUOP(w))
        imm   == GET_IMM_I(w)
    IN  CASE aluop \in {0, 1} \cup 8..12 -> Text(name, <<GET_RD(w), GET_RSA(w)>>, <<SEXT(imm, 12)>>)
          [] aluop \in {2, 3, 5, 6, 7}   -> Text(name, <<GET_RD(w), GET_RSA(w)>>, <<imm>>)
          [] aluop = 4                   -> Text(name, <<GET_RD(w)>>, <<imm>>)
          [] OTHER                       -> Text("nri", <<GET_RD(w), GET_RSA(w)>>, <<imm>>)

print_J_type(w, jump, jumpreg) ==
    IF GET_RSA(w) = {} THEN Text(jump, <<>>, <<SEXT(GET_IMM_J(w), 21)>>)
    ELSE Text(jumpreg, <<GET_RSA(w)>>, <<GET_IMM_J(w)>>)

(* The register of stspr and ldspr that is a special one is printed by its *)
(* name in fusion_spreg_name, here by its number.                          *)
print_SYS_type(w) ==
    LET funct == SInt(GET_FUNCT_SYS(w))
        name  == fusion_insn_SYS[funct + 1]
        imm   == GET_IMM_SYS(w)
    IN  IF funct >= Len(fusion_insn_SYS) THEN Text("nri", <<>>, <<>>)
        ELSE CASE args_SYS(name) = "USE_NONE" -> Text(name, <<>>, <<>>)
               [] args_SYS(name) = "USE_I"    -> Text(name, <<>>, <<imm>>)
               [] args_SYS(name) = "USE_RDA"  -> Text(name, <<GET_RD(w), GET_RSA(w)>>, <<>>)
               [] args_SYS(name) = "USE_RDAI" -> Text(name, <<GET_RD(w), GET_RSA(w)>>, <<imm>>)

print_insn_fusion(addr, w) ==
    LET opc == GET_OPC(w)
    IN  IF addr > DataSection THEN Text("ASCII", <<>>, <<>>)
        ELSE CASE opc = OPC_INT -> print_R_type(w)
               [] opc = OPC_IMM -> print_I_type(w)
               [] opc = OPC_LD ->
                    Text(Entry(fusion_insn_L, GET_FUNCT_L(w)), <<GET_RD(w), GET_RSA(w)>>, <<GET_IMM_L(w)>>)
               [] opc = OPC_LI ->
                    Text(Entry(fusion_insn_LI, GET_DSEL_LI(w)), <<GET_RD(w)>>, <<GET_IMM_LI(w)>>)
               [] opc = OPC_ST ->
                    Text(Entry(fusion_insn_S, GET_FUNCT_S(w)), <<GET_RSB(w), GET_RSA(w)>>, <<GET_IMM_S(w)>>)
               [] opc = OPC_JMP -> print_J_type(w, "j", "jr")
               [] opc = OPC_JLNK -> print_J_type(w, "jal", "jrl")
               [] opc = OPC_BRANCH ->
                    Text(Entry(fusion_insn_B, GET_FUNCT_B(w)), <<GET_RSA(w), GET_RSB(w)>>,
                         <<SEXT(GET_IMM_B(w), 14)>>)
               [] opc = OPC_SYS -> print_SYS_type(w)
               [] w = {} -> Text("nop", <<>>, <<>>)
               [] OTHER -> Text("nri_unk", <<>>, <<>>)
=============================================================================
