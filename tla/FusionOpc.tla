------------------------------ MODULE FusionOpc ------------------------------
(***************************************************************************)
(* The opcode tables of opcodes/fusion-opc.c.  The disassembler indexes    *)
(* one table per format with a field of the word; the assembler looks the  *)
(* mnemonic up in fusion_insn_all.                                         *)
(***************************************************************************)
EXTENDS FusionIsa, Sequences

fusion_insn_R == <<"add", "sub", "addu", "subu", "not", "and", "or", "xor",
                   "sal", "sar", "sll", "slr", "comp", "nri", "nri", "nri">>
fusion_insn_I == <<"addi", "subi", "addui", "subui", "noti", "andi", "ori", "xori",
                   "sali", "sari", "slli", "slri", "compi", "nri", "nri", "nri">>
fusion_insn_L == <<"lw", "lh", "lth", "lb">>
fusion_insn_LI == <<"li", "lsi", "lgi", "nri", "lui", "lusi", "lugi", "nri",
                    "lni", "lnsi", "lngi", "nri", "luni", "lunsi", "lungi", "nri">>
fusion_insn_S == <<"sw", "sh", "sth", "sb">>
fusion_insn_J == <<"j", "jr">>
fusion_insn_JL == <<"jal", "jrl">>
fusion_insn_B == <<"beq", "bne", "bgt", "blt">>
fusion_insn_SYS == <<"syscall", "sysret", "stspr", "ldspr", "sync", "pmir", "pmd">>

(* A row of fusion_insn_all; frmt is read by nobody.                       *)
fusion_opc_info(name, index, args, cpid, imm_mask, opc) ==
    [name |-> name, index |-> Bits(index), args |-> args, cpid |-> cpid,
     imm_mask |-> imm_mask, opc |-> opc]

(* The operands each mnemonic takes, by its table.                         *)
args_I(name) == IF name = "noti" THEN "USE_RDI" ELSE "USE_RDAI"
args_J(name) == IF name \in {"j", "jal"} THEN "USE_I" ELSE "USE_RAI_O"
args_SYS(name) == CASE name \in {"syscall", "sysret"} -> "USE_RDAI"
                    [] name \in {"stspr", "ldspr"}    -> "USE_RDA"
                    [] name = "sync"                  -> "USE_NONE"
                    [] OTHER                          -> "USE_I"
args_of(name, opc) == CASE opc = OPC_INT    -> "USE_RDAB"
                        [] opc = OPC_IMM    -> args_I(name)
                        [] opc = OPC_LD     -> "USE_RDAI_O"
                        [] opc = OPC_LI     -> "USE_RDI"
                        [] opc = OPC_ST     -> "USE_RABI_O"
                        [] opc = OPC_BRANCH -> "USE_RABI"
                        [] opc = OPC_SYS    -> args_SYS(name)
                        [] OTHER            -> args_J(name)

(* The rows of one table.                                                  *)
Rows(table, imm_mask, opc) ==
    {fusion_opc_info(table[i], i - 1, args_of(table[i], opc), "CPID_MAIN",
                     IF table[i] = "sync" THEN MASK_NO_IMM ELSE imm_mask, opc) :
        i \in {j \in DOMAIN table : table[j] # "nri"}}

fusion_insn_all ==
    {fusion_opc_info("nop", 0, "USE_NONE", "CPID_MAIN", MASK_NO_IMM, {}),
     fusion_opc_info("nri", 13, "USE_NONE", "CPID_MAIN", MASK_NO_IMM, OPC_INT),
     fusion_opc_info("la", 0, "USE_RDI", "CPID_MACRO", MASK_IMM_LI, OPC_LI),
     fusion_opc_info("call", 1, "USE_RAI_O", "CPID_MACRO", MASK_IMM_J, OPC_JLNK),
     fusion_opc_info("ret", 2, "USE_RAI_O", "CPID_MACRO", MASK_IMM_J, OPC_JMP)}
    \cup Rows(fusion_insn_R, MASK_NO_IMM, OPC_INT)
    \cup Rows(fusion_insn_I, MASK_IMM_I, OPC_IMM)
    \cup Rows(fusion_insn_L, MASK_IMM_L, OPC_LD)
    \cup Rows(fusion_insn_LI, MASK_IMM_LI, OPC_LI)
    \cup Rows(fusion_insn_S, MASK_IMM_S, OPC_ST)
    \cup Rows(fusion_insn_J, MASK_IMM_J, OPC_JMP)
    \cup Rows(fusion_insn_JL, MASK_IMM_J, OPC_JLNK)
    \cup Rows(fusion_insn_B, MASK_IMM_B, OPC_BRANCH)
    \cup Rows(fusion_insn_SYS, MASK_IMM_SYS, OPC_SYS)

(* op_hash_ctrl, filled by md_begin: the row of a mnemonic.                *)
op_hash_ctrl(name) == CHOOSE row \in fusion_insn_all : row.name = name
=============================================================================
