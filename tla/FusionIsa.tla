------------------------------ MODULE FusionIsa ------------------------------
(***************************************************************************)
(* The Fusion-Core instruction word and the opcode tables shared by the    *)
(* assembler (gas/config/tc-fusion.c), the linker back end                 *)
(* (bfd/elf32-fusion.c) and the disassembler (opcodes/fusion-dis.c).       *)
(*                                                                         *)
(* An insn_t (uint32_t) is the set of its one bits, so that a mask is a    *)
(* set of positions, | is \cup, & is \cap and & ~m is \ m.  Register       *)
(* numbers, function codes and opcodes are words too; Bits and SInt are    *)
(* the conversions to and from C integers.                                 *)
(***************************************************************************)
EXTENDS Integers, FiniteSetsExt

Bit  == 0..31
Word == SUBSET Bit

(* w << n on 32 bits, and w >> n of an unsigned w.                         *)
Shl(w, n) == {b + n : b \in w} \cap Bit
Shr(w, n) == {b - n : b \in {c \in w : c >= n}}

(* The two's complement bits of a C int, and the C int that has the bits   *)
(* of w.                                                                   *)
Bits(n) == {i \in 0..30 : (n \div 2^i) % 2 = 1} \cup (IF n < 0 THEN {31} ELSE {})
SInt(w) == MapThenSumSet(LAMBDA b : 2^b, w \ {31})
             + (IF 31 \in w THEN -2147483647 - 1 ELSE 0)

(* SEXT_14B and its fellows: an n-bit field extended by its top bit.       *)
SEXT(w, n) == (w \cap 0..(n-1)) \cup (IF n-1 \in w THEN n..31 ELSE {})

-----------------------------------------------------------------------------
(* Field masks (include/opcode/fusion.h).                                  *)
MASK_OPC       == 26..31
MASK_RD        == 21..25
MASK_RSA       == 16..20
MASK_RSB       == 11..15
MASK_ALUOP     == 0..3
MASK_IMM_I     == 4..15
MASK_IMM_L     == 0..13
MASK_FUNCT_L   == 14..15
MASK_DSEL_LI   == 17..20
MASK_IMM_LI    == 0..15
MASK_FUNCT_S   == 24..27
MASK_IMM_HI_S  == 21..23
MASK_IMM_LO_S  == 0..10
MASK_IMM_HI_J  == 21..25
MASK_IMM_LO_J  == 0..15
MASK_IMM_HI_B  == 21..25
MASK_IMM_LO_B  == 2..10
MASK_FUNCT_B   == 0..1
MASK_FUNCT_SYS == 8..15
MASK_IMM_SYS   == 0..7
MASK_IMM_S     == MASK_IMM_HI_S \cup MASK_IMM_LO_S
MASK_IMM_J     == MASK_IMM_HI_J \cup MASK_IMM_LO_J
MASK_IMM_B     == MASK_IMM_HI_B \cup MASK_IMM_LO_B
MASK_NO_IMM    == {}

(* Field readers.                                                          *)
GET_OPC(i)       == Shr(i \cap MASK_OPC, 26)
GET_RD(i)        == Shr(i \cap MASK_RD, 21)
GET_RSA(i)       == Shr(i \cap MASK_RSA, 16)
GET_RSB(i)       == Shr(i \cap MASK_RSB, 11)
GET_ALUOP(i)     == i \cap MASK_ALUOP
GET_IMM_I(i)     == Shr(i \cap MASK_IMM_I, 4)
GET_IMM_L(i)     == i \cap MASK_IMM_L
GET_FUNCT_L(i)   == Shr(i \cap MASK_FUNCT_L, 14)
GET_DSEL_LI(i)   == Shr(i \cap MASK_DSEL_LI, 17)
GET_IMM_LI(i)    == i \cap MASK_IMM_LI
GET_FUNCT_S(i)   == Shr(i \cap MASK_FUNCT_S, 24) \cap 0..1
GET_IMM_S(i)     == (i \cap MASK_IMM_LO_S) \cup Shr(i \cap MASK_IMM_HI_S, 10)
GET_IMM_J(i)     == (i \cap MASK_IMM_LO_J) \cup Shr(i \cap MASK_IMM_HI_J, 5)
GET_IMM_B(i)     == Shr(i \cap MASK_IMM_LO_B, 2) \cup Shr(i \cap MASK_IMM_HI_B, 12)
GET_FUNCT_B(i)   == i \cap MASK_FUNCT_B
GET_FUNCT_SYS(i) == Shr(i \cap MASK_FUNCT_SYS, 8)
GET_IMM_SYS(i)   == i \cap MASK_IMM_SYS

(* Mutant: the upper part of a store offset is shifted by one too many.    *)
GEN_S_IMM_OFF(imm) == (Shl(imm \cap 11..13, 11) \cup (imm \cap 0..10)) \cap MASK_IMM_S

(* Immediate writers: the S, J and B immediates are split over two fields  *)
(* (include/opcode/fusion-opc.h).                                          *)
GEN_I_IMM(imm)   == Shl(imm, 4) \cap MASK_IMM_I
GEN_S_IMM(imm)   == (Shl(imm \cap 11..13, 10) \cup (imm \cap 0..10)) \cap MASK_IMM_S
GEN_J_IMM(imm)   == (Shl(imm \cap 16..20, 5) \cup (imm \cap 0..15)) \cap MASK_IMM_J
GEN_B_IMM(imm)   == (Shl(imm \cap 9..13, 12) \cup Shl(imm \cap 0..8, 2)) \cap MASK_IMM_B
GEN_SYS_IMM(imm) == imm \cap MASK_IMM_SYS
GEN_L_IMM(imm)   == GET_IMM_L(imm)
GEN_LI_IMM(imm)  == GET_IMM_LI(imm)

GEN_OPC(opc) == Shl(opc, 26) \cap MASK_OPC
GEN_RD(r)    == Shl(r, 21) \cap MASK_RD
GEN_RSA(r)   == Shl(r, 16) \cap MASK_RSA
GEN_RSB(r)   == Shl(r, 11) \cap MASK_RSB

-----------------------------------------------------------------------------
(* Opcodes (include/opcode/fusion.h).                                      *)
OPC_INT    == Bits(19)
OPC_IMM    == Bits(22)
OPC_LD     == Bits(30)
OPC_LI     == Bits(16)
OPC_ST     == Bits(29)
OPC_JMP    == Bits(12)
OPC_JLNK   == Bits(4)
OPC_BRANCH == Bits(13)
OPC_SYS    == Bits(32)

(* Whole-word builders; RSB of an R type keeps six bits, as the macro does.*)
MAKE_R_TYPE(rd, rsa, rsb, aluop) ==
    GEN_RD(rd) \cup GEN_RSA(rsa) \cup Shl(rsb \cap 0..5, 11)
      \cup (aluop \cap 0..3) \cup GEN_OPC(OPC_INT)
MAKE_I_TYPE(rd, rsa, imm, aluop) ==
    GEN_RD(rd) \cup GEN_RSA(rsa) \cup GEN_I_IMM(imm)
      \cup (aluop \cap 0..3) \cup GEN_OPC(OPC_IMM)
MAKE_L_TYPE(rd, rsa, funct, imm) ==
    GEN_RD(rd) \cup GEN_RSA(rsa) \cup Shl(funct \cap 0..1, 14)
      \cup (imm \cap 0..13) \cup GEN_OPC(OPC_LD)
MAKE_LI_TYPE(rd, dsel, imm) ==
    GEN_RD(rd) \cup Shl(dsel \cap 0..3, 17) \cup (imm \cap 0..15) \cup GEN_OPC(OPC_LI)
(* Mutant: a store with its registers exchanged.                           *)
MAKE_S_SWAPPED(funct, rsa, rsb, imm) ==
    Shl(funct \cap 0..1, 24) \cup GEN_S_IMM(imm) \cup GEN_RSA(rsb)
      \cup GEN_RSB(rsa) \cup GEN_OPC(OPC_ST)

MAKE_S_TYPE(funct, rsa, rsb, imm) ==
    Shl(funct \cap 0..1, 24) \cup GEN_S_IMM(imm) \cup GEN_RSA(rsa)
      \cup GEN_RSB(rsb) \cup GEN_OPC(OPC_ST)
MAKE_J_TYPE(rsa, imm)  == GEN_RSA(rsa) \cup GEN_J_IMM(imm) \cup GEN_OPC(OPC_JMP)
MAKE_JL_TYPE(rsa, imm) == GEN_RSA(rsa) \cup GEN_J_IMM(imm) \cup GEN_OPC(OPC_JLNK)
MAKE_B_TYPE(rsa, rsb, imm, funct) ==
    GEN_RSA(rsa) \cup GEN_RSB(rsb) \cup GEN_B_IMM(imm)
      \cup (funct \cap 0..1) \cup GEN_OPC(OPC_BRANCH)
MAKE_SYS_TYPE(rd, rsa, funct, imm) ==
    GEN_RD(rd) \cup GEN_RSA(rsa) \cup Shl(funct \cap 0..7, 8)
      \cup GEN_SYS_IMM(imm) \cup GEN_OPC(OPC_SYS)
=============================================================================
