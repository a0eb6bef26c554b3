------------------------------- MODULE MCMips -------------------------------
(***************************************************************************)
(* Mips with two-bit bytes and eight-bit words: every instruction of the   *)
(* simulator, on operands around zero and around the sign, alone or in the *)
(* delay slot of a load, a partial load, a branch or a system call.        *)
(***************************************************************************)
EXTENDS Mips, Bitwise, TLC

WordAnd(a, b) == a & b
WordOr(a, b) == a | b
WordXor(a, b) == a ^^ b

R(f, rs, rt, rd, sh) == [op |-> "SPECIAL", funct |-> f, rs |-> rs, rt |-> rt, rd |-> rd,
                         shamt |-> sh]
I(o, rs, rt, imm) == [op |-> o, rs |-> rs, rt |-> rt, imm |-> imm]
J(o, t) == [op |-> o, target |-> t]

ThreeRegister == {R(f, 1, 2, 1, 1) : f \in {"ADD", "ADDU", "AND", "NOR", "OR", "SLLV", "SLT",
                    "SLTU", "SRAV", "SRLV", "SUB", "SUBU", "XOR", "MULT", "MULTU", "DIV",
                    "DIVU", "SLL", "SRA", "SRL", "MFHI", "MFLO", "MTHI", "MTLO", "JR", "JALR",
                    "SYSCALL", "RES", "UNIMP"}}
Immediate == {I(o, 1, 2, imm) : o \in {"ADDI", "ADDIU", "ANDI", "ORI", "XORI", "SLTI", "SLTIU",
                                       "LUI", "BEQ", "BNE", "BGTZ", "BLEZ", "RES"},
                                imm \in {1, 9}}
             \cup {I("BCOND", 1, rt, 1) : rt \in {0, 1, 2, 16, 17}}
             \cup {J(o, 3) : o \in {"J", "JAL"}} \cup {I("ADDIU", 1, 0, 1)}
Memory == {I(o, 3, rt, imm) : o \in {"LB", "LBU", "LH", "LHU", "LW", "LWL", "LWR", "SB", "SH",
                                     "SW", "SWL", "SWR"}, rt \in {1, 2}, imm \in {2, 4, 13, 15}}

Before == {I("LW", 3, 2, 0), I("LWL", 3, 1, 5), I("BEQ", 0, 0, 2), R("SYSCALL", 0, 0, 0, 0)}
Pairs == {<<I(lr[1], 3, 1, imm + 3), I(lr[2], 3, 1, imm)>> :
            lr \in {<<"LWL", "LWR">>, <<"SWL", "SWR">>}, imm \in 0 .. 4}

MCPrograms == {<<i>> : i \in ThreeRegister \cup Immediate \cup Memory}
              \cup {<<b, i>> : b \in Before, i \in ThreeRegister \cup Immediate \cup Memory}
              \cup Pairs

Operands == {0, 1, 4, 127, 128, 170, 255}
MCRegisters0 == {(1 :> a @@ 2 :> b @@ 3 :> 16) : a, b \in Operands}
                \cup {(1 :> 1 @@ 2 :> 254 @@ 3 :> base) : base \in {22, 24, 32, 40, 48, 255}}

Entry(v, frame, valid, readOnly) ==
  [virtualPage |-> v, physicalPage |-> frame, valid |-> valid, readOnly |-> readOnly,
   use |-> FALSE, dirty |-> FALSE]
MCTables ==
  {0 :> Entry(0, 0, TRUE, TRUE) @@ 1 :> Entry(1, 1, TRUE, FALSE) @@ 2 :> Entry(2, 3, TRUE, FALSE)
   @@ 3 :> Entry(3, 2, TRUE, TRUE) @@ 4 :> Entry(4, 0, FALSE, FALSE)
   @@ 5 :> Entry(5, 9, TRUE, FALSE)}
=============================================================================
