-------------------------------- MODULE Mips --------------------------------
(***************************************************************************)
(* The simulated MIPS R2000 that user programs run on: machine/mipssim.cc  *)
(* (instruction decoding and execution), machine/translate.cc (virtual     *)
(* memory) and the register side of machine/machine.cc.                    *)
(*                                                                         *)
(* Words are scaled: a byte has ByteBits bits, a word four bytes, and an   *)
(* immediate field half a word, as on the real machine (8, 32, 16).  A     *)
(* word is a number in 0 .. 2^WordBits - 1; ToInt(w) is its value as a C int.*)
(* Instructions are records of the fields of their format instead of bit   *)
(* strings, and program[a] is the instruction word at virtual address a;   *)
(* the programs of the model execute their code and do not load or store   *)
(* it.                                                                     *)
(***************************************************************************)
EXTENDS Integers, Sequences, FiniteSets

CONSTANTS ByteBits,       \* bits of a byte: 8 in the code
          PageSize,       \* bytes of a page: 128 in the code
          NumPhysPages,   \* frames of main memory
          Programs,       \* sequences of instructions
          Registers0,     \* the values the general registers may start with
          Tables,         \* page tables (or TLBs) a program may run under
          BitAnd(_, _), BitOr(_, _), BitXor(_, _)   \* C's &, | and ^ on words

VARIABLES program,      \* the program's code, as a sequence of words
          registers,    \* Machine::registers
          mainMemory,   \* Machine::mainMemory, byte by byte
          tlb,          \* whether the build has a TLB (USE_TLB) or a page table
          pageTable,    \* its entries
          status        \* "UserMode", or the exception the kernel was given

vars == <<program, registers, mainMemory, tlb, pageTable, status>>

ASSUME ScaleAssumption ==
  /\ ByteBits \in Nat \ {0} /\ NumPhysPages \in Nat \ {0}
  /\ PageSize % 4 = 0 /\ PageSize > 0

-----------------------------------------------------------------------------
WordBits == 4 * ByteBits
Word == 2 ^ WordBits
SIGN_BIT == 2 ^ (WordBits - 1)
Half == 2 ^ (2 * ByteBits)
Byte == 2 ^ ByteBits

ToWord(n) == n % Word
ToInt(w) == IF w >= SIGN_BIT THEN w - Word ELSE w
Negative(w) == BitAnd(w, SIGN_BIT) # 0
SignExtend(w, top) == IF w >= top \div 2 THEN ToWord(w - top) ELSE w
IndexToAddr(w) == ToWord(4 * w)
Complement(w) == (Word - 1) - w

\* C's shifts: << drops the bits that leave the word, >> of an int copies the sign.
Left(w, n) == ToWord(w * 2 ^ n)
Right(w, n) == ToWord(ToInt(w) \div 2 ^ n)

HiReg == 32
LoReg == 33
PCReg == 34
NextPCReg == 35
PrevPCReg == 36
LoadReg == 37
LoadValueReg == 38
BadVAddrReg == 39
R31 == 31
GPRegs == 0 .. 31
NumTotalRegs == 40

-----------------------------------------------------------------------------
(***************************************************************************)
(* Instruction::Decode, with the tables of mipssim.h.  An instruction of   *)
(* the RFMT names its operation in "funct", one of the IFMT in "op" (and   *)
(* in rt, for BCOND), one of the JFMT in "op".                             *)
(***************************************************************************)
BcondTable(rt) ==
  CASE rt = 0  -> "BLTZ"   [] rt = 1  -> "BGEZ"
    [] rt = 16 -> "BLTZAL" [] rt = 17 -> "BGEZAL" [] OTHER -> "UNIMP"

Decode(w) ==
  CASE w.op = "SPECIAL" -> [op |-> w.funct, rs |-> w.rs, rt |-> w.rt, rd |-> w.rd,
                            extra |-> w.shamt]
    [] w.op \in {"J", "JAL"} -> [op |-> w.op, extra |-> w.target]
    [] OTHER -> [op |-> IF w.op = "BCOND" THEN BcondTable(w.rt) ELSE w.op,
                 rs |-> w.rs, rt |-> w.rt, extra |-> SignExtend(w.imm, Half)]

\* The operations of the RFMT in specialTable, and those of the IFMT in opTable.
SpecialTable ==
  {"ADD", "ADDU", "AND", "DIV", "DIVU", "JALR", "JR", "MFHI", "MFLO", "MTHI", "MTLO", "MULT",
   "MULTU", "NOR", "OR", "RES", "SLL", "SLLV", "SLT", "SLTU", "SRA", "SRAV", "SRL", "SRLV",
   "SUB", "SUBU", "SYSCALL", "UNIMP", "XOR"}
OpTable ==
  {"ADDI", "ADDIU", "ANDI", "BCOND", "BEQ", "BGTZ", "BLEZ", "BNE", "LB", "LBU", "LH", "LHU",
   "LUI", "LW", "LWL", "LWR", "ORI", "RES", "SB", "SH", "SLTI", "SLTIU", "SW", "SWL", "SWR",
   "UNIMP", "XORI"}

\* A register field has five bits, and an operation is one the tables name.
Instruction(w) ==
  \/ w.op = "SPECIAL" /\ w.funct \in SpecialTable /\ {w.rs, w.rt, w.rd} \subseteq GPRegs
  \/ w.op \in OpTable /\ {w.rs, w.rt} \subseteq GPRegs
  \/ w.op \in {"J", "JAL"}

ASSUME ProgramsAssumption ==
  /\ \A p \in Programs : \A n \in DOMAIN p : Instruction(p[n])
  /\ \A r0 \in Registers0 : DOMAIN r0 \subseteq GPRegs \ {0}

-----------------------------------------------------------------------------
(***************************************************************************)
(* Mult: the words are multiplied bit by bit of a, adding b shifted, in    *)
(* unsigned arithmetic; a itself is an int, so a >>= 1 copies its sign.    *)
(***************************************************************************)
AddShifted(a, b) ==
  LET Turn(l) ==
        LET odd == l.a % 2 = 1
            lo == IF odd THEN ToWord(l.lo + l.bLo) ELSE l.lo
            carry == IF odd /\ lo < l.bLo THEN 1 ELSE 0
        IN [a |-> Right(l.a, 1), bHi |-> Left(l.bHi, 1) + l.bLo \div SIGN_BIT,
            bLo |-> Left(l.bLo, 1), hi |-> IF odd THEN ToWord(l.hi + carry + l.bHi) ELSE l.hi,
            lo |-> lo, broke |-> odd /\ l.a = 1]
      Loop[i \in 0 .. WordBits] ==
        IF i = 0 THEN [a |-> a, bHi |-> 0, bLo |-> b, hi |-> 0, lo |-> 0, broke |-> FALSE]
        ELSE IF Loop[i - 1].broke THEN Loop[i - 1] ELSE Turn(Loop[i - 1])
  IN [hi |-> Loop[WordBits].hi, lo |-> Loop[WordBits].lo]

\* The two's complement of a double word.
TwosComplement_no_carry(p) == [hi |-> Complement(p.hi), lo |-> ToWord(Complement(p.lo) + 1)]
TwosComplement(p) ==
  LET lo == ToWord(Complement(p.lo) + 1)
  IN [hi |-> ToWord(Complement(p.hi) + IF lo = 0 THEN 1 ELSE 0), lo |-> lo]

Mult(a, b, signedArith) ==
  LET Magnitude(w) == IF signedArith /\ Negative(w) THEN ToWord(-w) ELSE w
      p == AddShifted(Magnitude(a), Magnitude(b))
  IN IF a = 0 \/ b = 0 THEN [hi |-> 0, lo |-> 0]
     ELSE IF signedArith /\ Negative(a) # Negative(b) THEN TwosComplement(p) ELSE p

\* DIV and DIVU: C's division truncates towards zero; by zero both words are 0.
Quotient(a, b) == LET q == (IF a < 0 THEN -a ELSE a) \div (IF b < 0 THEN -b ELSE b)
                  IN IF (a < 0) = (b < 0) THEN q ELSE -q
Div(a, b) ==
  IF b = 0 THEN [hi |-> 0, lo |-> 0]
  ELSE LET q == Quotient(a, b) IN [hi |-> ToWord(a - q * b), lo |-> ToWord(q)]

-----------------------------------------------------------------------------
(***************************************************************************)
(* A machine state m is [regs, mem, table, exc]: what an instruction reads *)
(* and writes.  exc names the exception it raised, "none" when it did not. *)
(***************************************************************************)

\* Machine::DelayedLoad: the load in progress reaches its register, the next
\* one is recorded, and R0 stays zero.
DelayedLoad(r, nextReg, nextValue) ==
  [r EXCEPT ![r[LoadReg]] = r[LoadValueReg], ![LoadReg] = nextReg,
            ![LoadValueReg] = nextValue, ![0] = 0]

\* Machine::RaiseException up to the kernel's handler.
RaiseException_skips_instruction(m, which, badVAddr) ==
  [m EXCEPT !.regs = [DelayedLoad(m.regs, 0, 0) EXCEPT ![BadVAddrReg] = badVAddr,
                                                       ![PCReg] = m.regs[NextPCReg]],
            !.exc = which]

RaiseException(m, which, badVAddr) ==
  [m EXCEPT !.regs = DelayedLoad([m.regs EXCEPT ![BadVAddrReg] = badVAddr], 0, 0),
            !.exc = which]

\* The end of OneInstruction: the delayed load, then the program counters.
Complete(m, regs, nextLoadReg, nextLoadValue, pcAfter) ==
  LET r == DelayedLoad(regs, nextLoadReg, nextLoadValue)
  IN [m EXCEPT !.regs = [r EXCEPT ![PrevPCReg] = r[PCReg], ![PCReg] = r[NextPCReg],
                                  ![NextPCReg] = pcAfter]]

PcAfter(m) == ToWord(m.regs[NextPCReg] + 4)
Sets(m, reg, value) == Complete(m, [m.regs EXCEPT ![reg] = value], 0, 0, PcAfter(m))
Loads(m, reg, value) == Complete(m, m.regs, reg, value, PcAfter(m))
Jumps(m, regs, target) == Complete(m, regs, 0, 0, target)

\* Machine::Translate: the entry of the page table, or the TLB's first valid
\* entry for the page; the checks in the code's order; then the use and dirty bits.
EntryOf(table, vpn) ==
  IF tlb THEN {k \in DOMAIN table : /\ table[k].valid /\ table[k].virtualPage = vpn
                                    /\ \A j \in DOMAIN table :
                                         table[j].valid /\ table[j].virtualPage = vpn => j >= k}
         ELSE {vpn} \cap DOMAIN table

\* An address that is not a multiple of the size of the access.
Misaligned_words_only(addr, size) == size = 4 /\ addr % 4 # 0
Misaligned(addr, size) == addr % size # 0

Accessed(e, writing) == [e EXCEPT !.use = TRUE, !.dirty = @ \/ writing]

Translate(table, addr, size, writing) ==
  LET vpn == addr \div PageSize
      found == EntryOf(table, vpn)
      k == CHOOSE x \in found : TRUE
      e == table[k]
      Fails(which) == [exc |-> which]
  IN IF Misaligned(addr, size) THEN Fails("AddressError")
     ELSE IF found = {} THEN Fails(IF tlb THEN "PageFault" ELSE "AddressError")
     ELSE IF ~e.valid THEN Fails("PageFault")
     ELSE IF e.readOnly /\ writing THEN Fails("ReadOnly")
     ELSE IF e.physicalPage >= NumPhysPages THEN Fails("BusError")
     ELSE [exc |-> "none", phys |-> e.physicalPage * PageSize + (addr % PageSize),
           table |-> [table EXCEPT ![k] = Accessed(e, writing)]]

\* Machine::ReadMem: the machine after it, and the bytes read, least significant
\* first (WordToHost and ShortToHost are the identity on a little-endian host).
Bytes(mem, phys, size) ==
  CASE size = 1 -> mem[phys]
    [] size = 2 -> mem[phys] + Byte * mem[phys + 1]
    [] size = 4 -> mem[phys] + Byte * (mem[phys + 1] + Byte * (mem[phys + 2]
                                                               + Byte * mem[phys + 3]))
ReadMem(m, addr, size) ==
  LET t == Translate(m.table, addr, size, FALSE)
  IN IF t.exc # "none" THEN [m |-> RaiseException(m, t.exc, addr), value |-> 0]
     ELSE [m |-> [m EXCEPT !.table = t.table], value |-> Bytes(m.mem, t.phys, size)]

\* Machine::WriteMem, and the instruction's end when it succeeds.
Stored(mem, phys, size, value) ==
  [p \in DOMAIN mem |-> IF p \in phys .. phys + size - 1
                          THEN (value \div Byte ^ (p - phys)) % Byte ELSE mem[p]]
WriteMem(m, addr, size, value) ==
  LET t == Translate(m.table, addr, size, TRUE)
  IN IF t.exc # "none" THEN RaiseException(m, t.exc, addr)
     ELSE Complete([m EXCEPT !.table = t.table, !.mem = Stored(m.mem, t.phys, size, value)],
                   m.regs, 0, 0, PcAfter(m))

-----------------------------------------------------------------------------
(***************************************************************************)
(* The switch of Machine::OneInstruction, in the order of the source.      *)
(***************************************************************************)

\* Overflow of the sum of two words, from their signs and the sum's.
SumOverflows(a, b, sum) == ~Negative(BitXor(a, b)) /\ Negative(BitXor(a, sum))

ExecAddAnd(m, i) ==
  LET s == m.regs[i.rs]
      b == IF i.op \in {"ADD", "ADDU", "AND"} THEN m.regs[i.rt] ELSE i.extra
      to == IF i.op \in {"ADD", "ADDU", "AND"} THEN i.rd ELSE i.rt
      sum == ToWord(s + b)
  IN CASE i.op \in {"ADD", "ADDI"} /\ SumOverflows(s, b, sum) -> RaiseException(m, "Overflow", 0)
       [] i.op \in {"AND"} -> Sets(m, to, BitAnd(s, b))
       [] i.op \in {"ANDI"} -> Sets(m, to, BitAnd(s, b % Half))
       [] OTHER -> Sets(m, to, sum)

Taken(m, i) ==
  LET s == m.regs[i.rs]
  IN CASE i.op = "BEQ" -> s = m.regs[i.rt]
       [] i.op = "BNE" -> s # m.regs[i.rt]
       [] i.op \in {"BGEZ", "BGEZAL"} -> ~Negative(s)
       [] i.op \in {"BLTZ", "BLTZAL"} -> Negative(s)
       [] i.op = "BGTZ" -> ToInt(s) > 0
       [] i.op = "BLEZ" -> ToInt(s) <= 0

\* The link is written before the condition is tested, so BGEZAL and BLTZAL on
\* R31 test the link.
ExecBranch(m, i) ==
  LET link == i.op \in {"BGEZAL", "BLTZAL"}
      regs == IF link THEN [m.regs EXCEPT ![R31] = PcAfter(m)] ELSE m.regs
      target == ToWord(m.regs[NextPCReg] + IndexToAddr(i.extra))
  IN Jumps(m, regs, IF Taken([m EXCEPT !.regs = regs], i) THEN target ELSE PcAfter(m))

\* The host's division of the smallest int by -1 stops the simulator.
ExecDivide(m, i) ==
  LET s == m.regs[i.rs]
      t == m.regs[i.rt]
      d == IF i.op = "DIV" THEN Div(ToInt(s), ToInt(t)) ELSE Div(s, t)
  IN IF i.op = "DIV" /\ s = SIGN_BIT /\ ToInt(t) = -1
       THEN [m EXCEPT !.exc = "HostTrap"]
       ELSE Jumps(m, [m.regs EXCEPT ![HiReg] = d.hi, ![LoReg] = d.lo], PcAfter(m))

\* The top bits of a J's target are those of the instruction after its delay
\* slot: four of 32, the same share of a scaled word.
Region == 2 ^ (WordBits - ByteBits \div 2)
ExecJump(m, i) ==
  LET link == CASE i.op = "JAL" -> {R31} [] i.op = "JALR" -> {i.rd} [] OTHER -> {}
      regs == [x \in DOMAIN m.regs |-> IF x \in link THEN PcAfter(m) ELSE m.regs[x]]
  IN Jumps(m, regs, IF i.op \in {"J", "JAL"}
                      THEN Region * (PcAfter(m) \div Region) + IndexToAddr(i.extra)
                      ELSE regs[i.rs])

ExecLoad(m, i) ==
  LET tmp == ToWord(m.regs[i.rs] + i.extra)
      size == CASE i.op \in {"LB", "LBU"} -> 1 [] i.op \in {"LH", "LHU"} -> 2 [] OTHER -> 4
      read == ReadMem(m, tmp, size)
      value == CASE i.op = "LB" -> SignExtend(read.value, Byte)
                 [] i.op = "LH" -> SignExtend(read.value, Half)
                 [] OTHER -> read.value
  IN IF i.op = "LUI" THEN Sets(m, i.rt, Left(i.extra, 2 * ByteBits))
     ELSE IF tmp % size # 0 THEN RaiseException(m, "AddressError", tmp)
     ELSE IF read.m.exc # "none" THEN read.m
     ELSE Loads(read.m, i.rt, value)

\* LWL and LWR merge the aligned word around the address into the register, or
\* into the value on its way there.
InProgress_register_only(m, rt) == m.regs[rt]
InProgress(m, rt) ==
  IF m.regs[LoadReg] = rt THEN m.regs[LoadValueReg] ELSE m.regs[rt]

\* The byte of its word an address names: the switches count it as 3 - byte.
Lane_big_endian(addr) == 3 - (addr % 4)
Lane(addr) == addr % 4

ExecLoadUnaligned(m, i) ==
  LET tmp == ToWord(m.regs[i.rs] + i.extra)
      byte == Lane(tmp)
      read == ReadMem(m, tmp - (tmp % 4), 4)
      old == InProgress(m, i.rt)
      keptLow == Byte ^ (3 - byte)
      keptHigh == Byte ^ (4 - byte)
      value == IF i.op = "LWL"
                 THEN (old % keptLow) + Left(read.value, ByteBits * (3 - byte))
                 ELSE keptHigh * (old \div keptHigh) + read.value \div Byte ^ byte
  IN IF read.m.exc # "none" THEN read.m ELSE Loads(read.m, i.rt, value)

ExecHiLo(m, i) ==
  LET s == m.regs[i.rs]
      p == Mult(s, m.regs[i.rt], i.op = "MULT")
  IN CASE i.op = "MFHI" -> Sets(m, i.rd, m.regs[HiReg])
       [] i.op = "MFLO" -> Sets(m, i.rd, m.regs[LoReg])
       [] i.op = "MTHI" -> Sets(m, HiReg, s)
       [] i.op = "MTLO" -> Sets(m, LoReg, s)
       [] OTHER -> Jumps(m, [m.regs EXCEPT ![HiReg] = p.hi, ![LoReg] = p.lo], PcAfter(m))

ExecOrStore(m, i) ==
  LET s == m.regs[i.rs]
      t == m.regs[i.rt]
      addr == ToWord(s + i.extra)
  IN CASE i.op = "NOR" -> Sets(m, i.rd, Complement(BitOr(s, t)))
       [] i.op = "OR"  -> Sets(m, i.rd, BitOr(s, t))
       [] i.op = "ORI" -> Sets(m, i.rt, BitOr(s, i.extra % Half))
       [] i.op = "SB"  -> WriteMem(m, addr, 1, t)
       [] i.op = "SH"  -> WriteMem(m, addr, 2, t)

\* Both right shifts act on a C int, so SRL and SRLV copy the sign as SRA does.
ExecShiftCompare(m, i) ==
  LET s == m.regs[i.rs]
      t == m.regs[i.rt]
      n == IF i.op \in {"SLLV", "SRAV", "SRLV"} THEN s % WordBits ELSE i.extra
      Bool(b) == IF b THEN 1 ELSE 0
  IN CASE i.op \in {"SLL", "SLLV"} -> Sets(m, i.rd, Left(t, n))
       [] i.op \in {"SRA", "SRAV", "SRL", "SRLV"} -> Sets(m, i.rd, Right(t, n))
       [] i.op = "SLT"   -> Sets(m, i.rd, Bool(ToInt(s) < ToInt(t)))
       [] i.op = "SLTI"  -> Sets(m, i.rt, Bool(ToInt(s) < ToInt(i.extra)))
       [] i.op = "SLTIU" -> Sets(m, i.rt, Bool(s < i.extra))
       [] i.op = "SLTU"  -> Sets(m, i.rd, Bool(s < t))

ExecSubStore(m, i) ==
  LET s == m.regs[i.rs]
      t == m.regs[i.rt]
      diff == ToWord(s - t)
  IN CASE i.op = "SW" -> WriteMem(m, ToWord(s + i.extra), 4, t)
       [] i.op = "SUB" /\ Negative(BitXor(s, t)) /\ Negative(BitXor(s, diff)) ->
            RaiseException(m, "Overflow", 0)
       [] OTHER -> Sets(m, i.rd, diff)

\* SWL and SWR read the aligned word, replace part of it and write it back.
ExecStoreUnaligned(m, i) ==
  LET tmp == ToWord(m.regs[i.rs] + i.extra)
      byte == Lane(tmp)
      read == ReadMem(m, tmp - (tmp % 4), 4)
      t == m.regs[i.rt]
      keptHigh == Byte ^ (byte + 1)
      keptLow == Byte ^ byte
      value == IF i.op = "SWL"
                 THEN keptHigh * (read.value \div keptHigh) + t \div Byte ^ (3 - byte)
                 ELSE (read.value % keptLow) + Left(t, ByteBits * byte)
  IN IF read.m.exc # "none" THEN read.m ELSE WriteMem(read.m, tmp - (tmp % 4), 4, value)

ExecRest(m, i) ==
  CASE i.op = "SYSCALL" -> RaiseException(m, "Syscall", 0)
    [] i.op = "XOR"  -> Sets(m, i.rd, BitXor(m.regs[i.rs], m.regs[i.rt]))
    [] i.op = "XORI" -> Sets(m, i.rt, BitXor(m.regs[i.rs], i.extra % Half))
    [] i.op \in {"RES", "UNIMP"} -> RaiseException(m, "IllegalInstr", 0)

\* Machine::OneInstruction once the instruction is fetched and decoded.
Exec(m, i) ==
  CASE i.op \in {"ADD", "ADDI", "ADDIU", "ADDU", "AND", "ANDI"} -> ExecAddAnd(m, i)
    [] i.op \in {"BEQ", "BGEZAL", "BGEZ", "BGTZ", "BLEZ", "BLTZAL", "BLTZ", "BNE"} ->
         ExecBranch(m, i)
    [] i.op \in {"DIV", "DIVU"} -> ExecDivide(m, i)
    [] i.op \in {"JAL", "J", "JALR", "JR"} -> ExecJump(m, i)
    [] i.op \in {"LB", "LBU", "LH", "LHU", "LUI", "LW"} -> ExecLoad(m, i)
    [] i.op \in {"LWL", "LWR"} -> ExecLoadUnaligned(m, i)
    [] i.op \in {"MFHI", "MFLO", "MTHI", "MTLO", "MULT", "MULTU"} -> ExecHiLo(m, i)
    [] i.op \in {"NOR", "OR", "ORI", "SB", "SH"} -> ExecOrStore(m, i)
    [] i.op \in {"SLL", "SLLV", "SLT", "SLTI", "SLTIU", "SLTU", "SRA", "SRAV", "SRL", "SRLV"} ->
         ExecShiftCompare(m, i)
    [] i.op \in {"SUB", "SUBU", "SW"} -> ExecSubStore(m, i)
    [] i.op \in {"SWL", "SWR"} -> ExecStoreUnaligned(m, i)
    [] OTHER -> ExecRest(m, i)

\* The fetch: ReadMem at the program counter, whose word is program's.
Fetched(m) ==
  LET t == Translate(m.table, m.regs[PCReg], 4, FALSE)
  IN IF t.exc # "none" THEN RaiseException(m, t.exc, m.regs[PCReg])
                       ELSE [m EXCEPT !.table = t.table]
Current(m) == Decode(program[m.regs[PCReg] \div 4 + 1])

Now == [regs |-> registers, mem |-> mainMemory, table |-> pageTable, exc |-> "none"]
InProgram == registers[PCReg] % 4 = 0 => registers[PCReg] \div 4 + 1 \in DOMAIN program

-----------------------------------------------------------------------------
\* Memory as the loader left it, with bytes that tell neighbours apart.
InitialMemory == [p \in 0 .. NumPhysPages * PageSize - 1 |-> (p \div 2 + p) % Byte]

(***************************************************************************)
(* The constructor's zeroed registers and AddrSpace::InitRegisters' start  *)
(* at address 0; the general registers as earlier code left them.          *)
(***************************************************************************)
Init ==
  /\ program \in Programs
  /\ \E r0 \in Registers0 :
       registers = [x \in 0 .. NumTotalRegs - 1 |->
                      IF x \in DOMAIN r0 THEN r0[x] ELSE IF x = NextPCReg THEN 4 ELSE 0]
  /\ mainMemory = InitialMemory
  /\ tlb \in BOOLEAN
  /\ pageTable \in Tables
  /\ status = "UserMode"

\* One turn of Machine::Run's loop, up to the interrupts it lets in.
OneInstruction ==
  /\ status = "UserMode" /\ InProgram
  /\ LET f == Fetched(Now)
         m == IF f.exc # "none" THEN f ELSE Exec(f, Current(f))
     IN /\ registers' = m.regs /\ mainMemory' = m.mem /\ pageTable' = m.table
        /\ status' = IF m.exc = "none" THEN status ELSE m.exc
  /\ UNCHANGED <<program, tlb>>

\* Interrupt::CheckIfDue, in OneTick, completes the load in progress before a
\* device's handler runs.
InterruptDue ==
  /\ status = "UserMode" /\ registers[LoadReg] # 0
  /\ registers' = DelayedLoad(registers, 0, 0)
  /\ UNCHANGED <<program, mainMemory, tlb, pageTable, status>>

\* ExceptionHandler's answer to a system call: a result in r2 and the program
\* counters moved past the instruction.  Every other exception stops the kernel.
SyscallReturns(result) ==
  /\ status = "Syscall"
  /\ status' = "UserMode"
  /\ registers' = [registers EXCEPT ![2] = result, ![PrevPCReg] = registers[PCReg],
                     ![PCReg] = ToWord(@ + 4), ![NextPCReg] = ToWord(registers[PCReg] + 8)]
  /\ UNCHANGED <<program, mainMemory, tlb, pageTable>>

Next == OneInstruction \/ InterruptDue \/ (\E v \in {0, 1} : SyscallReturns(v))

Spec == Init /\ [][Next]_vars

-----------------------------------------------------------------------------

\* What the program's registers hold once the load in progress has landed.
View(regs) == [x \in GPRegs \cup {HiReg, LoReg, PCReg, NextPCReg} |->
                 DelayedLoad(regs, 0, 0)[x]]

Executing == status = "UserMode" /\ InProgram /\ Fetched(Now).exc = "none"
Here == program[registers[PCReg] \div 4 + 1]
SignedImm(w) == IF w.imm >= Half \div 2 THEN w.imm - Half ELSE w.imm

\* ADD, ADDI and SUB raise OverflowException exactly when the sum or difference
\* of the signed operands does not fit a word, and otherwise deliver it: the
\* simulator decides this from sign bits alone (mipssim.cc, OP_ADD, OP_ADDI,
\* OP_SUB), and the immediate has first gone through Decode's sign extension.
SumsExact ==
  Executing =>
       LET w == Here
           a == ToInt(registers[w.rs])
           exact == CASE w.op = "ADDI" -> {<<a + SignedImm(w), w.rt>>}
                      [] w.op = "SPECIAL" /\ w.funct = "ADD" -> {<<a + ToInt(registers[w.rt]), w.rd>>}
                      [] w.op = "SPECIAL" /\ w.funct = "SUB" -> {<<a - ToInt(registers[w.rt]), w.rd>>}
                      [] OTHER -> {}
       IN (registers'[PCReg] # registers[PCReg] \/ status' # status) =>
            \A x \in exact :
              IF x[1] \in -SIGN_BIT .. SIGN_BIT - 1
                THEN /\ status' = status
                     /\ x[2] \notin {0, registers[LoadReg]} => ToInt(registers'[x[2]]) = x[1]
                ELSE status' = "Overflow"

\* MULT and MULTU leave in HiReg and LoReg the double word that is the product
\* of the operands, signed or unsigned, the smallest int and words with the top
\* bit included: Mult works on magnitudes, bit by bit, with an int it shifts
\* right, and negates the double word at the end.
ProductsExact ==
  Executing /\ Here.op = "SPECIAL" /\ Here.funct \in {"MULT", "MULTU"}
       /\ registers'[PCReg] # registers[PCReg] =>
       LET Val(x) == IF Here.funct = "MULT" THEN ToInt(x) ELSE x
       IN Val(registers'[HiReg]) * Word + registers'[LoReg]
            = Val(registers[Here.rs]) * Val(registers[Here.rt])

\* The simulator's integer arithmetic is that of the integers wherever a result fits
\* its registers (SumsExact, ProductsExact).
ArithmeticExact == [][SumsExact /\ ProductsExact]_vars

\* An instruction that raises an exception can be run again from the beginning:
\* the program counters, the memory, and the registers the program will see,
\* the load in progress included, are as before it (OneInstruction's comment:
\* "This allows us to re-start the instruction execution from the beginning").
FaultsRestart ==
  [][status = "UserMode" /\ status' # "UserMode"
       => View(registers') = View(registers) /\ mainMemory' = mainMemory]_vars

\* The registers an instruction reads or writes; LWL and LWR may follow a load of
\* their register, which they merge with.
Uses(i) ==
  IF i.op \in {"J", "JAL"} THEN {R31}
  ELSE {i.rs, R31} \cup (IF i.op \in {"LWL", "LWR"} THEN {} ELSE {i.rt})
         \cup (IF "rd" \in DOMAIN i THEN {i.rd} ELSE {})

\* An interrupt between a load and the next instruction is invisible to the
\* program: OneInstruction leads to the same registers and memory whether or not
\* the load in progress was completed early by CheckIfDue, provided the
\* instruction in the load's delay slot keeps off the register being loaded.
InterruptsInvisible ==
  Executing /\ registers[LoadReg] \notin Uses(Current(Now)) =>
    LET early == [Now EXCEPT !.regs = DelayedLoad(registers, 0, 0)]
        a == Exec(Now, Current(Now))
        b == Exec(early, Current(Now))
    IN View(a.regs) = View(b.regs) /\ a.mem = b.mem /\ a.exc = b.exc

\* The bytes from address a on, through the translation, least significant first.
WordAt(mem, a) ==
  LET At(n) == mem[Translate(pageTable, a + n, 1, FALSE).phys]
  IN At(0) + Byte * At(1) + Byte ^ 2 * At(2) + Byte ^ 3 * At(3)

Pair(left, right) ==
  /\ Len(program) = 2 /\ program[1].op = left /\ program[2].op = right
  /\ program[1].rt = program[2].rt /\ program[1].rs = program[2].rs
  /\ program[1].rt # program[1].rs /\ program[1].imm = program[2].imm + 3

\* LWL at the last byte of an unaligned word and LWR at its first byte, with or
\* without an interrupt between them, deliver the word; SWL and SWR store the
\* register there.  (Each instruction handles part of the word, on both sides of
\* an aligned boundary, and the second merges with the first's delayed load.)
UnalignedPairs ==
  status = "UserMode" /\ registers[PCReg] = 8 =>
    LET at == ToWord(registers[program[1].rs] + SignedImm(program[2]))
    IN Pair("LWL", "LWR") \/ Pair("SWL", "SWR")
         => View(registers)[program[1].rt] = WordAt(mainMemory, at)

\* A program's stores stay within the frames it may write: whatever it has run so far,
\* stores of parts of a word and stores that faulted included, a byte of main memory
\* that is not what it was at the start lies in the frame of a page that is valid, not
\* read-only, and marked used and dirty.  (Machine::Translate checks the first byte of
\* an access only, and WriteMem writes up to four: the alignment check keeps them in
\* one frame, and the bits are set after the last check.)
StoresConfined ==
  \A p \in DOMAIN mainMemory : mainMemory[p] # InitialMemory[p] =>
    \E k \in DOMAIN pageTable :
      LET e == pageTable[k]
      IN /\ e.valid /\ ~e.readOnly /\ e.use /\ e.dirty
         /\ p \div PageSize = e.physicalPage
=============================================================================
