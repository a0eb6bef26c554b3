----------------------------- MODULE MipsProofs ------------------------------
(***************************************************************************)
(* Proofs for Mips, for any programs, page tables and width of a word.     *)
(*                                                                         *)
(* Every instruction either completes or faults (Outcome).  One that faults*)
(* has changed nothing the program sees, so it can be run again.  A machine*)
(* with a load in progress and the same machine with that load completed   *)
(* (Twins) end alike, whatever instruction they execute that keeps off the *)
(* register being loaded, so an interrupt is not seen.                     *)
(***************************************************************************)
EXTENDS Mips, TLAPS

\* The registers: a delayed load names a general register, and R0 is zero but for
\* the moment between an instruction's write and its end.
Shape(r) == r = [x \in 0 .. 39 |-> r[x]] /\ r[LoadReg] \in GPRegs
Regs(r) == Shape(r) /\ r[0] = 0

\* The record Exec works on.
Machine(m) == DOMAIN m = {"regs", "mem", "table", "exc"}

\* An instruction as Decode gives it.
Operands(i) ==
  /\ i.op \in SpecialTable \ {"RES", "UNIMP"} =>
       {i.rs, i.rt, i.rd} \subseteq GPRegs /\ "rd" \in DOMAIN i
  /\ i.op \notin {"J", "JAL"} => {i.rs, i.rt} \subseteq GPRegs
Decoded(i) ==
  /\ i.op \in SpecialTable \cup (OpTable \ {"BCOND"})
                \cup {"J", "JAL", "BLTZ", "BGEZ", "BLTZAL", "BGEZAL"}
  /\ Operands(i)

-----------------------------------------------------------------------------
(***************************************************************************)
(* What the end of an instruction and an exception leave in the registers. *)
(***************************************************************************)

\* R0, which Sets and Jumps pass to DelayedLoad, is a general register.
LEMMA RegisterZero == 0 \in GPRegs
  BY DEF GPRegs

\* Machine::DelayedLoad register by register.
LEMMA DelayedLoadIs ==
  ASSUME NEW r, Shape(r), NEW n \in GPRegs, NEW v
  PROVE  /\ Regs(DelayedLoad(r, n, v))
         /\ DelayedLoad(r, n, v)[LoadReg] = n /\ DelayedLoad(r, n, v)[LoadValueReg] = v
         /\ \A x \in 1 .. 39 : x \notin {LoadReg, LoadValueReg} =>
              DelayedLoad(r, n, v)[x] = IF x = r[LoadReg] THEN r[LoadValueReg] ELSE r[x]
<1> DEFINE d == DelayedLoad(r, n, v)
<1>1. d = [x \in 0 .. 39 |-> IF x = 0 THEN 0 ELSE IF x = 38 THEN v ELSE IF x = 37 THEN n
                               ELSE IF x = r[37] THEN r[38] ELSE r[x]]
  BY Zenon DEF DelayedLoad, Shape, LoadReg, LoadValueReg, GPRegs
<1> HIDE DEF d
<1>2. d[0] = 0 /\ d[37] = n /\ d[38] = v /\ d = [x \in 0 .. 39 |-> d[x]]
  BY <1>1
<1>3. \A x \in 1 .. 39 : x \notin {37, 38} => d[x] = IF x = r[37] THEN r[38] ELSE r[x]
  BY <1>1
<1>4. QED BY Zenon, <1>2, <1>3 DEF d, Regs, Shape, LoadReg, LoadValueReg

\* The registers the program sees, in terms of those there are.
LEMMA ViewIs ==
  ASSUME NEW r, Shape(r)
  PROVE  View(r) = [x \in 0 .. 35 |-> IF x = 0 THEN 0
                                      ELSE IF x = r[LoadReg] THEN r[LoadValueReg] ELSE r[x]]
<1>1. GPRegs \cup {HiReg, LoReg, PCReg, NextPCReg} = 0 .. 35
  BY DEF GPRegs, HiReg, LoReg, PCReg, NextPCReg
<1>2. 0 \in GPRegs
  BY DEF GPRegs
<1>3. \A x \in 0 .. 35 : DelayedLoad(r, 0, 0)[x]
                           = IF x = 0 THEN 0 ELSE IF x = r[LoadReg] THEN r[LoadValueReg] ELSE r[x]
  BY <1>2, DelayedLoadIs DEF Regs, LoadReg, LoadValueReg
<1>4. QED BY Zenon, <1>1, <1>3 DEF View

\* Completing the load in progress does not change what the program sees.
LEMMA DelayedLoadUnseen ==
  ASSUME NEW r, Shape(r)
  PROVE  View(DelayedLoad(r, 0, 0)) = View(r)
<1> DEFINE d == DelayedLoad(r, 0, 0)
<1>1. /\ Shape(d) /\ d[LoadReg] = 0
      /\ \A x \in 1 .. 35 : d[x] = IF x = r[LoadReg] THEN r[LoadValueReg] ELSE r[x]
  <2>1. /\ Regs(d) /\ d[LoadReg] = 0 /\ d[LoadValueReg] = 0
        /\ \A x \in 1 .. 39 : x \notin {LoadReg, LoadValueReg} =>
             d[x] = IF x = r[LoadReg] THEN r[LoadValueReg] ELSE r[x]
    <3> HIDE DEF Shape
    <3>1. QED BY SMTT(60), DelayedLoadIs, RegisterZero
  <2>2. \A x \in 1 .. 35 : x \in 1 .. 39 /\ x \notin {LoadReg, LoadValueReg}
    BY DEF LoadReg, LoadValueReg
  <2>3. QED BY Zenon, <2>1, <2>2 DEF Regs
<1> HIDE DEF d
<1>2. View(d) = [x \in 0 .. 35 |-> IF x = 0 THEN 0 ELSE d[x]]
  BY <1>1, ViewIs
<1>3. ASSUME NEW x \in 0 .. 35, x # 0
      PROVE  d[x] = IF x = r[LoadReg] THEN r[LoadValueReg] ELSE r[x]
  <2>1. x \in 1 .. 35
    BY <1>3
  <2>2. QED BY Zenon, <1>1, <2>1
<1>4. [x \in 0 .. 35 |-> IF x = 0 THEN 0 ELSE d[x]]
        = [x \in 0 .. 35 |-> IF x = 0 THEN 0
                             ELSE IF x = r[LoadReg] THEN r[LoadValueReg] ELSE r[x]]
  BY Zenon, <1>3
<1>5. View(d) = View(r)
  BY Zenon, <1>2, <1>4, ViewIs
<1>6. QED BY Zenon, <1>5 DEF d

\* Storing a value in a register that the simulator's own do not include.
LEMMA StoreKeepsShape ==
  ASSUME NEW r, Shape(r), NEW x \in 0 .. 39, x # LoadReg, NEW v
  PROVE  Shape([r EXCEPT ![x] = v])
  BY DEF Shape, LoadReg

\* Storing in the hi and lo registers, as MULT and DIV do.
LEMMA HiLoKeepsShape ==
  ASSUME NEW r, Shape(r), NEW v, NEW w
  PROVE  Shape([r EXCEPT ![HiReg] = v, ![LoReg] = w])
<1> DEFINE s == [r EXCEPT ![HiReg] = v]
<1>1. HiReg \in 0 .. 39 /\ LoReg \in 0 .. 39 /\ HiReg # LoadReg /\ LoReg # LoadReg
  BY DEF HiReg, LoReg, LoadReg
<1>2. Shape(s)
  BY Zenon, <1>1, StoreKeepsShape
<1> HIDE DEF s
<1>3. Shape([s EXCEPT ![LoReg] = w])
  BY Zenon, <1>1, <1>2, StoreKeepsShape
<1>4. QED BY Zenon, <1>3 DEF s

\* The end of OneInstruction, register by register.
Ends(m, e) ==
  /\ Machine(e) /\ Regs(e.regs) /\ e.mem = m.mem /\ e.table = m.table /\ e.exc = m.exc
Registers(r, n, v, pc, q) ==
  /\ q[LoadReg] = n /\ q[LoadValueReg] = v /\ q[NextPCReg] = pc /\ q[PCReg] = r[NextPCReg]
  /\ \A x \in 1 .. 33 : q[x] = IF x = r[LoadReg] THEN r[LoadValueReg] ELSE r[x]

\* What the end of OneInstruction leaves: the load in progress is completed, the
\* next one set up and the program counters advanced.
LEMMA CompleteIs ==
  ASSUME NEW m, Machine(m), NEW r, Shape(r), NEW n \in GPRegs, NEW v, NEW pc
  PROVE  /\ Ends(m, Complete(m, r, n, v, pc))
         /\ Registers(r, n, v, pc, Complete(m, r, n, v, pc).regs)
<1> DEFINE d == DelayedLoad(r, n, v)
           q == [d EXCEPT ![PrevPCReg] = d[PCReg], ![PCReg] = d[NextPCReg], ![NextPCReg] = pc]
           e == Complete(m, r, n, v, pc)
<1>1. e = [m EXCEPT !.regs = q]
  BY Zenon DEF Complete
<1>2. /\ Regs(d) /\ d[LoadReg] = n /\ d[LoadValueReg] = v
      /\ \A x \in 1 .. 39 : x \notin {LoadReg, LoadValueReg} =>
           d[x] = IF x = r[LoadReg] THEN r[LoadValueReg] ELSE r[x]
  BY DelayedLoadIs
<1> HIDE DEF d
<1>3. q = [x \in 0 .. 39 |-> IF x = 35 THEN pc ELSE IF x = 34 THEN d[35]
                               ELSE IF x = 36 THEN d[34] ELSE d[x]]
  BY Zenon, <1>2 DEF Regs, Shape, PrevPCReg, PCReg, NextPCReg
<1> HIDE DEF q
<1>4. q = [x \in 0 .. 39 |-> q[x]] /\ q[LoadReg] = n /\ q[LoadValueReg] = v /\ q[0] = 0
  BY <1>2, <1>3 DEF LoadReg, LoadValueReg, Regs
<1>5. d[35] = r[35]
  BY <1>2 DEF LoadReg, LoadValueReg, Shape, GPRegs
<1>6. q[NextPCReg] = pc /\ q[PCReg] = r[NextPCReg]
  BY <1>3, <1>5 DEF NextPCReg, PCReg
<1>7. \A x \in 1 .. 33 : q[x] = IF x = r[LoadReg] THEN r[LoadValueReg] ELSE r[x]
  BY <1>2, <1>3 DEF LoadReg, LoadValueReg
<1>8. Regs(q)
  BY Zenon, <1>4 DEF Regs, Shape
<1>9. e.regs = q /\ Machine(e) /\ e.mem = m.mem /\ e.table = m.table /\ e.exc = m.exc
  BY Zenon, <1>1 DEF Machine
<1> HIDE DEF e
<1>10. Ends(m, e)
  BY Zenon, <1>8, <1>9 DEF Ends
<1>11. Registers(r, n, v, pc, e.regs)
  BY Zenon, <1>4, <1>6, <1>7, <1>9 DEF Registers
<1>12. QED BY Zenon, <1>10, <1>11 DEF e

\* An exception: the program sees no difference and its memory has none.
Faulted(m, e) ==
  Machine(e) /\ Regs(e.regs) /\ View(e.regs) = View(m.regs) /\ e.mem = m.mem

\* Machine::RaiseException completes the load in progress and records the address.
LEMMA RaiseIs ==
  ASSUME NEW m, Machine(m), Shape(m.regs), NEW which, NEW bad
  PROVE  Faulted(m, RaiseException(m, which, bad)) /\ RaiseException(m, which, bad).exc = which
<1> DEFINE r == m.regs
           b == [r EXCEPT ![BadVAddrReg] = bad]
           d == DelayedLoad(b, 0, 0)
           e == RaiseException(m, which, bad)
<1>1. e = [m EXCEPT !.regs = d, !.exc = which]
  BY Zenon DEF RaiseException
<1>2. Shape(b)
  BY StoreKeepsShape DEF BadVAddrReg, LoadReg
<1>3. b[LoadReg] = r[LoadReg] /\ b[LoadValueReg] = r[LoadValueReg]
      /\ \A x \in 0 .. 35 : b[x] = r[x]
  BY DEF Shape, BadVAddrReg, LoadReg, LoadValueReg
<1>4. View(b) = View(r)
  <2> HIDE DEF b, r
  <2>1. Shape(r)
    BY Zenon DEF r
  <2>2. QED BY <1>2, <1>3, <2>1, ViewIs
<1>5. Regs(d) /\ View(d) = View(b)
  <2> HIDE DEF b
  <2> 0 \in GPRegs
    BY DEF GPRegs
  <2>1. Regs(d)
    BY ONLY <1>2, 0 \in GPRegs, DelayedLoadIs
  <2>2. View(d) = View(b)
    BY Zenon, <1>2, DelayedLoadUnseen
  <2>3. QED BY Zenon, <2>1, <2>2
<1>6. e.regs = d /\ e.exc = which /\ e.mem = m.mem /\ Machine(e)
  BY Zenon, <1>1 DEF Machine
<1> HIDE DEF e, d
<1>7. QED BY Zenon, <1>4, <1>5, <1>6 DEF e, Faulted

-----------------------------------------------------------------------------
(***************************************************************************)
(* Every instruction either completes or raises an exception, in which     *)
(* case it has changed nothing that the program can see.                   *)
(***************************************************************************)
Completed(m, e) == Machine(e) /\ Regs(e.regs) /\ e.exc = m.exc
Outcome(m, e) == Completed(m, e) \/ Faulted(m, e)
Ready(m) == Machine(m) /\ Regs(m.regs)

\* An instruction that writes a register at once completes.
LEMMA SetsCompletes ==
  ASSUME NEW m, Ready(m), NEW x \in 0 .. 33, NEW v
  PROVE  Completed(m, Sets(m, x, v))
<1> DEFINE r == [m.regs EXCEPT ![x] = v]
<1>1. Shape(r)
  <2>1. Shape(m.regs) /\ x \in 0 .. 39 /\ x # LoadReg
    BY DEF Ready, Regs, LoadReg
  <2>2. QED BY Zenon, <2>1, StoreKeepsShape
<1> HIDE DEF r
<1>2. Ends(m, Complete(m, r, 0, 0, PcAfter(m)))
  BY Zenon, <1>1, CompleteIs, RegisterZero DEF Ready
<1>3. QED BY Zenon, <1>2 DEF Sets, r, Ends, Completed

\* An instruction that writes its register by a delayed load completes.
LEMMA LoadsCompletes ==
  ASSUME NEW m, Ready(m), NEW x \in GPRegs, NEW v
  PROVE  Completed(m, Loads(m, x, v))
<1>1. Machine(m) /\ Shape(m.regs)
  BY Zenon DEF Ready, Regs
<1>2. Ends(m, Loads(m, x, v))
  BY Zenon, <1>1, CompleteIs DEF Loads
<1>3. QED BY Zenon, <1>2 DEF Ends, Completed

\* An instruction that writes only a program counter, hi, lo or R31 completes.
LEMMA JumpsCompletes ==
  ASSUME NEW m, Ready(m), NEW r, Shape(r), NEW target
  PROVE  Completed(m, Jumps(m, r, target))
<1>1. Machine(m)
  BY Zenon DEF Ready
<1>2. Ends(m, Jumps(m, r, target))
  BY Zenon, <1>1, CompleteIs, RegisterZero DEF Jumps
<1>3. QED BY Zenon, <1>2 DEF Ends, Completed

\* An exception raised before the instruction stored anything leaves no trace of it.
LEMMA RaiseFaults ==
  ASSUME NEW m, Ready(m), NEW which, NEW bad
  PROVE  Faulted(m, RaiseException(m, which, bad))
  BY Zenon, RaiseIs DEF Ready, Regs

\* Machine::ReadMem raises an exception or changes only the use bit of a page.
LEMMA ReadMemOutcome ==
  ASSUME NEW m, Ready(m), NEW addr, NEW size
  PROVE  \/ Faulted(m, ReadMem(m, addr, size).m) /\ ReadMem(m, addr, size).m.exc # "none"
         \/ /\ Ready(ReadMem(m, addr, size).m)
            /\ ReadMem(m, addr, size).m.regs = m.regs /\ ReadMem(m, addr, size).m.mem = m.mem
            /\ ReadMem(m, addr, size).m.exc = m.exc
<1> DEFINE t == Translate(m.table, addr, size, FALSE)
<1>1. CASE t.exc # "none"
  <2>1. ReadMem(m, addr, size).m = RaiseException(m, t.exc, addr)
    BY Zenon, <1>1 DEF ReadMem
  <2>2. Machine(m) /\ Shape(m.regs)
    BY Zenon DEF Ready, Regs
  <2> HIDE DEF t
  <2>3. QED BY <1>1, <2>1, <2>2, RaiseIs
<1>2. CASE t.exc = "none"
  <2>1. ReadMem(m, addr, size).m = [m EXCEPT !.table = t.table]
    BY Zenon, <1>2 DEF ReadMem
  <2> HIDE DEF t
  <2>2. QED BY Zenon, <2>1 DEF Ready, Machine
<1>3. QED BY Zenon, <1>1, <1>2

\* Machine::WriteMem raises an exception before it stores anything, or completes.
LEMMA WriteMemOutcome ==
  ASSUME NEW m, Ready(m), NEW addr, NEW size, NEW value
  PROVE  Outcome(m, WriteMem(m, addr, size, value))
<1> DEFINE t == Translate(m.table, addr, size, TRUE)
           w == [m EXCEPT !.table = t.table, !.mem = Stored(m.mem, t.phys, size, value)]
<1>1. CASE t.exc # "none"
  <2>1. WriteMem(m, addr, size, value) = RaiseException(m, t.exc, addr)
    BY Zenon, <1>1 DEF WriteMem
  <2>2. QED BY Zenon, <2>1, RaiseFaults DEF Outcome
<1>2. CASE t.exc = "none"
  <2>1. WriteMem(m, addr, size, value) = Complete(w, m.regs, 0, 0, PcAfter(m))
    BY Zenon, <1>2 DEF WriteMem
  <2> HIDE DEF t
  <2>2. Machine(w) /\ w.exc = m.exc
    BY Zenon DEF Ready, Machine
  <2>3. Shape(m.regs)
    BY Zenon DEF Ready, Regs
  <2> HIDE DEF w
  <2>4. Ends(w, Complete(w, m.regs, 0, 0, PcAfter(m)))
    BY Zenon, <2>2, <2>3, CompleteIs, RegisterZero
  <2>5. QED BY Zenon, <2>1, <2>2, <2>4 DEF Ends, Completed, Outcome
<1>3. QED BY Zenon, <1>1, <1>2

\* The register fields of an instruction, by the operations that use them.
LEMMA Fields ==
  ASSUME NEW i, Decoded(i)
  PROVE  /\ i.op \notin {"J", "JAL"} => i.rs \in GPRegs /\ i.rt \in GPRegs
         /\ i.op \in SpecialTable \ {"RES", "UNIMP"} => i.rd \in GPRegs
         /\ GPRegs \subseteq 0 .. 33
  BY DEF Decoded, Operands, GPRegs

\* ADD, ADDI, ADDU, ADDIU, AND and ANDI: overflow is found before the register is written.
LEMMA AddAndOutcome ==
  ASSUME NEW m, Ready(m), NEW i, Decoded(i),
         i.op \in {"ADD", "ADDI", "ADDIU", "ADDU", "AND", "ANDI"}
  PROVE  Outcome(m, ExecAddAnd(m, i))
<1> DEFINE b == IF i.op \in {"ADD", "ADDU", "AND"} THEN m.regs[i.rt] ELSE i.extra
           to == IF i.op \in {"ADD", "ADDU", "AND"} THEN i.rd ELSE i.rt
<1>1. to \in 0 .. 33
  BY Zenon, Fields DEF SpecialTable
<1> HIDE DEF to
<1>2. \/ ExecAddAnd(m, i) = RaiseException(m, "Overflow", 0)
      \/ \E v : ExecAddAnd(m, i) = Sets(m, to, v)
  BY Zenon DEF ExecAddAnd, to
<1>3. QED BY Zenon, <1>1, <1>2, SetsCompletes, RaiseFaults DEF Outcome

\* The conditional branches; R31 is written before the comparison.
LEMMA BranchOutcome ==
  ASSUME NEW m, Ready(m), NEW i
  PROVE  Outcome(m, ExecBranch(m, i))
<1> DEFINE r == IF i.op \in {"BGEZAL", "BLTZAL"} THEN [m.regs EXCEPT ![R31] = PcAfter(m)] ELSE m.regs
<1>1. \E target : ExecBranch(m, i) = Jumps(m, r, target)
  BY Zenon DEF ExecBranch
<1>2. Shape(r)
  <2>1. R31 \in 0 .. 39 /\ R31 # LoadReg
    BY DEF R31, LoadReg
  <2>2. QED BY Zenon, <2>1, StoreKeepsShape DEF Ready, Regs
<1> HIDE DEF r
<1>3. QED BY Zenon, <1>1, <1>2, JumpsCompletes DEF Outcome

\* DIV and DIVU.
LEMMA DivideOutcome ==
  ASSUME NEW m, Ready(m), NEW i
  PROVE  Outcome(m, ExecDivide(m, i))
<1>1. \/ ExecDivide(m, i) = [m EXCEPT !.exc = "HostTrap"]
      \/ \E v, w : ExecDivide(m, i) = Jumps(m, [m.regs EXCEPT ![HiReg] = v, ![LoReg] = w], PcAfter(m))
  BY Zenon DEF ExecDivide
<1>2. Faulted(m, [m EXCEPT !.exc = "HostTrap"])
  BY Zenon DEF Ready, Machine, Faulted
<1>3. Shape(m.regs)
  BY Zenon DEF Ready, Regs
<1>4. QED BY Zenon, <1>1, <1>2, <1>3, HiLoKeepsShape, JumpsCompletes DEF Outcome

\* J, JAL, JALR and JR.
LEMMA JumpOutcome ==
  ASSUME NEW m, Ready(m), NEW i, Decoded(i), i.op \in {"JAL", "J", "JALR", "JR"}
  PROVE  Outcome(m, ExecJump(m, i))
<1> DEFINE link == CASE i.op = "JAL" -> {R31} [] i.op = "JALR" -> {i.rd} [] OTHER -> {}
           r == [x \in DOMAIN m.regs |-> IF x \in link THEN PcAfter(m) ELSE m.regs[x]]
<1>1. \E target : ExecJump(m, i) = Jumps(m, r, target)
  BY Zenon DEF ExecJump
<1>2. LoadReg \notin link
  BY Fields DEF SpecialTable, R31, LoadReg
<1> HIDE DEF link
<1>3. Shape(r)
  BY <1>2 DEF Ready, Regs, Shape, LoadReg
<1> HIDE DEF r
<1>4. QED BY Zenon, <1>1, <1>3, JumpsCompletes DEF Outcome

\* The end of a load, after the read of its word.
Loaded(m, addr, size, x, v) ==
  IF ReadMem(m, addr, size).m.exc # "none" THEN ReadMem(m, addr, size).m
                                           ELSE Loads(ReadMem(m, addr, size).m, x, v)

\* A load faults in ReadMem or completes.
LEMMA LoadedOutcome ==
  ASSUME NEW m, Ready(m), NEW addr, NEW size, NEW x \in GPRegs, NEW v
  PROVE  Outcome(m, Loaded(m, addr, size, x, v))
<1> DEFINE read == ReadMem(m, addr, size)
<1>1. CASE Faulted(m, read.m) /\ read.m.exc # "none"
  BY Zenon, <1>1 DEF Outcome, Loaded
<1>2. CASE Ready(read.m) /\ read.m.regs = m.regs /\ read.m.exc = m.exc
  <2> HIDE DEF read
  <2>1. Completed(read.m, Loads(read.m, x, v))
    BY Zenon, <1>2, LoadsCompletes
  <2>2. Completed(m, Loads(read.m, x, v)) /\ Completed(m, read.m)
    BY Zenon, <1>2, <2>1 DEF Completed, Ready
  <2>3. QED BY Zenon, <2>2 DEF read, Outcome, Loaded
<1>3. QED BY <1>1, <1>2, ReadMemOutcome

\* LB, LBU, LH, LHU, LUI and LW: an unaligned address faults before ReadMem.
LEMMA LoadOutcome ==
  ASSUME NEW m, Ready(m), NEW i, Decoded(i), i.op \in {"LB", "LBU", "LH", "LHU", "LUI", "LW"}
  PROVE  Outcome(m, ExecLoad(m, i))
<1>1. \/ \E v : ExecLoad(m, i) = Sets(m, i.rt, v)
      \/ \E bad : ExecLoad(m, i) = RaiseException(m, "AddressError", bad)
      \/ \E addr, size, v : ExecLoad(m, i) = Loaded(m, addr, size, i.rt, v)
  BY ZenonT(60) DEF ExecLoad, Loaded
<1>2. i.rt \in GPRegs /\ i.rt \in 0 .. 33
  BY Zenon, Fields
<1>3. QED BY Zenon, <1>1, <1>2, SetsCompletes, RaiseFaults, LoadedOutcome DEF Outcome

\* LWL and LWR.
LEMMA LoadUnalignedOutcome ==
  ASSUME NEW m, Ready(m), NEW i, Decoded(i), i.op \in {"LWL", "LWR"}
  PROVE  Outcome(m, ExecLoadUnaligned(m, i))
<1>1. \E addr, size, v : ExecLoadUnaligned(m, i) = Loaded(m, addr, size, i.rt, v)
  BY Zenon DEF ExecLoadUnaligned, Loaded
<1>2. i.rt \in GPRegs
  BY Zenon, Fields
<1>3. QED BY Zenon, <1>1, <1>2, LoadedOutcome

\* MFHI, MFLO, MTHI, MTLO, MULT and MULTU.
LEMMA HiLoOutcome ==
  ASSUME NEW m, Ready(m), NEW i, Decoded(i),
         i.op \in {"MFHI", "MFLO", "MTHI", "MTLO", "MULT", "MULTU"}
  PROVE  Outcome(m, ExecHiLo(m, i))
<1>1. \/ \E x \in {i.rd, HiReg, LoReg} : \E v : ExecHiLo(m, i) = Sets(m, x, v)
      \/ \E v, w : ExecHiLo(m, i) = Jumps(m, [m.regs EXCEPT ![HiReg] = v, ![LoReg] = w], PcAfter(m))
  BY Zenon DEF ExecHiLo
<1>2. {i.rd, HiReg, LoReg} \subseteq 0 .. 33
  BY Fields DEF SpecialTable, HiReg, LoReg
<1>3. Shape(m.regs)
  BY Zenon DEF Ready, Regs
<1>4. QED BY Zenon, <1>1, <1>2, <1>3, SetsCompletes, HiLoKeepsShape, JumpsCompletes DEF Outcome

\* NOR, OR, ORI, SB and SH.
LEMMA OrStoreOutcome ==
  ASSUME NEW m, Ready(m), NEW i, Decoded(i), i.op \in {"NOR", "OR", "ORI", "SB", "SH"}
  PROVE  Outcome(m, ExecOrStore(m, i))
<1>1. \/ \E v : ExecOrStore(m, i) = Sets(m, IF i.op = "ORI" THEN i.rt ELSE i.rd, v)
            /\ i.op \in {"NOR", "OR", "ORI"}
      \/ \E addr, size, v : ExecOrStore(m, i) = WriteMem(m, addr, size, v)
  BY Zenon DEF ExecOrStore
<1>2. i.op \in {"NOR", "OR", "ORI"} => (IF i.op = "ORI" THEN i.rt ELSE i.rd) \in 0 .. 33
  BY Zenon, Fields DEF SpecialTable
<1>3. QED BY Zenon, <1>1, <1>2, SetsCompletes, WriteMemOutcome DEF Outcome

\* The shifts and the comparisons.
LEMMA ShiftCompareOutcome ==
  ASSUME NEW m, Ready(m), NEW i, Decoded(i),
         i.op \in {"SLL", "SLLV", "SLT", "SLTI", "SLTIU", "SLTU", "SRA", "SRAV", "SRL", "SRLV"}
  PROVE  Outcome(m, ExecShiftCompare(m, i))
<1> DEFINE to == IF i.op \in {"SLTI", "SLTIU"} THEN i.rt ELSE i.rd
<1>1. to \in 0 .. 33
  BY Zenon, Fields DEF SpecialTable
<1>2. \E v : ExecShiftCompare(m, i) = Sets(m, to, v)
  BY Zenon DEF ExecShiftCompare
<1> HIDE DEF to
<1>3. QED BY Zenon, <1>1, <1>2, SetsCompletes DEF Outcome

\* SUB, SUBU and SW.
LEMMA SubStoreOutcome ==
  ASSUME NEW m, Ready(m), NEW i, Decoded(i), i.op \in {"SUB", "SUBU", "SW"}
  PROVE  Outcome(m, ExecSubStore(m, i))
<1>1. \/ \E addr, size, v : ExecSubStore(m, i) = WriteMem(m, addr, size, v)
      \/ ExecSubStore(m, i) = RaiseException(m, "Overflow", 0)
      \/ i.op \in {"SUB", "SUBU"} /\ \E v : ExecSubStore(m, i) = Sets(m, i.rd, v)
  BY Zenon DEF ExecSubStore
<1>2. i.op \in {"SUB", "SUBU"} => i.rd \in 0 .. 33
  BY Zenon, Fields DEF SpecialTable
<1>3. QED BY Zenon, <1>1, <1>2, SetsCompletes, RaiseFaults, WriteMemOutcome DEF Outcome

\* SWL and SWR read, and may fault, before they write.
LEMMA StoreUnalignedOutcome ==
  ASSUME NEW m, Ready(m), NEW i
  PROVE  Outcome(m, ExecStoreUnaligned(m, i))
<1>1. PICK addr, v : ExecStoreUnaligned(m, i)
                       = IF ReadMem(m, addr, 4).m.exc # "none" THEN ReadMem(m, addr, 4).m
                         ELSE WriteMem(ReadMem(m, addr, 4).m, addr, 4, v)
  BY Zenon DEF ExecStoreUnaligned
<1> DEFINE read == ReadMem(m, addr, 4)
<1>2. CASE Faulted(m, read.m) /\ read.m.exc # "none"
  BY Zenon, <1>1, <1>2 DEF Outcome
<1>3. CASE Ready(read.m) /\ read.m.regs = m.regs /\ read.m.mem = m.mem /\ read.m.exc = m.exc
  <2> HIDE DEF read
  <2>1. Outcome(read.m, WriteMem(read.m, addr, 4, v))
    BY Zenon, <1>3, WriteMemOutcome
  <2>2. Outcome(m, WriteMem(read.m, addr, 4, v)) /\ Outcome(m, read.m)
    BY Zenon, <1>3, <2>1 DEF Outcome, Completed, Faulted, Ready
  <2>3. QED BY Zenon, <1>1, <2>2 DEF read
<1>4. QED BY <1>2, <1>3, ReadMemOutcome

\* SYSCALL, XOR, XORI and the operations that raise IllegalInstrException.
LEMMA RestOutcome ==
  ASSUME NEW m, Ready(m), NEW i, Decoded(i), i.op \in {"SYSCALL", "XOR", "XORI", "RES", "UNIMP"}
  PROVE  Outcome(m, ExecRest(m, i))
<1>1. \/ \E which : ExecRest(m, i) = RaiseException(m, which, 0)
      \/ \E v : ExecRest(m, i) = Sets(m, IF i.op = "XORI" THEN i.rt ELSE i.rd, v)
            /\ i.op \in {"XOR", "XORI"}
  BY Zenon DEF ExecRest
<1>2. i.op \in {"XOR", "XORI"} => (IF i.op = "XORI" THEN i.rt ELSE i.rd) \in 0 .. 33
  BY Zenon, Fields DEF SpecialTable
<1>3. QED BY Zenon, <1>1, <1>2, SetsCompletes, RaiseFaults DEF Outcome

\* Machine::OneInstruction, once the instruction is fetched and decoded.
LEMMA ExecOutcome ==
  ASSUME NEW m, Ready(m), NEW i, Decoded(i)
  PROVE  Outcome(m, Exec(m, i))
<1>1. CASE i.op \in {"ADD", "ADDI", "ADDIU", "ADDU", "AND", "ANDI"}
  BY Zenon, <1>1, AddAndOutcome DEF Exec
<1>2. CASE i.op \in {"BEQ", "BGEZAL", "BGEZ", "BGTZ", "BLEZ", "BLTZAL", "BLTZ", "BNE"}
  BY Zenon, <1>2, BranchOutcome DEF Exec
<1>3. CASE i.op \in {"DIV", "DIVU"}
  BY Zenon, <1>3, DivideOutcome DEF Exec
<1>4. CASE i.op \in {"JAL", "J", "JALR", "JR"}
  BY Zenon, <1>4, JumpOutcome DEF Exec
<1>5. CASE i.op \in {"LB", "LBU", "LH", "LHU", "LUI", "LW"}
  BY Zenon, <1>5, LoadOutcome DEF Exec
<1>6. CASE i.op \in {"LWL", "LWR"}
  BY Zenon, <1>6, LoadUnalignedOutcome DEF Exec
<1>7. CASE i.op \in {"MFHI", "MFLO", "MTHI", "MTLO", "MULT", "MULTU"}
  BY Zenon, <1>7, HiLoOutcome DEF Exec
<1>8. CASE i.op \in {"NOR", "OR", "ORI", "SB", "SH"}
  BY Zenon, <1>8, OrStoreOutcome DEF Exec
<1>9. CASE i.op \in {"SLL", "SLLV", "SLT", "SLTI", "SLTIU", "SLTU", "SRA", "SRAV", "SRL", "SRLV"}
  BY Zenon, <1>9, ShiftCompareOutcome DEF Exec
<1>10. CASE i.op \in {"SUB", "SUBU", "SW"}
  BY Zenon, <1>10, SubStoreOutcome DEF Exec
<1>11. CASE i.op \in {"SWL", "SWR"}
  BY Zenon, <1>11, StoreUnalignedOutcome DEF Exec
<1>12. CASE i.op \in {"SYSCALL", "XOR", "XORI", "RES", "UNIMP"}
  BY Zenon, <1>12, RestOutcome DEF Exec
<1>13. QED BY Zenon, <1>1, <1>2, <1>3, <1>4, <1>5, <1>6, <1>7, <1>8, <1>9, <1>10, <1>11, <1>12
           DEF Decoded, SpecialTable, OpTable

\* Instruction::Decode gives every word of a program an operation of the switch.
LEMMA DecodeIs ==
  ASSUME NEW w, Instruction(w)
  PROVE  Decoded(Decode(w))
<1>1. CASE w.op = "SPECIAL" /\ w.funct \in SpecialTable /\ {w.rs, w.rt, w.rd} \subseteq GPRegs
  <2>1. Decode(w) = [op |-> w.funct, rs |-> w.rs, rt |-> w.rt, rd |-> w.rd, extra |-> w.shamt]
    BY Zenon, <1>1 DEF Decode
  <2>2. QED BY <1>1, <2>1 DEF Decoded, Operands
<1>2. CASE w.op \in OpTable /\ {w.rs, w.rt} \subseteq GPRegs
  <2> DEFINE op == IF w.op = "BCOND" THEN BcondTable(w.rt) ELSE w.op
  <2>1. Decode(w) = [op |-> op, rs |-> w.rs, rt |-> w.rt, extra |-> SignExtend(w.imm, Half)]
    BY Zenon, <1>2 DEF Decode, OpTable
  <2>2. op \in {"BLTZ", "BGEZ", "BLTZAL", "BGEZAL", "UNIMP"} \cup (OpTable \ {"BCOND"})
    BY Zenon, <1>2 DEF BcondTable
  <2>3. op \in OpTable \cup {"BLTZ", "BGEZ", "BLTZAL", "BGEZAL"} /\ op # "BCOND"
        /\ op \notin SpecialTable \ {"RES", "UNIMP"}
    BY ZenonT(60), <2>2 DEF OpTable, SpecialTable
  <2> HIDE DEF op
  <2>4. QED BY <1>2, <2>1, <2>3 DEF Decoded, Operands
<1>3. CASE w.op \in {"J", "JAL"}
  <2>1. Decode(w) = [op |-> w.op, extra |-> w.target]
    BY Zenon, <1>3 DEF Decode
  <2>2. QED BY <1>3, <2>1 DEF Decoded, Operands, SpecialTable
<1>4. QED BY Zenon, <1>1, <1>2, <1>3 DEF Instruction

-----------------------------------------------------------------------------
\* A page table's translation at an address that is not a multiple of four fails.
LEMMA FetchAligned ==
  ASSUME NEW table, NEW addr, NEW writing, Translate(table, addr, 4, writing).exc = "none"
  PROVE  addr % 4 = 0
  BY Zenon DEF Translate, Misaligned

Inv == program \in Programs /\ Regs(registers)

\* The step of Machine::Run: what it starts from and what it makes of it.
LEMMA OneInstructionOutcome ==
  ASSUME Inv, OneInstruction
  PROVE  /\ Regs(registers')
         /\ status' # status => View(registers') = View(registers) /\ mainMemory' = mainMemory
<1> DEFINE f == Fetched(Now)
           t == Translate(pageTable, registers[PCReg], 4, FALSE)
           m == IF f.exc # "none" THEN f ELSE Exec(f, Current(f))
<1>1. Ready(Now) /\ Now.regs = registers /\ Now.mem = mainMemory /\ Now.table = pageTable
      /\ Now.exc = "none"
  BY Zenon DEF Now, Inv, Ready, Machine
<1>2. Outcome(Now, m)
  <2>1. CASE t.exc # "none"
    <3>1. f = RaiseException(Now, t.exc, registers[PCReg])
      BY Zenon, <1>1, <2>1 DEF Fetched
    <3>0. Machine(Now) /\ Shape(Now.regs)
      BY Zenon, <1>1 DEF Ready, Regs
    <3> HIDE DEF t
    <3>2. Faulted(Now, f) /\ f.exc # "none"
      BY <2>1, <3>0, <3>1, RaiseIs
    <3> HIDE DEF f
    <3>3. QED BY Zenon, <3>2 DEF Outcome
  <2>2. CASE t.exc = "none"
    <3>1. f = [Now EXCEPT !.table = t.table]
      BY Zenon, <1>1, <2>2 DEF Fetched
    <3>2. registers[PCReg] \div 4 + 1 \in DOMAIN program
      BY Zenon, <2>2, FetchAligned DEF OneInstruction, InProgram
    <3> HIDE DEF t
    <3>3. Ready(f) /\ f.regs = registers /\ f.mem = mainMemory /\ f.exc = "none"
      BY Zenon, <1>1, <3>1 DEF Ready, Machine
    <3>4. Decoded(Current(f))
      BY Zenon, <3>2, <3>3, DecodeIs, ProgramsAssumption DEF Current, Inv
    <3> HIDE DEF f
    <3>5. Outcome(f, Exec(f, Current(f)))
      BY Zenon, <3>3, <3>4, ExecOutcome
    <3>6. QED BY Zenon, <1>1, <3>3, <3>5 DEF Outcome, Completed, Faulted
  <2>3. QED BY Zenon, <2>1, <2>2
<1>3. registers' = m.regs /\ mainMemory' = m.mem
      /\ status' = IF m.exc = "none" THEN status ELSE m.exc
  BY Zenon DEF OneInstruction
<1> HIDE DEF m
<1>4. QED BY Zenon, <1>1, <1>2, <1>3 DEF Outcome, Completed, Faulted

\* The registers a program starts with (AddrSpace::InitRegisters).
LEMMA InvInit == Init => Inv
<1> SUFFICES ASSUME Init PROVE Inv
  OBVIOUS
<1>1. PICK r0 \in Registers0 :
        registers = [x \in 0 .. 39 |->
                      IF x \in DOMAIN r0 THEN r0[x] ELSE IF x = NextPCReg THEN 4 ELSE 0]
  BY DEF Init, NumTotalRegs
<1>2. 0 \notin DOMAIN r0 /\ LoadReg \notin DOMAIN r0
  BY ProgramsAssumption DEF GPRegs, LoadReg
<1>3. registers = [x \in 0 .. 39 |-> registers[x]] /\ registers[0] = 0 /\ registers[LoadReg] = 0
  BY <1>1, <1>2 DEF LoadReg, NextPCReg
<1>4. QED BY Zenon, <1>3, RegisterZero DEF Inv, Regs, Shape, Init

\* Every step of Machine::Run and of CheckIfDue keeps the shape of the registers.
LEMMA InvNext == Inv /\ [Next]_vars => Inv'
<1> SUFFICES ASSUME Inv, [Next]_vars PROVE Inv'
  OBVIOUS
<1>1. CASE OneInstruction
  BY Zenon, <1>1, OneInstructionOutcome DEF Inv, OneInstruction
<1>2. CASE InterruptDue
  <2>1. Regs(DelayedLoad(registers, 0, 0))
    BY DelayedLoadIs, RegisterZero DEF Inv, Regs
  <2>2. QED BY Zenon, <1>2, <2>1 DEF Inv, InterruptDue
<1>3. ASSUME NEW v, SyscallReturns(v) PROVE Inv'
  <2>1. Shape(registers) /\ registers[0] = 0
    BY Zenon DEF Inv, Regs
  <2>2. DOMAIN registers = 0 .. 39 /\ registers[LoadReg] \in GPRegs
    BY Zenon, <2>1 DEF Shape
  <2>3. registers' = [x \in 0 .. 39 |-> registers'[x]]
    BY Zenon, <1>3, <2>2 DEF SyscallReturns
  <2>4. registers'[0] = 0 /\ registers'[LoadReg] = registers[LoadReg]
    BY <1>3, <2>1, <2>2 DEF SyscallReturns, PCReg, NextPCReg, PrevPCReg, LoadReg
  <2>5. Regs(registers')
    BY Zenon, <2>2, <2>3, <2>4 DEF Regs, Shape
  <2>6. QED BY Zenon, <1>3, <2>5 DEF SyscallReturns, Inv
<1>4. CASE UNCHANGED vars
  BY Zenon, <1>4 DEF vars, Inv
<1>5. QED BY Zenon, <1>1, <1>2, <1>3, <1>4 DEF Next

\* A faulting instruction can be run again (OneInstruction's comment): whatever the
\* program, an exception leaves the program counters, the memory and the registers the
\* program will see as they were before the instruction.
THEOREM FaultsRestartCorrect == Spec => FaultsRestart
<1>1. Inv /\ [Next]_vars =>
        [status = "UserMode" /\ status' # "UserMode"
           => View(registers') = View(registers) /\ mainMemory' = mainMemory]_vars
  <2> SUFFICES ASSUME Inv, [Next]_vars, status = "UserMode", status' # "UserMode"
               PROVE  View(registers') = View(registers) /\ mainMemory' = mainMemory
    OBVIOUS
  <2>1. OneInstruction
    BY Zenon DEF Next, vars, InterruptDue, SyscallReturns
  <2>2. QED BY Zenon, <2>1, OneInstructionOutcome
<1>2. QED BY <1>1, InvInit, InvNext, PTL DEF Spec, FaultsRestart

-----------------------------------------------------------------------------
(***************************************************************************)
(* The same instruction on two machines, n with the load in progress of m  *)
(* completed (CheckIfDue's DelayedLoad): as long as it keeps off the       *)
(* register being loaded it does the same to both.                         *)
(***************************************************************************)
Ahead(r, q) ==
  /\ Shape(r) /\ Shape(q) /\ q[LoadReg] = 0
  /\ \A x \in 1 .. 36 : q[x] = IF x = r[LoadReg] THEN r[LoadValueReg] ELSE r[x]
Twins(m, n) ==
  /\ Ready(m) /\ Ready(n) /\ Ahead(m.regs, n.regs)
  /\ m.mem = n.mem /\ m.table = n.table /\ m.exc = n.exc
Alike(a, b) == View(a.regs) = View(b.regs) /\ a.mem = b.mem /\ a.exc = b.exc

\* A machine whose delayed load is completed shows the program the same registers.
LEMMA AheadSees ==
  ASSUME NEW r, NEW q, Ahead(r, q)
  PROVE  View(r) = View(q)
<1>1. Shape(r) /\ Shape(q) /\ q[LoadReg] = 0
      /\ \A x \in 1 .. 35 : q[x] = IF x = r[LoadReg] THEN r[LoadValueReg] ELSE r[x]
  BY DEF Ahead
<1>2. View(q) = [x \in 0 .. 35 |-> IF x = 0 THEN 0 ELSE q[x]]
  BY <1>1, ViewIs
<1>3. QED BY <1>1, <1>2, ViewIs

\* Registers other than the one being loaded hold the same.
LEMMA AheadSame ==
  ASSUME NEW m, NEW n, Twins(m, n), NEW x \in 0 .. 36, x # m.regs[LoadReg]
  PROVE  n.regs[x] = m.regs[x]
  BY DEF Twins, Ahead, Ready, Regs

\* The next program counter of an instruction that does not jump is the same on both.
LEMMA SamePcAfter ==
  ASSUME NEW m, NEW n, Twins(m, n)
  PROVE  PcAfter(n) = PcAfter(m) /\ n.regs[NextPCReg] = m.regs[NextPCReg]
<1>1. NextPCReg \in 0 .. 36 /\ NextPCReg # m.regs[LoadReg]
  BY DEF Twins, Ready, Regs, Shape, GPRegs, NextPCReg
<1>2. QED BY Zenon, <1>1, AheadSame DEF PcAfter

\* Storing the same value in a register that is not on its way, on both.
LEMMA AheadStore ==
  ASSUME NEW r, NEW q, Ahead(r, q), NEW x \in 0 .. 33, x # r[LoadReg], NEW v
  PROVE  Ahead([r EXCEPT ![x] = v], [q EXCEPT ![x] = v])
<1> DEFINE s == [r EXCEPT ![x] = v]
           t == [q EXCEPT ![x] = v]
<1>1. Shape(s) /\ Shape(t)
  <2>1. Shape(r) /\ Shape(q) /\ x \in 0 .. 39 /\ x # LoadReg
    BY DEF Ahead, LoadReg
  <2>2. QED BY Zenon, <2>1, StoreKeepsShape
<1>2. /\ \A y \in 0 .. 39 : s[y] = IF y = x THEN v ELSE r[y]
      /\ \A y \in 0 .. 39 : t[y] = IF y = x THEN v ELSE q[y]
  BY Zenon DEF Ahead, Shape
<1> HIDE DEF s, t
<1>3. s[LoadReg] = r[LoadReg] /\ s[LoadValueReg] = r[LoadValueReg] /\ t[LoadReg] = 0
  BY <1>2 DEF Ahead, LoadReg, LoadValueReg
<1>4. \A y \in 1 .. 36 : t[y] = IF y = r[LoadReg] THEN r[LoadValueReg] ELSE s[y]
  BY <1>2 DEF Ahead
<1>5. QED BY <1>1, <1>3, <1>4 DEF Ahead, s, t

\* The end of OneInstruction, on both.
LEMMA AheadComplete ==
  ASSUME NEW m, NEW n, Machine(m), Machine(n), m.mem = n.mem, m.exc = n.exc,
         NEW r, NEW q, Ahead(r, q), NEW x \in GPRegs, NEW v, NEW w, x = 0 \/ v = w, NEW pc
  PROVE  Alike(Complete(m, r, x, v, pc), Complete(n, q, x, w, pc))
<1> DEFINE a == Complete(m, r, x, v, pc)
           b == Complete(n, q, x, w, pc)
<1>1. Shape(r) /\ Shape(q) /\ q[LoadReg] = 0
  BY Zenon DEF Ahead
<1>2. /\ Ends(m, a) /\ Registers(r, x, v, pc, a.regs)
      /\ Ends(n, b) /\ Registers(q, x, w, pc, b.regs)
  BY Zenon, <1>1, CompleteIs
<1> HIDE DEF a, b
<1>3. a.mem = b.mem /\ a.exc = b.exc /\ Shape(a.regs) /\ Shape(b.regs)
  BY Zenon, <1>2 DEF Ends, Regs
<1>4. \A y \in 1 .. 33 : a.regs[y] = b.regs[y]
  BY <1>1, <1>2 DEF Registers, Ahead
<1>5. a.regs[LoadReg] = x /\ b.regs[LoadReg] = x /\ a.regs[LoadValueReg] = v
      /\ b.regs[LoadValueReg] = w
  BY Zenon, <1>2 DEF Registers
<1>6. a.regs[35] = b.regs[35] /\ a.regs[34] = r[35] /\ b.regs[34] = q[35]
  BY Zenon, <1>2 DEF Registers, NextPCReg, PCReg
<1>7. r[35] = q[35]
  <2>1. 35 # r[LoadReg]
    BY <1>1 DEF Shape, GPRegs
  <2>2. QED BY <2>1 DEF Ahead
<1>8. \A y \in 1 .. 35 : a.regs[y] = b.regs[y]
  <2>1. \A y \in 1 .. 35 : y \in 1 .. 33 \/ y = 34 \/ y = 35
    BY ONLY SMT
  <2>2. QED BY Zenon, <1>4, <1>6, <1>7, <2>1
<1>9. View(a.regs) = View(b.regs)
  BY <1>3, <1>5, <1>8, ViewIs
<1>10. QED BY Zenon, <1>3, <1>9 DEF Alike, a, b

\* An instruction that writes a register at once, on both.
LEMMA SetsAlike ==
  ASSUME NEW m, NEW n, Twins(m, n), NEW x \in 0 .. 33, x # m.regs[LoadReg], NEW v
  PROVE  Alike(Sets(m, x, v), Sets(n, x, v))
<1> DEFINE r == [m.regs EXCEPT ![x] = v]
           q == [n.regs EXCEPT ![x] = v]
<1>1. Ahead(r, q)
  BY Zenon, AheadStore DEF Twins
<1> HIDE DEF r, q
<1>2. Machine(m) /\ Machine(n) /\ m.mem = n.mem /\ m.exc = n.exc
  BY Zenon DEF Twins, Ready
<1>3. Alike(Complete(m, r, 0, 0, PcAfter(m)), Complete(n, q, 0, 0, PcAfter(m)))
  BY Zenon, <1>1, <1>2, AheadComplete, RegisterZero
<1>4. QED BY Zenon, <1>3, SamePcAfter DEF Sets, r, q

\* An instruction that starts a delayed load, on both.
LEMMA LoadsAlike ==
  ASSUME NEW m, NEW n, Twins(m, n), NEW x \in GPRegs, NEW v, NEW w, x = 0 \/ v = w
  PROVE  Alike(Loads(m, x, v), Loads(n, x, w))
<1>1. Machine(m) /\ Machine(n) /\ m.mem = n.mem /\ m.exc = n.exc /\ Ahead(m.regs, n.regs)
  BY Zenon DEF Twins, Ready
<1>2. Alike(Complete(m, m.regs, x, v, PcAfter(m)), Complete(n, n.regs, x, w, PcAfter(m)))
  BY Zenon, <1>1, AheadComplete
<1>3. QED BY Zenon, <1>2, SamePcAfter DEF Loads

\* An instruction that writes only a program counter, hi, lo or R31, on both.
LEMMA JumpsAlike ==
  ASSUME NEW m, NEW n, Twins(m, n), NEW r, NEW q, Ahead(r, q), NEW target
  PROVE  Alike(Jumps(m, r, target), Jumps(n, q, target))
<1>1. Machine(m) /\ Machine(n) /\ m.mem = n.mem /\ m.exc = n.exc
  BY Zenon DEF Twins, Ready
<1>2. QED BY Zenon, <1>1, AheadComplete, RegisterZero DEF Jumps

\* Machine::RaiseException, on both.
LEMMA RaiseAlike ==
  ASSUME NEW m, NEW n, Twins(m, n), NEW which, NEW bad
  PROVE  Alike(RaiseException(m, which, bad), RaiseException(n, which, bad))
<1>1. Machine(m) /\ Machine(n) /\ Shape(m.regs) /\ Shape(n.regs) /\ m.mem = n.mem
      /\ Ahead(m.regs, n.regs)
  BY Zenon DEF Twins, Ready, Regs
<1>2. View(m.regs) = View(n.regs)
  BY Zenon, <1>1, AheadSees
<1> DEFINE a == RaiseException(m, which, bad)
           b == RaiseException(n, which, bad)
<1>3. Faulted(m, a) /\ Faulted(n, b) /\ a.exc = which /\ b.exc = which
  BY Zenon, <1>1, RaiseIs
<1> HIDE DEF a, b
<1>4. Alike(a, b)
  BY Zenon, <1>1, <1>2, <1>3 DEF Faulted, Alike
<1>5. QED BY Zenon, <1>4 DEF a, b

\* Machine::ReadMem faults on both, or reads the same on both.
LEMMA ReadAlike ==
  ASSUME NEW m, NEW n, Twins(m, n), NEW addr, NEW size
  PROVE  /\ ReadMem(m, addr, size).value = ReadMem(n, addr, size).value
         /\ \/ Alike(ReadMem(m, addr, size).m, ReadMem(n, addr, size).m)
                /\ ReadMem(m, addr, size).m.exc # "none"
            \/ Twins(ReadMem(m, addr, size).m, ReadMem(n, addr, size).m)
                /\ ReadMem(m, addr, size).m.exc = m.exc
<1> DEFINE t == Translate(m.table, addr, size, FALSE)
<1>0. m.table = n.table /\ m.mem = n.mem
  BY Zenon DEF Twins
<1>1. CASE t.exc # "none"
  <2>1. /\ ReadMem(m, addr, size) = [m |-> RaiseException(m, t.exc, addr), value |-> 0]
        /\ ReadMem(n, addr, size) = [m |-> RaiseException(n, t.exc, addr), value |-> 0]
    BY Zenon, <1>0, <1>1 DEF ReadMem
  <2>2. Machine(m) /\ Shape(m.regs)
    BY Zenon DEF Twins, Ready, Regs
  <2> HIDE DEF t
  <2>3. RaiseException(m, t.exc, addr).exc # "none"
    BY Zenon, <1>1, <2>2, RaiseIs
  <2>4. QED BY <2>1, <2>3, RaiseAlike
<1>2. CASE t.exc = "none"
  <2> DEFINE v == Bytes(m.mem, t.phys, size)
             a == [m EXCEPT !.table = t.table]
             b == [n EXCEPT !.table = t.table]
  <2>1. ReadMem(m, addr, size) = [m |-> a, value |-> v]
        /\ ReadMem(n, addr, size) = [m |-> b, value |-> v]
    BY Zenon, <1>0, <1>2 DEF ReadMem
  <2> HIDE DEF t, v
  <2>2. Twins(a, b) /\ a.exc = m.exc
    BY Zenon DEF Twins, Ready, Machine
  <2> HIDE DEF a, b
  <2>3. QED BY <2>1, <2>2
<1>3. QED BY Zenon, <1>1, <1>2

\* Machine::WriteMem faults on both, or stores the same on both.
LEMMA WriteAlike ==
  ASSUME NEW m, NEW n, Twins(m, n), NEW addr, NEW size, NEW value
  PROVE  Alike(WriteMem(m, addr, size, value), WriteMem(n, addr, size, value))
<1> DEFINE t == Translate(m.table, addr, size, TRUE)
           mem == Stored(m.mem, t.phys, size, value)
           v == [m EXCEPT !.table = t.table, !.mem = mem]
           w == [n EXCEPT !.table = t.table, !.mem = mem]
<1>0. m.table = n.table /\ m.mem = n.mem /\ PcAfter(n) = PcAfter(m)
  BY Zenon, SamePcAfter DEF Twins
<1>1. CASE t.exc # "none"
  <2>1. /\ WriteMem(m, addr, size, value) = RaiseException(m, t.exc, addr)
        /\ WriteMem(n, addr, size, value) = RaiseException(n, t.exc, addr)
    BY Zenon, <1>0, <1>1 DEF WriteMem
  <2> HIDE DEF t
  <2>2. QED BY Zenon, <2>1, RaiseAlike
<1>2. CASE t.exc = "none"
  <2>1. /\ WriteMem(m, addr, size, value) = Complete(v, m.regs, 0, 0, PcAfter(m))
        /\ WriteMem(n, addr, size, value) = Complete(w, n.regs, 0, 0, PcAfter(m))
    BY Zenon, <1>0, <1>2 DEF WriteMem
  <2> HIDE DEF t, mem
  <2>2. Machine(v) /\ Machine(w) /\ v.mem = w.mem /\ v.exc = w.exc
    BY Zenon DEF Twins, Ready, Machine
  <2>3. Ahead(m.regs, n.regs)
    BY Zenon DEF Twins
  <2> HIDE DEF v, w
  <2>4. QED BY Zenon, <2>1, <2>2, <2>3, AheadComplete, RegisterZero
<1>3. QED BY Zenon, <1>1, <1>2

\* The instruction keeps off the register of the load in progress.
Clear(m, i) == Decoded(i) /\ m.regs[LoadReg] \notin Uses(i)

\* The register fields it reads hold the same on both machines, and it writes none
\* that is on its way.
LEMMA SameOperands ==
  ASSUME NEW m, NEW n, Twins(m, n), NEW i, Clear(m, i)
  PROVE  /\ i.op \notin {"J", "JAL"} => n.regs[i.rs] = m.regs[i.rs]
         /\ i.op \notin {"J", "JAL", "LWL", "LWR"} =>
              n.regs[i.rt] = m.regs[i.rt] /\ i.rt # m.regs[LoadReg]
         /\ i.op \in SpecialTable \ {"RES", "UNIMP"} => i.rd # m.regs[LoadReg]
         /\ R31 # m.regs[LoadReg]
<1>1. i.op \notin {"J", "JAL"} => i.rs \in 0 .. 36 /\ i.rt \in 0 .. 36
  BY DEF Clear, Decoded, Operands, GPRegs
<1>2. /\ i.op \notin {"J", "JAL"} => i.rs # m.regs[LoadReg]
      /\ i.op \notin {"J", "JAL", "LWL", "LWR"} => i.rt # m.regs[LoadReg]
      /\ R31 # m.regs[LoadReg]
  BY Zenon DEF Clear, Uses
<1>3. i.op \in SpecialTable \ {"RES", "UNIMP"} => i.rd # m.regs[LoadReg]
  BY Zenon DEF Clear, Uses, Decoded, Operands, SpecialTable
<1>4. QED BY Zenon, <1>1, <1>2, <1>3, AheadSame

\* ADD, ADDI, ADDU, ADDIU, AND and ANDI, on both.
LEMMA AddAndAlike ==
  ASSUME NEW m, NEW n, Twins(m, n), NEW i, Clear(m, i),
         i.op \in {"ADD", "ADDI", "ADDIU", "ADDU", "AND", "ANDI"}
  PROVE  Alike(ExecAddAnd(m, i), ExecAddAnd(n, i))
<1> DEFINE to == IF i.op \in {"ADD", "ADDU", "AND"} THEN i.rd ELSE i.rt
<1>1. n.regs[i.rs] = m.regs[i.rs] /\ n.regs[i.rt] = m.regs[i.rt]
  BY SameOperands
<1>2. to \in 0 .. 33 /\ to # m.regs[LoadReg]
  BY Zenon, SameOperands, Fields DEF Clear, SpecialTable
<1> HIDE DEF to
<1>3. \/ /\ ExecAddAnd(m, i) = RaiseException(m, "Overflow", 0)
         /\ ExecAddAnd(n, i) = RaiseException(n, "Overflow", 0)
      \/ \E v : ExecAddAnd(m, i) = Sets(m, to, v) /\ ExecAddAnd(n, i) = Sets(n, to, v)
  BY Zenon, <1>1 DEF ExecAddAnd, to
<1>4. QED BY Zenon, <1>2, <1>3, SetsAlike, RaiseAlike

\* The conditional branches, on both.
LEMMA BranchAlike ==
  ASSUME NEW m, NEW n, Twins(m, n), NEW i, Clear(m, i), i.op \notin {"J", "JAL", "LWL", "LWR"}
  PROVE  Alike(ExecBranch(m, i), ExecBranch(n, i))
<1> DEFINE link == i.op \in {"BGEZAL", "BLTZAL"}
           r == IF link THEN [m.regs EXCEPT ![R31] = PcAfter(m)] ELSE m.regs
           q == IF link THEN [n.regs EXCEPT ![R31] = PcAfter(m)] ELSE n.regs
<1>1. PcAfter(n) = PcAfter(m) /\ n.regs[NextPCReg] = m.regs[NextPCReg]
  BY Zenon, SamePcAfter
<1>2. Ahead(r, q)
  <2>1. Ahead(m.regs, n.regs) /\ R31 \in 0 .. 33 /\ R31 # m.regs[LoadReg]
    BY SameOperands DEF Twins, R31
  <2>2. QED BY Zenon, <2>1, AheadStore
<1>3. r[i.rs] = q[i.rs] /\ r[i.rt] = q[i.rt]
  <2>1. /\ n.regs[i.rs] = m.regs[i.rs] /\ n.regs[i.rt] = m.regs[i.rt]
        /\ i.rs \in 0 .. 39 /\ i.rt \in 0 .. 39
    BY SameOperands DEF Clear, Decoded, Operands, GPRegs
  <2>2. DOMAIN m.regs = 0 .. 39 /\ DOMAIN n.regs = 0 .. 39
    BY Zenon DEF Twins, Ready, Regs, Shape
  <2>3. QED BY Zenon, <2>1, <2>2
<1> DEFINE a == [m EXCEPT !.regs = r]
           b == [n EXCEPT !.regs = q]
<1>4. a.regs = r /\ b.regs = q
  BY Zenon DEF Twins, Ready, Machine
<1>5. ExecBranch(m, i) = Jumps(m, r, IF Taken(a, i)
        THEN ToWord(m.regs[NextPCReg] + IndexToAddr(i.extra)) ELSE PcAfter(m))
  BY Zenon DEF ExecBranch
<1>6. ExecBranch(n, i) = Jumps(n, q, IF Taken(b, i)
        THEN ToWord(m.regs[NextPCReg] + IndexToAddr(i.extra)) ELSE PcAfter(m))
  BY Zenon, <1>1 DEF ExecBranch
<1> HIDE DEF r, q, a, b
<1>7. Taken(a, i) <=> Taken(b, i)
  BY Zenon, <1>3, <1>4 DEF Taken
<1>8. QED BY Zenon, <1>2, <1>5, <1>6, <1>7, JumpsAlike

\* Storing in hi and lo, on both.
LEMMA AheadHiLo ==
  ASSUME NEW m, NEW n, Twins(m, n), NEW v, NEW w
  PROVE  Ahead([m.regs EXCEPT ![HiReg] = v, ![LoReg] = w],
               [n.regs EXCEPT ![HiReg] = v, ![LoReg] = w])
<1> DEFINE r == [m.regs EXCEPT ![HiReg] = v]
           q == [n.regs EXCEPT ![HiReg] = v]
<1>1. Ahead(m.regs, n.regs) /\ Shape(m.regs) /\ Shape(n.regs)
  BY Zenon DEF Twins, Ahead
<1>2. m.regs[LoadReg] \notin {HiReg, LoReg} /\ r[LoadReg] = m.regs[LoadReg]
      /\ {HiReg, LoReg} \subseteq 0 .. 33
  BY <1>1 DEF Shape, GPRegs, HiReg, LoReg, LoadReg
<1>3. Ahead(r, q)
  BY Zenon, <1>1, <1>2, AheadStore
<1>4. /\ [m.regs EXCEPT ![HiReg] = v, ![LoReg] = w] = [r EXCEPT ![LoReg] = w]
      /\ [n.regs EXCEPT ![HiReg] = v, ![LoReg] = w] = [q EXCEPT ![LoReg] = w]
  OBVIOUS
<1> HIDE DEF r, q
<1>5. Ahead([r EXCEPT ![LoReg] = w], [q EXCEPT ![LoReg] = w])
  BY Zenon, <1>2, <1>3, AheadStore
<1>6. QED BY Zenon, <1>4, <1>5

\* MULT, DIV and the moves to hi and lo end alike.
LEMMA HiLoJumpsAlike ==
  ASSUME NEW m, NEW n, Twins(m, n), NEW v, NEW w
  PROVE  Alike(Jumps(m, [m.regs EXCEPT ![HiReg] = v, ![LoReg] = w], PcAfter(m)),
               Jumps(n, [n.regs EXCEPT ![HiReg] = v, ![LoReg] = w], PcAfter(m)))
<1> DEFINE r == [m.regs EXCEPT ![HiReg] = v, ![LoReg] = w]
           q == [n.regs EXCEPT ![HiReg] = v, ![LoReg] = w]
<1>1. Ahead(r, q)
  BY Zenon, AheadHiLo
<1> HIDE DEF r, q
<1>2. Alike(Jumps(m, r, PcAfter(m)), Jumps(n, q, PcAfter(m)))
  BY Zenon, <1>1, JumpsAlike
<1>3. QED BY Zenon, <1>2 DEF r, q

\* DIV and DIVU, on both.
LEMMA DivideAlike ==
  ASSUME NEW m, NEW n, Twins(m, n), NEW i, Clear(m, i), i.op \in {"DIV", "DIVU"}
  PROVE  Alike(ExecDivide(m, i), ExecDivide(n, i))
<1>1. /\ n.regs[i.rs] = m.regs[i.rs] /\ n.regs[i.rt] = m.regs[i.rt] /\ PcAfter(n) = PcAfter(m)
  BY SameOperands, SamePcAfter
<1>2. \/ /\ ExecDivide(m, i) = [m EXCEPT !.exc = "HostTrap"]
         /\ ExecDivide(n, i) = [n EXCEPT !.exc = "HostTrap"]
      \/ \E v, w :
           /\ ExecDivide(m, i) = Jumps(m, [m.regs EXCEPT ![HiReg] = v, ![LoReg] = w], PcAfter(m))
           /\ ExecDivide(n, i) = Jumps(n, [n.regs EXCEPT ![HiReg] = v, ![LoReg] = w], PcAfter(m))
  BY Zenon, <1>1 DEF ExecDivide
<1>3. View(m.regs) = View(n.regs)
  BY Zenon, AheadSees DEF Twins
<1>4. Alike([m EXCEPT !.exc = "HostTrap"], [n EXCEPT !.exc = "HostTrap"])
  BY Zenon, <1>3 DEF Twins, Ready, Machine, Alike
<1>5. ASSUME NEW v, NEW w,
             ExecDivide(m, i) = Jumps(m, [m.regs EXCEPT ![HiReg] = v, ![LoReg] = w], PcAfter(m)),
             ExecDivide(n, i) = Jumps(n, [n.regs EXCEPT ![HiReg] = v, ![LoReg] = w], PcAfter(m))
      PROVE  Alike(ExecDivide(m, i), ExecDivide(n, i))
  <2>1. Alike(Jumps(m, [m.regs EXCEPT ![HiReg] = v, ![LoReg] = w], PcAfter(m)),
              Jumps(n, [n.regs EXCEPT ![HiReg] = v, ![LoReg] = w], PcAfter(m)))
    BY Zenon, HiLoJumpsAlike
  <2>2. QED BY Zenon, <1>5, <2>1
<1>6. QED BY Zenon, <1>2, <1>4, <1>5

\* J, JAL, JALR and JR, on both.
LEMMA JumpAlike ==
  ASSUME NEW m, NEW n, Twins(m, n), NEW i, Clear(m, i), i.op \in {"JAL", "J", "JALR", "JR"}
  PROVE  Alike(ExecJump(m, i), ExecJump(n, i))
<1> DEFINE link == CASE i.op = "JAL" -> {R31} [] i.op = "JALR" -> {i.rd} [] OTHER -> {}
           r == [x \in DOMAIN m.regs |-> IF x \in link THEN PcAfter(m) ELSE m.regs[x]]
           q == [x \in DOMAIN n.regs |-> IF x \in link THEN PcAfter(m) ELSE n.regs[x]]
           target == Region * (PcAfter(m) \div Region) + IndexToAddr(i.extra)
<1>1. PcAfter(n) = PcAfter(m)
  BY Zenon, SamePcAfter
<1>2. /\ ExecJump(m, i) = Jumps(m, r, IF i.op \in {"J", "JAL"} THEN target ELSE r[i.rs])
      /\ ExecJump(n, i) = Jumps(n, q, IF i.op \in {"J", "JAL"} THEN target ELSE q[i.rs])
  BY <1>1 DEF ExecJump
<1>3. link \subseteq GPRegs /\ m.regs[LoadReg] \notin link
  BY SameOperands, Fields DEF Clear, SpecialTable, R31, GPRegs
<1>4. /\ DOMAIN m.regs = 0 .. 39 /\ DOMAIN n.regs = 0 .. 39 /\ Ahead(m.regs, n.regs)
  BY Zenon DEF Twins, Ready, Regs, Shape
<1>5. i.op \notin {"J", "JAL"} => n.regs[i.rs] = m.regs[i.rs] /\ i.rs \in 0 .. 39
  BY SameOperands, Fields DEF Clear, GPRegs
<1> HIDE DEF link, target
<1>6. /\ \A x \in 0 .. 39 : r[x] = IF x \in link THEN PcAfter(m) ELSE m.regs[x]
      /\ \A x \in 0 .. 39 : q[x] = IF x \in link THEN PcAfter(m) ELSE n.regs[x]
      /\ r = [x \in 0 .. 39 |-> r[x]] /\ q = [x \in 0 .. 39 |-> q[x]]
  BY Zenon, <1>4
<1> HIDE DEF r, q
<1>7. r[LoadReg] = m.regs[LoadReg] /\ r[LoadValueReg] = m.regs[LoadValueReg]
      /\ q[LoadReg] = n.regs[LoadReg]
  BY <1>3, <1>6 DEF LoadReg, LoadValueReg, GPRegs
<1>8. ASSUME NEW x \in 1 .. 36
      PROVE  q[x] = IF x = r[LoadReg] THEN r[LoadValueReg] ELSE r[x]
  <2>1. x \in 0 .. 39
    OBVIOUS
  <2>2. n.regs[x] = IF x = m.regs[LoadReg] THEN m.regs[LoadValueReg] ELSE m.regs[x]
    BY Zenon, <1>4 DEF Ahead
  <2>3. /\ r[x] = IF x \in link THEN PcAfter(m) ELSE m.regs[x]
        /\ q[x] = IF x \in link THEN PcAfter(m) ELSE n.regs[x]
    BY Zenon, <1>6, <2>1
  <2>4. CASE x \in link
    BY Zenon, <1>3, <1>7, <2>3, <2>4
  <2>5. CASE x \notin link
    BY Zenon, <1>7, <2>2, <2>3, <2>5
  <2>6. QED BY Zenon, <2>4, <2>5
<1>9. Ahead(r, q)
  BY Zenon, <1>4, <1>6, <1>7, <1>8 DEF Ahead, Shape
<1>10. i.op \notin {"J", "JAL"} => q[i.rs] = r[i.rs]
  BY Zenon, <1>5, <1>6
<1>11. QED BY Zenon, <1>2, <1>9, <1>10, JumpsAlike

\* A load faults on both or delays the same value on both.
LEMMA LoadedAlike ==
  ASSUME NEW m, NEW n, Twins(m, n), NEW addr, NEW size,
         NEW x \in GPRegs, NEW v, NEW w, x = 0 \/ v = w
  PROVE  Alike(Loaded(m, addr, size, x, v), Loaded(n, addr, size, x, w))
<1> DEFINE c == ReadMem(m, addr, size).m
           d == ReadMem(n, addr, size).m
<1>1. (Alike(c, d) /\ c.exc # "none") \/ Twins(c, d)
  BY Zenon, ReadAlike
<1> HIDE DEF c, d
<1>2. Loaded(m, addr, size, x, v) = (IF c.exc # "none" THEN c ELSE Loads(c, x, v))
      /\ Loaded(n, addr, size, x, w) = (IF d.exc # "none" THEN d ELSE Loads(d, x, w))
  BY Zenon DEF Loaded, c, d
<1>3. CASE Alike(c, d) /\ c.exc # "none"
  BY Zenon, <1>2, <1>3 DEF Alike
<1>4. CASE Twins(c, d)
  <2>1. c.exc = d.exc /\ Alike(c, d)
    BY Zenon, <1>4, AheadSees DEF Twins, Alike
  <2>2. QED BY Zenon, <1>2, <1>4, <2>1, LoadsAlike
<1>5. QED BY Zenon, <1>1, <1>3, <1>4

\* LB, LBU, LH, LHU, LUI and LW, on both.
LEMMA LoadAlike ==
  ASSUME NEW m, NEW n, Twins(m, n), NEW i, Clear(m, i),
         i.op \in {"LB", "LBU", "LH", "LHU", "LUI", "LW"}
  PROVE  Alike(ExecLoad(m, i), ExecLoad(n, i))
<1> DEFINE tmp == ToWord(m.regs[i.rs] + i.extra)
           size == CASE i.op \in {"LB", "LBU"} -> 1 [] i.op \in {"LH", "LHU"} -> 2 [] OTHER -> 4
           v == ReadMem(m, tmp, size).value
           value == CASE i.op = "LB" -> SignExtend(v, Byte)
                      [] i.op = "LH" -> SignExtend(v, Half)
                      [] OTHER -> v
<1>1. n.regs[i.rs] = m.regs[i.rs] /\ i.rt # m.regs[LoadReg] /\ i.rt \in GPRegs
      /\ i.rt \in 0 .. 33
  BY SameOperands, Fields DEF Clear
<1>2. ReadMem(n, tmp, size).value = v
  BY ReadAlike
<1>3. CASE i.op = "LUI"
  <2>1. \E w : ExecLoad(m, i) = Sets(m, i.rt, w) /\ ExecLoad(n, i) = Sets(n, i.rt, w)
    BY Zenon, <1>3 DEF ExecLoad
  <2>2. QED BY Zenon, <1>1, <2>1, SetsAlike
<1>4. CASE i.op # "LUI" /\ tmp % size # 0
  <2>1. /\ ExecLoad(m, i) = RaiseException(m, "AddressError", tmp)
        /\ ExecLoad(n, i) = RaiseException(n, "AddressError", tmp)
    BY Zenon, <1>1, <1>4 DEF ExecLoad
  <2>2. QED BY Zenon, <2>1, RaiseAlike
<1>5. CASE i.op # "LUI" /\ tmp % size = 0
  <2>1. ExecLoad(m, i) = Loaded(m, tmp, size, i.rt, value)
    BY Zenon, <1>5 DEF ExecLoad, Loaded
  <2>2. ExecLoad(n, i) = Loaded(n, tmp, size, i.rt, value)
    BY Zenon, <1>1, <1>2, <1>5 DEF ExecLoad, Loaded
  <2> HIDE DEF tmp, size, value
  <2>3. QED BY Zenon, <1>1, <2>1, <2>2, LoadedAlike
<1>6. QED BY Zenon, <1>3, <1>4, <1>5

\* LWL and LWR merge with the register or with the load in progress, which is the same.
LEMMA SameInProgress ==
  ASSUME NEW m, NEW n, Twins(m, n), NEW x \in GPRegs, x # 0
  PROVE  InProgress(n, x) = InProgress(m, x)
<1>1. /\ n.regs[LoadReg] = 0 /\ x \in 1 .. 36
      /\ n.regs[x] = IF x = m.regs[LoadReg] THEN m.regs[LoadValueReg] ELSE m.regs[x]
  BY DEF Twins, Ahead, GPRegs
<1>2. QED BY Zenon, <1>1 DEF InProgress

\* LWL and LWR, on both.
LEMMA LoadUnalignedAlike ==
  ASSUME NEW m, NEW n, Twins(m, n), NEW i, Clear(m, i), i.op \in {"LWL", "LWR"}
  PROVE  Alike(ExecLoadUnaligned(m, i), ExecLoadUnaligned(n, i))
<1> DEFINE tmp == ToWord(m.regs[i.rs] + i.extra)
           addr == tmp - (tmp % 4)
           byte == Lane(tmp)
           read == ReadMem(m, addr, 4).value
           Merged(old) == IF i.op = "LWL"
                            THEN (old % Byte ^ (3 - byte)) + Left(read, ByteBits * (3 - byte))
                            ELSE Byte ^ (4 - byte) * (old \div Byte ^ (4 - byte)) + read \div Byte ^ byte
<1>1. n.regs[i.rs] = m.regs[i.rs] /\ i.rt \in GPRegs
  BY SameOperands, Fields DEF Clear
<1>2. ReadMem(n, addr, 4).value = read
  BY ReadAlike
<1> DEFINE v == Merged(InProgress(m, i.rt))
           w == Merged(InProgress(n, i.rt))
<1>3. ExecLoadUnaligned(m, i) = Loaded(m, addr, 4, i.rt, v)
  BY Zenon DEF ExecLoadUnaligned, Loaded
<1>4. ExecLoadUnaligned(n, i) = Loaded(n, addr, 4, i.rt, w)
  BY Zenon, <1>1, <1>2 DEF ExecLoadUnaligned, Loaded
<1>5. i.rt = 0 \/ v = w
  BY Zenon, <1>1, SameInProgress
<1> HIDE DEF v, w, addr
<1>6. QED BY Zenon, <1>1, <1>3, <1>4, <1>5, LoadedAlike

\* MFHI, MFLO, MTHI, MTLO, MULT and MULTU, on both.
LEMMA HiLoAlike ==
  ASSUME NEW m, NEW n, Twins(m, n), NEW i, Clear(m, i),
         i.op \in {"MFHI", "MFLO", "MTHI", "MTLO", "MULT", "MULTU"}
  PROVE  Alike(ExecHiLo(m, i), ExecHiLo(n, i))
<1>1. /\ n.regs[i.rs] = m.regs[i.rs] /\ n.regs[i.rt] = m.regs[i.rt] /\ PcAfter(n) = PcAfter(m)
      /\ i.rd # m.regs[LoadReg] /\ i.rd \in 0 .. 33
  BY SameOperands, SamePcAfter, Fields DEF Clear, SpecialTable
<1>2. /\ {HiReg, LoReg} \subseteq 0 .. 33 /\ m.regs[LoadReg] \notin {HiReg, LoReg}
  BY DEF HiReg, LoReg, Twins, Ready, Regs, Shape, GPRegs
<1>3. n.regs[HiReg] = m.regs[HiReg] /\ n.regs[LoReg] = m.regs[LoReg]
  BY <1>2, AheadSame
<1>4. CASE i.op \in {"MULT", "MULTU"}
  <2> DEFINE p == Mult(m.regs[i.rs], m.regs[i.rt], i.op = "MULT")
  <2>1. /\ ExecHiLo(m, i)
             = Jumps(m, [m.regs EXCEPT ![HiReg] = p.hi, ![LoReg] = p.lo], PcAfter(m))
        /\ ExecHiLo(n, i)
             = Jumps(n, [n.regs EXCEPT ![HiReg] = p.hi, ![LoReg] = p.lo], PcAfter(m))
    BY Zenon, <1>1, <1>4 DEF ExecHiLo
  <2>2. Alike(Jumps(m, [m.regs EXCEPT ![HiReg] = p.hi, ![LoReg] = p.lo], PcAfter(m)),
              Jumps(n, [n.regs EXCEPT ![HiReg] = p.hi, ![LoReg] = p.lo], PcAfter(m)))
    BY Zenon, HiLoJumpsAlike
  <2>3. QED BY Zenon, <2>1, <2>2
<1>5. CASE i.op \in {"MFHI", "MFLO", "MTHI", "MTLO"}
  <2>1. \E x \in {i.rd, HiReg, LoReg} : \E v :
          ExecHiLo(m, i) = Sets(m, x, v) /\ ExecHiLo(n, i) = Sets(n, x, v)
    BY Zenon, <1>1, <1>3, <1>5 DEF ExecHiLo
  <2>2. QED BY <1>1, <1>2, <2>1, SetsAlike
<1>6. QED BY Zenon, <1>4, <1>5

\* NOR, OR, ORI, SB and SH, on both.
LEMMA OrStoreAlike ==
  ASSUME NEW m, NEW n, Twins(m, n), NEW i, Clear(m, i), i.op \in {"NOR", "OR", "ORI", "SB", "SH"}
  PROVE  Alike(ExecOrStore(m, i), ExecOrStore(n, i))
<1> DEFINE to == IF i.op = "ORI" THEN i.rt ELSE i.rd
<1>1. n.regs[i.rs] = m.regs[i.rs] /\ n.regs[i.rt] = m.regs[i.rt]
  BY SameOperands
<1>2. CASE i.op \in {"NOR", "OR", "ORI"}
  <2>1. to \in 0 .. 33 /\ to # m.regs[LoadReg]
    BY Zenon, <1>2, SameOperands, Fields DEF Clear, SpecialTable
  <2>2. \E v : ExecOrStore(m, i) = Sets(m, to, v) /\ ExecOrStore(n, i) = Sets(n, to, v)
    BY Zenon, <1>1, <1>2 DEF ExecOrStore
  <2> HIDE DEF to
  <2>3. QED BY Zenon, <2>1, <2>2, SetsAlike
<1>3. CASE i.op \in {"SB", "SH"}
  <2>1. \E addr, size, v : /\ ExecOrStore(m, i) = WriteMem(m, addr, size, v)
                           /\ ExecOrStore(n, i) = WriteMem(n, addr, size, v)
    BY Zenon, <1>1, <1>3 DEF ExecOrStore
  <2>2. QED BY Zenon, <2>1, WriteAlike
<1>4. QED BY Zenon, <1>2, <1>3

\* The shifts and the comparisons, on both.
LEMMA ShiftCompareAlike ==
  ASSUME NEW m, NEW n, Twins(m, n), NEW i, Clear(m, i),
         i.op \in {"SLL", "SLLV", "SLT", "SLTI", "SLTIU", "SLTU", "SRA", "SRAV", "SRL", "SRLV"}
  PROVE  Alike(ExecShiftCompare(m, i), ExecShiftCompare(n, i))
<1> DEFINE to == IF i.op \in {"SLTI", "SLTIU"} THEN i.rt ELSE i.rd
<1>1. n.regs[i.rs] = m.regs[i.rs] /\ n.regs[i.rt] = m.regs[i.rt]
  BY SameOperands
<1>2. to \in 0 .. 33 /\ to # m.regs[LoadReg]
  BY Zenon, SameOperands, Fields DEF Clear, SpecialTable
<1>3. \E v : ExecShiftCompare(m, i) = Sets(m, to, v) /\ ExecShiftCompare(n, i) = Sets(n, to, v)
  BY Zenon, <1>1 DEF ExecShiftCompare
<1> HIDE DEF to
<1>4. QED BY Zenon, <1>2, <1>3, SetsAlike

\* SUB, SUBU and SW, on both.
LEMMA SubStoreAlike ==
  ASSUME NEW m, NEW n, Twins(m, n), NEW i, Clear(m, i), i.op \in {"SUB", "SUBU", "SW"}
  PROVE  Alike(ExecSubStore(m, i), ExecSubStore(n, i))
<1>1. n.regs[i.rs] = m.regs[i.rs] /\ n.regs[i.rt] = m.regs[i.rt]
  BY SameOperands
<1>2. i.op # "SW" => i.rd \in 0 .. 33 /\ i.rd # m.regs[LoadReg]
  BY Zenon, SameOperands, Fields DEF Clear, SpecialTable
<1>3. \/ \E addr, v : /\ ExecSubStore(m, i) = WriteMem(m, addr, 4, v)
                      /\ ExecSubStore(n, i) = WriteMem(n, addr, 4, v)
      \/ /\ ExecSubStore(m, i) = RaiseException(m, "Overflow", 0)
         /\ ExecSubStore(n, i) = RaiseException(n, "Overflow", 0)
      \/ i.op # "SW" /\ \E v : /\ ExecSubStore(m, i) = Sets(m, i.rd, v)
                               /\ ExecSubStore(n, i) = Sets(n, i.rd, v)
  BY Zenon, <1>1 DEF ExecSubStore
<1>4. QED BY Zenon, <1>2, <1>3, SetsAlike, RaiseAlike, WriteAlike

\* SWL and SWR, on both.
LEMMA StoreUnalignedAlike ==
  ASSUME NEW m, NEW n, Twins(m, n), NEW i, Clear(m, i), i.op \in {"SWL", "SWR"}
  PROVE  Alike(ExecStoreUnaligned(m, i), ExecStoreUnaligned(n, i))
<1> DEFINE tmp == ToWord(m.regs[i.rs] + i.extra)
           addr == tmp - (tmp % 4)
           c == ReadMem(m, addr, 4).m
           d == ReadMem(n, addr, 4).m
<1>1. n.regs[i.rs] = m.regs[i.rs] /\ n.regs[i.rt] = m.regs[i.rt]
  BY SameOperands
<1>2. ReadMem(n, addr, 4).value = ReadMem(m, addr, 4).value
  BY ReadAlike
<1>3. PICK v : /\ ExecStoreUnaligned(m, i) = IF c.exc # "none" THEN c ELSE WriteMem(c, addr, 4, v)
               /\ ExecStoreUnaligned(n, i) = IF d.exc # "none" THEN d ELSE WriteMem(d, addr, 4, v)
  BY Zenon, <1>1, <1>2 DEF ExecStoreUnaligned
<1>4. (Alike(c, d) /\ c.exc # "none") \/ Twins(c, d)
  BY Zenon, ReadAlike
<1> HIDE DEF c, d, addr
<1>5. CASE Alike(c, d) /\ c.exc # "none"
  BY Zenon, <1>3, <1>5 DEF Alike
<1>6. CASE Twins(c, d)
  <2>1. c.exc = d.exc /\ Alike(c, d)
    BY Zenon, <1>6, AheadSees DEF Twins, Alike
  <2>2. QED BY Zenon, <1>3, <1>6, <2>1, WriteAlike
<1>7. QED BY Zenon, <1>4, <1>5, <1>6

\* SYSCALL, XOR, XORI and the illegal operations, on both.
LEMMA RestAlike ==
  ASSUME NEW m, NEW n, Twins(m, n), NEW i, Clear(m, i),
         i.op \in {"SYSCALL", "XOR", "XORI", "RES", "UNIMP"}
  PROVE  Alike(ExecRest(m, i), ExecRest(n, i))
<1> DEFINE to == IF i.op = "XORI" THEN i.rt ELSE i.rd
<1>1. CASE i.op \in {"XOR", "XORI"}
  <2>1. n.regs[i.rs] = m.regs[i.rs] /\ n.regs[i.rt] = m.regs[i.rt]
    BY <1>1, SameOperands
  <2>2. to \in 0 .. 33 /\ to # m.regs[LoadReg]
    BY Zenon, <1>1, SameOperands, Fields DEF Clear, SpecialTable
  <2>3. \E v : ExecRest(m, i) = Sets(m, to, v) /\ ExecRest(n, i) = Sets(n, to, v)
    BY Zenon, <1>1, <2>1 DEF ExecRest
  <2> HIDE DEF to
  <2>4. QED BY Zenon, <2>2, <2>3, SetsAlike
<1>2. CASE i.op \in {"SYSCALL", "RES", "UNIMP"}
  <2>1. \E which : /\ ExecRest(m, i) = RaiseException(m, which, 0)
                   /\ ExecRest(n, i) = RaiseException(n, which, 0)
    BY Zenon, <1>2 DEF ExecRest
  <2>2. QED BY Zenon, <2>1, RaiseAlike
<1>3. QED BY Zenon, <1>1, <1>2

\* OneInstruction, on a machine with a load in progress and on one that completed it.
LEMMA ExecAlike ==
  ASSUME NEW m, NEW n, Twins(m, n), NEW i, Clear(m, i)
  PROVE  Alike(Exec(m, i), Exec(n, i))
<1>1. CASE i.op \in {"ADD", "ADDI", "ADDIU", "ADDU", "AND", "ANDI"}
  BY Zenon, <1>1, AddAndAlike DEF Exec
<1>2. CASE i.op \in {"BEQ", "BGEZAL", "BGEZ", "BGTZ", "BLEZ", "BLTZAL", "BLTZ", "BNE"}
  BY Zenon, <1>2, BranchAlike DEF Exec
<1>3. CASE i.op \in {"DIV", "DIVU"}
  BY Zenon, <1>3, DivideAlike DEF Exec
<1>4. CASE i.op \in {"JAL", "J", "JALR", "JR"}
  BY Zenon, <1>4, JumpAlike DEF Exec
<1>5. CASE i.op \in {"LB", "LBU", "LH", "LHU", "LUI", "LW"}
  BY Zenon, <1>5, LoadAlike DEF Exec
<1>6. CASE i.op \in {"LWL", "LWR"}
  BY Zenon, <1>6, LoadUnalignedAlike DEF Exec
<1>7. CASE i.op \in {"MFHI", "MFLO", "MTHI", "MTLO", "MULT", "MULTU"}
  BY Zenon, <1>7, HiLoAlike DEF Exec
<1>8. CASE i.op \in {"NOR", "OR", "ORI", "SB", "SH"}
  BY Zenon, <1>8, OrStoreAlike DEF Exec
<1>9. CASE i.op \in {"SLL", "SLLV", "SLT", "SLTI", "SLTIU", "SLTU", "SRA", "SRAV", "SRL", "SRLV"}
  BY Zenon, <1>9, ShiftCompareAlike DEF Exec
<1>10. CASE i.op \in {"SUB", "SUBU", "SW"}
  BY Zenon, <1>10, SubStoreAlike DEF Exec
<1>11. CASE i.op \in {"SWL", "SWR"}
  BY Zenon, <1>11, StoreUnalignedAlike DEF Exec
<1>12. CASE i.op \in {"SYSCALL", "XOR", "XORI", "RES", "UNIMP"}
  BY Zenon, <1>12, RestAlike DEF Exec
<1>13. QED BY Zenon, <1>1, <1>2, <1>3, <1>4, <1>5, <1>6, <1>7, <1>8, <1>9, <1>10, <1>11, <1>12
           DEF Clear, Decoded, SpecialTable, OpTable

\* CheckIfDue may complete a delayed load before any instruction: whatever the program,
\* one that keeps off the register being loaded ends with the same registers, memory and
\* exception as without the interrupt.
THEOREM InterruptsInvisibleCorrect == Spec => []InterruptsInvisible
<1>1. Inv => InterruptsInvisible
  <2> SUFFICES ASSUME Inv, Executing, registers[LoadReg] \notin Uses(Current(Now))
               PROVE  LET early == [Now EXCEPT !.regs = DelayedLoad(registers, 0, 0)]
                          a == Exec(Now, Current(Now))
                          b == Exec(early, Current(Now))
                      IN View(a.regs) = View(b.regs) /\ a.mem = b.mem /\ a.exc = b.exc
    BY Zenon DEF InterruptsInvisible
  <2> DEFINE early == [Now EXCEPT !.regs = DelayedLoad(registers, 0, 0)]
             i == Current(Now)
  <2>1. Ready(Now) /\ Now.regs = registers /\ Now.table = pageTable
    BY Zenon DEF Now, Inv, Ready, Machine
  <2>2. Decoded(i)
    <3>1. Translate(pageTable, registers[PCReg], 4, FALSE).exc = "none"
      <4> DEFINE t == Translate(pageTable, registers[PCReg], 4, FALSE)
      <4>1. SUFFICES ASSUME t.exc # "none" PROVE FALSE
        BY Zenon
      <4>2. Fetched(Now) = RaiseException(Now, t.exc, registers[PCReg])
        BY Zenon, <2>1, <4>1 DEF Fetched
      <4>3. Machine(Now) /\ Shape(Now.regs)
        BY Zenon, <2>1 DEF Ready, Regs
      <4> HIDE DEF t
      <4>4. Fetched(Now).exc # "none"
        BY <4>1, <4>2, <4>3, RaiseIs
      <4>5. QED BY Zenon, <4>4 DEF Executing
    <3>2. registers[PCReg] \div 4 + 1 \in DOMAIN program
      BY Zenon, <3>1, FetchAligned DEF Executing, InProgram
    <3>3. QED BY Zenon, <2>1, <3>2, DecodeIs, ProgramsAssumption DEF Current, Inv
  <2>3. Regs(DelayedLoad(registers, 0, 0)) /\ Ahead(registers, DelayedLoad(registers, 0, 0))
    <3>1. Shape(registers)
      BY Zenon DEF Inv, Regs
    <3> DEFINE d == DelayedLoad(registers, 0, 0)
    <3>2. /\ Regs(d) /\ d[LoadReg] = 0
          /\ \A x \in 1 .. 39 : x \notin {LoadReg, LoadValueReg} =>
               d[x] = IF x = registers[LoadReg] THEN registers[LoadValueReg] ELSE registers[x]
      BY <3>1, DelayedLoadIs, RegisterZero
    <3> HIDE DEF d
    <3>3. Ahead(registers, d)
      BY <3>1, <3>2 DEF Ahead, Regs, LoadReg, LoadValueReg
    <3>4. QED BY Zenon, <3>2, <3>3 DEF d
  <2>4. Twins(Now, early)
    BY Zenon, <2>1, <2>3 DEF Twins, Ready, Machine
  <2>5. Clear(Now, i)
    BY Zenon, <2>1, <2>2 DEF Clear
  <2> HIDE DEF early, i
  <2>6. Alike(Exec(Now, i), Exec(early, i))
    BY Zenon, <2>4, <2>5, ExecAlike
  <2>7. QED BY Zenon, <2>6 DEF Alike, early, i
<1>2. QED BY <1>1, InvInit, InvNext, PTL DEF Spec
==============================================================================
