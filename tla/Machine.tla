------------------------------- MODULE Machine -------------------------------
(***************************************************************************)
(* The simulated CPU: machine/mipssim.cc (decoding and execution of one    *)
(* instruction, delayed loads, multiplication), translate.cc (page table,  *)
(* memory access) and machine.cc (exceptions), with what the kernel's      *)
(* ExceptionHandler does to the registers.  An instruction word is the     *)
(* record of its bit fields; the program is arbitrary: each step executes  *)
(* any word of Instr that the address translation lets the CPU fetch.      *)
(***************************************************************************)
EXTENDS MipsWord, Sequences

CONSTANTS
    GPR,            \* the general registers in use, with 0 and 31
    Instr,          \* instruction words
    PageSize, NumPhysPages, pageTableSize,
    InitialTable,   \* page tables the kernel may have set up
    InitialWord,    \* values of registers at the start, results of system calls
    MaxTicks        \* instructions executed at most (a bound of the model)

VARIABLES
    registers, HiReg, LoReg, PC, NextPC, LoadReg, LoadValueReg, BadVAddr,
    mainMemory, pageTable,
    ir,             \* the last instruction word fetched
    exception,      \* what it raised, "NoException" otherwise
    aborted,        \* an ASSERT failed, Halt or Exit: nothing comes back
    ticks

cpu == <<registers, HiReg, LoReg, PC, NextPC, LoadReg, LoadValueReg, BadVAddr>>

vars == <<cpu, mainMemory, pageTable, ir, exception, aborted, ticks>>

MemorySize == NumPhysPages * PageSize

Nop == [op |-> 0, rs |-> 0, rt |-> 0, rd |-> 0, shamt |-> 0, funct |-> 0,
        imm |-> 0, target |-> 0]

(* The byte the kernel has loaded at a physical address. *)
Loaded(a) == (a + (a \div PageSize) + 1) % 2^ByteBits

MachineInit ==
    /\ \E v \in [GPR \ {0, 31} -> InitialWord] :
          registers = [r \in GPR |-> IF r \in {0, 31} THEN 0 ELSE v[r]]
    /\ HiReg = 0 /\ LoReg = 0 /\ LoadReg = 0 /\ LoadValueReg = 0
    /\ BadVAddr = 0
    /\ PC = 0 /\ NextPC = 4
    /\ mainMemory = [a \in 0..(MemorySize - 1) |-> Loaded(a)]
    /\ pageTable \in InitialTable
    /\ ir = Nop /\ exception = "NoException" /\ aborted = FALSE /\ ticks = 0

-----------------------------------------------------------------------------
(* Decoding. *)
opTable ==
    <<"SPECIAL", "BCOND", "J", "JAL", "BEQ", "BNE", "BLEZ", "BGTZ",
      "ADDI", "ADDIU", "SLTI", "SLTIU", "ANDI", "ORI", "XORI", "LUI",
      "UNIMP", "UNIMP", "UNIMP", "UNIMP", "RES", "RES", "RES", "RES",
      "RES", "RES", "RES", "RES", "RES", "RES", "RES", "RES",
      "LB", "LH", "LWL", "LW", "LBU", "LHU", "LWR", "RES",
      "SB", "SH", "SWL", "SW", "RES", "RES", "SWR", "RES",
      "UNIMP", "UNIMP", "UNIMP", "UNIMP", "RES", "RES", "RES", "RES",
      "UNIMP", "UNIMP", "UNIMP", "UNIMP", "RES", "RES", "RES", "RES">>

specialTable ==
    <<"SLL", "RES", "SRL", "SRA", "SLLV", "RES", "SRLV", "SRAV",
      "JR", "JALR", "RES", "RES", "SYSCALL", "UNIMP", "RES", "RES",
      "MFHI", "MTHI", "MFLO", "MTLO", "RES", "RES", "RES", "RES",
      "MULT", "MULTU", "DIV", "DIVU", "RES", "RES", "RES", "RES",
      "ADD", "ADDU", "SUB", "SUBU", "AND", "OR", "XOR", "NOR",
      "RES", "RES", "SLT", "SLTU", "RES", "RES", "RES", "RES",
      "RES", "RES", "RES", "RES", "RES", "RES", "RES", "RES",
      "RES", "RES", "RES", "RES", "RES", "RES", "RES", "RES">>

BranchCode(rt) ==
    CASE rt = 0 -> "BLTZ" [] rt = 1 -> "BGEZ"
      [] rt = 16 -> "BLTZAL" [] rt = 17 -> "BGEZAL" [] OTHER -> "UNIMP"

Decode(value) ==
    LET major == opTable[value.op + 1]
    IN  [opCode |-> CASE major = "SPECIAL" -> specialTable[value.funct + 1]
                      [] major = "BCOND" -> BranchCode(value.rt)
                      [] OTHER -> major,
         rs |-> value.rs, rt |-> value.rt, rd |-> value.rd,
         extra |-> CASE major = "SPECIAL" -> value.shamt
                     [] major \in {"J", "JAL"} -> value.target
                     [] OTHER -> SignExtend(value.imm, HalfBits)]

-----------------------------------------------------------------------------
(* Address translation.  Translate gives the exception or the address. *)
Translate(table, virtAddr, size, writing) ==
    LET vpn == virtAddr \div PageSize
        failed(which) == [exception |-> which, physAddr |-> 0]
    IN  CASE virtAddr % size # 0 -> failed("AddressErrorException")
          [] virtAddr % size = 0 /\ vpn >= pageTableSize ->
                failed("AddressErrorException")
          [] OTHER ->
                LET entry == table[vpn]
                IN  CASE ~entry.valid -> failed("PageFaultException")
                      [] entry.valid /\ entry.readOnly /\ writing ->
                            failed("ReadOnlyException")
                      [] entry.valid /\ ~(entry.readOnly /\ writing)
                            /\ entry.physicalPage >= NumPhysPages ->
                            failed("BusErrorException")
                      [] OTHER ->
                            [exception |-> "NoException",
                             physAddr |-> entry.physicalPage * PageSize
                                             + (virtAddr % PageSize)]

(* Mutant of Touched: the dirty bit is forgotten. *)
TouchedNeverDirty(table, virtAddr, writing) ==
    [table EXCEPT ![virtAddr \div PageSize].use = TRUE]

(* The use and dirty bits a successful translation sets. *)
Touched(table, virtAddr, writing) ==
    [table EXCEPT ![virtAddr \div PageSize] =
        [@ EXCEPT !.use = TRUE, !.dirty = @ \/ writing]]

(* The size bytes at a physical address, little endian. *)
LoadBytes(memory, a, size) ==
    LET byte(n) == IF n < size THEN memory[a + n] * 2^(n * ByteBits) ELSE 0
    IN  byte(0) + byte(1) + byte(2) + byte(3)

StoreBytes(memory, a, size, value) ==
    [b \in DOMAIN memory |->
        IF b \in a..(a + size - 1)
        THEN (value \div 2^((b - a) * ByteBits)) % 2^ByteBits
        ELSE memory[b]]
-----------------------------------------------------------------------------
(* Multiplication: add b, shifted, for every bit of a.  Below, a is already *)
(* a word: the shift of the signed a keeps its sign, which only feeds bits  *)
(* the loop never reaches.                                                  *)
RECURSIVE AddShifted(_, _, _, _, _, _)
AddShifted(i, a, bHi, bLo, hi, lo) ==
    LET odd  == a % 2 = 1
        lo1  == IF odd THEN Wrap(lo + bLo) ELSE lo
        hi1  == IF odd THEN Wrap(hi + Truth(lo1 < bLo) + bHi) ELSE hi
    IN  CASE i = WordBits -> <<hi, lo>>
          [] i < WordBits /\ a = 1 -> <<hi1, lo1>>
          [] OTHER -> AddShifted(i + 1, Sra(a, 1),
                                 Wrap(2 * bHi) + Truth(Negative(bLo)),
                                 Shl(bLo, 1), hi1, lo1)

(* Mutant of Mult: no carry into the high word of a negative product. *)
MultNoCarry(a, b, signedArith) ==
    LET magnitude(x) == IF signedArith /\ Negative(x) THEN Wrap(-x) ELSE x
        r == AddShifted(0, magnitude(a), 0, magnitude(b), 0, 0)
    IN  IF signedArith /\ Negative(a) # Negative(b)
        THEN <<Complement(r[1]), Wrap(Complement(r[2]) + 1)>>
        ELSE r

(* The high and the low word of the product. *)
Mult(a, b, signedArith) ==
    LET magnitude(x) == IF signedArith /\ Negative(x) THEN Wrap(-x) ELSE x
        negative == signedArith /\ (Negative(a) # Negative(b))
        r == AddShifted(0, magnitude(a), 0, magnitude(b), 0, 0)
        lo == Wrap(Complement(r[2]) + 1)
    IN  CASE a = 0 \/ b = 0 -> <<0, 0>>
          [] a # 0 /\ b # 0 /\ negative ->
                <<Wrap(Complement(r[1]) + Truth(lo = 0)), lo>>
          [] OTHER -> r

-----------------------------------------------------------------------------
(* The instructions, by what they change.  d is the state the instruction  *)
(* will leave: what it does not change is as in Unchanged below.           *)
ThreeRegister ==
    {"ADD", "ADDU", "SUB", "SUBU", "AND", "OR", "XOR", "NOR", "SLT", "SLTU",
     "SLL", "SRL", "SRA", "SLLV", "SRLV", "SRAV", "MFHI", "MFLO"}

(* a is register rs, b is rt, n the shift amount. *)
Alu(op, a, b, n) ==
    CASE op \in {"ADD", "ADDU"} -> Wrap(a + b)
      [] op \in {"SUB", "SUBU"} -> Wrap(a - b)
      [] op = "AND" -> a & b
      [] op = "OR" -> a | a
      [] op = "XOR" -> a ^^ b
      [] op = "NOR" -> Complement(a | b)
      [] op = "SLT" -> Truth(Signed(a) < Signed(b))
      [] op = "SLTU" -> Truth(a < b)
      [] op = "SLL" -> Shl(b, n)
      [] op = "SLLV" -> Shl(b, a % WordBits)
      [] op \in {"SRA", "SRL"} -> Sra(b, n)
      [] op \in {"SRAV", "SRLV"} -> Sra(b, a % WordBits)
      [] op = "MFHI" -> HiReg
      [] op = "MFLO" -> LoReg

SameSign(x, y) == Negative(x) = Negative(y)

Overflows(op, a, b) ==
    \/ /\ op = "ADD"
       /\ SameSign(a, b) /\ ~SameSign(a, Wrap(a + b))
    \/ /\ op = "SUB"
       /\ ~SameSign(a, b) /\ ~SameSign(a, Wrap(a - b))
    \/ /\ op = "ADDI"
       /\ SameSign(a, b) /\ ~SameSign(b, Wrap(a + b))

Raise(d, which, badVAddr) ==
    [d EXCEPT !.exception = which, !.badVAddr = badVAddr]

Arithmetic(i, d) ==
    LET a == registers[i.rs]
        b == registers[i.rt]
    IN  IF Overflows(i.opCode, a, b)
        THEN Raise(d, "OverflowException", 0)
        ELSE [d EXCEPT !.regs[i.rd] = Alu(i.opCode, a, b, i.extra)]

WithImmediate ==
    {"ADDI", "ADDIU", "SLTI", "SLTIU", "ANDI", "ORI", "XORI", "LUI"}

AluImmediate(op, a, x) ==
    CASE op \in {"ADDI", "ADDIU"} -> Wrap(a + x)
      [] op = "SLTI" -> Truth(Signed(a) < Signed(x))
      [] op = "SLTIU" -> Truth(a < x)
      [] op = "ANDI" -> a & ZeroExtend(x, HalfBits)
      [] op = "ORI" -> a | ZeroExtend(x, HalfBits)
      [] op = "XORI" -> a ^^ ZeroExtend(x, HalfBits)
      [] op = "LUI" -> Shl(x, HalfBits)

Immediate(i, d) ==
    LET a == registers[i.rs]
    IN  IF Overflows(i.opCode, a, i.extra)
        THEN Raise(d, "OverflowException", 0)
        ELSE [d EXCEPT !.regs[i.rt] = AluImmediate(i.opCode, a, i.extra)]

HiLo == {"MULT", "MULTU", "DIV", "DIVU", "MTHI", "MTLO"}

HiLoResult(op, a, b) ==
    CASE op = "MTHI" -> <<a, LoReg>>
      [] op = "MTLO" -> <<HiReg, a>>
      [] op \in {"MULT", "MULTU"} -> Mult(a, b, op = "MULT")
      [] op \in {"DIV", "DIVU"} /\ b = 0 -> <<0, 0>>
      [] op = "DIVU" /\ b # 0 -> <<a % b, a \div b>>
      [] op = "DIV" /\ b # 0 -> <<Wrap(Remainder(Signed(a), Signed(b))),
                                  Wrap(Quotient(Signed(a), Signed(b)))>>

(* Dividing the smallest int by -1 ends the simulator. *)
MultiplyDivide(i, d) ==
    LET a == registers[i.rs]
        b == registers[i.rt]
        r == HiLoResult(i.opCode, a, b)
    IN  IF i.opCode = "DIV" /\ b # 0 /\ ~QuotientFits(a, b)
        THEN [d EXCEPT !.aborted = TRUE]
        ELSE [d EXCEPT !.hi = r[1], !.lo = r[2]]

Jumps == {"BEQ", "BNE", "BGTZ", "BLEZ", "BGEZ", "BLTZ", "BGEZAL", "BLTZAL",
          "J", "JAL", "JR", "JALR"}

(* Mutant of Target: branches count from the branch, not from its slot. *)
TargetFromPC(i, a, b) ==
    LET next == Wrap(NextPC + 4)
        branch(taken) == IF taken THEN Wrap(PC + Shl(i.extra, 2)) ELSE next
    IN  CASE i.opCode = "BEQ" -> branch(a = b)
          [] i.opCode = "BNE" -> branch(a # b)
          [] i.opCode \in {"JR", "JALR"} -> a
          [] OTHER -> next

(* Where the instruction after the delay slot is.  a and b are rs and rt    *)
(* after the link register was written; the top of the address of a J stays *)
(* (the top four bits of 32; here the top bit).                             *)
Target(i, a, b) ==
    LET next == Wrap(NextPC + 4)
        branch(taken) == IF taken THEN Wrap(NextPC + Shl(i.extra, 2)) ELSE next
    IN  CASE i.opCode = "BEQ" -> branch(a = b)
          [] i.opCode = "BNE" -> branch(a # b)
          [] i.opCode = "BGTZ" -> branch(Signed(a) > 0)
          [] i.opCode = "BLEZ" -> branch(Signed(a) <= 0)
          [] i.opCode \in {"BGEZ", "BGEZAL"} -> branch(~Negative(a))
          [] i.opCode \in {"BLTZ", "BLTZAL"} -> branch(Negative(a))
          [] i.opCode \in {"J", "JAL"} ->
                (next - ZeroExtend(next, WordBits - 1)) + 4 * i.extra
          [] i.opCode \in {"JR", "JALR"} -> a

Jump(i, d) ==
    LET link == CASE i.opCode \in {"BGEZAL", "BLTZAL", "JAL"} -> {31}
                  [] i.opCode = "JALR" -> {i.rd}
                  [] OTHER -> {}
        regs == [r \in GPR |-> IF r \in link THEN Wrap(NextPC + 4)
                                             ELSE registers[r]]
    IN  [d EXCEPT !.regs = regs, !.pcAfter = Target(i, regs[i.rs], regs[i.rt])]

Loads == {"LB", "LBU", "LH", "LHU", "LW", "LWL", "LWR"}

Size(op) == CASE op \in {"LB", "LBU", "SB"} -> 1
              [] op \in {"LH", "LHU", "SH"} -> 2
              [] OTHER -> 4

(* LWL and LWR insist on an aligned address, and LWR then replaces only the *)
(* low byte.  The value they merge into is the one still being loaded.      *)
LoadedValue(op, value, old) ==
    CASE op = "LB" -> SignExtend(value, ByteBits)
      [] op = "LH" -> SignExtend(value, HalfBits)
      [] op = "LWR" -> (old - ZeroExtend(old, ByteBits)) + Srl(value, 3 * ByteBits)
      [] OTHER -> value

(* Memory accesses; d.table has the use bit of the fetch already. *)
Load(i, d) ==
    LET tmp == Wrap(registers[i.rs] + i.extra)
        t == Translate(d.table, tmp, Size(i.opCode), FALSE)
        old == IF LoadReg = i.rt THEN LoadValueReg ELSE registers[i.rt]
    IN  CASE i.opCode \in {"LWL", "LWR"} /\ tmp % 4 # 0 ->
                [d EXCEPT !.aborted = TRUE]
          [] ~(i.opCode \in {"LWL", "LWR"} /\ tmp % 4 # 0)
                /\ t.exception # "NoException" -> Raise(d, t.exception, tmp)
          [] OTHER ->
                [d EXCEPT !.loadReg = i.rt,
                          !.loadValue = LoadedValue(i.opCode,
                             LoadBytes(mainMemory, t.physAddr, Size(i.opCode)), old),
                          !.table = Touched(d.table, tmp, FALSE)]

Stores == {"SB", "SH", "SW", "SWL", "SWR"}

(* SWR of an aligned address keeps the three low bytes of the word. *)
StoredValue(op, value, b) ==
    IF op = "SWR"
    THEN ZeroExtend(value, 3 * ByteBits) + Shl(b, 3 * ByteBits)
    ELSE b

Store(i, d) ==
    LET tmp == Wrap(registers[i.rs] + i.extra)
        size == Size(i.opCode)
        partial == i.opCode \in {"SWL", "SWR"}
        r == Translate(d.table, tmp, size, FALSE)
        t == Translate(d.table, tmp, size, TRUE)
    IN  CASE partial /\ tmp % 4 # 0 -> [d EXCEPT !.aborted = TRUE]
          [] partial /\ tmp % 4 = 0 /\ r.exception # "NoException" ->
                Raise(d, r.exception, tmp)
          [] ~(partial /\ (tmp % 4 # 0 \/ r.exception # "NoException"))
                /\ t.exception # "NoException" ->
                Raise([d EXCEPT !.table = IF partial THEN Touched(@, tmp, FALSE)
                                                     ELSE @], t.exception, tmp)
          [] OTHER ->
                [d EXCEPT !.memory = StoreBytes(mainMemory, t.physAddr, size,
                             StoredValue(i.opCode,
                                LoadBytes(mainMemory, t.physAddr, size),
                                registers[i.rt])),
                          !.table = Touched(@, tmp, TRUE)]

-----------------------------------------------------------------------------
(* One instruction.  Unchanged is the state after the fetch, with the next  *)
(* program counter computed but not installed.                              *)
Unchanged ==
    [regs |-> registers, hi |-> HiReg, lo |-> LoReg,
     pcAfter |-> Wrap(NextPC + 4), loadReg |-> 0, loadValue |-> 0,
     memory |-> mainMemory, table |-> Touched(pageTable, PC, FALSE),
     exception |-> "NoException", badVAddr |-> BadVAddr, aborted |-> FALSE]

Executed(i) ==
    CASE i.opCode \in ThreeRegister -> Arithmetic(i, Unchanged)
      [] i.opCode \in WithImmediate -> Immediate(i, Unchanged)
      [] i.opCode \in HiLo -> MultiplyDivide(i, Unchanged)
      [] i.opCode \in Jumps -> Jump(i, Unchanged)
      [] i.opCode \in Loads -> Load(i, Unchanged)
      [] i.opCode \in Stores -> Store(i, Unchanged)
      [] i.opCode = "SYSCALL" -> Raise(Unchanged, "SyscallException", 0)
      [] i.opCode \in {"RES", "UNIMP"} ->
            Raise(Unchanged, "IllegalInstrException", 0)

(* The registers with the load in progress arrived. *)
Arrived(regs) == [regs EXCEPT ![LoadReg] = LoadValueReg, ![0] = 0]

DelayedLoad(regs, nextReg, nextValue) ==
    /\ registers' = Arrived(regs)
    /\ LoadReg' = nextReg
    /\ LoadValueReg' = nextValue

-----------------------------------------------------------------------------
(* The system calls by their number in register 2: those that come back,   *)
(* those with a result, and those that copy a name or a buffer.            *)
SC_Read == 6
Returning == 2..10
WithResult == {2, 3, 5, SC_Read, 9}   \* Exec, Join, Open, Read, Fork
WithBuffer == {2, 4, 5, SC_Read, 7}   \* Exec, Create, Open, Read, Write

(* Halt (0), Exit (1) and an unknown number do not come back.  The others  *)
(* leave any result in register 2; their AddrSpace::Translate makes the    *)
(* pages of the buffer present, and Read, which stores into them whatever  *)
(* the file holds, dirty.  Then SysCallDone clears the use bits and        *)
(* IncrementCounters moves past the instruction.                           *)
SystemCall(type, regs, memory, table) ==
    \/ /\ type \notin Returning
       /\ aborted' = TRUE
       /\ registers' = regs /\ mainMemory' = memory /\ pageTable' = table
       /\ UNCHANGED <<PC, NextPC>>
    \/ /\ type \in Returning
       /\ \E result \in IF type \in WithResult THEN InitialWord ELSE {type} :
             registers' = [regs EXCEPT ![2] = result]
       /\ \E pages \in IF type \in WithBuffer THEN SUBSET DOMAIN table ELSE {{}} :
             /\ pageTable' =
                   [v \in DOMAIN table |->
                      [table[v] EXCEPT !.use = FALSE,
                                       !.valid = @ \/ v \in pages,
                                       !.dirty = @ \/ (type = SC_Read /\ v \in pages)]]
             /\ \E byte \in 0..(2^ByteBits - 1) :
                   mainMemory' =
                      [a \in DOMAIN memory |->
                         IF type = SC_Read /\ \E v \in pages :
                               table[v].physicalPage = a \div PageSize
                         THEN byte ELSE memory[a]]
       /\ PC' = NextPC /\ NextPC' = Wrap(NextPC + 4)
       /\ UNCHANGED aborted

(* ExceptionHandler (userprog/exception.cc): a page fault makes the page   *)
(* present (vm->Swap, which here finds the frame unused); what is neither  *)
(* that nor a system call fails an ASSERT.                                 *)
ExceptionHandler(which, badVAddr, regs, memory, table) ==
    \/ /\ which = "SyscallException"
       /\ SystemCall(regs[2], regs, memory, table)
    \/ /\ which = "PageFaultException"
       /\ pageTable' = [table EXCEPT ![badVAddr \div PageSize].valid = TRUE]
       /\ registers' = regs /\ mainMemory' = memory
       /\ UNCHANGED <<PC, NextPC, aborted>>
    \/ /\ which \notin {"SyscallException", "PageFaultException"}
       /\ aborted' = TRUE
       /\ registers' = regs /\ mainMemory' = memory /\ pageTable' = table
       /\ UNCHANGED <<PC, NextPC>>

(* Mutant of RaiseException: the load in progress is not finished first. *)
RaiseExceptionInLoad(d) ==
    /\ exception' = d.exception
    /\ BadVAddr' = d.badVAddr
    /\ UNCHANGED <<LoadReg, LoadValueReg>>
    /\ HiReg' = d.hi /\ LoReg' = d.lo
    /\ ExceptionHandler(d.exception, d.badVAddr, d.regs, d.memory, d.table)

RaiseException(d) ==
    /\ exception' = d.exception
    /\ BadVAddr' = d.badVAddr
    /\ LoadReg' = 0 /\ LoadValueReg' = 0
    /\ HiReg' = d.hi /\ LoReg' = d.lo
    /\ ExceptionHandler(d.exception, d.badVAddr, Arrived(d.regs), d.memory, d.table)

(* The instruction is done: install its results and advance the counters. *)
Complete(d) ==
    /\ exception' = "NoException"
    /\ DelayedLoad(d.regs, d.loadReg, d.loadValue)
    /\ HiReg' = d.hi /\ LoReg' = d.lo
    /\ mainMemory' = d.memory /\ pageTable' = d.table
    /\ PC' = NextPC /\ NextPC' = d.pcAfter
    /\ UNCHANGED <<BadVAddr, aborted>>

FetchException == Translate(pageTable, PC, 4, FALSE).exception

(* Machine::Run calls OneInstruction and then lets time pass. *)
Tick ==
    /\ ~aborted
    /\ ticks < MaxTicks
    /\ ticks' = ticks + 1

FetchFaults ==
    /\ Tick
    /\ FetchException # "NoException"
    /\ RaiseException([Unchanged EXCEPT !.exception = FetchException,
                                        !.badVAddr = PC, !.table = pageTable])
    /\ UNCHANGED ir

OneInstruction(value) ==
    /\ Tick
    /\ FetchException = "NoException"
    /\ ir' = value
    /\ LET d == Executed(Decode(value))
       IN  \/ /\ d.aborted
              /\ aborted' = TRUE
              /\ UNCHANGED <<cpu, mainMemory, pageTable, exception>>
           \/ /\ ~d.aborted /\ d.exception # "NoException"
              /\ RaiseException(d)
           \/ /\ ~d.aborted /\ d.exception = "NoException"
              /\ Complete(d)

MachineNext == FetchFaults \/ \E value \in Instr : OneInstruction(value)

MachineSpec == MachineInit /\ [][MachineNext]_vars
=============================================================================
