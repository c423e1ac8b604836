-------------------------- MODULE MachineImplements --------------------------
(***************************************************************************)
(* The simulated CPU, with its page table, its load delay and its          *)
(* exceptions, against the flat interpreter of bin/execute.c, and what     *)
(* the kernel relies on in it.                                             *)
(***************************************************************************)
EXTENDS Machine

(* The registers once the load in progress has arrived. *)
Settled == Arrived(registers)

(* The contents of the virtual address space. *)
VirtualMemory ==
    [v \in 0..(pageTableSize * PageSize - 1) |->
        LET frame == pageTable[v \div PageSize].physicalPage
        IN  IF frame < NumPhysPages
            THEN mainMemory[frame * PageSize + (v % PageSize)] ELSE 0]

X == INSTANCE Execute WITH Reg <- Settled, HI <- HiReg, LO <- LoReg,
                           pc <- PC, npc <- NextPC, mem <- VirtualMemory

(* What the R2000 asks of a compiler: no use of a register whose load is in *)
(* progress, no jump in the delay slot of a jump, no jump that overwrites   *)
(* the register it reads.                                                   *)
WellCompiled(i) ==
    LET op == Decode(i).opCode
    IN  /\ LoadReg # 0 => LoadReg \notin {i.rs, i.rt, i.rd}
        /\ op \in Jumps => NextPC = Wrap(PC + 4)
        /\ op \in {"J", "JAL"} => Negative(PC) = Negative(Wrap(NextPC + 4))
        /\ op = "JALR" => i.rd # i.rs

(* The instructions and operands for which the two programs compute the    *)
(* same.  Nachos' OR reads rs twice, so it is right only as a register move *)
(* (rt is register 0, or rs again), and its SRL shifts in the sign.         *)
(* execute.c loses carries in the high word of a product and extends the    *)
(* sign of logical immediates; both treat partial words in their own way.   *)
Comparable(i) ==
    LET op == Decode(i).opCode
        small(r) == registers[r] < 2^HalfBits
    IN  /\ WellCompiled(i)
        /\ op \notin {"LWL", "LWR", "SWL", "SWR", "UNIMP"}
        /\ op = "OR" => i.rt \in {0, i.rs}
        /\ op \in {"SRL", "SRLV"} => ~Negative(registers[i.rt])
        /\ op \in {"MULT", "MULTU"} => small(i.rs) /\ small(i.rt)
        /\ op \in {"ANDI", "ORI", "XORI"} => i.imm < 2^(HalfBits - 1)
        /\ op \in {"DIV", "DIVU"} => registers[i.rt] # 0

-----------------------------------------------------------------------------

(* A completed instruction (Machine::OneInstruction) does to registers,     *)
(* program counters and virtual memory what the flat interpreter does for   *)
(* the same word, whatever frames the pages are in; one that traps leaves   *)
(* all of it alone.  Of a system call nothing is said: execute.c has no     *)
(* kernel.                                                                  *)
ImplementsExecute ==
    [][Comparable(ir') /\ exception' # "SyscallException" =>
          IF exception' = "NoException" /\ ~aborted'
          THEN X!Step(ir')
          ELSE UNCHANGED X!xvars]_vars

(* An instruction that raises an exception, other than a system call, can   *)
(* be started again: it leaves registers, counters and memory as they were, *)
(* with no load in progress.  A system call that comes back has the load in *)
(* progress in its register too, except for its own result in register 2,   *)
(* and goes on behind the instruction.                                      *)
Restartable ==
    [][LET settled == LoadReg' = 0 /\ <<HiReg', LoReg'>> = <<HiReg, LoReg>>
       IN  /\ exception' \notin {"NoException", "SyscallException"} =>
                /\ settled /\ registers' = Settled
                /\ <<mainMemory', PC', NextPC'>> = <<mainMemory, PC, NextPC>>
           /\ exception' = "SyscallException" /\ ~aborted' =>
                /\ settled /\ \A r \in GPR \ {2} : registers'[r] = Settled[r]
                /\ PC' = NextPC]_vars

(* A frame whose entry is not dirty holds what it held when it was mapped:  *)
(* virtual memory may drop such a page instead of writing it to the swap    *)
(* file.  Both instructions and the Read system call write to memory.       *)
CleanPagesUnchanged ==
    \A v \in DOMAIN pageTable :
        LET entry == pageTable[v]
            base == entry.physicalPage * PageSize
        IN  ~entry.dirty => \A a \in base..(base + PageSize - 1) :
                               a < MemorySize => mainMemory[a] = Loaded(a)

(* MULT and MULTU leave the double word product of their operands in HiReg  *)
(* and LoReg, for all signs (Mult).                                         *)
MultIsProduct ==
    [][LET op == Decode(ir').opCode
           a == registers[ir'.rs]
           b == registers[ir'.rt]
       IN  exception' = "NoException" /\ ~aborted' /\ op \in {"MULT", "MULTU"} =>
             HiReg' * 2^WordBits + LoReg' =
                (IF op = "MULT" THEN Signed(a) * Signed(b) ELSE a * b)
                   % 2^(2 * WordBits)]_vars
=============================================================================
