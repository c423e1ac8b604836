------------------------------- MODULE Execute -------------------------------
(***************************************************************************)
(* bin/execute.c: a MIPS interpreter for the host's own tools, without     *)
(* translation, exceptions or load delay.  It dispatches on the numbers of *)
(* bin/encode.h (octal below, as there).  An instruction on which it exits *)
(* has no step.                                                            *)
(***************************************************************************)
EXTENDS MipsWord

VARIABLES Reg, HI, LO, pc, npc, mem

xvars == <<Reg, HI, LO, pc, npc, mem>>

Major ==
    [J |-> \o02, JAL |-> \o03, BEQ |-> \o04, BNE |-> \o05, BLEZ |-> \o06,
     BGTZ |-> \o07, ADDI |-> \o10, ADDIU |-> \o11, SLTI |-> \o12,
     SLTIU |-> \o13, ANDI |-> \o14, ORI |-> \o15, XORI |-> \o16, LUI |-> \o17,
     LB |-> \o40, LH |-> \o41, LWL |-> \o42, LW |-> \o43, LBU |-> \o44,
     LHU |-> \o45, LWR |-> \o46, SB |-> \o50, SH |-> \o51, SW |-> \o53]

Special ==
    [SLL |-> \o00, SRL |-> \o02, SRA |-> \o03, SLLV |-> \o04, SRLV |-> \o06,
     SRAV |-> \o07, JR |-> \o10, JALR |-> \o11, SYSCALL |-> \o14,
     BREAK |-> \o15, MFHI |-> \o20, MTHI |-> \o21, MFLO |-> \o22,
     MTLO |-> \o23, MULT |-> \o30, MULTU |-> \o31, DIV |-> \o32, DIVU |-> \o33,
     ADD |-> \o40, ADDU |-> \o41, SUB |-> \o42, SUBU |-> \o43, AND |-> \o44,
     OR |-> \o45, XOR |-> \o46, NOR |-> \o47, SLT |-> \o52, SLTU |-> \o53]

Bcond == [BLTZ |-> \o00, BGEZ |-> \o01, BLTZAL |-> \o20, BGEZAL |-> \o21]

(* The instruction a number stands for; "u" when there is none. *)
NameOf(codes, n) ==
    IF \E x \in DOMAIN codes : codes[x] = n
    THEN CHOOSE x \in DOMAIN codes : codes[x] = n
    ELSE "u"

Operation(i) ==
    CASE i.op = 0 -> NameOf(Special, i.funct)
      [] i.op = 1 -> NameOf(Bcond, i.rt)
      [] OTHER -> NameOf(Major, i.op)

immed(i) == SignExtend(i.imm, HalfBits)

Address(i) == Wrap(Reg[i.rs] + immed(i))

Fetch(a, size) ==
    LET byte(n) == IF n < size THEN mem[a + n] * 2^(n * ByteBits) ELSE 0
    IN  byte(0) + byte(1) + byte(2) + byte(3)

(* The high word of a product as execute.c computes it from half words. *)
HighWord(t1, t2) ==
    LET low(x) == ZeroExtend(x, HalfBits)
        high(x) == Srl(x, HalfBits)
        mid(x, y) == Sra(Wrap(high(x) * low(y)), HalfBits)
    IN  Wrap(high(t1) * high(t2) + mid(t1, t2) + mid(t2, t1))

Product(a, b, signed) ==
    LET magnitude(x) == IF signed /\ Negative(x) THEN Wrap(-x) ELSE x
        hi == HighWord(magnitude(a), magnitude(b))
        lo == Wrap(magnitude(a) * magnitude(b))
        neg == Wrap(Complement(lo) + 1)
    IN  IF signed /\ Negative(a) # Negative(b)
        THEN <<Wrap(Complement(hi) + Truth(neg = 0)), neg>>
        ELSE <<hi, lo>>

(* What is written to register rd (three registers) or rt (immediate). *)
RdValue(op, a, b, i) ==
    CASE op = "SLL" -> Shl(b, i.shamt)
      [] op = "SRL" -> Srl(b, i.shamt)
      [] op = "SRA" -> Sra(b, i.shamt)
      [] op = "SLLV" -> Shl(b, a % WordBits)
      [] op = "SRLV" -> Srl(b, a % WordBits)
      [] op = "SRAV" -> Sra(b, a % WordBits)
      [] op = "MFHI" -> HI
      [] op = "MFLO" -> LO
      [] op \in {"ADD", "ADDU"} -> Wrap(a + b)
      [] op \in {"SUB", "SUBU"} -> Wrap(a - b)
      [] op = "AND" -> a & b
      [] op = "OR" -> a | b
      [] op = "XOR" -> a ^^ b
      [] op = "NOR" -> Complement(a | b)
      [] op = "SLT" -> Truth(Signed(a) < Signed(b))
      [] op = "SLTU" -> Truth(a < b)
      [] op = "JALR" -> Wrap(pc + 8)

RtValue(op, a, b, i) ==
    LET at == Address(i)
        word == Fetch(at - (at % 4), 4)
    IN
    CASE op \in {"ADDI", "ADDIU"} -> Wrap(a + immed(i))
      [] op = "SLTI" -> Truth(Signed(a) < Signed(immed(i)))
      [] op = "SLTIU" -> Truth(a < immed(i))
      [] op = "ANDI" -> a & immed(i)
      [] op = "ORI" -> a | immed(i)
      [] op = "XORI" -> a ^^ immed(i)
      [] op = "LUI" -> Shl(i.imm, HalfBits)
      [] op = "LB" -> SignExtend(Fetch(at, 1), ByteBits)
      [] op = "LH" -> SignExtend(Fetch(at, 2), HalfBits)
      [] op = "LW" -> Fetch(at, 4)
      [] op = "LBU" -> Fetch(at, 1)
      [] op = "LHU" -> Fetch(at, 2)
      [] op = "LWL" -> b | Shl(word, ByteBits * (at % 4))
      [] op = "LWR" ->
            LET kept == b - ZeroExtend(b, ByteBits * (at % 4))
            IN  (IF at % 4 = 0 THEN 0 ELSE kept)
                   | Sra(word, ByteBits * ((4 - (at % 4)) % 4))

HiLoValue(op, a, b) ==
    CASE op = "MTHI" -> <<a, LO>>
      [] op = "MTLO" -> <<HI, a>>
      [] op \in {"MULT", "MULTU"} -> Product(a, b, op = "MULT")
      [] op = "DIV" -> <<Wrap(Remainder(Signed(a), Signed(b))),
                         Wrap(Quotient(Signed(a), Signed(b)))>>
      [] op = "DIVU" -> <<a % b, a \div b>>
      [] OTHER -> <<HI, LO>>

BranchTaken(op, a, b) ==
    CASE op \in {"BLTZ", "BLTZAL"} -> Negative(a)
      [] op \in {"BGEZ", "BGEZAL"} -> ~Negative(a)
      [] op = "BEQ" -> a = b
      [] op = "BNE" -> a # b
      [] op = "BLEZ" -> Signed(a) <= 0
      [] op = "BGTZ" -> Signed(a) > 0
      [] OTHER -> FALSE

StoreSize(op) == CASE op = "SB" -> 1 [] op = "SH" -> 2 [] op = "SW" -> 4 [] OTHER -> 0

RdOps == {"SLL", "SRL", "SRA", "SLLV", "SRLV", "SRAV", "MFHI", "MFLO", "ADD",
          "ADDU", "SUB", "SUBU", "AND", "OR", "XOR", "NOR", "SLT", "SLTU", "JALR"}

RtOps == {"ADDI", "ADDIU", "SLTI", "SLTIU", "ANDI", "ORI", "XORI", "LUI",
          "LB", "LH", "LW", "LBU", "LHU", "LWL", "LWR"}

LinkOps == {"BLTZAL", "BGEZAL", "JAL"}

(* One turn of the loop of runprogram.  Register 0 is cleared before the    *)
(* next instruction looks at it.  A system call (system_trap) is the        *)
(* host's business and changes nothing here.                                *)
Step(i) ==
    LET op == Operation(i)
        a == IF op \in {"BLTZAL", "BGEZAL"} /\ i.rs = 31 THEN Wrap(pc + 8)
                                                        ELSE Reg[i.rs]
        b == IF i.op = 1 THEN 0 ELSE Reg[i.rt]
        written == CASE op \in RdOps -> {i.rd} [] op \in RtOps -> {i.rt}
                     [] op \in LinkOps -> {31} [] OTHER -> {}
        value == CASE op \in RdOps -> RdValue(op, a, b, i)
                   [] op \in RtOps -> RtValue(op, a, b, i)
                   [] OTHER -> Wrap(pc + 8)
        at == Address(i)
    IN  /\ op # "u" /\ (op \in {"DIV", "DIVU"} => b # 0)
        /\ pc' = npc
        /\ npc' = CASE op \in {"JR", "JALR"} -> a
                    [] op \in {"J", "JAL"} ->
                          (pc - ZeroExtend(pc, WordBits - 1)) + 4 * i.target
                    [] BranchTaken(op, a, b) ->
                          Wrap(pc + 4 + Shl(immed(i), 2))
                    [] OTHER -> Wrap(npc + 4)
        /\ Reg' = [r \in DOMAIN Reg |-> IF r = 0 THEN 0
                                        ELSE IF r \in written THEN value
                                        ELSE Reg[r]]
        /\ <<HI', LO'>> = HiLoValue(op, a, b)
        /\ mem' = [v \in DOMAIN mem |->
                      IF v \in at..(at + StoreSize(op) - 1)
                      THEN (b \div 2^((v - at) * ByteBits)) % 2^ByteBits
                      ELSE mem[v]]
=============================================================================
