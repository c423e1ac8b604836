------------------------------ MODULE MCMachine ------------------------------
EXTENDS MachineImplements

(* Words of the three formats, on registers 1 and 2. *)
RWord(funct) == [Nop EXCEPT !.funct = funct, !.rs = 1, !.rt = 2, !.rd = 1, !.shamt = 3]

IWord(op, rs, rt, imm) == [Nop EXCEPT !.op = op, !.rs = rs, !.rt = rt, !.imm = imm]

MCInstr ==
    {RWord(f) : f \in 0..63} \cup {[RWord(f) EXCEPT !.rt = 0] : f \in {37, 42}}
      \cup {IWord(1, 1, rt, 2) : rt \in {0, 1, 16, 17, 2}}
      \cup {[Nop EXCEPT !.op = op, !.target = 17] : op \in {2, 3}}
      \cup {IWord(op, 1, 2, imm) : op \in 4..7, imm \in {1, 15}}
      \cup {IWord(op, 1, 2, imm) : op \in 8..15, imm \in {3, 9}}
      \cup {IWord(op, 1, 2, 0) : op \in {20, 47, 48}}
      \cup {IWord(op, 0, 2, imm) : op \in 32..46, imm \in {0, 4, 6}}
      \cup {IWord(op, 1, 2, 1) : op \in 32..46}
      \cup {IWord(op, 1, 0, 3) : op \in {9, 32}}

Entry(frame, valid, readOnly) ==
    [physicalPage |-> frame, valid |-> valid, readOnly |-> readOnly,
     use |-> FALSE, dirty |-> FALSE]

(* Code in page 0; data in page 1, then a page still on disk, or data in a *)
(* read-only page, then one with a wrong frame.                             *)
MCTables ==
    { <<Entry(2, TRUE, FALSE), Entry(0, TRUE, FALSE), Entry(1, FALSE, FALSE)>>,
      <<Entry(1, TRUE, FALSE), Entry(2, TRUE, TRUE), Entry(3, TRUE, FALSE)>> }

MCInitialTable == {[v \in 0..2 |-> t[v + 1]] : t \in MCTables}
=============================================================================
