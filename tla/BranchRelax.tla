---------------------------- MODULE BranchRelax ----------------------------
(***************************************************************************)
(* Branch relaxation (relax.rs) and the encoder's range check on branch    *)
(* displacements (aarch64/encode.rs): the last step of lowering before     *)
(* code bytes exist.  A function is the sequence of its blocks in layout   *)
(* order, a block a sequence of instructions; a block is named by its      *)
(* place.  Only what a branch can tell apart is kept of an instruction.    *)
(* The widths of the displacement fields and the number of passes are      *)
(* parameters: 26, 19 and 14 bits and 32 passes in the code.               *)
(***************************************************************************)
EXTENDS Integers, Sequences, FiniteSetsExt

CONSTANTS
    Bits,        \* opcode class -> width of its displacement field
    MaxPasses    \* max_iterations

\* Opcode classes with a displacement: B and TailCall; BCond, Cbz and Cbnz;
\* Tbz and Tbnz.
BranchOps == {"b", "bcond", "tbz"}

ASSUME RelaxAssumption ==
    /\ \A op \in BranchOps : Bits[op] \in Nat /\ Bits[op] > 2
    /\ MaxPasses \in Nat

NoBlock == 0   \* the displacement is an immediate

\* An instruction that is no branch; id tells it from others.
Plain(id) == [op |-> "plain", id |-> id, cond |-> 0, sense |-> TRUE,
              target |-> NoBlock, imm |-> 0]

Pseudo == [Plain(0) EXCEPT !.op = "pseudo"]

Brk == [Plain(0) EXCEPT !.op = "brk"]

\* Branches to target if the condition has the truth value sense.
Cond(op, cond, sense, target) ==
    [op |-> op, id |-> 0, cond |-> cond, sense |-> sense, target |-> target, imm |-> 0]

B(target) == Cond("b", 0, TRUE, target)

\* Skips the next instruction if the condition has the truth value sense.
SkipNext(op, cond, sense) == [Cond(op, cond, sense, NoBlock) EXCEPT !.imm = 2]

\* What expand_trap_null_if_zero and its siblings leave: a check that skips a BRK.
TrapUnless(cond) == <<SkipNext("bcond", cond, TRUE), Brk>>

Instructions ==
    [op : BranchOps \cup {"plain", "pseudo", "brk"}, id : Nat, cond : Nat,
     sense : BOOLEAN, target : Nat, imm : Int]

\* A branch names a block of the layout, or skips the instruction behind it, a BRK
\* or the B of relax_one_branch.
WellFormedBlock(block, blocks) ==
    \A i \in DOMAIN block :
        /\ block[i].op \notin BranchOps => block[i].target = NoBlock
        /\ block[i].op = "b" => block[i].target \in blocks
        /\ block[i].op \in {"bcond", "tbz"} =>
              \/ block[i].target \in blocks
              \/ /\ block[i].target = NoBlock /\ block[i].imm = 2
                 /\ i < Len(block) /\ block[i + 1].op \in {"b", "brk"}

\* What the expansion of traps leaves and validate_relax_input lets pass.
WellFormed(func) ==
    /\ func \in Seq(Seq(Instructions))
    /\ \A b \in DOMAIN func : WellFormedBlock(func[b], DOMAIN func)

-----------------------------------------------------------------------------
(* Offsets and ranges                                                      *)

\* What the first i instructions of a block emit: all but pseudo instructions.
Emitted(block) ==
    LET words[i \in 0..Len(block)] ==
            IF i = 0 THEN <<>>
            ELSE IF block[i].op = "pseudo" THEN words[i - 1]
            ELSE Append(words[i - 1], block[i])
    IN  words

Words(block) == Emitted(block)[Len(block)]

\* block_code_size
BlockSize(block) == 4 * Len(Words(block))

\* compute_block_offsets; the entry after the last block is the function's end.
BlockOffsets(func) ==
    LET offset[b \in 1..Len(func) + 1] ==
            IF b = 1 THEN 0 ELSE offset[b - 1] + BlockSize(func[b - 1])
    IN  offset

\* 1 << n
Shl[n \in Nat] == IF n = 0 THEN 1 ELSE 2 * Shl[n - 1]

\* Mutant: the range is taken to be symmetric.
MutInRange(op, displacement) ==
    op \in BranchOps =>
        displacement >= -Shl[Bits[op] + 1] /\ displacement <= Shl[Bits[op] + 1]

\* in_range, in bytes
InRange(op, displacement) ==
    op \in BranchOps =>
        displacement >= -Shl[Bits[op] + 1] /\ displacement <= Shl[Bits[op] + 1] - 4

\* Distance in bytes from the i-th instruction of block b to its target.
Displacement(func, offsets, b, i) ==
    offsets[func[b][i].target] - (offsets[b] + 4 * Len(Emitted(func[b])[i - 1]))

\* The places in block b of branches that do not reach their block.
FarBranches(func, offsets, b) ==
    {i \in DOMAIN func[b] :
        /\ func[b][i].target # NoBlock
        /\ ~InRange(func[b][i].op, Displacement(func, offsets, b, i))}

\* has_out_of_range_branches
HasOutOfRangeBranches(func) ==
    \E b \in DOMAIN func : FarBranches(func, BlockOffsets(func), b) # {}

-----------------------------------------------------------------------------
(* relax_branches                                                          *)

\* relax_one_branch for a conditional branch: invert it, and let it skip a B.
RelaxOneBranch(block, i) ==
    SubSeq(block, 1, i - 1)
    \o <<SkipNext(block[i].op, block[i].cond, ~block[i].sense), B(block[i].target)>>
    \o SubSeq(block, i + 1, Len(block))

\* One pass: offsets are computed once, and the first far branch of each block is
\* relaxed.  A far B is an error.
RelaxPass(func) ==
    LET offsets == BlockOffsets(func)
        far(b) == FarBranches(func, offsets, b)
        first(b) == Min(far(b))
        tooFar == \E b \in DOMAIN func : far(b) # {} /\ func[b][first(b)].op = "b"
    IN  [ok |-> ~tooFar,
         func |-> IF tooFar THEN func
                  ELSE [b \in DOMAIN func |->
                          IF far(b) = {} THEN func[b]
                          ELSE RelaxOneBranch(func[b], first(b))]]

\* The loop: at most MaxPasses passes, and no more once nothing is far.
RelaxBranches(func) ==
    LET after[n \in 0..MaxPasses] ==
            IF n = 0 THEN [ok |-> TRUE, func |-> func]
            ELSE IF after[n - 1].ok /\ HasOutOfRangeBranches(after[n - 1].func)
            THEN RelaxPass(after[n - 1].func)
            ELSE after[n - 1]
    IN  after[MaxPasses]

\* build_final_code, block by block: a target becomes a displacement in words.
BuildFinalCode(func) ==
    LET offsets == BlockOffsets(func)
        resolved(b) ==
            [i \in DOMAIN func[b] |->
               IF func[b][i].target = NoBlock THEN func[b][i]
               ELSE [func[b][i] EXCEPT !.target = NoBlock,
                       !.imm = Displacement(func, offsets, b, i) \div 4]]
    IN  [b \in DOMAIN func |-> Words(resolved(b))]

\* branch_offset_signed
Encodable(inst) ==
    inst.op \in BranchOps =>
        inst.imm \in -Shl[Bits[inst.op] - 1] .. Shl[Bits[inst.op] - 1] - 1

\* lower_function from relaxation on: the error, or the code.
Lower(func) ==
    LET relaxed == RelaxBranches(func)
        code == BuildFinalCode(relaxed.func)
    IN  IF ~relaxed.ok THEN [result |-> "BranchOutOfRange", code |-> <<>>]
        ELSE IF \E b \in DOMAIN code : \E i \in DOMAIN code[b] : ~Encodable(code[b][i])
        THEN [result |-> "EncodingFailed", code |-> <<>>]
        ELSE [result |-> "Encoded", code |-> code]

-----------------------------------------------------------------------------
(* What code does                                                          *)

Taken(inst, holds) ==
    inst.op = "b" \/ (inst.op \in BranchOps /\ holds[inst.cond] = inst.sense)

\* Running a block under a truth value for every condition: what it executes and
\* where it goes.  A taken branch at i goes on at inner[i] in the block, or, if
\* that is 0, leaves it for outer[i].
RunFrom(block, holds, inner, outer, next, run, i) ==
    IF i = Len(block) + 1 THEN [trace |-> <<>>, to |-> next]
    ELSE IF block[i].op = "brk" THEN [trace |-> <<"trap">>, to |-> next]
    ELSE IF block[i].op = "plain"
    THEN [trace |-> <<block[i].id>> \o run[i + 1].trace, to |-> run[i + 1].to]
    ELSE IF ~Taken(block[i], holds) THEN run[i + 1]
    ELSE IF inner[i] # 0 THEN run[inner[i]]
    ELSE [trace |-> <<>>, to |-> outer[i]]

RunBlock(block, holds, inner, outer, next) ==
    LET run[i \in 1..Len(block) + 1] ==
            RunFrom(block, holds, inner, outer, next, run, i)
    IN  run[1]

\* The function as the passes before relaxation mean it: a branch goes to a block.
Meaning(func, b, holds) ==
    LET inner == [i \in DOMAIN func[b] |->
                    IF func[b][i].target = NoBlock THEN i + func[b][i].imm ELSE 0]
        outer == [i \in DOMAIN func[b] |-> func[b][i].target]
    IN  RunBlock(func[b], holds, inner, outer, b + 1)

\* The code: a branch goes where its displacement says, as a byte offset.
Effect(code, b, holds) ==
    LET offsets == BlockOffsets(code)
        inner == [i \in DOMAIN code[b] |->
                    IF i + code[b][i].imm \in i + 1 .. Len(code[b])
                    THEN i + code[b][i].imm ELSE 0]
        outer == [i \in DOMAIN code[b] |-> offsets[b] + 4 * (i - 1 + code[b][i].imm)]
    IN  RunBlock(code[b], holds, inner, outer, offsets[b + 1])

Conditions(func) ==
    UNION {{func[b][i].cond : i \in DOMAIN func[b]} : b \in DOMAIN func}

\* From the start of every block, under every outcome of the conditions, the code
\* executes what the block means and arrives at the block it means.
FlowsAlike(func, code) ==
    \A b \in DOMAIN func, holds \in [Conditions(func) -> BOOLEAN] :
        LET meant == Meaning(func, b, holds)
            done == Effect(code, b, holds)
        IN  /\ done.trace = meant.trace
            /\ done.to = BlockOffsets(code)[meant.to]

=============================================================================
