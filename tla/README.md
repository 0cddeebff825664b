# A verification model of the SPIMbot MIPS simulator

SPIMbot runs student MIPS programs inside a game: an assembler turns source
files into instruction objects in a simulated memory, and an engine calls
`CPU::run_spim` once per cycle for every robot and raises interrupts between
the calls.  These modules model the simulator in `src/src/controllers/mips`
(the interpreter, its coprocessor 0, memory, symbol table and assembler).

The code is in the middle of a refactoring.  The engine, the user interface
and several headers it includes are not in the repository, and a few lines do
not compile (`CP0_ExCode()` at reg.h:282 and `BASE()` at inst.h:323 lack a
`return`, cpu.h:127 lacks a semicolon).  Such lines are read as what they
evidently mean.  What is called but defined nowhere is marked external in
`PROJECT.json`: `run_error` (spim.h:231, taken not to return, as in SPIM),
the SPIMbot device registers, the caller of
`make_memory`, and the engine, and of the assembler `div_inst`, `mult_inst`, the
`set_*_inst`, `branch_offset`, `op_to_imm_op`, `fix_current_label_address` and
`store_word_data`.  The directives' and instructions' semantic
actions are, for now, kept in the parser headers as comments with the grammar
they came from; they are the only statement of how the assembler's methods
are called, and `Symbols`, `Pseudo`, `Unaligned` and `DataSegment` take the
calls from there.

## 1. Inventory

| component | state | operations | interacts with |
|---|---|---|---|
| interpreter control (`cpu_run.cpp`) | PC, R, HI, LO, `running_in_delay_slot`, `done`, static delayed-load slots | one `run_spim` per cycle: fetch, switch, jumps, nested `run_spim` for a delay slot, tail | memory (fetch, load, store), CP0, syscalls; called by the engine |
| exceptions and interrupts (`cpu_run.cpp`, `cpu_syscall.cpp`, `reg.h`) | Status, Cause, EPC, BadVAddr, `exception_occurred` | `_raise_exception`, `RAISE_EXCEPTION`, `RAISE_INTERRUPT`, `CLEAR_INTERRUPT`, `handle_exception`, ERET, MTC0 | the engine raises and clears levels between calls; the debugger prints instructions through the same fetch |
| memory (`mem.cpp`, `cpu_mem.cpp`) | text, data, stack, kernel and special arrays with their bounds | `make_memory`, `expand_data`, `expand_stack`, `expand_k_data`, `read_mem_*`, `set_mem_*`, `bad_mem_read`, `bad_mem_write` | raises exceptions; syscalls hand out raw pointers (`mem_reference`) |
| symbol table (`sym-tbl.*`, `cpu_sym.cpp`, `cpu.h`) | name -> label, uses of each label, list of local labels | `lookup_label`, `record_label`, `make_label_global`, `record_*_uses_symbol`, `resolve_label_uses`, `flush_local_labels` | patches instructions and data words already stored |
| assembler, instructions (`cpu_inst.cpp`, `inst.*`) | text PC | `i_type_inst`, `i_type_inst_full_word`, `j_type_inst`, `r_*_type_inst`, `make_addr_expr`, `inst_encode`, `inst_decode` | looks up labels, stores into text |
| assembler, data (`cpu_data.cpp`, `directive.h`) | data PC, $gp area pointer, alignment, segment flags | `.data`, `.text`, `.word`, `.comm`, `.lcomm`, `.extern`, `.globl`, `.label`, strings, alignment | labels, stores into data |
| arithmetic (`cpu_run.cpp`) | HI, LO, R | multiply, multiply-add and -subtract, divide, add/sub with overflow, counts, shifts, comparisons | raises overflow |
| words (`cpu_run.cpp`) | R | shifts, comparisons, set-on-less-than, trap instructions | raises Tr |
| unaligned accesses (`cpu_run.cpp`) | R | LWL, LWR, SWL, SWR, and the pairs `ulw` and `usw` write | memory, delayed loads |
| instruction codec (`inst.*`, `op.h`) | none; the instruction objects in text | `inst_encode`, `inst_decode`, the fields, the lists of opcodes | a store into text decodes what it wrote; branches are resolved in the object |
| pseudo instructions (`asm_code.h`, `cpu_inst.cpp`) | none; the text they are written to | one action of the grammar per form; `i_type_inst`, `produce_immediate` | $at |
| floating point (`cpu_run.cpp`, `reg.h`) | FPR, FCSR | CP1 arithmetic, compares (`set_fpu_cc`), moves, branches | host arithmetic |
| console registers (`cpu_mem.cpp`) | none any more | `check_memory_mapped_IO` only counts; reading and writing the registers is commented out | the engine |
| system calls (`cpu_syscall.cpp`) | program break, files | `do_syscall` | memory, console |
| expressions (`src/parser/expression`) | none between inputs | grammar, lists, `evaluator` | the data directives |
| parser (`src/parser`) | none between inputs | token, directive and instruction grammars | builds syntax trees |
| engine, windows, devices | missing | turn loop, timers | calls `run_spim`, `RAISE_INTERRUPT`, `CLEAR_INTERRUPT` |

What is hard, and hardly reached by a test (each is a hazard in
`PROJECT.json`, at its line):

- an interrupt may be reported between any two calls of `run_spim`, also while
  an exception already waits for its handler, in a handler, or before a jump;
- `run_spim` calls itself on the same registers for a delay slot;
- the delayed-load slots are static, so all CPUs share them;
- printing an instruction in the debugger uses the interpreter's fetch and its
  `exception_occurred` flag;
- memory segments grow toward each other, the stack downwards inside an array
  that is copied upwards;
- references to labels are patched long after they were assembled, in an order
  that matters, around the sign of the lower half of an address;
- one label may be used, exported, placed by `.extern`, defined and flushed in
  any order, over several files;
- 64-bit products and sums are made of 16- and 32-bit pieces;
- an unaligned word is moved by two instructions that merge bytes by address
  and byte order, and with delayed loads the second reads a register the first has not
  written;
- one pseudo instruction becomes several that share $at and may overwrite a
  source, and wide immediates are made of two halves; immediates wrap when one is
  added to them;
- words are coded and decoded by masks written by hand, and five lists of opcodes
  repeat what the table says;
- a condition code lives in two registers at two places;
- the two words of a double pass the delayed-load slots one after the other, and doubles
  overlap singles and each other, in the registers and in memory;
- a datum moves its label when it is aligned, is stored in parts when it is
  not, and may find the segment too short;
- in the grammar of expressions the first alternative that matches decides.

What makes each component correct: the interpreter neither loses, repeats nor
reorders an instruction, whatever interrupts arrive; no exception is lost and
EPC leads back to the interrupted instruction; every load lands exactly one
instruction of its CPU later; the memory image is one flat memory, and growth
always reaches the address that asked for it; every reference leads to its
label and no label moves; HI and LO hold the exact 64-bit result; a word,
aligned or not, and a double move whole; a copied instruction means the same;
a pseudo instruction does what its name says; a datum reads back from the
address of its label; an expression has the value its precedence gives it.

## 2. Modules

| module | models | state and actions |
|---|---|---|
| `CpuControl` | interpreter control and CP0 | `cpu` is the record of `reg_image_t` fields; `run_spim` has one action per instruction class; `frames` are the activations of `JUMP_INST` that wait for a nested call and `phase` says whose turn it is; `Environment` is the engine and the debugger |
| `UserProgram` | abstract | what the program sees: each instruction complete or not begun |
| `CpuUserView` | `CpuControl` implements `UserProgram` | refinement mapping: the program is at `resume` while a handler runs; `Conventional` and `PlainMachine` say for which programs and configurations |
| `DelayedLoads` | the static slots and several CPUs | one `run_spim(c)` per CPU: an instruction that writes, loads or does neither |
| `LoadPipeline` | abstract | a pipeline of loads for every CPU |
| `Memory` | the memory image | arrays as functions on offsets, with base and top; `read_mem`, `set_mem`, `set_mem_inst`, the `expand_*`, `make_memory` |
| `FlatMemory` | abstract | a function from addresses to bytes that grows and starts at zero |
| `Symbols` | symbol table and what the assembler does with labels | the table, local list, text (as instructions with the field resolving sets), data words, $gp area; one action per directive or instruction form |
| `Powers`, `Operands` | shared parameters | the powers of two; rs, rt and the last result, which `Arithmetic` and `WordOperations` share |
| `MachineWord` | a word and its readings | `reg_word` and `u_reg_word` of two halves; shifts, sign extension |
| `Arithmetic` | multiply, accumulate, divide, trap, count | rs, rt, HI, LO; one action per instruction |
| `Accumulator` | abstract | HI and LO as one number of two words |
| `WordOperations` | shifts, comparisons, traps | rs, rt; one action per instruction, with its immediate form |
| `Unaligned` | LWL, LWR, SWL, SWR | words of memory, a register on `DelayedLoads`, the pair that is being executed; a half may fault, other instructions and CPUs come between |
| `FloatRegisters` | pairs of FPRs | the registers on `DelayedLoads`; LDC1, SDC1, moves, single words; `meant` is which double the program put where, and whether an LDC1 with delayed loads brought it |
| `ConditionCodes` | compares and the control registers of CP1 | FCCR, FCSR, FIR as sets of bits; `set_fpu_cc`, CTC1, CFC1, the tests of branches and moves |
| `InstructionTable` | `op.h` | one row per machine instruction: name, format, the two halves of its word |
| `Codec` | `inst_encode`, `inst_decode`, branch displacements | the instruction the assembler made, and the text slot it or its copy is in; an instruction is its opcode and its five operand fields |
| `Pseudo` | pseudo instructions | `Expansion` of each form into machine instructions, executed one by one: registers, position, outcome; without delayed branches |
| `DataSegment` | data directives | the cursors and tops of both segments, the bytes stored, the alignment flag; one action per directive, which is a whole line with its label |
| `Expressions` | expressions and their lists | a text of tokens is parsed, then evaluated; the rules are recursive operators that match, fail or throw |
| `MCUnits` | the units that share no state | the initial state chooses the unit, so states add up and are not multiplied; it extends the units that have theorems, whose assumptions TLC then evaluates |
| `MC*` | small instances | programs, layouts, accesses |
| `NumberFacts` | lemmas | powers, quotients, remainders and two's complement |
| `CpuControlProofs` (with `CpuUserView`), `DelayedLoadsProofs` (with `Unaligned`), `MemoryProofs`, `SymbolsProofs`, `AssemblerProofs` (`DataSegment` and `Codec`), `ArithmeticProofs` (with `WordOperations` and `Pseudo`), `CoprocessorProofs` (`ConditionCodes` and `FloatRegisters`) | theorems | section 4 |

Abstractions.  `CpuControl` has one general register R for all; an
instruction class stands for all instructions of the same control shape, and
the values it computes are chosen from a small set; addresses are bytes modulo
`AddrSpace`; the program is chosen in `Init` (text is not stored to).  The
history field `resume` is the only state the code does not have.  `Memory`
keeps bytes as numbers; the encoding of an instruction is a number that
`set_mem_inst` stores.  `Symbols` keeps, of an instruction, what resolving reads and writes (the ORI that `produce_immediate` writes alone needs an address of 16 bits, and is left out);
`of` and `plus` record what the source line named and are read by properties
only; the machine is not `bare_machine`, and no address fits 16 bits, which
holds of the real layout and is an assumption on the constants.  `Arithmetic`
is parameterised by the width of a half word, and so are
`WordOperations`, `Pseudo` and `Expressions`, through `MachineWord`.  A byte in `Unaligned`, `FloatRegisters`
and `DataSegment` is what it is a part of and which part: the properties are about where bytes
go.  Floating-point arithmetic is the host's: an operation writes any
double, and a compare finds its operands less, equal or unordered.
`Pseudo` reads `branch_offset(n)` as the n-th instruction from the branch, and takes AND, OR and XOR
from the bits that two words have in common.  It leaves delayed branches out: with them a branch that is
taken is executed again until the C stack is full, which is `CpuControl`'s and `CpuDelaySlot`'s matter, and no
sequence with a branch of its own has a result.
`DataSegment` starts with a segment that was given room, and the kernel's does not grow there:
its growth is in `Memory`; `.data ADDRESS` goes forward only, and no line ends above `DataLimit`
(`data_limit`, above which `expand_data` refuses to grow), so that the user's segment never reaches the kernel's.
`Expressions` has one token for numbers and labels.

Two behaviours are undefined in C++.  In `Symbols`, `flush_local_labels` reads a label it has destroyed when the list names it
twice (the `crashed` outcome).  The signed sums of `Arithmetic` overflow in
C++; the build file asks for no optimisation, for which they wrap.

## 3. Runs

| run | expect | what it shows | bounds |
|---|---|---|---|
| `CpuControl` | pass | `PendingBlocksInterrupts`, `TournamentOnlyInterrupts`, `DroppedOnlyByPrinting`: every instruction class, faulting handlers, two levels, both values of `should_fail_on_exception`, a debugger | a user program of three words and a handler of two, so that a jump, a fault and an interrupt may fall on neighbouring instructions; two empty words on each side give bad fetches |
| `CpuUserView` | pass | `ImplementsUserProgram`, `ExceptionReachesHandler` | the same layout with handlers that only acknowledge and return, as the conventions for handlers ask |
| `CpuDelayed` | pass | `TypeOK`, `ResumeAddressKept` with delayed branches and loads | three nested calls: one more is where the C stack is taken to be full; no device level |
| `CpuNestedPending` | violation | a fault inside a handler, with a level pending, overwrites EPC | one level |
| `CpuDelaySlot` | violation | the nested call executes the jump again, not its delay slot | three nested calls |
| `Memory` | pass | `TypeOK`, `SegmentsDisjoint`, `GrowthReachesAddress`, `ImplementsFlatMemory` | 22 words; every segment grows at least once, to and beyond its limit; loads and stores inside, across, misaligned, in the stack window, outside |
| `MemoryKernelData` | violation | growing kernel data clears bytes already stored | one store into them |
| `Symbols` | pass | `TypeOK`, `ReferencesReachLabels`, `DefinedLabelsAreResolved`, `LocalsListedOnce`, `AddressesNeverMove` | one name (labels do not interact but through addresses), two files, three instructions, one data word, the real addresses with data on both sides of the sign change of the lower half; address expressions add 4 or 32768, with which the sum crosses from a negative lower half to none at all, where `la` is a LUI alone |
| `SymbolsExtern` | violation | `.extern` of a defined label moves it | |
| `SymbolsFiles` | violation | a local name left undefined is resolved by the next file | |
| `Units` | pass | see the table below | see the table below |
| `DelayedDoubles` | violation | with delayed loads the even word of an LDC1 never arrives | one CPU, two pairs of registers, four instructions |

The run `Units` checks these modules side by side, each on its own states:

| unit | properties | bounds and why they are enough |
|---|---|---|
| `DelayedLoads` | `EachLoadDelayed`, which is `LoadsAreDelayed` of the instance | two CPUs, one with delayed loads; two registers and values: a load overtaken by a write and by another load |
| `Arithmetic` | `ArithmeticTypeOK`, `ImplementsAccumulator` | half words of two bits: all carries and borrows occur; one instruction from every state is every behaviour, because every state of the four registers is initial |
| `WordOperations` | `ShiftsMoveBits`, `TestsOrderWords` | the same words; every pair of operands, every shift amount and immediate |
| `Unaligned` | `UnalignedWordsMove`, `BytesKeepTheirPlace` | two words of eight different bytes, addresses before, in, across and after them; two pairs, so that one starts with what the other left; one other instruction between the halves; both byte orders, with and without delayed loads |
| `FloatRegisters` | `DoublesStayWhole` | two pairs of registers, two doubles, three words of memory, so that doubles in memory overlap, four instructions: load, overtake, move and store |
| `ConditionCodes` | `CodesLinked`, `CodeZeroKept`, `SavedStatusRestored` | codes 0, 1 and 7, the least and greatest and the first whose place is wrong; values for CTC1 with and without them; code 0 is the one whose place in FCCR a branch looks at, and `CodeZeroKept` speaks of it alone |
| `Codec` | `CopyKeepsMeaning`, `ClassesMatchFormats`, `BranchReachesLabel` | every row of the table; operand numbers 0, 10 and 21, which set every bit between them; distances at both ends of the range and beyond |
| `Pseudo` | `PseudoMeansItsName` | every form; destinations 2, 3 and 4 and sources among $0, 2 and 3, so that each source may be the destination, the other source or $0; every value of two sources of four bits, every immediate of a word, inside and outside of the half-word field, with and without a lower half |
| `DataSegment` | `DataReadBack`, `LabelsReachData` | every sequence of four lines; growth by 16 bytes, which a line reaches, with room for 1024; `.data` addresses of which one is not aligned and the other beyond the top |
| `Expressions` | `ListMeansItsItems` | texts with two and three numbers, every operator between them, signs and brackets around each: two operators of different tightness on either side |

Deadlock is not checked where the system may stop: the C stack is full or
the machine has crashed (`CpuControl`, `Memory`, `Symbols`), the assembled
program is at its bound (`Symbols`), the unit has executed its instruction,
its sequence or its lines (`Units`, `DelayedDoubles`).

Fairness.  Only `ExceptionReachesHandler` needs it: weak fairness of
`run_spim`, that is, the engine goes on calling it while it returns true.
That is the purpose of the turn loop; nothing is assumed of interrupts or of
the debugger.

`GpNamesReused` is FALSE in `Symbols`: with a name of the $gp area defined a second
time several properties fail, which `SymbolsExtern` shows for one of them.
`OutsideCleared` in `Memory` leaves out the store that `MemoryKernelData`
makes.

### What the violation runs report

- `CpuDelaySlot`: `JUMP_INST` (cpu_run.cpp:117) calls `run_spim` while PC
  still holds the address of the jump, so the jump is executed again until the
  C stack is full.  Nothing is therefore ever raised in a delay slot, and BD, which
  cpu_run.cpp:1731 means to set for that, stays clear unless the program writes it.
- `CpuNestedPending`: the tail (cpu_run.cpp:1616) compares the whole Cause
  register, shifted, with `LAST_REAL_EXCEPT`; with an interrupt level or BD set it
  stores PC into EPC a second time, although EXL was set.
- `MemoryKernelData`: `expand_k_data` (mem.cpp:269) starts to clear at a
  quarter of the old size.
- `SymbolsExtern`: `extern_directive` (cpu_data.cpp:144) tests `gp_flag`
  where its comment speaks of global symbols.
- `SymbolsFiles`: only recorded labels are on the list that
  `flush_local_labels` walks.
- `DelayedDoubles`: `Y_LDC1_OP` (cpu_run.cpp:1395) gives both words of the double to
  `LOAD_INST`, which writes the one newest slot, so the even word is lost; the comment at
  cpu_run.cpp:141 says that the result of a load arrives after the next instruction.

### Observed while modelling, without a run

Each is a case that a property of the run names as an exception, or lies
beside what the properties speak of.

- Two CPUs that both have delayed loads share the slots (cpu_run.cpp:98): one's step
  lands the other's load.  `OneDelayedCPU` states the condition under which this
  cannot happen.
- `RAISE_EXCEPTION` in tournament mode sets `done` and returns false, so a failing instruction
  still writes its result (cpu_run.cpp:1764); `done` stops the engine, and nothing says what the
  registers should hold then.
- A name of the $gp area that is defined a second time is put on the list of local labels twice, and
  the flush then reads the label it has destroyed (sym-tbl.cpp:118).
- DIVU skips 0x80000000 / 0xffffffff (cpu_run.cpp:412), a quotient that
  overflows only with sign, and leaves HI and LO as they were; `NotDivided` says so.
- A byte or half-word access to a text slot without an instruction goes
  through a null pointer (cpu_mem.cpp:166); kernel segments answer in user mode;
  `expand_stack` may double past an address when the limit is near; `mem_reference`
  returns a pointer that growth invalidates.
- A load that faults writes 0 to its destination.  With an odd register a double ends in `run_error`;
  a misaligned SDC1 raises the load's exception.  The pointers to single and word registers
  in `reg_image_t` point into the old object after a copy.
- A compare into code n sets bit 4n of FCCR, so a branch on code n of 1 or more never
  sees it, and in FCSR the shift leaves the word.  A CTC1 to FCCR that clears code 0 leaves it
  set in FCSR: the mask at cpu_run.cpp:1293 clears bit 22 and keeps bit 23.
- A branch of more than 32 KB goes elsewhere without a message.  A copy of an
  instruction through memory loses the operands of floating-point instructions, turns
  movt into movf, and drops the code of break and bit 24 of a jump's target.
  The table's word for cvt.s.l looks mistyped (0x46b00020).
- `copy_inst` and the move assignment act when both sides are the same object;
  `test_assembly` compares pointers.
- Without delayed branches a branch-likely that is not taken skips the next instruction.
- `bgt` and `ble` with 0x7fffffff compare with the wrapped 0x80000000; `sub` with
  0x80000000 traps for the wrong operands; `ulh`, `ulw` and `ld` into their base register use the changed base; `ush` leaves its source
  rotated when its second store faults.
- A `.word L` that is not aligned (after `.align 0`) is never patched, because
  `set_mem_word` faults.  The first datum after `.data ADDRESS` beyond the top, or after an
  `.align` that reaches it, is lost: only `increment_data_pc` grows the segment.  A `.float`
  that is not aligned has its halves swapped in a big-endian build.  `.lcomm` in `.kdata`
  names an address of the user's segment; `.align` in text moves the label to the data address.
- In `EXPR_LST` the comma is optional, so `1 -2` is one item.  The rules for operands in
  `primitives/atomics.h`, which no file includes, list a prefix before the longer form
  (`ABS_ADDR` before `ABS_ADDR ( REG )`), so the longer one could not match.
- A `.byte` or `.half` that names a later label is patched as a whole
  word; `.word L+4` loses the 4 when L is defined later; uses of a label before
  its `.extern` are never resolved; `.globl` after the definition does not take the
  label off the local list; branches beyond 32K wrap (cpu_inst.cpp:359);
  expressions of instructions keep pointers to flushed labels (inst.cpp:280).

## 4. Theorems

All are proved by TLAPS for every value of the constants, under the named assumptions of
the modules and, where a line says so, the condition in its ASSUME.

### Interpreter

| theorem | statement | argument |
|---|---|---|
| `TypeCorrect` | `Spec => []TypeOK` (CpuControl) | one case per instruction; a nested call always has a frame |
| `PendingBlocks`, `TournamentRaises` | a waiting exception has EXL set; tournament mode raises interrupts only | the invariant `Sound(cpu)`: an exception that waits has EXL, and in tournament mode code Int |
| `ResumeAddressTheorem` | EPC keeps the resume address, assuming no level, BD or code 31 in Cause | without that assumption the statement is false (`CpuNestedPending`) |
| `DroppedTheorem` | an exception is dropped by printing only | `NestedIsJump`: the instruction of a nested call is the jump that made it, which cannot raise, so that every exception that waits does so between two calls of the engine, and the next one enters the handler |
| `UserProgramTheorem` | `Spec => ImplementsUserProgram`, assuming `PlainMachine` and that every program is `Conventional` for some text of its own and of its handler | `Placed`: between two calls the machine runs the program, or a handler with EPC at the address to resume, or waits at the program's instruction with an exception that has saved it. Each instruction of the program completes (and is the step of `UserProgram`) or raises (and is none); no instruction of a handler changes what the program sees, and ERET brings it back to the same address. An interrupt is taken only where nothing is under way, since a waiting exception has EXL |

### Loads, memory and symbols

| theorem | statement | argument |
|---|---|---|
| `OneDelayedCPU` | (`EachLoadDelayed` of the run `Units`) `DelayedLoads` implements `LoadPipeline`, assuming that at most one CPU has delayed loads | refinement: initial states and every step |
| `UnalignedTheorem`, `BytesTheorem` | `UnalignedWordsMove`, `BytesKeepTheirPlace` under the same assumption, for any memory, addresses and registers | `PairInvariant` says for each half that is done what it left in memory, in the register or in the slots, while other instructions and CPUs run; the second half then completes it. The shifts and masks are turned into sets of byte places once, for each of four alignments and both orders |
| `MemoryTypes`, `MemoryDisjoint` | types, disjoint segments | `Inv` adds the bounds: every base and top stays word-aligned, inside its limits |
| `GrowthReaches` | no bus error in the stack window | the doubled or extended size covers the address |
| `FlatTheorem` | `Memory` implements `FlatMemory`, assuming `KernelDataSpared` | the mapping gives the bytes of the arrays at their addresses (`image`); every access is an access of the flat memory and every growth only adds zeros, since segments are apart and `expand_stack` copies what it has. `ClearedAreZero` is the invariant that `expand_k_data` needs: the part it clears holds zeros already. It is kept because `KernelDataSpared` lets no store go there or lets the segment never grow; `MemoryKernelData` shows that it cannot be left out |
| `ResolvedTheorem` | only a label that `.extern` placed has an address and waiting uses | `Sound(complete_table)`, kept by lookup, record, assemble and flush |
| `AddressTheorem` | no defined label moves, assuming `~GpNamesReused` | step by step from the same invariant |
| `SymbolsTypes` | `Spec => []TypeOK` (Symbols) | `TypeInvariant` adds that every use a label keeps points at an instruction or data word that exists and names it: resolving a use then neither misses nor lengthens the program |
| `LocalsTheorem` | `LocalsListedOnce`, assuming `~GpNamesReused` | `Listed`: what is on the list has an address, and so has every name of the $gp area; only a label without one is added |
| `DataReadBackTheorem`, `LabelsReachDataTheorem` | `DataReadBack`, `LabelsReachData` for any list of directives, sizes, alignments, addresses and growth | `DataInvariant`: every datum noted is `Good`: its bytes are in memory (or it began at the top, or is the swapped float), its label is its address, and it lies below the next datum of its own segment, which is what keeps later stores off it. `Written` says of each store, whole or in parts, in both byte orders, that it puts exactly its bytes at the cursor and moves it past them; it is proved for a byte first, then for halves, words and doubles by joining parts, and for strings and lists by induction over sets of numbers |
| `BranchTheorem` | `BranchReachesLabel` for every branch of the table, any distance between instructions, registers and codes | the facts about the rows (`TableFacts`) are proved over the table, in four parts; `BranchWord` is what a branch's word is without operands, so that or-ing them in keeps the immediate field (`BranchEncoded`). `BranchFound`: looking the word up finds a row; `BranchDecoded`: each row that may be found keeps the field, though several rows share an actual opcode. `FieldLeads` is the arithmetic: the field, extended and multiplied again, is the distance, less the delay slot |
| `ClassesTheorem` | `ClassesMatchFormats` for every row, any registers and codes | `ClassesOf`: the lists against the types and halves of every row, then against the fields these halves have |
| `CopyTheorem` | `CopyKeepsMeaning` for every row and any operands | `WordsDiffer`: no row has the word of another that keeps its operands; `KeptWord`: what such a row's word is looked up by has no operand in it, and its operands go where the word is zero; so only the row itself is found (`KeptFound`) and gives back the operands (`KeptDecoded`). Branches on a condition code do share their word: `CodeDecoded` finds one of the same coprocessor, with the bits that tell them apart |
| `ReferencesTheorem` | `ReferencesReachLabels`, assuming `~GpNamesReused`: every instruction and data word that names a settled label leads to it, in 32-bit addresses | `References`: each instruction has the shape its handler gives it (`Shape`), and either waits at its label, its LUI with it and still untouched (`Waits`), or leads to the address (`Arrives`); uses are listed latest first (`Ordered`); what names an erased label is of an earlier file (`Named`). `Staged` says for every prefix of the walk over the uses which fields are patched and what the LUI has been given; the load comes before its LUI, so the LUI takes the compensated offset. `PairLeads` adds the halves up |

### Arithmetic and coprocessor 1

| theorem | statement | argument |
|---|---|---|
| `ProductTheorem` | `unsigned_multiply` is exact for every width | the product of two-digit numbers; `CarryFact`: a wrapped sum is smaller than a summand exactly when it carried; the two carries add up, so the pair is the product |
| `SignedProductTheorem` | `signed_multiply` is the signed product modulo two words | `NegatedFact`: the complement of a pair with its carry is its negative; remainders are unique (`ModUnique`) |
| `MultiplyStepsTheorem` | mult, madd, msub and their unsigned forms are steps of `Accumulator` and keep HI and LO words | the two product theorems with `AddedFact` and `SubtractedFact`, the comparisons that find carry and borrow |
| `ArithmeticTypes`, `AccumulatorTheorem` | all values are words; `Arithmetic` implements `Accumulator` | the steps above, with mul, division (truncated quotients have a remainder of the dividend's sign), additions and subtractions whose sign test finds every overflow, and counts, where a loop's result is characterised by the bits it passed |
| `ShiftsTheorem`, `TestsTheorem` | `ShiftsMoveBits`, `TestsOrderWords` for every width, operand, amount and immediate | quotients and remainders by powers of two, which `NumberFacts` shows to divide each other; comparison of signed readings |
| `PseudoTheorem` | `PseudoSpec => []PseudoMeansItsName`, without delayed branches, for any registers, operands and immediates but those that wrap (`Wraps`: the greatest in `bgt` and `ble`, the least in `sub`), of which it says only that no other register changes, if the number of bits of a word divides the number of words (`W % Bits = 0`, which holds of every width that is a power of two, 32 among them) | `Underway`: the rest of the sequence is `Good` from the instruction reached, which says of each instruction ahead that where it leaves the sequence, by its end, a taken branch or an overflow, the registers meet the property; so a step forward keeps it. At the start it is shown form by form, from the last instruction back (`UnaryGood`, `RotateGood`, `BinaryGood`, `OrderedGood`, `OrderedImmGood`, `EqualGood`). `OverflowTests` says that the sign test finds exactly the sums out of range; `FittingField` that an immediate that fits is the one the machine extends again; `HalvesJoined` that a word's halves share no bit, so that LUI and ORI put it together (`ProducedImmediate`); `CombinedBits` what OR and XOR do to each bit; `RotatedWord` that two opposite shifts are a rotation. The condition on the width is needed where a rotation subtracts a register: the machine takes its low bits, which is the amount modulo `Bits` only then. TLC finds the rotation wrong for words of six bits |
| `LinkedTheorem`, `CodeZeroTheorem`, `SavedStatusTheorem` | `CodesLinked`, `CodeZeroKept`, `SavedStatusRestored` for any set of codes below 8 and any values given to CTC1 | `CodesInvariant`: while `history.loose` is false FCSR has only its own bits, and FCCR is what CTC1 would make of them |
| `DoublesTheorem` | `DoublesStayWhole` for any registers, words, doubles and CPUs: no double is mixed with another's words but one that came through an LDC1 with delayed loads, of which `DelayedDoubles` shows the loss | `FloatInvariant`: every load on its way belongs to the CPU that runs, and what has been promised for a register is in it or in the slot that will write it; nothing is assumed about how many CPUs have delayed loads, because one executes at a time here |

Assumptions.  `WidthAssumption` asks for half words of at least one bit; the powers of two are a
recursive function whose facts `NumberFacts` proves by induction over sets of numbers.
`LayoutAssumption` and `AccessAssumption` (Memory) ask that the segments
with their limits do not meet, that sizes are whole words and that programs access 1, 2 or 4 bytes.
`AddressAssumption` (Symbols) asks for aligned bases above 16 bits and a $gp area within 32 KB, as
`mem.h` lays them out.  `LoadAssumption`, `UnalignedAssumption` and `FloatAssumption` say that
registers come in pairs, that the values are what the words of memory can be, and
that the empty slot is not a load; `CodesAssumption` that codes fit the three bits of the instruction; `RegistersAssumption` (Pseudo) that a program
does not name $at and does not name $0 as a destination; `SegmentAssumption` (DataSegment)
that the user's segment with its limit ends below the kernel's: `data_limit` is an int, and K_DATA_BOT is
further than that from DATA_BOT (`mem.h`); `OperandsAssumption` (Codec) that instructions
are four bytes apart, condition codes have three bits and registers are numbers.
TLC evaluates each of them in a run.  The conditions in the theorems' ASSUMEs are true of the runs
that check the property: `AtMostOneDelayed` (`Units` has two CPUs, one delayed), `KernelDataSpared`
(`Memory`), `~GpNamesReused` (`Symbols`); `PlainMachine` and `Conventional` (`CpuUserView`, where
`ConventionsFollowed` has TLC evaluate them).

`Conventional(p, user, handler)` is what a program and its handler have to keep to be undisturbed.  Both texts are closed
under what may follow an instruction; the program may fault, trap, call the system, and write
Status, Cause and EPC, but does not set EXL, jump through a register or execute ERET; the handler faults
nowhere, writes only Cause and Compare of CP0, and returns with ERET.  `PlainMachine` has no delayed
branches or loads and no debugger printing: for delayed branches the statement is false (`CpuDelaySlot`), and
printing drops exceptions.

Model-checked only:

- `ExceptionReachesHandler` is liveness;
- `ListMeansItsItems`: `Expressions` parses with recursive operators and evaluates bitwise ones, of
  which the provers know nothing.

## 5. Plan

1. Done: interpreter control and exceptions, delayed loads, memory, symbols,
   arithmetic, with their abstract specifications.
2. Done: shifts and comparisons, unaligned loads and stores, the registers and
   condition codes of CP1, the codec with the whole table, pseudo instructions, data
   directives, expressions.
3. Theorems.  Done: interpreter control; delayed loads and the pairs of unaligned accesses;
   memory with its flat specification; types, locals, addresses and references of the symbol
   table; all of the integer arithmetic; doubles and condition codes; the refinement of
   `CpuUserView`; data directives; pseudo instructions; the codec.  Left: the expressions, whose
   grammar would have to be folds for the provers.
4. When the helpers exist: the pseudo instructions that multiply, divide and set on a
   condition; when the console registers are back, their timers composed with the interrupts of
   `CpuControl`.

Not modelled and why: the grammars of directives and instructions (no state between two
inputs; they build trees, and their actions are modelled from the comments), recognisers of
tokens, host floating-point arithmetic, AND, OR, XOR, NOR and LUI but where a pseudo instruction
needs them, printing and the printer of trees, system calls that only read or write
the console or a file, the command line, and the engine and user interface, which are not in the
repository.
