------------------------------- MODULE MCUnits -------------------------------
(***************************************************************************)
(* The units of the machine that share no state, one at a time: the delayed *)
(* loads of several CPUs, the integer arithmetic, the shifts, comparisons   *)
(* and traps, the unaligned loads and stores, the registers and condition   *)
(* codes of the floating-point coprocessor, the codec, the pseudo           *)
(* instructions, the data directives, and the expressions they are given.   *)
(* The initial state chooses the unit that runs; the others stay as they    *)
(* were created, so that the states of the run are the sum, not the         *)
(* product, of theirs.                                                     *)
(***************************************************************************)
EXTENDS Arithmetic, WordOperations, Unaligned, FloatRegisters, ConditionCodes, DataSegment,
        Codec, Pseudo

VARIABLES
    unit,
    regs, next, last,   \* the registers and slots when nothing but loads is of interest
    text, stage, read, values

integers == <<rs, rt, HI, LO, done, result>>
slowLoads == <<regs, next, last>>
loads == <<vars, cpu, build, mem, pair, user, memory, meant, steps>>
codes == <<FCCR, FCSR, FIR, word, fpu, history>>
texts == <<text, stage, read, values>>

(* Two words of memory and a register whose bytes are all different.        *)
EightBytes == [w \in 1 .. 2 |-> [i \in 0 .. 3 |-> 4 * w + i]]
RegisterBytes == [i \in 0 .. 3 |-> 20 + i]

(* Two doubles of two words each, and a word that is of neither.            *)
TwoDoubles == {"a", "b"}
ZeroSingle == <<"zero", 0>>
Singles == {ZeroSingle} \cup (TwoDoubles \X {0, 1})

AllAddresses == 1 .. 11
SomeConditions == {{"equal"}, {"unordered", "less"}}
SomeData == {<<"byte", 1>>, <<"half", 1>>, <<"half", 2>>, <<"word", 1>>, <<"float", 1>>, <<"double", 1>>}
SomeImages == {{}, {0, 1, 23, 26}, {3, 22, 25, 31}}
SomeDistances == {-32768, -8, 0, 4, 8188, 32764, 32768, 40000}

Loads == INSTANCE DelayedLoads
            WITH Regs <- 1 .. 2, Values <- {0, 1}, Zero <- 0, R <- regs, new <- next, old <- last
Read == INSTANCE Expressions
            WITH Numbers <- <<7, 3, 3>>, Before <- {<<>>, <<"-">>, <<"(">>, <<"~", "(">>}, After <- {<<>>, <<")">>},
                 Between <- {<<>>} \cup {<<op>> : op \in {"+", "-", "*", "/", "&", "|", ",", ":"}}

SomeCPU == CHOOSE c \in CPUs : TRUE
Sync == [opcode |-> "sync", rs |-> 0, rt |-> 0, rd |-> 0, sa |-> 0, fn |-> 0]

IntegersIdle == rs = 0 /\ rt = 0
AccumulatorIdle == HI = 0 /\ LO = 0 /\ done = <<"none", 0>>
UnalignedIdle == cpu = SomeCPU /\ build = [big |-> FALSE, fails |-> FALSE] /\ mem = EightBytes /\ pair = Idle
FloatIdle ==
    /\ user = SomeCPU /\ steps = 0
    /\ memory = [w \in Words |-> Zero]
    /\ meant = [reg |-> [p \in Pairs |-> Parts], mem |-> [w \in Words |-> Parts]]

MCInit ==
    /\ unit \in {"loads", "arithmetic", "operations", "unaligned", "float", "codes", "codec", "pseudo", "data", "texts"}
    /\ Loads!Init
    /\ IF unit = "arithmetic" THEN ArithmeticInit ELSE AccumulatorIdle
    /\ IF unit = "operations" THEN WordInit ELSE result = <<"none", 0>>
    /\ unit \notin {"arithmetic", "operations"} => IntegersIdle
    /\ IF unit = "unaligned" THEN UnalignedInit ELSE UnalignedIdle
    /\ IF unit = "float" THEN FloatInit ELSE FloatIdle
    /\ unit \notin {"unaligned", "float"} => Init
    /\ IF unit = "codes" THEN CodesInit
       ELSE /\ FCCR = {} /\ FCSR = {} /\ FIR = {} /\ word = {}
            /\ fpu = [fails |-> FALSE, last |-> "none"]
            /\ history = [zero |-> FALSE, loose |-> FALSE, saved |-> NotSaved]
    /\ IF unit = "codec" THEN CodecInit
       ELSE made = Sync /\ dist = 0 /\ slots = FALSE /\ slot = [copied |-> FALSE, inst |-> Sync, encoding |-> <<>>]
    /\ IF unit = "pseudo" THEN PseudoInit
       ELSE pseudo = <<>> /\ first = <<>> /\ now = <<>> /\ at = 0 /\ outcome = "running"
    /\ IF unit = "data" THEN DataInit
       ELSE /\ big = FALSE /\ in_kernel = FALSE /\ auto_alignment = TRUE
            /\ pc = <<>> /\ top = <<>> /\ bytes = <<>> /\ items = <<>> /\ lines = 0
    /\ IF unit = "texts" THEN Read!ExpressionsInit
       ELSE text = <<>> /\ stage = "text" /\ read = <<>> /\ values = <<>>

LoadsRun == unit = "loads" /\ Loads!Next /\ UNCHANGED <<unit, integers, loads, codes, cvars, pvars, dvars, texts>>
ArithmeticRuns ==
    /\ unit = "arithmetic" /\ ArithmeticNext
    /\ UNCHANGED <<unit, result, slowLoads, loads, codes, cvars, pvars, dvars, texts>>
OperationsRun ==
    /\ unit = "operations" /\ WordNext
    /\ UNCHANGED <<unit, HI, LO, done, slowLoads, loads, codes, cvars, pvars, dvars, texts>>
UnalignedRuns ==
    /\ unit = "unaligned" /\ UnalignedNext
    /\ UNCHANGED <<unit, user, memory, meant, steps, integers, slowLoads, codes, cvars, pvars, dvars, texts>>
FloatRuns ==
    /\ unit = "float" /\ FloatNext
    /\ UNCHANGED <<unit, cpu, build, mem, pair, integers, slowLoads, codes, cvars, pvars, dvars, texts>>
CodesRun == unit = "codes" /\ CodesNext /\ UNCHANGED <<unit, integers, slowLoads, loads, cvars, pvars, dvars, texts>>
CodecRuns == unit = "codec" /\ CodecNext /\ UNCHANGED <<unit, integers, slowLoads, loads, codes, pvars, dvars, texts>>
PseudoRuns == unit = "pseudo" /\ PseudoNext /\ UNCHANGED <<unit, integers, slowLoads, loads, codes, cvars, dvars, texts>>
DataRuns == unit = "data" /\ DataNext /\ UNCHANGED <<unit, integers, slowLoads, loads, codes, cvars, pvars, texts>>
TextsRun == unit = "texts" /\ Read!ExpressionsNext /\ UNCHANGED <<unit, integers, slowLoads, loads, codes, cvars, pvars, dvars>>

MCNext ==
    \/ LoadsRun \/ ArithmeticRuns \/ OperationsRun \/ UnalignedRuns
    \/ FloatRuns \/ CodesRun \/ CodecRuns \/ PseudoRuns \/ DataRuns \/ TextsRun

MCSpec == MCInit /\ [][MCNext]_<<unit, integers, slowLoads, loads, codes, cvars, pvars, dvars, texts>>

-----------------------------------------------------------------------------
(* The properties of the units that are instances; those of the units this  *)
(* module extends come with them.                                          *)

(* DelayedLoads: every load lands one instruction late, whoever else runs.  *)
EachLoadDelayed == Loads!LoadsAreDelayed

(* Expressions: the data of a directive are what its text means.            *)
ListMeansItsItems == Read!ListMeansItsItems
=============================================================================
