-------------------------- MODULE TranslatedBlocks --------------------------
(***************************************************************************)
(* The cache of translated blocks behind the Game Boy's optimised          *)
(* policies.  An instruction that missed the cache is fetched and          *)
(* executed, and then the run of instructions that starts with it is       *)
(* translated; a later visit executes the cached bytes without fetching.   *)
(* Writes and bank switches invalidate what they touch, with a count of    *)
(* live blocks per page to skip the search.                                *)
(*                                                                         *)
(* The address space is a switchable ROM window, RAM, the echo of that RAM *)
(* and high RAM, in this order.  A byte is an opcode or stands for one: a  *)
(* one-byte instruction, the first of two, a jump, HALT, or one the fast   *)
(* path does not know.  Any instruction may store a byte.                  *)
(***************************************************************************)
EXTENDS Integers, Sequences, FiniteSets

CONSTANTS
    RomSize, RamSize, HighSize,     \* bytes of each region
    PageSize,
    MaxBlocks,                      \* capacity of the cache
    MaxInstructions,                \* instructions of a block
    Stores,                         \* bytes the program may store
    MaxStores,                      \* bound: stores
    MaxGenerations                  \* bound: the generation that changes of policy reach

Opcodes == {"nop", "wide", "jump", "halt", "other"}
Policies == {"baseline", "block", "ir"}

\* Every region has a byte, and a block an instruction.
ASSUME BlocksAssumption ==
    /\ {RomSize, RamSize, HighSize, PageSize, MaxBlocks, MaxInstructions} \subseteq Nat \ {0}
    /\ Stores \subseteq Opcodes /\ {MaxStores, MaxGenerations} \subseteq Nat

Echo == RomSize + RamSize               \* where the echo begins
High == Echo + RamSize
AddressCount == High + HighSize
Address == 0 .. AddressCount - 1
Page(a) == a \div PageSize
Pages == {Page(a) : a \in Address}

VARIABLES
    memory,     \* what RAM and high RAM hold
    romBank,    \* the ROM bank in the window
    pc,
    halted,     \* haltFlag
    policy,     \* the executor policy's backend: "baseline", "block" or "ir"
    cache,      \* the ThreadedBlockCache
    session,    \* portableIrBlockSession_
    stores      \* stores so far

blockVars == <<memory, romBank, pc, halted, policy, cache, session, stores>>

-----------------------------------------------------------------------------
(* Memory.                                                                 *)

\* normalizeAccessAddress: the echo is the RAM below it.
Normalize(a) == IF a >= Echo /\ a < High THEN a - RamSize ELSE a

\* Two banks whose code differs.
RomByte(b) == IF b = 0 THEN "nop" ELSE "jump"

Byte(mem, b, a) ==
    LET n == Normalize(a) IN IF n < RomSize THEN RomByte(b) ELSE mem[n]

Length(opcode) == IF opcode = "wide" THEN 2 ELSE 1

\* The bytes of the instruction at a; addresses wrap at the end.
Fetched(mem, b, a) ==
    [i \in 1 .. Length(Byte(mem, b, a)) |-> Byte(mem, b, (a + i - 1) % AddressCount)]

\* What the HALT bug makes of it: the first byte is fetched twice, so that the
\* others are one address too low.
FetchedTwice(mem, b, a) ==
    [i \in 1 .. Length(Byte(mem, b, a)) |->
        Byte(mem, b, IF i = 1 THEN a ELSE (a + i - 2) % AddressCount)]

\* What an instruction may store, nothing included.
NoStore == [at |-> -1, value |-> "nop"]
Effects == {NoStore} \cup (IF stores < MaxStores THEN [at : Address, value : Stores] ELSE {})

\* A store into the ROM window selects a bank.
Stored(mem, e) ==
    LET n == Normalize(e.at) IN
    IF e = NoStore \/ n < RomSize THEN mem ELSE [mem EXCEPT ![n] = e.value]
Banked(b, e) ==
    IF e # NoStore /\ e.at < RomSize THEN (IF e.value = "wide" THEN 1 ELSE 0) ELSE b

-----------------------------------------------------------------------------
(* ThreadedBlockCache.                                                     *)

NoSlot == [block |-> 0, index |-> 0]
EmptySlots == [a \in Address |-> NoSlot]
NoPages == [p \in Pages |-> 0]
EmptyCache == [blocks |-> << >>, slots |-> EmptySlots, pages |-> NoPages, generation |-> 0]

Hits(c, a) ==
    /\ c.slots[a] # NoSlot
    /\ LET block == c.blocks[c.slots[a].block] IN
       block.valid /\ block.generation = c.generation
Hit(c, a) == c.blocks[c.slots[a].block].instructions[c.slots[a].index]

\* Mutant: a block counts in the page where it starts.
CoveredPages_First(block) == {Page(block.start)}

\* adjustActivePages: from the first page to the last, which may have wrapped.
CoveredPages(block) ==
    LET first == Page(block.start)  last == Page(block.end) IN
    {p \in Pages : IF first <= last THEN first <= p /\ p <= last ELSE first <= p \/ p <= last}

ClearEntries(c) == [c EXCEPT !.blocks = << >>, !.slots = EmptySlots, !.pages = NoPages]

\* A full cache is emptied; the new block takes over the slots of the
\* addresses its instructions start at.
Insert(c, block) ==
    LET room == IF Len(c.blocks) >= MaxBlocks THEN ClearEntries(c) ELSE c
        n == Len(room.blocks) + 1
        starts(a) == {i \in DOMAIN block.instructions : block.instructions[i].at = a}
        slots == [a \in Address |-> IF starts(a) = {} THEN room.slots[a]
                                    ELSE [block |-> n, index |-> CHOOSE i \in starts(a) : TRUE]]
        pages == [p \in Pages |-> room.pages[p] + (IF p \in CoveredPages(block) THEN 1 ELSE 0)] IN
    [room EXCEPT !.blocks = Append(room.blocks, [block EXCEPT !.generation = c.generation]),
                 !.slots = slots, !.pages = pages]

\* invalidateBlock, for each of a set of blocks that are valid.
InvalidateBlocks(c, doomed) ==
    LET uncounted(p) == Cardinality({i \in doomed : p \in CoveredPages(c.blocks[i])})
        blocks == [i \in DOMAIN c.blocks |-> [c.blocks[i] EXCEPT !.valid = @ /\ i \notin doomed]]
        slots == [a \in Address |-> IF c.slots[a].block \in doomed THEN NoSlot ELSE c.slots[a]]
        pages == [p \in Pages |-> c.pages[p] - uncounted(p)] IN
    [c EXCEPT !.blocks = blocks, !.slots = slots, !.pages = pages]

\* invalidateRange of one address, if its page has a live block.
InvalidateAddress(c, a) ==
    IF c.pages[Page(a)] = 0 THEN c
    ELSE InvalidateBlocks(c, {i \in DOMAIN c.blocks : /\ c.blocks[i].valid
                                                      /\ c.blocks[i].start <= a
                                                      /\ c.blocks[i].end >= a})

\* invalidate, after a guard has failed.
InvalidateAt(c, a) ==
    InvalidateBlocks(c, {i \in DOMAIN c.blocks : i = c.slots[a].block /\ c.blocks[i].valid})

InvalidateAll(c) ==
    [c EXCEPT !.generation = @ + 1,
              !.blocks = [i \in DOMAIN @ |-> [@[i] EXCEPT !.valid = FALSE]],
              !.slots = EmptySlots, !.pages = NoPages]

ClearAll(c) == [ClearEntries(c) EXCEPT !.generation = @ + 1]

\* invalidateBlockCacheForWrite, from the memory map's write observer.
InvalidateForWrite(c, e) ==
    LET a == Normalize(e.at) IN
    CASE e = NoStore -> c
      [] e # NoStore /\ a < RomSize -> InvalidateAll(c)
      [] e # NoStore /\ a >= RomSize -> IF policy = "baseline" THEN c ELSE InvalidateAddress(c, a)

-----------------------------------------------------------------------------
(* Translation.                                                            *)

\* What ends a block after an instruction: control flow, HALT, or the next one
\* starts on another page.
Ends(start, instruction) ==
    LET next == instruction.at + Len(instruction.bytes) IN
    \/ instruction.bytes[1] \in {"jump", "halt"}
    \/ next >= AddressCount \/ Page(next) # Page(start)

\* populateBlockCache adds the instruction after the last, as it is now, until
\* a block ends, the fast path does not know it or it wraps.
Extended(mem, b, done) ==
    LET last == done[Len(done)]
        next == last.at + Len(last.bytes) IN
    IF \/ Ends(done[1].at, last)
       \/ Byte(mem, b, next) = "other"
       \/ next + Length(Byte(mem, b, next)) > AddressCount
    THEN done
    ELSE Append(done, [at |-> next, bytes |-> Fetched(mem, b, next)])

\* A block of at most n instructions, for each n: the one that was executed, as
\* it was fetched, and those that follow it.
Translated(mem, b, start, bytes) ==
    LET grown[n \in 1 .. MaxInstructions] ==
          IF n = 1 THEN <<[at |-> start, bytes |-> bytes]>> ELSE Extended(mem, b, grown[n - 1])
    IN grown

EndOf(instructions) ==
    LET last == instructions[Len(instructions)] IN
    (last.at + Len(last.bytes) - 1) % AddressCount

\* The addresses a block was read from.
Span(instructions) ==
    UNION {{(instructions[i].at + k - 1) % AddressCount : k \in DOMAIN instructions[i].bytes} :
             i \in DOMAIN instructions}

\* The optimised backends may lower a prefix of a block without HALT to IR, if
\* none of the block's bytes is in the echo.
Lowerable(instructions) ==
    IF policy = "ir" /\ \A a \in Span(instructions) : a < Echo \/ a >= High
    THEN {n \in 0 .. Len(instructions) : \A i \in 1 .. n : instructions[i].bytes[1] # "halt"}
    ELSE {0}

\* The blocks that may come of it; stale says that the first instruction, as it
\* was executed, is not what memory holds now.
Blocks(mem, b, start, bytes) ==
    LET instructions == Translated(mem, b, start, bytes)[MaxInstructions]
        stale == bytes # Fetched(mem, b, start) IN
    {[start |-> start, end |-> EndOf(instructions), instructions |-> instructions,
      lowered |-> lowered, valid |-> TRUE, generation |-> 0, stale |-> stale] :
        lowered \in Lowerable(instructions)}

-----------------------------------------------------------------------------
(* Execution.                                                              *)

BlocksInit ==
    /\ memory \in [{a \in Address : Normalize(a) = a /\ a >= RomSize} -> Stores]
    /\ romBank = 0 /\ pc \in Address /\ halted = FALSE
    /\ policy \in Policies /\ cache = EmptyCache /\ session = NoSlot /\ stores = 0

\* Where an instruction leads: pcAdvance further, or anywhere.
Leads(instruction, pcAdvance) ==
    IF instruction.bytes[1] = "jump" THEN Address
    ELSE {(instruction.at + pcAdvance) % AddressCount}

Writes(e) ==
    /\ stores' = IF e = NoStore THEN stores ELSE stores + 1
    /\ memory' = Stored(memory, e) /\ romBank' = Banked(romBank, e)

Executes(instruction, pcAdvance, e) ==
    /\ Writes(e)
    /\ pc' \in Leads(instruction, pcAdvance)
    /\ halted' = (instruction.bytes[1] = "halt")
    /\ UNCHANGED policy

\* What the guard on the CPU's state may say; only the IR has one.
Guards == IF policy = "ir" THEN BOOLEAN ELSE {FALSE}

SessionBlock == cache.blocks[session.block]

\* portableIrBlockContinuationValid; holds says whether the guard on the
\* CPU's state holds.
ContinuationValid(holds) ==
    /\ holds /\ SessionBlock.valid /\ SessionBlock.generation = cache.generation
    /\ session.index <= SessionBlock.lowered
    /\ SessionBlock.instructions[session.index].at = pc

\* irGuardFailure: the code bytes of the lowered prefix are the block's.
CodeUnchanged(block) ==
    \A i \in 1 .. block.lowered :
        block.instructions[i].bytes = Fetched(memory, romBank, block.instructions[i].at)

HasIr == policy = "ir" /\ Hits(cache, pc) /\ cache.blocks[cache.slots[pc].block].lowered > 0

EntersIr(holds) ==
    /\ HasIr /\ holds
    /\ CodeUnchanged(cache.blocks[cache.slots[pc].block])
    /\ cache.slots[pc].index <= cache.blocks[cache.slots[pc].block].lowered

IrRuns(holds) == IF session # NoSlot THEN ContinuationValid(holds) ELSE EntersIr(holds)

\* tryExecutePortableIrBlockInstruction, when it executes one.
StepIr(e) ==
    LET at == IF session # NoSlot THEN session ELSE cache.slots[pc]
        block == cache.blocks[at.block]
        instruction == block.instructions[at.index] IN
    /\ ~halted /\ IrRuns(TRUE)
    /\ Executes(instruction, Len(instruction.bytes), e)
    /\ cache' = InvalidateForWrite(cache, e)
    /\ session' = IF instruction.bytes[1] = "jump" \/ at.index = block.lowered THEN NoSlot
                  ELSE [at EXCEPT !.index = @ + 1]

\* When it does not: a block whose code has changed is invalidated.
AfterIr(holds) ==
    IF session = NoSlot /\ HasIr /\ holds
         /\ ~CodeUnchanged(cache.blocks[cache.slots[pc].block])
    THEN InvalidateAt(cache, pc) ELSE cache

\* tryExecuteTranslatedBlock: the cached bytes are executed as they are.
StepCached(e, holds) ==
    LET c == AfterIr(holds) IN
    /\ policy # "baseline" /\ ~halted /\ ~IrRuns(holds) /\ Hits(c, pc)
    /\ Executes(Hit(c, pc), Len(Hit(c, pc).bytes), e)
    /\ cache' = InvalidateForWrite(c, e) /\ session' = NoSlot

\* An instruction at pc that was fetched and executed is translated as it was
\* fetched, if the fast path knew it.
Translates(c, bytes, e) ==
    IF bytes[1] = "other" THEN cache' = InvalidateForWrite(c, e)
    ELSE \E block \in Blocks(memory', romBank', pc, bytes) :
             cache' = Insert(InvalidateForWrite(c, e), block)

\* Otherwise the instruction is fetched and executed.
StepFetched(e, holds) ==
    LET c == AfterIr(holds)
        bytes == Fetched(memory, romBank, pc) IN
    /\ policy # "baseline" /\ ~halted /\ ~IrRuns(holds) /\ ~Hits(c, pc)
    /\ Executes([at |-> pc, bytes |-> bytes], Len(bytes), e)
    /\ Translates(c, bytes, e) /\ session' = NoSlot

\* An interrupt that is pending but not enabled wakes the CPU without being
\* entered: the cache is passed over, and what is fetched, executed and
\* translated has the HALT bug.
StepWoken(e) ==
    LET bytes == FetchedTwice(memory, romBank, pc) IN
    /\ policy # "baseline" /\ halted
    /\ Executes([at |-> pc, bytes |-> bytes], Len(bytes) - 1, e)
    /\ Translates(cache, bytes, e) /\ session' = NoSlot

\* The baseline policy, and what stores without executing an instruction:
\* the entry of an interrupt, which ends HALT, and the debugger.
StoreDirectly(e) ==
    /\ policy = "baseline" \/ e # NoStore
    /\ Writes(e) /\ pc' \in Address
    /\ halted' \in IF policy = "baseline" THEN BOOLEAN ELSE {FALSE, halted}
    /\ cache' = InvalidateForWrite(cache, e)
    /\ UNCHANGED <<policy, session>>

\* attachExecutorPolicy: the cache is cleared when it is switched off, and
\* invalidated when the IR is switched on or off.  A restored state and a new
\* program invalidate it too.
AttachPolicy(p) ==
    LET off == IF p = "baseline" /\ policy # "baseline" THEN ClearAll(cache) ELSE cache IN
    /\ policy' = p /\ session' = NoSlot
    /\ cache' = IF p = policy \/ (p = "ir") # (policy = "ir") THEN InvalidateAll(off) ELSE off
    /\ cache'.generation <= MaxGenerations
    /\ UNCHANGED <<memory, romBank, pc, halted, stores>>

BlocksNext ==
    \/ \E e \in Effects :
          \/ StepIr(e) \/ StepWoken(e) \/ StoreDirectly(e)
          \/ \E holds \in Guards : StepCached(e, holds) \/ StepFetched(e, holds)
    \/ \E p \in Policies : AttachPolicy(p)

BlocksSpec == BlocksInit /\ [][BlocksNext]_blockVars

-----------------------------------------------------------------------------
Fresh(instruction) == instruction.bytes = Fetched(memory, romBank, instruction.at)

\* Four ways in which the i-th instruction of a block escapes invalidation.  The
\* block began with it, and it rewrote itself or switched its own bank away
\* before it was translated, or was fetched with the HALT bug; its block runs in
\* the echo, and writes are looked up below it; or the block wraps around the
\* end of the address space.
Escapes(block, i) ==
    \/ block.stale /\ i = 1
    \/ \E a \in Span(block.instructions) : a >= Echo /\ a < High
    \/ block.end < block.start

\* Executing from the cache is executing from memory: every instruction that a
\* lookup, or the IR session, would execute without fetching is the one in
\* memory now, whatever was stored, banked, evicted or overlaid by a newer
\* block since, except those that escape.
NoStaleCode ==
    /\ \A a \in Address :
          Hits(cache, a) =>
              /\ Hit(cache, a).at = a
              /\ \/ Fresh(Hit(cache, a))
                 \/ Escapes(cache.blocks[cache.slots[a].block], cache.slots[a].index)
    /\ session # NoSlot /\ ContinuationValid(TRUE) =>
          \/ Fresh(SessionBlock.instructions[session.index])
          \/ Escapes(SessionBlock, session.index)
=============================================================================
