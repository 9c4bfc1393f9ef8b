# A verification development of ANT

ANT is a teaching architecture: two small processors (the 8-bit Ant-8 and the
32-bit Ant-32), each with an assembler, a virtual machine, a command-line
debugger and a Tcl development environment.  This directory holds TLA+ modules
of its virtual machines and tools, the TLC configurations that check them, and
TLAPS proofs.  They cover the Ant-32 from the source line to the executed
instruction: assembler, loader, processor with MMU, exceptions and timer,
registers and arithmetic, debugger, and the environment AIDE-32; and of the
Ant-8 the machine, its console, its debugger and the environment AIDE-8.  Paths
below are relative to `src/Src`.

## 1. Inventory

| Component | State it keeps | Operations | Correct when |
|---|---|---|---|
| Ant-32 MMU (`Ant32/Lib32/ant32_mmu.c`, `ant32_pmem.c`) | the TLB, register e2 | split and translate an address, look for a TLB entry, find the memory block | no access without one valid entry that permits it; e2 is the address of the fault |
| Ant-32 processor (`ant32_exec.c`, `ant32_except.c`, `ant32_boot.c`, `ant32_vm.c`) | `ant_t`: pc, mode, `int_disable`, `exc_disable`, `eh`, timer, registers (general, cycle, k, e0-e3), TLB, memory, console queues | execute an instruction, catch and throw, update timer and shadow registers, reset | user code is confined and can always trap; an exception's context is right and survives; the timer interrupt is neither lost nor taken while masked |
| Ant-32 arithmetic, register rules (`arith32.c`, `ant32_exec.c`) | registers, memory bytes | every instruction's operands, destination, second word, counters | 64-bit results are exact; a fault has written nothing; user code cannot name a supervisor register; memory is big-endian |
| Ant-32 debugger (`ad32_util.c`, `ad32.c`, `Lib32/ant32_dbg.c`) | breakpoint table, `Interrupted`, trace and surface flags, start address | 25 commands, two run loops, a signal handler | never passes a breakpoint; stops on SIGINT; does not disturb the program |
| Ant-32 assembler (`aa32.c`, `ant32_core.c`, `ant32_check.c`, `ant32_expand_op.c`, `ant32_backpatch.c`) | constants, known and unknown symbols, register names met, segment, offset, image, line table | three passes over the lines, expansion, data, backpatching, the file | an expansion does what the operation is for; every reference gets its symbol's final value; the passes agree |
| Ant-32 loader and line table (`ant32_load.c`, `ant32_code.c`) | memory, lines, labels | load, look up | what is loaded is what was assembled, with its own line |
| Ant-32 environment AIDE-32 (`Ant32/aide32_wish.c`, `Tcl32/aide32_control.tcl`) | console of one character each way, `running`, button, breakpoints, watchpoints; runs nest in Tk's `update` and `tkwait` | Run, Stop, Step, Reset, open, type, set the speed | output is shown and input deleted before the next instruction; Stop ends every run |
| Ant-8 machine (`Ant8/Lib8/ant8_exec.c`) | 16 registers, 256 bytes, pc, status | 16 instructions; input may stall | an address out of range is a fault; a stalled input is completed once; r0 stays 0 |
| Ant-8 environment AIDE-8 (`Ant8/aide8_wish.c`, `Ant8/Tcl8/*.tcl`) | breakpoints, register and format of a stalled input, last program assembled, label of the Run button, `INTERRUPTED` | Run, Stop, Step, Reset, Assemble, type, toggle a breakpoint, set the speed; callbacks nest in Tk's `update` | one run at a time; Stop, a halt or a breakpoint ends it; nobody waits for input that is there |
| Ant-8 debugger ad8 (`ad8_util.c`, `Lib8/ant8_dbg.c`, `ant8_watch.c`) | breakpoints, watchpoints with their last values, `Interrupted` | run, go, next, watch, break, zero, store, jump, reload; SIGINT | every change of a watched byte is announced with both values; a breakpoint always stops |
| Ant-8 assembler and loader (`aa8.c`, `ant8_core.c`, `ant8_check.c`, `ant8_load.c`) | symbol lists, image | assemble, load | as for Ant-32 |
| Console buffer (`AntCommon/ant_console.c`) | an area, its length, two indices | enqueue, dequeue, peek, reset | a FIFO: nothing typed is lost, repeated or reordered |
| Other common code (`ant_symtab.c`, `llist.c`, `ant_backpatch.c`, `ant_parse.c`) | symbol lists | add, delete and find symbols, patch bytes, parse a statement | no name is bound twice; the value found is the last one bound |
| Front ends, Tcl, tests, ROM, course exercise | - | options, widgets, text | out of scope, see section 8 |

How they interact.  The assembler writes a text image that the loader reads
into the machine's memory blocks.  `ant32.c` calls `ant_exec`, a loop around
`ant_exec_inst`; the debugger wraps the same function in `ant_exec_inst_dbg`
and calls `do_load_store` directly to look at memory; the IDEs call both from
Tcl callbacks.  All state is shared through one `ant_t` and a few file-scope
variables.  There are three kinds of concurrency: the SIGINT handler, which
writes a flag the run loops read; inside the machine, the timer, whose interrupt
falls between an instruction and its successor; and in the IDEs the callbacks of
the buttons, which run in one thread but on top of one another, because the
callback at hand calls Tk's `update` while it waits and redraws.

What is hard: two privilege modes and two disable flags that seven instructions,
every exception and the reset change, so that a safe state depends on the
order of events; shadow registers refreshed at the start of each instruction
that must stand still from the exception to the return; exceptions recorded in
one place for memory instructions and in another for the rest; an interrupt
looked for after an instruction that may have just changed the flags; a signal
flag cleared by some loops and not by others; a fixed table with holes; the
debugger's own accesses taking the path of the program's; in AIDE-8, an input
instruction left half done and completed by whoever types, and a run loop that
reads the pc, the status and the breakpoints again after the user may have
pressed anything.  `PROJECT.json`
lists these under "hazards", line by line.

## 2. Modules

    Ant32Mmu <- Ant32Cpu <- Ant32CpuProps <- MCAnt32Cpu
                   ^               ^-------- Ant32DebugProofs
                   |                                |
                Ant32Debug <- Ant32DebugProps <-----+
                                 |       ^------ MCAnt32Debug
                                 +- INSTANCE AntBreakpoints

    Ant32Arith <- Ant32Regs <- Ant32RegsProps <- MCAnt32Regs, Ant32RegsProofs
        ^
    AntSymtab <- AntParse <- Ant32Check <- Ant32Expand <- Ant32Asm <- Ant32Load
                                ^               ^                        |
                          Ant32Opcodes     Ant32Meaning <- Ant32AsmProps + <- MCAnt32Asm, Ant32AsmProofs
                                                                                        ^
                                                                              Ant32ExpandProofs

    Aide32 <- Aide32Props <- MCAide32, Aide32Proofs

    AntConsole <- Ant8Console <- MCAnt8Console
                    ^  |  ^----- Ant8Proofs
                    |  +- INSTANCE AntInputQueue
    Ant8InBuf ------+
                    +- Aide8 <- Aide8Props <- MCAide8
                                    ^-------- Aide8Proofs

    Ad8 <- Ad8Props <- MCAd8, Ant8Proofs
              +- INSTANCE AntWatches

    AntFolds <- Ant8Proofs, Ant32DebugProofs, Ant32RegsProofs, Ant32AsmProofs

**Ant32Mmu** holds the C functions that take the machine and modify it, as
operators from a machine to a record of the machine left and the values
returned: `V2P` is `ant32_v2p`, `FindTlbEntry` is `ant32_find_tlb_entry`
with its two loops (miss, one hit, several hits), `P2Vm` is `ant32_p2vm`.  A
virtual address is a number below `4 * NPages * PageSize`: two segment bits, a
page and an offset, as in the code with 2^18 pages of 4096 bytes.  A TLB entry
is a record instead of two packed words.

**Ant32Cpu** has three variables: `cpu` (the fields of `ant_t` that control
depends on), `rc` (what `ant_exec_inst` returned last) and the history variable
`raised`.  One action is one call of `ant_exec_inst`, all of it: `Fetched` is
the prologue (shadow registers, timer, fetch), each action's own part is its
handler, `Finish` is the epilogue (timer interrupt, catch, throw).  Actions
carry the names of the opcodes; instructions that only touch general registers
are one action, `Compute`.  Contents of memory and registers are not kept: the
instruction fetched may be any instruction, a register read may hold any word
of `Values` (`Handlers` for `leh`, `TimerVals` for `timer`, `Storable` for
`tlbse`).  That covers every program, and also runs no single program has; the
properties hold of all of them.  `Reset` is `ant_reset`, which the front
ends may call between any two instructions.  `eh` is not initialised by
`ant_create` nor set by `ant_reset`: `Init` takes any value.  `TLBPI`
reads its local `fault` uninitialised after a hit: the model returns any member
of `StaleFault`.

**Ant32Debug** adds the command loop.  `loc` says where `ant_debug` is: showing
the current instruction, waiting for a command, inside `ant_exec_dbg` ("run") or
`exec_next` ("next"), or gone.  Commands are actions named for them, each with
its checks and early returns.  `TracePeek` and `ExecInstDbg` are the two halves
of `ant_exec_inst_dbg`, split because SIGINT can fall between them; `Signal` is
the handler and may run at any time.  `ExecInst` of Ant32Cpu is the instruction
itself, so the debugger is checked with the whole processor under it.
`Synthetic` stands for the code-line table: the addresses inside the expansion
of a source line, which `n` runs through.  A command line that does not parse,
has undefined labels or the wrong number of arguments changes nothing and is
left out, and so are commands that only print variables.  `lc` is modelled for
e0, e1 and e2.

**AntBreakpoints** is what the user is promised of breakpoints: a set, with a
capacity.  `BreakpointSet` maps the table of slots to it; `stmnt`, the
command at hand, is part of the mapping, so a set that is silently refused, or a
clear that clears nothing, is not a stuttering step.

**AntConsole** is `ant_console.c` with its memory: the buffer is a function from
indices to bytes, a new one holds `Junk` until it is written, and the choice
between appending in place and reallocating is the code's.  **Ant8InBuf** is
`ant8_do_in_buf` as a function of what is pending and of the last character
read (`prev_char`): how many characters an input instruction takes, and whether
the value is zero.  The two loops that read a number, "digits" and "extra
characters", are kept apart: a line shorter than the digits takes the next line
with it, as the code does.  **Ant8Console** puts the two together, and
**AntInputQueue** is what the buffer promises, a sequence.

**Aide8** is the environment.  Its machine keeps the control of every
instruction and forgets data: a branch goes anywhere or not, a load or a store
may fault, a store may write any instruction of `Stored`, and of the registers
only r0 is kept, zero or not.  `stack` holds the callbacks that are inside an
`update`, the newest last; the user can act only while the newest one is in an
`update` (or there is none), and only the newest one goes on.  A run loop is at
`start` or `head` (about to test `INTERRUPTED` and execute), `wait` (polling for
input), `pause` (the redraw and the delay), `check` (status and breakpoints) or
`leave` (the last redraw).  Between two of these there is no `update`, so the
steps are atomic in the code too.  Callbacks whose `update` is the last thing
they do are not kept on the stack: they have nothing left to do.  `GantBufferInput`
is `gantBufferInput`, including the status it sets whatever it was.  Typing is by
whole lines, except for a `^D` at the start of one, which the code passes on at
once and again with the line.  The buffer is a sequence here, by the refinement.

**Ant32Arith** is two's complement on words of four bytes of `ByteBits` bits, C's
division and bit operators, and `arith32.c` with its half words and carries.
**Ant32Regs** executes instructions with their data: one action per handler of
`ant32_exec.c`, with its checks in the order of the code, the shared ending
(`Complete` catches, throws and resets r0), the counters and one word of memory
held as the little-endian host holds it.  `cpu` has the mode, the program counter,
the handler's address and the two flags, because the exception registers, which are
registers 252 to 255, depend on them: `Ticked` refreshes e0-e3 as
`ant32_exc_update` does, a memory access latches e2, and a fault is caught in e3.
It leaves out what Ant32Cpu has: the timer, translation (an access may be refused,
and what comes from the TLB is any of `Given`), and that an exception with
exceptions disabled ends the run.  The two modules have the same handlers and are
not composed.  Undefined C is what the usual build does: `DIV` of the smallest word
by -1 gives 0 by the code's own test, `MOD` traps the host (`HOST_TRAP`), a
character that is not there is any of `Given`.

**AntSymtab** and **AntParse** are the lists and the parser the assemblers share: a
line is a label, a mnemonic, tokens, and what is left behind them; `#` in a
string cuts the line, `.define` names are substituted, and conventions of
register names may not be mixed.  **Ant32Opcodes**, **Ant32Check** and
**Ant32Expand** are the tables: opcodes, what operands each operation accepts,
and the forms an operation is expanded to, taken in the order of the table.
**Ant32Asm** is a run of `aa32`: a step is one line of one of the passes over the
lines (check, text, data), the end of a pass, backpatching, or the file.
**Ant32Load** adds the loader as one more step.  Their definitions keep the faults
of the code (section 6), with one exception: where the code leaves its buffer,
because `remaining` is unsigned and wraps once the offset is past the memory or
`.addr` has made it negative, the model fails or writes an empty image, and no
property speaks of it (`InMemory`, `InOrder`).  **Ant32Meaning** is independent of them: what each
pseudo-operation is for, in terms of the native operation it extends, and an
interpreter of the instructions it is expanded to.  Only sums and differences
are computed there; other arithmetic is a mixture of opcode and operands that
differs when the operation, an operand or their order does.
Spelling is left out, so tokens are records with what the code would find; a name
that is not there is `NoName`.  `SourceAssumption` says what that leaves open of a
source: a token spelled like a register is one wherever it stands, because
`ant_find_reg` looks at spelling only, and the labels of a ROM are unique, because
`ant_load_labels` adds none twice.

**Ad8** is the Ant-8 debugger over any program: an instruction goes on, jumps,
stores a byte, reads a line, halts or faults.  Commands are actions named for
them; what is over at once shares `Command`.  The loop of `ant_exec_dbg` and the
single step of `n` are the places `run` and `next`; `Signal` may come at any
time.  The table of watchpoints is a sequence, as in the code filled in order,
searched from the front and closed up with its last entry.  **AntWatches** is
what it promises: a map from addresses to the value last seen.

**Aide32** is AIDE-32 without the machine's data: an instruction that depends on
it may take any course.  `stack` holds the runs in progress, the newest last; a
run is at `head` (about to test `running` and execute) or in the `pause` of
`update` and `tkwait`, on top of which the user may do anything.  `Handled` is
`handle_output`, `Prepared` is `prepare_input`; which ends of a run skip the
former is the code's.  `update_line` calls `update` too, for each line a window
lacks, which happens when a window is filled for the first time (the window of the
exception registers, say, at the first exception); those are left out.  An
instruction whose source cannot be read back raises a
Tcl error in `update_display`: `Unreadable`.

The operators marked "Seeded fault" are alternative bodies with a plausible
bug, used to make sure that the properties notice it; no action uses them.

## 3. Runs

| Run | Question | Size | Bounds |
|---|---|---|---|
| `cpu_timer` | can user code always trap, can it stop the machine, is the timer delivered, masked, and does it preempt? | 66,449 states | one page of two words per segment, one TLB entry, timer armed with 2, values {0, 16} |
| `cpu_mem` | is user code confined, are faults and interrupts of every kind reported rightly, does the context survive? | 143,255 states | two pages of one word, two TLB entries that may clash, one page without memory, aligned and misaligned addresses in mapped and unmapped segments; the timer goes off after the next instruction |
| `debug_break` | does every way of reaching a breakpoint stop, and is the table a set? | 866,376 states | two slots, three addresses, set and cleared one or two at a time, one address inside an expansion |
| `debug_look` | do commands leave the program alone, does SIGINT stop a run and only that run? | 126,600 states | a page mapped by the program, not executable; no breakpoints |
| `console` | is the buffer a queue, and where does an input instruction leave it? | 16,368 states | six characters pending, lines of up to four characters, two bytes of spare room, numbers of two digits |
| `ide` | whatever is pressed in whatever `update`: one run loop, breakpoints observed, stalled input completed, does Stop stop? | 616,416 states | two instructions, two programs, two characters pending, callbacks three deep, one breakpoint |
| `regs` | is every instruction exact, precise, confined to its registers, and memory big-endian? | 135,970 states | bytes of two bits, so words of eight; six extreme values in two registers, every handler once, 16 triples of registers from every class, both modes with both flags, the program counter aligned, misaligned and at its largest |
| `asm` | do expansions mean what they should, are instructions, data, labels and lines in place, do the passes agree, is what is loaded what was built? | 215,838 states | bytes of five bits; every program of three lines out of 18, and each operation that is expanded with ten constants at the edges of every range, two labels and the registers the expansions use themselves, before and after the label; three ROMs |
| `ad8` | is the table of watchpoints a map, does every change and every breakpoint stop? | 129,152 states | four addresses, bytes of one bit, two watchpoints, arguments in and out of range and more than the table holds |
| `ide32` | is the console dealt with before the next instruction, however runs nest, and does Stop end them all? | 97,584 states | three words, three programs that read, print, loop, halt and jump to what cannot be read; two characters typed, runs three deep |
| `regs_mul`, `asm_lch` | a statement of the documentation that the code does not keep (section 6) | | the instances above, or smaller ones |

Properties and runs are limited to those that ask a question of their own: what
only restates a guard, and the variants of one question, were dropped.

Why the bounds are enough.  The code treats addresses only through segment,
page, alignment and identity: two pages give a hit, a miss and a neighbour; two
entries give a clash; an unbacked page gives a bus error; 6 gives a
misalignment.  Two modes, two flags and two values of the timer meet in every
combination.  A user page of two words lets user code loop, which is needed for
preemption to be in doubt.  The one-word instances keep the wrap of the program
counter within reach.  Two slots with three addresses fill the table, make holes in it and
refuse.  The debugger instances drop the timer and the decoding faults, which
the processor runs cover: the debugger looks at none of them.  The timer is
counted down by the code, so nothing has to be cut off there.

In the console, six characters against two bytes of spare room make the buffer
fit exactly, overflow by one and move with bytes already read; the code has 4096
bytes to spare, and the proof covers every number.  In AIDE-8 two instructions
are enough for a loop, a branch and an odd address.  Three callbacks are a run, a
Step on top of it that waits, and another on top of that; what a callback
does depends only on the newest one and on the button, and the proofs cover
every depth.  `MaxPending` and `MaxDepth` are the only bounds that cut
behaviours off, and both sit in the guard of what the user does, not of what the
program does.

In the arithmetic, a word of eight bits has four digits of two bits, carries over
every boundary and its extreme values, and all pairs of the six values are tried
with every operation; one instruction is enough, because an instruction keeps
nothing but registers and memory, which the seeds vary (`MaxInsts` is 1).  In the
assembler a byte has five bits because the expansions add 8 to addresses; 20 bits
make a word.  A fault of ordering needs a label, a reference and a line between
them: three lines.  In ad8 two entries fill the table, and clearing the first of
them moves the second.  In AIDE-32 a Step or a Run on top of a Run on top of a
Run is the deepest that differs: what a callback does depends on the newest run
only, and the proof covers every depth.

Deadlock is checked for the processor: `ant_exec` can always be followed by a
reset, and for AIDE-8 and the console, where the user can always do something.
It is not for the debuggers, which the user may quit, for the
assembler, which ends, and for the registers, whose number of instructions is
bounded.

## 4. Properties

Processor: `UserExceptionsEnabled`, `UserNeverStops`, `UserConfined` and
`UserFetchAuthorised` are protection; `ContextFrozen`, `ContextFresh` and
`E3Faithful` say that a handler can rely on e0-e3; `NoLostTimer` (the interrupt is
neither left behind nor dropped) and `Preempted` are the timer.  Two of them have
exceptions because the code has.  `ContextFresh` says what is so of an exception
raised while exceptions were disabled at the start of the instruction: the context is
an earlier one's (`ContextFrozen`), and a handler meets it only if a timer interrupt
follows `rfe` or `cle` at once.  `E3Faithful` excepts the timer and unknown opcodes
after the memory prefix (`MemPrefix`), which nobody records, see section 6; the mode
when an interrupt follows `rfe`, which is the new one; and, for the kind of access,
what TLBPI returns uninitialised (`StaleFault`).

Registers: `WideExact` (the pair that ADDO, SUBO and MULO return is the whole
result; for the product except the case of section 6), `PreciseFaults` (an
instruction that raises an exception can be executed again, and e0 and e1 say which
it was), `UserRegistersOnly` (in whatever operand a register of the supervisor is
named; of e0-e3 only what the processor records of a user's instruction changes)
and `BigEndianMemory`.

Assembler and loader: `ExpansionMeans`, `ItemsInPlace` (data and instructions, with
the labels as they end up), `LabelsName`, `LoadedAsBuilt` and `PassesAgree`.  Its type invariant `AsmTypeOK` says two things
more: neither list binds a name twice, and every place that waits for a label, to
be patched in the end, is a byte of something assembled.  Where the code is known to depart from them,
a named predicate says so: `WrongForm`, `StackClash`
(pushing the stack pointer stores the one already moved, and popping it moves the one
just read), `OwnRegs` (the comment at `ant32_expand_op.c` 23 reserves a register that
the assembler accepts as an operand all the same), `LchAstray` (`lch` of a label takes the low
half and has its own opcode patched), `WordAstray`, `AlignAstray`, `InstAstray`
(`.addr` put an instruction in the middle of a word: its patch may fall in the data
behind it), `InMemory` (neither `.addr` nor the size of data is held to the memory),
`NoAddr` or `InOrder` for `.addr` going back, and `Loadable` (the loader passes over
a word whose address is not mapped, and the jump at the reset address or a word of
the ROM may be written over one of the program).  They were found by these
properties and their proofs (section 6).

Ant-8 debugger: `WatchTable` (the refinement of AntWatches), `ChangeStops` and
`BreakHonoured`.

AIDE-32: `CaughtUp` and `StopReturns`.  `CaughtUp` is about no run or one: with a
second one nested the console may be handled late, see section 6.

Debugger: `BreakpointsHonoured` (after the first instruction of a command, the
loop never stands on a breakpoint; the instruction a command starts at is
executed even if there is one, as the code does), `BreakpointSet`,
`DebuggerDiscreet`, `RunExecutes`, `InterruptStops`.

Console: `InputQueue` (the refinement), `EoiLasts` (the end of input is met again
until it is flushed) and `NumberEndsLine`.

AIDE-8: `OneRunLoop`, `StallHasWaiter`, `NobodyWaitsForTyped`, `BreakObserved`
and `StopEnds`.  `StallHasWaiter` allows a Run that starts on top of a Step that
waits: it passes the stalled instruction by, and its input is never read; nothing
in the repository says what should happen.  `BreakObserved` is about every
instruction but the first after Run, as the comment in `ant_run_loop` explains.
`StopEnds` excepts the user who makes a callback on top of the run wait for input:
the run cannot end before that callback returns.

Fairness.  `FairSpec` assumes that `ant_exec`, a loop that only its own
return leaves, keeps executing while user code runs; nothing is assumed of
supervisor code or of which instruction comes next.  `FairDbgSpec` assumes that
the debugger's own loops go on (`Show`, `TracePeek`, `ExecInstDbg`); nothing of
what the user types or of signals.  `FairSpec` of Aide8 assumes that Tcl goes on
with the newest callback: `update` returns once no event is pending, and `after`
once its time is over.  `FairSpec` of Aide32 assumes the same: the newest run goes
on when its `update` returns, and Tk's timer, which `tkwait` waits for, goes off.
All are weak fairness of one sequential piece of code
that never blocks.

## 5. Proofs

The first part of `Ant32DebugProofs` is about the processor.  It proves, for every
page size, number of pages and TLB entries, memory map and set of values:
`TypeCorrect`, `UserCanTrap`, `TimerNotLost`, `UserCannotStop`, `ContextSurvives`,
`ContextReported`, `UserIsConfined` (`UserConfined`), `UserFetches`
(`UserFetchAuthorised`) and `ExceptionsTold` (`E3Faithful`).  The assumptions are
`MmuAssumption` and `CpuAssumption`: sizes are positive, values are words.  The
last page has memory, because `ant_create` always puts the ROM there.

The inductive invariant is `IInv == TypeOK /\ UserExceptionsEnabled`.  The argument: what a handler leaves (`Trappable`) is a
well-formed machine that, if it is in user mode, has exceptions enabled.  Only
`rfe` enters user mode, and it enables them; `ste` disables them and is refused in
user mode, `Finish` and the throw leave user mode whenever they disable them.
`UserExceptionsEnabled` must be part of the invariant because `ste` and the
throw are safe only from a state that already satisfies it, and it is what makes
a user exception return `ANT_EXC_OK` (`UserNeverStops`).  What a handler may
leave is `HandlerOk`; among the rest that it enables exceptions only as `rfe` and
`cle` do and disarms the timer only to raise its interrupt or as `timer` does, from
which, with the epilogue, `NoLostTimer` and the second half of `ContextFresh`
follow.  Every action gets one step in `ExecInstStep`; the action properties reuse it.

Confinement follows a user instruction through the same calls a second time.
`Kept` says that a machine has the supervisor's state of another one but for dirty
bits, and is transitive; translation, the catch and every user handler keep it, a
privileged handler does not run, and only the timer's tick comes before.  For
`UserFetches`, a fetch that fails leaves EXEC in e3, and one that succeeds had a
single hit (`FindTlbEntryUnique`) on a page with memory (`PageOf`).  `ExceptionsTold`
goes by where an exception comes from: an access that fails has left its kind in e3
(`AccessReports`), and what fails without one (`Silent`) raises nothing that
only the memory system raises; the throw keeps that (`CompleteTells`).  Without the
exception for `StaleFault` it is false: if the uninitialised value were ALIGN,
`TLBPI` would raise it as an access of no kind.

The second part carries this over to the debugger: `DbgSpecIInv`,
`DebuggerKeepsTraps` (no command breaks `UserExceptionsEnabled`) and
`NeverPastBreakpoint` (`BreakpointsHonoured` for every table size, program and
point where SIGINT arrives).  `BreakpointsHonoured` is not inductive: a command
could start a loop with the mark "has executed" of an earlier one; `DbgIInv`
adds that the mark is off whenever a command is read.  `RunGetsSomewhere` (`RunExecutes`) and
`DebuggerIsDiscreet` (`DebuggerDiscreet`) are action properties, one step per
command.  `BreakpointTableHolds` is the step simulation of AntBreakpoints:
`b` with several addresses is a fold over the table, and each argument adds its
address, finds it, or finds the table full.

`AntFolds` holds what these proofs share.  The folds of the community modules
choose a function by its recursive equation, and nothing is known of the choice
until one function is shown to exist: `FoldExists` builds it by induction on the
length, `FoldChain` turns it into the sequence of values the fold goes through, and
`SumExists` does the same for sums.  Induction itself comes from `SetInduction`,
which speaks of a set instead of a predicate and needs no operator as a parameter.

The part of `Ant8Proofs` on the console proves `ConsoleTypeCorrect` and
`ConsoleIsQueue`, for every set of lines, every number of digits and all spare room (`SlackAssumption`).
`TypeOK` is inductive: it says that the pending bytes lie inside the buffer and
were all written.  The refinement rests on three facts about copying bytes, each
a lemma: appending behind the pending bytes appends to the sequence, moving them
to the front of a new area keeps it, and advancing `con_start` cuts it.  `EndStays`
(`EoiLasts`) and `NumberTakesLine` (`NumberEndsLine`) follow an `in` through the
pending characters (`InReads`), for every width of a number.

Its part on the debugger proves `BreaksHonoured` (`BreakHonoured`) for every memory,
program and table; it is inductive, because what a command starts has executed nothing.
`WatchTableHolds` is the step simulation of AntWatches (`WatchTable`).  Its invariant
is `WatchIInv`: memory holds bytes and no address is in the table twice, which is
what makes the table a map and lets clearing one entry move the last into the hole
(`HoleFilled`).  `w` and `u` are folds over their arguments (`SetArg`, `ClearArg`).
`ChangesStop` (`ChangeStops`) follows an instruction through the look at the table.

`Aide8Proofs` proves `OneLoopAtATime`, `StallWaitedFor`, `TypedIsRead` and
`BreaksObserved`, for every memory, program, typing and depth of callbacks.  The
inductive invariant `IInv` adds to the three state properties that all but the
newest callback are in an `update`; that a run still at its start was not
interrupted (else it would be popped over a waiting Step); and that a
loop about to go on is not at a breakpoint.  `Starts`, `Returns`, `GoesOn` and
`StaysInUpdate` are the four things a step can do to the stack; every action is
one of them.  Types of the machine's data are not needed and not proved.

`Ant32RegsProofs` proves, for every size of byte, register file, set of instruction
fields and constants: `FaultsPrecise` (`PreciseFaults`), `UserKeptOut`
(`UserRegistersOnly`), `RegistersHoldWords` (`RegsTypeOK`), `MemoryBigEndian`
(`BigEndianMemory`) and `PairsExact` (`WideExact`), with `AddExact`, `SubExact` and
`MulExact` about the arithmetic alone.  For the first two the invariant is `IInv`
(`RegsInv`): a register file of words with r0 = 0, and user code only with exceptions
enabled, since otherwise e0-e3 would keep what software put there.  The argument: what
a handler makes of the registers is either `Untouched` (nothing but the counters and
the exception registers differs, and of these e0 and e1 are `Recorded`: of this
instruction, or kept while exceptions are disabled) or `Lawful` (nothing that user
mode forbids differs); an exception ends with the former, and writing a register that
`check_des_reg` has allowed keeps the latter.  TLBPI and TLBLE, which write without
asking again, are the supervisor's.  `UserKeptOut` adds that every operand that an
instruction's format has, the third one and the second of a pair too, was checked in
the mode at hand.  `RegsAssumption` says that registers start as words with r0 = 0,
and user mode with exceptions enabled, as Ant32Cpu proves of the whole machine.

`RegistersHoldWords` is inductive but for the results: a word cut to its size is a
word (`TruncateWord`), a quotient of words other than MIN / -1 is one (`QuotWord`),
and so are remainders, shifts, bit patterns and both halves of a product.
`MemoryBigEndian` compares digits: the bytes of a word are its digits to the base
`ByteSize`, the last with a sign (`DigitsOf`), so a word determines its bytes and
they determine it, whatever order the host keeps them in.  `MulExact` follows
`mul32x32`: the partial products of half words and their carries keep the number
that the four digits write (`DigitsValue`, `CarriedValue`), the complement negates it
(`NegatedValue`), and for the smallest word, which has no absolute value, the code
multiplies its neighbour and adds the other operand; the carry of that addition is
what goes wrong for a negative one (section 6), and what `MulExact` excepts.

`Aide32Proofs` proves `Aide32TypeCorrect` and `Aide32CaughtUp` for every program,
typing and depth.  `CaughtUp` is not inductive: a run that ends uncovers the one
below it, which might be about to execute.  `IInv` adds that all but the newest
run are in their `update`, so that this cannot be; `Settled` is what
`handle_output` leaves.

`Ant32AsmProofs` proves, for every source, ROM, base address and size of memory that
`AsmAssumption` and `SourceAssumption` allow:

* `PassesReadAlike` (`PassesAgree`).  `PassInv` keeps, for every line, what the first
  pass had bound when it met it: the list of constants and the register names seen.
  A later pass meets the line with more: what the earlier passes bound last.
  `Agree` says that what the first pass had found is found with the same value, and
  `ParsedSame` that a line which parsed with the smaller list gives the same
  statement with the larger one.  That needs the assumption on spellings: the
  register that makes the conventions mixed is refused, once, and looked up as a
  constant instead; a constant of such a name is bound only after that (`Context`).
* `LabelsNameItems` (`LabelsName`).  `LabelInv`: items adjoin as long as there is no
  `.addr`, and each label is bound to where its item begins; binding another one
  changes none, because a bound name is refused.  Items that take no room do not
  move what is behind them (`NothingBetween`).
* `AsmTypesCorrect` (`AsmTypeOK`).  `PatchInv` adds that the list of places to patch
  lies in the items.  It needs that every form of an expansion is a whole number of
  instructions (`FormSizes`, all forms of the table), because the bytes of a word
  are turned round inside it: otherwise `Host` leads out of the expansion.
  `WordsPatched` and `BytesPatched` say which places a statement adds.
* `ItemsStayInPlace` (`ItemsInPlace`). `DataInv` says what is in memory while the
  program is still being assembled: every place to patch is a byte of an instruction
  or a word that is of a label, named with its number (`Due`), and an item `Holds` its
  bytes wherever no label is waited for. What a byte is to be is said once for words,
  data, single instructions and the forms of the expansions (`ByteIs`; `Made` depends
  on the labels only where `LabelIn` names one, `MadeIs`). A statement writes only in
  its own room, as the Ant-32 sees it (`InstAdds`, `DataAdds`), and rooms do not meet
  (`StillHolds`, from `Orderly`). Backpatching is a chain of memories, one per place
  (`PatchChain`): a byte outside the list is kept, and one inside it ends with the
  byte of its label (`PatchesKeep`, `PatchedIs`), so that `HoldsAtLast` follows.
  `Orderly` speaks of the whole program, and the invariant of a prefix: `SaneSoFar`
  and `OrderlySane` go from one to the other.
* `LoadsAsBuilt` (`LoadedAsBuilt`), for every mapping (`LoadAssumption`) too.  The loader
  is a chain of states, one per line of the file (`LoadChain`), where a line changes the
  entry of one address (`Loads`).  `FileAddress` says which one without the loader's
  running address: that of the last line that has one, and four for every `+` since
  (`LineAddress`; sums of addresses wrap, `TruncateOn`).  The words of the program are
  less than a whole memory, so no two meet (`ImageApart`), and `Loadable` keeps the
  rest of the file away from them.  On the side of the assembler `CodeInv` keeps for
  every offset the line of the last item put there (`TextKept`).  Items that are in
  order make that the item's own line for its first word and none for the others
  (`OwnLines`), and the loader hands it on from the first word to them (`LinesLoad`,
  `ItemLoaded`).  A symbol list loaded in the order of the file is found complete,
  because it binds no name twice (`LabelChain`, `LabelsLoad`).

`Ant32ExpandProofs` goes on from there to what the instructions do.  `ExpansionsMean`
(`ExpansionMeans`) holds for every program, base address, size of byte above 16 and
set of register files (`PropsAssumption`: words, with r0 = 0 and the registers the
expansions use).  Besides the assumptions above it needs one about sources: a token
that is a label has a name, which `check_label_name` sees to.  The argument has four
layers, from a single instruction to the program:

* One instruction.  The opcodes are told apart by the first byte (`UsedOpcodes`:
  `Opcode` inverts `Code`), and a lemma per kind says what registers, memory and
  address it leaves.  A constant cut into bytes is put together again: `LCL` gives the lower half with its
  sign, and `LCH` on top of it the word, whatever its sign.
* One form.  `Leads` says where a list of instructions takes the machine, and joins
  when lists are joined; `Achieves`, that it does what the operation is for, the
  reserved register aside.  What the operations are for is taken apart likewise
  (`MeansAlu`, `MeansJump`, ...).  Each piece of the table (a constant brought to the
  reserved register in two bytes or four, an operation on it, a move, a branch, a push,
  the frame of a call, the two returns) is followed once, for all operands,
  registers, memories and addresses, and the forms are put together from the pieces.
* The table.  `Right` is said of a form, `Fine` of a list of forms: each is right, or
  another comes before it that takes all that it takes (`Covers`).  That is how the last
  form of `SHRI`, whose operands are exchanged, does no harm: an earlier one always
  fits.  `FormsFine` is the whole table, by lists, and `ChosenRight` follows: the first form
  that fits is right.
* The program.  `ExpandInv` keeps that whatever was assembled of an operation to be
  expanded has a form; with `DataInv`, and `LabelInv` for the labels, the bytes in memory
  in the end are that form with its operands, so that the interpreter, run over
  memory, runs the form.

What these proofs found out about the modules: some alternatives of the code are
tried in turn, and a CASE whose arms overlap leaves open which is taken, so the
arms now exclude each other; the initial memory of Ant32Regs, 0 to 3, was not one
of bytes when a byte has one bit, and is cut to bytes; and no bound on
`curr_offset` is an invariant of the code, because data is bounded by the number of
statements and `.addr` by nothing.  The address the loader goes on from is an
`unsigned int` and wraps (`ant32_load.c` 134), where the model added 4 to a number
without end; and `Loadable` had to say that the whole rest of the file, the lines
with `+` among them, goes elsewhere.  `ExpansionMeans` claimed too much:
where an operand is the register the assembler keeps, or the stack pointer is pushed
or popped, an expansion does something else; and addresses were not cut to words in
the interpreter.  The instance now has those registers as operands.

Only model-checked: `StopReturns`, `Preempted`, `InterruptStops` and `StopEnds`,
which are liveness under fairness and out of the provers' reach.  Every invariant and
action property, and every refinement, that a run checks is also proved.

## 6. Where the code and its documentation differ

Two runs show a difference:

* `MulHigh` (`regs_mul`): `Documentation/Arch32/mulo.tex` says that the second
  register gets the high-order word of the product.  For the smallest word by
  another negative word, `mul32x32` adds a residual whose carry is taken as
  signed: MIN x -1 has 1 in its high word instead of 0.
* `LchLoads` (`asm_lch`): `lch r, const16` loads the constant's upper half, that is
  0 or all ones, instead of the constant (`ant32_core.c` 548-559).

The other differences are what the modules' actions do, and are not run against the
statement they break.  Several properties of section 4 would hold without their
named exceptions if the code were otherwise.

Processor and debugger of the Ant-32.  e3 does not get the type of a timer
interrupt after a memory instruction, nor of an unknown memory opcode
(`ant32_exec.c` 266).  e2 does not hold the address of a misaligned access
(862).  After SIGINT `n` executes nothing until the next `g` or `r`
(`ad32_util.c` 628: `exec_next` does not clear `Interrupted`).  A look at memory
that faults is caught in e3.  MOD of the smallest word by -1 kills the emulator
(334, 385).  SRAND checks its second operand twice and its third never (623).
CIN without a character gives an uninitialised value (571).

Assembler of the Ant-32.  `.byte 1` followed by `.word 5` destroys the byte,
because the word is copied to an unaligned offset of the host's memory (`ant32_core.c` 957).
`b 12` and `b label` become a branch on r0 and two words of zeros
(`ant32_expand_op.c` 467).  `shri`, `shrui`, `shli` with a constant in the middle
load the wrong operand, and the wide form repeats the pattern of another (210).
`lch r, $forward` patches the opcode's bytes (`ant32_core.c` 569); `ld4 r, r, $x`
assembles 0.  `.align` in the text counts instructions instead of bytes (407),
`.align 0` divides by zero.  `check_2reg` looks at one operand twice.  The bounds
of data are counted in statements, not bytes.  `.addr` may go backwards and cut the
file.  The label on a line of `.text`, `.data` or `.define` is ignored; `-r`
overwrites its own return value; a `#` in a string cuts the line.  Branches take
no labels, so `ant32_backpatch.c` 37, relative references, is never reached.
The loader ignores a word it could not store and keeps the previous line across
a bad one.

AIDE-32.  A Step nested in the wait of a Run executes before the Run has called
`handle_output`: a character printed is replaced, one that was read is offered
again, against the comments at `aide32_control.tcl` 728 and 759.  An exception
leaves the loop with the button still saying Stop; Reset sets a local
`running`, so that the run goes on with the program reloaded; a halt in a nested
Step disables the buttons while the run under it goes on; watchpoints stop a run
only when the display is updated, so not at speed Silent.

Ant-8.  A line typed in the pause after a `hlt` or a fault makes the status OK again
and the run goes on (`aide8_wish.c` 240).  `in r0` that had to wait writes r0 (234).
In ad8, `w` reports success when the table is full (`ad8_help.c` 128 and
`ad8_util.c` 364); after SIGINT `n` executes nothing; a number looked for at the
end of the input is looked for forever.

## 7. Plan

Done: processor, registers, debuggers, assembler and loader, both environments
and the console, and a proof of every safety property that a run checks.  Next, in
this order:

1. The Ant-8 assembler on AntSymtab and AntParse: the tables are smaller, and
   the passes are the same.
2. The composition of Ant32Cpu and Ant32Regs, as one handler table with both
   kinds of state, if its instances stay small enough.

## 8. Not modelled

* The Ant-8 assembler, loader (beyond reloading in ad8) and disassembler: an
  earlier, smaller form of what is modelled for the Ant-32.
* `ant32.c`, `aide32_ide.c`: options around `ant_exec`, and the editor's bindings.
* Dumps, disassembly, fault texts, help, the symbol listing, spelling of tokens:
  formatting.  The random number generator.
* What the assembler does once it writes outside its buffer, which is undefined.
* The widgets of the Tcl scripts, and the `update` with which a window is filled for
  the first time; the registers and windows AIDE-32 shows; data of
  the Ant-8 other than memory in ad8; AIDE-8 on a program file.
* Files and strings (`AntCommon/ant_file.c`, `ant_string.c`): pure I/O.
* `assts/ant8/simple-ant` (a course exercise that repeats the Ant-8 machine), the
  ROM and the example programs (they are data), build files.
