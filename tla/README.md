# Maplesyrup: a TLA+ verification project

Maplesyrup reads the identification and configuration registers of ARM
processors. A kernel module reads the privileged registers, a library decides
which registers to ask for and turns the answers into named bit fields, and a
command-line front end prints them. This directory holds TLA+ models of that
system, the TLC instances that check them, and TLAPS proofs of the results that
matter most.

Run a model with `tlc -config <name>.cfg <module>` and a proof with
`tlapm <module>.tla`; `PROJECT.json` lists the runs, the lines of the source each
definition stands for, the findings and the theorems.

## 1. Inventory

| Component | Source | State it keeps | Operations |
|---|---|---|---|
| Kernel driver, requests | `src/module/cmd_handler.c`, `entrypoint.c`, `gic.c` | the results array of each ioctl (a local copy), the set of online CPUs it changes | `open`, `release`, `ioctl`; per CPU `call_func_ptr`, `gic_bar_read` |
| Undefined-instruction hook | `src/module/undef_hook.c`, `kernel_return.S` | `g_undef_flag`, `g_undef_flag_lock`, the one `hook_struct` | link and unlink the hook, raise the flag, judge the flag |
| Module load, device tree | `src/module/entrypoint.c`, `device_tree.c` | `gic_map`: physical and virtual addresses of four GIC blocks | `maplesyrup_init`, `maplesyrup_exit`, find, map, clean up |
| Readers and their table | `src/common/*.c`, `jumptable.c` | none (tables) | one MRC/MRS per register, `func_table` |
| Codes | `src/common/parse.h` | none | a 32-bit code packs part number, register, field |
| Library session | `src/lib/src/open_device.c`, `raw_results.c`, `maplesyrup.c`, `support.c` | `ms_fd`, the saved signal handlers, `g_bitfield_table` and its size, the result lists | `ms_get_groups/registers/bitfields`, `ms_find_by_bitfield/register/group`, accessors, `ms_free_result` |
| User-mode reads | `src/lib/src/cmd_handler.c` | the `sigjmp_buf`, the saved `SIGILL` and `SIGSEGV` actions | `usermode_results`, `ms_signal_handler` |
| Breakout | `src/lib/src/parse_breakout.c` | lists between its stages | search the tables, make one request per register, call driver or user mode, split results into fields, filter by part |
| Field tables | `src/lib/src/bitfields/*` | none (data) | - |
| Front end | `src/frontend/entrypoint.c` | options | `main`, `show_results`, `no_results` |

How they interact. The front end calls one `ms_find_*` function at a time. That
function loads the tables, and the breakout searches them, opens the device
(`start_test`), sends one ioctl per register (`driver_results`) or reads the
register itself under a `SIGILL` handler (`usermode_results`), closes the device
(`stop_test`) and parses what came back. The driver and the library share one
structure, `ms_data_cpu`: the library presets every slot to
`MS_ERROR_NORESULT`, the driver overwrites the slots it has a verdict for.
`ms_ioctl` always returns 0, so these statuses are all the library ever learns.
Inside the kernel the thread of an ioctl, the reading code it starts on other
CPUs (in an interrupt) and the undefined-instruction hook (in an exception)
share the flag, the lock and the list of hooks.

What is hard. The driver is concurrent three times over: several processes may
open the device (it is mode 0666 and refuses nobody), an ioctl runs code on every
CPU, and exceptions interrupt that code. A CPU may go offline between the test and
the call. The library's difficulty is sequence and partial failure: a device that
does not open, a table that does not load, lists that are freed without having
been initialised, results of an earlier register left in a slot that the next
request does not fill. The codes pack fields into fixed widths.

What makes each component correct:

* driver: every answer is complete (each requested CPU has a verdict and no other
  has one) and true (success means read on that CPU, undefined means not
  implemented there); a call never writes another CPU's slot; the kernel
  survives; every ioctl returns;
* module load: what is mapped is unmapped exactly once, also if only some blocks
  could be mapped; a request never reads an unmapped block;
* session: every opened device is closed and the signal handlers the program had
  are the ones it gets back; the table size never exceeds the table; no list is
  freed before it is initialised;
* user mode: a read that faults yields a failure status and not a value;
* breakout: one request per register, and the fields returned are exactly the
  requested fields of the parts that were actually read;
* tables, readers, codes: each register is read by its own instruction, shown
  under its own name, and every bit that is read is in exactly one field;
* front end: `--all` shows the groups in order up to the first that fails, and
  every array of the library is freed once.

Every hazard, at its line, is listed in `PROJECT.json` under `hazards`.

## 2. Modules

| Module | Models | Part in the whole |
|---|---|---|
| `RegisterService` | what the driver promises: a request is answered in one step and each slot is true | abstract specification |
| `Driver` | the driver, its hook, flag and lock, with the client's side of the protocol | implements `RegisterService` |
| `Session` | a program and the library over a sequence of API calls: SIGILL, device, table, user-mode reads, clean-up | on its own |
| `Codes` | the packing of register and field codes, architectures and implementations | used by `Breakout` and `TableHeap` |
| `Breakout` | a find call from the request to the list of fields: search, sort, read, split, filter | a client of `RegisterService` |
| `Readers` | the register codes, the readers of `src/common`, `func_table` | data |
| `FieldTables` | all rows of `src/lib/src/bitfields` | data |
| `TableHeap` | what `read_tables_to_memory` makes of the tables; what the readers deliver | `Codes`, `Readers`, `FieldTables` |
| `Tables` | the properties of the program's own tables | `TableHeap` composed with `Breakout` |
| `ModuleLife` | the kernel module from insmod to rmmod, the blocks of the GIC it maps, the requests that read them | part of `System` |
| `FrontEnd` | `main`: options, searches, `--all`, printing and freeing | part of `System` |
| `System` | the command, another client and the module, running together | `FrontEnd` composed with `ModuleLife` |
| `MCDriver`, `MCSession`, `MCBreakout`, `MCTables`, `MCSystem` | instances for TLC | |
| `DriverProofs`, `DriverServiceProofs` | types, survival, whose data a slot holds; one session at a time and the refinement | theorems |
| `SessionProofs`, `BreakoutProofs`, `BreakoutServiceProofs`, `SystemProofs` | one component each | theorems |
| `TablesProofs`, `FieldsProofs` | the program's own tables and readers, entry by entry; the bits of each register, field by field | theorems |

`Driver` and `Breakout` meet in `RegisterService`: the first is shown to implement
it, the second to use it as its only client, and takes its answers from it. So what
`Breakout` shows of the library holds above the driver with its flag and interrupts,
under the assumptions that the refinement of the driver needs (section 5).

### Driver

`pc[c]` is where the kernel thread of client `c` is, or the handler that it
started and waits for; the two never run at the same time because
`smp_call_function_single` is called with `wait = 1`. `req[c]` is the register
(`target`) and `pcpu` of the request, `ubuf[c]` the results array in user space,
`kbuf[c]` the copy in the kernel (both are locals and are blank outside a
session and outside an ioctl). A slot has `val` (what `out1`, `out2` and `out64`
hold: nothing, or the value of a register on a CPU), `cpu`, `midr` (the CPU it
identifies, or `NoCpu` for 0) and `status`. `kick[c]` is the index of the loop of
`on_each_cpu_kick`, and so the CPU a handler runs on. `home[c]` is the CPU the
thread is pinned to while preemption is off: in `spin_lock` and in
`smp_call_function_single`. A pinned thread does not run while a handler runs on
its CPU. `flag`, `lock` and `hook` are `g_undef_flag`, `g_undef_flag_lock` and the
place of `hook_struct` in the kernel's list; `kern` says whether the kernel still
runs.

Atomicity follows what other actors can see. Each access to the flag, each lock
operation, the test of a CPU and the call to it, and every return to user space is
an action of its own. `call_func_ptr` up to `set_undef_flag` is one action: it
touches the ioctl's own copy and, through the exception, the flag once. The test
and the clearing of the flag in `set_undef_flag` are one action; the comment there
says why nothing is lost.

What belongs to the kernel is modelled from how the driver uses it: the lock is a
word that is free or held; the list of hooks holds `hook_struct` not at all, once,
as its own successor (after adding it twice), or as a node with poisoned links
(after deleting that); walking a looped list hangs and touching poisoned links
is an oops; a CPU may go offline when no thread is pinned. After an oops, a
hang or a write past the array no step is taken. The tickets of an ARM spin lock
are not modelled: initialising a held ticket lock has further bad outcomes.

Left out of the driver: `copy_from_user` and `copy_to_user` failing (the library
passes its own live local), the codes `MS_IOCTL_MM`, `TRACE` and `DEBUG`, which
nothing handles, and builds without `CONFIG_SMP`, where nothing runs at once.

### Session

One call of the API at a time; `pc` is where it is. A call is one of three kinds:
`find` reads registers (it takes over SIGILL and opens the device), `calc` is
`ms_find_by_register` with a value to decode and `get` lists the tables; neither
opens anything. `sig` is the action installed for SIGILL, `own` the one the program
installed, `saved` is `saved_sigaction`. `illsig` is `g_illsig`, `jmp` says whether
`ret_to_buffer` names a frame that is still there. `fd`, `heap` and `sized` are
`ms_fd`, `g_bitfield_table_heap` and whether `g_bitfield_table_size` is positive.
`asked` is what user mode reads in this call, `todo` what is left of it, `cur` and
`val` the read under way, `got` its results.

A read in user mode is three steps: `try_command` (the `sigsetjmp`), then the read
returns or the handler jumps back, then `set_status_flag` judges. Which registers
a call asks for and whether the driver answers is left open, as `Breakout` decides
it. A list is only known as empty, not empty or never initialised.

`Mishaps` says what may go wrong: the device does not open, `malloc` fails for the
table or the result array, the program passes a null pointer for the results, or the
request leads to no read at all. `struck` remembers which of them happened, so that
a property can say "unless". Nothing in the model is disabled by `struck`.

Outcomes of undefined behaviour: freeing a list that was never initialised either
does nothing (the size on the stack happens to be 0) or crashes; a jump into a
frame that has returned crashes. Left out: `sigaction` itself failing, several
threads of the program calling the library at once, and the accessors, which only
look at the array the caller holds (`FrontEnd` has `ms_free_result`).

### Breakout

`pc` is where `find_bitfields` is, `call` its arguments, `info` the `match_info`,
`matches` the rows that were asked for (`requested_bitfields_list`, as indices of the
table in memory), `todo` the two lists of `breakout_sort_ioctls`, `ask` and `slots`
the `local_result` that `breakout_call_driver` clears once and uses for all its
requests, `results` the list of `ioctl_result`, `next` the one that is parsed next,
`list` the list of `bitfield_info_populated`. One action is one request, one answer,
one read in user mode or one parsed result.

A value is the set of its bits that are 1, so the shift and the mask of
`breakout_applymask` are what they are in C. An answer under way names its origin, a
register on a CPU, and `Contents` says what that is on the board at hand: two CPUs
hold different bits, so a value under a wrong label is noticed. The MIDR in a slot is
the number of the CPU it identifies; `Part` gives the processor. A row is kept by
`Fits`, which compares its part number with that of the MIDR as the code does, so
GICC_DIR, whose offset 0x1000 spills from the register field of its code into the part
number (part 8 becomes 10), is treated as the code treats it.

`errno` is kept between calls because nobody clears it: after one value that
`strtoll` cannot represent, every later value is decoded as all ones. Without a result
the loop of `breakout_parse_results` never initialises the lists that are freed after
it: `free_uninitialised` takes the step that may end the program, and the other
outcome, that what the stack holds is harmless, is `parse_done`.

A request has one of a uid, a group or a name, as the three API functions give it.
Allocation failures, the signal handler and an unopened device are `Session`'s.

### Readers, FieldTables, TableHeap, Tables

`FieldTables` has every row of the eight tables: levels, register code, first bit,
width, group, register name. Descriptions are left out; consecutive fields that start at
bit 0 are given by their widths. `Readers` has, for each reader function, its type and
the instruction it executes on AArch32 and on AArch64 (named by the register that the
instruction's operands encode, `"none"` for an empty body), and for each row of
`func_table` the variables it is called with. `TableHeap` builds the table in memory
and says which bits of a register arrive: those that the reader writes and that the
caller's variables and `value_to_long` keep.

A table is given group by group, in the order of the source. A group is in two parts
(`_1`, `_2`) where the source puts another between them, or where it is long, so that
each part is small enough to be reasoned about.

`Tables` runs `Breakout` on these tables: `HeapAssumption` says that the rows are what
`read_tables_to_memory` makes of them, `HandledAssumption` that the driver serves what
has a row in `func_table`, `BoardsAssumption` that the CPUs of a board are of one
architecture and that a register holds no more than its reader delivers there. In the
run every bit that can arrive is 1, so a bit that no field shows is missed, and one
that two fields show is seen twice.

`EveryBitOnce` is about calls by name or group: a call for one bit field (`uid`) shows
that field alone, and one with `noparse` whole values. The fields of a register are
those at one level, of one CPU and of one table (`With`). What was read at `NS_PL1` is
of the CPU that the field names; the program does not pin itself, so that a read in
user mode is of some CPU. `FieldsFull` compares the fields with what the reader
delivers, and so it speaks of a register whose delivered bits are all 1. The
exceptions of each property are listed by name; they are what is irregular in the code:

* readers with the operands of another register on AArch32: TEECR reads DBGDIDR, DBGDSCR
  reads DBGDRAR, PMINTENCLR reads PMINTENSET;
* empty bodies on AArch64 of registers that its tables have: TLBTR, TCMTR, FPSID, FPSCR,
  FPEXC, SCR, SDER, DBGDIDR, TEECR, TEEHBR;
* readers that write 64 bits through a pointer to 32: ACTLR (`impl_def.c:47`), MMFR0
  (`ident.c:230`);
* arrays of the distributor that overlap: GICD_RESERVED_02, GICD_IMP_DEF_01 and
  GICD_ICPIDR2 (`parse.h:431`, `435`);
* SPSR has a reader and no row; MMFR4 has rows and no row of `func_table`;
* "cortex-a9" is looked up as the Cortex-A7.

The readers of `timer.c` have no code and no row, and are not modelled.

### ModuleLife, FrontEnd, System

`mod` is where insmod or rmmod is; `phys` and `virt` are the blocks that have an address
in `gic_map`, `mapped` the blocks that this load has mapped, `lost` what earlier loads
left mapped. Each block is mapped and unmapped in a step of its own, in the two orders
of the code. Every step that may fail does so if `Faults` says: the hook is not
found, a block is not mapped, `misc_register` refuses, a client cannot open. Loading
goes on without the controller. `base[c]` is the base address that a GIC request took
before the CPUs are called; between the two steps anything else may happen.
The kernel's part is what its interface promises: an open file pins the module that
owns its operations, and a killed process has its files closed.

In `FrontEnd`, `line` is the set of options of one run of the command; `toshow` and
`output` are the two pointers of `main`, `heap` counts the arrays that are allocated
behind them, `answers` is what the library said and `shown` which of it was printed. The
library's answer is one of: an array with a success, one with errors only, or a failure. `-t`
is in the option string of `getopt_long` without a case, so the command ends at once;
the listings return -1 even when they succeed. What an option's argument looks like is
left out.

`System` composes the two: opening the device is a step of both, a call may read any GIC
blocks, and while the module comes and goes another client does the same.

## 3. Runs

| Run | Question | Bounds |
|---|---|---|
| `driver_single` | one session at a time: are answers complete and true, does the kernel survive, does every ioctl return, is the register service implemented | 2 clients, 3 slots, CPU 1 absent, 6 codes, requests for one CPU, beyond the array and for all |
| `driver_shared` | two sessions at once and traps of other code: does any call write a slot of another CPU or request, and which requests write past the array | 2 clients, 2 CPUs, 2 codes, requests for one CPU, for the two numbers past the array and for all |
| `driver_two_opens` | violated: the hook list survives two sessions | 2 clients, 2 CPUs |
| `driver_lost_trap` | violated: success means read, with two ioctls at once | 2 clients, 2 CPUs |
| `driver_spin` | violated: every ioctl returns, two at once on one CPU | 2 clients, 2 CPUs, 1 code per kind |
| `session` | any sequence of calls with every mishap possible: is the handler given back unless the device did not open, is each fault its register's own, is every read guarded, is nothing left behind, does only a mishap end the program, does every call return | 5 system registers (readable, two that fault, the sentinel row, one without a row), 1 memory-mapped |
| `session_no_device` | violated: the handler is given back, when the device does not open | the same |
| `session_nothing` | violated: the program survives, when a request leads to no read | the same |
| `breakout` | any sequence of find calls: is what is listed true of the CPU it names, is nothing lost or listed twice, is each register read once and where it should be, is the service used as it says, does every call return | 2 CPUs, of two parts with one architecture or one of them unknown; 12 rows, 5 system and 2 GIC registers; 71 requests; values of 4 bits |
| `tables` | every register name of the program's tables, read and with a value: is it read by its own instruction, shown under its own name, every bit once | the real tables, 4 boards of 1 CPU, 64 bits, 1 call, 2 registers of each GIC array |
| `tables_names` | violated: a register is shown under its own name | the same |
| `system` | command, another client and module: is no unmapped block read, all given back, every array freed once, everything found shown | 9 command lines, 3 groups, 4 device trees, 1 other client, every fault |

Why the bounds are enough. Two clients give every pairing the single flag, lock
and hook can suffer. Three slots give a CPU before, at and after the one the loop
is at, the middle one never coming up; the register that only the last CPU has
makes one handler trap and its neighbours not, in both orders. Longer histories
add nothing: between sessions the state returns to the initial one but for the
set of online CPUs. In `session` the two registers that fault make one fault follow
another, directly and with a good read between them; every subset of the table is
asked for, in every order. Calls repeat without bound, so what one call leaves
behind meets every kind of next call.

In `breakout`, two CPUs are what the filter can confuse; one register has rows in two
implementations' tables and in the architecture's, one has rows that prefer different
levels, one has no reader, one may be read at both levels, one is for secure modes
only, and of the two GIC blocks one is not mapped. Calls follow each other without
bound, so whatever a slot, a list or `errno` keeps meets each next call. Bit 3 is the
sign bit (`TopBit`), so values with and without it are supplied. `tables` is about
data: one call reaches each row, so `OneCall` lets the program make one, and one CPU
suffices because a row's treatment depends on the processor alone. A GIC array has as
many rows as registers, all alike; `MaxRange = 2` keeps the first two, and
`GicWordOnce` computes the offsets of the full range. In `system` the command is run again
and again, and the module loaded and unloaded; groups without and with `--devices`
give the loop its ends.

`CHECK_DEADLOCK FALSE` appears only where the kernel or the
program may have stopped.

Fairness: each client's ioctl is strongly fair. A thread in the kernel is
scheduled again and again, a sent interrupt is delivered, and the ticket locks of
ARM kernels serve waiters in order, so a step that keeps becoming possible is
taken. Nothing is assumed of the clients, of hotplug or of other code. In `Session`
the library's steps are weakly fair: a call runs in the program's own thread, which
the kernel schedules. Nothing makes the program call. In `Breakout` the same holds of
the library's steps, together with the driver's answer, which `IoctlReturns` of
`Driver` justifies. `Tables` and `System` state no liveness.

## 4. Findings

Each with a run whose counterexample shows it:

* Two sessions at once damage the kernel's list of hooks (`driver_two_opens`).
* Two ioctls at once share one flag and lose each other's traps
  (`driver_lost_trap`).
* The handler can spin forever on the lock of the thread it interrupted
  (`driver_spin`).
* A device that does not open leaves the library's SIGILL action installed, and
  the next call saves it as the program's (`session_no_device`).
* A request that leads to no read frees two lists that were never initialised
  (`session_nothing`): an unknown register name, or a register whose rows are for
  secure modes only.
* On ARMv8-A the rows of TTBR1 are named TTBR0 and the reverse
  (`bitfield_armv8a.c:464`), against README.md:279 (`tables_names`).

The same models show more with other constants:

* `NoReader = {midr}` in `driver_single` violates `NoFalseSuccess`: a reader with an
  empty body is reported as a successful read. 44 readers are empty on aarch64, and
  the ARMv8-A table lists some of their registers.
* `ForeignTraps = TRUE` in `driver_single` violates `FlagDiscipline` and
  `NoFalseUndef`: other code's traps are taken for the driver's own.
* `MS_MAX_CPUS` in `PCpus` (`--core=8`) reaches the step that writes past the array;
  `driver_shared` shows that no other request does.
* `Mishaps = {"null out"}` or `{"no memory"}` in `session_nothing` violates
  `ProgramSurvives` too: a null pointer for the results frees an uninitialised list;
  a table that could not be allocated is searched by the size of the last one.

## 5. Proofs

All for every value of the constants: any clients, CPUs, registers, tables. Those about
`Tables` are for any board, requests and number of CPUs; the tables, readers and
`func_table` are the program's own.

| Theorem | Assumes | Says |
|---|---|---|
| `TypeCorrect` | - | types |
| `AnswersComplete` | - | an accepted request has a verdict for exactly the CPUs asked for |
| `VerdictsFinal` | - | a slot gets one verdict, at its CPU's turn |
| `SlotsNeverMix` | - | a slot holds data of its own CPU and register, and none lies past the array but that of the one named request with number `MS_MAX_CPUS` |
| `OnlyOneNumberOverruns` | - | memory past the array is written only for a request that names the CPU after the last |
| `KernelSurvives` | one session at a time | no undefined instruction stops the kernel, also with foreign traps |
| `SuccessIsTrue` | one session, a reader for every row | success means read on that CPU, also with foreign traps |
| `FlagMeansTrap`, `UndefIsTrue` | one session, no foreign traps | the flag is up exactly for an unjudged trap; undefined means not implemented |
| `DriverServes` | all three | `Driver` implements `RegisterService` |
| `SessionTypeCorrect` | - | types |
| `HandlerGivenBack` | - | the program's SIGILL action is back between calls, unless a device did not open |
| `HandlerAlwaysRestored` | the device always opens | it is back between all calls |
| `ReadsGuarded`, `VerdictsAreOwn`, `NothingLeftOver` | - | as the properties of the run say, with any mishaps |
| `FaultsSurvived` | - | until a mishap, nothing ends the program |
| `BreakoutTypeCorrect` | - | types |
| `FieldsAreTrue`, `SlotsAreTheirOwn` | - | a field that is shown holds what its register has on the CPU it names, from that CPU's slot, and its row describes that CPU |
| `SuppliedValueIsShown` | - | a supplied value is shown bit by bit, unless `strtoll` has ever failed |
| `RegistersAreReadOnce`, `RegistersAreReadWhereSaid` | - | once at each level; at the levels its rows name |
| `NothingIsLost`, `NothingIsListedTwice` | - | between the answers and the list |
| `OnlyUnreadCrashes` | - | the garbage lists are followed only if nothing that decides can be read |
| `LibraryUsesTheService` | - | each step of `Breakout` is a step of a client of `RegisterService`, or a stutter |
| `SystemTypeCorrect` | - | types, and the command has the device open exactly during a call that reads |
| `NoUnmappedRead`, `MappingsAreReturned` | - | with any clients, device trees and faults |
| `ArraysAreFreed`, `AllThatIsFoundIsShown` | - | on every path of `main`, for any groups and answers |
| `ReadersStayInBounds` | the program's tables | no reader writes more than its caller passes, but for the two of section 2 |
| `RegistersHaveTheirInstruction` | the program's tables | what is shown was read by an instruction that no other register's reader has, but for those listed |
| `FieldsAreNamedTruly` | the program's tables | what is shown has a name of the register that was read, but for TTBR0 and TTBR1 of ARMv8-A |
| `SuppliedNamesAreDecoded` | the program's tables | a value with a register's name is refused only if no row has the name or registers share it |
| `DevicesOverlapNowhereElse` | the program's tables | a GIC register that is shown is in no array of another name, but for the three of section 2 |
| `EachBitIsShownOnce` | the program's tables, boards of one architecture | a call by name or group shows each bit that was read in exactly one field, but for the rows in `Irregular` |
| `FieldsAreDelivered` | the program's tables | no field has bits that the register's reader does not deliver, but for the registers in `Short` |

The theorems about `Breakout` rest on the assumptions that it states of its constants:
rows of one register have one target, no name or group is both the GIC's and a system
register's, user mode reads only what has a reader. TLC evaluates them on the small
tables and, in `tables`, on the program's own. "The program's tables" is
`HeapAssumption` and `HandledAssumption`, "boards of one architecture" is
`BoardsAssumption`; TLC evaluates them in `tables` too. They say which of the possible
constants are this program's: one kernel runs all CPUs of a board, and it is built for
one architecture.

"One session at a time" is `~Concurrent`, "no foreign traps" `~ForeignTraps`, "a
reader for every row" `NoReader = {}`. These are not restrictions of the code: the
violated runs show that each is needed.

The argument for the driver. `TypeOK` alone is not inductive: code that writes a
slot needs a CPU of the array, so `TypeInv` adds the ranges. `ProgressInv` ties the
program counter of one client to its arrays: before the loop every slot is
preset, in the loop the CPUs passed have a verdict and the others have none, after
it the copy is what the caller sees. It speaks of one client and nobody else's
step touches it, so it needs no assumption about other sessions. `OwnInv` says
whose data a slot holds. `SoleInv` says that with one session all other clients are
closed, the hook is linked once while that one is open, and the lock is its own;
on it rests `FlagInv`, which says when the flag is up, and `VerdictInv`, which says
that what has been judged is true. `CopyInv` adds that the slots the driver did not
judge are the caller's, and with it each step of `Driver` is shown to be a step of
`RegisterService` or a stutter.

The argument for the session. `FlowInv` says where the device is open: exactly in
the working part of a call that reads. `SignalInv` hangs the SIGILL action on that:
an open device means the library's handler, and the saved action is the program's
unless a device did not open once. `FaultInv` says the flag of a fault is up only
between the jump and its verdict, so `ResultInv` gives every result its own. In
`LuckInv` is what only a mishap brings about. `SessionInv` is their conjunction.

The argument for the breakout. `BreakoutInv`: `FlowInv` says what is empty at which
point of a call; `SlotsInv` that a slot was filled by its own CPU or by nobody, and
that before an answer every status is `NORESULT`, so that what an earlier register left
in a slot never looks like a success; `ResultsInv` that result k comes from slot
(k - 1) mod N of some answer, or from user mode; `ElementsInv` ties what is listed to a
parsed result. The true fields follow. `ServiceInv` adds the bookkeeping of the reads:
`TodoInv` and `SourceInv` say that a register is either still to be read or has its
results, `CoverInv` that none is forgotten, `UniqueInv` that the results of a register
at a level are those of one answer and the driver's come first, `GicInv` that a call is
about the GIC only or not at all, so that its answers have no MIDR to be filtered by,
and `ListedInv` that what has been parsed is in the list. Without the order of the
results an unparsed user-mode answer could hide the driver's; without `GicInv` a stale
MIDR could drop a GIC field.

The argument for the system. Every step of `System` is a step of each part or a stutter
(`StepsOfParts`), so each part's inductive invariant is one of the whole. `OpenInv`: a
request means an open device, an open device means a live module, and the base address
of a request is in `gic_map`; `MapInv`: as long as the module is in, the addresses in
`gic_map` are those of the mapped blocks, and during the clean-up exactly the blocks still
to come are mapped. For the command, the pointers name what is allocated, and the answers
so far are those of the groups before the loop's index.

The argument for the tables goes from the data upwards. `SystemEntry` and `DeviceEntry`
say what all entries have in common: the register has a code and a reader with a body,
and the name is the register's or one of the thirteen exceptions in `Renamed`; a GIC entry
is one of those in `GiccEntries` or `GicdEntries`. Each group of `FieldTables` has one
lemma that goes through its entries, the tables are concatenations of groups
(`SystemTables`, `DeviceTables`), and `Places` enumerates nothing but their entries
(`PlacesType`). So a row of the heap is what its entry says (`RowKinds`): `OfEntry` for
a system register, `OfDevice` for a word of the GIC, with what the code's `|` does to
GICC_DIR. The readers are compared pair by pair (`OwnOperands`, `OwnNames`). On the side
of the behaviour, `TablesInv` adds two facts to `ServiceInv`: a result that is a success
is of a register that the driver serves (`ReadableInv`), and what matched was asked for
and fits the part (`MatchInv`). Together they say that a field that is shown comes from
an entry of a table of the processor's own architecture (`FoundEntry`), and the five
theorems of `TablesProofs` follow from what that entry says.

What `FlattenSeq` computes for every input needs induction. It is done here without
the library's induction theorems, on a set of numbers in place of an operator: a set that
has 0 and every successor is all of `Nat`, or else its complement would have a least
element (`Induction`, `Flattened`).

The argument for the bits (`FieldsProofs`) has three layers. Each entry of a table is a
list of widths: `Sums` and one lemma per length (`Sum1` to `Sum32`) say where its rows
begin and that they end at the sum, so that they are one behind the other from bit 0
(`Spans`), and such rows have each bit below the sum once (`SpansOnce`). Where the
source puts the rows of one register into two entries, or not in order, the entries are
looked at together (`BothFields`, `Armv7APsrFields`). So one lemma per group says that
its table gives each bit that the reader delivers to exactly one row, but for the
registers that the properties name (`FieldsTable`), and `TablesFields` says it of the
eight tables. The second layer is `read_tables_to_memory`: `PlacesOnce` says that it comes
by each row of each entry once, with an induction over the nested `FlattenSeq`; so the
rows of the heap that belong together (`Kin`) have each bit once too (`BitOwner`). The
third layer is the behaviour. `TablesInv` knows that what is listed had matched; a bit
that is missed needs the converse, that all rows that were asked for have matched and
are listed. `AllMatched` says the first, and strengthens the invariant to `FieldsInv`
(TLC finds it true of `tables` and `breakout`); `Complete` says the second. Together
with `NoTwice` they give all fields of a register once (`AllKinFound`, `WithKin`). That
a call by name or group asks for all rows of a register in a table, or for none, is
where the property needs the name as a part of the key (`RowsKin`).

Only model-checked: liveness (`IoctlReturns`, `CallReturns`, `FindReturns`), as ENABLED
and fairness are beyond the prover. Every invariant and every action property that a
passing run checks is a theorem, and so are both refinements.

## 6. Not modelled

* What an instruction does: that is the processor's. The readers are modelled by
  which register they name and how much they write.
* The layout of what the front end prints, the descriptions of the fields, and the
  parsing of an option's argument. `show_results` is modelled by what it prints of an
  array, not by how.
* The accessors of the result array. They accept an index equal to the size; no loop of
  the front end gets there.
* Two threads of one program in the library: it has one set of globals and promises
  nothing.
* `ms_debug.c` and the build files: no behaviour.
* `timer.c`: its readers are in no table.

## 7. Plan

Everything the inventory lists is modelled as far as section 6 says. What would add
most next: the accessors and the option parsing as part of `FrontEnd`, with strings of
bounded length; `Session` and `Breakout` joined, so that a call that cannot allocate
also leaves its lists to the next one; and `System` with `Driver` in place of the
atomic GIC request.
