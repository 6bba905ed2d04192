------------------------------- MODULE Driver -------------------------------
(***************************************************************************)
(* The maplesyrup kernel module (src/module) as its clients use it         *)
(* (src/lib/src/open_device.c, raw_results.c).  A client opens             *)
(* /dev/maplesyrup, sends requests with ioctl and closes the device.  Each *)
(* request asks for one register (or one GIC word) on one CPU or on every  *)
(* CPU; the driver fills one slot of the results array per CPU, running    *)
(* the reading code on that CPU with smp_call_function_single.             *)
(*                                                                         *)
(* A register that a CPU does not implement raises an undefined            *)
(* instruction exception.  The driver survives it with an undef_hook that  *)
(* is linked into the kernel's list while the device is open, and learns   *)
(* of it through the one global g_undef_flag.                              *)
(*                                                                         *)
(* A step of a client is a step of its kernel thread, or of the reading    *)
(* code that the thread started on another CPU and waits for.              *)
(***************************************************************************)
EXTENDS Integers, FiniteSets

CONSTANTS
    Clients,        \* processes that use the device
    MS_MAX_CPUS,    \* slots of the results array, one per CPU
    MS_CPU_ALL,     \* the pcpu of a request for every CPU
    SysRegs,        \* codes that have a row in func_table
    NullRow,        \* the row that names no reader and no prototype
    NoReader,       \* rows whose reader has an empty body in this build
    Unlisted,       \* codes without a row in func_table
    GicBlocks,      \* the memory-mapped register blocks of the GIC
    Mapped,         \* the blocks the device tree let the driver map
    Undefined,      \* <<reg, cpu>> where reading reg on cpu is undefined
    Present,        \* CPUs that cpu_up may bring online
    PCpus,          \* the pcpu values clients send
    Concurrent,     \* may several clients have the device open at once
    ForeignTraps,   \* does other code execute undefined instructions
    NoValue,        \* the zero of out1, out2 and out64
    NoCpu,          \* a thread that may migrate; the zero of midr
    NoRequest

CPUs == 0 .. MS_MAX_CPUS - 1
Targets == SysRegs \cup Unlisted \cup GicBlocks
HasReader == SysRegs \ ({NullRow} \cup NoReader)

ASSUME CpusAssumption ==
    /\ MS_MAX_CPUS \in Nat \ {0}
    /\ MS_CPU_ALL \in Nat /\ MS_CPU_ALL > MS_MAX_CPUS
    /\ PCpus \subseteq Nat
    /\ Present \subseteq CPUs
    /\ NoCpu \notin CPUs
ASSUME TargetsAssumption ==
    /\ NullRow \in SysRegs
    /\ NoReader \subseteq SysRegs \ {NullRow}
    /\ SysRegs \cap Unlisted = {} /\ SysRegs \cap GicBlocks = {}
    /\ Unlisted \cap GicBlocks = {}
    /\ Mapped \subseteq GicBlocks
    /\ Undefined \subseteq (SysRegs \ ({NullRow} \cup NoReader)) \X CPUs
ASSUME ScopeAssumption == Concurrent \in BOOLEAN /\ ForeignTraps \in BOOLEAN
ASSUME NoRequestAssumption ==
    NoRequest \notin [target: Targets, pcpu: PCpus]
ASSUME NoValueAssumption ==
    NoValue \notin (SysRegs \cup GicBlocks) \X CPUs

Statuses == {"SUCCESS", "UNDEFINST", "SMP", "SMP_SINGLE", "NORESULT", "TABLE"}
Values == {NoValue} \cup ((SysRegs \cup GicBlocks) \X CPUs)
Entry == [val: Values, cpu: CPUs, midr: CPUs \cup {NoCpu}, status: Statuses]
Request == [target: Targets, pcpu: PCpus]

\* A zeroed ms_data: zero is also the number of MS_ERROR_SUCCESS and of CPU 0.
Blank == [val |-> NoValue, cpu |-> 0, midr |-> NoCpu, status |-> "SUCCESS"]
Zeroed == [i \in CPUs |-> Blank]

VARIABLES
    pc,     \* where each client's thread is
    req,    \* the code and pcpu each client asked for last
    ubuf,   \* each client's own results array, in user space
    kbuf,   \* the driver's copy of it, private to the ioctl
    kick,   \* the CPU the driver's loop has reached for this client
    home,   \* the CPU the thread is pinned to, NoCpu when preemptible
    flag,   \* g_undef_flag
    lock,   \* g_undef_flag_lock is held
    online, \* the CPUs that are online
    hook,   \* hook_struct in the kernel's list of undef hooks
    kern    \* the state of the kernel

vars == <<pc, req, ubuf, kbuf, kick, home, flag, lock, online, hook, kern>>
-----------------------------------------------------------------------------
ThreadPcs == {"reset", "lock", "clear", "unlock", "dispatch", "kick", "call",
              "sent", "copy"}
\* The reading code runs on CPU kick[c] with interrupts off.
HandlerPcs == {"hlock", "judge", "hunlock"}
Pcs == {"closed", "open"} \cup ThreadPcs \cup HandlerPcs

HandlerOn(i) == \E c \in Clients : pc[c] \in HandlerPcs /\ kick[c] = i
PinnedOn(i) == \E c \in Clients : home[c] = i

\* A pinned thread does not run while a handler has interrupted its CPU.
Runs(c) == ~HandlerOn(home[c])

\* preempt_disable(): the scheduler has put the thread on some free CPU.
Pin(c) == \E j \in online : /\ ~HandlerOn(j) /\ ~PinnedOn(j)
                            /\ home' = [home EXCEPT ![c] = j]

Goto(c, p) == pc' = [pc EXCEPT ![c] = p]
SetSlot(c, i, e) == kbuf' = [kbuf EXCEPT ![c][i] = e]
SetStatus(c, i, s) == SetSlot(c, i, [kbuf[c][i] EXCEPT !.status = s])

Undef(c) == <<req[c].target, kick[c]>> \in Undefined

Init ==
    /\ pc = [c \in Clients |-> "closed"]
    /\ req = [c \in Clients |-> NoRequest]
    /\ ubuf = [c \in Clients |-> Zeroed]
    /\ kbuf = [c \in Clients |-> Zeroed]
    /\ kick = [c \in Clients |-> 0]
    /\ home = [c \in Clients |-> NoCpu]
    /\ flag = 0
    /\ lock = FALSE
    /\ online \in {S \in SUBSET Present : S # {}}
    /\ hook = "out"
    /\ kern = "ok"
-----------------------------------------------------------------------------
(***************************************************************************)
(* Opening and closing.  There is one static hook_struct.  list_add and    *)
(* list_del of the same node twice in a row do not fail: adding a linked   *)
(* node makes it its own successor (looped), deleting a looped node leaves *)
(* the list head pointing at a node with poisoned links (dangling).        *)
(***************************************************************************)
ms_add_undef_instr_hook ==
    hook' = IF hook = "out" THEN "linked" ELSE "looped"

ms_del_undef_instr_hook ==
    /\ hook' = CASE hook = "linked" -> "out"
                 [] hook = "looped" -> "dangling"
                 [] OTHER -> hook
    /\ kern' = IF hook \in {"linked", "looped"} THEN kern ELSE "oops"

ms_open(c) ==
    /\ pc[c] = "closed"
    /\ Concurrent \/ \A d \in Clients : pc[d] = "closed"
    /\ ms_add_undef_instr_hook
    /\ Goto(c, "open")
    /\ UNCHANGED <<req, ubuf, kbuf, kick, home, flag, lock, online, kern>>

\* Mutant: the hook stays in the list when the device is closed.
ms_release_keeps_hook(c) ==
    /\ pc[c] = "open"
    /\ Goto(c, "closed")
    /\ req' = [req EXCEPT ![c] = NoRequest]
    /\ ubuf' = [ubuf EXCEPT ![c] = Zeroed]
    /\ UNCHANGED <<kbuf, kick, home, flag, lock, online, hook, kern>>

\* The results array is the caller's local, zeroed again for the next session.
ms_release(c) ==
    /\ pc[c] = "open"
    /\ ms_del_undef_instr_hook
    /\ Goto(c, "closed")
    /\ req' = [req EXCEPT ![c] = NoRequest]
    /\ ubuf' = [ubuf EXCEPT ![c] = Zeroed]
    /\ UNCHANGED <<kbuf, kick, home, flag, lock, online>>

\* The caller sends a request in the array that held the last answers: only
\* the statuses are set anew.
driver_results(c) ==
    /\ pc[c] = "open"
    /\ \E r \in Request : req' = [req EXCEPT ![c] = r]
    /\ ubuf' = [ubuf EXCEPT ![c] =
                    [i \in CPUs |-> [ubuf[c][i] EXCEPT !.status = "NORESULT"]]]
    /\ Goto(c, "reset")
    /\ UNCHANGED <<kbuf, kick, home, flag, lock, online, hook, kern>>
-----------------------------------------------------------------------------
(***************************************************************************)
(* call_cmd: every ioctl initialises the lock that others may be holding,  *)
(* then takes it to lower the flag.                                        *)
(***************************************************************************)
call_cmd_init(c) ==
    /\ pc[c] = "reset"
    /\ lock' = FALSE
    /\ Pin(c)
    /\ Goto(c, "lock")
    /\ UNCHANGED <<req, ubuf, kbuf, kick, flag, online, hook, kern>>

call_cmd_lock(c) ==
    /\ pc[c] = "lock" /\ Runs(c)
    /\ ~lock
    /\ lock' = TRUE
    /\ Goto(c, "clear")
    /\ UNCHANGED <<req, ubuf, kbuf, kick, home, flag, online, hook, kern>>

call_cmd_clear(c) ==
    /\ pc[c] = "clear" /\ Runs(c)
    /\ flag' = 0
    /\ Goto(c, "unlock")
    /\ UNCHANGED <<req, ubuf, kbuf, kick, home, lock, online, hook, kern>>

call_cmd_unlock(c) ==
    /\ pc[c] = "unlock" /\ Runs(c)
    /\ lock' = FALSE
    /\ home' = [home EXCEPT ![c] = NoCpu]
    /\ Goto(c, "dispatch")
    /\ UNCHANGED <<req, ubuf, kbuf, kick, flag, online, hook, kern>>

\* The request is refused: ms_ioctl returns 0 all the same and nothing is
\* copied back.
Rejected(c) ==
    \/ req[c].target \in Unlisted
    \/ req[c].pcpu # MS_CPU_ALL /\ req[c].pcpu > MS_MAX_CPUS

call_func_reject(c) ==
    /\ pc[c] = "dispatch"
    /\ Rejected(c)
    /\ Goto(c, "open")
    /\ UNCHANGED <<req, ubuf, kbuf, kick, home, flag, lock, online, hook, kern>>

\* Mutant: the statuses the client sent are not unpacked.
call_func_without_unpack(c) ==
    /\ pc[c] = "dispatch"
    /\ ~Rejected(c)
    /\ kick' = [kick EXCEPT ![c] = IF req[c].pcpu = MS_CPU_ALL
                                     THEN 0 ELSE req[c].pcpu]
    /\ Goto(c, "kick")
    /\ UNCHANGED <<req, ubuf, kbuf, home, flag, lock, online, hook, kern>>

call_func_return_results(c) ==
    /\ pc[c] = "dispatch"
    /\ ~Rejected(c)
    /\ kbuf' = [kbuf EXCEPT ![c] = ubuf[c]]
    /\ kick' = [kick EXCEPT ![c] = IF req[c].pcpu = MS_CPU_ALL
                                     THEN 0 ELSE req[c].pcpu]
    /\ Goto(c, "kick")
    /\ UNCHANGED <<req, ubuf, home, flag, lock, online, hook, kern>>
-----------------------------------------------------------------------------
\* Mutant: the loop does not step to the next CPU.
Advance_same_cpu(c) ==
    /\ kick' = kick
    /\ IF req[c].pcpu = MS_CPU_ALL /\ kick[c] + 1 < MS_MAX_CPUS
         THEN Goto(c, "kick") ELSE Goto(c, "copy")

\* Mutant: the loop makes one round too many.
Advance_past_last(c) ==
    IF req[c].pcpu = MS_CPU_ALL /\ kick[c] < MS_MAX_CPUS
      THEN kick' = [kick EXCEPT ![c] = kick[c] + 1] /\ Goto(c, "kick")
      ELSE kick' = kick /\ Goto(c, "copy")

\* The end of a round of on_each_cpu_kick: a CPU that failed is skipped.
Advance(c) ==
    IF req[c].pcpu = MS_CPU_ALL /\ kick[c] + 1 < MS_MAX_CPUS
      THEN kick' = [kick EXCEPT ![c] = kick[c] + 1] /\ Goto(c, "kick")
      ELSE kick' = kick /\ Goto(c, "copy")

\* pcpu = MS_MAX_CPUS passed the test of on_each_cpu_kick, and the status is
\* written one slot past the array.
cpu_online_past_end(c) ==
    /\ pc[c] = "kick"
    /\ kick[c] >= MS_MAX_CPUS
    /\ kern' = "corrupt"
    /\ Goto(c, "copy")
    /\ UNCHANGED <<req, ubuf, kbuf, kick, home, flag, lock, online, hook>>

cpu_online_wrapper(c) ==
    /\ pc[c] = "kick"
    /\ kick[c] < MS_MAX_CPUS
    /\ \/ kick[c] \in online
       \/ kick[c] \in Present \ online
    /\ online' = online \cup {kick[c]}
    /\ Goto(c, "call")
    /\ UNCHANGED <<req, ubuf, kbuf, kick, home, flag, lock, hook, kern>>

\* Mutant: the first CPU that fails ends the loop.
cpu_up_fails_stops(c) ==
    /\ pc[c] = "kick"
    /\ kick[c] < MS_MAX_CPUS
    /\ kick[c] \notin online
    /\ SetStatus(c, kick[c], "SMP")
    /\ Goto(c, "copy")
    /\ UNCHANGED <<req, ubuf, kick, home, flag, lock, online, hook, kern>>

cpu_up_fails(c) ==
    /\ pc[c] = "kick"
    /\ kick[c] < MS_MAX_CPUS
    /\ kick[c] \notin online
    /\ SetStatus(c, kick[c], "SMP")
    /\ Advance(c)
    /\ UNCHANGED <<req, ubuf, home, flag, lock, online, hook, kern>>

\* smp_call_function_single pins the thread; it waits there for the handler.
smp_call_function_single(c) ==
    /\ pc[c] = "call"
    /\ kick[c] \in online
    /\ Pin(c)
    /\ Goto(c, "sent")
    /\ UNCHANGED <<req, ubuf, kbuf, kick, flag, lock, online, hook, kern>>

smp_call_fails(c) ==
    /\ pc[c] = "call"
    /\ kick[c] \notin online
    /\ SetStatus(c, kick[c], "SMP_SINGLE")
    /\ Advance(c)
    /\ UNCHANGED <<req, ubuf, home, flag, lock, online, hook, kern>>

\* The interrupt reaches CPU kick[c].  When the thread itself is there the
\* handler is called directly; otherwise it interrupts whatever runs there.
Delivered(c) == pc[c] = "sent" /\ ~HandlerOn(kick[c])

Unpin(c) == home' = [home EXCEPT ![c] = NoCpu]
-----------------------------------------------------------------------------
(***************************************************************************)
(* The handlers.  call_func_ptr reads a register, gic_bar_read a GIC word. *)
(***************************************************************************)
\* Mutant: CPUs are numbered from 1.
ReadSlot_from_one(c, v) ==
    [val |-> v, cpu |-> kick[c] + 1, midr |-> kick[c],
     status |-> kbuf[c][kick[c]].status]

ReadSlot(c, v) ==
    [val |-> v, cpu |-> kick[c], midr |-> kick[c],
     status |-> kbuf[c][kick[c]].status]

\* Mutant: the slot is chosen by the CPU of the calling thread.
call_func_ptr_read_home(c) ==
    /\ Delivered(c)
    /\ req[c].target \in SysRegs \ {NullRow}
    /\ ~Undef(c)
    /\ SetSlot(c, home[c], ReadSlot(c, <<req[c].target, kick[c]>>))
    /\ Goto(c, "hlock")
    /\ UNCHANGED <<req, ubuf, kick, home, flag, lock, online, hook, kern>>

call_func_ptr_read(c) ==
    /\ Delivered(c)
    /\ req[c].target \in SysRegs \ {NullRow}
    /\ ~Undef(c)
    /\ SetSlot(c, kick[c], ReadSlot(c, IF req[c].target \in NoReader
                                         THEN NoValue
                                         ELSE <<req[c].target, kick[c]>>))
    /\ Goto(c, "hlock")
    /\ UNCHANGED <<req, ubuf, kick, home, flag, lock, online, hook, kern>>

call_func_ptr_table(c) ==
    /\ Delivered(c)
    /\ req[c].target = NullRow
    /\ SetSlot(c, kick[c], [ReadSlot(c, NoValue) EXCEPT !.status = "TABLE"])
    /\ Advance(c)
    /\ Unpin(c)
    /\ UNCHANGED <<req, ubuf, flag, lock, online, hook, kern>>

\* Mutant: the hook skips the instruction and raises no flag.
undef_hook_silent(c) ==
    /\ Delivered(c)
    /\ req[c].target \in HasReader
    /\ Undef(c) /\ hook = "linked"
    /\ SetSlot(c, kick[c], ReadSlot(c, NoValue))
    /\ Goto(c, "hlock")
    /\ UNCHANGED <<req, ubuf, kick, home, flag, lock, online, hook, kern>>

\* Mutant: the hook toggles the flag.
undef_hook_toggles(c) ==
    /\ Delivered(c)
    /\ req[c].target \in HasReader
    /\ Undef(c) /\ hook = "linked"
    /\ SetSlot(c, kick[c], ReadSlot(c, NoValue))
    /\ flag' = 1 - flag
    /\ Goto(c, "hlock")
    /\ UNCHANGED <<req, ubuf, kick, home, lock, online, hook, kern>>

\* The exception: the hook raises the flag, without the lock, and the
\* instruction is skipped.
undef_hook(c) ==
    /\ Delivered(c)
    /\ req[c].target \in HasReader
    /\ Undef(c) /\ hook = "linked"
    /\ SetSlot(c, kick[c], ReadSlot(c, NoValue))
    /\ flag' = 1
    /\ Goto(c, "hlock")
    /\ UNCHANGED <<req, ubuf, kick, home, lock, online, hook, kern>>

\* The kernel walks a list of hooks that ours is not in, or has damaged.
Unhooked == IF hook = "looped" THEN "hang" ELSE "oops"

undef_unhooked(c) ==
    /\ Delivered(c)
    /\ req[c].target \in HasReader
    /\ Undef(c) /\ hook # "linked"
    /\ kern' = Unhooked
    /\ UNCHANGED <<pc, req, ubuf, kbuf, kick, home, flag, lock, online, hook>>

\* A block without a mapping leaves the slot as it was; midr is never set.
gic_bar_read(c) ==
    /\ Delivered(c)
    /\ req[c].target \in GicBlocks
    /\ IF req[c].target \in Mapped
         THEN SetSlot(c, kick[c], [val |-> <<req[c].target, kick[c]>>,
                                   cpu |-> kick[c],
                                   midr |-> kbuf[c][kick[c]].midr,
                                   status |-> "SUCCESS"])
         ELSE kbuf' = kbuf
    /\ Advance(c)
    /\ Unpin(c)
    /\ UNCHANGED <<req, ubuf, flag, lock, online, hook, kern>>

set_undef_flag_lock(c) ==
    /\ pc[c] = "hlock"
    /\ ~lock
    /\ lock' = TRUE
    /\ Goto(c, "judge")
    /\ UNCHANGED <<req, ubuf, kbuf, kick, home, flag, online, hook, kern>>

\* Mutant: the flag is tested and not cleared.
set_undef_flag_keeps(c) ==
    /\ pc[c] = "judge"
    /\ SetStatus(c, kick[c], IF flag = 1 THEN "UNDEFINST" ELSE "SUCCESS")
    /\ Goto(c, "hunlock")
    /\ UNCHANGED <<req, ubuf, kick, home, flag, lock, online, hook, kern>>

\* Mutant: the status goes to the slot of the calling thread's CPU.
set_undef_flag_home(c) ==
    /\ pc[c] = "judge"
    /\ SetStatus(c, home[c], IF flag = 1 THEN "UNDEFINST" ELSE "SUCCESS")
    /\ flag' = 0
    /\ Goto(c, "hunlock")
    /\ UNCHANGED <<req, ubuf, kick, home, lock, online, hook, kern>>

\* Test and clear in one step: only a 1 by the hook or a 0 by call_cmd can
\* come between, and either may as well come before or after.
set_undef_flag_judge(c) ==
    /\ pc[c] = "judge"
    /\ SetStatus(c, kick[c], IF flag = 1 THEN "UNDEFINST" ELSE "SUCCESS")
    /\ flag' = 0
    /\ Goto(c, "hunlock")
    /\ UNCHANGED <<req, ubuf, kick, home, lock, online, hook, kern>>

set_undef_flag_unlock(c) ==
    /\ pc[c] = "hunlock"
    /\ lock' = FALSE
    /\ Advance(c)
    /\ Unpin(c)
    /\ UNCHANGED <<req, ubuf, kbuf, flag, online, hook, kern>>

\* repack_result_wrapper and copy_to_user; the driver's copy is a local, too.
call_cmd_copy(c) ==
    /\ pc[c] = "copy"
    /\ ubuf' = [ubuf EXCEPT ![c] = kbuf[c]]
    /\ kbuf' = [kbuf EXCEPT ![c] = Zeroed]
    /\ kick' = [kick EXCEPT ![c] = 0]
    /\ Goto(c, "open")
    /\ UNCHANGED <<req, home, flag, lock, online, hook, kern>>
-----------------------------------------------------------------------------
(***************************************************************************)
(* The rest of the system.  Hotplug stops every CPU, so it waits for       *)
(* pinned threads.  Undefined instructions elsewhere meet the same hook.   *)
(***************************************************************************)
CpuOffline(i) ==
    /\ i \in online /\ online # {i}
    /\ \A c \in Clients : home[c] = NoCpu
    /\ online' = online \ {i}
    /\ UNCHANGED <<pc, req, ubuf, kbuf, kick, home, flag, lock, hook, kern>>

ForeignTrap ==
    /\ ForeignTraps
    /\ \E i \in online : ~HandlerOn(i) /\ ~PinnedOn(i)
    /\ hook # "out"
    /\ flag' = IF hook = "linked" THEN 1 ELSE flag
    /\ kern' = IF hook = "linked" THEN kern ELSE Unhooked
    /\ UNCHANGED <<pc, req, ubuf, kbuf, kick, home, lock, online, hook>>

Handler(c) ==
    \/ call_func_ptr_read(c) \/ call_func_ptr_table(c) \/ undef_hook(c)
    \/ undef_unhooked(c) \/ gic_bar_read(c)
    \/ set_undef_flag_lock(c) \/ set_undef_flag_judge(c)
    \/ set_undef_flag_unlock(c)

\* What the kernel does for a client whose ioctl is under way.
Ioctl(c) ==
    \/ call_cmd_init(c) \/ call_cmd_lock(c) \/ call_cmd_clear(c)
    \/ call_cmd_unlock(c) \/ call_func_reject(c) \/ call_func_return_results(c)
    \/ cpu_online_past_end(c) \/ cpu_online_wrapper(c) \/ cpu_up_fails(c)
    \/ smp_call_function_single(c) \/ smp_call_fails(c)
    \/ Handler(c) \/ call_cmd_copy(c)

Work(c) == kern = "ok" /\ Ioctl(c)

Next ==
    /\ kern = "ok"
    /\ \/ \E c \in Clients : \/ ms_open(c) \/ ms_release(c)
                             \/ driver_results(c) \/ Ioctl(c)
       \/ \E i \in CPUs : CpuOffline(i)
       \/ ForeignTrap

Spec == Init /\ [][Next]_vars

\* A thread in the kernel is scheduled again and again, an interrupt sent is
\* delivered, and the spin locks of ARM kernels serve waiters in order: a
\* step that keeps becoming possible is taken.
Fairness == \A c \in Clients : SF_vars(Work(c))
FairSpec == Spec /\ Fairness
-----------------------------------------------------------------------------
\* Every variable stays within its type.
TypeOK ==
    /\ pc \in [Clients -> Pcs]
    /\ req \in [Clients -> Request \cup {NoRequest}]
    /\ ubuf \in [Clients -> [CPUs -> Entry]]
    /\ kbuf \in [Clients -> [CPUs -> Entry]]
    /\ kick \in [Clients -> Nat]
    /\ home \in [Clients -> CPUs \cup {NoCpu}]
    /\ flag \in {0, 1}
    /\ lock \in BOOLEAN
    /\ online \in SUBSET CPUs
    /\ hook \in {"out", "linked", "looped", "dangling"}
    /\ kern \in {"ok", "oops", "hang", "corrupt"}

Asked(c) == IF req[c].pcpu = MS_CPU_ALL THEN CPUs ELSE {req[c].pcpu} \cap CPUs

\* The client has the answer to the request it sent last.
Answered(c) == pc[c] = "open" /\ req[c] # NoRequest

\* MS_ERROR_SUCCESS in a slot of the answer means that the register asked for
\* was read on the CPU of that slot (set_undef_flag, gic_bar_read).
NoFalseSuccess ==
    \A c \in Clients : Answered(c) => \A i \in CPUs :
        ubuf[c][i].status = "SUCCESS" =>
            /\ ubuf[c][i].val = <<req[c].target, i>>
            /\ ubuf[c][i].cpu = i

\* MS_ERROR_UNDEFINST in a slot of the answer means that this CPU does not
\* implement the register asked for (set_undef_flag).
NoFalseUndef ==
    \A c \in Clients : Answered(c) => \A i \in CPUs :
        ubuf[c][i].status = "UNDEFINST" => <<req[c].target, i>> \in Undefined

\* An accepted request for a listed register has a verdict for every CPU it
\* asked for and for no other; a refused one has none (on_each_cpu_kick).
CompleteVerdict ==
    \A c \in Clients : Answered(c) => \A i \in CPUs :
        LET none == ubuf[c][i].status = "NORESULT"
        IN  /\ i \notin Asked(c) \/ Rejected(c) => none
            /\ i \in Asked(c) /\ ~Rejected(c)
                  /\ req[c].target \notin GicBlocks \ Mapped => ~none

\* Memory past the array is written only for a request that names the CPU after
\* the last one: never by the loop over all CPUs, and by no other number that
\* passes the bound test.
OnlyNamedPastEnd ==
    kern = "corrupt" =>
        \E c \in Clients : pc[c] = "copy" /\ req[c].pcpu = MS_MAX_CPUS

\* A register value, a CPU number or a MIDR that a call writes belongs to the
\* CPU of the slot: no call fills the slot of another CPU, even when several
\* clients' calls run at once, and none but the one named writes outside of the
\* array (call_func_ptr, cpu_online_wrapper, on_each_cpu_kick).
SlotData ==
    /\ \A c \in Clients : \A i \in CPUs :
        LET e == kbuf[c][i]
        IN  /\ e.midr # NoCpu => e.midr = i
            /\ e.val # NoValue => e.val[2] = i /\ e.cpu = i
            /\ pc[c] \in {"judge", "hunlock"} /\ kick[c] = i
                  /\ e.val # NoValue => e.val[1] = req[c].target
    /\ OnlyNamedPastEnd

\* The undefined instructions of the driver's own reads never stop the kernel
\* (undef_hook.c: "to avoid kernel OOPS").
NoOops == kern \notin {"oops", "hang"}

\* The flag is up exactly while the handler whose read trapped has not judged
\* it: no trap is lost and none is left over for the next read.
FlagDiscipline ==
    flag = 1 <=> \E c \in Clients : pc[c] \in {"hlock", "judge"} /\ Undef(c)

\* While an ioctl runs, a slot gets at most one verdict, and only the slot of
\* the CPU that the loop has reached changes.
OneVerdict ==
    [][\A c \in Clients : pc[c] \in HandlerPcs \cup {"kick", "call", "sent"} =>
          \A i \in CPUs : kbuf'[c][i] # kbuf[c][i] =>
              kick[c] = i /\ kbuf[c][i].status = "NORESULT"]_vars

\* The driver with its handlers implements the register service.
phase == [c \in Clients |-> CASE pc[c] = "closed" -> "closed"
                              [] pc[c] = "open" -> "idle"
                              [] OTHER -> "busy"]
Service == INSTANCE RegisterService WITH ask <- req, answer <- ubuf
RegisterServiceSpec == Service!Spec

\* Every ioctl comes back, unless the kernel stopped.
IoctlReturns ==
    \A c \in Clients :
        pc[c] \in ThreadPcs \cup HandlerPcs ~> pc[c] = "open" \/ kern # "ok"
=============================================================================
