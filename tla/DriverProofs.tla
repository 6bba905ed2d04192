---------------------------- MODULE DriverProofs ----------------------------
(***************************************************************************)
(* Theorems about Driver, for every number of clients, CPUs and registers. *)
(***************************************************************************)
EXTENDS Driver, TLAPS

Busy(c) == pc[c] \in ThreadPcs \cup HandlerPcs

\* A request under way is a request, and the code that writes slots has a CPU
\* of the array.
InRange ==
    \A c \in Clients :
        /\ Busy(c) => req[c] \in Request
        /\ pc[c] \in {"call", "sent"} \cup HandlerPcs => kick[c] \in CPUs

TypeInv == TypeOK /\ InRange

USE DEF ThreadPcs, HandlerPcs, Pcs

LEMMA ZeroedTyped == Zeroed \in [CPUs -> Entry]
  BY CpusAssumption DEF Zeroed, Blank, Entry, Values, Statuses, CPUs

LEMMA CpuNumbers == CPUs \subseteq Nat /\ \A n \in Nat : n < MS_MAX_CPUS => n \in CPUs
  BY CpusAssumption DEF CPUs

LEMMA PcpuNat == \A r \in Request : r.pcpu \in Nat
  BY CpusAssumption DEF Request

LEMMA TypeInvInit == Init => TypeInv
<1>1. Present \subseteq CPUs
  BY CpusAssumption
<1> SUFFICES ASSUME Init PROVE TypeInv
  OBVIOUS
<1>2. ubuf \in [Clients -> [CPUs -> Entry]] /\ kbuf \in [Clients -> [CPUs -> Entry]]
  BY ZeroedTyped DEF Init
<1>3. TypeOK
  BY <1>1, <1>2 DEF Init, TypeOK
<1>4. InRange
  BY DEF Init, InRange, Busy
<1> QED BY <1>3, <1>4 DEF TypeInv

LEMMA EntryStatus ==
    ASSUME NEW e \in Entry, NEW s \in Statuses
    PROVE  [e EXCEPT !.status = s] \in Entry
  BY DEF Entry

LEMMA ReadSlotTyped ==
    ASSUME TypeOK, NEW c \in Clients, kick[c] \in CPUs, NEW v \in Values
    PROVE  ReadSlot(c, v) \in Entry
  BY DEF TypeOK, ReadSlot, Entry

LEMMA SlotTyped ==
    ASSUME NEW k \in [Clients -> [CPUs -> Entry]], NEW c \in Clients,
           NEW i \in CPUs, NEW e \in Entry
    PROVE  [k EXCEPT ![c][i] = e] \in [Clients -> [CPUs -> Entry]]
  OBVIOUS

\* Advance moves the loop on without leaving the type of kick or pc.
LEMMA AdvanceTyped ==
    ASSUME NEW c \in Clients, TypeInv, Busy(c), Advance(c)
    PROVE  /\ kick' \in [Clients -> Nat]
           /\ pc' \in [Clients -> Pcs]
           /\ \A d \in Clients \ {c} : pc'[d] = pc[d] /\ kick'[d] = kick[d]
           /\ pc'[c] \in {"kick", "copy"}
<1> USE DEF TypeInv, TypeOK
<1>1. CASE req[c].pcpu = MS_CPU_ALL /\ kick[c] + 1 < MS_MAX_CPUS
  <2>1. kick' = [kick EXCEPT ![c] = kick[c] + 1] /\ kick[c] + 1 \in Nat
    BY <1>1 DEF Advance
  <2>2. pc' = [pc EXCEPT ![c] = "kick"]
    BY <1>1 DEF Advance, Goto
  <2> QED BY <2>1, <2>2
<1>2. CASE ~(req[c].pcpu = MS_CPU_ALL /\ kick[c] + 1 < MS_MAX_CPUS)
  BY <1>2 DEF Advance, Goto
<1> QED BY <1>1, <1>2

LEMMA TypeInvNext == TypeInv /\ [Next]_vars => TypeInv'
<1> SUFFICES ASSUME TypeInv, [Next]_vars PROVE TypeInv'
  OBVIOUS
<1> USE DEF TypeInv, TypeOK, InRange, Busy
<1>1. ASSUME NEW c \in Clients, ms_open(c) PROVE TypeInv'
  BY <1>1 DEF ms_open, ms_add_undef_instr_hook, Goto
<1>2. ASSUME NEW c \in Clients, ms_release(c) PROVE TypeInv'
  BY <1>2, ZeroedTyped DEF ms_release, ms_del_undef_instr_hook, Goto
<1>3. ASSUME NEW c \in Clients, driver_results(c) PROVE TypeInv'
  <2>1. \A i \in CPUs : [ubuf[c][i] EXCEPT !.status = "NORESULT"] \in Entry
    <3> TAKE i \in CPUs
    <3>1. ubuf[c][i] \in Entry /\ "NORESULT" \in Statuses
      BY DEF Statuses
    <3> QED BY <3>1, EntryStatus
  <2>2. ubuf' \in [Clients -> [CPUs -> Entry]]
    BY <1>3, <2>1 DEF driver_results
  <2> QED BY <1>3, <2>2 DEF driver_results, Goto
<1>4. ASSUME NEW c \in Clients, call_cmd_init(c) PROVE TypeInv'
  BY <1>4 DEF call_cmd_init, Goto, Pin
<1>5. ASSUME NEW c \in Clients, call_cmd_lock(c) PROVE TypeInv'
  BY <1>5 DEF call_cmd_lock, Goto
<1>6. ASSUME NEW c \in Clients, call_cmd_clear(c) PROVE TypeInv'
  BY <1>6 DEF call_cmd_clear, Goto
<1>7. ASSUME NEW c \in Clients, call_cmd_unlock(c) PROVE TypeInv'
  BY <1>7 DEF call_cmd_unlock, Goto
<1>8. ASSUME NEW c \in Clients, call_func_reject(c) PROVE TypeInv'
  BY <1>8 DEF call_func_reject, Goto
<1>9. ASSUME NEW c \in Clients, call_func_return_results(c) PROVE TypeInv'
  BY <1>9, PcpuNat, CpusAssumption DEF call_func_return_results, Goto
<1>10. ASSUME NEW c \in Clients, cpu_online_past_end(c) PROVE TypeInv'
  BY <1>10 DEF cpu_online_past_end, Goto
<1>11. ASSUME NEW c \in Clients, cpu_online_wrapper(c) PROVE TypeInv'
  BY <1>11, CpuNumbers DEF cpu_online_wrapper, Goto
<1>12. ASSUME NEW c \in Clients, cpu_up_fails(c) PROVE TypeInv'
  <2>1. kick[c] \in CPUs
    BY <1>12, CpuNumbers DEF cpu_up_fails
  <2>2. [kbuf[c][kick[c]] EXCEPT !.status = "SMP"] \in Entry
    <3>1. kbuf[c][kick[c]] \in Entry /\ {"SMP", "SMP_SINGLE"} \subseteq Statuses
      BY <2>1 DEF Statuses
    <3> QED BY <3>1, EntryStatus
  <2>3. kbuf' \in [Clients -> [CPUs -> Entry]]
    BY <1>12, <2>1, <2>2, SlotTyped DEF cpu_up_fails, SetStatus, SetSlot
  <2>4. Busy(c) /\ Advance(c)
    BY <1>12 DEF cpu_up_fails
  <2> QED BY <1>12, <2>3, <2>4, AdvanceTyped DEF cpu_up_fails
<1>13. ASSUME NEW c \in Clients, smp_call_function_single(c) PROVE TypeInv'
  BY <1>13 DEF smp_call_function_single, Goto, Pin
<1>14. ASSUME NEW c \in Clients, smp_call_fails(c) PROVE TypeInv'
  <2>1. kick[c] \in CPUs
    BY <1>14 DEF smp_call_fails
  <2>2. [kbuf[c][kick[c]] EXCEPT !.status = "SMP_SINGLE"] \in Entry
    <3>1. kbuf[c][kick[c]] \in Entry /\ {"SMP", "SMP_SINGLE"} \subseteq Statuses
      BY <2>1 DEF Statuses
    <3> QED BY <3>1, EntryStatus
  <2>3. kbuf' \in [Clients -> [CPUs -> Entry]]
    BY <1>14, <2>1, <2>2, SlotTyped DEF smp_call_fails, SetStatus, SetSlot
  <2>4. Busy(c) /\ Advance(c)
    BY <1>14 DEF smp_call_fails
  <2> QED BY <1>14, <2>3, <2>4, AdvanceTyped DEF smp_call_fails
<1>15. ASSUME NEW c \in Clients, call_func_ptr_read(c) PROVE TypeInv'
  <2> DEFINE v == IF req[c].target \in NoReader THEN NoValue
                                               ELSE <<req[c].target, kick[c]>>
  <2>1. kick[c] \in CPUs /\ v \in Values
    BY <1>15 DEF call_func_ptr_read, Delivered, Values
  <2>2. ReadSlot(c, v) \in Entry
    BY <2>1, ReadSlotTyped
  <2>3. kbuf' \in [Clients -> [CPUs -> Entry]]
    BY <1>15, <2>1, <2>2, SlotTyped DEF call_func_ptr_read, SetSlot
  <2> QED BY <1>15, <2>3 DEF call_func_ptr_read, Delivered, Goto
<1>16. ASSUME NEW c \in Clients, call_func_ptr_table(c) PROVE TypeInv'
  <2>1. kick[c] \in CPUs /\ NoValue \in Values /\ "TABLE" \in Statuses
    BY <1>16 DEF call_func_ptr_table, Delivered, Values, Statuses
  <2>2. [ReadSlot(c, NoValue) EXCEPT !.status = "TABLE"] \in Entry
    BY <2>1, ReadSlotTyped, EntryStatus
  <2>3. kbuf' \in [Clients -> [CPUs -> Entry]]
    BY <1>16, <2>1, <2>2, SlotTyped DEF call_func_ptr_table, SetSlot
  <2>4. Busy(c) /\ Advance(c)
    BY <1>16 DEF call_func_ptr_table, Delivered
  <2> QED BY <1>16, <2>3, <2>4, AdvanceTyped DEF call_func_ptr_table, Unpin
<1>17. ASSUME NEW c \in Clients, undef_hook(c) PROVE TypeInv'
  <2>1. kick[c] \in CPUs /\ NoValue \in Values
    BY <1>17 DEF undef_hook, Delivered, Values
  <2>2. ReadSlot(c, NoValue) \in Entry
    BY <2>1, ReadSlotTyped
  <2>3. kbuf' \in [Clients -> [CPUs -> Entry]]
    BY <1>17, <2>1, <2>2, SlotTyped DEF undef_hook, SetSlot
  <2> QED BY <1>17, <2>3 DEF undef_hook, Delivered, Goto
<1>18. ASSUME NEW c \in Clients, undef_unhooked(c) PROVE TypeInv'
  BY <1>18 DEF undef_unhooked, Unhooked
<1>19. ASSUME NEW c \in Clients, gic_bar_read(c) PROVE TypeInv'
  <2> DEFINE e == [val |-> <<req[c].target, kick[c]>>, cpu |-> kick[c],
                   midr |-> kbuf[c][kick[c]].midr, status |-> "SUCCESS"]
  <2>1. kick[c] \in CPUs /\ kbuf[c][kick[c]] \in Entry
    BY <1>19 DEF gic_bar_read, Delivered
  <2>2. e \in Entry
    BY <1>19, <2>1 DEF gic_bar_read, Entry, Values, Statuses
  <2>3. kbuf' \in [Clients -> [CPUs -> Entry]]
    <3>1. kbuf' = [kbuf EXCEPT ![c][kick[c]] = e] \/ kbuf' = kbuf
      BY <1>19 DEF gic_bar_read, SetSlot
    <3>2. kbuf \in [Clients -> [CPUs -> Entry]]
      OBVIOUS
    <3>3. [kbuf EXCEPT ![c][kick[c]] = e] \in [Clients -> [CPUs -> Entry]]
      <4> HIDE DEF e, TypeOK, TypeInv
      <4> QED BY <2>1, <2>2, <3>2, SlotTyped
    <3> QED BY <3>1, <3>2, <3>3
  <2>4. Busy(c) /\ Advance(c)
    BY <1>19 DEF gic_bar_read, Delivered
  <2> QED BY <1>19, <2>3, <2>4, AdvanceTyped DEF gic_bar_read, Unpin
<1>20. ASSUME NEW c \in Clients, set_undef_flag_lock(c) PROVE TypeInv'
  BY <1>20 DEF set_undef_flag_lock, Goto
<1>21. ASSUME NEW c \in Clients, set_undef_flag_judge(c) PROVE TypeInv'
  <2> DEFINE s == IF flag = 1 THEN "UNDEFINST" ELSE "SUCCESS"
  <2>1. kick[c] \in CPUs /\ kbuf[c][kick[c]] \in Entry /\ s \in Statuses
    BY <1>21 DEF set_undef_flag_judge, Statuses
  <2>2. [kbuf[c][kick[c]] EXCEPT !.status = s] \in Entry
    BY <2>1, EntryStatus
  <2>3. kbuf' \in [Clients -> [CPUs -> Entry]]
    BY <1>21, <2>1, <2>2, SlotTyped DEF set_undef_flag_judge, SetStatus, SetSlot
  <2> QED BY <1>21, <2>3 DEF set_undef_flag_judge, Goto
<1>22. ASSUME NEW c \in Clients, set_undef_flag_unlock(c) PROVE TypeInv'
  <2>1. Busy(c) /\ Advance(c)
    BY <1>22 DEF set_undef_flag_unlock
  <2> QED BY <1>22, <2>1, AdvanceTyped DEF set_undef_flag_unlock, Unpin
<1>23. ASSUME NEW c \in Clients, call_cmd_copy(c) PROVE TypeInv'
  BY <1>23, ZeroedTyped DEF call_cmd_copy, Goto
<1>24. ASSUME NEW i \in CPUs, CpuOffline(i) PROVE TypeInv'
  BY <1>24 DEF CpuOffline
<1>25. CASE ForeignTrap
  BY <1>25 DEF ForeignTrap, Unhooked
<1>26. CASE UNCHANGED vars
  BY <1>26 DEF vars
<1> QED
  BY <1>1, <1>2, <1>3, <1>4, <1>5, <1>6, <1>7, <1>8, <1>9, <1>10, <1>11,
     <1>12, <1>13, <1>14, <1>15, <1>16, <1>17, <1>18, <1>19, <1>20, <1>21,
     <1>22, <1>23, <1>24, <1>25, <1>26
  DEF Next, Ioctl, Handler

\* Type correctness (Driver!TypeOK), for any clients, CPUs and registers, with
\* sessions at once or one at a time.
THEOREM TypeCorrect == Spec => []TypeOK
<1>1. TypeInv => TypeOK
  BY DEF TypeInv
<1> QED BY TypeInvInit, TypeInvNext, <1>1, PTL DEF Spec
-----------------------------------------------------------------------------
(***************************************************************************)
(* One session at a time.  The hook is linked exactly while a session is   *)
(* open, so a trap always finds it and the list is never damaged.          *)
(***************************************************************************)
SoleInv ==
    /\ \A c, d \in Clients : pc[c] # "closed" /\ pc[d] # "closed" => c = d
    /\ \A c \in Clients : pc[c] # "closed" => hook = "linked"
    /\ (\A c \in Clients : pc[c] = "closed") => hook = "out"
    /\ NoOops

\* A step of a session in progress leaves it in progress, touches no other
\* session, and stops the kernel only by a trap that finds no hook.
LEMMA SessionStep ==
    ASSUME TypeInv, NEW c \in Clients, driver_results(c) \/ Ioctl(c)
    PROVE  /\ pc[c] # "closed" /\ pc'[c] # "closed"
           /\ \A d \in Clients \ {c} : pc'[d] = pc[d]
           /\ hook' = hook
           /\ kern' \in {kern, "corrupt"} \/ hook # "linked"
<1> USE DEF TypeInv, TypeOK, Goto, Advance
<1>1. CASE driver_results(c)
  BY <1>1 DEF driver_results
<1>2. CASE call_cmd_init(c) \/ call_cmd_lock(c) \/ call_cmd_clear(c)
           \/ call_cmd_unlock(c)
  BY <1>2 DEF call_cmd_init, call_cmd_lock, call_cmd_clear, call_cmd_unlock
<1>3. CASE call_func_reject(c) \/ call_func_return_results(c) \/ call_cmd_copy(c)
  BY <1>3 DEF call_func_reject, call_func_return_results, call_cmd_copy
<1>4. CASE cpu_online_past_end(c) \/ cpu_online_wrapper(c) \/ cpu_up_fails(c)
  BY <1>4 DEF cpu_online_past_end, cpu_online_wrapper, cpu_up_fails
<1>5. CASE smp_call_function_single(c) \/ smp_call_fails(c)
  BY <1>5 DEF smp_call_function_single, smp_call_fails
<1>6. CASE call_func_ptr_read(c) \/ call_func_ptr_table(c) \/ gic_bar_read(c)
  BY <1>6 DEF call_func_ptr_read, call_func_ptr_table, gic_bar_read, Delivered
<1>7. CASE undef_hook(c) \/ undef_unhooked(c)
  BY <1>7 DEF undef_hook, undef_unhooked, Delivered
<1>8. CASE set_undef_flag_lock(c) \/ set_undef_flag_judge(c)
           \/ set_undef_flag_unlock(c)
  BY <1>8 DEF set_undef_flag_lock, set_undef_flag_judge, set_undef_flag_unlock
<1> HIDE DEF TypeInv
<1> QED BY <1>1, <1>2, <1>3, <1>4, <1>5, <1>6, <1>7, <1>8 DEF Ioctl, Handler

LEMMA SoleInvInit == Init => SoleInv
  BY DEF Init, SoleInv, NoOops

LEMMA SoleInvNext ==
    ASSUME ~Concurrent, TypeInv, SoleInv, [Next]_vars
    PROVE  SoleInv'
<1> USE DEF SoleInv, NoOops, TypeInv, TypeOK
<1>1. ASSUME NEW c \in Clients, ms_open(c) PROVE SoleInv'
  BY <1>1 DEF ms_open, ms_add_undef_instr_hook, Goto
<1>2. ASSUME NEW c \in Clients, ms_release(c) PROVE SoleInv'
  BY <1>2 DEF ms_release, ms_del_undef_instr_hook, Goto
<1>3. ASSUME NEW c \in Clients, driver_results(c) \/ Ioctl(c) PROVE SoleInv'
  <2> HIDE DEF TypeInv, TypeOK
  <2> QED BY <1>3, SessionStep
<1>4. CASE \E i \in CPUs : CpuOffline(i)
  BY <1>4 DEF CpuOffline
<1>5. CASE ForeignTrap
  BY <1>5 DEF ForeignTrap
<1>6. CASE UNCHANGED vars
  BY <1>6 DEF vars
<1> QED BY <1>1, <1>2, <1>3, <1>4, <1>5, <1>6 DEF Next

\* One session at a time never stops the kernel (Driver!NoOops), whatever the
\* CPUs lack and whatever other code traps.
THEOREM KernelSurvives ==
    ASSUME ~Concurrent
    PROVE  Spec => []NoOops
<1>1. SoleInv => NoOops
  BY DEF SoleInv
<1>2. TypeInv /\ SoleInv /\ [Next]_vars => (TypeInv /\ SoleInv)'
  BY TypeInvNext, SoleInvNext
<1>3. Init => TypeInv /\ SoleInv
  BY TypeInvInit, SoleInvInit
<1> QED BY <1>1, <1>2, <1>3, PTL DEF Spec

-----------------------------------------------------------------------------
(***************************************************************************)
(* The answers: which slots of the results array have a verdict at each    *)
(* moment of an ioctl, and what a verdict says.                            *)
(***************************************************************************)
\* The loop over the CPUs has been entered and the copy not yet returned.
InLoop(c) == pc[c] \in {"kick", "call", "sent"} \cup HandlerPcs
Filling(c) == InLoop(c) \/ pc[c] = "copy"

\* The CPUs that the loop has finished with.
Passed(c) == {i \in Asked(c) : i < kick[c]}
Done(c) == CASE pc[c] = "copy" -> Asked(c)
             [] pc[c] = "hunlock" -> Passed(c) \cup {kick[c]}
             [] OTHER -> Passed(c)

Silent(c) == req[c].target \in GicBlocks \ Mapped
NoVerdict(e) == e.status = "NORESULT"

\* What is known of one client's arrays.
Before(c) == pc[c] \in {"reset", "lock", "clear", "unlock", "dispatch"}
Preset(c) == Before(c) => \A i \in CPUs : NoVerdict(ubuf[c][i])
AtCpu(c) == InLoop(c) => /\ kick[c] \in CPUs => kick[c] \in Asked(c)
                         /\ IF req[c].pcpu = MS_CPU_ALL
                              THEN kick[c] \in CPUs ELSE kick[c] = req[c].pcpu
Accepted(c) == Filling(c) => ~Rejected(c)
Tally(c) == Filling(c) => \A i \in CPUs :
    /\ i \notin Done(c) => NoVerdict(kbuf[c][i])
    /\ i \in Done(c) /\ ~Silent(c) => ~NoVerdict(kbuf[c][i])
Told(c) == Answered(c) => \A i \in CPUs :
    /\ i \notin Asked(c) \/ Rejected(c) => NoVerdict(ubuf[c][i])
    /\ i \in Asked(c) /\ ~Rejected(c) /\ ~Silent(c) => ~NoVerdict(ubuf[c][i])

Fresh(c) == pc[c] = "closed" => req[c] = NoRequest

ProgressOf(c) ==
    Fresh(c) /\ Preset(c) /\ AtCpu(c) /\ Accepted(c) /\ Tally(c) /\ Told(c)
ProgressInv == \A c \in Clients : ProgressOf(c)

\* No step of another actor disturbs what is known of a client.
LEMMA ProgressFrame ==
    ASSUME NEW c \in Clients, ProgressOf(c),
           pc'[c] = pc[c], req'[c] = req[c], ubuf'[c] = ubuf[c],
           kbuf'[c] = kbuf[c], kick'[c] = kick[c]
    PROVE  ProgressOf(c)'
  BY DEF ProgressOf, Fresh, Preset, AtCpu, Accepted, Tally, Told, Filling, InLoop,
         Before, Answered, Asked, Rejected, Done, Passed, Silent, NoVerdict

LEMMA ProgressInvInit == Init => ProgressInv
<1> SUFFICES ASSUME Init, NEW c \in Clients PROVE ProgressOf(c)
  BY DEF ProgressInv
<1>1. pc[c] = "closed" /\ req[c] = NoRequest
  BY DEF Init
<1> QED BY <1>1 DEF ProgressOf, Fresh, Preset, AtCpu, Accepted, Tally, Told, Filling,
                    InLoop, Before, Answered

\* Steps before the loop, and steps of the loop that stay at their CPU.
LEMMA ProgressBefore ==
    ASSUME NEW c \in Clients, Before(c), Before(c)', ProgressOf(c), ubuf' = ubuf
    PROVE  ProgressOf(c)'
  BY DEF ProgressOf, Fresh, Preset, AtCpu, Accepted, Tally, Told, Filling, InLoop,
         Before, Answered, NoVerdict

AtWork == {"kick", "call", "sent", "hlock", "judge"}

LEMMA ProgressAtWork ==
    ASSUME NEW c \in Clients, ProgressOf(c), pc[c] \in AtWork, pc'[c] \in AtWork,
           UNCHANGED <<req, kick>>,
           \A i \in CPUs : kbuf'[c][i].status = kbuf[c][i].status
    PROVE  ProgressOf(c)'
<1> USE DEF AtWork
<1>1. Done(c)' = Done(c) /\ Asked(c)' = Asked(c) /\ Rejected(c)' = Rejected(c)
      /\ Silent(c)' = Silent(c)
  BY DEF Done, Passed, Asked, Rejected, Silent
<1>2. Fresh(c)' /\ Preset(c)' /\ Told(c)'
  BY DEF Fresh, Preset, Before, Told, Answered
<1>3. AtCpu(c)'
  BY <1>1 DEF ProgressOf, AtCpu, InLoop
<1>4. Accepted(c)' /\ Tally(c)'
  BY <1>1 DEF ProgressOf, Accepted, Tally, Filling, InLoop, NoVerdict
<1> QED BY <1>2, <1>3, <1>4 DEF ProgressOf

\* The handler judges its CPU.
LEMMA ProgressJudge ==
    ASSUME NEW c \in Clients, ProgressOf(c), pc[c] \in AtWork, pc'[c] = "hunlock",
           UNCHANGED <<req, kick>>, kick[c] \in CPUs,
           \A i \in CPUs \ {kick[c]} : kbuf'[c][i].status = kbuf[c][i].status,
           kbuf'[c][kick[c]].status # "NORESULT"
    PROVE  ProgressOf(c)'
<1> USE DEF AtWork
<1>1. /\ Asked(c)' = Asked(c) /\ Rejected(c)' = Rejected(c)
      /\ Silent(c)' = Silent(c) /\ Done(c)' = Done(c) \cup {kick[c]}
  BY DEF Done, Passed, Asked, Rejected, Silent
<1>2. Fresh(c)' /\ Preset(c)' /\ Told(c)'
  BY DEF Fresh, Preset, Before, Told, Answered
<1>3. AtCpu(c)'
  BY <1>1 DEF ProgressOf, AtCpu, InLoop
<1>4. Accepted(c)' /\ Tally(c)'
  BY <1>1 DEF ProgressOf, Accepted, Tally, Filling, InLoop, NoVerdict
<1> QED BY <1>2, <1>3, <1>4 DEF ProgressOf

\* The loop finishes with its CPU, and goes on or ends.
LEMMA ProgressAdvance ==
    ASSUME TypeInv, NEW c \in Clients, ProgressOf(c), InLoop(c), kick[c] \in CPUs,
           Advance(c), req' = req,
           \A i \in CPUs \ {kick[c]} : kbuf'[c][i].status = kbuf[c][i].status,
           \/ kbuf'[c][kick[c]].status # "NORESULT"
           \/ Silent(c)
    PROVE  ProgressOf(c)'
<1> DEFINE more == req[c].pcpu = MS_CPU_ALL /\ kick[c] + 1 < MS_MAX_CPUS
<1>1. /\ Asked(c)' = Asked(c) /\ Rejected(c)' = Rejected(c)
      /\ Silent(c)' = Silent(c)
  BY DEF Asked, Rejected, Silent
<1>2. /\ more => pc'[c] = "kick" /\ kick'[c] = kick[c] + 1
      /\ ~more => pc'[c] = "copy" /\ kick'[c] = kick[c]
  BY DEF TypeInv, TypeOK, Advance, Goto
<1>3. kick[c] \in Asked(c) /\ (req[c].pcpu # MS_CPU_ALL => kick[c] = req[c].pcpu)
  BY DEF ProgressOf, AtCpu
<1>4. Done(c)' = Passed(c) \cup {kick[c]}
  <2>1. CASE more
    BY <1>1, <1>2, <1>3, <2>1, CpusAssumption DEF Done, Passed, Asked, CPUs
  <2>2. CASE ~more
    BY <1>1, <1>2, <1>3, <2>2, CpusAssumption DEF Done, Passed, Asked, CPUs
  <2> QED BY <2>1, <2>2
<1>5. Fresh(c)' /\ Preset(c)' /\ Told(c)'
  BY <1>2 DEF Fresh, Preset, Before, Told, Answered
<1>6. AtCpu(c)'
  <2>1. CASE more
    BY <1>1, <1>2, <2>1, CpuNumbers DEF AtCpu, InLoop, Asked
  <2>2. CASE ~more
    BY <1>2, <2>2 DEF AtCpu, InLoop
  <2> QED BY <2>1, <2>2
<1>7. \A i \in CPUs \ {kick[c]} : i \in Done(c) <=> i \in Passed(c)
  BY DEF Done, InLoop
<1>8. Accepted(c)' /\ Tally(c)'
  BY <1>1, <1>4, <1>7 DEF ProgressOf, Accepted, Tally, Filling, InLoop, NoVerdict
<1> QED BY <1>5, <1>6, <1>8 DEF ProgressOf

Mine(c) == ms_open(c) \/ ms_release(c) \/ driver_results(c) \/ Ioctl(c)

\* A step of one client changes nothing of another's request and arrays.
LEMMA ActorFrame ==
    ASSUME TypeInv, NEW c \in Clients, Mine(c), NEW d \in Clients \ {c}
    PROVE  /\ pc'[d] = pc[d] /\ req'[d] = req[d] /\ ubuf'[d] = ubuf[d]
           /\ kbuf'[d] = kbuf[d] /\ kick'[d] = kick[d]
<1> USE DEF TypeInv, TypeOK
<1>1. CASE ms_open(c)
  BY <1>1 DEF ms_open, Goto
<1>2. CASE ms_release(c)
  BY <1>2 DEF ms_release, Goto
<1>3. CASE driver_results(c)
  BY <1>3 DEF driver_results, Goto
<1>4. CASE call_cmd_init(c)
  BY <1>4 DEF call_cmd_init, Goto
<1>5. CASE call_cmd_lock(c)
  BY <1>5 DEF call_cmd_lock, Goto
<1>6. CASE call_cmd_clear(c)
  BY <1>6 DEF call_cmd_clear, Goto
<1>7. CASE call_cmd_unlock(c)
  BY <1>7 DEF call_cmd_unlock, Goto
<1>8. CASE call_func_reject(c)
  BY <1>8 DEF call_func_reject, Goto
<1>9. CASE call_func_return_results(c)
  BY <1>9 DEF call_func_return_results, Goto
<1>10. CASE cpu_online_past_end(c)
  BY <1>10 DEF cpu_online_past_end, Goto
<1>11. CASE cpu_online_wrapper(c)
  BY <1>11 DEF cpu_online_wrapper, Goto
<1>12. CASE cpu_up_fails(c)
  BY <1>12 DEF cpu_up_fails, Goto, Advance, SetStatus, SetSlot
<1>13. CASE smp_call_function_single(c)
  BY <1>13 DEF smp_call_function_single, Goto
<1>14. CASE smp_call_fails(c)
  BY <1>14 DEF smp_call_fails, Goto, Advance, SetStatus, SetSlot
<1>15. CASE call_func_ptr_read(c)
  BY <1>15 DEF call_func_ptr_read, Goto, SetSlot
<1>16. CASE call_func_ptr_table(c)
  BY <1>16 DEF call_func_ptr_table, Goto, Advance, SetSlot
<1>17. CASE undef_hook(c)
  BY <1>17 DEF undef_hook, Goto, SetSlot
<1>18. CASE undef_unhooked(c)
  BY <1>18 DEF undef_unhooked
<1>19. CASE gic_bar_read(c)
  BY <1>19 DEF gic_bar_read, Goto, Advance, SetSlot
<1>20. CASE set_undef_flag_lock(c)
  BY <1>20 DEF set_undef_flag_lock, Goto
<1>21. CASE set_undef_flag_judge(c)
  BY <1>21 DEF set_undef_flag_judge, Goto, SetStatus, SetSlot
<1>22. CASE set_undef_flag_unlock(c)
  BY <1>22 DEF set_undef_flag_unlock, Goto, Advance
<1>23. CASE call_cmd_copy(c)
  BY <1>23 DEF call_cmd_copy, Goto
<1> HIDE DEF TypeInv
<1> QED
  BY <1>1, <1>2, <1>3, <1>4, <1>5, <1>6, <1>7, <1>8, <1>9,
     <1>10, <1>11, <1>12, <1>13, <1>14, <1>15, <1>16, <1>17, <1>18,
     <1>19, <1>20, <1>21, <1>22, <1>23
  DEF Mine, Ioctl, Handler

LEMMA ProgressMine ==
    ASSUME TypeInv, NEW c \in Clients, ProgressOf(c), Mine(c)
    PROVE  ProgressOf(c)'
<1> USE DEF TypeInv, TypeOK
<1>1. CASE ms_open(c)
  BY <1>1 DEF ms_open, Goto, ProgressOf, Fresh, Preset, AtCpu, Accepted, Tally, Told,
              Filling, InLoop, Before, Answered
<1>2. CASE ms_release(c)
  BY <1>2 DEF ms_release, Goto, ProgressOf, Fresh, Preset, AtCpu, Accepted, Tally, Told,
              Filling, InLoop, Before, Answered
<1>3. CASE driver_results(c)
  BY <1>3 DEF driver_results, Goto, ProgressOf, Fresh, Preset, AtCpu, Accepted, Tally,
              Told, Filling, InLoop, Before, Answered, NoVerdict
<1>4. CASE call_cmd_init(c) \/ call_cmd_lock(c) \/ call_cmd_clear(c)
           \/ call_cmd_unlock(c)
  BY <1>4, ProgressBefore
  DEF call_cmd_init, call_cmd_lock, call_cmd_clear, call_cmd_unlock, Goto, Before
<1>5. CASE call_func_reject(c)
  BY <1>5 DEF call_func_reject, Goto, ProgressOf, Fresh, Preset, AtCpu, Accepted, Tally,
              Told, Filling, InLoop, Before, Answered, Rejected, NoVerdict
<1>6. CASE call_func_return_results(c)
  <2>1. /\ pc[c] = "dispatch" /\ pc'[c] = "kick" /\ ~Rejected(c)
        /\ req' = req /\ ubuf' = ubuf /\ kbuf'[c] = ubuf[c]
        /\ kick'[c] = IF req[c].pcpu = MS_CPU_ALL THEN 0 ELSE req[c].pcpu
    BY <1>6 DEF call_func_return_results, Goto
  <2>2. \A i \in CPUs : NoVerdict(ubuf[c][i])
    BY <2>1 DEF ProgressOf, Preset, Before
  <2>3. Passed(c)' = {} /\ Rejected(c)' = Rejected(c)
    BY <2>1, CpusAssumption DEF Passed, Asked, CPUs, Rejected
  <2>4. AtCpu(c)'
    BY <2>1, CpusAssumption DEF AtCpu, Asked, CPUs
  <2>5. Accepted(c)' /\ Tally(c)'
    BY <2>1, <2>2, <2>3 DEF Accepted, Tally, Done, NoVerdict
  <2> QED BY <2>1, <2>4, <2>5 DEF ProgressOf, Fresh, Preset, Told, Before, Answered
<1>7. CASE cpu_online_past_end(c)
  <2>1. /\ pc[c] = "kick" /\ pc'[c] = "copy" /\ kick[c] >= MS_MAX_CPUS
        /\ UNCHANGED <<req, ubuf, kbuf, kick>>
    BY <1>7 DEF cpu_online_past_end, Goto
  <2>2. req[c].pcpu # MS_CPU_ALL /\ kick[c] = req[c].pcpu /\ kick[c] \notin CPUs
    BY <2>1, CpusAssumption DEF ProgressOf, AtCpu, InLoop, CPUs
  <2>3. Asked(c)' = {} /\ Done(c)' = {} /\ Rejected(c)' = Rejected(c)
    BY <2>1, <2>2 DEF Asked, Done, Rejected
  <2>4. \A i \in CPUs : NoVerdict(kbuf[c][i])
    BY <2>1, <2>2 DEF ProgressOf, Tally, Filling, InLoop, Done, Passed, Asked
  <2>5. Accepted(c)' /\ Tally(c)'
    BY <2>1, <2>3, <2>4 DEF ProgressOf, Accepted, Tally, Filling, InLoop, NoVerdict
  <2> QED BY <2>1, <2>5 DEF ProgressOf, Fresh, Preset, AtCpu, Told, InLoop, Before,
                            Answered
<1>8. CASE cpu_online_wrapper(c) \/ smp_call_function_single(c)
           \/ set_undef_flag_lock(c)
  BY <1>8, ProgressAtWork
  DEF cpu_online_wrapper, smp_call_function_single, set_undef_flag_lock, Goto, AtWork
<1>9. CASE undef_unhooked(c)
  BY <1>9, ProgressAtWork DEF undef_unhooked, Delivered, AtWork
<1>10. CASE cpu_up_fails(c) \/ smp_call_fails(c)
  <2>1. /\ InLoop(c) /\ Advance(c) /\ req' = req /\ kick[c] \in CPUs
        /\ \/ SetStatus(c, kick[c], "SMP")
           \/ SetStatus(c, kick[c], "SMP_SINGLE")
    BY <1>10, CpuNumbers DEF cpu_up_fails, smp_call_fails, InLoop, TypeInv, InRange
  <2>2. /\ \A i \in CPUs \ {kick[c]} : kbuf'[c][i].status = kbuf[c][i].status
        /\ kbuf'[c][kick[c]].status # "NORESULT"
    BY <2>1 DEF SetStatus, SetSlot, Entry
  <2> HIDE DEF TypeInv
  <2> QED BY <2>1, <2>2, ProgressAdvance
<1>11. CASE call_func_ptr_read(c) \/ undef_hook(c)
  <2>1. /\ pc[c] \in AtWork /\ pc'[c] \in AtWork /\ UNCHANGED <<req, kick>>
        /\ kick[c] \in CPUs
        /\ \E v : SetSlot(c, kick[c], ReadSlot(c, v))
    BY <1>11 DEF call_func_ptr_read, undef_hook, Delivered, Goto, AtWork, InRange
  <2>2. \A i \in CPUs : kbuf'[c][i].status = kbuf[c][i].status
    BY <2>1 DEF SetSlot, ReadSlot
  <2> QED BY <2>1, <2>2, ProgressAtWork
<1>12. CASE call_func_ptr_table(c) \/ gic_bar_read(c)
  <2>1. /\ InLoop(c) /\ Advance(c) /\ req' = req /\ kick[c] \in CPUs
    BY <1>12 DEF call_func_ptr_table, gic_bar_read, Delivered, InLoop, InRange
  <2>2. \/ Silent(c) /\ kbuf' = kbuf
        \/ \E e : e.status # "NORESULT" /\ SetSlot(c, kick[c], e)
    <3>1. CASE call_func_ptr_table(c)
      <4> DEFINE e == [ReadSlot(c, NoValue) EXCEPT !.status = "TABLE"]
      <4>1. e.status # "NORESULT" /\ SetSlot(c, kick[c], e)
        BY <3>1 DEF call_func_ptr_table, ReadSlot
      <4> QED BY <4>1
    <3>2. CASE gic_bar_read(c)
      <4> DEFINE e == [val |-> <<req[c].target, kick[c]>>, cpu |-> kick[c],
                       midr |-> kbuf[c][kick[c]].midr, status |-> "SUCCESS"]
      <4>1. e.status # "NORESULT"
        OBVIOUS
      <4>2. (Silent(c) /\ kbuf' = kbuf) \/ SetSlot(c, kick[c], e)
        BY <3>2 DEF gic_bar_read, Silent
      <4> QED BY <4>1, <4>2
    <3> QED BY <1>12, <3>1, <3>2
  <2>3. /\ \A i \in CPUs \ {kick[c]} : kbuf'[c][i].status = kbuf[c][i].status
        /\ kbuf'[c][kick[c]].status # "NORESULT" \/ Silent(c)
    BY <2>1, <2>2 DEF SetSlot
  <2> HIDE DEF TypeInv
  <2> QED BY <2>1, <2>3, ProgressAdvance
<1>13. CASE set_undef_flag_judge(c)
  <2>1. /\ pc[c] \in AtWork /\ pc'[c] = "hunlock" /\ UNCHANGED <<req, kick>>
        /\ kick[c] \in CPUs
    BY <1>13 DEF set_undef_flag_judge, Goto, AtWork, InRange
  <2>2. /\ \A i \in CPUs \ {kick[c]} : kbuf'[c][i].status = kbuf[c][i].status
        /\ kbuf'[c][kick[c]].status # "NORESULT"
    BY <1>13, <2>1 DEF set_undef_flag_judge, SetStatus, SetSlot, Entry
  <2> QED BY <2>1, <2>2, ProgressJudge
<1>14. CASE set_undef_flag_unlock(c)
  <2>1. /\ InLoop(c) /\ Advance(c) /\ req' = req /\ kick[c] \in CPUs
        /\ pc[c] = "hunlock" /\ kbuf' = kbuf
    BY <1>14 DEF set_undef_flag_unlock, InLoop, InRange
  <2>2. kick[c] \in Done(c)
    BY <2>1 DEF Done
  <2>3. kbuf[c][kick[c]].status # "NORESULT" \/ Silent(c)
    BY <2>1, <2>2 DEF ProgressOf, Tally, Filling, NoVerdict
  <2> HIDE DEF TypeInv
  <2> QED BY <2>1, <2>3, ProgressAdvance
<1>15. CASE call_cmd_copy(c)
  BY <1>15 DEF call_cmd_copy, Goto, ProgressOf, Fresh, Preset, AtCpu, Accepted,
     Tally, Told, Filling, InLoop, Before, Answered, Done, Asked, Rejected, Silent,
     NoVerdict
<1> QED
  BY <1>1, <1>2, <1>3, <1>4, <1>5, <1>6, <1>7, <1>8, <1>9, <1>10, <1>11,
     <1>12, <1>13, <1>14, <1>15
  DEF Mine, Ioctl, Handler

LEMMA ProgressInvNext == TypeInv /\ ProgressInv /\ [Next]_vars => ProgressInv'
<1> SUFFICES ASSUME TypeInv, ProgressInv, [Next]_vars, NEW d \in Clients
             PROVE  ProgressOf(d)'
  BY DEF ProgressInv
<1>1. ProgressOf(d)
  BY DEF ProgressInv
<1>2. ASSUME NEW c \in Clients, Mine(c) PROVE ProgressOf(d)'
  <2>1. CASE d = c
    BY <1>1, <1>2, <2>1, ProgressMine
  <2>2. CASE d # c
    BY <1>1, <1>2, <2>2, ActorFrame, ProgressFrame
  <2> QED BY <2>1, <2>2
<1>3. CASE (\E i \in CPUs : CpuOffline(i)) \/ ForeignTrap \/ UNCHANGED vars
  BY <1>1, <1>3, ProgressFrame DEF CpuOffline, ForeignTrap, vars
<1> QED BY <1>2, <1>3 DEF Next, Mine

\* Every accepted request for a register has a verdict for each CPU it asked
\* for and for no other, a refused one has none (Driver!CompleteVerdict): for
\* any number of sessions at once.
THEOREM AnswersComplete == Spec => []CompleteVerdict
<1>1. ProgressInv => CompleteVerdict
  BY DEF ProgressInv, ProgressOf, Told, CompleteVerdict, Silent, NoVerdict
<1>2. Init => TypeInv /\ ProgressInv
  BY TypeInvInit, ProgressInvInit
<1>3. TypeInv /\ ProgressInv /\ [Next]_vars => (TypeInv /\ ProgressInv)'
  BY TypeInvNext, ProgressInvNext
<1> QED BY <1>1, <1>2, <1>3, PTL DEF Spec
-----------------------------------------------------------------------------
\* Only one step writes past the array.
LEMMA PastEndStep ==
    ASSUME TypeInv, NEW c \in Clients, kern = "ok", Mine(c), kern' = "corrupt"
    PROVE  cpu_online_past_end(c)
<1>1. ~ms_open(c) /\ ~ms_release(c) /\ ~driver_results(c)
  BY DEF ms_open, ms_add_undef_instr_hook, ms_release, ms_del_undef_instr_hook,
         driver_results
<1>2. ~call_cmd_init(c) /\ ~call_cmd_lock(c) /\ ~call_cmd_clear(c)
      /\ ~call_cmd_unlock(c) /\ ~call_cmd_copy(c)
  BY DEF call_cmd_init, call_cmd_lock, call_cmd_clear, call_cmd_unlock, call_cmd_copy
<1>3. ~call_func_reject(c) /\ ~call_func_return_results(c)
  BY DEF call_func_reject, call_func_return_results
<1>4. ~cpu_online_wrapper(c) /\ ~cpu_up_fails(c) /\ ~smp_call_function_single(c)
      /\ ~smp_call_fails(c)
  BY DEF cpu_online_wrapper, cpu_up_fails, smp_call_function_single, smp_call_fails
<1>5. ~Handler(c)
  BY DEF Handler, call_func_ptr_read, call_func_ptr_table, undef_hook, undef_unhooked,
         Unhooked, gic_bar_read, set_undef_flag_lock, set_undef_flag_judge,
         set_undef_flag_unlock
<1> QED BY <1>1, <1>2, <1>3, <1>4, <1>5 DEF Mine, Ioctl

\* Memory past the array is written only for a request that names the CPU after
\* the last one (Driver!OnlyNamedPastEnd): for any number of sessions at once.
THEOREM OnlyOneNumberOverruns == Spec => []OnlyNamedPastEnd
<1>1. Init => OnlyNamedPastEnd
  BY DEF Init, OnlyNamedPastEnd
<1>2. TypeInv /\ ProgressInv /\ OnlyNamedPastEnd /\ [Next]_vars => OnlyNamedPastEnd'
  <2> SUFFICES ASSUME TypeInv, ProgressInv, OnlyNamedPastEnd, [Next]_vars,
                      kern' = "corrupt"
               PROVE  \E c \in Clients : pc'[c] = "copy" /\ req'[c].pcpu = MS_MAX_CPUS
    BY DEF OnlyNamedPastEnd
  <2>1. CASE UNCHANGED vars
    BY <2>1 DEF OnlyNamedPastEnd, vars
  <2>2. ASSUME NEW c \in Clients, kern = "ok", Mine(c)
        PROVE  pc'[c] = "copy" /\ req'[c].pcpu = MS_MAX_CPUS
    <3>1. /\ pc[c] = "kick" /\ kick[c] >= MS_MAX_CPUS /\ req' = req
          /\ pc'[c] = "copy"
      BY <2>2, PastEndStep DEF cpu_online_past_end, Goto, TypeInv, TypeOK
    <3>2. /\ kick[c] \notin CPUs /\ kick[c] = req[c].pcpu /\ ~Rejected(c)
          /\ req[c].pcpu # MS_CPU_ALL
      BY <3>1, CpusAssumption
      DEF ProgressInv, ProgressOf, AtCpu, Accepted, Filling, InLoop, CPUs
    <3>3. kick[c] \in Nat
      BY DEF TypeInv, TypeOK
    <3> QED BY <3>1, <3>2, <3>3, CpusAssumption DEF Rejected
  <2>3. CASE \E i \in CPUs : CpuOffline(i)
    BY <2>3 DEF CpuOffline, OnlyNamedPastEnd
  <2>4. CASE ForeignTrap
    BY <2>4 DEF ForeignTrap, Unhooked, OnlyNamedPastEnd
  <2> QED BY <2>1, <2>2, <2>3, <2>4 DEF Next, Mine
<1>3. Init => TypeInv /\ ProgressInv
  BY TypeInvInit, ProgressInvInit
<1>4. TypeInv /\ ProgressInv /\ [Next]_vars => (TypeInv /\ ProgressInv)'
  BY TypeInvNext, ProgressInvNext
<1> QED BY <1>1, <1>2, <1>3, <1>4, PTL DEF Spec
-----------------------------------------------------------------------------
\* In the loop only the slot of the loop's CPU is written, before its verdict.
LEMMA LoopWrites ==
    ASSUME TypeInv, NEW c \in Clients, InLoop(c), Mine(c), NEW i \in CPUs,
           kbuf'[c][i] # kbuf[c][i]
    PROVE  i = kick[c] /\ pc[c] # "hunlock"
<1> USE DEF TypeInv, TypeOK, InLoop
<1>1. CASE cpu_online_past_end(c) \/ cpu_online_wrapper(c)
           \/ smp_call_function_single(c) \/ undef_unhooked(c)
           \/ set_undef_flag_lock(c) \/ set_undef_flag_unlock(c)
  BY <1>1 DEF cpu_online_past_end, cpu_online_wrapper, smp_call_function_single,
              undef_unhooked, set_undef_flag_lock, set_undef_flag_unlock
<1>2. CASE cpu_up_fails(c) \/ smp_call_fails(c) \/ set_undef_flag_judge(c)
  BY <1>2 DEF cpu_up_fails, smp_call_fails, set_undef_flag_judge, SetStatus, SetSlot
<1>3. CASE call_func_ptr_read(c) \/ call_func_ptr_table(c) \/ undef_hook(c)
           \/ gic_bar_read(c)
  BY <1>3 DEF call_func_ptr_read, call_func_ptr_table, undef_hook, gic_bar_read,
              Delivered, SetSlot
<1>4. ~ms_open(c) /\ ~ms_release(c) /\ ~driver_results(c) /\ ~call_cmd_copy(c)
  BY DEF ms_open, ms_release, driver_results, call_cmd_copy
<1>5. ~call_func_reject(c) /\ ~call_func_return_results(c)
  BY DEF call_func_reject, call_func_return_results
<1>6. ~call_cmd_init(c) /\ ~call_cmd_lock(c) /\ ~call_cmd_clear(c)
      /\ ~call_cmd_unlock(c)
  BY DEF call_cmd_init, call_cmd_lock, call_cmd_clear, call_cmd_unlock
<1> HIDE DEF TypeInv
<1> QED BY <1>1, <1>2, <1>3, <1>4, <1>5, <1>6 DEF Mine, Ioctl, Handler

\* A slot gets at most one verdict in an ioctl, and only when the loop is at
\* its CPU (Driver!OneVerdict): for any number of sessions at once.
THEOREM VerdictsFinal == Spec => OneVerdict
<1> DEFINE Once == \A c \in Clients :
              pc[c] \in HandlerPcs \cup {"kick", "call", "sent"} =>
                \A i \in CPUs : kbuf'[c][i] # kbuf[c][i] =>
                    kick[c] = i /\ kbuf[c][i].status = "NORESULT"
<1>1. TypeInv /\ ProgressInv /\ [Next]_vars => [Once]_vars
  <2> SUFFICES ASSUME TypeInv, ProgressInv, Next, NEW c \in Clients, InLoop(c),
                      NEW i \in CPUs, kbuf'[c][i] # kbuf[c][i]
               PROVE  kick[c] = i /\ kbuf[c][i].status = "NORESULT"
    BY DEF InLoop
  <2>1. PICK d \in Clients : Mine(d)
    BY DEF Next, Mine, CpuOffline, ForeignTrap
  <2>2. d = c
    BY <2>1, ActorFrame
  <2>3. i = kick[c] /\ pc[c] # "hunlock"
    BY <2>1, <2>2, LoopWrites
  <2>4. i \notin Done(c)
    BY <2>3, CpuNumbers DEF Done, Passed, InLoop
  <2> QED BY <2>3, <2>4 DEF ProgressInv, ProgressOf, Tally, Filling, NoVerdict
<1>2. Init => TypeInv /\ ProgressInv
  BY TypeInvInit, ProgressInvInit
<1>3. TypeInv /\ ProgressInv /\ [Next]_vars => (TypeInv /\ ProgressInv)'
  BY TypeInvNext, ProgressInvNext
<1> QED BY <1>1, <1>2, <1>3, PTL DEF Spec, OneVerdict
-----------------------------------------------------------------------------
(***************************************************************************)
(* What a slot holds is of its own CPU.                                    *)
(***************************************************************************)
Own(e, i) == /\ e.midr # NoCpu => e.midr = i
             /\ e.val # NoValue => e.val[2] = i /\ e.cpu = i
Current(c) == pc[c] \in HandlerPcs =>
    kbuf[c][kick[c]].val \in {NoValue, <<req[c].target, kick[c]>>}
OwnOf(c) == /\ \A i \in CPUs : Own(ubuf[c][i], i) /\ Own(kbuf[c][i], i)
            /\ Current(c)
OwnInv == \A c \in Clients : OwnOf(c)

LEMMA BlankOwn == \A i \in CPUs : Own(Zeroed[i], i)
  BY DEF Zeroed, Blank, Own

LEMMA OwnInvInit == Init => OwnInv
  BY BlankOwn DEF Init, OwnInv, OwnOf, Current

LEMMA OwnFrame ==
    ASSUME NEW c \in Clients, OwnOf(c),
           pc'[c] = pc[c] \/ pc'[c] \notin HandlerPcs \/ pc[c] \in HandlerPcs,
           req'[c] = req[c] \/ pc'[c] \notin HandlerPcs,
           kick'[c] = kick[c] \/ pc'[c] \notin HandlerPcs,
           ubuf'[c] = ubuf[c], kbuf'[c] = kbuf[c]
    PROVE  OwnOf(c)'
  BY DEF OwnOf, Own, Current

\* A slot that keeps its data keeps what is known of it.
LEMMA StatusOwn ==
    ASSUME NEW e \in Entry, NEW s, NEW i, Own(e, i)
    PROVE  Own([e EXCEPT !.status = s], i) /\ [e EXCEPT !.status = s].val = e.val
  BY DEF Own, Entry

LEMMA OwnWrite ==
    ASSUME TypeInv, NEW c \in Clients, OwnOf(c), kick[c] \in CPUs,
           NEW e, Own(e, kick[c]), SetSlot(c, kick[c], e), ubuf' = ubuf,
           \/ pc'[c] \notin HandlerPcs
           \/ /\ e.val \in {NoValue, <<req[c].target, kick[c]>>}
              /\ UNCHANGED <<req, kick>>
    PROVE  OwnOf(c)'
<1>1. /\ kbuf'[c][kick[c]] = e
      /\ \A i \in CPUs \ {kick[c]} : kbuf'[c][i] = kbuf[c][i]
  BY DEF TypeInv, TypeOK, SetSlot
<1>2. \A i \in CPUs : Own(kbuf'[c][i], i)
  BY <1>1 DEF OwnOf
<1>3. Current(c)'
  BY <1>1 DEF Current
<1>4. \A i \in CPUs : Own(ubuf'[c][i], i)
  BY DEF OwnOf
<1>5. \A i \in CPUs : Own(ubuf[c][i], i)' /\ Own(kbuf[c][i], i)'
  BY <1>2, <1>4 DEF Own
<1> QED BY <1>3, <1>5 DEF OwnOf

\* What a handler puts into the slot of its CPU.
LEMMA ReadOwn ==
    ASSUME NEW c \in Clients, NEW v,
           v \in {NoValue, <<req[c].target, kick[c]>>}
    PROVE  Own(ReadSlot(c, v), kick[c]) /\ ReadSlot(c, v).val = v
  BY DEF Own, ReadSlot

LEMMA OwnMine ==
    ASSUME TypeInv, NEW c \in Clients, OwnOf(c), Mine(c)
    PROVE  OwnOf(c)'
<1> USE DEF TypeInv, TypeOK
<1>1. CASE ms_open(c)
  BY <1>1, OwnFrame DEF ms_open, Goto
<1>2. CASE ms_release(c)
  BY <1>2, BlankOwn DEF ms_release, Goto, OwnOf, Current
<1>3. CASE driver_results(c)
  <2>1. \A i \in CPUs : Own(ubuf'[c][i], i)
    <3> TAKE i \in CPUs
    <3>1. ubuf'[c][i] = [ubuf[c][i] EXCEPT !.status = "NORESULT"]
      BY <1>3 DEF driver_results
    <3>2. ubuf[c][i] \in Entry /\ Own(ubuf[c][i], i)
      BY DEF OwnOf
    <3>3. Own([ubuf[c][i] EXCEPT !.status = "NORESULT"], i)
      <4> HIDE DEF TypeInv, TypeOK
      <4> QED BY <3>2, StatusOwn
    <3> QED BY <3>1, <3>3
  <2> QED BY <1>3, <2>1 DEF driver_results, Goto, OwnOf, Current
<1>4. CASE call_cmd_init(c) \/ call_cmd_lock(c) \/ call_cmd_clear(c)
           \/ call_cmd_unlock(c) \/ call_func_reject(c)
  BY <1>4, OwnFrame
  DEF call_cmd_init, call_cmd_lock, call_cmd_clear, call_cmd_unlock,
      call_func_reject, Goto
<1>5. CASE call_func_return_results(c)
  BY <1>5 DEF call_func_return_results, Goto, OwnOf, Current
<1>6. CASE cpu_online_past_end(c) \/ cpu_online_wrapper(c)
           \/ smp_call_function_single(c)
  BY <1>6, OwnFrame DEF cpu_online_past_end, cpu_online_wrapper,
                        smp_call_function_single, Goto
<1>7. CASE undef_unhooked(c)
  BY <1>7, OwnFrame DEF undef_unhooked
<1>8. CASE set_undef_flag_lock(c)
  BY <1>8, OwnFrame DEF set_undef_flag_lock, Goto
<1>9. CASE set_undef_flag_unlock(c)
  BY <1>9, OwnFrame DEF set_undef_flag_unlock, Advance, Goto
<1>10. CASE cpu_up_fails(c) \/ smp_call_fails(c)
  <2>1. /\ kick[c] \in CPUs /\ pc'[c] \notin HandlerPcs /\ ubuf' = ubuf
        /\ \E s : SetSlot(c, kick[c], [kbuf[c][kick[c]] EXCEPT !.status = s])
    BY <1>10, CpuNumbers DEF cpu_up_fails, smp_call_fails, InRange, SetStatus,
                             Advance, Goto
  <2>2. kbuf[c][kick[c]] \in Entry /\ Own(kbuf[c][kick[c]], kick[c])
    BY <2>1 DEF OwnOf
  <2> QED BY <2>1, <2>2, StatusOwn, OwnWrite
<1>11. CASE set_undef_flag_judge(c)
  <2>1. /\ kick[c] \in CPUs /\ UNCHANGED <<ubuf, req, kick>>
        /\ \E s : SetSlot(c, kick[c], [kbuf[c][kick[c]] EXCEPT !.status = s])
    BY <1>11 DEF set_undef_flag_judge, InRange, SetStatus
  <2>2. /\ kbuf[c][kick[c]] \in Entry /\ Own(kbuf[c][kick[c]], kick[c])
        /\ kbuf[c][kick[c]].val \in {NoValue, <<req[c].target, kick[c]>>}
    BY <1>11, <2>1 DEF OwnOf, Current, set_undef_flag_judge
  <2> QED BY <2>1, <2>2, StatusOwn, OwnWrite
<1>12. CASE call_func_ptr_read(c)
  <2> DEFINE v == IF req[c].target \in NoReader THEN NoValue
                                               ELSE <<req[c].target, kick[c]>>
  <2>1. /\ kick[c] \in CPUs /\ UNCHANGED <<ubuf, req, kick>>
        /\ SetSlot(c, kick[c], ReadSlot(c, v))
    BY <1>12 DEF call_func_ptr_read, Delivered, InRange
  <2>2. v \in {NoValue, <<req[c].target, kick[c]>>}
    OBVIOUS
  <2> HIDE DEF v
  <2> QED BY <2>1, <2>2, ReadOwn, OwnWrite
<1>13. CASE undef_hook(c)
  <2>1. /\ kick[c] \in CPUs /\ UNCHANGED <<ubuf, req, kick>>
        /\ SetSlot(c, kick[c], ReadSlot(c, NoValue))
    BY <1>13 DEF undef_hook, Delivered, InRange
  <2> QED BY <2>1, ReadOwn, OwnWrite
<1>14. CASE call_func_ptr_table(c)
  <2> DEFINE e == [ReadSlot(c, NoValue) EXCEPT !.status = "TABLE"]
  <2>1. /\ kick[c] \in CPUs /\ pc'[c] \notin HandlerPcs /\ ubuf' = ubuf
        /\ SetSlot(c, kick[c], e)
    BY <1>14 DEF call_func_ptr_table, Delivered, InRange, Advance, Goto
  <2>2. Own(e, kick[c])
    BY DEF Own, ReadSlot
  <2> HIDE DEF e
  <2> QED BY <2>1, <2>2, OwnWrite
<1>15. CASE gic_bar_read(c)
  <2> DEFINE e == [val |-> <<req[c].target, kick[c]>>, cpu |-> kick[c],
                   midr |-> kbuf[c][kick[c]].midr, status |-> "SUCCESS"]
  <2>1. /\ kick[c] \in CPUs /\ pc'[c] \notin HandlerPcs /\ ubuf' = ubuf
        /\ kbuf' = kbuf \/ SetSlot(c, kick[c], e)
    BY <1>15 DEF gic_bar_read, Delivered, InRange, Advance, Goto
  <2>2. Own(kbuf[c][kick[c]], kick[c])
    BY <2>1 DEF OwnOf
  <2>3. Own(e, kick[c])
    BY <2>2 DEF Own
  <2>4. CASE kbuf' = kbuf
    BY <2>1, <2>4 DEF OwnOf, Current
  <2>5. CASE SetSlot(c, kick[c], e)
    <3> HIDE DEF e
    <3> QED BY <2>1, <2>3, <2>5, OwnWrite
  <2> QED BY <2>1, <2>4, <2>5
<1>16. CASE call_cmd_copy(c)
  BY <1>16, BlankOwn DEF call_cmd_copy, Goto, OwnOf, Current
<1> HIDE DEF TypeInv
<1> QED
  BY <1>1, <1>2, <1>3, <1>4, <1>5, <1>6, <1>7, <1>8, <1>9, <1>10, <1>11,
     <1>12, <1>13, <1>14, <1>15, <1>16
  DEF Mine, Ioctl, Handler

LEMMA OwnInvNext == TypeInv /\ OwnInv /\ [Next]_vars => OwnInv'
<1> SUFFICES ASSUME TypeInv, OwnInv, [Next]_vars, NEW d \in Clients
             PROVE  OwnOf(d)'
  BY DEF OwnInv
<1>1. OwnOf(d)
  BY DEF OwnInv
<1>2. ASSUME NEW c \in Clients, Mine(c) PROVE OwnOf(d)'
  <2>1. CASE d = c
    BY <1>1, <1>2, <2>1, OwnMine
  <2>2. CASE d # c
    BY <1>1, <1>2, <2>2, ActorFrame, OwnFrame
  <2> QED BY <2>1, <2>2
<1>3. CASE (\E i \in CPUs : CpuOffline(i)) \/ ForeignTrap \/ UNCHANGED vars
  BY <1>1, <1>3, OwnFrame DEF CpuOffline, ForeignTrap, vars
<1> QED BY <1>2, <1>3 DEF Next, Mine

\* The data of a slot is of its own CPU and, while it is judged, of the register
\* asked for, and none is written outside of the array but the one that is named
\* (Driver!SlotData): for any number of sessions at once.
THEOREM SlotsNeverMix == Spec => []SlotData
<1>1. OwnInv /\ OnlyNamedPastEnd => SlotData
  <2> SUFFICES ASSUME OwnInv, OnlyNamedPastEnd, NEW c \in Clients, NEW i \in CPUs
               PROVE  LET e == kbuf[c][i]
                      IN  /\ e.midr # NoCpu => e.midr = i
                          /\ e.val # NoValue => e.val[2] = i /\ e.cpu = i
                          /\ pc[c] \in {"judge", "hunlock"} /\ kick[c] = i
                                /\ e.val # NoValue => e.val[1] = req[c].target
    BY DEF SlotData
  <2>1. Own(kbuf[c][i], i) /\ Current(c)
    BY DEF OwnInv, OwnOf
  <2> QED BY <2>1 DEF Own, Current
<1>2. Init => TypeInv /\ OwnInv
  BY TypeInvInit, OwnInvInit
<1>3. TypeInv /\ OwnInv /\ [Next]_vars => (TypeInv /\ OwnInv)'
  BY TypeInvNext, OwnInvNext
<1> QED BY <1>1, <1>2, <1>3, OnlyOneNumberOverruns, PTL DEF Spec
=============================================================================
