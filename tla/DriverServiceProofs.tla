------------------------- MODULE DriverServiceProofs -------------------------
(***************************************************************************)
(* Theorems about Driver with one session at a time.  The flag belongs to  *)
(* the read being judged, so verdicts are true; with no traps of other     *)
(* code and a reader for every row of the table, Driver implements         *)
(* RegisterService.                                                        *)
(***************************************************************************)
EXTENDS DriverProofs

USE DEF ThreadPcs, HandlerPcs, Pcs

Reading(c) == pc[c] \in {"hlock", "judge"}

\* The flag is up for a read that trapped, and only for it unless other code
\* traps as well.
TrapOf(c) == Reading(c) => /\ Undef(c) => flag = 1
                           /\ ~ForeignTraps /\ flag = 1 => Undef(c)
Low == ~ForeignTraps /\ (\A c \in Clients : ~Reading(c)) => flag = 0
FlagInv == Low /\ \A c \in Clients : TrapOf(c)

LEMMA FlagInvInit == Init => FlagInv
  BY DEF Init, FlagInv, Low, TrapOf, Reading

\* With one session, the others do nothing.
LEMMA OthersIdle ==
    ASSUME SoleInv, NEW c \in Clients, pc[c] # "closed", NEW d \in Clients \ {c}
    PROVE  pc[d] = "closed"
  BY DEF SoleInv

LEMMA FlagKept ==
    ASSUME FlagInv, flag' = flag, NEW c \in Clients,
           \A d \in Clients \ {c} : pc'[d] = pc[d] /\ req'[d] = req[d]
                                    /\ kick'[d] = kick[d],
           Reading(c)' <=> Reading(c),
           Reading(c) => req'[c] = req[c] /\ kick'[c] = kick[c]
    PROVE  FlagInv'
  BY DEF FlagInv, Low, TrapOf, Reading, Undef

LEMMA FlagDown ==
    ASSUME flag' = 0, NEW c \in Clients, ~Reading(c)',
           \A d \in Clients \ {c} : pc'[d] = "closed"
    PROVE  FlagInv'
  BY DEF FlagInv, Low, TrapOf, Reading

LEMMA FlagMine ==
    ASSUME TypeInv, SoleInv, FlagInv, NEW c \in Clients, Mine(c)
    PROVE  FlagInv'
<1> USE DEF TypeInv, TypeOK
<1>1. \A d \in Clients \ {c} : pc'[d] = pc[d] /\ req'[d] = req[d]
                                /\ kick'[d] = kick[d]
  BY ActorFrame
<1>2. CASE ms_open(c) \/ ms_release(c) \/ driver_results(c)
  BY <1>1, <1>2, FlagKept DEF ms_open, ms_release, driver_results, Goto, Reading
<1>3. CASE call_cmd_init(c) \/ call_cmd_lock(c) \/ call_cmd_unlock(c)
           \/ call_func_reject(c) \/ call_func_return_results(c) \/ call_cmd_copy(c)
  BY <1>1, <1>3, FlagKept
  DEF call_cmd_init, call_cmd_lock, call_cmd_unlock, call_func_reject,
      call_func_return_results, call_cmd_copy, Goto, Reading
<1>4. CASE cpu_online_past_end(c) \/ cpu_online_wrapper(c) \/ cpu_up_fails(c)
           \/ smp_call_function_single(c) \/ smp_call_fails(c)
  BY <1>1, <1>4, FlagKept
  DEF cpu_online_past_end, cpu_online_wrapper, cpu_up_fails,
      smp_call_function_single, smp_call_fails, Advance, Goto, Reading
<1>5. CASE call_func_ptr_table(c) \/ gic_bar_read(c) \/ undef_unhooked(c)
           \/ set_undef_flag_lock(c) \/ set_undef_flag_unlock(c)
  BY <1>1, <1>5, FlagKept
  DEF call_func_ptr_table, gic_bar_read, undef_unhooked, Delivered,
      set_undef_flag_lock, set_undef_flag_unlock, Advance, Goto, Reading
<1>6. pc[c] # "closed" => \A d \in Clients \ {c} : pc'[d] = "closed"
  BY <1>1, OthersIdle
<1>7. CASE call_cmd_clear(c) \/ set_undef_flag_judge(c)
  BY <1>6, <1>7, FlagDown DEF call_cmd_clear, set_undef_flag_judge, Goto, Reading
<1>8. CASE undef_hook(c)
  <2>1. flag' = 1 /\ Reading(c)' /\ Undef(c)'
        /\ \A d \in Clients \ {c} : ~Reading(d)'
    BY <1>6, <1>8 DEF undef_hook, Delivered, Goto, Reading, Undef
  <2> QED BY <2>1 DEF FlagInv, Low, TrapOf
<1>9. CASE call_func_ptr_read(c)
  <2>1. flag' = flag /\ Reading(c)' /\ ~Undef(c)'
        /\ \A d \in Clients \ {c} : ~Reading(d)'
    BY <1>6, <1>9 DEF call_func_ptr_read, Delivered, Goto, Reading, Undef
  <2>2. \A d \in Clients : ~Reading(d)
    BY <1>9, OthersIdle DEF call_func_ptr_read, Delivered, Reading
  <2>3. ~ForeignTraps => flag = 0
    BY <2>2 DEF FlagInv, Low
  <2> QED BY <2>1, <2>3 DEF FlagInv, Low, TrapOf
<1> HIDE DEF TypeInv
<1> QED BY <1>2, <1>3, <1>4, <1>5, <1>7, <1>8, <1>9 DEF Mine, Ioctl, Handler

LEMMA FlagInvNext ==
    ASSUME TypeInv, SoleInv, FlagInv, [Next]_vars
    PROVE  FlagInv'
<1>1. CASE \E c \in Clients : Mine(c)
  BY <1>1, FlagMine
<1>2. CASE (\E i \in CPUs : CpuOffline(i)) \/ UNCHANGED vars
  BY <1>2 DEF CpuOffline, vars, FlagInv, Low, TrapOf, Reading, Undef
<1>3. CASE ForeignTrap
  BY <1>3 DEF ForeignTrap, SoleInv, FlagInv, Low, TrapOf, Reading, Undef
<1> QED BY <1>1, <1>2, <1>3 DEF Next, Mine

SoleTypeInv == TypeInv /\ ProgressInv /\ SoleInv /\ FlagInv

LEMMA SoleTypeInvHolds == ASSUME ~Concurrent PROVE Spec => []SoleTypeInv
<1>1. Init => SoleTypeInv
  BY TypeInvInit, ProgressInvInit, SoleInvInit, FlagInvInit DEF SoleTypeInv
<1>2. SoleTypeInv /\ [Next]_vars => SoleTypeInv'
  BY TypeInvNext, ProgressInvNext, SoleInvNext, FlagInvNext DEF SoleTypeInv
<1> QED BY <1>1, <1>2, PTL DEF Spec

\* When sessions come one at a time and only the driver's own reads trap, the
\* flag is up exactly while a read that trapped waits for its verdict
\* (Driver!FlagDiscipline).
THEOREM FlagMeansTrap ==
    ASSUME ~Concurrent, ~ForeignTraps
    PROVE  Spec => []FlagDiscipline
<1>1. SoleTypeInv => FlagDiscipline
  BY DEF SoleTypeInv, TypeInv, TypeOK, FlagInv, Low, TrapOf, Reading,
         FlagDiscipline
<1> QED BY <1>1, SoleTypeInvHolds, PTL
-----------------------------------------------------------------------------
(***************************************************************************)
(* Verdicts are true.                                                      *)
(***************************************************************************)
\* What a status says of register (or GIC block) t on CPU i.
True_(e, t, i) ==
    /\ e.status = "SUCCESS" /\ NoReader = {} => e.val = <<t, i>> /\ e.cpu = i
    /\ e.status = "UNDEFINST" /\ ~ForeignTraps => <<t, i>> \in Undefined

\* A read that did not trap has put the register into its slot.
Fetched(c) == Reading(c) =>
    \/ Undef(c) \/ NoReader # {}
    \/ /\ kbuf[c][kick[c]].val = <<req[c].target, kick[c]>>
       /\ kbuf[c][kick[c]].cpu = kick[c]

VerdictOf(c) ==
    /\ Filling(c) => \A i \in CPUs : True_(kbuf[c][i], req[c].target, i)
    /\ Answered(c) => \A i \in CPUs : True_(ubuf[c][i], req[c].target, i)
    /\ Fetched(c)
VerdictInv == \A c \in Clients : VerdictOf(c)

LEMMA VerdictInvInit == Init => VerdictInv
  BY DEF Init, VerdictInv, VerdictOf, Filling, InLoop, Answered, Fetched, Reading

LEMMA VerdictFrame ==
    ASSUME NEW c \in Clients, VerdictOf(c),
           pc'[c] = pc[c], req'[c] = req[c], ubuf'[c] = ubuf[c],
           kbuf'[c] = kbuf[c], kick'[c] = kick[c]
    PROVE  VerdictOf(c)'
  BY DEF VerdictOf, True_, Filling, InLoop, Answered, Fetched, Reading, Undef

LEMMA NoVerdictTrue ==
    ASSUME NEW e, NEW t, NEW i, e.status \notin {"SUCCESS", "UNDEFINST"}
    PROVE  True_(e, t, i)
  BY DEF True_

\* Writing a true slot.
LEMMA VerdictWrite ==
    ASSUME TypeInv, NEW c \in Clients, VerdictOf(c), InLoop(c), kick[c] \in CPUs,
           NEW e, SetSlot(c, kick[c], e), True_(e, req[c].target, kick[c]),
           req' = req, ~Answered(c)', Fetched(c)'
    PROVE  VerdictOf(c)'
<1>1. /\ kbuf'[c][kick[c]] = e
      /\ \A i \in CPUs \ {kick[c]} : kbuf'[c][i] = kbuf[c][i]
  BY DEF TypeInv, TypeOK, SetSlot
<1>2. \A i \in CPUs : True_(kbuf[c][i], req[c].target, i)
  BY DEF VerdictOf, Filling
<1>3. \A i \in CPUs : True_(kbuf'[c][i], req[c].target, i)
  BY <1>1, <1>2
<1>4. \A i \in CPUs : True_(kbuf[c][i], req[c].target, i)'
  BY <1>3 DEF True_
<1> QED BY <1>4 DEF VerdictOf

LEMMA VerdictQuiet ==
    ASSUME NEW c \in Clients, VerdictOf(c), UNCHANGED <<req, kbuf>>,
           Filling(c)' => Filling(c), ~Answered(c)', Fetched(c)'
    PROVE  VerdictOf(c)'
  BY DEF VerdictOf, True_

LEMMA VerdictMine ==
    ASSUME SoleTypeInv, NEW c \in Clients, VerdictOf(c), Mine(c)
    PROVE  VerdictOf(c)'
<1> USE DEF SoleTypeInv, TypeInv, TypeOK
<1>0. ProgressOf(c)
  BY DEF ProgressInv
<1>1. CASE ms_open(c) \/ ms_release(c)
  BY <1>0, <1>1 DEF ms_open, ms_release, Goto, ProgressOf, Fresh, VerdictOf, Filling,
                    InLoop, Answered, Fetched, Reading
<1>2. CASE driver_results(c)
  BY <1>2 DEF driver_results, Goto, VerdictOf, Filling, InLoop, Answered, Fetched,
              Reading
<1>3. CASE call_cmd_init(c) \/ call_cmd_lock(c) \/ call_cmd_clear(c)
           \/ call_cmd_unlock(c)
  BY <1>3 DEF call_cmd_init, call_cmd_lock, call_cmd_clear, call_cmd_unlock, Goto,
              VerdictOf, Filling, InLoop, Answered, Fetched, Reading
<1>4. CASE call_func_reject(c)
  <2>1. /\ pc[c] = "dispatch" /\ pc'[c] = "open"
        /\ UNCHANGED <<req, ubuf, kbuf, kick>>
    BY <1>4 DEF call_func_reject, Goto
  <2>2. \A i \in CPUs : ubuf[c][i].status = "NORESULT"
    BY <1>0, <2>1 DEF ProgressOf, Preset, Before, NoVerdict
  <2>3. \A i \in CPUs : True_(ubuf[c][i], req[c].target, i)'
    BY <2>1, <2>2 DEF True_
  <2> QED BY <2>1, <2>3 DEF VerdictOf, Filling, InLoop, Fetched, Reading
<1>5. CASE call_func_return_results(c)
  <2>1. /\ pc[c] = "dispatch" /\ pc'[c] = "kick" /\ kbuf'[c] = ubuf[c]
    BY <1>5 DEF call_func_return_results, Goto
  <2>2. \A i \in CPUs : ubuf[c][i].status = "NORESULT"
    BY <1>0, <2>1 DEF ProgressOf, Preset, Before, NoVerdict
  <2>3. \A i \in CPUs : True_(kbuf[c][i], req[c].target, i)'
    BY <2>1, <2>2 DEF True_
  <2> QED BY <2>1, <2>3 DEF VerdictOf, Answered, Fetched, Reading
<1>6. CASE cpu_online_past_end(c) \/ cpu_online_wrapper(c)
           \/ smp_call_function_single(c) \/ set_undef_flag_unlock(c)
  BY <1>6, VerdictQuiet
  DEF cpu_online_past_end, cpu_online_wrapper, smp_call_function_single,
      set_undef_flag_unlock, Advance, Goto, Filling, InLoop, Answered, Fetched, Reading
<1>7. CASE undef_unhooked(c)
  BY <1>7, VerdictFrame DEF undef_unhooked
<1>8. CASE set_undef_flag_lock(c)
  BY <1>8, VerdictQuiet
  DEF set_undef_flag_lock, Goto, VerdictOf, Filling, InLoop, Answered, Fetched,
      Reading, Undef
<1>9. CASE cpu_up_fails(c) \/ smp_call_fails(c)
  <2>1. /\ InLoop(c) /\ kick[c] \in CPUs /\ req' = req
        /\ ~Answered(c)' /\ Fetched(c)'
    BY <1>9, CpuNumbers DEF cpu_up_fails, smp_call_fails, Advance, Goto, InLoop,
                            InRange, Answered, Fetched, Reading
  <2>2. \E s \in {"SMP", "SMP_SINGLE"} :
          SetSlot(c, kick[c], [kbuf[c][kick[c]] EXCEPT !.status = s])
    BY <1>9 DEF cpu_up_fails, smp_call_fails, SetStatus
  <2>3. PICK s \in {"SMP", "SMP_SINGLE"} :
          SetSlot(c, kick[c], [kbuf[c][kick[c]] EXCEPT !.status = s])
    BY <2>2
  <2> DEFINE e == [kbuf[c][kick[c]] EXCEPT !.status = s]
  <2>4. e.status = s
    BY <2>1 DEF Entry
  <2> HIDE DEF e
  <2>5. True_(e, req[c].target, kick[c])
    BY <2>4 DEF True_
  <2> QED BY <2>1, <2>3, <2>5, VerdictWrite DEF e
<1>10. CASE call_func_ptr_read(c)
  <2> DEFINE v == IF req[c].target \in NoReader THEN NoValue
                                               ELSE <<req[c].target, kick[c]>>
  <2>1. /\ pc[c] = "sent" /\ pc'[c] = "hlock" /\ kick[c] \in CPUs
        /\ SetSlot(c, kick[c], ReadSlot(c, v)) /\ UNCHANGED <<req, kick>>
    BY <1>10 DEF call_func_ptr_read, Delivered, Goto, InRange
  <2>2. kbuf[c][kick[c]].status = "NORESULT"
    BY <1>0, <2>1, CpuNumbers DEF ProgressOf, Tally, Filling, InLoop, Done, Passed,
                                  NoVerdict
  <2>3. True_(ReadSlot(c, v), req[c].target, kick[c])
    BY <2>2 DEF True_, ReadSlot
  <2>4. kbuf'[c][kick[c]] = ReadSlot(c, v)
    BY <2>1 DEF SetSlot
  <2>5. Fetched(c)'
    BY <2>1, <2>4 DEF Fetched, ReadSlot
  <2> QED BY <2>1, <2>3, <2>5, VerdictWrite DEF InLoop, Answered
<1>11. CASE undef_hook(c)
  <2>1. /\ pc[c] = "sent" /\ pc'[c] = "hlock" /\ kick[c] \in CPUs /\ Undef(c)'
        /\ SetSlot(c, kick[c], ReadSlot(c, NoValue)) /\ UNCHANGED <<req, kick>>
    BY <1>11 DEF undef_hook, Delivered, Goto, InRange, Undef
  <2>2. kbuf[c][kick[c]].status = "NORESULT"
    BY <1>0, <2>1, CpuNumbers DEF ProgressOf, Tally, Filling, InLoop, Done, Passed,
                                  NoVerdict
  <2>3. True_(ReadSlot(c, NoValue), req[c].target, kick[c])
    BY <2>2 DEF True_, ReadSlot
  <2>4. Fetched(c)'
    BY <2>1 DEF Fetched
  <2> QED BY <2>1, <2>3, <2>4, VerdictWrite DEF InLoop, Answered
<1>12. CASE call_func_ptr_table(c)
  <2> DEFINE e == [ReadSlot(c, NoValue) EXCEPT !.status = "TABLE"]
  <2>1. /\ InLoop(c) /\ kick[c] \in CPUs /\ req' = req /\ SetSlot(c, kick[c], e)
        /\ ~Answered(c)' /\ Fetched(c)'
    BY <1>12 DEF call_func_ptr_table, Delivered, Advance, Goto, InLoop, InRange,
                 Answered, Fetched, Reading
  <2>2. True_(e, req[c].target, kick[c])
    BY DEF True_, ReadSlot
  <2> HIDE DEF e
  <2> QED BY <2>1, <2>2, VerdictWrite
<1>13. CASE gic_bar_read(c)
  <2> DEFINE e == [val |-> <<req[c].target, kick[c]>>, cpu |-> kick[c],
                   midr |-> kbuf[c][kick[c]].midr, status |-> "SUCCESS"]
  <2>1. /\ InLoop(c) /\ kick[c] \in CPUs /\ req' = req
        /\ kbuf' = kbuf \/ SetSlot(c, kick[c], e)
        /\ ~Answered(c)' /\ Fetched(c)' /\ Filling(c)
    BY <1>13 DEF gic_bar_read, Delivered, Advance, Goto, InLoop, InRange,
                 Answered, Fetched, Reading, Filling
  <2>2. True_(e, req[c].target, kick[c])
    BY DEF True_
  <2> HIDE DEF e
  <2>3. CASE kbuf' = kbuf
    BY <2>1, <2>3, VerdictQuiet
  <2>4. CASE SetSlot(c, kick[c], e)
    BY <2>1, <2>2, <2>4, VerdictWrite
  <2> QED BY <2>1, <2>3, <2>4
<1>14. CASE set_undef_flag_judge(c)
  <2> DEFINE s == IF flag = 1 THEN "UNDEFINST" ELSE "SUCCESS"
             e == [kbuf[c][kick[c]] EXCEPT !.status = s]
  <2>1. /\ pc[c] = "judge" /\ pc'[c] = "hunlock" /\ kick[c] \in CPUs /\ req' = req
        /\ SetSlot(c, kick[c], e)
    BY <1>14 DEF set_undef_flag_judge, SetStatus, Goto, InRange
  <2>2. /\ e.status = s /\ e.val = kbuf[c][kick[c]].val
        /\ e.cpu = kbuf[c][kick[c]].cpu
    BY <2>1 DEF Entry
  <2>3. ~ForeignTraps /\ flag = 1 => Undef(c)
    BY <2>1 DEF FlagInv, TrapOf, Reading
  <2>4. flag # 1 /\ NoReader = {} => e.val = <<req[c].target, kick[c]>>
                                     /\ e.cpu = kick[c]
    BY <2>1, <2>2 DEF FlagInv, TrapOf, Reading, VerdictOf, Fetched
  <2> HIDE DEF e
  <2>5. True_(e, req[c].target, kick[c])
    BY <2>2, <2>3, <2>4 DEF True_, Undef
  <2> QED BY <2>1, <2>5, VerdictWrite DEF InLoop, Answered, Fetched, Reading
<1>15. CASE call_cmd_copy(c)
  <2>1. pc[c] = "copy" /\ pc'[c] = "open" /\ req' = req /\ ubuf'[c] = kbuf[c]
    BY <1>15 DEF call_cmd_copy, Goto
  <2>2. \A i \in CPUs : True_(kbuf[c][i], req[c].target, i)
    BY <2>1 DEF VerdictOf, Filling
  <2>3. \A i \in CPUs : True_(ubuf[c][i], req[c].target, i)'
    BY <2>1, <2>2 DEF True_
  <2> QED BY <2>1, <2>3 DEF VerdictOf, Filling, InLoop, Fetched, Reading
<1> HIDE DEF SoleTypeInv
<1> QED
  BY <1>1, <1>2, <1>3, <1>4, <1>5, <1>6, <1>7, <1>8, <1>9, <1>10, <1>11, <1>12,
     <1>13, <1>14, <1>15
  DEF Mine, Ioctl, Handler

LEMMA VerdictInvNext ==
    ASSUME SoleTypeInv, VerdictInv, [Next]_vars
    PROVE  VerdictInv'
<1> SUFFICES ASSUME NEW d \in Clients PROVE VerdictOf(d)'
  BY DEF VerdictInv
<1>1. VerdictOf(d) /\ TypeInv
  BY DEF VerdictInv, SoleTypeInv
<1>2. ASSUME NEW c \in Clients, Mine(c) PROVE VerdictOf(d)'
  <2>1. CASE d = c
    BY <1>1, <1>2, <2>1, VerdictMine
  <2>2. CASE d # c
    BY <1>1, <1>2, <2>2, ActorFrame, VerdictFrame
  <2> QED BY <2>1, <2>2
<1>3. CASE (\E i \in CPUs : CpuOffline(i)) \/ ForeignTrap \/ UNCHANGED vars
  BY <1>1, <1>3, VerdictFrame DEF CpuOffline, ForeignTrap, vars
<1> QED BY <1>2, <1>3 DEF Next, Mine

LEMMA VerdictInvHolds == ASSUME ~Concurrent PROVE Spec => []VerdictInv
<1>1. Init => VerdictInv
  BY VerdictInvInit
<1>2. SoleTypeInv /\ VerdictInv /\ [Next]_vars => VerdictInv'
  BY VerdictInvNext
<1> QED BY <1>1, <1>2, SoleTypeInvHolds, PTL DEF Spec

\* When sessions come one at a time and every row of the table has a reader, a
\* success means that the register was read on that CPU, whatever other code
\* does to the flag (Driver!NoFalseSuccess).
THEOREM SuccessIsTrue ==
    ASSUME ~Concurrent, NoReader = {}
    PROVE  Spec => []NoFalseSuccess
<1>1. VerdictInv => NoFalseSuccess
  BY DEF VerdictInv, VerdictOf, True_, NoFalseSuccess
<1> QED BY <1>1, VerdictInvHolds, PTL

\* When sessions come one at a time and no other code traps, a slot says
\* undefined only of a register its CPU does not implement
\* (Driver!NoFalseUndef).
THEOREM UndefIsTrue ==
    ASSUME ~Concurrent, ~ForeignTraps
    PROVE  Spec => []NoFalseUndef
<1>1. VerdictInv => NoFalseUndef
  BY DEF VerdictInv, VerdictOf, True_, NoFalseUndef
<1> QED BY <1>1, VerdictInvHolds, PTL

-----------------------------------------------------------------------------

\* The slot that a read leaves for its verdict.
Unjudged(c, i) ==
    Service!Seen(i, IF Undef(c) THEN NoValue ELSE <<req[c].target, i>>, "NORESULT")

\* How the driver's copy relates to what the client sent.
Judging(c) == Reading(c) => /\ req[c].target \in SysRegs \ {NullRow}
                            /\ kbuf[c][kick[c]] = Unjudged(c, kick[c])
Untouched(c) == Filling(c) => \A i \in CPUs \ Done(c) :
                    (Reading(c) => i # kick[c]) => kbuf[c][i] = ubuf[c][i]
Settled(c) == Filling(c) => \A i \in Done(c) \cap CPUs :
                    kbuf[c][i] \in Service!Slot(req[c], i, ubuf[c][i])
CopyOf(c) == Judging(c) /\ Untouched(c) /\ Settled(c)
CopyInv == \A c \in Clients : CopyOf(c)

LEMMA SameCpus == Service!CPUs = CPUs
  BY DEF Service!CPUs, CPUs

LEMMA SameRequests == Service!Request = Request
  BY DEF Service!Request, Request, Targets

\* A slot that is wanted.
LEMMA WantedAsked ==
    ASSUME NEW c \in Clients, ~Rejected(c), NEW i \in CPUs
    PROVE  i \in Service!Wanted(req[c]) <=> i \in Asked(c)
  BY SameCpus DEF Service!Wanted, Asked, Rejected

LEMMA CopyInvInit == Init => CopyInv
  BY DEF Init, CopyInv, CopyOf, Judging, Untouched, Settled, Filling, InLoop, Reading

LEMMA CopyFrame ==
    ASSUME NEW c \in Clients, CopyOf(c),
           pc'[c] = pc[c], req'[c] = req[c], ubuf'[c] = ubuf[c],
           kbuf'[c] = kbuf[c], kick'[c] = kick[c]
    PROVE  CopyOf(c)'
<1>1. /\ Filling(c)' = Filling(c) /\ Reading(c)' = Reading(c) /\ Done(c)' = Done(c)
      /\ Undef(c)' = Undef(c)
  BY DEF Filling, InLoop, Reading, Done, Passed, Asked, Undef
<1>2. Judging(c)'
  BY <1>1 DEF CopyOf, Judging, Unjudged, Service!Seen
<1>3. Untouched(c)'
  BY <1>1 DEF CopyOf, Untouched
<1>4. Settled(c)'
  BY <1>1 DEF CopyOf, Settled
<1> QED BY <1>2, <1>3, <1>4 DEF CopyOf

\* Steps outside the loop.
LEMMA CopyOutside ==
    ASSUME NEW c \in Clients, ~Filling(c)'
    PROVE  CopyOf(c)'
  BY DEF CopyOf, Judging, Untouched, Settled, Filling, InLoop, Reading

\* Steps of the loop that write nothing and finish with no CPU.
LEMMA CopyQuiet ==
    ASSUME NEW c \in Clients, CopyOf(c), Filling(c), Done(c)' = Done(c),
           UNCHANGED <<req, ubuf, kbuf, kick>>, Reading(c)' = Reading(c)
    PROVE  CopyOf(c)'
<1>1. Undef(c)' = Undef(c)
  BY DEF Undef
<1>2. Judging(c)'
  BY <1>1 DEF CopyOf, Judging, Unjudged, Service!Seen
<1>3. Untouched(c)'
  BY DEF CopyOf, Untouched
<1>4. Settled(c)'
  BY DEF CopyOf, Settled
<1> QED BY <1>2, <1>3, <1>4 DEF CopyOf

\* The loop finishes with its CPU.
LEMMA CopyFinish ==
    ASSUME NEW c \in Clients, CopyOf(c), InLoop(c), kick[c] \in CPUs,
           Done(c)' = Done(c) \cup {kick[c]}, UNCHANGED <<req, ubuf>>, ~Reading(c)',
           \A i \in CPUs \ {kick[c]} : kbuf'[c][i] = kbuf[c][i],
           kbuf'[c][kick[c]] \in Service!Slot(req[c], kick[c], ubuf[c][kick[c]])
    PROVE  CopyOf(c)'
<1>1. Untouched(c)'
  BY DEF CopyOf, Untouched, Filling
<1>2. Settled(c)'
  BY DEF CopyOf, Settled, Filling
<1> QED BY <1>1, <1>2 DEF CopyOf, Judging

LEMMA AdvanceDone ==
    ASSUME TypeInv, NEW c \in Clients, ProgressOf(c), InLoop(c), kick[c] \in CPUs,
           Advance(c), req' = req
    PROVE  Done(c)' = Done(c) \cup {kick[c]} /\ ~Reading(c)'
<1> DEFINE more == req[c].pcpu = MS_CPU_ALL /\ kick[c] + 1 < MS_MAX_CPUS
<1>1. /\ more => pc'[c] = "kick" /\ kick'[c] = kick[c] + 1
      /\ ~more => pc'[c] = "copy" /\ kick'[c] = kick[c]
  BY DEF TypeInv, TypeOK, Advance, Goto
<1>2. kick[c] \in Asked(c) /\ (req[c].pcpu # MS_CPU_ALL => kick[c] = req[c].pcpu)
  BY DEF ProgressOf, AtCpu
<1>3. Asked(c)' = Asked(c)
  BY DEF Asked
<1>4. Done(c) \cup {kick[c]} = Passed(c) \cup {kick[c]}
  BY DEF Done, InLoop
<1>5. CASE more
  BY <1>1, <1>2, <1>3, <1>4, <1>5, CpusAssumption
  DEF Done, Passed, Asked, CPUs, Reading
<1>6. CASE ~more
  BY <1>1, <1>2, <1>3, <1>4, <1>6, CpusAssumption
  DEF Done, Passed, Asked, CPUs, Reading
<1> QED BY <1>5, <1>6

\* What the loop knows of the slot it has come to.
LEMMA SlotReached ==
    ASSUME NEW c \in Clients, ProgressOf(c), CopyOf(c), kick[c] \in CPUs,
           pc[c] \in {"kick", "call", "sent"}
    PROVE  /\ kbuf[c][kick[c]] = ubuf[c][kick[c]]
           /\ kbuf[c][kick[c]].status = "NORESULT"
           /\ kick[c] \notin Done(c)
<1>1. kick[c] \notin Done(c)
  BY CpuNumbers DEF Done, Passed
<1>2. Filling(c) /\ ~Reading(c)
  BY DEF Filling, InLoop, Reading
<1> QED BY <1>1, <1>2 DEF ProgressOf, Tally, NoVerdict, CopyOf, Untouched

LEMMA WantedHere ==
    ASSUME NEW c \in Clients, ProgressOf(c), InLoop(c), kick[c] \in CPUs
    PROVE  kick[c] \in Service!Wanted(req[c])
<1>1. ~Rejected(c) /\ kick[c] \in Asked(c)
  BY DEF ProgressOf, Accepted, AtCpu, Filling
<1> QED BY <1>1, WantedAsked

LEMMA JudgedSlot ==
    ASSUME NEW c \in Clients, NEW i, NEW s
    PROVE  [Unjudged(c, i) EXCEPT !.status = s] =
             Service!Seen(i, IF Undef(c) THEN NoValue ELSE <<req[c].target, i>>, s)
  BY DEF Unjudged, Service!Seen

LEMMA CopyMine ==
    ASSUME SoleTypeInv, NoReader = {}, ~ForeignTraps, NEW c \in Clients, CopyOf(c),
           Mine(c)
    PROVE  CopyOf(c)'
<1> USE DEF SoleTypeInv, TypeInv, TypeOK
<1>0. ProgressOf(c)
  BY DEF ProgressInv
<1>1. CASE ms_open(c) \/ ms_release(c) \/ driver_results(c) \/ call_cmd_init(c)
           \/ call_cmd_lock(c) \/ call_cmd_clear(c) \/ call_cmd_unlock(c)
           \/ call_func_reject(c) \/ call_cmd_copy(c)
  <2>1. ~Filling(c)'
    BY <1>1 DEF ms_open, ms_release, driver_results, call_cmd_init, call_cmd_lock,
                call_cmd_clear, call_cmd_unlock, call_func_reject, call_cmd_copy,
                Goto, Filling, InLoop
  <2> QED BY <2>1, CopyOutside
<1>2. CASE call_func_return_results(c)
  <2>1. /\ pc'[c] = "kick" /\ kbuf'[c] = ubuf[c] /\ UNCHANGED <<req, ubuf>>
        /\ kick'[c] = IF req[c].pcpu = MS_CPU_ALL THEN 0 ELSE req[c].pcpu
    BY <1>2 DEF call_func_return_results, Goto
  <2>2. Done(c)' = {}
    BY <2>1, CpusAssumption DEF Done, Passed, Asked, CPUs
  <2> QED BY <2>1, <2>2 DEF CopyOf, Judging, Untouched, Settled, Reading
<1>3. CASE cpu_online_past_end(c)
  <2>1. /\ pc[c] = "kick" /\ pc'[c] = "copy" /\ kick[c] >= MS_MAX_CPUS
        /\ UNCHANGED <<req, ubuf, kbuf, kick>>
    BY <1>3 DEF cpu_online_past_end, Goto
  <2>2. req[c].pcpu # MS_CPU_ALL /\ kick[c] = req[c].pcpu /\ kick[c] \notin CPUs
    BY <1>0, <2>1, CpusAssumption DEF ProgressOf, AtCpu, InLoop, CPUs
  <2>3. Asked(c)' = {} /\ Done(c)' = {} /\ Done(c) = {}
    BY <2>1, <2>2 DEF Asked, Done, Passed
  <2>4. Filling(c) /\ Reading(c)' = Reading(c)
    BY <2>1 DEF Filling, InLoop, Reading
  <2> HIDE DEF SoleTypeInv
  <2> QED BY <2>1, <2>3, <2>4, CopyQuiet
<1>4. CASE cpu_online_wrapper(c) \/ smp_call_function_single(c)
           \/ set_undef_flag_lock(c)
  <2>1. /\ Filling(c) /\ Reading(c)' = Reading(c) /\ UNCHANGED <<req, ubuf, kbuf, kick>>
        /\ pc[c] \notin {"copy", "hunlock"} /\ pc'[c] \notin {"copy", "hunlock"}
    BY <1>4 DEF cpu_online_wrapper, smp_call_function_single, set_undef_flag_lock,
                Goto, Filling, InLoop, Reading
  <2>2. Done(c)' = Done(c)
    BY <2>1 DEF Done, Passed, Asked
  <2> HIDE DEF SoleTypeInv
  <2> QED BY <2>1, <2>2, CopyQuiet
<1>5. CASE undef_unhooked(c)
  BY <1>5, CopyFrame DEF undef_unhooked
<1>6. CASE cpu_up_fails(c) \/ smp_call_fails(c)
  <2>1. /\ pc[c] \in {"kick", "call"} /\ kick[c] \in CPUs /\ Advance(c)
        /\ UNCHANGED <<req, ubuf>>
        /\ \E s \in {"SMP", "SMP_SINGLE"} :
             SetSlot(c, kick[c], [kbuf[c][kick[c]] EXCEPT !.status = s])
    BY <1>6, CpuNumbers DEF cpu_up_fails, smp_call_fails, InRange, SetStatus
  <2>2. kbuf[c][kick[c]] = ubuf[c][kick[c]]
    BY <1>0, <2>1, SlotReached
  <2>3. /\ \A i \in CPUs \ {kick[c]} : kbuf'[c][i] = kbuf[c][i]
        /\ kbuf'[c][kick[c]] \in Service!Excuse(ubuf[c][kick[c]])
    BY <2>1, <2>2 DEF SetSlot, Service!Excuse
  <2>4. kbuf'[c][kick[c]] \in Service!Slot(req[c], kick[c], ubuf[c][kick[c]])
    BY <1>0, <2>1, <2>3, WantedHere DEF Service!Slot, InLoop
  <2>5. Done(c)' = Done(c) \cup {kick[c]} /\ ~Reading(c)' /\ InLoop(c)
    BY <1>0, <2>1, AdvanceDone DEF InLoop
  <2> HIDE DEF SoleTypeInv
  <2> QED BY <2>1, <2>3, <2>4, <2>5, CopyFinish
<1>7. CASE call_func_ptr_read(c) \/ undef_hook(c)
  <2>1. /\ pc[c] = "sent" /\ pc'[c] = "hlock" /\ kick[c] \in CPUs
        /\ UNCHANGED <<req, ubuf, kick>> /\ Undef(c)' = Undef(c)
        /\ req[c].target \in SysRegs \ {NullRow}
        /\ SetSlot(c, kick[c], ReadSlot(c, IF Undef(c) THEN NoValue
                                           ELSE <<req[c].target, kick[c]>>))
    BY <1>7 DEF call_func_ptr_read, undef_hook, Delivered, Goto, InRange, HasReader,
                Undef
  <2>2. kbuf[c][kick[c]].status = "NORESULT"
    BY <1>0, <2>1, SlotReached
  <2>3. /\ \A i \in CPUs \ {kick[c]} : kbuf'[c][i] = kbuf[c][i]
        /\ kbuf'[c][kick[c]] = Unjudged(c, kick[c])
    BY <2>1, <2>2 DEF SetSlot, ReadSlot, Unjudged, Service!Seen
  <2>4. Done(c)' = Done(c) /\ kick[c] \notin Done(c) /\ Filling(c)
    BY <2>1, CpuNumbers DEF Done, Passed, Asked, Filling, InLoop
  <2>5. Judging(c)'
    BY <2>1, <2>3 DEF Judging, Unjudged
  <2>6. Untouched(c)' /\ Settled(c)'
    BY <2>1, <2>3, <2>4 DEF CopyOf, Untouched, Settled, Reading
  <2> QED BY <2>5, <2>6 DEF CopyOf
<1>8. CASE call_func_ptr_table(c)
  <2>1. /\ pc[c] = "sent" /\ kick[c] \in CPUs /\ Advance(c)
        /\ UNCHANGED <<req, ubuf>> /\ req[c].target = NullRow
        /\ SetSlot(c, kick[c], [ReadSlot(c, NoValue) EXCEPT !.status = "TABLE"])
    BY <1>8 DEF call_func_ptr_table, Delivered, InRange
  <2>2. [ReadSlot(c, NoValue) EXCEPT !.status = "TABLE"]
          = Service!Seen(kick[c], NoValue, "TABLE")
    BY DEF ReadSlot, Service!Seen
  <2>3. /\ \A i \in CPUs \ {kick[c]} : kbuf'[c][i] = kbuf[c][i]
        /\ kbuf'[c][kick[c]] = Service!Seen(kick[c], NoValue, "TABLE")
    BY <2>1, <2>2 DEF SetSlot
  <2>4. kbuf'[c][kick[c]] \in Service!Truth(req[c].target, kick[c], ubuf[c][kick[c]])
    BY <2>1, <2>3, TargetsAssumption DEF Service!Truth
  <2>5. kbuf'[c][kick[c]] \in Service!Slot(req[c], kick[c], ubuf[c][kick[c]])
    BY <1>0, <2>1, <2>4, WantedHere DEF Service!Slot, InLoop
  <2>6. Done(c)' = Done(c) \cup {kick[c]} /\ ~Reading(c)' /\ InLoop(c)
    BY <1>0, <2>1, AdvanceDone DEF InLoop
  <2> HIDE DEF SoleTypeInv
  <2> QED BY <2>1, <2>3, <2>5, <2>6, CopyFinish
<1>9. CASE gic_bar_read(c)
  <2>1. /\ pc[c] = "sent" /\ kick[c] \in CPUs /\ Advance(c)
        /\ UNCHANGED <<req, ubuf>> /\ req[c].target \in GicBlocks
        /\ kbuf[c][kick[c]] \in Entry
    BY <1>9 DEF gic_bar_read, Delivered, InRange
  <2>2. kbuf[c][kick[c]] = ubuf[c][kick[c]]
    BY <1>0, <2>1, SlotReached
  <2> DEFINE old == ubuf[c][kick[c]]
             e == [val |-> <<req[c].target, kick[c]>>, cpu |-> kick[c],
                   midr |-> kbuf[c][kick[c]].midr, status |-> "SUCCESS"]
  <2>3. /\ \A i \in CPUs \ {kick[c]} : kbuf'[c][i] = kbuf[c][i]
        /\ kbuf'[c][kick[c]] = IF req[c].target \in Mapped THEN e ELSE old
    BY <1>9, <2>1, <2>2 DEF gic_bar_read, SetSlot
  <2>4. kbuf'[c][kick[c]] \in Service!Truth(req[c].target, kick[c], old)
    BY <2>1, <2>2, <2>3, TargetsAssumption DEF Service!Truth
  <2>5. kbuf'[c][kick[c]] \in Service!Slot(req[c], kick[c], ubuf[c][kick[c]])
    BY <1>0, <2>1, <2>4, WantedHere DEF Service!Slot, InLoop
  <2>6. Done(c)' = Done(c) \cup {kick[c]} /\ ~Reading(c)' /\ InLoop(c)
    BY <1>0, <2>1, AdvanceDone DEF InLoop
  <2> HIDE DEF SoleTypeInv
  <2> QED BY <2>1, <2>3, <2>5, <2>6, CopyFinish
<1>10. CASE set_undef_flag_judge(c)
  <2>1. /\ pc[c] = "judge" /\ pc'[c] = "hunlock" /\ kick[c] \in CPUs
        /\ UNCHANGED <<req, ubuf, kick>>
        /\ SetSlot(c, kick[c], [kbuf[c][kick[c]] EXCEPT
                     !.status = IF flag = 1 THEN "UNDEFINST" ELSE "SUCCESS"])
    BY <1>10 DEF set_undef_flag_judge, SetStatus, Goto, InRange
  <2>2. flag = 1 <=> Undef(c)
    BY <2>1 DEF FlagInv, TrapOf, Reading
  <2>3. kbuf[c][kick[c]] = Unjudged(c, kick[c]) /\ req[c].target \in SysRegs \ {NullRow}
    BY <2>1 DEF CopyOf, Judging, Reading
  <2> DEFINE s == IF flag = 1 THEN "UNDEFINST" ELSE "SUCCESS"
  <2>4. /\ \A i \in CPUs \ {kick[c]} : kbuf'[c][i] = kbuf[c][i]
        /\ kbuf'[c][kick[c]] = [Unjudged(c, kick[c]) EXCEPT !.status = s]
    BY <2>1, <2>3 DEF SetSlot
  <2>5. /\ \A i \in CPUs \ {kick[c]} : kbuf'[c][i] = kbuf[c][i]
        /\ kbuf'[c][kick[c]] =
             IF Undef(c) THEN Service!Seen(kick[c], NoValue, "UNDEFINST")
             ELSE Service!Seen(kick[c], <<req[c].target, kick[c]>>, "SUCCESS")
    <3>1. [Unjudged(c, kick[c]) EXCEPT !.status = s] =
             Service!Seen(kick[c], IF Undef(c) THEN NoValue
                                   ELSE <<req[c].target, kick[c]>>, s)
      BY JudgedSlot
    <3> QED BY <2>2, <2>4, <3>1
  <2>6. kbuf'[c][kick[c]] \in Service!Truth(req[c].target, kick[c], ubuf[c][kick[c]])
    BY <2>3, <2>5, TargetsAssumption DEF Service!Truth, Undef
  <2>7. kbuf'[c][kick[c]] \in Service!Slot(req[c], kick[c], ubuf[c][kick[c]])
    BY <1>0, <2>1, <2>6, WantedHere DEF Service!Slot, InLoop
  <2>8. Done(c)' = Done(c) \cup {kick[c]} /\ ~Reading(c)' /\ InLoop(c)
    BY <2>1 DEF Done, Passed, Asked, Reading, InLoop
  <2> HIDE DEF SoleTypeInv
  <2> QED BY <2>1, <2>5, <2>7, <2>8, CopyFinish
<1>11. CASE set_undef_flag_unlock(c)
  <2>1. /\ pc[c] = "hunlock" /\ kick[c] \in CPUs /\ Advance(c)
        /\ UNCHANGED <<req, ubuf, kbuf>>
    BY <1>11 DEF set_undef_flag_unlock, InRange
  <2>2. kick[c] \in Done(c) /\ Filling(c) /\ InLoop(c)
    BY <2>1 DEF Done, Filling, InLoop
  <2>3. kbuf[c][kick[c]] \in Service!Slot(req[c], kick[c], ubuf[c][kick[c]])
    BY <2>1, <2>2 DEF CopyOf, Settled
  <2>4. Done(c)' = Done(c) \cup {kick[c]} /\ ~Reading(c)'
    BY <1>0, <2>1, <2>2, AdvanceDone
  <2> HIDE DEF SoleTypeInv
  <2> QED BY <2>1, <2>2, <2>3, <2>4, CopyFinish
<1> HIDE DEF SoleTypeInv
<1> QED
  BY <1>1, <1>2, <1>3, <1>4, <1>5, <1>6, <1>7, <1>8, <1>9, <1>10, <1>11
  DEF Mine, Ioctl, Handler

LEMMA CopyInvNext ==
    ASSUME SoleTypeInv, NoReader = {}, ~ForeignTraps, CopyInv, [Next]_vars
    PROVE  CopyInv'
<1> SUFFICES ASSUME NEW d \in Clients PROVE CopyOf(d)'
  BY DEF CopyInv
<1>1. CopyOf(d) /\ TypeInv
  BY DEF CopyInv, SoleTypeInv
<1>2. ASSUME NEW c \in Clients, Mine(c) PROVE CopyOf(d)'
  <2>1. CASE d = c
    BY <1>1, <1>2, <2>1, CopyMine
  <2>2. CASE d # c
    BY <1>1, <1>2, <2>2, ActorFrame, CopyFrame
  <2> QED BY <2>1, <2>2
<1>3. CASE (\E i \in CPUs : CpuOffline(i)) \/ ForeignTrap \/ UNCHANGED vars
  BY <1>1, <1>3, CopyFrame DEF CpuOffline, ForeignTrap, vars
<1> QED BY <1>2, <1>3 DEF Next, Mine
-----------------------------------------------------------------------------
(***************************************************************************)
(* The refinement: opening, closing and asking are the service's own       *)
(* steps, the answer is the return of the ioctl, the rest is stuttering.   *)
(***************************************************************************)
Phase(p) == CASE p = "closed" -> "closed" [] p = "open" -> "idle" [] OTHER -> "busy"

LEMMA PhaseOf == phase = [c \in Clients |-> Phase(pc[c])]
  BY DEF phase, Phase

LEMMA PhaseStep ==
    ASSUME TypeOK, NEW c \in Clients, NEW p, pc' = [pc EXCEPT ![c] = p]
    PROVE  phase' = [phase EXCEPT ![c] = Phase(p)]
<1>1. phase' = [d \in Clients |-> Phase(pc'[d])]
  BY PhaseOf DEF phase, Phase
<1>2. \A d \in Clients : pc'[d] = IF d = c THEN p ELSE pc[d]
  BY DEF TypeOK
<1> QED BY <1>1, <1>2, PhaseOf

LEMMA InitRefines == Init => Service!Init
  BY DEF Init, Service!Init, phase, Zeroed, Blank, Service!Blank, CPUs, Service!CPUs

\* A step inside an ioctl.
LEMMA InsideRefines ==
    ASSUME TypeOK, NEW c \in Clients, UNCHANGED <<req, ubuf>>,
           pc[c] \notin {"closed", "open"}, pc'[c] \notin {"closed", "open"},
           \A d \in Clients \ {c} : pc'[d] = pc[d]
    PROVE  UNCHANGED Service!svars
<1>1. phase' = phase
  BY DEF phase
<1> QED BY <1>1 DEF Service!svars

\* The return of an ioctl.
LEMMA ReturnRefines ==
    ASSUME TypeOK, NEW c \in Clients, pc[c] \notin {"closed", "open"},
           Goto(c, "open"), req' = req, NEW b \in [CPUs -> Entry],
           ubuf' = [ubuf EXCEPT ![c] = b],
           \A i \in CPUs : b[i] \in Service!Slot(req[c], i, ubuf[c][i])
    PROVE  Service!Next
<1>1. phase' = [phase EXCEPT ![c] = "idle"] /\ phase[c] = "busy"
  BY PhaseStep, PhaseOf DEF Goto, Phase
<1>2. ubuf'[c] = b /\ b = [i \in CPUs |-> b[i]]
  BY DEF TypeOK
<1>3. Service!Answer(c)
  BY <1>1, <1>2, SameCpus DEF Service!Answer
<1> QED BY <1>3 DEF Service!Next

LEMMA StepRefines ==
    ASSUME SoleTypeInv, CopyInv, [Next]_vars
    PROVE  [Service!Next]_(Service!svars)
<1> USE DEF SoleTypeInv, TypeInv
<1>1. ASSUME NEW c \in Clients, Mine(c) PROVE [Service!Next]_(Service!svars)
  <2>0. \A d \in Clients \ {c} : pc'[d] = pc[d]
    BY <1>1, ActorFrame
  <2>1. CASE ms_open(c)
    <3>1. phase' = [phase EXCEPT ![c] = "idle"] /\ phase[c] = "closed"
      BY <2>1, PhaseStep, PhaseOf DEF ms_open, Goto, Phase
    <3>2. Service!Open(c)
      BY <2>1, <3>1 DEF ms_open, Service!Open
    <3> QED BY <3>2 DEF Service!Next
  <2>2. CASE ms_release(c)
    <3>1. phase' = [phase EXCEPT ![c] = "closed"] /\ phase[c] = "idle"
      BY <2>2, PhaseStep, PhaseOf DEF ms_release, Goto, Phase
    <3>2. Service!Close(c)
      BY <2>2, <3>1 DEF ms_release, Service!Close, Zeroed, Blank, Service!Blank,
                        CPUs, Service!CPUs
    <3> QED BY <3>2 DEF Service!Next
  <2>3. CASE driver_results(c)
    <3>1. pc' = [pc EXCEPT ![c] = "reset"] /\ pc[c] = "open"
      BY <2>3 DEF driver_results, Goto
    <3>2. phase' = [phase EXCEPT ![c] = "busy"] /\ phase[c] = "idle"
      <4>1. Phase("reset") = "busy" /\ Phase("open") = "idle"
        BY DEF Phase
      <4>2. phase' = [phase EXCEPT ![c] = Phase("reset")]
        BY <3>1, PhaseStep
      <4> QED BY <3>1, <4>1, <4>2, PhaseOf
    <3>3. Service!Ask(c)
      BY <2>3, <3>2, SameRequests, SameCpus DEF driver_results, Service!Ask
    <3> QED BY <3>3 DEF Service!Next
  <2>4. CASE call_func_reject(c)
    <3>1. /\ pc[c] = "dispatch" /\ Goto(c, "open") /\ req' = req /\ Rejected(c)
          /\ ubuf' = [ubuf EXCEPT ![c] = ubuf[c]] /\ ubuf[c] \in [CPUs -> Entry]
          /\ req[c] \in Request
      BY <2>4 DEF call_func_reject, TypeOK, InRange, Busy
    <3>2. Service!Wanted(req[c]) \cap CPUs = {}
      BY <3>1, SameCpus, PcpuNat, CpusAssumption
      DEF Service!Wanted, Rejected, CPUs
    <3>3. \A i \in CPUs : ubuf[c][i] \in Service!Slot(req[c], i, ubuf[c][i])
      BY <3>2 DEF Service!Slot
    <3> QED BY <3>1, <3>3, ReturnRefines
  <2>5. CASE call_cmd_copy(c)
    <3>1. /\ pc[c] = "copy" /\ Goto(c, "open") /\ req' = req
          /\ ubuf' = [ubuf EXCEPT ![c] = kbuf[c]] /\ kbuf[c] \in [CPUs -> Entry]
      BY <2>5 DEF call_cmd_copy, TypeOK
    <3>2. ~Rejected(c) /\ Done(c) = Asked(c) /\ Filling(c)
      BY <3>1 DEF ProgressInv, ProgressOf, Accepted, Filling, Done
    <3>3. \A i \in CPUs : kbuf[c][i] \in Service!Slot(req[c], i, ubuf[c][i])
      <4> TAKE i \in CPUs
      <4>1. CASE i \in Asked(c)
        BY <3>2, <4>1 DEF CopyInv, CopyOf, Settled
      <4>2. CASE i \notin Asked(c)
        <5>1. kbuf[c][i] = ubuf[c][i]
          BY <3>1, <3>2, <4>2 DEF CopyInv, CopyOf, Untouched, Reading
        <5>2. i \notin Service!Wanted(req[c])
          BY <3>2, <4>2, WantedAsked
        <5> QED BY <5>1, <5>2 DEF Service!Slot
      <4> QED BY <4>1, <4>2
    <3> QED BY <3>1, <3>3, ReturnRefines
  <2>6. CASE call_cmd_init(c) \/ call_cmd_lock(c) \/ call_cmd_clear(c)
             \/ call_cmd_unlock(c) \/ call_func_return_results(c)
    BY <2>0, <2>6, InsideRefines
    DEF call_cmd_init, call_cmd_lock, call_cmd_clear, call_cmd_unlock,
        call_func_return_results, Goto, TypeOK
  <2>7. CASE cpu_online_past_end(c) \/ cpu_online_wrapper(c) \/ cpu_up_fails(c)
             \/ smp_call_function_single(c) \/ smp_call_fails(c)
    BY <2>0, <2>7, InsideRefines
    DEF cpu_online_past_end, cpu_online_wrapper, cpu_up_fails,
        smp_call_function_single, smp_call_fails, Advance, Goto, TypeOK
  <2>8. CASE Handler(c)
    BY <2>0, <2>8, InsideRefines
    DEF Handler, call_func_ptr_read, call_func_ptr_table, undef_hook, undef_unhooked,
        gic_bar_read, set_undef_flag_lock, set_undef_flag_judge,
        set_undef_flag_unlock, Delivered, Advance, Goto, TypeOK
  <2> HIDE DEF SoleTypeInv
  <2> QED BY <1>1, <2>1, <2>2, <2>3, <2>4, <2>5, <2>6, <2>7, <2>8 DEF Mine, Ioctl
<1>2. CASE (\E i \in CPUs : CpuOffline(i)) \/ ForeignTrap \/ UNCHANGED vars
  <2>1. UNCHANGED <<pc, req, ubuf>>
    BY <1>2 DEF CpuOffline, ForeignTrap, vars
  <2> QED BY <2>1 DEF phase, Service!svars
<1> QED BY <1>1, <1>2 DEF Next, Mine

\* When sessions come one at a time, only the driver's own reads trap and every
\* row of the table has a reader, the driver with its loop, its handlers and its
\* flag answers like the register service: each request in one step, each slot
\* with the truth about its CPU (Driver!RegisterServiceSpec).
THEOREM DriverServes ==
    ASSUME ~Concurrent, ~ForeignTraps, NoReader = {}
    PROVE  Spec => RegisterServiceSpec
<1>1. Init => CopyInv /\ Service!Init
  BY CopyInvInit, InitRefines
<1>2. SoleTypeInv /\ CopyInv /\ [Next]_vars => CopyInv'
  BY CopyInvNext
<1>3. SoleTypeInv /\ CopyInv /\ [Next]_vars => [Service!Next]_(Service!svars)
  BY StepRefines
<1> QED BY <1>1, <1>2, <1>3, SoleTypeInvHolds, PTL
        DEF Spec, RegisterServiceSpec, Service!Spec
=============================================================================
