------------------------------ MODULE Breakout ------------------------------
(***************************************************************************)
(* What the library does with a find request (src/lib/src/maplesyrup.c and *)
(* parse_breakout.c): it searches the field tables for the rows that were  *)
(* asked for, has the driver (RegisterService) or user mode read each      *)
(* register once, splits what came back into the fields of every row of    *)
(* that register and keeps the rows that were asked for and that fit the   *)
(* CPU that answered.  With a value supplied (calc) nothing is read.       *)
(*                                                                         *)
(* A value is the set of its bits that are 1.  What the readers return is  *)
(* Contents; an answer on its way to the parser names only its origin.     *)
(* The MIDR in an answer is represented by the number of the CPU it names. *)
(***************************************************************************)
EXTENDS Codes, Sequences, FiniteSets

CONSTANTS
    Rows,        \* g_bitfield_table_heap with include_devices
    Boards,      \* the systems the program may run on, and for each
    Part,        \*   [CPUs -> the processor in the CPU's MIDR]
    Contents,    \*   [Targets \X CPUs -> SUBSET Bits]
    Requests,    \* the find requests of the program
    TopBit,      \* the sign bit of a long long
    Handled,     \* the targets with a row in func_table
    UserReads,   \* those that user mode may read
    Undefined,   \* the <<target, cpu>> that trap in the driver
    Mapped,      \* the GIC registers in blocks that the driver has mapped
    MS_MAX_CPUS, MS_CPU_ALL, NoValue, NoCpu, NoRequest

CPUs == 0 .. MS_MAX_CPUS - 1
PCpus == CPUs \cup {MS_CPU_ALL}
Bits == 0 .. TopBit
Levels == {"NS_PL0", "NS_PL1"}   \* the levels breakout_sort_ioctls tests
AllLevels == Levels \cup {"NS_PL2", "S_PL0", "S_PL1", "PREFERRED_PL"}
Indices == 1 .. Len(Rows)

\* What identifies a register to whoever reads it: its code, or the GIC
\* block and the offset in it.
NotGic == -1
Target(i) ==
    <<IF Rows[i].uid.part \in GicParts THEN Rows[i].uid.part ELSE NotGic,
      Rows[i].reg.field>>
Targets == {Target(i) : i \in Indices}
GicTargets == {t \in Targets : t[1] # NotGic}

\* What memset leaves in match_info: no row has this uid or these names.
NoUid == [part |-> 0, instruction |-> 0, field |-> 0]
NoName == <<"", -1>>
NoGroup == ""

Row == [type: {"TYPE_IMPL", "TYPE_ARCH", "TYPE_MM"}, uid: MSCodes \ {NoUid},
        reg: MSCodes, ppl: SUBSET AllLevels, shift: Bits, width: 1 .. TopBit + 1,
        group: STRING, name: STRING \X Int]

ASSUME RowsAssumption ==
    /\ Rows \in Seq(Row)
    /\ \A r \in {Rows[i].reg : i \in Indices} :
          \A i, j \in {k \in Indices : Rows[k].reg = r} : Target(i) = Target(j)
    /\ LET gic == {i \in Indices : Target(i)[1] # NotGic}
           names(S) == {Rows[i].name : i \in S}
           groups(S) == {Rows[i].group : i \in S}
       IN /\ names(gic) \cap names(Indices \ gic) = {}
          /\ groups(gic) \cap groups(Indices \ gic) = {}
    /\ \A i \in Indices : Rows[i].name # NoName /\ Rows[i].group # NoGroup
ASSUME ReadsAssumption ==
    /\ MS_MAX_CPUS \in Nat \ {0} /\ TopBit \in Nat
    /\ MS_CPU_ALL \notin CPUs /\ NoCpu \notin CPUs
    /\ NoValue \notin Targets \cup (Targets \X CPUs)
    /\ Part \in [Boards -> [CPUs -> Int]]
    /\ Contents \in [Boards -> [Targets \X CPUs -> SUBSET Bits]]
    /\ UserReads \subseteq Handled /\ Handled \subseteq Targets \ GicTargets
    /\ Mapped \subseteq GicTargets

Request == [uid: MSCodes, group: STRING, name: STRING \X Int, arch: STRING,
            impl: STRING, cpu: PCpus, pl: SUBSET AllLevels, noparse: BOOLEAN,
            dev: BOOLEAN, calc: BOOLEAN, value: SUBSET Bits]
ASSUME RequestsAssumption == Requests \subseteq Request /\ Requests # {}
\* A call of ms_find_by_bitfield, by_group or by_register names one thing.
ASSUME NamedAssumption ==
    \A r \in Requests : \/ r.uid = NoUid /\ r.group = NoGroup
                        \/ r.uid = NoUid /\ r.name = NoName
                        \/ r.group = NoGroup /\ r.name = NoName

VARIABLES
    board,    \* the system; it does not change
    pc,       \* where find_bitfields is; idle between calls
    call,     \* the arguments of the call
    info,     \* the match_info: architecture, implementation, calc_value
    errno,    \* ERANGE from the first time strtoll sets it
    matches,  \* requested_bitfields_list, as indices of Rows
    todo,     \* to_driver and to_usermode, by the row that decided
    ask,      \* local_result of breakout_call_driver: code, part and pcpu
    slots,    \*   and its cpu[]
    results,  \* ioctl_results_list
    next,     \* the result that is parsed next
    list,     \* the list of bitfield_info_populated
    ret       \* what the last call returned

reads == <<todo, ask, slots, results>>
vars == <<board, pc, call, info, errno, matches, reads, next, list, ret>>
-----------------------------------------------------------------------------
First(S) == CHOOSE i \in S : \A j \in S : i <= j

Statuses == {"SUCCESS", "NORESULT", "SMP", "SMP_SINGLE", "UNDEFINST", "ILLINST", "TABLE"}
Values == {NoValue} \cup (Targets \X CPUs)
Slots == [val: Values, cpu: CPUs, midr: CPUs \cup {NoCpu}, status: Statuses]

match_info == [architecture: Arches, implementation: {0, IMPL_ALL} \cup Cortexes,
               value: SUBSET Bits]
ioctl_result == [row: Indices, val: Values, cpu: CPUs, midr: CPUs \cup {NoCpu},
                 status: Statuses, epl: Levels]
bitfield_info_populated ==
    [row: Indices, cpu: CPUs, midr: CPUs \cup {NoCpu}, status: Statuses,
     epl: Levels \cup {"none"}, from: Nat, value: SUBSET Bits]
Blank == [val |-> NoValue, cpu |-> 0, midr |-> NoCpu, status |-> "SUCCESS"]

\* The driver, which fills the slots.  func_table's sentinel row is no
\* register of the tables.
Me == "library"
Svc == INSTANCE RegisterService WITH
    Clients <- {Me},
    SysRegs <- Handled, NullRow <- NoValue,
    Unlisted <- Targets \ (Handled \cup GicTargets), GicBlocks <- GicTargets,
    phase <- [m \in {Me} |-> IF pc = "idle" \/ call.calc THEN "closed"
                             ELSE IF pc = "answer" THEN "busy" ELSE "idle"],
    ask <- [m \in {Me} |-> ask],
    answer <- [m \in {Me} |-> slots]

NoInfo == [architecture |-> 0, implementation |-> 0, value |-> {}]

ValueBits(v) == IF v = NoValue THEN {} ELSE Contents[board][v]

Init ==
    /\ board \in Boards
    /\ pc = "idle" /\ call = CHOOSE r \in Requests : TRUE   \* none yet
    /\ info = NoInfo
    /\ errno = "none"
    /\ matches = {}
    /\ todo = [driver |-> {}, user |-> {}]
    /\ ask = NoRequest
    /\ slots = [c \in CPUs |-> Blank]
    /\ results = <<>>
    /\ next = 1
    /\ list = {}
    /\ ret = "none"

\* ms_find_by_bitfield, by_register and by_group; start_test opens the
\* device unless a value is supplied.
Find ==
    /\ pc = "idle"
    /\ call' \in Requests
    /\ pc' = "match"
    /\ info' = NoInfo /\ matches' = {} /\ results' = <<>> /\ list' = {} /\ next' = 1
    /\ ret' = "none"
    /\ UNCHANGED <<board, errno, todo, ask, slots>>

\* The common end of the calls: stop_test closes the device.
Return(r) ==
    /\ pc' = "idle"
    /\ ret' = r
    /\ todo' = [driver |-> {}, user |-> {}]
    /\ ask' = NoRequest
    /\ slots' = [c \in CPUs |-> Blank]
-----------------------------------------------------------------------------
ArchNamed == [s \in {"armv7a", "armv8a"} |->
                IF s = "armv7a" THEN ARCH_ARMV7A ELSE ARCH_ARMV8A]
ImplNames == {"cortex-a7", "cortex-a9", "cortex-a15", "cortex-a53", "cortex-a57", "all"}
ImplNamed == [s \in ImplNames |->
                CASE s \in {"cortex-a7", "cortex-a9"} -> IMPL_CORTEX_A7
                  [] s = "cortex-a15" -> IMPL_CORTEX_A15
                  [] s = "cortex-a53" -> IMPL_CORTEX_A53
                  [] s = "cortex-a57" -> IMPL_CORTEX_A57
                  [] s = "all" -> IMPL_ALL]
Known == call.arch \in DOMAIN ArchNamed /\ call.impl \in ImplNames

\* strtoll fails on a value that uses the sign bit; nobody clears errno.
set_match_info ==
    /\ pc = "match" /\ Known
    /\ errno' = IF call.calc /\ TopBit \in call.value THEN "ERANGE" ELSE errno
    /\ info' = [architecture |-> ArchNamed[call.arch],
                implementation |-> ImplNamed[call.impl],
                value |-> IF call.calc /\ errno' = "ERANGE" THEN Bits ELSE call.value]
    /\ pc' = "search"
    /\ UNCHANGED <<board, call, matches, reads, next, list, ret>>

set_match_info_unknown ==
    /\ pc = "match" /\ ~Known
    /\ Return("fail")
    /\ UNCHANGED <<board, call, info, errno, matches, results, next, list>>

\* The rows that the call asks for by uid, group or register name.
Asked(i) ==
    /\ Rows[i].type = "TYPE_MM" => call.dev
    /\ \/ Rows[i].uid = call.uid
       \/ Rows[i].group = call.group
       \/ Rows[i].name = call.name

\* The tables of the architecture, and of the implementation if one is named.
ForThisPart(i) ==
    LET part == Rows[i].uid.part IN
    CASE Rows[i].type = "TYPE_IMPL" ->
            /\ info.architecture = get_arch_from_impl(part)
            /\ info.implementation \in {IMPL_ALL, part}
      [] Rows[i].type = "TYPE_ARCH" -> info.architecture = part
      [] Rows[i].type = "TYPE_MM" -> TRUE

breakout_search_table ==
    /\ pc = "search"
    /\ matches' = {i \in Indices : Asked(i) /\ ForThisPart(i)}
    /\ pc' = IF call.calc THEN "value" ELSE "sort"
    /\ UNCHANGED <<board, call, info, errno, reads, next, list, ret>>
-----------------------------------------------------------------------------
\* Where a row wants its register read.
ReadAt(i) ==
    (IF "PREFERRED_PL" \in call.pl THEN Rows[i].ppl ELSE call.pl) \cap Levels

\* Mutant: every match of a register puts it on the lists.
Decides_each(i) == ReadAt(i) # {}

\* The first match of a register that names a level puts it on the lists.
Decides(i) ==
    /\ ReadAt(i) # {}
    /\ \A j \in matches : j < i /\ Rows[j].reg = Rows[i].reg => ReadAt(j) = {}

\* Mutant: a register goes to one list only.
breakout_sort_ioctls_one_list ==
    /\ pc = "sort"
    /\ todo' = [driver |-> {i \in matches : Decides(i) /\ "NS_PL1" \in ReadAt(i)},
                user |-> {i \in matches : Decides(i) /\ ReadAt(i) = {"NS_PL0"}}]
    /\ pc' = "driver"
    /\ UNCHANGED <<board, call, info, errno, matches, ask, slots, results, next, list, ret>>

breakout_sort_ioctls ==
    /\ pc = "sort"
    /\ todo' = [driver |-> {i \in matches : Decides(i) /\ "NS_PL1" \in ReadAt(i)},
                user |-> {i \in matches : Decides(i) /\ "NS_PL0" \in ReadAt(i)}]
    /\ pc' = "driver"
    /\ UNCHANGED <<board, call, info, errno, matches, ask, slots, results, next, list, ret>>

\* Mutant: the statuses are not preset.
driver_results_no_preset ==
    /\ pc = "driver" /\ todo.driver # {}
    /\ ask' = [target |-> Target(First(todo.driver)), pcpu |-> call.cpu]
    /\ pc' = "answer"
    /\ UNCHANGED <<board, call, info, errno, matches, todo, slots, results, next, list, ret>>

\* driver_results presets the statuses; the rest of local_result is what the
\* register before left there.
driver_results ==
    /\ pc = "driver" /\ todo.driver # {}
    /\ ask' = [target |-> Target(First(todo.driver)), pcpu |-> call.cpu]
    /\ slots' = [c \in CPUs |-> [slots[c] EXCEPT !.status = "NORESULT"]]
    /\ pc' = "answer"
    /\ UNCHANGED <<board, call, info, errno, matches, todo, results, next, list, ret>>

Result(i, slot, level) ==
    [row |-> i, val |-> slot.val, cpu |-> slot.cpu, midr |-> slot.midr,
     status |-> slot.status, epl |-> level]

Answers ==
    LET slot(c) == Svc!Slot(ask, c, slots[c]) IN
    {a \in [CPUs -> UNION {slot(c) : c \in CPUs}] : \A c \in CPUs : a[c] \in slot(c)}

\* Mutant: slot 0 is saved for every CPU.
breakout_call_driver_slot_0 ==
    /\ pc = "answer"
    /\ slots' \in Answers
    /\ LET i == First(todo.driver) IN
         /\ results' = results \o [k \in 1 .. MS_MAX_CPUS |->
                                     Result(i, slots'[0], "NS_PL1")]
         /\ todo' = [todo EXCEPT !.driver = @ \ {i}]
    /\ pc' = "driver"
    /\ UNCHANGED <<board, call, info, errno, matches, ask, next, list, ret>>

\* The ioctl returns, and every slot is saved, asked for or not.
breakout_call_driver ==
    /\ pc = "answer"
    /\ slots' \in Answers
    /\ LET i == First(todo.driver) IN
         /\ results' = results \o [k \in 1 .. MS_MAX_CPUS |->
                                     Result(i, slots'[k - 1], "NS_PL1")]
         /\ todo' = [todo EXCEPT !.driver = @ \ {i}]
    /\ pc' = "driver"
    /\ UNCHANGED <<board, call, info, errno, matches, ask, next, list, ret>>

driver_done ==
    /\ pc = "driver" /\ todo.driver = {}
    /\ pc' = "user"
    /\ UNCHANGED <<board, call, info, errno, matches, reads, next, list, ret>>

\* Mutant: an illegal instruction is not a result.
breakout_call_usermode_drops_ill ==
    /\ pc = "user" /\ todo.user # {}
    /\ LET i == First(todo.user)
           t == Target(i)
           slot(v, s) == [val |-> v, cpu |-> 0, midr |-> NoCpu, status |-> s]
       IN /\ todo' = [todo EXCEPT !.user = @ \ {i}]
          /\ IF t \in UserReads
               THEN \E here \in CPUs : results' =
                        Append(results, Result(i, slot(<<t, here>>, "SUCCESS"), "NS_PL0"))
               ELSE results' = results
    /\ UNCHANGED <<board, pc, call, info, errno, matches, ask, slots, next, list, ret>>

\* One read in user mode, on whatever CPU the program runs on.
breakout_call_usermode ==
    /\ pc = "user" /\ todo.user # {}
    /\ LET i == First(todo.user)
           t == Target(i)
           slot(v, s) == [val |-> v, cpu |-> 0, midr |-> NoCpu, status |-> s]
       IN /\ todo' = [todo EXCEPT !.user = @ \ {i}]
          /\ CASE t \in UserReads ->
                    \E here \in CPUs : results' =
                        Append(results, Result(i, slot(<<t, here>>, "SUCCESS"), "NS_PL0"))
               [] t \in Handled \ UserReads ->
                    results' = Append(results, Result(i, slot(NoValue, "ILLINST"), "NS_PL0"))
               [] OTHER -> results' = results
    /\ UNCHANGED <<board, pc, call, info, errno, matches, ask, slots, next, list, ret>>

user_done ==
    /\ pc = "user" /\ todo.user = {}
    /\ pc' = "parse"
    /\ UNCHANGED <<board, call, info, errno, matches, reads, next, list, ret>>
-----------------------------------------------------------------------------
MASK_MAX_BITS == TopBit + 1

\* Mutant: the mask lacks a bit.
get_mask_short(bits) == 0 .. bits - 2

get_mask(bits) == IF bits <= MASK_MAX_BITS THEN 0 .. bits - 1 ELSE {}

\* Mutant: the mask is applied before the shift.
breakout_applymask_first(v, start, bits) ==
    {b - start : b \in {b \in v \cap get_mask(bits) : b >= start}}

\* (v >> start) & mask
breakout_applymask(v, start, bits) ==
    {b - start : b \in {b \in v : b >= start}} \cap get_mask(bits)

Slice(i, v) == breakout_applymask(v, Rows[i].shift, Rows[i].width)

\* Mutant: the part of the CPU is not compared.
Fits_any(i, midr) == TRUE

\* A row is kept if it was asked for and is of the CPU that answered; an
\* answer without a MIDR keeps them all.
Fits(i, midr) ==
    \/ midr = NoCpu
    \/ Rows[i].uid.part \in {get_impl_from_midr(Part[board][midr]),
                           get_arch_from_midr(Part[board][midr])}

Kept(r) == {i \in matches : Rows[i].reg = Rows[r.row].reg /\ Fits(i, r.midr)}

Element(i, r, k) ==
    [row |-> i, cpu |-> r.cpu, midr |-> r.midr, status |-> r.status, epl |-> r.epl,
     from |-> k,
     value |-> IF call.noparse THEN ValueBits(r.val) ELSE Slice(i, ValueBits(r.val))]

\* Mutant: the CPU is not compared.
Listed_any_cpu(r) ==
    \E e \in list : Rows[e.row].reg = Rows[r.row].reg /\ e.status = r.status

\* breakout_add_noparse: the register is in the list with this CPU and status.
Listed(r) ==
    \E e \in list : /\ Rows[e.row].reg = Rows[r.row].reg
                    /\ e.cpu = r.cpu /\ e.status = r.status

breakout_filter_results(r, k) ==
    IF ~call.noparse THEN list \cup {Element(i, r, k) : i \in Kept(r)}
    ELSE IF Kept(r) = {} \/ Listed(r) THEN list
    ELSE list \cup {Element(First(Kept(r)), r, k)}

\* Mutant: one result too many is stepped over.
breakout_parse_results_skips ==
    /\ pc = "parse" /\ next <= Len(results)
    /\ list' = breakout_filter_results(results[next], next)
    /\ next' = next + 2
    /\ UNCHANGED <<board, pc, call, info, errno, matches, reads, ret>>

\* Mutant: the list is not stepped along.
breakout_parse_results_stays ==
    /\ pc = "parse" /\ next <= Len(results)
    /\ list' = breakout_filter_results(results[next], next)
    /\ next' = next
    /\ UNCHANGED <<board, pc, call, info, errno, matches, reads, ret>>

breakout_parse_results ==
    /\ pc = "parse" /\ next <= Len(results)
    /\ list' = breakout_filter_results(results[next], next)
    /\ next' = next + 1
    /\ UNCHANGED <<board, pc, call, info, errno, matches, reads, ret>>

\* Without a result the loop does not run, and the lists that it would have
\* initialised are freed: whatever the stack holds is followed.
free_uninitialised ==
    /\ pc = "parse" /\ results = <<>>
    /\ pc' = "crashed"
    /\ UNCHANGED <<board, call, info, errno, matches, reads, next, list, ret>>

\* Mutant: all matches must be of one row.
OneRegister_uid == Cardinality({Rows[i].uid : i \in matches}) = 1

\* breakout_value_validate wants all matches to be of one register.
OneRegister == Cardinality({Rows[i].reg : i \in matches}) = 1

breakout_parse_results_value ==
    /\ pc = "value" /\ OneRegister
    /\ list' = LET e(i) == [row |-> i, cpu |-> 0, midr |-> NoCpu, status |-> "SUCCESS",
                            epl |-> "none", from |-> 0,
                            value |-> IF call.noparse THEN info.value
                                                      ELSE Slice(i, info.value)]
               IN {e(i) : i \in IF call.noparse THEN {First(matches)} ELSE matches}
    /\ pc' = "flatten"
    /\ UNCHANGED <<board, call, info, errno, matches, reads, next, ret>>

breakout_value_validate_fails ==
    /\ pc = "value" /\ ~OneRegister
    /\ Return("fail")
    /\ UNCHANGED <<board, call, info, errno, matches, results, next, list>>

parse_done ==
    /\ pc = "parse" /\ next > Len(results)
    /\ pc' = "flatten"
    /\ UNCHANGED <<board, call, info, errno, matches, reads, next, list, ret>>

flatten_results ==
    /\ pc = "flatten"
    /\ Return(IF list = {} THEN "fail" ELSE "ok")
    /\ UNCHANGED <<board, call, info, errno, matches, results, next, list>>
-----------------------------------------------------------------------------
Library ==
    \/ set_match_info \/ set_match_info_unknown \/ breakout_search_table
    \/ breakout_sort_ioctls \/ driver_results \/ driver_done
    \/ breakout_call_usermode \/ user_done
    \/ breakout_parse_results \/ parse_done \/ free_uninitialised
    \/ breakout_parse_results_value \/ breakout_value_validate_fails
    \/ flatten_results

Next == Find \/ Library \/ breakout_call_driver

Spec == Init /\ [][Next]_vars

\* The library is a sequential program that is scheduled, and the driver
\* answers (Driver's AnswersRequests).
FairSpec == Spec /\ WF_vars(Library \/ breakout_call_driver)
-----------------------------------------------------------------------------
FlowTypeOK ==
    /\ board \in Boards
    /\ pc \in {"idle", "match", "search", "sort", "driver", "answer", "user", "parse",
               "value", "flatten", "crashed"}
    /\ call \in Requests
    /\ info \in match_info
    /\ errno \in {"none", "ERANGE"}
    /\ ret \in {"none", "ok", "fail"}
ReadsTypeOK ==
    /\ matches \subseteq Indices
    /\ todo \in [driver: SUBSET Indices, user: SUBSET Indices]
    /\ ask \in [target: Targets, pcpu: PCpus] \cup {NoRequest}
    /\ slots \in [CPUs -> Slots]
    /\ results \in Seq(ioctl_result)
ListTypeOK ==
    /\ next \in Nat /\ 1 <= next /\ next <= Len(results) + 1
    /\ list \subseteq bitfield_info_populated

\* Every variable stays within its type.
TypeOK == FlowTypeOK /\ ReadsTypeOK /\ ListTypeOK

\* The tables that describe the registers of CPU c: none if it is unknown.
TablesOf(c) ==
    LET part == Part[board][c] IN
    IF part \in Cortexes THEN {part, get_arch_from_impl(part)} ELSE {}

\* The bits of row i in v, counted from its first bit.
FieldBits(i, v) == {b \in 0 .. Rows[i].width - 1 : b + Rows[i].shift \in v}
Shown(i, v) == IF call.noparse THEN v ELSE FieldBits(i, v)

\* A field that is shown holds the bits that its register has on one CPU.  If
\* the driver read it, that is the CPU it is labelled with, and the row is of
\* a table of that CPU (breakout_parse_results, breakout_filter_results; in
\* user mode the CPU is not known: breakout_call_usermode's "todo").
FieldsTrue ==
    \A e \in list : ~call.calc /\ e.status = "SUCCESS" =>
        \E c \in CPUs :
            /\ e.value = Shown(e.row, Contents[board][<<Target(e.row), c>>])
            /\ e.epl = "NS_PL1" =>
                  /\ e.cpu = c
                  /\ \/ Target(e.row) \in GicTargets
                     \/ Rows[e.row].uid.part \in TablesOf(c)

\* With a value supplied, its bits are shown, unless strtoll has ever failed:
\* then it is decoded as all ones (set_match_info).
CalcTrue ==
    \A e \in list : call.calc =>
        \/ e.value = Shown(e.row, call.value)
        \/ errno = "ERANGE" /\ e.value = Shown(e.row, Bits)

\* Nothing that was read and asked for is lost: each register that a CPU
\* answered is in the list with each requested row that describes it on this
\* CPU, or once if it is not parsed.  An unparsed user-mode answer may be
\* dropped for the driver's answer of CPU 0 (breakout_add_noparse).
Complete ==
    pc = "idle" /\ ret # "none" =>
        \A k \in 1 .. Len(results), i \in matches :
            LET r == results[k] IN
            /\ r.status = "SUCCESS"
            /\ Rows[i].reg = Rows[r.row].reg
            /\ \/ r.epl = "NS_PL0" \/ Target(i) \in GicTargets
               \/ Rows[i].uid.part \in TablesOf(r.cpu)
            => \E e \in list :
                 /\ Rows[e.row].reg = Rows[i].reg /\ e.cpu = r.cpu
                 /\ e.status = "SUCCESS"
                 /\ \/ e.epl = r.epl /\ e.value = Element(e.row, r, k).value
                    \/ call.noparse /\ r.epl = "NS_PL0"
                 /\ call.noparse \/ e.row = i

\* A requested row is read at the levels it names (or the call names), and at
\* no other, unless an earlier row of the register named others
\* (breakout_sort_ioctls looks at the first only).  Only registers without a
\* reader are not read in user mode.
ReadWhereSaid ==
    pc = "flatten" /\ ~call.calc =>
        \A i \in matches :
            LET same == {j \in matches : Rows[j].reg = Rows[i].reg /\ ReadAt(j) # {}}
                at == {results[k].epl :
                         k \in {n \in 1 .. Len(results) : Rows[results[n].row].reg = Rows[i].reg}}
            IN (\A j \in same : ReadAt(j) = ReadAt(i)) =>
                 at = ReadAt(i) \ (IF Target(i) \in Handled THEN {} ELSE {"NS_PL0"})

\* However many fields of a register are asked for, it is read once at each
\* level (breakout_sort_ioctls).
OnceEach ==
    pc = "flatten" =>
        \A k, l \in 1 .. Len(results) :
            /\ Rows[results[k].row].reg = Rows[results[l].row].reg
            /\ results[k].epl = results[l].epl
            => /\ results[k].epl = "NS_PL0" => k = l
               /\ k - l < MS_MAX_CPUS

\* No field of a CPU is shown twice with a value for the same level
\* (breakout_filter_results).
NoTwice ==
    \A e, f \in list :
        /\ e.row = f.row /\ e.cpu = f.cpu /\ e.epl = f.epl
        /\ e.status = "SUCCESS" /\ f.status = "SUCCESS"
        => e = f

\* What the list says of a CPU comes from that CPU's slot; only a slot that
\* no register has filled yet says cpu 0 without a MIDR, and it says that it
\* failed (breakout_call_driver keeps local_result between the requests).
OwnSlot ==
    \A e \in list : e.epl = "NS_PL1" =>
        LET c == (e.from - 1) % MS_MAX_CPUS IN
        \/ e.cpu = c /\ e.midr \in {c, NoCpu}
        \/ e.cpu = 0 /\ e.midr = NoCpu /\ e.status # "SUCCESS"

\* The library follows memory it never initialised only when no requested row
\* that decides can be read (breakout_parse_results).
CrashOnlyUnread ==
    pc = "crashed" =>
        \A i \in matches : Decides(i) =>
            ReadAt(i) = {"NS_PL0"} /\ Target(i) \notin Handled

\* The reads of a call use the driver as RegisterService says: a request at a
\* time on an open device, each status preset before it (driver_results).
RegisterServiceSpec == Svc!Spec

\* Every call returns, or dies on the garbage lists.
FindReturns == pc # "idle" ~> pc \in {"idle", "crashed"}
=============================================================================
