------------------------------- MODULE Session -------------------------------
(***************************************************************************)
(* A program and the maplesyrup library it is linked with                  *)
(* (src/lib/src/maplesyrup.c, open_device.c, cmd_handler.c and the tables  *)
(* of parse_breakout.c), over any sequence of API calls.  One call at a    *)
(* time: it takes over SIGILL, opens the device, expands the tables,       *)
(* searches them, has the driver read some registers and reads the others  *)
(* itself, and then puts everything back on the one path that every        *)
(* failure joins.                                                          *)
(*                                                                         *)
(* A register that user mode may not read raises SIGILL.  The library's    *)
(* handler notes it in g_illsig and jumps back to the sigsetjmp of the     *)
(* read.  Which requests the driver gets and what it answers is the        *)
(* business of other modules: here it only matters whether it answered.    *)
(***************************************************************************)
EXTENDS Naturals

CONSTANTS
    SysCodes,   \* register codes in the tables of the system registers
    DevCodes,   \* codes of the memory-mapped registers, with include_devices
    NullRow,    \* the code of func_table's sentinel row
    NoRow,      \* codes without a row in func_table
    Faulting,   \* codes whose user-mode read raises SIGILL
    Mishaps,    \* what may go wrong
    NoCode      \* no code, and the zero of a value

AllMishaps == {"no device", "no memory", "null out", "nothing to read"}
Codes == SysCodes \cup DevCodes

ASSUME CodesAssumption ==
    /\ SysCodes # {}
    /\ NoRow \subseteq Codes \ {NullRow} /\ DevCodes \subseteq NoRow
    /\ Faulting \subseteq Codes \ ({NullRow} \cup NoRow)
    /\ NoCode \notin Codes
ASSUME MishapsAssumption == Mishaps \subseteq AllMishaps

VARIABLES
    pc,      \* where the library is; idle between calls
    call,    \* the call: which function, with include_devices or not
    sig,     \* the action installed for SIGILL
    own,     \* the action that the program installed
    saved,   \* saved_sigaction
    regd,    \* ms_reg_handlers = 0
    illsig,  \* g_illsig
    blocked, \* SIGILL is blocked
    jmp,     \* the frame that ret_to_buffer returns to
    fd,      \* ms_fd is an open device
    heap,    \* the rows of g_bitfield_table_heap, {} when it is NULL
    sized,   \* g_bitfield_table_size > 0
    asked,   \* the registers that user mode reads in this call
    todo,    \* those not read yet
    cur,     \* the one being read
    val,     \* what the read returned
    got,     \* the results of user mode
    driven,  \* the driver returned results
    list,    \* the list of the API function
    ret,     \* the result of the last call
    prog,    \* the state of the program
    struck   \* what has gone wrong so far

signals == <<sig, own, saved, regd, illsig, blocked, jmp>>
tables == <<heap, sized>>
reads == <<asked, todo, cur, val, got, driven>>
rest == <<call, fd, list, ret, prog, struck>>
vars == <<pc, signals, tables, reads, rest>>
-----------------------------------------------------------------------------
Kinds == {"find", "calc", "get"}
Pcs == {"idle", "register", "open", "match", "table", "search", "driver", "user",
        "read", "status", "parse", "flatten", "stop", "free", "erase"}
Actions == {"default", "program", "ms"}

Rows(dev) == SysCodes \cup (IF dev THEN DevCodes ELSE {})

Init ==
    /\ pc = "idle"
    /\ call = [kind |-> "get", dev |-> FALSE]
    /\ own \in {"default", "program"}
    /\ sig = own
    /\ saved = "default" /\ regd = FALSE /\ illsig = 0 /\ blocked = FALSE
    /\ jmp = "none"
    /\ fd = FALSE /\ heap = {} /\ sized = FALSE
    /\ asked = {} /\ todo = {} /\ cur = NoCode /\ val = NoCode /\ got = {}
    /\ driven = FALSE /\ list = "empty" /\ ret = 0 /\ prog = "ok" /\ struck = {}

\* A mishap happens, if it may.
Strikes(mishap) == mishap \in Mishaps /\ struck' = struck \cup {mishap}

\* Where a failed call goes to clean up: only ms_find_* closes the session.
CleanUp(kind) == IF kind = "find" THEN "stop" ELSE "free"

\* Mutant: the calls with and without a calculated value are mixed up.
ApiCall_opens_for_calc(kind, dev, null) ==
    /\ pc = "idle"
    /\ IF null THEN Strikes("null out") ELSE UNCHANGED struck
    /\ call' = [kind |-> kind, dev |-> dev]
    /\ list' = IF null THEN "garbage" ELSE "empty"
    /\ pc' = IF null THEN CleanUp(kind)
             ELSE CASE kind = "find" -> "match"
                    [] kind = "calc" -> "register"
                    [] kind = "get" -> "table"
    /\ asked' = {} /\ todo' = {} /\ cur' = NoCode /\ val' = NoCode /\ got' = {}
    /\ driven' = FALSE /\ ret' = 1
    /\ UNCHANGED <<signals, tables, fd, prog>>

\* The program's side: it calls a function of the API, or changes its own action
\* for SIGILL.  The locals of the call are new.
ApiCall(kind, dev, null) ==
    /\ pc = "idle"
    /\ IF null THEN Strikes("null out") ELSE UNCHANGED struck
    /\ call' = [kind |-> kind, dev |-> dev]
    /\ list' = IF null THEN "garbage" ELSE "empty"
    /\ pc' = IF null THEN CleanUp(kind)
             ELSE CASE kind = "find" -> "register"
                    [] kind = "calc" -> "match"
                    [] kind = "get" -> "table"
    /\ asked' = {} /\ todo' = {} /\ cur' = NoCode /\ val' = NoCode /\ got' = {}
    /\ driven' = FALSE /\ ret' = 1
    /\ UNCHANGED <<signals, tables, fd, prog>>

ProgramSigaction(a) ==
    /\ pc = "idle"
    /\ sig' = a /\ own' = a
    /\ UNCHANGED <<pc, saved, regd, illsig, blocked, jmp, tables, reads, rest>>

\* The program itself meets an illegal instruction while the library's action
\* is installed: the handler jumps into a frame that has returned.
ProgramTrap ==
    /\ pc = "idle" /\ sig = "ms"
    /\ prog' = "crashed"
    /\ UNCHANGED <<pc, signals, tables, reads, call, fd, list, ret, struck>>
-----------------------------------------------------------------------------
(***************************************************************************)
(* start_test, the options of the call, and the tables.                    *)
(***************************************************************************)
register_signal_handlers ==
    /\ pc = "register"
    /\ saved' = sig /\ sig' = "ms"
    /\ regd' = TRUE /\ illsig' = 0
    /\ pc' = "open"
    /\ UNCHANGED <<own, blocked, jmp, tables, reads, rest>>

start_test ==
    /\ pc = "open"
    /\ \/ fd' = TRUE /\ pc' = "match" /\ UNCHANGED struck
       \/ fd' = FALSE /\ pc' = "stop" /\ Strikes("no device")
    /\ UNCHANGED <<signals, tables, reads, call, list, ret, prog>>

\* The names of the architecture and the implementation may be unknown.
set_match_info ==
    /\ pc = "match"
    /\ pc' \in {"table", CleanUp(call.kind)}
    /\ UNCHANGED <<signals, tables, reads, rest>>

\* The callers go on when there is no memory for the table.
read_tables_to_memory ==
    /\ pc = "table"
    /\ \/ heap' = Rows(call.dev) /\ sized' = TRUE /\ UNCHANGED struck
       \/ heap' = {} /\ sized' = sized /\ Strikes("no memory")
    /\ pc' = "search"
    /\ UNCHANGED <<signals, reads, call, fd, list, ret, prog>>

\* A search reads as many rows as the last table had.
SearchNull ==
    /\ pc = "search"
    /\ heap = {} /\ sized
    /\ prog' = "crashed"
    /\ UNCHANGED <<pc, signals, tables, reads, call, fd, list, ret, struck>>

\* get_groups, get_registers, get_bitfields; a calculated value needs no
\* register to be read.
SearchOnly ==
    /\ pc = "search" /\ call.kind # "find"
    /\ heap # {} \/ ~sized
    /\ list' \in IF heap = {} THEN {"empty"}
                 ELSE IF call.kind = "get" THEN {"some"} ELSE {"some", "empty"}
    /\ pc' = "flatten"
    /\ UNCHANGED <<signals, tables, reads, call, fd, ret, prog, struck>>

\* The names asked for decide which registers user mode reads and whether the
\* driver has any to read.  There may be none: no row has the name, or its
\* registers are for secure modes only.
breakout_search_table ==
    /\ pc = "search" /\ call.kind = "find"
    /\ heap # {} \/ ~sized
    /\ asked' \in SUBSET heap /\ todo' = asked'
    /\ driven' \in {heap # {}, FALSE}
    /\ IF asked' \subseteq NoRow /\ ~driven' /\ heap # {}
         THEN Strikes("nothing to read") ELSE UNCHANGED struck
    /\ pc' = "driver"
    /\ UNCHANGED <<signals, tables, cur, val, got, call, fd, list, ret, prog>>

breakout_call_driver ==
    /\ pc = "driver"
    /\ driven' = (driven /\ fd)
    /\ pc' = "user"
    /\ UNCHANGED <<signals, tables, asked, todo, cur, val, got, rest>>
-----------------------------------------------------------------------------
(***************************************************************************)
(* usermode_results, one register at a time.                               *)
(***************************************************************************)
Result(c, v, s) == [reg |-> c, val |-> v, status |-> s]

\* Mutant: a code without a row leaves a result as well.
usermode_no_row_saved(c) ==
    /\ pc = "user" /\ c \in todo \cap NoRow
    /\ todo' = todo \ {c}
    /\ got' = got \cup {Result(c, NoCode, "NORESULT")}
    /\ UNCHANGED <<pc, signals, tables, asked, cur, val, driven, rest>>

usermode_no_row(c) ==
    /\ pc = "user" /\ c \in todo \cap NoRow
    /\ todo' = todo \ {c}
    /\ UNCHANGED <<pc, signals, tables, asked, cur, val, got, driven, rest>>

usermode_table(c) ==
    /\ pc = "user" /\ c \in todo \cap {NullRow}
    /\ todo' = todo \ {c}
    /\ got' = got \cup {Result(c, NoCode, "TABLE")}
    /\ UNCHANGED <<pc, signals, tables, asked, cur, val, driven, rest>>

\* sigsetjmp saves the frame and the signal mask.
try_command(c) ==
    /\ pc = "user" /\ c \in todo \ (NoRow \cup {NullRow})
    /\ cur' = c /\ val' = NoCode
    /\ jmp' = "live"
    /\ pc' = "read"
    /\ UNCHANGED <<sig, own, saved, regd, illsig, blocked, tables, asked, todo, got,
                   driven, rest>>

\* The frame is gone when the read has returned.
ReadReturns ==
    /\ pc = "read" /\ cur \notin Faulting
    /\ val' = cur
    /\ jmp' = "dead"
    /\ pc' = "status"
    /\ UNCHANGED <<sig, own, saved, regd, illsig, blocked, tables, asked, todo, cur,
                   got, driven, rest>>

\* Mutant: sigsetjmp does not save the mask, so SIGILL stays blocked.
ms_signal_handler_blocked ==
    /\ pc = "read" /\ cur \in Faulting
    /\ sig = "ms" /\ ~blocked
    /\ illsig' = 1
    /\ blocked' = TRUE
    /\ jmp' = "dead"
    /\ pc' = "status"
    /\ UNCHANGED <<sig, own, saved, regd, tables, reads, rest>>

\* SIGILL is blocked while its handler runs; siglongjmp puts the mask back.
ms_signal_handler ==
    /\ pc = "read" /\ cur \in Faulting
    /\ sig = "ms" /\ ~blocked
    /\ illsig' = 1
    /\ blocked' = FALSE
    /\ jmp' = "dead"
    /\ pc' = "status"
    /\ UNCHANGED <<sig, own, saved, regd, tables, reads, rest>>

\* Without the handler, or with SIGILL blocked, the kernel ends the program.
KilledBySigill ==
    /\ pc = "read" /\ cur \in Faulting
    /\ sig # "ms" \/ blocked
    /\ prog' = "killed"
    /\ UNCHANGED <<pc, signals, tables, reads, call, fd, list, ret, struck>>

\* Mutant: g_illsig is not lowered.
set_status_flag_keeps ==
    /\ pc = "status"
    /\ got' = got \cup {Result(cur, val, IF illsig >= 1 THEN "ILLINST" ELSE "SUCCESS")}
    /\ todo' = todo \ {cur}
    /\ pc' = "user"
    /\ UNCHANGED <<signals, tables, asked, cur, val, driven, rest>>

\* Mutant: the loop stays at its register.
set_status_flag_again ==
    /\ pc = "status"
    /\ got' = got \cup {Result(cur, val, IF illsig >= 1 THEN "ILLINST" ELSE "SUCCESS")}
    /\ illsig' = 0
    /\ pc' = "user"
    /\ UNCHANGED <<sig, own, saved, regd, blocked, jmp, tables, asked, todo, cur, val,
                   driven, rest>>

set_status_flag ==
    /\ pc = "status"
    /\ got' = got \cup {Result(cur, val, IF illsig >= 1 THEN "ILLINST" ELSE "SUCCESS")}
    /\ illsig' = 0
    /\ todo' = todo \ {cur}
    /\ pc' = "user"
    /\ UNCHANGED <<sig, own, saved, regd, blocked, jmp, tables, asked, cur, val, driven,
                   rest>>

usermode_done ==
    /\ pc = "user" /\ todo = {}
    /\ pc' = "parse"
    /\ UNCHANGED <<signals, tables, reads, rest>>
-----------------------------------------------------------------------------
(***************************************************************************)
(* The results, and the way out.                                           *)
(***************************************************************************)
\* ms_list_free of a list that was never initialised.
FreeGarbage == prog' \in {"ok", "crashed"}

\* Only the loop over the results initialises the two lists freed after it.
breakout_parse_results ==
    /\ pc = "parse"
    /\ IF got = {} /\ ~driven
         THEN FreeGarbage /\ list' = list
         ELSE prog' = prog /\ list' \in {"some", "empty"}
    /\ pc' = "flatten"
    /\ UNCHANGED <<signals, tables, reads, call, fd, ret, struck>>

\* Mutant: an empty list is returned to the caller at once.
flatten_results_returns ==
    /\ pc = "flatten"
    /\ \/ list = "some" /\ ret' = 0 /\ pc' = CleanUp(call.kind)
       \/ list = "empty" /\ ret' = 1 /\ pc' = "idle"
    /\ UNCHANGED <<signals, tables, reads, call, fd, list, prog, struck>>

flatten_results ==
    /\ pc = "flatten"
    /\ \/ list = "some" /\ ret' = 0 /\ UNCHANGED struck
       \/ list = "empty" /\ ret' = 1 /\ UNCHANGED struck
       \/ list = "some" /\ ret' = 1 /\ Strikes("no memory")
    /\ pc' = CleanUp(call.kind)
    /\ UNCHANGED <<signals, tables, reads, call, fd, list, prog>>

\* Mutant: the signal action is left in place.
stop_test_keeps_handler ==
    /\ pc = "stop"
    /\ fd' = FALSE
    /\ pc' = "free"
    /\ UNCHANGED <<signals, tables, reads, call, list, ret, prog, struck>>

\* Without an open device there is nothing to stop, the handler included.
stop_test ==
    /\ pc = "stop"
    /\ fd' = FALSE
    /\ IF fd /\ regd THEN sig' = saved /\ regd' = FALSE
                     ELSE UNCHANGED <<sig, regd>>
    /\ pc' = "free"
    /\ UNCHANGED <<own, saved, illsig, blocked, jmp, tables, reads, call, list, ret,
                   prog, struck>>

ms_list_free ==
    /\ pc = "free"
    /\ IF list = "garbage" THEN FreeGarbage ELSE prog' = prog
    /\ list' = "empty"
    /\ pc' = "erase"
    /\ UNCHANGED <<signals, tables, reads, call, fd, ret, struck>>

\* The table goes, its size stays.
erase_tables ==
    /\ pc = "erase"
    /\ heap' = {} /\ sized' = sized
    /\ pc' = "idle"
    /\ UNCHANGED <<signals, reads, rest>>
-----------------------------------------------------------------------------
Library ==
    \/ register_signal_handlers \/ start_test \/ set_match_info
    \/ read_tables_to_memory \/ SearchNull \/ SearchOnly \/ breakout_search_table
    \/ breakout_call_driver
    \/ \E c \in Codes : usermode_no_row(c) \/ usermode_table(c) \/ try_command(c)
    \/ ReadReturns \/ ms_signal_handler \/ KilledBySigill \/ set_status_flag
    \/ usermode_done \/ breakout_parse_results \/ flatten_results
    \/ stop_test \/ ms_list_free \/ erase_tables

Program ==
    \/ \E kind \in Kinds, dev, null \in BOOLEAN : ApiCall(kind, dev, null)
    \/ \E a \in {"default", "program"} : ProgramSigaction(a)
    \/ ProgramTrap

Next == prog = "ok" /\ (Library \/ Program)

Spec == Init /\ [][Next]_vars

\* A call runs in the program's own thread, which the kernel schedules.
FairSpec == Spec /\ WF_vars(prog = "ok" /\ Library)
-----------------------------------------------------------------------------
CallTypeOK ==
    /\ pc \in Pcs
    /\ call \in [kind : Kinds, dev : BOOLEAN]
    /\ list \in {"garbage", "empty", "some"} /\ ret \in {0, 1}
    /\ prog \in {"ok", "crashed", "killed"}
    /\ struck \subseteq Mishaps
SignalTypeOK ==
    /\ sig \in Actions /\ own \in Actions \ {"ms"} /\ saved \in Actions
    /\ regd \in BOOLEAN /\ illsig \in {0, 1} /\ blocked \in BOOLEAN
    /\ jmp \in {"none", "live", "dead"}
DeviceTypeOK ==
    fd \in BOOLEAN /\ heap \subseteq Codes /\ sized \in BOOLEAN /\ driven \in BOOLEAN
ReadTypeOK ==
    /\ asked \subseteq Codes /\ todo \subseteq asked
    /\ cur \in Codes \cup {NoCode} /\ val \in Codes \cup {NoCode}
    /\ got \subseteq [reg : Codes, val : Codes \cup {NoCode},
                     status : {"SUCCESS", "ILLINST", "TABLE"}]

\* Every variable stays within its type.
TypeOK == CallTypeOK /\ SignalTypeOK /\ DeviceTypeOK /\ ReadTypeOK

\* Between calls the action for SIGILL is the one that the program installed
\* (restore_signal_handlers).
HandlerRestored == pc = "idle" => sig = own

\* Only a device that did not open ever leaves another action installed (stop_test).
RestoredIfOpened == pc = "idle" /\ "no device" \notin struck => sig = own

\* User mode has one result for each register it read, a success exactly for
\* those that it may read, and none of the fault of another register
\* (set_status_flag, breakout_call_usermode).
UserVerdicts ==
    /\ \A g \in got :
         CASE g.status = "SUCCESS" -> g.val = g.reg /\ g.reg \notin Faulting
           [] g.status = "ILLINST" -> g.val = NoCode /\ g.reg \in Faulting
           [] g.status = "TABLE" -> g.reg = NullRow
    /\ pc \in {"user", "read", "status", "parse"} =>
         {g.reg : g \in got} = asked \ (todo \cup NoRow)

\* A register is read in user mode only while the jump of the handler is safe:
\* the library's handler is installed, SIGILL is not blocked and the frame it
\* jumps to is the one that reads (try_command_1_32).
GuardedRead == pc = "read" => sig = "ms" /\ ~blocked /\ jmp = "live" /\ fd

\* Whatever failed on the way, between calls the device is closed, the table
\* freed and no fault is left over for the next call (the label done of ms_find_*).
Tidy == pc = "idle" => ~fd /\ heap = {} /\ illsig = 0 /\ ~blocked /\ ~(jmp = "live")

\* No call ends the program: it returns 0 or -1 (maplesyrup.h).
ProgramSurvives == prog = "ok"

\* Only a mishap ends the program: as long as the device opens, memory is found and
\* some register is read, every fault of a read is survived (ms_signal_handler).
OnlyMishapsKill == struck = {} => prog = "ok"

\* Every call returns, unless the program ended.
CallReturns == pc # "idle" ~> pc = "idle" \/ prog # "ok"
=============================================================================
