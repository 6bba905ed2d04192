------------------------------ MODULE FrontEnd ------------------------------
(***************************************************************************)
(* The command maplesyrup (src/frontend/entrypoint.c): it takes its        *)
(* options, asks the library for what they name, prints what it got and    *)
(* frees it.  With --all it walks the groups of the tables.  The library   *)
(* opens the device for each call that reads, and closes it; whether it    *)
(* finds the names and what it reads are its own affair.                   *)
(***************************************************************************)
EXTENDS Integers, Sequences, FiniteSets

CONSTANTS
    CommandLines,  \* the sets of options that the command is called with
    Groups,        \* the groups of the tables, in the order of ms_get_groups
    DevGroups,     \* those that --devices adds at the end
    NULL           \* the null pointer

Searches == {"bitfield", "group", "register", "all"}
Infos == {"show_groups", "show_bitfields", "show_registers"}
AllOptions == Searches \cup Infos \cup
    {"name", "calc", "devices", "showfail", "el0", "el1", "-t"}

\* The results of a search have a success among them or only errors.
Arrays == {"names", "valid", "errors"}

ASSUME CommandLinesAssumption == CommandLines \subseteq SUBSET AllOptions
ASSUME GroupsAssumption ==
    Groups \in Seq(STRING) /\ DevGroups \in Seq(STRING) /\ NULL \notin Arrays

VARIABLES
    pc,      \* where main is
    line,    \* the options, and "name" if a name follows them
    ppl,     \* the levels to read at
    asking,  \* what the library is asked for: a group, or <<>> for the name
    i,       \* the loop over the groups
    toshow,  \* NULL or "names", the array of groups, bitfields or registers
    output,  \* NULL or the array of results: "valid" or "errors"
    heap,    \* how many arrays of each kind are allocated
    answers, \* what the library answered in this run of the command
    shown,   \* which of the answers were printed
    result   \* what main returns

arrays == <<toshow, output, heap>>
vars == <<pc, line, ppl, asking, i, arrays, answers, shown, result>>

Outcomes == {"valid", "errors", "fail"}
-----------------------------------------------------------------------------
Init ==
    /\ pc = "exited" /\ line = {} /\ ppl = {}
    /\ asking = <<>> /\ i = 1
    /\ toshow = NULL /\ output = NULL
    /\ heap = [toshow |-> 0, output |-> 0]
    /\ answers = <<>> /\ shown = {} /\ result = -1

get_ppl_from_flag(el0, el1) ==
    IF el0 \/ el1 THEN (IF el0 THEN {"NS_PL0"} ELSE {}) \cup (IF el1 THEN {"NS_PL1"} ELSE {})
    ELSE {"PREFERRED_PL"}

AllGroups == Groups \o (IF "devices" \in line THEN DevGroups ELSE <<>>)

\* The command is called, and getopt_long has gone through its arguments.  A
\* -t is taken as an option and is none.
main ==
    /\ pc = "exited"
    /\ line' \in CommandLines
    /\ ppl' = get_ppl_from_flag("el0" \in line', "el1" \in line')
    /\ pc' = IF "-t" \in line' THEN "exited"
             ELSE IF line' \cap Infos # {} THEN "info" ELSE "dispatch"
    /\ toshow' = NULL /\ output' = NULL
    /\ asking' = <<>> /\ i' = 1 /\ answers' = <<>> /\ shown' = {} /\ result' = -1
    /\ UNCHANGED heap

\* Mutant: the pointer keeps its value.
Freed_dangling(ptr) == ptr

\* What ms_free_result leaves in a pointer.
Freed(ptr) == NULL

\* Whether it freed an array.
Free(ptr) == IF ptr = NULL THEN 0 ELSE 1

\* ms_get_groups, ms_get_bitfields and ms_get_registers fill a new array or fail.
Listing ==
    \/ toshow' = "names" /\ heap' = [heap EXCEPT !.toshow = @ + 1]
    \/ UNCHANGED <<toshow, heap>>

ms_get_groups ==
    /\ pc = "info"
    /\ Listing
    /\ pc' = "listed"
    /\ UNCHANGED <<line, ppl, asking, i, output, answers, shown, result>>

\* The list is printed and freed; main returns -1 all the same.
show_info ==
    /\ pc = "listed"
    /\ heap' = [heap EXCEPT !.toshow = @ - Free(toshow)]
    /\ toshow' = Freed(toshow)
    /\ pc' = "done"
    /\ UNCHANGED <<line, ppl, asking, i, output, answers, shown, result>>

\* The first of --bitfield, --group and --register decides.
Single == line \cap {"bitfield", "group", "register"} # {}
NeedsDevice == ~("register" \in line /\ "calc" \in line
                 /\ line \cap {"bitfield", "group"} = {})

\* Without a name there is nothing to search for.
search_named ==
    /\ pc = "dispatch" /\ Single
    /\ asking' = <<>>
    /\ pc' = IF "name" \in line THEN "call" ELSE "show"
    /\ UNCHANGED <<line, ppl, i, arrays, answers, shown, result>>

search_all ==
    /\ pc = "dispatch" /\ ~Single /\ "all" \in line
    /\ Listing
    /\ pc' = "loop"
    /\ UNCHANGED <<line, ppl, asking, i, output, answers, shown, result>>

search_nothing ==
    /\ pc = "dispatch" /\ line \cap Searches = {}
    /\ pc' = "done"
    /\ UNCHANGED <<line, ppl, asking, i, arrays, answers, shown, result>>
-----------------------------------------------------------------------------
(***************************************************************************)
(* The calls of the library: ms_find_by_bitfield, _group and _register.    *)
(***************************************************************************)
start_test_opens ==
    /\ pc = "call" /\ NeedsDevice
    /\ pc' = "opened"
    /\ UNCHANGED <<line, ppl, asking, i, arrays, answers, shown, result>>

\* The library answers: main goes on with the array, or is done.
Answer(outcome) ==
    /\ answers' = Append(answers, [asked |-> asking, outcome |-> outcome])
    /\ IF outcome = "fail" THEN UNCHANGED <<output, heap>>
       ELSE /\ output' = outcome
            /\ heap' = [heap EXCEPT !.output = @ + 1]
    /\ pc' = IF outcome = "fail" THEN "done"
             ELSE IF Single THEN "show" ELSE "show_group"
    /\ UNCHANGED <<line, ppl, asking, i, toshow, shown, result>>

start_test_fails == pc = "call" /\ NeedsDevice /\ Answer("fail")
calculate == pc = "call" /\ ~NeedsDevice /\ \E o \in Outcomes : Answer(o)
stop_test == pc = "opened" /\ \E o \in Outcomes : Answer(o)
-----------------------------------------------------------------------------
\* Mutant: the loop starts with the second group.
find_group_next ==
    /\ pc = "loop" /\ toshow # NULL /\ i < Len(AllGroups)
    /\ asking' = <<AllGroups[i + 1]>>
    /\ pc' = "call"
    /\ UNCHANGED <<line, ppl, i, arrays, answers, shown, result>>

find_group ==
    /\ pc = "loop" /\ toshow # NULL /\ i <= Len(AllGroups)
    /\ asking' = <<AllGroups[i]>>
    /\ pc' = "call"
    /\ UNCHANGED <<line, ppl, i, arrays, answers, shown, result>>

\* ms_get_size of NULL is -1.
all_done ==
    /\ pc = "loop" /\ (toshow = NULL \/ i > Len(AllGroups))
    /\ pc' = "show"
    /\ UNCHANGED <<line, ppl, asking, i, arrays, answers, shown, result>>

\* show_results prints the successes, and the rest with --showfail.
Shows == output = "valid" \/ (output = "errors" /\ "showfail" \in line)
Printed == shown \cup (IF Shows THEN {Len(answers)} ELSE {})

\* Mutant: the results of a group are kept for the end.
show_group_keeps ==
    /\ pc = "show_group"
    /\ shown' = Printed
    /\ i' = i + 1
    /\ pc' = "loop"
    /\ UNCHANGED <<line, ppl, asking, arrays, answers, result>>

show_group ==
    /\ pc = "show_group"
    /\ shown' = Printed
    /\ heap' = [heap EXCEPT !.output = @ - Free(output)]
    /\ output' = Freed(output)
    /\ i' = i + 1
    /\ pc' = "loop"
    /\ UNCHANGED <<line, ppl, asking, toshow, answers, result>>

show_results ==
    /\ pc = "show"
    /\ shown' = Printed
    /\ result' = 0
    /\ pc' = "done"
    /\ UNCHANGED <<line, ppl, asking, i, arrays, answers>>

\* The label done, which every search joins.
ms_free_result ==
    /\ pc = "done"
    /\ heap' = [toshow |-> heap.toshow - Free(toshow),
                output |-> heap.output - Free(output)]
    /\ toshow' = Freed(toshow) /\ output' = Freed(output)
    /\ pc' = "exited"
    /\ UNCHANGED <<line, ppl, asking, i, answers, shown, result>>

\* Whatever ends the program, the kernel takes its memory back.
killed ==
    /\ pc # "exited"
    /\ pc' = "exited"
    /\ heap' = [toshow |-> 0, output |-> 0]
    /\ toshow' = NULL /\ output' = NULL
    /\ answers' = <<>> /\ shown' = {} /\ result' = -1
    /\ UNCHANGED <<line, ppl, asking, i>>

\* What the command does without the device, and all it does.
Alone ==
    \/ main \/ ms_get_groups \/ show_info
    \/ search_named \/ search_all \/ search_nothing \/ calculate
    \/ find_group \/ all_done \/ show_group \/ show_results \/ ms_free_result

Next == Alone \/ start_test_opens \/ start_test_fails \/ stop_test \/ killed

Spec == Init /\ [][Next]_vars
-----------------------------------------------------------------------------
MainTypeOK ==
    /\ pc \in {"exited", "info", "listed", "dispatch", "call", "opened", "loop",
               "show_group", "show", "done"}
    /\ line \subseteq AllOptions
    /\ ppl \subseteq {"NS_PL0", "NS_PL1", "PREFERRED_PL"}
    /\ i \in Nat \ {0}
    /\ result \in {0, -1}
ArraysTypeOK ==
    /\ toshow \in {NULL, "names"} /\ output \in {NULL, "valid", "errors"}
    /\ heap \in [toshow: Int, output: Int]
AnswersTypeOK ==
    /\ asking \in Seq(STRING)
    /\ answers \in Seq([asked: Seq(STRING), outcome: Outcomes])
    /\ shown \subseteq Nat

\* Every variable stays within its type.
TypeOK == MainTypeOK /\ ArraysTypeOK /\ AnswersTypeOK

\* Every array that the library hands out is freed once, on every path: each
\* pointer names all the arrays of its kind, and the group that is asked for
\* is read from an array that is still there (ms_free_result, main).
ArraysFreed ==
    /\ heap.toshow = Free(toshow) /\ heap.output = Free(output)
    /\ pc = "exited" => toshow = NULL /\ output = NULL
    /\ asking # <<>> /\ pc \in {"call", "opened"} => toshow # NULL

Fails(k) == answers[k].outcome = "fail"
ToShow(k) ==
    \/ answers[k].outcome = "valid"
    \/ answers[k].outcome = "errors" /\ "showfail" \in line

\* Whoever asks for all gets every group, in the order of the tables and each
\* once, up to the first that fails; and whatever was found, is printed.  Only
\* a search that did not fail returns 0 (the loop of main, show_results).
EachShown ==
    pc = "exited" /\ (answers # <<>> \/ result = 0) =>
        /\ shown = {k \in 1 .. Len(answers) : ToShow(k)}
        /\ ~Single => \A k \in 1 .. Len(answers) : answers[k].asked = <<AllGroups[k]>>
        /\ \A k \in 1 .. Len(answers) - 1 : ~Fails(k)
        /\ result = 0 <=> \A k \in 1 .. Len(answers) : ~Fails(k)
        /\ ~Single /\ result = 0 => Len(answers) \in {0, Len(AllGroups)}
=============================================================================
