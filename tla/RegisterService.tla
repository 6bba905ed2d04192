--------------------------- MODULE RegisterService ---------------------------
(***************************************************************************)
(* What /dev/maplesyrup promises the library: a request is answered in one *)
(* step, and each slot of the answer tells the truth about its CPU.  How   *)
(* the driver finds out (the flag, the lock, the interrupts) is not here.  *)
(***************************************************************************)
EXTENDS Naturals

CONSTANTS Clients, MS_MAX_CPUS, MS_CPU_ALL, SysRegs, NullRow, Unlisted,
          GicBlocks, Mapped, Undefined, PCpus, NoValue, NoCpu, NoRequest

VARIABLES phase, ask, answer
svars == <<phase, ask, answer>>

CPUs == 0 .. MS_MAX_CPUS - 1
Request == [target: SysRegs \cup Unlisted \cup GicBlocks, pcpu: PCpus]
Blank == [val |-> NoValue, cpu |-> 0, midr |-> NoCpu, status |-> "SUCCESS"]

Init ==
    /\ phase = [c \in Clients |-> "closed"]
    /\ ask = [c \in Clients |-> NoRequest]
    /\ answer = [c \in Clients |-> [i \in CPUs |-> Blank]]

Open(c) ==
    /\ phase[c] = "closed"
    /\ phase' = [phase EXCEPT ![c] = "idle"]
    /\ UNCHANGED <<ask, answer>>

Close(c) ==
    /\ phase[c] = "idle"
    /\ phase' = [phase EXCEPT ![c] = "closed"]
    /\ ask' = [ask EXCEPT ![c] = NoRequest]
    /\ answer' = [answer EXCEPT ![c] = [i \in CPUs |-> Blank]]

Ask(c) ==
    /\ phase[c] = "idle"
    /\ phase' = [phase EXCEPT ![c] = "busy"]
    /\ \E r \in Request : ask' = [ask EXCEPT ![c] = r]
    /\ answer' = [answer EXCEPT ![c] =
                    [i \in CPUs |-> [answer[c][i] EXCEPT !.status = "NORESULT"]]]

\* The slots a request may fill: none when the code has no row in the table
\* or the CPU number is beyond the array.
Wanted(r) ==
    IF r.target \in Unlisted THEN {}
    ELSE IF r.pcpu = MS_CPU_ALL THEN CPUs ELSE {r.pcpu} \cap CPUs

Seen(i, v, s) == [val |-> v, cpu |-> i, midr |-> i, status |-> s]

\* The true answers to t on CPU i, given what the slot held before.
Truth(t, i, old) ==
    CASE t = NullRow -> {Seen(i, NoValue, "TABLE")}
      [] t \in SysRegs \ {NullRow} ->
            {IF <<t, i>> \in Undefined THEN Seen(i, NoValue, "UNDEFINST")
                                       ELSE Seen(i, <<t, i>>, "SUCCESS")}
      [] t \in Mapped -> {[val |-> <<t, i>>, cpu |-> i, midr |-> old.midr,
                              status |-> "SUCCESS"]}
      [] OTHER -> {old}

\* The CPU cannot be reached, and the slot says so.
Excuse(old) == {[old EXCEPT !.status = s] : s \in {"SMP", "SMP_SINGLE"}}

Slot(r, i, old) ==
    IF i \in Wanted(r) THEN Truth(r.target, i, old) \cup Excuse(old) ELSE {old}

Answer(c) ==
    /\ phase[c] = "busy"
    /\ phase' = [phase EXCEPT ![c] = "idle"]
    /\ \A i \in CPUs : answer'[c][i] \in Slot(ask[c], i, answer[c][i])
    /\ answer' = [answer EXCEPT ![c] = [i \in CPUs |-> answer'[c][i]]]
    /\ UNCHANGED ask

Next == \E c \in Clients : Open(c) \/ Close(c) \/ Ask(c) \/ Answer(c)

Spec == Init /\ [][Next]_svars
=============================================================================
