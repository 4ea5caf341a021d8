----------------------------- MODULE MCSessions -----------------------------
(* The session service and its terminal host, in the parts that share no state but a    *)
(* program's end, which happens at any time in each of them: what is sent, what an       *)
(* adapter reports, what it began, who has a name, who types, what is read, what runs.   *)
EXTENDS Sends, OpJournal, SessionNames, TermControl, TermOutput, TermProgram

CONSTANTS Part,         \* the parts explored
          SendConn,     \* the connection that reports while sends are explored
          SendReports   \* bound: reports while sends are explored
ASSUME SendConnAssumption == SendConn \in Conns
VARIABLE part

vars == <<part, svars, jvars, nvars, cvars, ovars, pvars>>
Init ==
    /\ part \in Part
    /\ SendsInit /\ OpsInit /\ NamesInit
    /\ ControlInit /\ OutputInit /\ ProgramInit

\* Sends over the reports of one connection; the connections among themselves otherwise.
SendsAlone ==
    \/ \E q \in Slots : SendStep(q)
    \/ AdapterStep(SendConn) /\ agent'.seq <= SendReports
    \/ Hold \/ ProgramExits
Reports == \E c \in Conns : AdapterStep(c)

Service ==
    \/ part = "sends" /\ SendsAlone /\ UNCHANGED <<part, jvars, nvars>>
    \/ part = "reports" /\ Reports /\ UNCHANGED <<part, jvars, nvars>>
    \/ part = "ops" /\ OpsNext /\ UNCHANGED <<part, svars, nvars>>
    \/ part = "names" /\ NamesNext /\ UNCHANGED <<part, svars, jvars>>
Terminal ==
    \/ part = "control" /\ ControlNext /\ UNCHANGED <<part, ovars, pvars>>
    \/ part = "output" /\ OutputNext /\ UNCHANGED <<part, cvars, pvars>>
    \/ part = "program" /\ ProgramNext /\ UNCHANGED <<part, cvars, ovars>>
Next ==
    \/ Service /\ UNCHANGED <<cvars, ovars, pvars>>
    \/ Terminal /\ UNCHANGED <<svars, jvars, nvars>>
Spec == Init /\ [][Next]_vars
TypeOK ==
    /\ SendsTypeOK /\ OpsTypeOK /\ NamesTypeOK
    /\ ControlTypeOK /\ OutputTypeOK /\ ProgramTypeOK
\* Sends and creates are served in slots of the same names, interchangeable in each part.
Symmetric == Permutations(Slots) \cup Permutations(CreateOps)
=============================================================================
