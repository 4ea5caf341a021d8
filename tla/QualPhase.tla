----------------------------- MODULE QualPhase ------------------------------
(* The pre-model qualification phase (internal/prequal): one run of one operation, its   *)
(* exclusive journal, the registration it claims, the disposable VM it boots and the     *)
(* cleanup that ends it. The registry and the VM may fail with or without their effect,  *)
(* the journal may fail at any event, and the process may die at any point.              *)
EXTENDS Naturals, Sequences

CONSTANT MaxQualRuns    \* bound: runs of the operation

VARIABLES
    qpc,        \* the run's step, "idle" when none is under way
    recorded,   \* the step's event is written, the step not taken yet
    qual,       \* what the run knows: registered, attempted, booted, scope, complete, safe, error
    qjournal,   \* the operation's directory exists
    stages,     \* the journal's events
    regRow,     \* the registry's row: "fresh", "claimed", "retired"
    vm,         \* the disposable VM: "none", "running", "stopped"
    boots,      \* VMs booted
    terminal,   \* terminal.json's state
    qualRuns    \* runs so far, for MaxQualRuns

qualVars == <<qpc, recorded, qual, qjournal, stages, regRow, vm, boots, terminal, qualRuns>>
worldVars == <<regRow, vm, boots>>

NoQual == [registered |-> FALSE, attempted |-> FALSE, boot |-> FALSE, scope |-> FALSE, complete |-> FALSE,
           safe |-> FALSE, retirement |-> FALSE, err |-> FALSE, custody |-> FALSE]

\* The steps of a run, each recorded before it is taken.
Steps == <<"claim", "registered", "boot", "transport", "isolation", "mail", "listing">>
Observe == <<"transport", "isolation", "mail", "listing">>
AfterStep(s) == LET i == CHOOSE i \in DOMAIN Steps : Steps[i] = s IN IF i = Len(Steps) THEN "end" ELSE Steps[i + 1]

Before(s) == <<s, "before">>
After(s) == <<s, "after">>

QualTypeOK ==
    /\ qual.registered \in BOOLEAN /\ regRow \in {"fresh", "claimed", "retired"} /\ vm \in {"none", "running", "stopped"}
    /\ recorded \in BOOLEAN /\ terminal \in {"none", "torn", "complete", "failed_stopped", "unknown_retained"}

QualInit ==
    /\ qpc = "idle" /\ recorded = FALSE /\ qual = NoQual /\ qjournal = FALSE /\ stages = {} /\ regRow = "fresh" /\ vm = "none"
    /\ boots = 0 /\ terminal = "none" /\ qualRuns = 0

Fails(custody) == qual' = [qual EXCEPT !.err = TRUE, !.custody = @ \/ custody] /\ qpc' = "cleanup" /\ recorded' = FALSE

\* openJournal: an operation that has a journal is inspected, never run again; the plan, the
\* approval and the artifacts are checked first, and a plan that cannot be saved ends the run.
RunPhase ==
    /\ qpc = "idle" /\ qualRuns < MaxQualRuns /\ qualRuns' = qualRuns + 1
    /\ \/ UNCHANGED <<qpc, qual, qjournal>>
       \/ ~qjournal /\ qjournal' = TRUE /\ qual' = NoQual /\ qpc' \in {"idle", "claim"}
    /\ UNCHANGED <<recorded, stages, worldVars, terminal>>

\* event: the record is durable before the step, or the run ends with its custody lost; the
\* phase's deadline may be over.
RecordStage(s) ==
    /\ qpc = s /\ ~recorded
    /\ \/ stages' = stages \cup {Before(s)} /\ recorded' = (s # "registered")
          /\ qpc' = (IF s = "registered" THEN AfterStep(s) ELSE s) /\ UNCHANGED qual
       \/ stages' \in {stages, stages \cup {Before(s)}} /\ Fails(TRUE)
       \/ stages' = stages \cup {Before(s)} /\ Fails(FALSE)
    /\ UNCHANGED <<qjournal, worldVars, terminal, qualRuns>>

\* ClaimFreshRegistration: an error may hide a claim, a row that is not the planned one is not used.
Claim ==
    /\ qpc = "claim" /\ recorded /\ recorded' = FALSE
    /\ regRow' \in {regRow, "claimed"}
    /\ \/ regRow' = "claimed" /\ qual' = [qual EXCEPT !.attempted = TRUE, !.registered = TRUE] /\ qpc' = AfterStep("claim")
       \/ qual' = [qual EXCEPT !.attempted = TRUE, !.err = TRUE] /\ qpc' = "cleanup"
    /\ UNCHANGED <<qjournal, stages, vm, boots, terminal, qualRuns>>

\* Boot: an error, or a boot without a scope, may hide a VM that runs.
Boot ==
    /\ qpc = "boot" /\ recorded /\ recorded' = FALSE
    /\ vm' \in {vm, "running"} /\ boots' = IF vm' = "running" THEN boots + 1 ELSE boots
    /\ \/ vm' = "running" /\ qual' = [qual EXCEPT !.boot = TRUE, !.scope = TRUE] /\ qpc' = AfterStep("boot")
       \/ \E scope \in BOOLEAN : qual' = [qual EXCEPT !.boot = TRUE, !.scope = scope, !.err = TRUE] /\ qpc' = "cleanup"
    /\ UNCHANGED <<qjournal, stages, regRow, terminal, qualRuns>>

\* startTransport, execute: what came of it is recorded too, with or without success.
Execute(s) ==
    /\ qpc = s /\ recorded
    /\ \/ stages' = stages \cup {After(s)}
          /\ \/ qpc' = AfterStep(s) /\ recorded' = FALSE /\ UNCHANGED qual
             \/ Fails(FALSE)
       \/ stages' \in {stages, stages \cup {After(s)}} /\ Fails(TRUE)
    /\ UNCHANGED <<qjournal, worldVars, terminal, qualRuns>>

\* The artifacts are verified again and the deadline is looked at before the phase is complete.
Verify ==
    /\ qpc = "end" /\ qpc' = "cleanup"
    /\ \E ok \in BOOLEAN : qual' = [qual EXCEPT !.complete = ok, !.err = ~ok]
    /\ UNCHANGED <<recorded, qjournal, stages, worldVars, terminal, qualRuns>>

(********************************** the cleanup *************************************)
\* The guest's and the owner's inventory before the stop: recorded, or the custody lost.
Inventory ==
    /\ qpc = "cleanup"
    /\ IF qual.boot
         THEN /\ qpc' = "stop"
              /\ \/ stages' = stages \cup {Before("inventory")} /\ UNCHANGED qual
                 \/ stages' \in {stages, stages \cup {Before("inventory")}}
                    /\ \E custody \in BOOLEAN : qual' = [qual EXCEPT !.err = TRUE, !.custody = @ \/ custody]
         ELSE qpc' = "retire" /\ qual' = [qual EXCEPT !.safe = TRUE] /\ UNCHANGED stages
    /\ UNCHANGED <<recorded, qjournal, worldVars, terminal, qualRuns>>

\* Stop: what it reports is an observation of the original scope, else nothing is known.
Stop ==
    /\ qpc = "stop" /\ qpc' = "list" /\ vm' \in {vm, IF vm = "running" THEN "stopped" ELSE vm}
    /\ \/ vm' # "running" /\ qual.scope /\ qual' = [qual EXCEPT !.safe = TRUE]
       \/ \E e \in BOOLEAN : qual' = [qual EXCEPT !.safe = FALSE, !.err = @ \/ e]
    /\ UNCHANGED <<recorded, qjournal, stages, regRow, boots, terminal, qualRuns>>
HostListing ==
    /\ qpc = "list" /\ qpc' = "retire"
    /\ \/ vm # "running" /\ UNCHANGED qual
       \/ qual' = [qual EXCEPT !.safe = FALSE, !.err = TRUE]
    /\ UNCHANGED <<recorded, qjournal, stages, worldVars, terminal, qualRuns>>

\* Retire: recorded first, and only for a registered row whose VM is known to be gone.
RetireBefore ==
    /\ qpc = "retire" /\ ~recorded
    /\ IF qual.registered /\ qual.safe
         THEN \/ stages' = stages \cup {Before("retire")} /\ recorded' = TRUE /\ UNCHANGED <<qpc, qual>>
              \/ /\ stages' \in {stages, stages \cup {Before("retire")}} /\ UNCHANGED recorded
                 /\ qual' = [qual EXCEPT !.safe = FALSE, !.err = TRUE, !.custody = TRUE] /\ qpc' = "decide"
         ELSE qpc' = "decide" /\ UNCHANGED <<recorded, stages, qual>>
    /\ UNCHANGED <<qjournal, worldVars, terminal, qualRuns>>
Retire ==
    /\ qpc = "retire" /\ recorded /\ recorded' = FALSE /\ qpc' = "decide" /\ regRow' \in {regRow, "retired"}
    /\ \/ regRow' = "retired" /\ qual' = [qual EXCEPT !.retirement = TRUE]
       \/ qual' = [qual EXCEPT !.retirement = TRUE, !.safe = FALSE, !.err = TRUE]
    /\ UNCHANGED <<qjournal, stages, vm, boots, terminal, qualRuns>>

\* What the run is worth: only what is known to have ended is said to have.
Outcome ==
    CASE qual.complete /\ qual.safe /\ ~qual.err -> "complete"
      [] qual.safe /\ qual.err /\ (~qual.attempted \/ qual.retirement) /\ ~qual.custody -> "failed_stopped"
      [] OTHER -> "unknown_retained"
WriteTerminal ==
    /\ qpc = "decide" /\ qpc' = "idle" /\ terminal' \in {Outcome, "torn"}
    /\ UNCHANGED <<recorded, qual, qjournal, stages, worldVars, qualRuns>>

\* The process dies.
PhaseDies ==
    /\ qpc # "idle" /\ qpc' = "idle" /\ recorded' = FALSE /\ terminal' \in {terminal, IF qpc = "decide" THEN "torn" ELSE terminal}
    /\ UNCHANGED <<qual, qjournal, stages, worldVars, qualRuns>>

QualNext ==
    \/ RunPhase \/ Claim \/ Boot \/ Verify \/ Inventory \/ Stop \/ HostListing \/ RetireBefore \/ Retire \/ WriteTerminal \/ PhaseDies
    \/ (\E i \in DOMAIN Steps : RecordStage(Steps[i])) \/ \E i \in DOMAIN Observe : Execute(Observe[i])

(********************************* properties ***************************************)
\* What the terminal record says is true: complete or stopped, no VM runs and no claimed row is
\* left, and a complete one has the record of every observation. Nothing happened outside the
\* journal, the row is retired only once the VM is gone, and one operation boots one VM.
TerminalTrue ==
    /\ terminal \in {"complete", "failed_stopped"} => vm # "running" /\ regRow # "claimed"
    /\ terminal = "complete" => \A i \in DOMAIN Observe : {Before(Observe[i]), After(Observe[i])} \subseteq stages
    /\ (regRow # "fresh" => Before("claim") \in stages) /\ (vm # "none" => Before("boot") \in stages)
    /\ (regRow = "retired" => Before("retire") \in stages /\ vm # "running") /\ boots <= 1
=============================================================================
