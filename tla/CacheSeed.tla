----------------------------- MODULE CacheSeed ------------------------------
(* pomar-native-cache-seed (cmd/pomar-native-cache-seed): static caches are copied from   *)
(* pinned inputs into a new venue, each under a ledger intent, and a receipt is written   *)
(* last. Two preparations and a verification may run on one root; inputs change beside    *)
(* them, any step may fail, and a process may be killed anywhere. One file stands for     *)
(* each of the groups (store, packages, kernel).                                          *)
EXTENDS Naturals

CONSTANTS
    Seeders,     \* prepare commands on one root
    GroupCount   \* the groups of the manifest, in its order

ASSUME SeedAssumption == GroupCount \in Nat \ {0}

VARIABLES
    source,    \* each group's input: the pinned bytes or others
    rootMade,  \* the venue's directory exists
    target,    \* each group's file in the venue
    entry,     \* the ledger's last mark of each group, and of the receipt, number GroupCount + 1
    receipt,   \* the receipt file
    seeder,    \* each preparation: its step and the group it is at
    verifier,  \* the verification's step
    vouched,   \* a preparation or a verification has succeeded
    drifted    \* groups whose file was changed by hand since it was copied

seedVars == <<source, rootMade, target, entry, receipt, seeder, verifier, vouched, drifted>>
SeedGroups == 1..GroupCount
Receipt == GroupCount + 1

SeedTypeOK ==
    /\ source \in [SeedGroups -> {"pinned", "other"}] /\ target \in [SeedGroups -> {"none", "part", "pinned", "other"}]
    /\ entry \in [1..Receipt -> {"none", "intent", "created", "failed"}] /\ receipt \in {"none", "part", "whole"}
    /\ rootMade \in BOOLEAN /\ vouched \in BOOLEAN /\ drifted \subseteq SeedGroups
    /\ \A p \in Seeders : seeder[p].pc \in {"idle", "check", "make", "intent", "copy", "readback", "mark", "fail", "ledger", "receipt", "targets"}
SeedInit ==
    /\ source \in [SeedGroups -> {"pinned", "other"}] /\ rootMade = FALSE
    /\ target = [g \in SeedGroups |-> "none"] /\ entry = [g \in 1..Receipt |-> "none"] /\ receipt = "none"
    /\ seeder = [p \in Seeders |-> [pc |-> "check", at |-> 1]]
    /\ verifier = "ledger" /\ vouched = FALSE /\ drifted = {}

ToStep(p, pc, g) == seeder' = [seeder EXCEPT ![p] = [pc |-> pc, at |-> g]]
GivesUp(p) == ToStep(p, "idle", 1)

\* The owner's input directory changes; a file of the venue is changed by hand.
SourceChanges(g) ==
    /\ source' = [source EXCEPT ![g] = IF @ = "pinned" THEN "other" ELSE "pinned"]
    /\ UNCHANGED <<rootMade, target, entry, receipt, seeder, verifier, vouched, drifted>>
Drift(g) ==
    /\ target[g] = "pinned" /\ g \notin drifted
    /\ target' = [target EXCEPT ![g] = "other"] /\ drifted' = drifted \cup {g}
    /\ UNCHANGED <<source, rootMade, entry, receipt, seeder, verifier, vouched>>
\* A check, a guard, a write or a sync outside a group's copy fails, or the process is
\* killed at any step.
SeedEnds(p) ==
    /\ seeder[p].pc # "idle" /\ GivesUp(p)
    /\ UNCHANGED <<source, rootMade, target, entry, receipt, verifier, vouched, drifted>>

\* verify: the size, the digest and an unchanged file.
Pins(bytes) == bytes = "pinned"

\* prepare: every input is verified before anything is made.
CheckSource(p) ==
    LET g == seeder[p].at
    IN  /\ seeder[p].pc = "check"
        /\ IF ~Pins(source[g]) THEN GivesUp(p)
           ELSE IF g < GroupCount THEN ToStep(p, "check", g + 1) ELSE ToStep(p, "make", 1)
        /\ UNCHANGED <<source, rootMade, target, entry, receipt, verifier, vouched, drifted>>

\* The root must be new.
MakeRoot(p) ==
    /\ seeder[p].pc = "make"
    /\ IF rootMade THEN GivesUp(p) ELSE ToStep(p, "intent", 1)
    /\ rootMade' = TRUE
    /\ UNCHANGED <<source, target, entry, receipt, verifier, vouched, drifted>>

\* Intent for the next group, and for the receipt after the last.
SeedIntent(p) ==
    LET g == seeder[p].at
    IN  /\ seeder[p].pc = "intent"
        /\ entry' = [entry EXCEPT ![g] = "intent"] /\ ToStep(p, "copy", g)
        /\ UNCHANGED <<source, rootMade, target, receipt, verifier, vouched, drifted>>

\* The input is read, hashed and written at once into a new file: bytes that are not the
\* pinned ones are an error, and so is a short write.
CopyGroup(p) ==
    LET g == seeder[p].at
    IN  /\ seeder[p].pc = "copy" /\ g # Receipt
        /\ \/ /\ target[g] = "none"
              /\ \/ target' = [target EXCEPT ![g] = source[g]] /\ ToStep(p, IF Pins(source[g]) THEN "readback" ELSE "fail", g)
                 \/ target' = [target EXCEPT ![g] = "part"] /\ ToStep(p, "fail", g)
           \/ ToStep(p, "fail", g) /\ UNCHANGED target
        /\ UNCHANGED <<source, rootMade, entry, receipt, verifier, vouched, drifted>>
ReadGroup(p) ==
    LET g == seeder[p].at
    IN  /\ seeder[p].pc = "readback"
        /\ ToStep(p, IF Pins(target[g]) THEN "mark" ELSE "fail", g)
        /\ UNCHANGED <<source, rootMade, target, entry, receipt, verifier, vouched, drifted>>
\* finish: the receipt names the root, the manifest and every pin.
WriteReceipt(p) ==
    /\ seeder[p].pc = "copy" /\ seeder[p].at = Receipt
    /\ \/ receipt = "none" /\ receipt' = "whole" /\ ToStep(p, "mark", Receipt)
       \/ receipt' \in {receipt, IF receipt = "none" THEN "part" ELSE receipt} /\ ToStep(p, "fail", Receipt)
    /\ UNCHANGED <<source, rootMade, target, entry, verifier, vouched, drifted>>
MarkFailed(p) ==
    /\ seeder[p].pc = "fail"
    /\ entry' = [entry EXCEPT ![seeder[p].at] = "failed"] /\ GivesUp(p)
    /\ UNCHANGED <<source, rootMade, target, receipt, verifier, vouched, drifted>>
MarkCreated(p) ==
    LET g == seeder[p].at
    IN  /\ seeder[p].pc = "mark"
        /\ entry' = [entry EXCEPT ![g] = "created"]
        /\ IF g = Receipt THEN ToStep(p, "ledger", 1) ELSE ToStep(p, "intent", g + 1)
        /\ UNCHANGED <<source, rootMade, target, receipt, verifier, vouched, drifted>>

\* verifyPrepared, by the preparation itself and by the command: the ledger, the receipt,
\* then every file. It makes and repairs nothing.
LedgerWhole == \A g \in 1..Receipt : entry[g] = "created"
FilesWhole == \A g \in SeedGroups : Pins(target[g])
Verdict(at) ==
    CASE at = "ledger" -> IF LedgerWhole THEN "receipt" ELSE "refused"
      [] at = "receipt" -> IF receipt = "whole" THEN "targets" ELSE "refused"
      [] at = "targets" -> IF FilesWhole THEN "vouched" ELSE "refused"
Settled == {"refused", "vouched"}
VerifyOwn(p) ==
    /\ seeder[p].pc \in {"ledger", "receipt", "targets"}
    /\ LET v == Verdict(seeder[p].pc)
       IN  ToStep(p, IF v \in Settled THEN "idle" ELSE v, 1) /\ vouched' = (vouched \/ v = "vouched")
    /\ UNCHANGED <<source, rootMade, target, entry, receipt, verifier, drifted>>
VerifyPrepared ==
    /\ rootMade
    /\ LET v == Verdict(verifier)
       IN  verifier' = (IF v \in Settled THEN "ledger" ELSE v) /\ vouched' = (vouched \/ v = "vouched")
    /\ UNCHANGED <<source, rootMade, target, entry, receipt, seeder, drifted>>

SeedNext ==
    \/ VerifyPrepared
    \/ \E g \in SeedGroups : SourceChanges(g) \/ Drift(g)
    \/ \E p \in Seeders :
          \/ SeedEnds(p) \/ CheckSource(p) \/ MakeRoot(p) \/ SeedIntent(p) \/ CopyGroup(p) \/ ReadGroup(p)
          \/ WriteReceipt(p) \/ MarkFailed(p) \/ MarkCreated(p) \/ VerifyOwn(p)

(********************************* properties ***************************************)
\* A receipt, even one half written, stands beside complete caches only: whatever inputs
\* changed, failed or were killed, each group is marked created and holds the pinned bytes,
\* unless it was changed by hand afterwards (prepare, main.go:440: "Receipt publication is
\* last, after all three real caches completed").
ReceiptTrue ==
    receipt # "none" => \A g \in SeedGroups : entry[g] = "created" /\ (target[g] = "pinned" \/ g \in drifted)

\* What a verification has vouched for is a root that one preparation completed, and no
\* later preparation takes it back.
VouchedStays == vouched => LedgerWhole /\ receipt = "whole"

SeedTrue == ReceiptTrue /\ VouchedStays
=============================================================================
