----------------------------- MODULE BaseImages -----------------------------
(* One base root filesystem (internal/base): the command that builds or replaces it, the *)
(* manager that verifies it once per boot and hands it to attempts, crashes of each, and *)
(* reboots over which the file may have changed on the disk.                             *)
EXTENDS Naturals

CONSTANTS
    Sizes,       \* the capacities successive versions of the command build
    MaxBaseBuilds, MaxBoots   \* bounds: builds, boots

VARIABLES
    baseLedger,  \* the base's last line in the ledger
    basedir,     \* its directory
    builder,     \* the build command: step, wanted size, and whether its ledger had the base open
    node,        \* the manager: step, and whether its ledger had the base open
    boot,        \* the machine's boot
    given,       \* what a start was given last: the base's bytes and the digest it pins
    builds       \* builds so far, for MaxBaseBuilds

baseVars == <<baseLedger, basedir, builder, node, boot, given, builds>>

NoDir == [there |-> FALSE, rootfs |-> "none", size |-> 0, readonly |-> FALSE, sum |-> "none", mark |-> 0]
NoBuild == [pc |-> "idle", size |-> 0, open |-> FALSE]
Down == [pc |-> "down", knows |-> FALSE]
Whole == [rootfs |-> "whole", sum |-> "whole"]
\* IsOpen: from the intent on, until the removal is recorded.
IsOpen == baseLedger \notin {"none", "removed"}

BaseTypeOK ==
    /\ baseLedger \in {"none", "intent", "created", "removed"} /\ boot \in 1..MaxBoots
    /\ basedir.rootfs \in {"none", "part", "whole", "changed"} /\ basedir.size \in Sizes \cup {0} /\ basedir.mark \in 0..boot
    /\ given.sum \in {"none", "whole", "changed", "part"}

BaseInit ==
    /\ baseLedger = "none" /\ basedir = NoDir /\ builder = NoBuild /\ node = Down /\ boot = 1
    /\ given = [rootfs |-> "none", sum |-> "none"] /\ builds = 0

Building(pc) == builder' = [builder EXCEPT !.pc = pc]
Quit == builder' = NoBuild

\* baseBuild opens the venue: its ledger is read once.
BuildStarts(size) ==
    /\ builder.pc = "idle" /\ builds < MaxBaseBuilds /\ builds' = builds + 1
    /\ builder' = [pc |-> "exists", size |-> size, open |-> IsOpen]
    /\ UNCHANGED <<baseLedger, basedir, node, boot, given>>
\* A base of the same capacity is kept as it is; another is torn down.
BuildReplaces ==
    /\ builder.pc = "exists"
    /\ \/ builder.open /\ basedir.rootfs # "none" /\ basedir.size = builder.size /\ Quit /\ UNCHANGED <<baseLedger, basedir>>
       \/ ~builder.open /\ Building("intent") /\ UNCHANGED <<baseLedger, basedir>>
       \/ /\ builder.open /\ (basedir.rootfs = "none" \/ basedir.size # builder.size)
          /\ basedir' = NoDir
          /\ \/ baseLedger' = "removed" /\ Building("intent")
             \/ UNCHANGED baseLedger /\ Quit
    /\ UNCHANGED <<node, boot, given, builds>>
BuildIntent ==
    /\ builder.pc = "intent"
    /\ \/ baseLedger' = "intent" /\ basedir' = [NoDir EXCEPT !.there = TRUE] /\ Building("unpack")
       \/ Quit /\ UNCHANGED <<baseLedger, basedir>>   \* the host's disk is over its limit
    /\ UNCHANGED <<node, boot, given, builds>>
\* pomar-host build-base writes the file, of its full size from the start or not.
Unpack ==
    /\ builder.pc = "unpack" /\ Building("unpacking")
    /\ \E s \in {builder.size, 0} : basedir' = [basedir EXCEPT !.rootfs = "part", !.size = s]
    /\ UNCHANGED <<baseLedger, node, boot, given, builds>>
Unpacked ==
    /\ builder.pc = "unpacking"
    /\ basedir' = [basedir EXCEPT !.rootfs = "whole", !.size = builder.size] /\ Building("sum")
    /\ UNCHANGED <<baseLedger, node, boot, given, builds>>
\* fail: any step up to the sealing tears the base down again.
BuildFails ==
    /\ builder.pc \in {"unpack", "unpacking", "sum", "seal"}
    /\ basedir' = NoDir /\ baseLedger' = "removed" /\ Quit
    /\ UNCHANGED <<node, boot, given, builds>>
\* The digest is recorded, then the file made read-only, the ledger told, the boot marked.
RecordSum ==
    /\ builder.pc = "sum" /\ Building("seal") /\ basedir' = [basedir EXCEPT !.sum = basedir.rootfs]
    /\ UNCHANGED <<baseLedger, node, boot, given, builds>>
Seal ==
    /\ builder.pc = "seal" /\ Building("created") /\ basedir' = [basedir EXCEPT !.readonly = TRUE]
    /\ UNCHANGED <<baseLedger, node, boot, given, builds>>
BuildCreated ==
    /\ builder.pc = "created" /\ Building("mark") /\ baseLedger' = "created"
    /\ UNCHANGED <<basedir, node, boot, given, builds>>
BuildMarks ==
    /\ builder.pc = "mark" /\ Quit /\ basedir' = [basedir EXCEPT !.mark = boot]
    /\ UNCHANGED <<baseLedger, node, boot, given, builds>>
BuildDies == builder.pc # "idle" /\ Quit /\ UNCHANGED <<baseLedger, basedir, node, boot, given, builds>>

-----------------------------------------------------------------------------
Node(pc) == node' = [node EXCEPT !.pc = pc]
Readable == basedir.rootfs # "none" /\ basedir.readonly
MarkedEver == basedir.mark # 0
Marked == basedir.mark = boot

\* verifyBases at the manager's start, over the ledger it read when it opened the venue.
ManagerOpens ==
    /\ node.pc = "down" /\ node' = [pc |-> IF IsOpen THEN "stat" ELSE "serving", knows |-> IsOpen]
    /\ UNCHANGED <<baseLedger, basedir, builder, boot, given, builds>>
\* Verify: the file is read-only, and marked in this boot or matches its digest.
VerifyStat ==
    /\ node.pc = "stat" /\ Node(IF Readable THEN "marker" ELSE "serving")
    /\ UNCHANGED <<baseLedger, basedir, builder, boot, given, builds>>
VerifyHash ==
    /\ node.pc = "marker"
    /\ Node(IF ~Marked /\ basedir.sum # "none" /\ basedir.sum = basedir.rootfs THEN "mark" ELSE "serving")
    /\ UNCHANGED <<baseLedger, basedir, builder, boot, given, builds>>
VerifyMarks ==
    /\ node.pc = "mark" /\ Node("serving")
    /\ basedir' = IF basedir.there THEN [basedir EXCEPT !.mark = boot] ELSE basedir
    /\ UNCHANGED <<baseLedger, builder, boot, given, builds>>
\* Start, Verified: read-only, then marked; the digest it pins is read last.
StartStat ==
    /\ node.pc = "serving" /\ node.knows /\ Readable /\ Node("starting")
    /\ UNCHANGED <<baseLedger, basedir, builder, boot, given, builds>>
StartMarker ==
    /\ node.pc = "starting" /\ Node(IF Marked THEN "pin" ELSE "serving")
    /\ UNCHANGED <<baseLedger, basedir, builder, boot, given, builds>>
StartPin ==
    /\ node.pc = "pin" /\ Node("serving")
    /\ given' = IF basedir.sum = "none" THEN given ELSE [rootfs |-> basedir.rootfs, sum |-> basedir.sum]
    /\ UNCHANGED <<baseLedger, basedir, builder, boot, builds>>
ManagerEnds == node.pc # "down" /\ node' = Down /\ UNCHANGED <<baseLedger, basedir, builder, boot, given, builds>>

\* The machine boots again; what the disk holds may have changed meanwhile.
BootAgain ==
    /\ boot < MaxBoots /\ boot' = boot + 1 /\ builder' = NoBuild /\ node' = Down
    /\ basedir' = basedir \/ (basedir.rootfs = "whole" /\ basedir' = [basedir EXCEPT !.rootfs = "changed"])
    /\ UNCHANGED <<baseLedger, given, builds>>

BaseNext ==
    \/ \E s \in Sizes : BuildStarts(s)
    \/ BuildReplaces \/ BuildIntent \/ Unpack \/ Unpacked \/ RecordSum \/ Seal \/ BuildCreated \/ BuildMarks \/ BuildFails \/ BuildDies
    \/ ManagerOpens \/ VerifyStat \/ VerifyHash \/ VerifyMarks \/ StartStat \/ StartMarker \/ StartPin \/ ManagerEnds \/ BootAgain

\* The base a start is given is whole and is what its pin says, though it is never hashed
\* on a start's path: whatever build was cut off or is replacing it, whatever the manager
\* read before, and whatever changed while the machine was down (Bases.Verify, Verified).
BaseTrue == given.sum = "none" \/ given = Whole
=============================================================================
