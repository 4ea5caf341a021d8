----------------------------- MODULE FeedIssue ------------------------------
(* The custodian of the release feed (cmd/pomar-feed-key, internal/releasefeedissuer):   *)
(* the making of a signing key, the issue of a signed entry and its publication, and the *)
(* export of the trusted key. Production and rehearsal have a home each, with its own     *)
(* key, lock and intents, and share the public directory. Every command is a process of   *)
(* its own, which may fail or be killed at every step; a file is made with O_EXCL and     *)
(* synced before the next step, so that a failed step either had its effect or had none.  *)
EXTENDS Naturals, Sequences

CONSTANTS
    Keepers,         \* commands running at one time
    Commits,         \* what a policy may release
    LastRehearsal,   \* the sequence a production entry must exceed
    MaxSequence,     \* bound: sequences of policies
    MaxKeeperRuns    \* bound: commands

ASSUME FeedAssumption == LastRehearsal \in Nat /\ MaxSequence \in Nat /\ MaxKeeperRuns \in Nat

VARIABLES
    keyFile,      \* each home's generation intent, seed and public record; a key is the run that drew it
    issuing,      \* homes with an issuance.lock
    intended,     \* each home's sequences with an intent
    attestations, \* each home's attestations, by sequence
    publication,  \* .publication.lock exists
    pending,      \* each lane's pending entries, with whether they are whole
    feed,         \* each lane's published entries, with whether they are whole
    trust,        \* the pending and the exported trusted key
    keeper,       \* each command: step, home, policy and key held
    signatures,   \* each home's signatures in the order they were made
    keeperRuns    \* commands so far

custody == <<issuing, intended, attestations, signatures>>
lanes == <<publication, pending, feed>>
feedVars == <<keyFile, issuing, intended, attestations, publication, pending, feed, trust, keeper, signatures, keeperRuns>>
Homes == {"production", "rehearsal"}
Policies == [seq: 1..MaxSequence, commit: Commits]
NoPolicy == [seq |-> 0]
Away == [pc |-> "idle", home |-> "production", policy |-> NoPolicy, key |-> 0]
Publishing == {"stage", "write", "rename", "readback", "unlock"}

FeedTypeOK ==
    /\ keyFile \in [Homes -> [intent: BOOLEAN, seed: 0..MaxKeeperRuns, public: 0..MaxKeeperRuns]]
    /\ issuing \subseteq Homes /\ publication \in BOOLEAN
    /\ \A h \in Homes : intended[h] \subseteq 1..MaxSequence /\ attestations[h] \subseteq Policies
    /\ \A k \in Keepers : keeper[k].pc \in Publishing \cup {"idle", "intend", "seed", "public", "lock", "check",
                                                         "sign", "retain", "publish", "release", "pend", "link", "unpend"}
FeedInit ==
    /\ keyFile = [h \in Homes |-> [intent |-> FALSE, seed |-> 0, public |-> 0]]
    /\ issuing = {} /\ intended = [h \in Homes |-> {}] /\ attestations = [h \in Homes |-> {}]
    /\ publication = FALSE /\ pending = [h \in Homes |-> {}] /\ feed = [h \in Homes |-> {}]
    /\ trust = [pending |-> 0, exported |-> 0]
    /\ keeper = [k \in Keepers |-> Away] /\ signatures = [h \in Homes |-> <<>>] /\ keeperRuns = 0

KeeperTo(k, pc) == keeper' = [keeper EXCEPT ![k].pc = pc]
KeeperEnds(k) == keeper' = [keeper EXCEPT ![k] = Away]
KeeperAt(k, pc) == keeper[k].pc = pc

\* run: a command for one home. issue has read its policy, its inputs and the public
\* directories; the command may refuse then and at any later step.
Begins(k, pc, h, p) ==
    /\ KeeperAt(k, "idle") /\ keeperRuns < MaxKeeperRuns /\ keeperRuns' = keeperRuns + 1
    /\ keeper' = [keeper EXCEPT ![k] = [pc |-> pc, home |-> h, policy |-> p, key |-> 0]]
    /\ UNCHANGED <<keyFile, custody, lanes, trust>>
\* Any check, write, sync or close fails, or the process is killed: it has no other effect.
KeeperFails(k) ==
    /\ ~KeeperAt(k, "idle") /\ KeeperEnds(k)
    /\ UNCHANGED <<keyFile, custody, lanes, trust, keeperRuns>>

(********************************** generate ****************************************)
\* The intent comes before any entropy, and refuses a second generation.
GenerationIntent(k) ==
    LET h == keeper[k].home
    IN  /\ KeeperAt(k, "intend")
        /\ IF keyFile[h].intent THEN KeeperEnds(k) /\ UNCHANGED keyFile
           ELSE keyFile' = [keyFile EXCEPT ![h].intent = TRUE]
                /\ keeper' = [keeper EXCEPT ![k].pc = "seed", ![k].key = keeperRuns]
        /\ UNCHANGED <<custody, lanes, trust, keeperRuns>>
WriteSeed(k) ==
    LET h == keeper[k].home
    IN  /\ KeeperAt(k, "seed")
        /\ IF keyFile[h].seed # 0 THEN KeeperEnds(k) /\ UNCHANGED keyFile
           ELSE keyFile' = [keyFile EXCEPT ![h].seed = keeper[k].key] /\ KeeperTo(k, "public")
        /\ UNCHANGED <<custody, lanes, trust, keeperRuns>>
WritePublic(k) ==
    LET h == keeper[k].home
    IN  /\ KeeperAt(k, "public")
        /\ IF keyFile[h].public # 0 THEN UNCHANGED keyFile
           ELSE keyFile' = [keyFile EXCEPT ![h].public = keeper[k].key]
        /\ KeeperEnds(k)
        /\ UNCHANGED <<custody, lanes, trust, keeperRuns>>
\* public: the record and the seed are there and belong together.
PublicKey(h) == keyFile[h].public # 0 /\ keyFile[h].public = keyFile[h].seed

(************************************ issue *****************************************)
\* issueAuthenticated: a production entry follows the rehearsals.
Admissible(h, p) == h = "production" => p.seq > LastRehearsal

\* issuance.lock precedes the enumeration of intents.
IssuanceLock(k) ==
    LET h == keeper[k].home
    IN  /\ KeeperAt(k, "lock")
        /\ IF h \in issuing THEN KeeperEnds(k) /\ UNCHANGED issuing
           ELSE issuing' = issuing \cup {h} /\ KeeperTo(k, "check")
        /\ UNCHANGED <<keyFile, intended, attestations, lanes, trust, signatures, keeperRuns>>

\* Fault: only the very sequence of the policy is looked for.
AdvancesUnordered(h, p) == p.seq \notin intended[h]

\* The sequence exceeds every intent of the home.
Advances(h, p) == \A n \in intended[h] : p.seq > n

\* Every failure from here on keeps the lock.
SequenceIntent(k) ==
    LET h == keeper[k].home
        p == keeper[k].policy
    IN  /\ KeeperAt(k, "check")
        /\ IF Advances(h, p) /\ p.seq \notin intended[h]
             THEN intended' = [intended EXCEPT ![h] = @ \cup {p.seq}] /\ KeeperTo(k, "sign")
             ELSE KeeperEnds(k) /\ UNCHANGED intended
        /\ UNCHANGED <<keyFile, issuing, attestations, lanes, trust, signatures, keeperRuns>>
\* public, privateSeed and Build, which judges the pins and the clock before it signs.
Build(k) ==
    LET h == keeper[k].home
        p == keeper[k].policy
    IN  /\ KeeperAt(k, "sign")
        /\ IF PublicKey(h)
             THEN signatures' = [signatures EXCEPT ![h] = Append(@, [policy |-> p, key |-> keyFile[h].seed])] /\ KeeperTo(k, "retain")
             ELSE KeeperEnds(k) /\ UNCHANGED signatures
        /\ UNCHANGED <<keyFile, issuing, intended, attestations, lanes, trust, keeperRuns>>
Retain(k) ==
    LET h == keeper[k].home
        p == keeper[k].policy
    IN  /\ KeeperAt(k, "retain")
        /\ IF \E r \in attestations[h] : r.seq = p.seq THEN KeeperEnds(k) /\ UNCHANGED attestations
           ELSE attestations' = [attestations EXCEPT ![h] = @ \cup {p}] /\ KeeperTo(k, "publish")
        /\ UNCHANGED <<keyFile, issuing, intended, lanes, trust, signatures, keeperRuns>>

(*********************************** Publish ****************************************)
\* .publication.lock, shared by the lanes.
PublicationLock(k) ==
    /\ KeeperAt(k, "publish")
    /\ IF publication THEN KeeperEnds(k) /\ UNCHANGED publication
       ELSE publication' = TRUE /\ KeeperTo(k, "stage")
    /\ UNCHANGED <<keyFile, custody, pending, feed, trust, keeperRuns>>
\* A name is a sequence and a commit; a file under it is whole or not.
Named(set, p) == {e \in set : e.policy = p}
MakeStage(k) ==
    LET h == keeper[k].home
        p == keeper[k].policy
    IN  /\ KeeperAt(k, "stage")
        /\ IF Named(feed[h], p) # {} \/ Named(pending[h], p) # {} THEN KeeperEnds(k) /\ UNCHANGED pending
           ELSE pending' = [pending EXCEPT ![h] = @ \cup {[policy |-> p, whole |-> FALSE]}] /\ KeeperTo(k, "write")
        /\ UNCHANGED <<keyFile, custody, publication, feed, trust, keeperRuns>>
WriteFiles(k) ==
    LET h == keeper[k].home
        p == keeper[k].policy
    IN  /\ KeeperAt(k, "write")
        /\ pending' = [pending EXCEPT ![h] = (@ \ Named(@, p)) \cup {[policy |-> p, whole |-> TRUE]}] /\ KeeperTo(k, "rename")
        /\ UNCHANGED <<keyFile, custody, publication, feed, trust, keeperRuns>>
Rename(k) ==
    LET h == keeper[k].home
        p == keeper[k].policy
    IN  /\ KeeperAt(k, "rename")
        /\ IF Named(feed[h], p) # {} THEN KeeperEnds(k) /\ UNCHANGED <<pending, feed>>
           ELSE /\ feed' = [feed EXCEPT ![h] = @ \cup Named(pending[h], p)]
                /\ pending' = [pending EXCEPT ![h] = @ \ Named(@, p)]
                /\ KeeperTo(k, "readback")
        /\ UNCHANGED <<keyFile, custody, publication, trust, keeperRuns>>
ReadbackEntry(k) ==
    LET h == keeper[k].home
        p == keeper[k].policy
    IN  /\ KeeperAt(k, "readback")
        /\ IF \E e \in Named(feed[h], p) : e.whole THEN KeeperTo(k, "unlock") ELSE KeeperEnds(k)
        /\ UNCHANGED <<keyFile, custody, lanes, trust, keeperRuns>>
PublicationUnlock(k) ==
    /\ KeeperAt(k, "unlock") /\ publication' = FALSE /\ KeeperTo(k, "release")
    /\ UNCHANGED <<keyFile, custody, pending, feed, trust, keeperRuns>>
\* complete.json, then issuance.lock is removed.
IssueComplete(k) ==
    /\ KeeperAt(k, "release") /\ issuing' = issuing \ {keeper[k].home} /\ KeeperEnds(k)
    /\ UNCHANGED <<keyFile, intended, attestations, lanes, trust, signatures, keeperRuns>>

(********************************* publishTrust *************************************)
TrustPending(k) ==
    /\ KeeperAt(k, "pend")
    /\ IF trust.pending # 0 \/ ~PublicKey("production") THEN KeeperEnds(k) /\ UNCHANGED trust
       ELSE trust' = [trust EXCEPT !.pending = keyFile["production"].public] /\ KeeperTo(k, "link")
    /\ UNCHANGED <<keyFile, custody, lanes, keeperRuns>>
TrustLink(k) ==
    /\ KeeperAt(k, "link")
    /\ IF trust.exported # 0 THEN KeeperEnds(k) /\ UNCHANGED trust
       ELSE trust' = [trust EXCEPT !.exported = trust.pending] /\ KeeperTo(k, "unpend")
    /\ UNCHANGED <<keyFile, custody, lanes, keeperRuns>>
TrustDone(k) ==
    /\ KeeperAt(k, "unpend") /\ trust' = [trust EXCEPT !.pending = 0] /\ KeeperEnds(k)
    /\ UNCHANGED <<keyFile, custody, lanes, keeperRuns>>

\* An administrator reconciles what a failed issue has left, with no command at work: the
\* locks go, the pending entries too; intents and attestations stay.
Reconciled ==
    /\ issuing # {} \/ publication
    /\ \A k \in Keepers : KeeperAt(k, "idle")
    /\ issuing' = {} /\ publication' = FALSE /\ pending' = [h \in Homes |-> {}]
    /\ UNCHANGED <<keyFile, intended, attestations, feed, trust, keeper, signatures, keeperRuns>>

FeedNext ==
    \/ Reconciled
    \/ \E k \in Keepers :
          \/ \E h \in Homes : Begins(k, "intend", h, NoPolicy)
          \/ \E h \in Homes, p \in Policies : Admissible(h, p) /\ Begins(k, "lock", h, p)
          \/ Begins(k, "pend", "production", NoPolicy)
          \/ KeeperFails(k) \/ GenerationIntent(k) \/ WriteSeed(k) \/ WritePublic(k)
          \/ IssuanceLock(k) \/ SequenceIntent(k) \/ Build(k) \/ Retain(k)
          \/ PublicationLock(k) \/ MakeStage(k) \/ WriteFiles(k) \/ Rename(k) \/ ReadbackEntry(k) \/ PublicationUnlock(k) \/ IssueComplete(k)
          \/ TrustPending(k) \/ TrustLink(k) \/ TrustDone(k)

(********************************* properties ***************************************)
\* Whatever fails or is reconciled, a home signs every sequence once and in order
\* (issueAuthenticated, issue.go:174: "sequence does not advance retained original intents").
SignedInOrder ==
    \A h \in Homes : \A i, j \in DOMAIN signatures[h] : i < j => signatures[h][i].policy.seq < signatures[h][j].policy.seq

\* What is visible in the feed is whole, was retained before, and is the one entry of its
\* sequence, signed by the key whose public record the trust names (Publish, publishTrust).
PublishedSigned ==
    \A h \in Homes : \A e \in feed[h] :
        /\ e.whole /\ e.policy \in attestations[h]
        /\ \A d \in feed[h] : d.policy.seq = e.policy.seq => d = e
        /\ \E i \in DOMAIN signatures[h] :
              /\ signatures[h][i].policy = e.policy
              /\ h = "production" /\ trust.exported # 0 => signatures[h][i].key = trust.exported

\* One command at a time is between the publication lock and its removal.
OnePublisher == \A k, l \in Keepers : keeper[k].pc \in Publishing /\ keeper[l].pc \in Publishing => k = l

FeedTrue == SignedInOrder /\ PublishedSigned /\ OnePublisher
=============================================================================
