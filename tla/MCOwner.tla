------------------------------ MODULE MCOwner -------------------------------
(* The owner's operations on the host, which share no state with one another: an upgrade *)
(* of the service, the seeding of a venue's caches, the issue of signed releases and the *)
(* records of a seat.                                                                    *)
EXTENDS Upgrade, CacheSeed, FeedIssue, SeatRecords

CONSTANT Part   \* the parts explored
VARIABLE part

ownerVars == <<part, vars, seedVars, feedVars, recordVars>>
OwnerInit ==
    /\ part \in Part /\ Init /\ SeedInit /\ FeedInit /\ RecordInit
    /\ part = "seed" \/ source = [g \in SeedGroups |-> "pinned"]
OwnerNext ==
    /\ UNCHANGED part
    /\ IF part = "upgrade" THEN Next ELSE UNCHANGED vars
    /\ IF part = "seed" THEN SeedNext ELSE UNCHANGED seedVars
    /\ IF part = "feed" THEN FeedNext ELSE UNCHANGED feedVars
    /\ IF part = "records" THEN RecordNext ELSE UNCHANGED recordVars
OwnerSpec == OwnerInit /\ [][OwnerNext]_ownerVars /\ Fairness
OwnerTypeOK == TypeOK /\ SeedTypeOK /\ FeedTypeOK /\ RecordTypeOK

\* CacheSeed, FeedIssue and SeatRecords: what is added under a name or a number, a seeded
\* cache, a signed release or a seat's record, is added once, whole, and on what its author
\* had read, whatever fails beside it.
AddOnlyTrue == SeedTrue /\ FeedTrue /\ RecordsTrue
=============================================================================
