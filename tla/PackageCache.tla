---------------------------- MODULE PackageCache ----------------------------
(* The host's caches of what guests install: the Go module proxy (internal/goproxy), the *)
(* npm and Python registries (internal/npmproxy, internal/pypiproxy) and the Debian      *)
(* packages of a base (internal/debs). Each cache has one file here, which several       *)
(* requests ask for at once; an upstream may send other bytes than were pinned, and the  *)
(* process may end at any point.                                                         *)
EXTENDS Naturals

CONSTANTS
    Fetchers,    \* concurrent requests; the packages of a base are fetched one at a time
    MaxAsked     \* bound: requests

VARIABLES
    kept,        \* each cache's file: "none", "part" while it is being written, or its bytes
    dataArchive,     \* the data archive extracted from the Debian package
    fetch,       \* each request: its cache, step and the bytes it holds
    listed,      \* the Python registry served the file's project page
    handed,    \* what requests were given: pairs of a cache and bytes
    asked        \* requests so far, for MaxAsked

cacheVars == <<kept, dataArchive, fetch, listed, handed, asked>>

Caches == {"go", "npm", "pypi", "deb"}
Bytes == {"pinned", "other"}
NoFetch == [pc |-> "idle", cache |-> "go", bytes |-> "none"]

CacheTypeOK ==
    /\ kept \in [Caches -> Bytes \cup {"none", "part"}] /\ dataArchive \in Bytes \cup {"none", "part"} /\ listed \in BOOLEAN
    /\ \A f \in Fetchers : fetch[f].cache \in Caches /\ fetch[f].pc \in {"idle", "look", "get", "check", "place", "reopen", "extract", "send"}

CacheInit ==
    /\ kept = [c \in Caches |-> "none"] /\ dataArchive = "none" /\ listed = FALSE
    /\ fetch = [f \in Fetchers |-> NoFetch] /\ handed = {} /\ asked = 0

Go(f, pc) == fetch' = [fetch EXCEPT ![f].pc = pc]
Hold(f, pc, bytes) == fetch' = [fetch EXCEPT ![f].pc = pc, ![f].bytes = bytes]
Refused(f) == fetch' = [fetch EXCEPT ![f] = NoFetch]

\* Handler, DataArchives: a request for the locked or pinned file is let in. Others are
\* answered without the cache.
AskFor(f, c) ==
    /\ fetch[f].pc = "idle" /\ asked < MaxAsked
    /\ c = "deb" => \A g \in Fetchers : fetch[g].pc = "idle" \/ fetch[g].cache # "deb"
    /\ fetch' = [fetch EXCEPT ![f] = [NoFetch EXCEPT !.pc = "look", !.cache = c]] /\ asked' = asked + 1
    /\ UNCHANGED <<kept, dataArchive, listed, handed>>
\* servePage: the page lists the locked file, and its address is kept.
ServePage ==
    /\ ~listed /\ listed' = TRUE
    /\ UNCHANGED <<kept, dataArchive, fetch, handed, asked>>

\* serve, serveFile: the file is in the cache, or is fetched; a Python file only from the
\* address its page gave.
Look(f) ==
    LET c == fetch[f].cache
    IN  /\ fetch[f].pc = "look" /\ c # "deb"
        /\ IF kept[c] # "none" THEN Hold(f, "send", kept[c])
           ELSE IF c = "pypi" /\ ~listed THEN Refused(f) ELSE Go(f, "get")
        /\ UNCHANGED <<kept, dataArchive, listed, handed, asked>>
\* ensure: a cached package is checked on every use, and removed if it is another.
Ensure(f) ==
    /\ fetch[f].pc = "look" /\ fetch[f].cache = "deb"
    /\ IF kept["deb"] = "pinned" THEN Hold(f, "extract", "pinned") /\ UNCHANGED kept
       ELSE Go(f, "get") /\ kept' = [kept EXCEPT !["deb"] = "none"]
    /\ UNCHANGED <<dataArchive, listed, handed, asked>>

\* The response's body goes to a file of its own, or fails.
Get(f) ==
    /\ fetch[f].pc = "get"
    /\ Go(f, "check") \/ Refused(f)
    /\ UNCHANGED <<kept, dataArchive, listed, handed, asked>>
\* What arrived is checked against the lock or the pin; a module's bytes are its checksum
\* database's business.
Checked(c, bytes) == c = "go" \/ bytes = "pinned"
CheckBytes(f) ==
    /\ fetch[f].pc = "check"
    /\ \E b \in Bytes : IF Checked(fetch[f].cache, b) THEN Hold(f, "place", b) ELSE Refused(f)
    /\ UNCHANGED <<kept, dataArchive, listed, handed, asked>>
\* The checked file is renamed to its name, and read from there.
Place(f) ==
    /\ fetch[f].pc = "place"
    /\ \/ /\ kept' = [kept EXCEPT ![fetch[f].cache] = fetch[f].bytes]
          /\ Go(f, IF fetch[f].cache = "deb" THEN "extract" ELSE "reopen")
       \/ Refused(f) /\ UNCHANGED kept
    /\ UNCHANGED <<dataArchive, listed, handed, asked>>
Reopen(f) ==
    /\ fetch[f].pc = "reopen"
    /\ Hold(f, "send", kept[fetch[f].cache]) \/ Refused(f)
    /\ UNCHANGED <<kept, dataArchive, listed, handed, asked>>
\* extractData: an archive that exists is taken as it is; a new one is renamed when whole.
ExtractData(f) ==
    /\ fetch[f].pc = "extract"
    /\ \/ /\ dataArchive' = IF dataArchive = "none" THEN kept["deb"] ELSE dataArchive
          /\ Hold(f, "send", dataArchive')
       \/ Refused(f) /\ UNCHANGED dataArchive
    /\ UNCHANGED <<kept, listed, handed, asked>>
\* sendFile: the opened file, as it is when it is copied.
Send(f) ==
    /\ fetch[f].pc = "send"
    /\ handed' = handed \cup {<<fetch[f].cache, fetch[f].bytes>>} /\ Refused(f)
    /\ UNCHANGED <<kept, dataArchive, listed, asked>>

\* The process ends: its requests are gone, and with them the addresses.
ServerEnds ==
    /\ \E f \in Fetchers : fetch[f].pc # "idle"
    /\ fetch' = [f \in Fetchers |-> NoFetch] /\ listed' = FALSE
    /\ UNCHANGED <<kept, dataArchive, handed, asked>>
\* A cached package's file rots.
PackageRots ==
    /\ kept["deb"] = "pinned" /\ kept' = [kept EXCEPT !["deb"] = "other"]
    /\ \A f \in Fetchers : fetch[f].pc = "idle" \/ fetch[f].cache # "deb"
    /\ UNCHANGED <<dataArchive, fetch, listed, handed, asked>>

CacheNext ==
    \/ ServePage \/ ServerEnds \/ PackageRots
    \/ \E f \in Fetchers :
        \/ \E c \in Caches : AskFor(f, c)
        \/ Look(f) \/ Ensure(f) \/ Get(f) \/ CheckBytes(f) \/ Place(f) \/ Reopen(f) \/ ExtractData(f) \/ Send(f)

\* Whoever is given a locked or pinned file is given its bytes, and a module's file is
\* given whole: whatever the upstream sent, whoever fetched the file at the same time and
\* wherever an earlier fetch was cut off (Proxy.serve, serveFile, Cache.ensure).
AnsweredTrue == \A a \in handed : a[2] = "pinned" \/ (a[1] = "go" /\ a[2] = "other")
=============================================================================
