------------------------------ MODULE BundleLoader ------------------------------
(***************************************************************************)
(* loadBundle() and readBundle() of packages/tiktok-live/src/signer.ts:    *)
(* calls for the same bundle share one flight, a flight answers from the   *)
(* cache file or downloads, and what it downloaded replaces the cache.     *)
(* Several processes use the default cache path, each with its own map of  *)
(* flights; a process may die at any point, also half way through a write, *)
(* and so may the system, which may leave a file that was renamed without  *)
(* being synced cut short. A bundle is a name, "torn" any part of one;     *)
(* Unpinned is the URL that comes without an expected digest, which shares *)
(* the cache path of the official one all the same.                        *)
(***************************************************************************)
EXTENDS Integers, FiniteSets

CONSTANTS
    Processes,      \* Node processes that share the temporary directory
    MaxFlights,     \* flights a process may have (16)
    MaxLoads        \* bound: flights started in a behaviour

Official == "official"
Unpinned == "unpinned"
Urls == {Official, Unpinned}

(* What a URL may serve; the official one may change under its digest. *)
Served == [r \in Urls |-> IF r = Official THEN {"bundle", "changed"} ELSE {"custom"}]

Texts == {"bundle", "changed", "custom"}

VARIABLES
    cache,          \* the file at cachePath, "none" if there is none
    flight,         \* bundleFlights: where each flight is, "none" for no entry
    source,         \* the text it has downloaded
    temporary,      \* the file it writes, under a name no other flight ever uses
    loads,          \* flights started so far
    given,          \* history: what callers were given, by URL
    outage          \* history: the system went down and left half a file

loaderVars == <<cache, flight, source, temporary, loads, given, outage>>

LoaderInit ==
    /\ cache = "none"
    /\ flight = [p \in Processes |-> [r \in Urls |-> "none"]]
    /\ source = [p \in Processes |-> [r \in Urls |-> "none"]]
    /\ temporary = [p \in Processes |-> [r \in Urls |-> "none"]]
    /\ loads = 0
    /\ given = {} /\ outage = FALSE

(* matchesDigest *)
MatchesDigest(r, text) == r = Official => text = "bundle"

At(p, r, stage) == flight[p][r] = stage
Goto(p, r, stage) == flight' = [flight EXCEPT ![p][r] = stage]

(* The promise settles and its entry is deleted: with a text, or rejected. *)
Settle(p, r) ==
    /\ Goto(p, r, "none")
    /\ source' = [source EXCEPT ![p][r] = "none"]
    /\ temporary' = [temporary EXCEPT ![p][r] = "none"]
GiveTo(p, r, text) == Settle(p, r) /\ given' = given \cup {<<r, text>>}
RejectKeepsFlight(p, r) ==
    /\ Goto(p, r, "rejected")
    /\ UNCHANGED <<source, temporary, given>>
Reject(p, r) == Settle(p, r) /\ UNCHANGED given

--------------------------------------------------------------------------------
(* loadBundle() when no flight of the request is under way and the map has *)
(* room. A call that finds a flight shares it; one beyond the limit fails. *)
LoadBundle(p, r) ==
    /\ At(p, r, "none")
    /\ Cardinality({q \in Urls : ~At(p, q, "none")}) < MaxFlights
    /\ loads < MaxLoads
    /\ loads' = loads + 1
    /\ Goto(p, r, "stat")
    /\ UNCHANGED <<cache, source, temporary, given, outage>>

(* stat() finds a file that is young enough and not empty, or not. *)
Stat(p, r) ==
    /\ At(p, r, "stat")
    /\ \/ cache # "none" /\ Goto(p, r, "read")
       \/ Goto(p, r, "fetch")
    /\ UNCHANGED <<cache, source, temporary, loads, given, outage>>

(* The file is read; it may have been replaced or removed since. *)
ReadCacheUnchecked(p, r) ==
    /\ At(p, r, "read")
    /\ \/ cache # "none" /\ GiveTo(p, r, cache)
       \/ Goto(p, r, "fetch") /\ UNCHANGED <<source, temporary, given>>
    /\ UNCHANGED <<cache, loads, outage>>
ReadCache(p, r) ==
    /\ At(p, r, "read")
    /\ \/ cache # "none" /\ MatchesDigest(r, cache) /\ GiveTo(p, r, cache)
       \/ Goto(p, r, "fetch") /\ UNCHANGED <<source, temporary, given>>
    /\ UNCHANGED <<cache, loads, outage>>

(* The download fails, times out, or is not what was expected. *)
FetchFails(p, r) ==
    /\ At(p, r, "fetch")
    /\ Reject(p, r)
    /\ UNCHANGED <<cache, loads, outage>>

Fetched(p, r) ==
    /\ At(p, r, "fetch")
    /\ \E text \in Served[r] :
          /\ MatchesDigest(r, text)
          /\ source' = [source EXCEPT ![p][r] = text]
    /\ Goto(p, r, "write")
    /\ UNCHANGED <<cache, temporary, loads, given, outage>>

(* writeFile() creates the temporary file and fills it piece by piece. *)
WriteInPlace(p, r) ==
    /\ At(p, r, "write")
    /\ cache' = "torn"
    /\ Goto(p, r, "writing")
    /\ UNCHANGED <<source, temporary, loads, given, outage>>
WriteTemporary(p, r) ==
    /\ At(p, r, "write")
    /\ temporary' = [temporary EXCEPT ![p][r] = "torn"]
    /\ Goto(p, r, "writing")
    /\ UNCHANGED <<cache, source, loads, given, outage>>

Written(p, r) ==
    /\ At(p, r, "writing")
    /\ temporary' = [temporary EXCEPT ![p][r] = source[p][r]]
    /\ Goto(p, r, "rename")
    /\ UNCHANGED <<cache, source, loads, given, outage>>

Rename(p, r) ==
    /\ At(p, r, "rename")
    /\ cache' = temporary[p][r]
    /\ GiveTo(p, r, source[p][r])
    /\ UNCHANGED <<loads, outage>>

(* Either of the two fails: what was written is removed, and the bundle is *)
(* used without being cached.                                              *)
CacheFails(p, r) ==
    /\ \E stage \in {"write", "writing", "rename"} : At(p, r, stage)
    /\ GiveTo(p, r, source[p][r])
    /\ UNCHANGED <<cache, loads, outage>>

(* The process dies. Its temporary files stay, and are never looked at.    *)
Dies(p) ==
    /\ \E r \in Urls : ~At(p, r, "none")
    /\ flight' = [flight EXCEPT ![p] = [r \in Urls |-> "none"]]
    /\ source' = [source EXCEPT ![p] = [r \in Urls |-> "none"]]
    /\ temporary' = [temporary EXCEPT ![p] = [r \in Urls |-> "none"]]
    /\ UNCHANGED <<cache, loads, given, outage>>

(* The system dies with its processes, and of the file that was renamed to *)
(* the cache path only a part has reached the disk.                        *)
SystemDies ==
    /\ cache # "none"
    /\ cache' = "torn"
    /\ flight' = [p \in Processes |-> [r \in Urls |-> "none"]]
    /\ source' = [p \in Processes |-> [r \in Urls |-> "none"]]
    /\ temporary' = [p \in Processes |-> [r \in Urls |-> "none"]]
    /\ outage' = TRUE
    /\ UNCHANGED <<loads, given>>

(* The system cleans its temporary directory. *)
CacheVanishes ==
    /\ cache # "none"
    /\ cache' = "none"
    /\ UNCHANGED <<flight, source, temporary, loads, given, outage>>

FlightStep(p, r) ==
    \/ Stat(p, r) \/ ReadCache(p, r) \/ FetchFails(p, r) \/ Fetched(p, r)
    \/ WriteTemporary(p, r) \/ Written(p, r) \/ Rename(p, r) \/ CacheFails(p, r)

LoaderNext ==
    \/ \E p \in Processes : \E r \in Urls : LoadBundle(p, r) \/ FlightStep(p, r)
    \/ \E p \in Processes : Dies(p)
    \/ SystemDies \/ CacheVanishes

LoaderSpec == LoaderInit /\ [][LoaderNext]_loaderVars

(* Files answer, and a download ends at the latest with its timeout. *)
LoaderFairness == \A p \in Processes : \A r \in Urls : WF_loaderVars(FlightStep(p, r))

--------------------------------------------------------------------------------
(* Properties *)

(* Whatever other flights and processes put into the cache file between    *)
(* the look at it, the read and the rename, and wherever a process dies, a *)
(* caller that expects a digest is given nothing else, and one that        *)
(* expects none a whole text that was downloaded. Nothing syncs the cache  *)
(* file: only after an outage that cut it short may such a caller be given *)
(* half a bundle.                                                          *)
GivenIsExpected ==
    \A g \in given :
        MatchesDigest(g[1], g[2]) /\ g[2] \in (IF outage THEN Texts \cup {"torn"} ELSE Texts)

(* Every flight ends and leaves the map, failed downloads included: a      *)
(* later call downloads again, and the map's limit is never used up.       *)
FlightsEnd == \A p \in Processes : \A r \in Urls : ~At(p, r, "none") ~> At(p, r, "none")
================================================================================
