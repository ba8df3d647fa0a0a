---------------------------- MODULE SnapshotCache ----------------------------
(***************************************************************************)
(* What SmartMonitorService promises the readers of its dictionary, without *)
(* processes, scans or the host: reports get older; now and then the whole *)
(* content is replaced by the reports of a set of drives; a replacement    *)
(* first writes every new report and only then removes the names that have *)
(* none; and nothing else ever changes the content.                        *)
(***************************************************************************)
EXTENDS Naturals

CONSTANTS Devices, Names, NameOf, MaxAge, NoReport

VARIABLES
    cache,      \* the report of each name
    replacing,  \* a replacement is under way
    source      \* the drives whose reports it brings

cacheVars == <<cache, replacing, source>>

Aged(r) == IF r = NoReport THEN r
           ELSE [r EXCEPT !.age = IF @ < MaxAge THEN @ + 1 ELSE @]
Fresh(n) == cache[n] # NoReport /\ cache[n].age = 0 /\ cache[n].dev \in source
SourceNames == {NameOf[d] : d \in source}

CacheInit ==
    /\ cache = [n \in Names |-> NoReport]
    /\ ~replacing
    /\ source = {}

Elapse ==
    /\ ~replacing
    /\ cache' = [n \in Names |-> Aged(cache[n])]
    /\ UNCHANGED <<replacing, source>>

StartReplacement ==
    /\ ~replacing
    /\ replacing'
    /\ source' \in SUBSET Devices
    /\ UNCHANGED cache

Put(d) ==
    /\ replacing
    /\ cache' = [cache EXCEPT ![NameOf[d]] = [dev |-> d, age |-> 0]]
    /\ UNCHANGED <<replacing, source>>

Remove(n) ==
    /\ replacing
    /\ \A m \in SourceNames : Fresh(m)
    /\ n \notin SourceNames
    /\ cache' = [cache EXCEPT ![n] = NoReport]
    /\ UNCHANGED <<replacing, source>>

FinishReplacement ==
    /\ replacing
    /\ \A n \in Names : IF n \in SourceNames THEN Fresh(n) ELSE cache[n] = NoReport
    /\ ~replacing'
    /\ source' = {}
    /\ UNCHANGED cache

CacheNext ==
    \/ Elapse \/ StartReplacement \/ FinishReplacement
    \/ \E d \in source : Put(d)
    \/ \E n \in Names : Remove(n)

CacheSpec == CacheInit /\ [][CacheNext]_cacheVars
=============================================================================
