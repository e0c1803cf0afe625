---------------------------- MODULE ThreatIntel ----------------------------
(***************************************************************************)
(* The store of indicators (src/src/enrichment/threat_intel.py): a         *)
(* singleton created by the first lookup, which refreshes it before anyone *)
(* else may look, and refreshed by a background thread when a later lookup *)
(* finds it stale.  The lookup takes the store's lock for that thread,     *)
(* which releases it; get_store holds _intel_lock throughout.              *)
(***************************************************************************)
EXTENDS Naturals, FiniteSets

CONSTANTS
    Lookers,     \* threads that look indicators up
    Refreshers,  \* background threads
    NoThread,    \* a lock is free
    Indicators,  \* addresses a feed may list
    Configured,  \* which of "abuse", "ja3", "misp" are configured
    RefreshPeriod, \* THREAT_INTEL_REFRESH_MINUTES
    IntelMaxTime \* bound: the clock

VARIABLES
    day,          \* the clock
    store,        \* _intel_store exists
    looker,       \* where each looker is
    intelLock,    \* _intel_lock
    storeLock,    \* the store's _lock
    stage,        \* the feed each refreshing thread fetches next
    badIps, badJa3, badDomains, \* the store's sets
    lastRefresh,
    abuse,        \* what AbuseIPDB last answered (history)
    added,        \* what MISP listed since then (history)
    misp,         \* what MISP last answered (history)
    leaked        \* a background thread could not be started (history)

intelVars == <<day, store, looker, intelLock, storeLock, stage, badIps, badJa3, badDomains,
               lastRefresh, abuse, added, misp, leaked>>
setVars   == <<badIps, badJa3, badDomains, lastRefresh, abuse, added, misp>>

Threads == Lookers \cup Refreshers

Init ==
    /\ day = 0 /\ store = FALSE /\ looker = [c \in Lookers |-> "idle"]
    /\ intelLock = NoThread /\ storeLock = NoThread /\ stage = [t \in Threads |-> "none"]
    /\ badIps = {} /\ badJa3 = {} /\ badDomains = {} /\ lastRefresh = 0
    /\ abuse = {} /\ added = {} /\ misp = {} /\ leaked = FALSE

PassTime == day < IntelMaxTime /\ day' = day + 1
            /\ UNCHANGED <<store, looker, intelLock, storeLock, stage, setVars, leaked>>

(* A period of zero means never. *)
Stale == RefreshPeriod > 0 /\ day - lastRefresh > RefreshPeriod

(* The first caller refreshes inside _intel_lock; every other caller waits for it. *)
CreateStore(c) ==
    /\ looker[c] = "idle" /\ intelLock = NoThread /\ ~store
    /\ store' = TRUE /\ intelLock' = c /\ storeLock' = c
    /\ looker' = [looker EXCEPT ![c] = "refreshing"] /\ stage' = [stage EXCEPT ![c] = "abuse"]
    /\ UNCHANGED <<day, setVars, leaked>>

Found(c) == looker[c] = "idle" /\ intelLock = NoThread /\ store

(* Fresh, or somebody refreshes already: the caller takes the sets as they are. *)
UseStore(c) ==
    /\ Found(c) /\ (~Stale \/ storeLock # NoThread)
    /\ looker' = [looker EXCEPT ![c] = "lookup"]
    /\ UNCHANGED <<day, store, intelLock, storeLock, stage, setVars, leaked>>

(* Mutant of MaySpawn: staleness alone starts a thread. *)
MaySpawnStale == Stale

MaySpawn == Stale /\ storeLock = NoThread

Spawn(c, t) ==
    /\ Found(c) /\ MaySpawn /\ stage[t] = "none"
    /\ storeLock' = t /\ stage' = [stage EXCEPT ![t] = "abuse"]
    /\ looker' = [looker EXCEPT ![c] = "lookup"]
    /\ UNCHANGED <<day, store, intelLock, setVars, leaked>>

(* Thread.start() raises: the caller's lookup fails and nobody will release the lock. *)
SpawnFails(c) ==
    /\ Found(c) /\ MaySpawn
    /\ storeLock' = c /\ leaked' = TRUE
    /\ UNCHANGED <<day, store, looker, intelLock, stage, setVars>>

Lookup(c) ==
    /\ looker[c] = "lookup" /\ looker' = [looker EXCEPT ![c] = "idle"]
    /\ UNCHANGED <<day, store, intelLock, storeLock, stage, setVars, leaked>>

After(feed) == CASE feed = "abuse" -> "ja3" [] feed = "ja3" -> "misp" [] feed = "misp" -> "end"

(* A non-empty answer replaces the whole set, what MISP added to it included; *)
(* an error or an empty answer keeps it.                                      *)
FetchAbuse(t) ==
    /\ stage[t] = "abuse" /\ stage' = [stage EXCEPT ![t] = After("abuse")]
    /\ \/ /\ "abuse" \in Configured
          /\ \E ips \in SUBSET Indicators \ {{}} : badIps' = ips /\ abuse' = ips /\ added' = {}
       \/ UNCHANGED <<badIps, abuse, added>>
    /\ UNCHANGED <<day, store, looker, intelLock, storeLock, badJa3, badDomains, lastRefresh, misp, leaked>>

FetchJa3(t) ==
    /\ stage[t] = "ja3" /\ stage' = [stage EXCEPT ![t] = After("ja3")]
    /\ \/ "ja3" \in Configured /\ \E hashes \in SUBSET Indicators \ {{}} : badJa3' = hashes
       \/ UNCHANGED badJa3
    /\ UNCHANGED <<day, store, looker, intelLock, storeLock, badIps, badDomains, lastRefresh, abuse, added, misp, leaked>>

(* MISP only adds; no domain is ever forgotten. *)
FetchMisp(t) ==
    /\ stage[t] = "misp" /\ stage' = [stage EXCEPT ![t] = After("misp")]
    /\ \/ /\ "misp" \in Configured
          /\ \E ips, domains \in SUBSET Indicators :
                /\ badIps' = badIps \cup ips /\ badDomains' = badDomains \cup domains
                /\ misp' = ips /\ added' = added \cup ips
       \/ UNCHANGED <<badIps, badDomains, added, misp>>
    /\ UNCHANGED <<day, store, looker, intelLock, storeLock, badJa3, lastRefresh, abuse, leaked>>

(* The refresh counts as done even if no feed answered. *)
EndRefresh(t) ==
    /\ stage[t] = "end" /\ stage' = [stage EXCEPT ![t] = "none"]
    /\ lastRefresh' = day /\ storeLock' = NoThread
    /\ IF t \in Lookers THEN intelLock' = NoThread /\ looker' = [looker EXCEPT ![t] = "lookup"]
                        ELSE UNCHANGED <<intelLock, looker>>
    /\ UNCHANGED <<day, store, badIps, badJa3, badDomains, abuse, added, misp, leaked>>

Refresh(t) == FetchAbuse(t) \/ FetchJa3(t) \/ FetchMisp(t) \/ EndRefresh(t)

Next ==
    \/ PassTime
    \/ \E c \in Lookers : \/ CreateStore(c) \/ UseStore(c) \/ SpawnFails(c) \/ Lookup(c)
                          \/ \E t \in Refreshers : Spawn(c, t)
    \/ \E t \in Threads : Refresh(t)

Spec == Init /\ [][Next]_intelVars

-----------------------------------------------------------------------------

(***************************************************************************)
(* At most one thread refreshes the store, and the lock that says so is    *)
(* held exactly as long as it does, but for a thread that failed to start; *)
(* nobody looks anything up before the first refresh is over.              *)
(***************************************************************************)
OneRefresh ==
    LET refreshing == {t \in Threads : stage[t] # "none"}
    IN  /\ Cardinality(refreshing) <= 1
        /\ IF leaked THEN refreshing = {} ELSE storeLock # NoThread <=> refreshing # {}
        /\ (\E t \in refreshing : t \in Lookers) => \A c \in Lookers : looker[c] # "lookup"

(***************************************************************************)
(* Whichever feeds answer, fail or answer nothing, at every step of every  *)
(* refresh the addresses looked up are those AbuseIPDB last listed and     *)
(* those MISP listed since then, no fewer and no more.  AbuseIPDB's next   *)
(* answer takes MISP's older addresses away, so this is not what the       *)
(* README promises: see FeedFailureKeepsData.                              *)
(***************************************************************************)
IndicatorsKept == badIps = abuse \cup added

(* One refresh at a time, and the set is what the feeds last said. *)
RefreshKeepsIndicators == OneRefresh /\ IndicatorsKept

(***************************************************************************)
(* What README.md promises and the code does not keep ("If a feed is       *)
(* unreachable, the existing data is preserved"): between two refreshes    *)
(* every address of MISP's last answer is in the set.                      *)
(***************************************************************************)
FeedFailureKeepsData == (\A t \in Threads : stage[t] = "none") => misp \subseteq badIps
=============================================================================
