--------------------------- MODULE AssetInventory ---------------------------
(***************************************************************************)
(* The asset inventory: counters per LAN host kept by AssetTracker         *)
(* (src/src/inventory/assets.py) on the capture path, and merged into the  *)
(* host_profiles table by the asset-flusher thread, and once more by main  *)
(* at shutdown (src/src/pipeline.py).  A session reads the rows, computes   *)
(* new values and updates the columns that differ from what it read.       *)
(***************************************************************************)
EXTENDS Naturals, FiniteSets

CONSTANTS
    Lan, Wan,     \* addresses the inventory keeps, and others; numbered, as lists are sorted
    Ports,        \* destination ports
    IotPorts,     \* IOT_PORTS
    MaxHosts,     \* max_hosts
    SetCap,       \* SET_CAP
    MinFlows,     \* MIN_FLOWS
    MaxObserved   \* bound: flows

Flushers == {"flusher", "main"}
Nothing  == [out |-> 0, inn |-> 0, listen |-> {}, called |-> {}, peers |-> {}]
NoRow    == [out |-> 0, inn |-> 0, listen |-> {}, called |-> {}, peers |-> {}, kind |-> "none"]

VARIABLES
    hosts,     \* _hosts: the tracked addresses and their counters
    profiles,  \* the host_profiles table
    flush,     \* where each flusher is in _flush_assets_now
    drained,   \* what it took from the tracker
    snap,      \* the rows it read
    observed,  \* what was counted for each address since the start (history)
    lost,      \* what a failed flush took with it (history)
    flows,     \* flows observed
    dbReady,   \* _init_db has succeeded
    assetStop, \* _asset_stop is set
    clashed    \* the two flushers have been under way at once (history)

assetVars == <<hosts, profiles, flush, drained, snap, observed, lost, flows, dbReady, assetStop, clashed>>
dbVars    == <<profiles, lost, dbReady>>

Add(c, d) == [out |-> c.out + d.out, inn |-> c.inn + d.inn, listen |-> c.listen \cup d.listen,
              called |-> c.called \cup d.called, peers |-> c.peers \cup d.peers]

(* The smallest SetCap elements: sorted(merged)[:SET_CAP]. *)
Cap(set) == {x \in set : Cardinality({y \in set : y < x}) < SetCap}

(* By what a host does on the wire. *)
Classify(c) ==
    CASE c.out + c.inn < MinFlows -> "unknown"
      [] /\ c.out + c.inn >= MinFlows
         /\ \/ c.inn >= MinFlows /\ c.inn >= 2 * c.out
            \/ Cardinality(c.listen) >= 3 /\ c.inn >= 5 -> "server"
      [] OTHER ->
            IF c.out >= MinFlows /\ Cardinality(c.peers) <= 5 /\ c.called \subseteq IotPorts /\ c.inn * 10 <= c.out
            THEN "iot"
            ELSE IF Cardinality(c.peers) >= 10 /\ c.out > c.inn THEN "workstation" ELSE "unknown"

Init ==
    /\ hosts = [ip \in {} |-> Nothing] /\ profiles = [ip \in Lan |-> NoRow]
    /\ flush = [f \in Flushers |-> "idle"] /\ drained = [f \in Flushers |-> [ip \in {} |-> Nothing]]
    /\ snap = [f \in Flushers |-> [ip \in Lan |-> NoRow]]
    /\ observed = [ip \in Lan |-> Nothing] /\ lost = observed
    /\ flows = 0 /\ dbReady = FALSE /\ assetStop = FALSE /\ clashed = FALSE

(* A host is counted when it is known or there is room; a full set takes no more. *)
Room(set, new) == IF Cardinality(set) < SetCap THEN set \cup new ELSE set
Counted(table, ip, c) ==
    IF ip \in DOMAIN table
    THEN [table EXCEPT ![ip] = [out |-> @.out + c.out, inn |-> @.inn + c.inn, listen |-> Room(@.listen, c.listen),
                                called |-> Room(@.called, c.called), peers |-> Room(@.peers, c.peers)]]
    ELSE IF ip \in Lan /\ Cardinality(DOMAIN table) < MaxHosts
         THEN [x \in DOMAIN table \cup {ip} |-> IF x = ip THEN c ELSE table[x]]
         ELSE table

(* A flow counts for its source, and then for its destination. *)
Observe ==
    /\ flows < MaxObserved /\ flows' = flows + 1
    /\ \E src \in Lan \cup Wan, dst \in Lan \cup Wan, port \in Ports :
        /\ src # dst
        /\ LET asked == [Nothing EXCEPT !.out = 1, !.called = {port}, !.peers = {dst}]
               heard == [Nothing EXCEPT !.inn = 1, !.listen = {port}, !.peers = {src}]
               table == Counted(Counted(hosts, src, asked), dst, heard)
           IN  /\ hosts' = table
               /\ observed' = [ip \in Lan |->
                    IF ip \notin DOMAIN table THEN observed[ip]
                    ELSE IF ip = src THEN Add(observed[ip], asked)
                    ELSE IF ip = dst THEN Add(observed[ip], heard)
                    ELSE observed[ip]]
    /\ UNCHANGED <<profiles, flush, drained, snap, lost, dbReady, assetStop, clashed>>

Swapped(f) == drained' = [drained EXCEPT ![f] = hosts] /\ hosts' = [ip \in {} |-> Nothing]

MayFlush(f) == IF f = "main" THEN assetStop ELSE ~assetStop

(* The counters are taken before anything is known about the database. *)
Drain(f) ==
    /\ flush[f] = "idle" /\ MayFlush(f) /\ DOMAIN hosts # {}
    /\ Swapped(f) /\ flush' = [flush EXCEPT ![f] = "read"]
    /\ clashed' = (clashed \/ \E g \in Flushers \ {f} : flush[g] \in {"read", "write"})
    /\ UNCHANGED <<profiles, snap, observed, lost, flows, dbReady, assetStop>>

Forget(f) ==
    /\ lost' = [ip \in Lan |-> IF ip \in DOMAIN drained[f] THEN Add(lost[ip], drained[f][ip]) ELSE lost[ip]]
    /\ drained' = [drained EXCEPT ![f] = [ip \in {} |-> Nothing]]

(* _init_db() is outside the try: what it raises ends the thread, or main's shutdown. *)
InitFails(f) ==
    /\ flush[f] = "read" /\ ~dbReady
    /\ Forget(f) /\ flush' = [flush EXCEPT ![f] = "dead"]
    /\ UNCHANGED <<hosts, profiles, snap, observed, flows, dbReady, assetStop, clashed>>

Read(f) ==
    /\ flush[f] = "read"
    /\ dbReady' = TRUE /\ snap' = [snap EXCEPT ![f] = profiles] /\ flush' = [flush EXCEPT ![f] = "write"]
    /\ UNCHANGED <<hosts, profiles, drained, observed, lost, flows, assetStop, clashed>>

(* The row as the session computes it from the row it read. *)
Merged(row, c) ==
    LET sum == [Add(row, c) EXCEPT !.listen = Cap(@), !.called = Cap(@), !.peers = Cap(@)]
    IN  [field \in DOMAIN NoRow |-> IF field = "kind" THEN Classify(sum) ELSE sum[field]]

(* An INSERT of a row that exists violates the unique ip: the whole batch is rolled back. *)
Conflicts(f) == \E ip \in DOMAIN drained[f] : snap[f][ip] = NoRow /\ profiles[ip] # NoRow

(* An UPDATE sets the columns whose value differs from the one read. *)
Updated(row, read, new) == [c \in DOMAIN row |-> IF new[c] # read[c] THEN new[c] ELSE row[c]]

Write(f) ==
    /\ flush[f] = "write" /\ ~Conflicts(f)
    /\ profiles' = [ip \in Lan |->
         IF ip \notin DOMAIN drained[f] THEN profiles[ip]
         ELSE IF snap[f][ip] = NoRow THEN Merged(NoRow, drained[f][ip])
         ELSE Updated(profiles[ip], snap[f][ip], Merged(snap[f][ip], drained[f][ip]))]
    /\ drained' = [drained EXCEPT ![f] = [ip \in {} |-> Nothing]]
    /\ flush' = [flush EXCEPT ![f] = IF f = "main" THEN "done" ELSE "idle"]
    /\ UNCHANGED <<hosts, snap, observed, lost, flows, dbReady, assetStop, clashed>>

(* A conflict, or any other error of the database: rolled back, logged, and forgotten. *)
FlushFails(f) ==
    /\ flush[f] = "write"
    /\ Forget(f) /\ flush' = [flush EXCEPT ![f] = IF f = "main" THEN "done" ELSE "idle"]
    /\ UNCHANGED <<hosts, profiles, snap, observed, flows, dbReady, assetStop, clashed>>

(* drain_alert_queue: main does not wait for a flush under way. *)
StopFlusher ==
    /\ ~assetStop /\ assetStop' = TRUE
    /\ UNCHANGED <<hosts, profiles, flush, drained, snap, observed, lost, flows, dbReady, clashed>>

Next == Observe \/ StopFlusher \/ \E f \in Flushers : Drain(f) \/ InitFails(f) \/ Read(f) \/ Write(f) \/ FlushFails(f)

Spec == Init /\ [][Next]_assetVars

-----------------------------------------------------------------------------

Held(f, ip)  == IF ip \in DOMAIN drained[f] THEN drained[f][ip] ELSE Nothing
InFlight(ip) == Add(Held("flusher", ip), Held("main", ip))
InMemory(ip) == IF ip \in DOMAIN hosts THEN hosts[ip] ELSE Nothing
Accounted(ip) == Add(Add(profiles[ip], InFlight(ip)), Add(InMemory(ip), lost[ip]))

(***************************************************************************)
(* No flow of a host is counted twice, and none is forgotten except by a   *)
(* flush that failed or by the two flushers overwriting each other at      *)
(* shutdown.  Until a set is full no port or peer is forgotten, and without *)
(* such a clash the class of a row is the one of its counters.             *)
(***************************************************************************)
CountsAddUp ==
    \A ip \in Lan :
        /\ Accounted(ip).out <= observed[ip].out /\ Accounted(ip).inn <= observed[ip].inn
        /\ ~clashed =>
             /\ Accounted(ip).out = observed[ip].out /\ Accounted(ip).inn = observed[ip].inn
             /\ \A set \in {"listen", "called", "peers"} :
                    Cardinality(observed[ip][set]) <= SetCap => Accounted(ip)[set] = observed[ip][set]
             /\ profiles[ip] # NoRow => profiles[ip].kind = Classify(profiles[ip])
=============================================================================
