---------------------------- MODULE HostFeatures ----------------------------
(***************************************************************************)
(* Host-level features (src/src/features/host_extractor.py): per source    *)
(* address, five deques over its last packets and counters over all of     *)
(* them; at the limit of tracked addresses the least recently active one   *)
(* goes.  A mean or a rate is a pair <<sum, count>>; variances are left    *)
(* out, and the rate window is counted in the same unit as time.           *)
(***************************************************************************)
EXTENDS Integers, Sequences, SequencesExt, FiniteSets, FiniteSetsExt

CONSTANTS
    SourceIps,      \* source addresses
    HostPackets,    \* packets: size, proto, port, payload (bytes), entropy
    NoPort,         \* the port of a packet that is neither TCP nor UDP
    CommonPorts,    \* COMMON_PORTS
    HostWindow,     \* HOST_WINDOW_SIZE
    MaxTracked,     \* MAX_TRACKED_IPS
    BurstSpan,      \* the last 5 seconds
    HostMaxTime,    \* bound: clock
    MaxHostPackets  \* bound: packets

VARIABLES
    hostClock,   \* timestamps are taken before the lock: see Packet
    tracked,     \* _data: address -> HostHistory
    heard,       \* the packets of an address since it was last evicted (history)
    vector       \* what extract_features returned last

hostVars == <<hostClock, tracked, heard, vector>>

EmptyHistory == [sizes |-> <<>>, payloads |-> <<>>, times |-> <<>>, entropies |-> <<>>, ports |-> <<>>,
                 total |-> 0, protos |-> [p \in {"tcp", "udp", "icmp"} |-> 0]]
NoVector == [ip |-> "none"]

Init ==
    /\ hostClock = 1 /\ tracked = [ip \in {} |-> EmptyHistory]
    /\ heard = [ip \in SourceIps |-> <<>>] /\ vector = NoVector

-----------------------------------------------------------------------------

(* A deque of at most HOST_WINDOW_SIZE elements. *)
Slide(s, x) == IF Len(s) >= HostWindow THEN Append(Tail(s), x) ELSE Append(s, x)

Added(h, p, ts) ==
    [sizes |-> Slide(h.sizes, p.size), times |-> Slide(h.times, ts), ports |-> Slide(h.ports, p.port),
     payloads |-> Slide(h.payloads, p.payload), entropies |-> Slide(h.entropies, p.entropy),
     total |-> h.total + 1,
     protos |-> [q \in DOMAIN h.protos |-> h.protos[q] + (IF p.proto = q THEN 1 ELSE 0)]]

(* _evict_least_active: any of the addresses whose last packet is the oldest. *)
LeastActive ==
    {ip \in DOMAIN tracked : \A x \in DOMAIN tracked : Last(tracked[ip].times) <= Last(tracked[x].times)}
Evicted(ip) ==
    IF Cardinality(DOMAIN tracked) >= MaxTracked /\ ip \notin DOMAIN tracked
    THEN {{victim} : victim \in LeastActive} ELSE {{}}

(* process_packet *)
Packet(ip, p, ts, gone) ==
    /\ gone \in Evicted(ip)
    /\ LET known == [x \in (DOMAIN tracked \cup {ip}) \ gone |->
                        IF x \in DOMAIN tracked THEN tracked[x] ELSE EmptyHistory]
       IN  tracked' = [known EXCEPT ![ip] = Added(@, p, ts)]
    /\ heard' = [x \in SourceIps |-> IF x = ip THEN Append(heard[x], [pkt |-> p, at |-> ts])
                                     ELSE IF x \in gone THEN <<>> ELSE heard[x]]
    /\ hostClock' = IF ts > hostClock THEN ts ELSE hostClock
    /\ UNCHANGED vector

-----------------------------------------------------------------------------
(* extract_features and _compute *)

Sum(s) == FoldSeq(LAMBDA x, acc : x + acc, 0, s)
Mean(s) == <<Sum(s), Len(s)>>
Positive(s) == SelectSeq(s, LAMBDA x : x > 0)

Computed(ip, now) ==
    LET h     == tracked[ip]
        span  == IF now > h.times[1] THEN now - h.times[1] ELSE 0   \* at least 1 ms in the code
        ports == SelectSeq(h.ports, LAMBDA q : q # NoPort)
    IN  [ip |-> ip, packets |-> Len(h.sizes), bytes |-> Sum(h.sizes), duration |-> span,
         iat |-> <<Last(h.times) - h.times[1], Len(h.times) - 1>>,
         burst |-> Len(SelectSeq(h.times, LAMBDA t : t > now - BurstSpan)),
         ratio |-> [q \in DOMAIN h.protos |-> <<h.protos[q], h.total>>],
         ports |-> Cardinality(ToSet(ports)),
         uncommon |-> <<Len(SelectSeq(ports, LAMBDA q : q \notin CommonPorts)), Len(ports)>>,
         payload |-> Mean(Positive(h.payloads)), entropy |-> Mean(Positive(h.entropies))]

(* Fewer than three packets give no vector. *)
Extract(ip, now) ==
    /\ vector' = IF ip \notin DOMAIN tracked \/ tracked[ip].total < 3 THEN NoVector ELSE Computed(ip, now)
    /\ hostClock' = now
    /\ UNCHANGED <<tracked, heard>>

Heard == FoldSet(LAMBDA ip, n : n + Len(heard[ip]), 0, SourceIps)
Next ==
    \/ /\ Heard < MaxHostPackets
       /\ \E ip \in SourceIps, p \in HostPackets, ts \in (hostClock - 1)..HostMaxTime,
             gone \in {{}} \cup {{x} : x \in SourceIps} :
            ts > 0 /\ Packet(ip, p, ts, gone)
    \/ \E ip \in SourceIps : Extract(ip, hostClock)
    \/ hostClock < HostMaxTime /\ \E ip \in SourceIps : Extract(ip, hostClock + 1)

Spec == Init /\ [][Next]_hostVars

-----------------------------------------------------------------------------

Recent(ip) == LET n == Len(heard[ip]) IN SubSeq(heard[ip], IF n > HostWindow THEN n - HostWindow + 1 ELSE 1, n)

(***************************************************************************)
(* An address is described by its last packets since it was last evicted,  *)
(* and by nothing older: the five deques hold the same packets in the same *)
(* order, and the protocol shares count all of its packets.                *)
(***************************************************************************)
HostFeaturesMatchPackets ==
    /\ Cardinality(DOMAIN tracked) <= MaxTracked
    /\ \A ip \in SourceIps :
         /\ ip \in DOMAIN tracked <=> heard[ip] # <<>>
         /\ ip \in DOMAIN tracked =>
              LET h == tracked[ip]  r == Recent(ip)
              IN  /\ h.times = [i \in DOMAIN r |-> r[i].at] /\ h.sizes = [i \in DOMAIN r |-> r[i].pkt.size]
                  /\ h.ports = [i \in DOMAIN r |-> r[i].pkt.port]
                  /\ h.payloads = [i \in DOMAIN r |-> r[i].pkt.payload]
                  /\ Len(h.entropies) = Len(r) /\ h.total = Len(heard[ip])
                  /\ Sum([i \in DOMAIN r |-> IF r[i].pkt.proto \in DOMAIN h.protos THEN 1 ELSE 0])
                       <= h.protos["tcp"] + h.protos["udp"] + h.protos["icmp"]
    /\ vector # NoVector => vector.burst <= HostWindow /\ vector.packets <= HostWindow
=============================================================================
