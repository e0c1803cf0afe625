---------------------------- MODULE OutboundTrust ----------------------------
(***************************************************************************)
(* Flows to trusted services are not scored (src/src/pipeline.py): the     *)
(* destination is looked up in reverse DNS, and the name, or the failure   *)
(* to get one in time, is kept for an hour.  Two threads complete flows:   *)
(* the flusher of the dispatcher and main, at shutdown.                    *)
(***************************************************************************)
EXTENDS Integers, FiniteSets, FiniteSetsExt

CONSTANTS
    FlowThreads, Destinations,
    DnsTtl, DnsTimeout,   \* _DNS_CACHE_TTL, the timeout of result(), in ticks
    MaxHung,              \* max_workers of _dns_executor
    DnsMaxTime            \* bound: ticks

VARIABLES
    dnsTime,
    names,     \* whether each destination now resolves to a trusted name
    dnsCache,  \* _dns_cache: destination -> answer and expiry
    asking,    \* per thread: what it waits for
    hung,      \* lookups that outlived their caller and still hold a thread of the pool
    trustedAt, \* when each destination last resolved to a trusted name (history)
    otherAt,   \* when it last failed, or resolved to another (history)
    flowVerdict    \* the last verdict of each thread

trustVars == <<dnsTime, names, dnsCache, asking, hung, trustedAt, otherAt, flowVerdict>>

Never == -(DnsTtl + 2 * DnsTimeout + 1)
NotAsking == [to |-> "nobody", since |-> 0]
NoVerdict == [to |-> "nobody"]

Init ==
    /\ dnsTime = 0 /\ names \in [Destinations -> BOOLEAN]
    /\ dnsCache = [d \in Destinations |-> [trusted |-> FALSE, until |-> 0]]
    /\ asking = [t \in FlowThreads |-> NotAsking] /\ hung = 0
    /\ trustedAt = [d \in Destinations |-> Never] /\ otherAt = [d \in Destinations |-> Never]
    /\ flowVerdict = [t \in FlowThreads |-> NoVerdict]

Cached(d) == dnsTime < dnsCache[d].until

(* A cached answer is used; otherwise the lookup is submitted to the pool, outside of the lock. *)
Resolve(t, d) ==
    /\ asking[t] = NotAsking
    /\ IF Cached(d)
       THEN flowVerdict' = [flowVerdict EXCEPT ![t] = [to |-> d, trusted |-> dnsCache[d].trusted, at |-> dnsTime]] /\ UNCHANGED asking
       ELSE asking' = [asking EXCEPT ![t] = [to |-> d, since |-> dnsTime]] /\ UNCHANGED flowVerdict
    /\ UNCHANGED <<dnsTime, names, dnsCache, hung, trustedAt, otherAt>>

(* now was taken before the lookup. *)
Expiry(t) == asking[t].since + DnsTtl

Conclude(t, trusted) ==
    LET d == asking[t].to
    IN  /\ dnsCache' = [dnsCache EXCEPT ![d] = [trusted |-> trusted, until |-> Expiry(t)]]
        /\ flowVerdict' = [flowVerdict EXCEPT ![t] = [to |-> d, trusted |-> trusted, at |-> dnsTime]]
        /\ asking' = [asking EXCEPT ![t] = NotAsking]
        /\ trustedAt' = IF trusted THEN [trustedAt EXCEPT ![d] = dnsTime] ELSE trustedAt
        /\ otherAt' = IF trusted THEN otherAt ELSE [otherAt EXCEPT ![d] = dnsTime]
        /\ UNCHANGED <<dnsTime, names>>

Asking(t) == asking[t] # NotAsking
Running(t) == Asking(t) /\ hung + Cardinality({s \in FlowThreads : Asking(s)}) <= MaxHung

(* gethostbyaddr returns a name, or raises. *)
Resolved(t) == Running(t) /\ (\E trusted \in {names[asking[t].to], FALSE} : Conclude(t, trusted)) /\ UNCHANGED hung

(* result(timeout): the lookup goes on in the pool, or never left its queue. *)
TimesOut(t) ==
    /\ Asking(t) /\ dnsTime - asking[t].since >= DnsTimeout /\ Conclude(t, FALSE)
    /\ hung' \in {h \in {hung, hung + 1} : h <= MaxHung}

(* A lookup nobody waits for ends: its answer goes nowhere. *)
Unhang == hung > 0 /\ hung' = hung - 1 /\ UNCHANGED <<dnsTime, names, dnsCache, asking, trustedAt, otherAt, flowVerdict>>

(* Names change. *)
Rename(d) ==
    /\ names' = [names EXCEPT ![d] = ~@]
    /\ UNCHANGED <<dnsTime, dnsCache, asking, hung, trustedAt, otherAt, flowVerdict>>

(* A caller never waits longer than its timeout. *)
Tick ==
    /\ dnsTime < DnsMaxTime /\ dnsTime' = dnsTime + 1
    /\ \A t \in FlowThreads : Asking(t) => dnsTime - asking[t].since < DnsTimeout
    /\ flowVerdict' = [t \in FlowThreads |-> NoVerdict]
    /\ UNCHANGED <<names, dnsCache, asking, hung, trustedAt, otherAt>>

Next ==
    \/ \E t \in FlowThreads : (\E d \in Destinations : Resolve(t, d)) \/ Resolved(t) \/ TimesOut(t)
    \/ Unhang \/ Tick \/ \E d \in Destinations : Rename(d)

Spec == Init /\ [][Next]_trustVars

-----------------------------------------------------------------------------

(***************************************************************************)
(* A flow is left unscored only if its destination had a trusted name      *)
(* within the hour, and scored as an untrusted one only if within the hour *)
(* a lookup failed, was late or gave another name: whichever thread wrote  *)
(* the cache last.                                                         *)
(***************************************************************************)
TrustIsRecent ==
    \A t \in FlowThreads : flowVerdict[t] # NoVerdict =>
        LET v == flowVerdict[t]
        IN  v.at - (IF v.trusted THEN trustedAt[v.to] ELSE otherAt[v.to]) < DnsTtl
=============================================================================
