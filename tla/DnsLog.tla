------------------------------- MODULE DnsLog -------------------------------
(***************************************************************************)
(* The log of DNS queries (src/src/enrichment/dns_logger.py): an ordered   *)
(* dictionary of lists that all capture workers change without a lock.     *)
(* Single operations on the dictionary and on a list are atomic.  An       *)
(* exception leaves dispatch: the rest of it is skipped for that packet.   *)
(***************************************************************************)
EXTENDS Integers, Sequences, SequencesExt, FiniteSets

CONSTANTS
    DnsWorkers, DnsClients,   \* capture workers, sources of queries
    MaxIps, MaxPerIp,         \* _MAX_IPS, _MAX_PER_IP
    MaxQueries                \* bound: queries

VARIABLES
    dnsLog,   \* _dns_log: entries of an address and the list it refers to, oldest first
    lists,    \* the lists, by identity; a query is its number
    queries,  \* the sources of the queries so far
    doing,    \* per worker: step, query, list in hand
    aborted,  \* queries whose packet was given up with a KeyError (history)
    crowded   \* two workers have logged queries at once (history)

dnsVars == <<dnsLog, lists, queries, doing, aborted, crowded>>

Free == [at |-> "idle", q |-> 0, list |-> 0]

Init ==
    /\ dnsLog = <<>> /\ lists = <<>> /\ queries = <<>> /\ doing = [w \in DnsWorkers |-> Free]
    /\ aborted = {} /\ crowded = FALSE

Logged == {dnsLog[i].ip : i \in DOMAIN dnsLog}
At(ip) == CHOOSE i \in DOMAIN dnsLog : dnsLog[i].ip = ip
Source(w) == queries[doing[w].q]
Without(ip) == SelectSeq(dnsLog, LAMBDA e : e.ip # ip)

(* What comes next for an address, as the dictionary is now. *)
Route(ip) == IF ip \in Logged THEN "move" ELSE IF Len(dnsLog) >= MaxIps THEN "evict" ELSE "append"

Look(w, ip) ==
    /\ doing[w] = Free /\ Len(queries) < MaxQueries /\ queries' = Append(queries, ip)
    /\ doing' = [doing EXCEPT ![w] = [Free EXCEPT !.at = Route(ip), !.q = Len(queries) + 1]]
    /\ crowded' = (crowded \/ \E v \in DnsWorkers : doing[v] # Free)
    /\ UNCHANGED <<dnsLog, lists, aborted>>

Step(w, from, ok, log) ==
    /\ doing[w].at = from
    /\ IF ok THEN dnsLog' = log /\ doing' = [doing EXCEPT ![w].at = "append"] /\ UNCHANGED aborted
       ELSE doing' = [doing EXCEPT ![w] = Free] /\ aborted' = aborted \cup {doing[w].q} /\ UNCHANGED dnsLog
    /\ UNCHANGED <<lists, queries, crowded>>

(* move_to_end: the address may be gone by now. *)
MoveToEnd(w) == Step(w, "move", Source(w) \in Logged, Append(Without(Source(w)), dnsLog[At(Source(w))]))

(* popitem(last=False): the dictionary may be empty by now. *)
Evict(w) == Step(w, "evict", dnsLog # <<>>, Tail(dnsLog))

(* The list of the address, or a new one, gets the query. *)
AppendQuery(w) ==
    /\ doing[w].at = "append"
    /\ LET id == IF Source(w) \in Logged THEN dnsLog[At(Source(w))].list ELSE Len(lists) + 1
       IN  /\ lists' = IF id <= Len(lists) THEN [lists EXCEPT ![id] = Append(@, doing[w].q)] ELSE Append(lists, <<doing[w].q>>)
           /\ doing' = [doing EXCEPT ![w].at = "store", ![w].list = id]
    /\ UNCHANGED <<dnsLog, queries, aborted, crowded>>

(* One that is too long is cut, and the list is stored: at the end if the address is new or gone. *)
StoreList(w) ==
    LET long == Len(lists[doing[w].list]) > MaxPerIp
        cut  == SubSeq(lists[doing[w].list], Len(lists[doing[w].list]) - MaxPerIp + 1, Len(lists[doing[w].list]))
        id   == IF long THEN Len(lists) + 1 ELSE doing[w].list
    IN  /\ doing[w].at = "store" /\ doing' = [doing EXCEPT ![w] = Free]
        /\ lists' = IF long THEN Append(lists, cut) ELSE lists
        /\ dnsLog' = IF Source(w) \in Logged THEN [dnsLog EXCEPT ![At(Source(w))].list = id]
                     ELSE Append(dnsLog, [ip |-> Source(w), list |-> id])
        /\ UNCHANGED <<queries, aborted, crowded>>

Next == \E w \in DnsWorkers :
    \/ \E ip \in DnsClients : Look(w, ip)
    \/ MoveToEnd(w) \/ Evict(w) \/ AppendQuery(w) \/ StoreList(w)

Spec == Init /\ [][Next]_dnsVars

-----------------------------------------------------------------------------

(* get_all_logs *)
Log(ip) == lists[dnsLog[At(ip)].list]
QueriesOf(ip) == SelectSeq([i \in DOMAIN queries |-> i], LAMBDA i : queries[i] = ip)
Resting == \A w \in DnsWorkers : doing[w] = Free

(***************************************************************************)
(* Workers that log one after the other give up no packet, keep the limit  *)
(* of addresses, and keep the latest queries of each of the addresses that *)
(* asked last.  When they overlap, a packet may be given up and a query be *)
(* missing, but the limit is exceeded by one address a worker at most, and *)
(* no query is ever shown twice or for another address.                    *)
(***************************************************************************)
LoggedUnlessCrowded ==
    /\ Len(dnsLog) <= MaxIps + Cardinality(DnsWorkers) - 1
    /\ Cardinality(Logged) = Len(dnsLog)
    /\ \A ip \in Logged : IsInjective(Log(ip)) /\ \A i \in DOMAIN Log(ip) : queries[Log(ip)[i]] = ip
    /\ ~crowded => aborted = {} /\ Len(dnsLog) <= MaxIps
    /\ ~crowded /\ Resting => \A ip \in Logged :
           Log(ip) # <<>> /\ IsSuffix(Log(ip), QueriesOf(ip)) /\ Len(Log(ip)) <= MaxPerIp
    /\ ~crowded /\ Resting => \A ip \in ToSet(queries) \ Logged :
           Len(dnsLog) = MaxIps /\ \A kept \in Logged : Last(QueriesOf(ip)) < Last(QueriesOf(kept))
=============================================================================
