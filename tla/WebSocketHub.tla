---------------------------- MODULE WebSocketHub ----------------------------
(***************************************************************************)
(* The alert stream of the API process (src/src/api/routers/websocket.py): *)
(* one coroutine per connection, one per broadcast, a set of clients and an *)
(* asyncio.Lock, which is handed over in the order it was asked for.       *)
(***************************************************************************)
EXTENDS Naturals, Sequences, SequencesExt, FiniteSets

CONSTANTS
    Sockets,     \* connections
    Nobody,      \* no holder of the lock
    MaxClients,  \* _MAX_WS_CLIENTS
    MaxMessages  \* bound: broadcasts

VARIABLES
    mode,    \* whether JWT_SECRET and API_KEY are set
    holder,  \* who holds _lock across an await
    waiters, \* who has asked for _lock, first come first served
    conn,    \* where each connection's handler is
    cred,    \* what it presented
    clients, \* _clients
    called,  \* how many broadcasts have been called; a broadcast is its number
    skipped, \* broadcasts that found no client
    todo,    \* the clients a broadcast has still to send to
    failed,  \* the ones it could not send to
    got,     \* what each client received
    raced    \* who was let in while another was being let in (history)

hubVars == <<mode, holder, waiters, conn, cred, clients, called, skipped, todo, failed, got, raced>>

Messages == 1..MaxMessages

(* Whether the token, and the key, are valid. *)
Credentials == [token : BOOLEAN, key : BOOLEAN]

Init ==
    /\ mode \in [jwt : BOOLEAN, key : BOOLEAN]
    /\ holder = Nobody /\ waiters = <<>>
    /\ conn = [s \in Sockets |-> "new"] /\ cred = [s \in Sockets |-> [token |-> FALSE, key |-> FALSE]]
    /\ clients = {} /\ called = 0 /\ skipped = {}
    /\ todo = [m \in Messages |-> {}] /\ failed = [m \in Messages |-> {}]
    /\ got = [s \in Sockets |-> <<>>] /\ raced = {}

(* JWT, when enabled, is the only accepted credential. *)
Authorize(c) == IF mode.jwt THEN c.token ELSE mode.key => c.key

Ask(t)   == waiters' = Append(waiters, t)
MyTurn(t) == holder = Nobody /\ waiters # <<>> /\ Head(waiters) = t
Goto(s, label) == conn' = [conn EXCEPT ![s] = label]

Connect(s) ==
    /\ conn[s] = "new"
    /\ \E c \in Credentials :
        /\ cred' = [cred EXCEPT ![s] = c]
        /\ IF Authorize(c) THEN Goto(s, "checking") /\ Ask(s)
                           ELSE Goto(s, "gone") /\ UNCHANGED waiters
    /\ UNCHANGED <<mode, holder, clients, called, skipped, todo, failed, got, raced>>

(* Mutant of Full: one too many. *)
FullLate == Cardinality(clients) > MaxClients

Full == Cardinality(clients) >= MaxClients

(* Room for one more: the lock is released before accept() is awaited. *)
Admit(s) ==
    /\ conn[s] = "checking" /\ MyTurn(s) /\ ~Full
    /\ Goto(s, "accepting") /\ waiters' = Tail(waiters)
    /\ raced' = IF \E o \in Sockets : conn[o] \in {"accepting", "joining"} THEN raced \cup {s} ELSE raced
    /\ UNCHANGED <<mode, holder, cred, clients, called, skipped, todo, failed, got>>

(* A refusal awaits close() under the lock. *)
Refuse(s) ==
    /\ conn[s] = "checking" /\ MyTurn(s) /\ Full
    /\ Goto(s, "refusing") /\ waiters' = Tail(waiters) /\ holder' = s
    /\ UNCHANGED <<mode, cred, clients, called, skipped, todo, failed, got, raced>>

Refused(s) ==
    /\ conn[s] = "refusing"
    /\ Goto(s, "gone") /\ holder' = Nobody
    /\ UNCHANGED <<mode, waiters, cred, clients, called, skipped, todo, failed, got, raced>>

Accepted(s) ==
    /\ conn[s] = "accepting"
    /\ Goto(s, "joining") /\ Ask(s)
    /\ UNCHANGED <<mode, holder, cred, clients, called, skipped, todo, failed, got, raced>>

Join(s) ==
    /\ conn[s] = "joining" /\ MyTurn(s)
    /\ clients' = clients \cup {s} /\ waiters' = Tail(waiters) /\ Goto(s, "open")
    /\ UNCHANGED <<mode, holder, cred, called, skipped, todo, failed, got, raced>>

(* The receive loop learns that the client is gone. *)
Hangup(s) ==
    /\ conn[s] = "open"
    /\ Goto(s, "leaving") /\ Ask(s)
    /\ UNCHANGED <<mode, holder, cred, clients, called, skipped, todo, failed, got, raced>>

Leave(s) ==
    /\ conn[s] = "leaving" /\ MyTurn(s)
    /\ clients' = clients \ {s} /\ waiters' = Tail(waiters) /\ Goto(s, "gone")
    /\ UNCHANGED <<mode, holder, cred, called, skipped, todo, failed, got, raced>>

(* The emptiness test is made without the lock, the sends with it. *)
Broadcast ==
    /\ called < MaxMessages
    /\ called' = called + 1
    /\ IF clients = {} THEN skipped' = skipped \cup {called'} /\ UNCHANGED waiters
                       ELSE Ask(called') /\ UNCHANGED skipped
    /\ UNCHANGED <<mode, holder, conn, cred, clients, todo, failed, got, raced>>

(* Mutant of Begin: the sends are made without the lock. *)
BeginUnlocked(m) ==
    /\ MyTurn(m)
    /\ waiters' = Tail(waiters) /\ todo' = [todo EXCEPT ![m] = clients]
    /\ UNCHANGED <<mode, holder, conn, cred, clients, called, skipped, failed, got, raced>>

Begin(m) ==
    /\ MyTurn(m)
    /\ holder' = m /\ waiters' = Tail(waiters) /\ todo' = [todo EXCEPT ![m] = clients]
    /\ UNCHANGED <<mode, conn, cred, clients, called, skipped, failed, got, raced>>

Send(m, s) ==
    /\ s \in todo[m]
    /\ todo' = [todo EXCEPT ![m] = @ \ {s}]
    /\ \/ conn[s] = "open" /\ got' = [got EXCEPT ![s] = Append(@, m)] /\ UNCHANGED failed
       \/ failed' = [failed EXCEPT ![m] = @ \cup {s}] /\ UNCHANGED got
    /\ UNCHANGED <<mode, holder, waiters, conn, cred, clients, called, skipped, raced>>

End(m) ==
    /\ holder = m /\ todo[m] = {}
    /\ clients' = clients \ failed[m] /\ holder' = Nobody
    /\ UNCHANGED <<mode, waiters, conn, cred, called, skipped, todo, failed, got, raced>>

Next ==
    \/ \E s \in Sockets : \/ Connect(s) \/ Admit(s) \/ Refuse(s) \/ Refused(s) \/ Accepted(s)
                          \/ Join(s) \/ Hangup(s) \/ Leave(s)
    \/ Broadcast
    \/ \E m \in 1..called : Begin(m) \/ End(m) \/ \E s \in Sockets : Send(m, s)

Spec == Init /\ [][Next]_hubVars

-----------------------------------------------------------------------------

(***************************************************************************)
(* A client receives the alerts in the order broadcast_alert was called,   *)
(* none twice, and from its first one to its last none is missing, except  *)
(* one called at a moment when nobody was connected.                       *)
(***************************************************************************)
StreamIsGapless ==
    \A s \in Sockets :
        /\ \A i, j \in DOMAIN got[s] : i < j => got[s][i] < got[s][j]
        /\ got[s] # <<>> => \A m \in Head(got[s])..Last(got[s]) : m \in ToSet(got[s]) \cup skipped

(***************************************************************************)
(* Clients that were admitted while no other was between its check and its *)
(* registration never exceed the limit.  The others may: a limit on them,  *)
(* which the code does not have, is not promised.                          *)
(***************************************************************************)
LimitExceededOnlyByRace == Cardinality(clients \ raced) <= MaxClients

(* Whoever is sent alerts presented what the deployment asks for. *)
StreamIsAuthorized ==
    \A s \in clients : IF mode.jwt THEN cred[s].token ELSE mode.key => cred[s].key
=============================================================================
