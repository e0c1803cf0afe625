------------------------------ MODULE ApiGate ------------------------------
(***************************************************************************)
(* What every HTTP request of the API passes before its handler runs: the  *)
(* rate limiter (src/src/api/rate_limit.py), the API key (api/main.py) and  *)
(* the role of a JWT (api/auth.py), with the accounts the tokens are issued *)
(* for (api/routers/auth.py).  No lock section of the limiter awaits, so a  *)
(* request passes it in one step.  The event loop's clock is time.time().   *)
(***************************************************************************)
EXTENDS Integers, Sequences, SequencesExt, FiniteSets

CONSTANTS
    Addresses,    \* client addresses
    Users,        \* usernames
    FirstAdmin,   \* the account the deployment starts with
    Quota,        \* RATE_LIMIT_REQUESTS
    QuotaWindow,  \* RATE_LIMIT_WINDOW
    TokenLife,    \* JWT_EXPIRE_MINUTES
    GateMaxTime,  \* bound: the clock
    MaxTokens     \* bound: logins

VARIABLES
    mode,     \* whether JWT_SECRET and API_KEY are set; neither needs AUTH_DISABLED
    clock,
    apiHits,  \* _hits: when each address made requests
    passed,   \* when the limiter let a request through (history)
    users,    \* the users table: role of each account, "none" without a row
    held,     \* who was an account with which role at which time (history)
    tokens,   \* the tokens issued
    served    \* the last request that reached its handler, and how

gateVars == <<mode, clock, apiHits, passed, users, held, tokens, served>>

Roles   == {"admin", "analyst", "viewer"}
NoToken == [sub |-> "", role |-> "none", exp |-> 0]
Routes  == {"probe", "login", "users", "read", "write", "destroy"}

(* The dependencies of the routers; a probe and the login have none. *)
AllowedRoles(route) ==
    CASE route \in {"users", "destroy"} -> {"admin"}
      [] route = "write"                -> {"admin", "analyst"}
      [] route = "read"                 -> Roles
      [] OTHER                          -> Roles \cup {"none"}

(* Mutant of HasRole: the expiry is not looked at. *)
HasRoleForever(route, t) == (mode.jwt /\ route \notin {"probe", "login"}) => t.role \in AllowedRoles(route)

KeyRequired(route) ==
    /\ mode.key /\ route \notin {"probe", "login"}
    /\ route = "users" => ~mode.jwt

HasRole(route, t) ==
    (mode.jwt /\ route \notin {"probe", "login"}) => clock < t.exp /\ t.role \in AllowedRoles(route)

(* The requests of the window that ends now. *)
InWindow(times) == SelectSeq(times, LAMBDA t : t > clock - QuotaWindow)

Init ==
    /\ mode \in [jwt : BOOLEAN, key : BOOLEAN]
    /\ clock = 0 /\ tokens = {}
    /\ apiHits = [a \in Addresses |-> <<>>] /\ passed = apiHits
    /\ users = [u \in Users |-> IF u = FirstAdmin THEN "admin" ELSE "none"]
    /\ held = {<<FirstAdmin, "admin", 0>>}
    /\ served = [route |-> "probe", token |-> NoToken, key |-> FALSE, at |-> 0]

Tick ==
    /\ clock < GateMaxTime /\ clock' = clock + 1
    /\ held' = held \cup {<<u, users[u], clock'>> : u \in {v \in Users : users[v] # "none"}}
    /\ UNCHANGED <<mode, apiHits, passed, users, tokens, served>>

(* RateLimitMiddleware.dispatch: a refused request leaves its address pruned. *)
Limit(a, admitted) ==
    /\ admitted = (Len(InWindow(apiHits[a])) < Quota)
    /\ apiHits' = [apiHits EXCEPT ![a] = IF admitted THEN Append(InWindow(@), clock) ELSE InWindow(@)]
    /\ passed'  = [passed EXCEPT ![a] = IF admitted THEN Append(InWindow(@), clock) ELSE InWindow(@)]

Refuse(a) == Limit(a, FALSE) /\ UNCHANGED <<mode, clock, users, held, tokens, served>>

(* The handlers behind the gate that change what the gate reads. *)
Effect(route) ==
    \/ route \notin {"login", "users"} /\ UNCHANGED <<users, held, tokens>>
    \/ /\ route = "login" /\ mode.jwt /\ Cardinality(tokens) < MaxTokens
       /\ \E u \in Users : /\ users[u] # "none"
                           /\ tokens' = tokens \cup {[sub |-> u, role |-> users[u], exp |-> clock + TokenLife]}
       /\ UNCHANGED <<users, held>>
    \/ /\ route = "users"
       /\ \E u \in Users :
            \/ /\ users[u] = "none"
               /\ \E r \in Roles : /\ users' = [users EXCEPT ![u] = r]
                                   /\ held' = held \cup {<<u, r, clock>>}
            \/ users[u] # "none" /\ users' = [users EXCEPT ![u] = "none"] /\ UNCHANGED held
       /\ UNCHANGED tokens

(* A request that passes all three; a probe is not counted by the limiter. *)
Serve(a) ==
    /\ \E route \in Routes, t \in tokens \cup {NoToken}, key \in BOOLEAN :
        /\ KeyRequired(route) => key
        /\ HasRole(route, t)
        /\ IF route = "probe" THEN UNCHANGED <<apiHits, passed>> ELSE Limit(a, TRUE)
        /\ Effect(route)
        /\ served' = [route |-> route, token |-> t, key |-> key, at |-> clock]
    /\ UNCHANGED <<mode, clock>>

(* The limiter counts a request before the key or the role refuses it. *)
Deny(a) ==
    /\ \E route \in Routes \ {"probe", "login"}, t \in tokens \cup {NoToken}, key \in BOOLEAN :
        /\ (KeyRequired(route) /\ ~key) \/ ~HasRole(route, t)
        /\ Limit(a, TRUE)
    /\ UNCHANGED <<mode, clock, users, held, tokens, served>>

(* No hit, or none since the cutoff. *)
Inactive(times) == times = <<>> \/ Last(times) < clock - QuotaWindow

PruneInactive ==
    /\ apiHits' = [a \in Addresses |-> IF Inactive(apiHits[a]) THEN <<>> ELSE apiHits[a]]
    /\ UNCHANGED <<mode, clock, passed, users, held, tokens, served>>

Next == Tick \/ PruneInactive \/ \E a \in Addresses : Refuse(a) \/ Serve(a) \/ Deny(a)

Spec == Init /\ [][Next]_gateVars

-----------------------------------------------------------------------------

(***************************************************************************)
(* The rate limiter never lets more than the quota through in any window,  *)
(* whatever the cleanup task removes in between.                           *)
(***************************************************************************)
QuotaHolds == \A a \in Addresses : Len(InWindow(passed[a])) <= Quota

(***************************************************************************)
(* A request reaches its handler only with the key where the deployment    *)
(* has no better guard, or with a role its route allows; and with a role   *)
(* only if the account had it within the life of a token: an account that  *)
(* was deleted is shut out at the latest when its last token expires.      *)
(***************************************************************************)
ServedIsAllowed ==
    served.route \notin {"probe", "login"} =>
        /\ mode.key /\ ~mode.jwt => served.key
        /\ mode.jwt => \E h \in held : /\ h[1] = served.token.sub /\ h[2] \in AllowedRoles(served.route)
                                         /\ h[3] > served.at - TokenLife
=============================================================================
