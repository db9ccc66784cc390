------------------------------ MODULE Identity ------------------------------
(***************************************************************************)
(* Who may do what, request by request: the tenant, the user and the       *)
(* finished setup, each looked up through a 30-second cache kept by every  *)
(* instance of the API, and the guards that decide on them                 *)
(* (apps/api/src/common/tenancy/*.ts, common/guards/*.ts).  A write of one *)
(* of these rows clears the cache of the instance that wrote it.  The      *)
(* values of a lookup are those the guards tell apart.                     *)
(***************************************************************************)
EXTENDS Calls

CONSTANTS
    Instances,  \* processes of the API
    Routes,     \* kinds of request: [write, exempt, roles]
    TTL,        \* AUTH_CACHE_TTL_MS in units of time
    Latency,    \* bounds how long a request is under way
    Horizon,    \* bound on time
    Nobody

ASSUME IdentityAssumption ==
    TTL \in Nat \ {0} /\ Latency \in Nat /\ Horizon \in Nat /\ Nobody \notin Instances

VARIABLES
    clock,
    row,        \* the rows behind the lookups
    lastTrue,   \* when each value was last the row's
    cache,      \* cache[i][k]: tenantBySubdomain, authUserByUid, setupCompleteByTenant
    wroteOn,    \* the instance of the latest write of a row
    served,     \* the values the latest decision was made on
    servedOn,   \* its instance, and when the request came
    turn,       \* flips with every decision
    refused     \* requests were refused for the setup although it was done when they came

idVars == <<clock, row, lastTrue, cache, wroteOn, served, servedOn, turn, refused>>

Keys == {"tenant", "user", "setup"}
Values == [tenant |-> {"ACTIVE", "READ_ONLY", "SUSPENDED"},
           user |-> {"ADMIN", "STAFF", "INACTIVE"},
           setup |-> {"OPEN", "DONE"}]
After == [tenant |-> "user", user |-> "setup", setup |-> "decide"]
Slack == TTL - 1 + 2 * Latency

IdInit ==
    /\ clock = 0
    /\ row = [tenant |-> "ACTIVE", user |-> "ADMIN", setup |-> "OPEN"]
    /\ lastTrue = [k \in Keys |-> [v \in Values[k] |-> IF v = row[k] THEN 0 ELSE -1 - Slack]]
    /\ cache = [i \in Instances |-> [k \in Keys |-> Nobody]]
    /\ wroteOn = [k \in Keys |-> Nobody]
    /\ served = row /\ servedOn = Nobody /\ turn = TRUE /\ refused = FALSE

(* Mutant of Hit: an entry never runs out. *)
HitForever(i, k) == cache[i][k] # Nobody

(* TtlCache.get(): an entry that has run out is none. *)
Hit(i, k) == cache[i][k] # Nobody /\ clock < (IF cache[i][k] = Nobody THEN 0 ELSE cache[i][k].until)

(* TtlCache.set(), of a setup only once it is finished. *)
CacheSet(i, k, v) ==
    cache' = IF k = "setup" /\ v = "OPEN" THEN cache
             ELSE [cache EXCEPT ![i][k] = [val |-> v, until |-> clock + TTL]]

(* invalidateOnIdentityWrites(), and the eviction of a full cache. *)
CacheClear(i, k) == cache' = [cache EXCEPT ![i][k] = Nobody]
Evict(i, k) ==
    /\ cache[i][k] # Nobody /\ CacheClear(i, k)
    /\ UNCHANGED <<callVars, clock, row, lastTrue, wroteOn, served, servedOn, turn, refused>>

Elapse ==
    /\ clock < Horizon /\ clock' = clock + 1
    /\ \A h \in Running : "since" \in DOMAIN calls[h] => clock < calls[h].since + Latency
    /\ lastTrue' = [k \in Keys |-> [lastTrue[k] EXCEPT ![row[k]] = clock + 1]]
    /\ UNCHANGED <<callVars, row, cache, wroteOn, served, servedOn, turn, refused>>

----------------------------------------------------------------------------
(* A request: TenantResolutionMiddleware, then JwtAuthGuard's two lookups.  *)
(* A miss reads the row and fills the cache when the answer comes.          *)
Arrive(h, i, route) ==
    /\ Begin(h, [pc |-> "look", key |-> "tenant", on |-> i, route |-> route,
                 since |-> clock, vals |-> [k \in Keys |-> Nobody]])
    /\ UNCHANGED idVars
GotValue(h, v) ==
    LET c == calls[h] IN
    Continue(h, [pc |-> IF c.key = "setup" THEN "decide" ELSE "look", key |-> After[c.key],
                 on |-> c.on, route |-> c.route, since |-> c.since,
                 vals |-> [c.vals EXCEPT ![c.key] = v]])
LookUp(h) ==
    LET c == calls[h] IN
    /\ c.pc = "look"
    /\ IF Hit(c.on, c.key) THEN GotValue(h, cache[c.on][c.key].val)
       ELSE Continue(h, [pc |-> "fill", key |-> c.key, on |-> c.on, route |-> c.route,
                         since |-> c.since, vals |-> c.vals, val |-> row[c.key]])
    /\ UNCHANGED idVars
Fill(h) ==
    /\ calls[h].pc = "fill"
    /\ GotValue(h, calls[h].val) /\ CacheSet(calls[h].on, calls[h].key, calls[h].val)
    /\ UNCHANGED <<clock, row, lastTrue, wroteOn, served, servedOn, turn, refused>>

(* The decision: a suspended tenant takes nothing, a read-only one no       *)
(* write; the user must be active; an unfinished setup opens only the       *)
(* exempt routes; the role must be one of the route's.                      *)
Allowed(route, vals) ==
    /\ vals.tenant # "SUSPENDED"
    /\ vals.tenant = "READ_ONLY" => ~route.write
    /\ vals.user # "INACTIVE"
    /\ vals.setup = "DONE" \/ route.exempt
    /\ vals.user \in route.roles
Decide(h) ==
    LET c == calls[h] IN
    /\ c.pc = "decide"
    /\ IF Allowed(c.route, c.vals)
       THEN /\ served' = c.vals /\ servedOn' = c.on /\ turn' = ~turn
            /\ UNCHANGED refused
       ELSE /\ refused' = (refused \/ (c.vals.setup = "OPEN" /\ lastTrue["setup"]["OPEN"] < c.since))
            /\ UNCHANGED <<served, servedOn, turn>>
    /\ Finish(h)
    /\ UNCHANGED <<clock, row, lastTrue, cache, wroteOn>>

----------------------------------------------------------------------------
(* A row is written on an instance and the cache cleared after the          *)
(* statement: after the commit, or before it in a $transaction.             *)
CommitRow(i, k, v) ==
    /\ row' = [row EXCEPT ![k] = v]
    /\ lastTrue' = [lastTrue EXCEPT ![k][v] = clock]
    /\ wroteOn' = [wroteOn EXCEPT ![k] = i]
    /\ UNCHANGED <<clock, served, servedOn, turn, refused>>
Writable(k, v) == v # row[k] /\ (k = "setup" => v = "DONE")
WriteCommit(h, i, k, v) ==
    /\ Writable(k, v)
    /\ Begin(h, [pc |-> "clear", on |-> i, key |-> k]) /\ CommitRow(i, k, v) /\ UNCHANGED cache
WriteClear(h) ==
    /\ calls[h].pc = "clear"
    /\ CacheClear(calls[h].on, calls[h].key) /\ Finish(h)
    /\ UNCHANGED <<clock, row, lastTrue, wroteOn, served, servedOn, turn, refused>>
TransactionClear(h, i, k, v) ==
    /\ Writable(k, v)
    /\ Begin(h, [pc |-> "commit", on |-> i, key |-> k, val |-> v]) /\ CacheClear(i, k)
    /\ UNCHANGED <<clock, row, lastTrue, wroteOn, served, servedOn, turn, refused>>
TransactionCommit(h) ==
    /\ calls[h].pc = "commit"
    /\ CommitRow(calls[h].on, calls[h].key, calls[h].val) /\ Finish(h) /\ UNCHANGED cache

IdNext ==
    \/ Elapse
    \/ \E i \in Instances, k \in Keys : Evict(i, k)
    \/ \E h \in Handlers :
         \/ \E i \in Instances, route \in Routes : Arrive(h, i, route)
         \/ LookUp(h) \/ Fill(h) \/ Decide(h) \/ WriteClear(h) \/ TransactionCommit(h)
         \/ \E i \in Instances, k \in Keys : \E v \in Values[k] :
              WriteCommit(h, i, k, v) \/ TransactionClear(h, i, k, v)
=============================================================================
