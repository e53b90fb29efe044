----------------------------- MODULE TenantPolicy -----------------------------
(***************************************************************************)
(* Who a caller is and what it may do: vals.auth, vals.allowlist and the   *)
(* places of app.BenchmarkServiceApp and vals.app that ask them.           *)
(*                                                                         *)
(* A request names an access key.  One time-limited cache remembers the    *)
(* tenant Descope gave for a key, another the policy the catalog gave for  *)
(* a tenant; without a catalog an allowlist loaded once takes its place.   *)
(* The policy a request was authorised with is its snapshot, a context     *)
(* variable that every later question of the request reads first.          *)
(*                                                                         *)
(* The event loop runs what lies between two awaits in one step.  Descope  *)
(* and the catalog change under the process, and an answer of either may   *)
(* arrive later than it was given: a fetch has a deadline, an exchange,    *)
(* which runs in a thread, has none.  Time is counted; asyncio.timeout is  *)
(* prompt.                                                                 *)
(***************************************************************************)
EXTENDS Integers, FiniteSets

CONSTANTS
  Requests, Keys, Tenants,
  TenantOf,       \* the tenant an access key is scoped to until it is revoked
  Policies,       \* TenantConfig: records of access (to the dataset), quota, trial
  None,
  AuthTTL,        \* DEFAULT_AUTH_CACHE_TTL_SECONDS
  PolicyTTL,      \* DEFAULT_ALLOWLIST_CACHE_TTL_SECONDS
  FetchTimeout,   \* DEFAULT_CATALOG_REQUEST_TIMEOUT_SECONDS
  MaxAttempts,    \* attempts of one fetch (stop_after_attempt)
  Internal,       \* requests on routes a trial tenant may not use
  MaxTime,        \* bound: the clock
  MaxChanges      \* bound: changes of a tenant's policy

ASSUME PolicyAssumption ==
  /\ Keys # {}
  /\ TenantOf \in [Keys -> Tenants]
  /\ Policies \subseteq [access : BOOLEAN, quota : BOOLEAN, trial : BOOLEAN]
  /\ None \notin Policies /\ None \notin Tenants
  /\ AuthTTL \in Nat \ {0} /\ PolicyTTL \in Nat \ {0} /\ FetchTimeout \in Nat \ {0}
  /\ MaxAttempts \in Nat \ {0}
  /\ Internal \subseteq Requests
  /\ MaxTime \in Nat /\ MaxChanges \in Nat

\* idle; exchange, fetch: awaits of resolve_descope_tenant; open, metering,
\* answering: inside the handler, before it asks for the dataset's scope, for the
\* quota and for the trial projection.
Phases == {"idle", "exchange", "fetch", "open", "metering", "answering", "done"}
Verdicts == {"none", "unauthorized", "forbidden", "refused", "full", "sanitized", "cancelled"}
Never == - 1

VARIABLES
  now,
  source,      \* where policies come from: "catalog" or "allowlist"
  policy,      \* a tenant's policy at the catalog, or in the allowlist; None: none
  lapsed,      \* when a policy was last replaced at the catalog
  revoked,     \* when a key was revoked
  changes,
  authCache,   \* key -> [tenant, at, delay] or None
  cache,       \* tenant -> [config, at] or None
  phase, key, tenant, snapshot,
  decided,     \* when Descope found the key valid, the answer being on its way; Never
  delay,       \* how long the answer that gave the tenant was on its way (history)
  fresh,       \* the tenant was just exchanged and is not cached yet
  due,         \* when the fetch times out
  attempts,    \* attempts of the fetch begun
  reply,       \* the catalog's answer on its way: None, or [config]
  granted,     \* the policy the request was authorised with
  metered, verdict

worldVars == <<source, policy, lapsed, revoked, changes>>
cacheVars == <<authCache, cache>>
exchangeVars == <<decided, delay>>
fetchVars == <<fresh, due, attempts, reply>>
answerVars == <<metered, verdict>>
requestVars == <<phase, key, tenant, snapshot, granted, exchangeVars, fetchVars, answerVars>>
vars == <<now, worldVars, cacheVars, requestVars>>

MaybePolicy == Policies \cup {None}
Times == Nat \cup {Never}

TypeOK ==
  /\ now \in Nat
  /\ source \in {"catalog", "allowlist"}
  /\ policy \in [Tenants -> MaybePolicy]
  /\ lapsed \in [Tenants -> [Policies -> Times]]
  /\ revoked \in [Keys -> Times]
  /\ changes \in Nat
  /\ authCache \in [Keys -> [tenant : Tenants, at : Nat, delay : Nat] \cup {None}]
  /\ cache \in [Tenants -> [config : Policies, at : Nat] \cup {None}]
  /\ phase \in [Requests -> Phases]
  /\ key \in [Requests -> Keys]
  /\ tenant \in [Requests -> Tenants]
  /\ snapshot \in [Requests -> MaybePolicy]
  /\ decided \in [Requests -> Times]
  /\ delay \in [Requests -> Nat]
  /\ fresh \in [Requests -> BOOLEAN]
  /\ due \in [Requests -> Nat]
  /\ attempts \in [Requests -> 0 .. MaxAttempts]
  /\ reply \in [Requests -> [config : MaybePolicy] \cup {None}]
  /\ granted \in [Requests -> MaybePolicy]
  /\ metered \in [Requests -> BOOLEAN]
  /\ verdict \in [Requests -> Verdicts]

Nobody == CHOOSE k \in Keys : TRUE

Init ==
  /\ now = 0
  /\ source \in {"catalog", "allowlist"}
  /\ policy \in [Tenants -> MaybePolicy]
  /\ lapsed = [t \in Tenants |-> [p \in Policies |-> Never]]
  /\ revoked = [k \in Keys |-> Never]
  /\ changes = 0
  /\ authCache = [k \in Keys |-> None]
  /\ cache = [t \in Tenants |-> None]
  /\ phase = [r \in Requests |-> "idle"]
  /\ key = [r \in Requests |-> Nobody]
  /\ tenant = [r \in Requests |-> TenantOf[Nobody]]
  /\ snapshot = [r \in Requests |-> None]
  /\ decided = [r \in Requests |-> Never]
  /\ delay = [r \in Requests |-> 0]
  /\ fresh = [r \in Requests |-> FALSE]
  /\ due = [r \in Requests |-> 0]
  /\ attempts = [r \in Requests |-> 0]
  /\ reply = [r \in Requests |-> None]
  /\ granted = [r \in Requests |-> None]
  /\ metered = [r \in Requests |-> FALSE]
  /\ verdict = [r \in Requests |-> "none"]
-----------------------------------------------------------------------------
(* The caches (cachetools.TTLCache) and the policy of a request *)

\* Mutant: a cache that only evicts.
KeepEntry(entry, ttl) == entry

\* An entry lasts for its time to live from when it was stored.
Expire(entry, ttl) ==
  IF entry # None /\ now + 1 < entry.at + ttl THEN entry ELSE None

\* Mutant: the request's own snapshot is not asked.
TenantConfigOfNow(r) ==
  IF source = "allowlist" THEN policy[tenant[r]]
  ELSE IF cache[tenant[r]] # None THEN cache[tenant[r]].config
  ELSE None

\* get_tenant_config: the snapshot, else the cached policy or the allowlist.
TenantConfig(r) ==
  IF snapshot[r] # None THEN snapshot[r]
  ELSE IF source = "allowlist" THEN policy[tenant[r]]
  ELSE IF cache[tenant[r]] # None THEN cache[tenant[r]].config
  ELSE None

IsTrial(p) == p # None /\ p.trial

\* TenantConfig.has_dataset_access
HasAccess(p) == p # None /\ p.access
-----------------------------------------------------------------------------
(* Authentication: resolve_descope_tenant, then authorize_request *)

\* The exchange is over, or there is none: the tenant was given after a delay d.
Given(r, d) ==
  /\ decided' = [decided EXCEPT ![r] = Never]
  /\ delay' = [delay EXCEPT ![r] = d]

\* A fetch is over, whatever came of it.
FetchEnds(r) ==
  /\ fresh' = [fresh EXCEPT ![r] = FALSE]
  /\ due' = [due EXCEPT ![r] = 0]
  /\ attempts' = [attempts EXCEPT ![r] = 0]
  /\ reply' = [reply EXCEPT ![r] = None]

\* The request is over, and its context variable with it.
Ends(r, v) ==
  /\ phase' = [phase EXCEPT ![r] = "done"]
  /\ verdict' = [verdict EXCEPT ![r] = v]
  /\ snapshot' = [snapshot EXCEPT ![r] = None]
  /\ Given(r, 0)
  /\ FetchEnds(r)

Reject(r) == Ends(r, "unauthorized") /\ UNCHANGED <<cacheVars, granted>>

\* Mutant: a tenant found in the cache is stored again, with a new time.
RememberTenantAnew(r, k, t, d, f) ==
  authCache' = [authCache EXCEPT ![k] = [tenant |-> t, at |-> now, delay |-> d]]

\* _auth_cache[cache_key] = tenant, at the end of an exchange.
RememberTenant(r, k, t, d, f) ==
  IF f THEN authCache' = [authCache EXCEPT ![k] = [tenant |-> t, at |-> now, delay |-> d]]
       ELSE UNCHANGED authCache

\* The tenant is known and its policy at hand: the request is authorised, unless a
\* trial tenant asks for a route outside the trial surface.
Authorise(r, k, t, p, d, f) ==
  /\ RememberTenant(r, k, t, d, f)
  /\ granted' = [granted EXCEPT ![r] = p]
  /\ Given(r, d)
  /\ FetchEnds(r)
  /\ IF IsTrial(p) /\ r \in Internal
       THEN /\ phase' = [phase EXCEPT ![r] = "done"]
            /\ verdict' = [verdict EXCEPT ![r] = "forbidden"]
            /\ UNCHANGED snapshot
       ELSE /\ phase' = [phase EXCEPT ![r] = "open"]
            /\ snapshot' = [snapshot EXCEPT ![r] = IF source = "catalog" THEN p ELSE None]
            /\ UNCHANGED verdict

\* _fetch_api_tenant_config, or the allowlist (which never changes: a tenant in the
\* auth cache is still in it).
Known(r, k, t, d, f) ==
  \/ /\ source = "allowlist" /\ policy[t] # None
     /\ Authorise(r, k, t, policy[t], d, f)
     /\ UNCHANGED cache
  \/ /\ source = "allowlist" /\ policy[t] = None
     /\ Reject(r)
  \/ /\ source = "catalog" /\ cache[t] # None
     /\ Authorise(r, k, t, cache[t].config, d, f)
     /\ UNCHANGED cache
  \/ /\ source = "catalog" /\ cache[t] = None
     /\ phase' = [phase EXCEPT ![r] = "fetch"]
     /\ Given(r, d)
     /\ fresh' = [fresh EXCEPT ![r] = f]
     /\ due' = [due EXCEPT ![r] = now + FetchTimeout]
     /\ attempts' = [attempts EXCEPT ![r] = 1]
     /\ UNCHANGED <<cacheVars, snapshot, granted, reply, verdict>>

\* A request arrives with key k: its context is cleared, the auth cache asked.
Arrive(r, k) ==
  /\ phase[r] = "idle"
  /\ key' = [key EXCEPT ![r] = k]
  /\ IF authCache[k] # None
       THEN /\ tenant' = [tenant EXCEPT ![r] = authCache[k].tenant]
            /\ Known(r, k, authCache[k].tenant, authCache[k].delay, FALSE)
       ELSE /\ phase' = [phase EXCEPT ![r] = "exchange"]
            /\ Given(r, 0)
            /\ UNCHANGED <<tenant, cacheVars, snapshot, granted, fetchVars, verdict>>
  /\ UNCHANGED <<now, worldVars, metered>>

\* Descope, asked from a thread, finds the key valid.
DescopeDecides(r) ==
  /\ phase[r] = "exchange" /\ decided[r] = Never /\ revoked[key[r]] = Never
  /\ decided' = [decided EXCEPT ![r] = now]
  /\ UNCHANGED <<now, worldVars, cacheVars, phase, key, tenant, snapshot, granted, delay,
                 fetchVars, answerVars>>

\* The coroutine resumes with the tenant, any time later: the key may be revoked.
ExchangeAnswers(r) ==
  /\ phase[r] = "exchange" /\ decided[r] # Never
  /\ tenant' = [tenant EXCEPT ![r] = TenantOf[key[r]]]
  /\ Known(r, key[r], TenantOf[key[r]], now - decided[r], TRUE)
  /\ UNCHANGED <<now, worldVars, key, metered>>

\* The exchange raises, or names no single tenant.
ExchangeFails(r) ==
  /\ phase[r] = "exchange"
  /\ Reject(r)
  /\ UNCHANGED <<now, worldVars, key, tenant, metered>>
-----------------------------------------------------------------------------
(* The catalog: CatalogAllowlistClient.get_tenant_config *)

\* The catalog answers an attempt: with the tenant's policy, or with a refusal when
\* it has none (or knows that the key was revoked).
CatalogServes(r) ==
  /\ phase[r] = "fetch" /\ reply[r] = None
  /\ \E p \in {policy[tenant[r]]} \cup (IF revoked[key[r]] = Never THEN {} ELSE {None}) :
       reply' = [reply EXCEPT ![r] = [config |-> p]]
  /\ UNCHANGED <<now, worldVars, cacheVars, phase, key, tenant, snapshot, granted,
                 exchangeVars, fresh, due, attempts, answerVars>>

\* The answer arrives: a policy is cached and taken as the request's snapshot.
FetchReturns(r) ==
  /\ phase[r] = "fetch" /\ reply[r] # None /\ reply[r].config # None
  /\ cache' = [cache EXCEPT ![tenant[r]] = [config |-> reply[r].config, at |-> now]]
  /\ Authorise(r, key[r], tenant[r], reply[r].config, delay[r], fresh[r])
  /\ UNCHANGED <<now, worldVars, key, tenant, metered>>

FetchRefused(r) ==
  /\ phase[r] = "fetch" /\ reply[r] # None /\ reply[r].config = None
  /\ Reject(r)
  /\ UNCHANGED <<now, worldVars, key, tenant, metered>>

\* An attempt times out, breaks off or gets a transient status, and is repeated.
AttemptFails(r) ==
  /\ phase[r] = "fetch" /\ attempts[r] < MaxAttempts
  /\ attempts' = [attempts EXCEPT ![r] = @ + 1]
  /\ reply' = [reply EXCEPT ![r] = None]
  /\ UNCHANGED <<now, worldVars, cacheVars, phase, key, tenant, snapshot, granted,
                 exchangeVars, fresh, due, answerVars>>

\* The last attempt fails, an error is not worth a retry, the answer is malformed or
\* names another service, or the deadline of all attempts passes: the request is
\* rejected, whatever expired policy there was.
FetchFails(r) ==
  /\ phase[r] = "fetch"
  /\ Reject(r)
  /\ UNCHANGED <<now, worldVars, key, tenant, metered>>
-----------------------------------------------------------------------------
(* The handler's questions *)

\* check_dataset_access, at the entrance of the dataset's scope.
OpenDataset(r) ==
  /\ phase[r] = "open"
  /\ IF HasAccess(TenantConfig(r))
       THEN /\ phase' = [phase EXCEPT ![r] = "metering"]
            /\ Given(r, 0)
            /\ UNCHANGED <<verdict, snapshot, fetchVars>>
       ELSE Ends(r, "forbidden")
  /\ UNCHANGED <<now, worldVars, cacheVars, key, tenant, granted, metered>>

\* consume_evaluation_request: a unit is charged when the policy has a quota.
Meter(r) ==
  /\ phase[r] = "metering"
  /\ metered' = [metered EXCEPT ![r] = TenantConfig(r) # None /\ TenantConfig(r).quota]
  /\ phase' = [phase EXCEPT ![r] = "answering"]
  /\ UNCHANGED <<now, worldVars, cacheVars, key, tenant, snapshot, granted,
                 exchangeVars, fetchVars, verdict>>

\* The quota is used up, or its storage does not answer.
MeterRefuses(r) ==
  /\ phase[r] = "metering"
  /\ TenantConfig(r) # None /\ TenantConfig(r).quota
  /\ Ends(r, "refused")
  /\ UNCHANGED <<now, worldVars, cacheVars, key, tenant, granted, metered>>

\* project_eval_response, on the routes that have it.
Answer(r) ==
  /\ phase[r] = "answering"
  /\ Ends(r, IF IsTrial(TenantConfig(r)) /\ r \notin Internal THEN "sanitized" ELSE "full")
  /\ UNCHANGED <<now, worldVars, cacheVars, key, tenant, granted, metered>>

\* The caller goes away, or the handler fails, at any await.
Cancel(r) ==
  /\ phase[r] \notin {"idle", "done"}
  /\ Ends(r, "cancelled")
  /\ UNCHANGED <<now, worldVars, cacheVars, key, tenant, granted, metered>>

\* Another request takes the place of one that is over.
Renew(r) ==
  /\ phase[r] = "done"
  /\ phase' = [phase EXCEPT ![r] = "idle"]
  /\ key' = [key EXCEPT ![r] = Nobody]
  /\ tenant' = [tenant EXCEPT ![r] = TenantOf[Nobody]]
  /\ granted' = [granted EXCEPT ![r] = None]
  /\ metered' = [metered EXCEPT ![r] = FALSE]
  /\ verdict' = [verdict EXCEPT ![r] = "none"]
  /\ Given(r, 0)
  /\ UNCHANGED <<now, worldVars, cacheVars, snapshot, fetchVars>>
-----------------------------------------------------------------------------
(* The world outside *)

\* Time passes, up to the next deadline of a fetch, and the caches expire entries.
Tick ==
  /\ now < MaxTime
  /\ \A r \in Requests : phase[r] = "fetch" => now < due[r]
  /\ now' = now + 1
  /\ authCache' = [k \in Keys |-> Expire(authCache[k], AuthTTL)]
  /\ cache' = [t \in Tenants |-> Expire(cache[t], PolicyTTL)]
  /\ UNCHANGED <<worldVars, requestVars>>

\* A tenant's policy is changed, given or taken at the catalog.
ChangePolicy(t, p) ==
  /\ source = "catalog" /\ changes < MaxChanges /\ p # policy[t]
  /\ policy' = [policy EXCEPT ![t] = p]
  /\ lapsed' = IF policy[t] = None THEN lapsed
               ELSE [lapsed EXCEPT ![t][policy[t]] = now]
  /\ changes' = changes + 1
  /\ UNCHANGED <<now, source, revoked, cacheVars, requestVars>>

Revoke(k) ==
  /\ revoked[k] = Never
  /\ revoked' = [revoked EXCEPT ![k] = now]
  /\ UNCHANGED <<now, source, policy, lapsed, changes, cacheVars, requestVars>>

\* A full cache evicts an entry.
EvictTenant(k) ==
  /\ authCache[k] # None
  /\ authCache' = [authCache EXCEPT ![k] = None]
  /\ UNCHANGED <<now, worldVars, cache, requestVars>>

EvictPolicy(t) ==
  /\ cache[t] # None
  /\ cache' = [cache EXCEPT ![t] = None]
  /\ UNCHANGED <<now, worldVars, authCache, requestVars>>

RequestSteps(r) ==
  \/ \E k \in Keys : Arrive(r, k)
  \/ DescopeDecides(r) \/ ExchangeAnswers(r) \/ ExchangeFails(r)
  \/ CatalogServes(r) \/ FetchReturns(r) \/ FetchRefused(r)
  \/ AttemptFails(r) \/ FetchFails(r)
  \/ OpenDataset(r) \/ Meter(r) \/ MeterRefuses(r) \/ Answer(r)
  \/ Cancel(r) \/ Renew(r)

World ==
  \/ Tick
  \/ \E t \in Tenants, p \in MaybePolicy : ChangePolicy(t, p)
  \/ \E k \in Keys : Revoke(k) \/ EvictTenant(k)
  \/ \E t \in Tenants : EvictPolicy(t)

Next == (\E r \in Requests : RequestSteps(r)) \/ World

Spec == Init /\ [][Next]_vars
-----------------------------------------------------------------------------
(* Properties *)

\* Key k was valid at time t or later.
ValidSince(k, t) == revoked[k] = Never \/ revoked[k] >= t

\* Policy p was tenant t's at time s or later.
InForceSince(t, p, s) == policy[t] = p \/ lapsed[t][p] >= s

AuthBound == AuthTTL + 2 * FetchTimeout
PolicyBound == PolicyTTL + FetchTimeout

\* A request is authorised only under a key that was valid within the last AuthBound
\* and the time that the answer of the exchange which gave its tenant, its own or that
\* of the cached entry, was on its way.  Nothing in the service bounds that time; once
\* the answer is in, neither the use of the entry nor the fetches of the policy prolong
\* it beyond the entry's time to live and two fetches (auth.py:244, 262).
RevocationReaches ==
  [][\A r \in Requests : granted'[r] # None /\ granted[r] = None =>
       ValidSince(key'[r], now - AuthBound - delay'[r])]_vars

\* The policy a request is authorised with was the tenant's within the last
\* PolicyBound: nothing older is used when the catalog fails, and an answer
\* that arrives late or out of order lives no longer (allowlist.py:148).
PolicyIsRecent ==
  [][\A r \in Requests : granted'[r] # None /\ granted[r] = None =>
       InForceSince(tenant'[r], granted'[r], now - PolicyBound)]_vars

\* Whatever happens to the caches and the catalog while a request runs, the dataset,
\* the quota and the trial projection are decided by the policy that authorised it: a
\* policy that expired in between must not read as "no quota" or "no trial"
\* (auth.py:184, evaluation_quota.py:192, app.py:58).
OnePolicyPerRequest ==
  \A r \in Requests :
    verdict[r] \in {"full", "sanitized"} =>
      /\ granted[r] # None /\ granted[r].access
      /\ metered[r] = granted[r].quota
      /\ (verdict[r] = "sanitized") = granted[r].trial
=============================================================================
