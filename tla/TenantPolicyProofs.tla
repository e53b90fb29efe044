-------------------------- MODULE TenantPolicyProofs --------------------------
(***************************************************************************)
(* Proofs about TenantPolicy for any requests, keys, tenants, policies,    *)
(* times to live and timeouts: a request is authorised with something      *)
(* recent, and what authorised it decides all of it.                       *)
(***************************************************************************)
EXTENDS TenantPolicy, TLAPS

Inside == {"open", "metering", "answering"}
Entries == [tenant : Tenants, at : Nat, delay : Nat]
PolicyEntries == [config : Policies, at : Nat]
Replies == [config : MaybePolicy]

\* A cached tenant is live, and its key was valid when Descope decided: a fetch, and
\* the delay of the answer, before it was stored.
AuthInv ==
  \A k \in Keys : authCache[k] # None =>
    /\ authCache[k].at <= now /\ now < authCache[k].at + AuthTTL
    /\ ValidSince(k, authCache[k].at - FetchTimeout - authCache[k].delay)

\* A cached policy is live, and was in force a fetch before it was stored.
CacheInv ==
  \A t \in Tenants : cache[t] # None =>
    /\ cache[t].at <= now /\ now < cache[t].at + PolicyTTL
    /\ InForceSince(t, cache[t].config, cache[t].at - FetchTimeout)

\* When the fetch of r began.
Began(r) == due[r] - FetchTimeout

\* Descope found the key valid when it decided.
ExchangeInv(r) ==
  decided[r] # Never => decided[r] <= now /\ ValidSince(key[r], decided[r])

\* When the tenant that r fetches for was given, at the earliest.
GivenAt(r) == IF fresh[r] THEN Began(r) ELSE Began(r) - AuthTTL - FetchTimeout

\* A fetch is not over its deadline; its key was valid when Descope decided on the
\* tenant; its answer was in force after it began.
FetchInv(r) ==
  /\ Began(r) <= now /\ now <= due[r]
  /\ ValidSince(key[r], GivenAt(r) - delay[r])
  /\ reply[r] # None /\ reply[r].config # None =>
       InForceSince(tenant[r], reply[r].config, Began(r))

\* What get_tenant_config will answer is what authorised the request.
GrantInv(r) ==
  /\ granted[r] \in Policies
  /\ source = "catalog" => snapshot[r] = granted[r]
  /\ source = "allowlist" => snapshot[r] = None /\ policy[tenant[r]] = granted[r]
  /\ ~ (granted[r].trial /\ r \in Internal)

Decided(r) ==
  /\ granted[r] # None /\ granted[r].access
  /\ metered[r] = granted[r].quota
  /\ (verdict[r] = "sanitized") = granted[r].trial

RequestInv(r) ==
  /\ phase[r] \in {"idle", "exchange", "fetch"} => granted[r] = None
  /\ phase[r] # "fetch" => reply[r] = None
  /\ phase[r] = "exchange" => ExchangeInv(r)
  /\ phase[r] = "fetch" => FetchInv(r) /\ source = "catalog"
  /\ phase[r] \in Inside => GrantInv(r)
  /\ phase[r] \in {"metering", "answering"} => granted[r].access
  /\ phase[r] = "answering" => metered[r] = granted[r].quota
  /\ phase[r] # "done" => verdict[r] = "none"
  /\ verdict[r] \in {"full", "sanitized"} => Decided(r)

PInv == TypeOK /\ AuthInv /\ CacheInv /\ \A r \in Requests : RequestInv(r)
-----------------------------------------------------------------------------
(* Types *)

ProgressTypes ==
  /\ phase \in [Requests -> Phases]
  /\ verdict \in [Requests -> Verdicts]
  /\ snapshot \in [Requests -> MaybePolicy]
  /\ decided \in [Requests -> Times]
  /\ delay \in [Requests -> Nat]
  /\ fresh \in [Requests -> BOOLEAN]
  /\ due \in [Requests -> Nat]
  /\ attempts \in [Requests -> 0 .. MaxAttempts]
  /\ reply \in [Requests -> Replies \cup {None}]

CacheTypes ==
  /\ authCache \in [Keys -> Entries \cup {None}]
  /\ cache \in [Tenants -> PolicyEntries \cup {None}]

RequestTypes ==
  /\ key \in [Requests -> Keys]
  /\ tenant \in [Requests -> Tenants]
  /\ granted \in [Requests -> MaybePolicy]
  /\ metered \in [Requests -> BOOLEAN]

WorldTypes ==
  /\ now \in Nat
  /\ source \in {"catalog", "allowlist"}
  /\ policy \in [Tenants -> MaybePolicy]
  /\ lapsed \in [Tenants -> [Policies -> Times]]
  /\ revoked \in [Keys -> Times]
  /\ changes \in Nat

LEMMA TypeParts ==
  TypeOK <=> ProgressTypes /\ CacheTypes /\ RequestTypes /\ WorldTypes
  BY DEF TypeOK, ProgressTypes, CacheTypes, RequestTypes, WorldTypes, Entries,
         PolicyEntries, Replies

LEMMA FetchEndsTypes ==
  ASSUME ProgressTypes, NEW r \in Requests, FetchEnds(r)
  PROVE  /\ fresh' \in [Requests -> BOOLEAN] /\ due' \in [Requests -> Nat]
         /\ attempts' \in [Requests -> 0 .. MaxAttempts]
         /\ reply' \in [Requests -> Replies \cup {None}]
<1>1. 0 \in 0 .. MaxAttempts /\ FALSE \in BOOLEAN
  BY PolicyAssumption
<1> QED
  BY <1>1 DEF ProgressTypes, FetchEnds

LEMMA GivenTypes ==
  ASSUME ProgressTypes, NEW r \in Requests, NEW d \in Nat, Given(r, d)
  PROVE  decided' \in [Requests -> Times] /\ delay' \in [Requests -> Nat]
  BY DEF ProgressTypes, Given, Times

LEMMA EndsTypes ==
  ASSUME ProgressTypes, NEW r \in Requests, NEW v \in Verdicts, Ends(r, v)
  PROVE  ProgressTypes'
<1>1. /\ phase' \in [Requests -> Phases] /\ verdict' \in [Requests -> Verdicts]
      /\ snapshot' \in [Requests -> MaybePolicy] /\ FetchEnds(r) /\ Given(r, 0)
  BY DEF Ends, ProgressTypes, Phases, MaybePolicy
<1> QED
  BY <1>1, FetchEndsTypes, GivenTypes DEF ProgressTypes

LEMMA AuthoriseTypes ==
  ASSUME ProgressTypes, CacheTypes, RequestTypes, WorldTypes, NEW r \in Requests,
         NEW k \in Keys, NEW t \in Tenants, NEW p \in Policies, NEW d \in Nat,
         NEW f \in BOOLEAN, Authorise(r, k, t, p, d, f)
  PROVE  /\ ProgressTypes' /\ granted' \in [Requests -> MaybePolicy]
         /\ authCache' \in [Keys -> Entries \cup {None}]
<1>1. granted' \in [Requests -> MaybePolicy]
  BY DEF Authorise, RequestTypes, MaybePolicy
<1>2. authCache' \in [Keys -> Entries \cup {None}]
  BY DEF Authorise, RememberTenant, CacheTypes, Entries, WorldTypes
<1>3. /\ phase' \in [Requests -> Phases] /\ verdict' \in [Requests -> Verdicts]
      /\ snapshot' \in [Requests -> MaybePolicy]
  <2>1. CASE IsTrial(p) /\ r \in Internal
    BY <2>1 DEF Authorise, ProgressTypes, Phases, Verdicts
  <2>2. CASE ~ (IsTrial(p) /\ r \in Internal)
    BY <2>2 DEF Authorise, ProgressTypes, Phases, MaybePolicy
  <2> QED
    BY <2>1, <2>2
<1>4. FetchEnds(r) /\ Given(r, d)
  BY DEF Authorise
<1> QED
  BY <1>1, <1>2, <1>3, <1>4, FetchEndsTypes, GivenTypes DEF ProgressTypes

LEMMA KnownTypes ==
  ASSUME ProgressTypes, CacheTypes, RequestTypes, WorldTypes, NEW r \in Requests,
         NEW k \in Keys, NEW t \in Tenants, NEW d \in Nat, NEW f \in BOOLEAN,
         Known(r, k, t, d, f)
  PROVE  ProgressTypes' /\ CacheTypes' /\ granted' \in [Requests -> MaybePolicy]
<1>1. ASSUME NEW p, p # None, p \in MaybePolicy, Authorise(r, k, t, p, d, f), UNCHANGED cache
      PROVE  ProgressTypes' /\ CacheTypes' /\ granted' \in [Requests -> MaybePolicy]
  <2>1. p \in Policies
    BY <1>1 DEF MaybePolicy
  <2> QED
    BY <1>1, <2>1, AuthoriseTypes DEF CacheTypes
<1>2. CASE source = "allowlist" /\ policy[t] # None
  BY <1>1, <1>2 DEF Known, WorldTypes
<1>3. CASE source = "allowlist" /\ policy[t] = None
  <2>1. Ends(r, "unauthorized") /\ UNCHANGED <<cacheVars, granted>>
    BY <1>3 DEF Known, Reject
  <2> QED
    BY <2>1, EndsTypes DEF Verdicts, CacheTypes, cacheVars, RequestTypes
<1>4. CASE source = "catalog" /\ cache[t] # None
  <2>1. cache[t].config \in Policies /\ cache[t].config # None
    BY <1>4, PolicyAssumption DEF CacheTypes, PolicyEntries
  <2> QED
    BY <1>1, <1>4, <2>1 DEF Known, MaybePolicy
<1>5. CASE source = "catalog" /\ cache[t] = None
  <2>1. /\ phase' = [phase EXCEPT ![r] = "fetch"]
        /\ Given(r, d)
        /\ fresh' = [fresh EXCEPT ![r] = f]
        /\ due' = [due EXCEPT ![r] = now + FetchTimeout]
        /\ attempts' = [attempts EXCEPT ![r] = 1]
        /\ UNCHANGED <<cacheVars, snapshot, granted, reply, verdict>>
    BY <1>5 DEF Known
  <2>2. now + FetchTimeout \in Nat /\ 1 \in 0 .. MaxAttempts
    BY PolicyAssumption DEF WorldTypes
  <2>3. ProgressTypes'
    BY <2>1, <2>2, GivenTypes DEF ProgressTypes, Phases
  <2> QED
    BY <2>1, <2>3 DEF CacheTypes, cacheVars, RequestTypes
<1> QED
  BY <1>2, <1>3, <1>4, <1>5 DEF WorldTypes

\* The steps of a request keep the types.
LEMMA RequestStepTypes ==
  ASSUME TypeOK, NEW r \in Requests, RequestInv(r), RequestSteps(r)
  PROVE  TypeOK'
<1>0. ProgressTypes /\ CacheTypes /\ RequestTypes /\ WorldTypes
  BY TypeParts
<1>1. WorldTypes'
  BY <1>0 DEF RequestSteps, Arrive, DescopeDecides, ExchangeAnswers, ExchangeFails, CatalogServes,
     FetchReturns, FetchRefused, AttemptFails, FetchFails, OpenDataset, Meter, MeterRefuses,
     Answer, Cancel, Renew, worldVars, WorldTypes
<1> SUFFICES ProgressTypes' /\ CacheTypes' /\ RequestTypes'
  <2>1. (ProgressTypes /\ CacheTypes /\ RequestTypes /\ WorldTypes => TypeOK)'
    BY TypeParts, PTL
  <2> QED
    BY <1>1, <2>1
<1>2. ASSUME NEW k \in Keys, Arrive(r, k)
      PROVE  ProgressTypes' /\ CacheTypes' /\ RequestTypes'
  <2>0. key' \in [Requests -> Keys] /\ metered' \in [Requests -> BOOLEAN]
    BY <1>0, <1>2 DEF Arrive, RequestTypes
  <2>1. CASE authCache[k] # None
    <3>1. /\ authCache[k].tenant \in Tenants /\ authCache[k].delay \in Nat
          /\ tenant' = [tenant EXCEPT ![r] = authCache[k].tenant]
          /\ Known(r, k, authCache[k].tenant, authCache[k].delay, FALSE)
      BY <1>0, <1>2, <2>1 DEF Arrive, CacheTypes, Entries
    <3> QED
      BY <1>0, <2>0, <3>1, KnownTypes DEF RequestTypes
  <2>2. CASE authCache[k] = None
    <3>1. /\ phase' = [phase EXCEPT ![r] = "exchange"]
          /\ Given(r, 0)
          /\ UNCHANGED <<tenant, cacheVars, snapshot, granted, fetchVars, verdict>>
      BY <1>2, <2>2 DEF Arrive
    <3> QED
      BY <1>0, <2>0, <3>1, GivenTypes DEF ProgressTypes, CacheTypes, RequestTypes, cacheVars, fetchVars,
         Phases
  <2> QED
    BY <2>1, <2>2
<1>3. CASE ExchangeAnswers(r)
  <2>0. now - decided[r] \in Nat
    BY <1>0, <1>3
    DEF ExchangeAnswers, RequestInv, ExchangeInv, ProgressTypes, WorldTypes, Times, Never
  <2>1. /\ key[r] \in Keys /\ TenantOf[key[r]] \in Tenants
        /\ tenant' = [tenant EXCEPT ![r] = TenantOf[key[r]]]
        /\ Known(r, key[r], TenantOf[key[r]], now - decided[r], TRUE)
        /\ UNCHANGED <<key, metered>>
    BY <1>0, <1>3, PolicyAssumption DEF ExchangeAnswers, RequestTypes
  <2> QED
    BY <1>0, <2>0, <2>1, KnownTypes DEF RequestTypes
<1>4. CASE ExchangeFails(r) \/ FetchRefused(r) \/ FetchFails(r)
  <2>1. /\ Ends(r, "unauthorized")
        /\ UNCHANGED <<authCache, cache, granted, key, tenant, metered>>
    BY <1>4 DEF ExchangeFails, FetchRefused, FetchFails, Reject, cacheVars
  <2> QED
    BY <1>0, <2>1, EndsTypes DEF Verdicts, CacheTypes, RequestTypes
<1>5. CASE CatalogServes(r)
  <2>1. PICK p \in {policy[tenant[r]], None} : reply' = [reply EXCEPT ![r] = [config |-> p]]
    BY <1>5 DEF CatalogServes
  <2>2. [config |-> p] \in Replies
    BY <1>0, <2>1 DEF Replies, MaybePolicy, WorldTypes, RequestTypes
  <2>3. UNCHANGED <<authCache, cache, phase, key, tenant, snapshot, granted, decided, delay,
                    fresh, due, attempts, metered, verdict>>
    BY <1>5 DEF CatalogServes, cacheVars, exchangeVars, answerVars
  <2> QED
    BY <1>0, <2>1, <2>2, <2>3 DEF ProgressTypes, CacheTypes, RequestTypes
<1>6. CASE FetchReturns(r)
  <2>1. /\ reply[r].config \in Policies /\ key[r] \in Keys /\ tenant[r] \in Tenants
        /\ fresh[r] \in BOOLEAN
    BY <1>0, <1>6 DEF FetchReturns, ProgressTypes, RequestTypes, Replies, MaybePolicy
  <2>2. Authorise(r, key[r], tenant[r], reply[r].config, delay[r], fresh[r]) /\ delay[r] \in Nat
    BY <1>0, <1>6 DEF FetchReturns, ProgressTypes
  <2>3. [config |-> reply[r].config, at |-> now] \in PolicyEntries
    BY <1>0, <2>1 DEF PolicyEntries, WorldTypes
  <2>4. cache' \in [Tenants -> PolicyEntries \cup {None}]
    BY <1>0, <1>6, <2>3 DEF FetchReturns, CacheTypes
  <2>5. UNCHANGED <<key, tenant, metered>>
    BY <1>6 DEF FetchReturns
  <2> QED
    BY <1>0, <2>1, <2>2, <2>4, <2>5, AuthoriseTypes DEF CacheTypes, RequestTypes
<1>7. CASE AttemptFails(r)
  <2>1. attempts[r] + 1 \in 0 .. MaxAttempts
    BY <1>0, <1>7, PolicyAssumption DEF AttemptFails, ProgressTypes
  <2>2. /\ attempts' = [attempts EXCEPT ![r] = attempts[r] + 1]
        /\ reply' = [reply EXCEPT ![r] = None]
        /\ UNCHANGED <<authCache, cache, phase, key, tenant, snapshot, granted, decided,
                       delay, fresh, due, metered, verdict>>
    BY <1>7 DEF AttemptFails, cacheVars, exchangeVars, answerVars
  <2> QED
    BY <1>0, <2>1, <2>2 DEF ProgressTypes, CacheTypes, RequestTypes
<1>8. CASE OpenDataset(r) \/ MeterRefuses(r) \/ Answer(r) \/ Cancel(r)
  <2>1. UNCHANGED <<authCache, cache, key, tenant, granted, metered>>
    BY <1>8 DEF OpenDataset, MeterRefuses, Answer, Cancel, cacheVars
  <2>2. CASE \E v \in Verdicts : Ends(r, v)
    BY <1>0, <2>1, <2>2, EndsTypes DEF CacheTypes, RequestTypes
  <2>3. CASE /\ phase' = [phase EXCEPT ![r] = "metering"]
             /\ Given(r, 0)
             /\ UNCHANGED <<verdict, snapshot, fetchVars>>
    BY <1>0, <2>1, <2>3, GivenTypes DEF ProgressTypes, CacheTypes, RequestTypes, fetchVars, Phases
  <2> QED
    BY <1>8, <2>2, <2>3 DEF OpenDataset, MeterRefuses, Answer, Cancel, Verdicts
<1>9. CASE Meter(r)
  <2> DEFINE charged == TenantConfig(r) # None /\ TenantConfig(r).quota
  <2>1. /\ metered' = [metered EXCEPT ![r] = charged]
        /\ phase' = [phase EXCEPT ![r] = "answering"]
        /\ UNCHANGED <<authCache, cache, key, tenant, snapshot, granted, decided, delay,
                       fresh, due, attempts, reply, verdict>>
    BY <1>9 DEF Meter, cacheVars, exchangeVars, fetchVars
  <2>2. charged \in BOOLEAN
    OBVIOUS
  <2> HIDE DEF charged
  <2> QED
    BY <1>0, <2>1, <2>2 DEF ProgressTypes, CacheTypes, RequestTypes, Phases
<1>10. CASE Renew(r)
  <2>1. Nobody \in Keys
    BY PolicyAssumption DEF Nobody
  <2>2. TenantOf[Nobody] \in Tenants
    BY <2>1, PolicyAssumption
  <2>3. UNCHANGED <<authCache, cache, snapshot, fresh, due, attempts, reply>>
    BY <1>10 DEF Renew, cacheVars, fetchVars
  <2>4. ProgressTypes' /\ CacheTypes'
    BY <1>0, <1>10, <2>3, GivenTypes DEF Renew, ProgressTypes, CacheTypes, Phases, Verdicts
  <2>5. RequestTypes'
    BY <1>0, <1>10, <2>1, <2>2 DEF Renew, RequestTypes, MaybePolicy
  <2> QED
    BY <2>4, <2>5
<1>11. CASE DescopeDecides(r)
  <2>1. /\ decided' = [decided EXCEPT ![r] = now]
        /\ UNCHANGED <<authCache, cache, phase, key, tenant, snapshot, granted, delay, fresh,
                       due, attempts, reply, metered, verdict>>
    BY <1>11 DEF DescopeDecides, cacheVars, fetchVars, answerVars
  <2> QED
    BY <1>0, <2>1 DEF ProgressTypes, CacheTypes, RequestTypes, WorldTypes, Times
<1> QED
  BY <1>2, <1>3, <1>4, <1>5, <1>6, <1>7, <1>8, <1>9, <1>10, <1>11 DEF RequestSteps

LEMMA WorldStepTypes ==
  ASSUME TypeOK, World
  PROVE  TypeOK'
<1>0. ProgressTypes /\ CacheTypes /\ RequestTypes /\ WorldTypes
  BY TypeParts
<1>1. ProgressTypes' /\ RequestTypes'
  BY <1>0 DEF World, Tick, ChangePolicy, Revoke, EvictTenant, EvictPolicy, requestVars,
     exchangeVars, fetchVars, answerVars, ProgressTypes, RequestTypes
<1> SUFFICES CacheTypes' /\ WorldTypes'
  <2>1. (ProgressTypes /\ CacheTypes /\ RequestTypes /\ WorldTypes => TypeOK)'
    BY TypeParts, PTL
  <2> QED
    BY <1>1, <2>1
<1>2. CASE Tick
  <2>1. /\ now' = now + 1
        /\ authCache' = [k \in Keys |-> Expire(authCache[k], AuthTTL)]
        /\ cache' = [t \in Tenants |-> Expire(cache[t], PolicyTTL)]
        /\ UNCHANGED <<source, policy, lapsed, revoked, changes>>
    BY <1>2 DEF Tick, worldVars
  <2>2. CacheTypes'
    BY <1>0, <2>1 DEF CacheTypes, Expire
  <2>3. WorldTypes'
    BY <1>0, <2>1 DEF WorldTypes
  <2> QED
    BY <2>2, <2>3
<1>3. ASSUME NEW t \in Tenants, NEW p \in MaybePolicy, ChangePolicy(t, p)
      PROVE  CacheTypes' /\ WorldTypes'
  <2>1. lapsed' \in [Tenants -> [Policies -> Times]]
    <3>1. CASE policy[t] = None
      BY <1>0, <1>3, <3>1 DEF ChangePolicy, WorldTypes
    <3>2. CASE policy[t] # None
      <4>1. lapsed' = [lapsed EXCEPT ![t] = [lapsed[t] EXCEPT ![policy[t]] = now]]
        BY <1>3, <3>2 DEF ChangePolicy
      <4>2. [lapsed[t] EXCEPT ![policy[t]] = now] \in [Policies -> Times]
        BY <1>0 DEF WorldTypes, Times
      <4> QED
        BY <1>0, <4>1, <4>2 DEF WorldTypes
    <3> QED
      BY <3>1, <3>2
  <2>2. /\ UNCHANGED <<now, source, revoked, authCache, cache>>
        /\ policy' = [policy EXCEPT ![t] = p] /\ changes' = changes + 1
    BY <1>3 DEF ChangePolicy, cacheVars
  <2> QED
    BY <1>0, <2>1, <2>2 DEF CacheTypes, WorldTypes
<1>4. ASSUME NEW k \in Keys, Revoke(k) \/ EvictTenant(k)
      PROVE  CacheTypes' /\ WorldTypes'
  <2>1. CASE Revoke(k)
    BY <1>0, <2>1 DEF Revoke, CacheTypes, WorldTypes, cacheVars, Times
  <2>2. CASE EvictTenant(k)
    BY <1>0, <2>2 DEF EvictTenant, CacheTypes, WorldTypes, worldVars
  <2> QED
    BY <1>4, <2>1, <2>2
<1>5. ASSUME NEW t \in Tenants, EvictPolicy(t)
      PROVE  CacheTypes' /\ WorldTypes'
  BY <1>0, <1>5 DEF EvictPolicy, CacheTypes, WorldTypes, worldVars
<1> QED
  BY <1>2, <1>3, <1>4, <1>5 DEF World

LEMMA InitTypes == Init => TypeOK
<1> SUFFICES ASSUME Init PROVE TypeOK
  OBVIOUS
<1>1. Nobody \in Keys
  BY PolicyAssumption DEF Nobody
<1>2. TenantOf[Nobody] \in Tenants
  BY <1>1, PolicyAssumption
<1>3. 0 \in 0 .. MaxAttempts
  BY PolicyAssumption
<1>4. ProgressTypes
  BY <1>3 DEF Init, ProgressTypes, Phases, Verdicts, MaybePolicy, Times
<1>5. CacheTypes
  BY DEF Init, CacheTypes
<1>6. RequestTypes
  BY <1>1, <1>2 DEF Init, RequestTypes, MaybePolicy
<1>7. WorldTypes
  BY DEF Init, WorldTypes, Times
<1> QED
  BY <1>4, <1>5, <1>6, <1>7, TypeParts
-----------------------------------------------------------------------------
(* One request *)

Same(q) ==
  /\ phase'[q] = phase[q] /\ key'[q] = key[q] /\ tenant'[q] = tenant[q]
  /\ snapshot'[q] = snapshot[q] /\ granted'[q] = granted[q]
  /\ decided'[q] = decided[q] /\ delay'[q] = delay[q]
  /\ fresh'[q] = fresh[q] /\ due'[q] = due[q] /\ reply'[q] = reply[q]
  /\ metered'[q] = metered[q] /\ verdict'[q] = verdict[q]

Outside == <<now, source, policy, lapsed, revoked>>

\* A request to which nothing happens keeps its part of the invariant.
LEMMA SameKeeps ==
  ASSUME NEW q \in Requests, RequestInv(q), Same(q), UNCHANGED Outside
  PROVE  RequestInv(q)'
  BY DEF RequestInv, ExchangeInv, FetchInv, GivenAt, Began, GrantInv, Decided, ValidSince,
         InForceSince, Same, Outside

LEMMA EndsOthers ==
  ASSUME TypeOK, NEW r \in Requests, NEW v, Ends(r, v), NEW q \in Requests, q # r
  PROVE  /\ phase'[q] = phase[q] /\ snapshot'[q] = snapshot[q] /\ fresh'[q] = fresh[q]
         /\ due'[q] = due[q] /\ reply'[q] = reply[q] /\ verdict'[q] = verdict[q]
         /\ decided'[q] = decided[q] /\ delay'[q] = delay[q]
  BY DEF Ends, Given, FetchEnds, TypeOK

LEMMA AuthoriseOthers ==
  ASSUME TypeOK, NEW r \in Requests, NEW k, NEW t, NEW p, NEW d, NEW f,
         Authorise(r, k, t, p, d, f), NEW q \in Requests, q # r
  PROVE  /\ phase'[q] = phase[q] /\ snapshot'[q] = snapshot[q] /\ fresh'[q] = fresh[q]
         /\ due'[q] = due[q] /\ reply'[q] = reply[q] /\ verdict'[q] = verdict[q]
         /\ decided'[q] = decided[q] /\ delay'[q] = delay[q]
         /\ granted'[q] = granted[q]
  BY DEF Authorise, Given, FetchEnds, TypeOK

LEMMA KnownOthers ==
  ASSUME TypeOK, NEW r \in Requests, NEW k, NEW t, NEW d, NEW f, Known(r, k, t, d, f),
         NEW q \in Requests, q # r
  PROVE  /\ phase'[q] = phase[q] /\ snapshot'[q] = snapshot[q] /\ fresh'[q] = fresh[q]
         /\ due'[q] = due[q] /\ reply'[q] = reply[q] /\ verdict'[q] = verdict[q]
         /\ decided'[q] = decided[q] /\ delay'[q] = delay[q]
         /\ granted'[q] = granted[q]
<1>1. CASE \E p : Authorise(r, k, t, p, d, f)
  BY <1>1, AuthoriseOthers
<1>2. CASE Reject(r)
  BY <1>2, EndsOthers DEF Reject
<1>3. CASE /\ phase' = [phase EXCEPT ![r] = "fetch"]
           /\ Given(r, d)
           /\ fresh' = [fresh EXCEPT ![r] = f]
           /\ due' = [due EXCEPT ![r] = now + FetchTimeout]
           /\ UNCHANGED <<cacheVars, snapshot, granted, reply, verdict>>
  BY <1>3 DEF Given, TypeOK
<1> QED
  BY <1>1, <1>2, <1>3 DEF Known

\* A request's step is its own.
LEMMA StepIsLocal ==
  ASSUME TypeOK, NEW r \in Requests, RequestSteps(r), NEW q \in Requests, q # r
  PROVE  Same(q)
<1>1. ASSUME NEW k \in Keys, Arrive(r, k) PROVE Same(q)
  <2>1. key'[q] = key[q] /\ tenant'[q] = tenant[q] /\ metered'[q] = metered[q]
    BY <1>1 DEF Arrive, TypeOK
  <2>2. CASE authCache[k] # None
    BY <1>1, <2>1, <2>2, KnownOthers DEF Arrive, Same
  <2>3. CASE authCache[k] = None
    BY <1>1, <2>1, <2>3 DEF Arrive, Same, Given, fetchVars, TypeOK
  <2> QED
    BY <2>2, <2>3
<1>2. CASE ExchangeAnswers(r)
  <2>1. key'[q] = key[q] /\ tenant'[q] = tenant[q] /\ metered'[q] = metered[q]
    BY <1>2 DEF ExchangeAnswers, TypeOK
  <2> QED
    BY <1>2, <2>1, KnownOthers DEF ExchangeAnswers, Same
<1>3. CASE ExchangeFails(r) \/ FetchRefused(r) \/ FetchFails(r)
  BY <1>3, EndsOthers DEF ExchangeFails, FetchRefused, FetchFails, Reject, Same
<1>4. CASE CatalogServes(r) \/ AttemptFails(r)
  BY <1>4 DEF CatalogServes, AttemptFails, exchangeVars, answerVars, Same, TypeOK
<1>5. CASE FetchReturns(r)
  BY <1>5, AuthoriseOthers DEF FetchReturns, Same
<1>6. CASE OpenDataset(r) \/ MeterRefuses(r) \/ Answer(r) \/ Cancel(r)
  <2>1. UNCHANGED <<key, tenant, granted, metered>>
    BY <1>6 DEF OpenDataset, MeterRefuses, Answer, Cancel
  <2>2. CASE \E v : Ends(r, v)
    BY <2>1, <2>2, EndsOthers DEF Same
  <2>3. CASE /\ phase' = [phase EXCEPT ![r] = "metering"]
             /\ Given(r, 0)
             /\ UNCHANGED <<verdict, snapshot, fetchVars>>
    BY <2>1, <2>3 DEF Same, Given, fetchVars, TypeOK
  <2> QED
    BY <1>6, <2>2, <2>3 DEF OpenDataset, MeterRefuses, Answer, Cancel
<1>7. CASE Meter(r)
  BY <1>7 DEF Meter, Same, exchangeVars, fetchVars, TypeOK
<1>8. CASE Renew(r)
  BY <1>8 DEF Renew, Same, Given, fetchVars, TypeOK
<1>9. CASE DescopeDecides(r)
  BY <1>9 DEF DescopeDecides, Same, fetchVars, answerVars, TypeOK
<1> QED
  BY <1>1, <1>2, <1>3, <1>4, <1>5, <1>6, <1>7, <1>8, <1>9 DEF RequestSteps

LEMMA StepKeepsOutside ==
  ASSUME NEW r \in Requests, RequestSteps(r)
  PROVE  UNCHANGED Outside
  BY DEF RequestSteps, Arrive, DescopeDecides, ExchangeAnswers, ExchangeFails, CatalogServes,
     FetchReturns, FetchRefused, AttemptFails, FetchFails, OpenDataset, Meter, MeterRefuses,
     Answer, Cancel, Renew, worldVars, Outside

\* A request that ends without an answer.
LEMMA EndedRequest ==
  ASSUME TypeOK, NEW r \in Requests, NEW v, v \notin {"full", "sanitized"}, Ends(r, v)
  PROVE  RequestInv(r)'
<1>1. phase'[r] = "done" /\ verdict'[r] = v /\ reply'[r] = None
  BY DEF Ends, FetchEnds, TypeOK
<1> QED
  BY <1>1 DEF RequestInv, Inside

\* A request that is authorised: its snapshot, or the allowlist, holds the policy.
LEMMA AuthorisedRequest ==
  ASSUME TypeOK, NEW r \in Requests, NEW k, NEW t \in Tenants, NEW p \in Policies, NEW d,
         NEW f, Authorise(r, k, t, p, d, f), verdict[r] = "none", tenant'[r] = t,
         UNCHANGED Outside, source = "allowlist" => policy[t] = p
  PROVE  RequestInv(r)' /\ granted'[r] = p /\ delay'[r] = d
<1>0. p # None
  BY PolicyAssumption
<1>1. granted'[r] = p /\ reply'[r] = None /\ delay'[r] = d
  BY DEF Authorise, Given, FetchEnds, TypeOK
<1>2. CASE IsTrial(p) /\ r \in Internal
  <2>1. phase'[r] = "done" /\ verdict'[r] = "forbidden"
    BY <1>2 DEF Authorise, TypeOK
  <2> QED
    BY <1>1, <2>1 DEF RequestInv, Inside
<1>3. CASE ~ (IsTrial(p) /\ r \in Internal)
  <2>1. /\ phase'[r] = "open" /\ verdict'[r] = "none"
        /\ snapshot'[r] = IF source = "catalog" THEN p ELSE None
    BY <1>3 DEF Authorise, TypeOK
  <2>2. GrantInv(r)'
    BY <1>0, <1>1, <1>3, <2>1 DEF GrantInv, IsTrial, Outside
  <2> QED
    BY <1>1, <2>1, <2>2 DEF RequestInv, Inside
<1> QED
  BY <1>2, <1>3
-----------------------------------------------------------------------------
(* The caches, when time stands still *)

LEMMA AuthCacheStands ==
  ASSUME AuthInv, UNCHANGED Outside, UNCHANGED authCache
  PROVE  AuthInv'
  BY DEF AuthInv, ValidSince, Outside

LEMMA CacheStands ==
  ASSUME CacheInv, UNCHANGED Outside, UNCHANGED cache
  PROVE  CacheInv'
  BY DEF CacheInv, InForceSince, Outside

LEMMA TenantRemembered ==
  ASSUME TypeOK, AuthInv, UNCHANGED Outside, NEW r, NEW k \in Keys, NEW t,
         NEW d, NEW f, f => ValidSince(k, now - FetchTimeout - d), RememberTenant(r, k, t, d, f)
  PROVE  AuthInv'
<1>1. CASE ~ f
  BY <1>1, AuthCacheStands DEF RememberTenant
<1>2. CASE f
  <2>1. authCache' = [authCache EXCEPT ![k] = [tenant |-> t, at |-> now, delay |-> d]]
    BY <1>2 DEF RememberTenant
  <2> SUFFICES ASSUME NEW q \in Keys, authCache'[q] # None
               PROVE  /\ authCache'[q].at <= now /\ now < authCache'[q].at + AuthTTL
                      /\ ValidSince(q, authCache'[q].at - FetchTimeout - authCache'[q].delay)
    BY DEF AuthInv, ValidSince, Outside
  <2>2. CASE q = k
    <3>1. authCache'[q].at = now /\ authCache'[q].delay = d
      BY <2>1, <2>2 DEF TypeOK
    <3>2. now \in Nat /\ now <= now /\ now < now + AuthTTL
      BY PolicyAssumption DEF TypeOK
    <3> QED
      BY <1>2, <2>2, <3>1, <3>2
  <2>3. CASE q # k
    BY <2>1, <2>3 DEF AuthInv, TypeOK
  <2> QED
    BY <2>2, <2>3
<1> QED
  BY <1>1, <1>2
-----------------------------------------------------------------------------
(* What an authorisation rests on *)

\* A request that is authorised in this step has something recent to show.
GrantIsRecent(r) ==
  granted'[r] # None /\ granted[r] = None =>
    /\ ValidSince(key'[r], now - AuthBound - delay'[r])
    /\ InForceSince(tenant'[r], granted'[r], now - PolicyBound)

\* A cached policy was in force within the bound.
LEMMA CachedPolicyIsRecent ==
  ASSUME TypeOK, CacheInv, NEW t \in Tenants, cache[t] # None
  PROVE  cache[t].config \in Policies /\ InForceSince(t, cache[t].config, now - PolicyBound)
<1>1. /\ cache[t].config \in Policies /\ cache[t].at \in Nat /\ now \in Nat
      /\ now < cache[t].at + PolicyTTL
      /\ InForceSince(t, cache[t].config, cache[t].at - FetchTimeout)
  BY DEF TypeOK, CacheInv
<1>2. lapsed[t][cache[t].config] \in Int
  BY <1>1 DEF TypeOK, Times, Never
<1> QED
  BY <1>1, <1>2, PolicyAssumption DEF InForceSince, PolicyBound

\* Once its tenant is known, a request is authorised, refused or fetches.
LEMMA KnownRequest ==
  ASSUME PInv, NEW r \in Requests, NEW k \in Keys, NEW t \in Tenants, NEW d \in Nat,
         NEW f \in BOOLEAN,
         verdict[r] = "none", granted[r] = None, reply[r] = None,
         key'[r] = k, tenant'[r] = t, UNCHANGED Outside, Known(r, k, t, d, f),
         ValidSince(k, (IF f THEN now ELSE now - AuthTTL - FetchTimeout) - d)
  PROVE  /\ AuthInv' /\ CacheInv' /\ RequestInv(r)' /\ GrantIsRecent(r)
<1>0. TypeOK /\ AuthInv /\ CacheInv
  BY DEF PInv
<1>t. now \in Nat /\ revoked[k] \in Int /\ AuthTTL \in Nat /\ FetchTimeout \in Nat
  BY <1>0, PolicyAssumption DEF TypeOK, Times, Never
<1>v. ValidSince(k, now - AuthBound - d) /\ (f => ValidSince(k, now - FetchTimeout - d))
  BY <1>t DEF ValidSince, AuthBound
<1>1. ASSUME NEW p \in Policies, Authorise(r, k, t, p, d, f), UNCHANGED cache,
             source = "allowlist" => policy[t] = p,
             InForceSince(t, p, now - PolicyBound)
      PROVE  AuthInv' /\ CacheInv' /\ RequestInv(r)' /\ GrantIsRecent(r)
  <2>1. RequestInv(r)' /\ granted'[r] = p /\ delay'[r] = d
    BY <1>0, <1>1, AuthorisedRequest
  <2>2. AuthInv'
    BY <1>0, <1>1, <1>v, TenantRemembered DEF Authorise
  <2>3. CacheInv'
    BY <1>0, <1>1, CacheStands
  <2> QED
    BY <1>1, <1>v, <2>1, <2>2, <2>3 DEF GrantIsRecent
<1>2. CASE source = "allowlist" /\ policy[t] # None
  <2>1. policy[t] \in Policies /\ InForceSince(t, policy[t], now - PolicyBound)
    BY <1>0, <1>2 DEF TypeOK, MaybePolicy, InForceSince
  <2> QED
    BY <1>0, <1>1, <1>2, <2>1 DEF Known
<1>3. CASE source = "allowlist" /\ policy[t] = None
  <2>1. Reject(r)
    BY <1>3 DEF Known
  <2>2. Ends(r, "unauthorized") /\ UNCHANGED authCache /\ UNCHANGED cache /\ granted' = granted
    BY <2>1 DEF Reject, cacheVars
  <2> QED
    BY <1>0, <2>2, AuthCacheStands, CacheStands, EndedRequest DEF GrantIsRecent
<1>4. CASE source = "catalog" /\ cache[t] # None
  BY <1>0, <1>1, <1>4, CachedPolicyIsRecent DEF Known
<1>5. CASE source = "catalog" /\ cache[t] = None
  <2>1. /\ phase' = [phase EXCEPT ![r] = "fetch"]
        /\ Given(r, d)
        /\ fresh' = [fresh EXCEPT ![r] = f]
        /\ due' = [due EXCEPT ![r] = now + FetchTimeout]
        /\ UNCHANGED authCache /\ UNCHANGED cache
        /\ UNCHANGED <<snapshot, granted, reply, verdict>>
    BY <1>5 DEF Known, cacheVars
  <2>2. /\ phase'[r] = "fetch" /\ fresh'[r] = f /\ due'[r] = now + FetchTimeout
        /\ delay'[r] = d
        /\ granted'[r] = None /\ reply'[r] = None /\ verdict'[r] = "none"
    BY <1>0, <2>1 DEF Given, TypeOK
  <2>3. now' = now /\ source' = "catalog" /\ revoked' = revoked
    BY <1>5 DEF Outside
  <2>4. Began(r)' = now /\ GivenAt(r)' = IF f THEN now ELSE now - AuthTTL - FetchTimeout
    BY <1>t, <2>2 DEF Began, GivenAt
  <2>5. ValidSince(k, (IF f THEN now ELSE now - AuthTTL - FetchTimeout) - d)'
    BY <2>3 DEF ValidSince
  <2>6. FetchInv(r)'
    BY <1>t, <2>2, <2>3, <2>4, <2>5 DEF FetchInv, ValidSince
  <2>7. RequestInv(r)'
    BY <2>2, <2>3, <2>6 DEF RequestInv, Inside
  <2> QED
    BY <1>0, <2>1, <2>2, <2>7, AuthCacheStands, CacheStands DEF GrantIsRecent
<1> QED
  BY <1>0, <1>2, <1>3, <1>4, <1>5 DEF TypeOK
-----------------------------------------------------------------------------
(* The steps of a request *)

\* Inside the handler get_tenant_config answers the policy the request was given.
LEMMA OneAnswer ==
  ASSUME TypeOK, NEW r \in Requests, GrantInv(r)
  PROVE  /\ TenantConfig(r) = granted[r] /\ granted[r] # None
         /\ granted[r].access \in BOOLEAN /\ granted[r].quota \in BOOLEAN
         /\ granted[r].trial \in BOOLEAN
<1>1. granted[r] \in [access : BOOLEAN, quota : BOOLEAN, trial : BOOLEAN]
  BY PolicyAssumption DEF GrantInv
<1>2. granted[r] # None
  BY PolicyAssumption DEF GrantInv
<1>3. CASE source = "catalog"
  BY <1>1, <1>2, <1>3 DEF GrantInv, TenantConfig
<1>4. CASE source = "allowlist"
  BY <1>1, <1>2, <1>4 DEF GrantInv, TenantConfig
<1> QED
  BY <1>3, <1>4 DEF TypeOK

\* A policy a fetch brought back is stored, and is recent.
LEMMA FetchedPolicy ==
  ASSUME PInv, NEW r \in Requests, FetchReturns(r)
  PROVE  AuthInv' /\ CacheInv' /\ RequestInv(r)' /\ GrantIsRecent(r)
<1> DEFINE p == reply[r].config
           t == tenant[r]
           k == key[r]
           d == delay[r]
<1>0. TypeOK /\ AuthInv /\ CacheInv /\ RequestInv(r) /\ UNCHANGED Outside
  BY StepKeepsOutside DEF PInv, RequestSteps
<1>1. /\ reply[r] # None /\ p \in Policies /\ p # None /\ t \in Tenants /\ k \in Keys
      /\ key'[r] = k /\ tenant'[r] = t
      /\ phase[r] = "fetch" /\ Authorise(r, k, t, p, d, fresh[r])
      /\ d \in Nat /\ fresh[r] \in BOOLEAN
      /\ cache' = [cache EXCEPT ![t] = [config |-> p, at |-> now]]
  BY <1>0 DEF FetchReturns, TypeOK, MaybePolicy
<1>2. /\ now \in Nat /\ Began(r) \in Int /\ revoked[k] \in Int /\ lapsed[t][p] \in Int
      /\ AuthTTL \in Nat /\ PolicyTTL \in Nat /\ PolicyTTL > 0 /\ FetchTimeout \in Nat
  BY <1>0, <1>1, PolicyAssumption DEF TypeOK, Times, Never, Began
<1>3. FetchInv(r) /\ source = "catalog" /\ verdict[r] = "none" /\ Began(r) >= now - FetchTimeout
  BY <1>0, <1>1, <1>2 DEF RequestInv, FetchInv, Began, TypeOK
<1>4. InForceSince(t, p, now - FetchTimeout) /\ InForceSince(t, p, now - PolicyBound)
  BY <1>1, <1>2, <1>3 DEF FetchInv, InForceSince, PolicyBound
<1>5. /\ ValidSince(k, now - AuthBound - d)
      /\ fresh[r] => ValidSince(k, now - FetchTimeout - d)
  BY <1>1, <1>2, <1>3 DEF FetchInv, GivenAt, ValidSince, AuthBound
<1> HIDE DEF p, t, k, d
<1>6. RequestInv(r)' /\ granted'[r] = p /\ delay'[r] = d
  BY <1>0, <1>1, <1>3, AuthorisedRequest
<1>7. AuthInv'
  BY <1>0, <1>1, <1>5, TenantRemembered DEF Authorise
<1>8. CacheInv'
  <2> SUFFICES ASSUME NEW q \in Tenants, cache'[q] # None
               PROVE  /\ cache'[q].at <= now /\ now < cache'[q].at + PolicyTTL
                      /\ InForceSince(q, cache'[q].config, cache'[q].at - FetchTimeout)
    BY <1>0 DEF CacheInv, InForceSince, Outside
  <2>1. CASE q = t
    <3>1. cache'[q] = [config |-> p, at |-> now]
      BY <1>0, <1>1, <2>1 DEF TypeOK
    <3> QED
      BY <1>2, <1>4, <2>1, <3>1
  <2>2. CASE q # t
    BY <1>0, <1>1, <2>2 DEF CacheInv, TypeOK
  <2> QED
    BY <2>1, <2>2
<1> QED
  BY <1>1, <1>4, <1>5, <1>6, <1>7, <1>8 DEF GrantIsRecent

LEMMA RequestStep ==
  ASSUME PInv, NEW r \in Requests, RequestSteps(r)
  PROVE  AuthInv' /\ CacheInv' /\ RequestInv(r)' /\ GrantIsRecent(r)
<1>0. TypeOK /\ AuthInv /\ CacheInv /\ RequestInv(r) /\ UNCHANGED Outside
  BY StepKeepsOutside DEF PInv
<1>a. UNCHANGED authCache => AuthInv'
  BY <1>0, AuthCacheStands
<1>c. UNCHANGED cache => CacheInv'
  BY <1>0, CacheStands
<1>n. now \in Nat /\ AuthTTL \in Nat /\ FetchTimeout \in Nat
  BY <1>0, PolicyAssumption DEF TypeOK
<1>1. ASSUME NEW k \in Keys, Arrive(r, k)
      PROVE  AuthInv' /\ CacheInv' /\ RequestInv(r)' /\ GrantIsRecent(r)
  <2>1. phase[r] = "idle" /\ key'[r] = k
    BY <1>0, <1>1 DEF Arrive, TypeOK
  <2>2. granted[r] = None /\ reply[r] = None /\ verdict[r] = "none"
    BY <1>0, <2>1 DEF RequestInv
  <2>3. CASE authCache[k] # None
    <3> DEFINE t == authCache[k].tenant
               d == authCache[k].delay
    <3>1. t \in Tenants /\ d \in Nat /\ tenant'[r] = t /\ Known(r, k, t, d, FALSE)
      BY <1>0, <1>1, <2>3 DEF Arrive, TypeOK
    <3>2. /\ authCache[k].at \in Nat /\ now < authCache[k].at + AuthTTL
          /\ ValidSince(k, authCache[k].at - FetchTimeout - d) /\ revoked[k] \in Int
      BY <1>0, <2>3 DEF AuthInv, TypeOK, Times, Never
    <3>3. ValidSince(k, now - AuthTTL - FetchTimeout - d)
      BY <1>n, <3>1, <3>2 DEF ValidSince
    <3> HIDE DEF t, d
    <3> QED
      BY <1>0, <2>1, <2>2, <3>1, <3>3, KnownRequest
  <2>4. CASE authCache[k] = None
    <3>1. /\ phase'[r] = "exchange" /\ decided'[r] = Never /\ granted'[r] = None
          /\ reply'[r] = None /\ verdict'[r] = "none"
      BY <1>0, <1>1, <2>2, <2>4 DEF Arrive, Given, TypeOK, fetchVars
    <3>2. UNCHANGED <<authCache, cache>>
      BY <1>1, <2>4 DEF Arrive, cacheVars
    <3> QED
      BY <1>a, <1>c, <3>1, <3>2 DEF RequestInv, ExchangeInv, Inside, GrantIsRecent
  <2> QED
    BY <2>3, <2>4
<1>2. CASE ExchangeAnswers(r)
  <2>1. /\ phase[r] = "exchange" /\ key[r] \in Keys /\ TenantOf[key[r]] \in Tenants
        /\ key'[r] = key[r] /\ tenant'[r] = TenantOf[key[r]]
        /\ decided[r] # Never /\ Known(r, key[r], TenantOf[key[r]], now - decided[r], TRUE)
    BY <1>0, <1>2, PolicyAssumption DEF ExchangeAnswers, TypeOK
  <2>2. granted[r] = None /\ reply[r] = None /\ verdict[r] = "none"
    BY <1>0, <2>1 DEF RequestInv
  <2>3. /\ now - decided[r] \in Nat /\ now - (now - decided[r]) = decided[r]
        /\ ValidSince(key[r], decided[r])
    BY <1>0, <1>n, <2>1 DEF RequestInv, ExchangeInv, TypeOK, Times, Never
  <2>4. ValidSince(key[r], now - (now - decided[r]))
    BY <2>3
  <2> QED
    BY <1>0, <2>1, <2>2, <2>3, <2>4, KnownRequest
<1>3. CASE ExchangeFails(r) \/ FetchRefused(r) \/ FetchFails(r)
  <2>1. Ends(r, "unauthorized") /\ UNCHANGED authCache /\ UNCHANGED cache /\ granted' = granted
    BY <1>3 DEF ExchangeFails, FetchRefused, FetchFails, Reject, cacheVars
  <2> QED
    BY <1>0, <1>a, <1>c, <2>1, EndedRequest DEF GrantIsRecent
<1>4. CASE CatalogServes(r)
  <2>1. /\ phase[r] = "fetch" /\ phase'[r] = "fetch" /\ key'[r] = key[r]
        /\ tenant'[r] = tenant[r] /\ fresh'[r] = fresh[r] /\ due'[r] = due[r]
        /\ delay'[r] = delay[r] /\ granted' = granted /\ verdict'[r] = verdict[r]
        /\ UNCHANGED authCache /\ UNCHANGED cache
    BY <1>4 DEF CatalogServes, cacheVars, exchangeVars, answerVars
  <2>2. FetchInv(r) /\ source = "catalog" /\ granted[r] = None /\ verdict[r] = "none"
    BY <1>0, <2>1 DEF RequestInv
  <2>3. reply'[r].config # None => reply'[r].config = policy[tenant[r]]
    BY <1>0, <1>4 DEF CatalogServes, TypeOK
  <2>4. FetchInv(r)'
    BY <1>0, <2>1, <2>2, <2>3
    DEF FetchInv, GivenAt, Began, ValidSince, InForceSince, Outside
  <2> QED
    BY <1>0, <1>a, <1>c, <2>1, <2>2, <2>4 DEF RequestInv, Inside, GrantIsRecent, Outside
<1>5. CASE FetchReturns(r)
  BY <1>5, FetchedPolicy
<1>6. CASE AttemptFails(r)
  <2>1. /\ phase[r] = "fetch" /\ phase'[r] = "fetch" /\ key'[r] = key[r]
        /\ tenant'[r] = tenant[r] /\ fresh'[r] = fresh[r] /\ due'[r] = due[r]
        /\ delay'[r] = delay[r] /\ granted' = granted /\ verdict'[r] = verdict[r]
        /\ reply'[r] = None /\ UNCHANGED authCache /\ UNCHANGED cache
    BY <1>0, <1>6 DEF AttemptFails, cacheVars, exchangeVars, answerVars, TypeOK
  <2>2. FetchInv(r) /\ source = "catalog" /\ granted[r] = None /\ verdict[r] = "none"
    BY <1>0, <2>1 DEF RequestInv
  <2>3. FetchInv(r)'
    BY <1>0, <2>1, <2>2 DEF FetchInv, GivenAt, Began, ValidSince, Outside
  <2> QED
    BY <1>0, <1>a, <1>c, <2>1, <2>2, <2>3 DEF RequestInv, Inside, GrantIsRecent, Outside
<1>7. CASE OpenDataset(r)
  <2>0. phase[r] = "open" /\ UNCHANGED authCache /\ UNCHANGED cache /\ UNCHANGED <<tenant, granted, metered>>
    BY <1>7 DEF OpenDataset, cacheVars
  <2>1. GrantInv(r) /\ verdict[r] = "none" /\ reply[r] = None
    BY <1>0, <2>0 DEF RequestInv, Inside
  <2>2. CASE HasAccess(TenantConfig(r))
    <3>1. /\ phase'[r] = "metering" /\ verdict'[r] = "none" /\ reply'[r] = None
          /\ snapshot'[r] = snapshot[r]
      BY <1>0, <1>7, <2>1, <2>2 DEF OpenDataset, fetchVars, TypeOK
    <3>2. granted[r].access
      BY <1>0, <2>1, <2>2, OneAnswer DEF HasAccess
    <3>3. GrantInv(r)'
      BY <1>0, <2>0, <2>1, <3>1 DEF GrantInv, Outside
    <3> QED
      BY <1>a, <1>c, <2>0, <3>1, <3>2, <3>3 DEF RequestInv, Inside, GrantIsRecent
  <2>3. CASE ~ HasAccess(TenantConfig(r))
    <3>1. Ends(r, "forbidden")
      BY <1>7, <2>3 DEF OpenDataset
    <3> QED
      BY <1>0, <1>a, <1>c, <2>0, <3>1, EndedRequest DEF GrantIsRecent
  <2> QED
    BY <2>2, <2>3
<1>8. CASE Meter(r)
  <2>0. phase[r] = "metering" /\ UNCHANGED authCache /\ UNCHANGED cache
    BY <1>8 DEF Meter, cacheVars
  <2>1. GrantInv(r) /\ verdict[r] = "none" /\ reply[r] = None /\ granted[r].access
    BY <1>0, <2>0 DEF RequestInv, Inside
  <2>2. /\ phase'[r] = "answering" /\ verdict'[r] = "none" /\ reply'[r] = None
        /\ snapshot'[r] = snapshot[r] /\ granted' = granted /\ tenant' = tenant
    BY <1>0, <1>8, <2>1 DEF Meter, fetchVars, TypeOK
  <2>3. metered'[r] = (TenantConfig(r) # None /\ TenantConfig(r).quota)
    BY <1>0, <1>8 DEF Meter, TypeOK
  <2>4. metered'[r] = granted[r].quota
    BY <1>0, <2>1, <2>3, OneAnswer
  <2>5. GrantInv(r)'
    BY <1>0, <2>1, <2>2 DEF GrantInv, Outside
  <2> QED
    BY <1>a, <1>c, <2>0, <2>1, <2>2, <2>4, <2>5 DEF RequestInv, Inside, GrantIsRecent
<1>9. CASE MeterRefuses(r) \/ Cancel(r)
  <2>1. \E v : v \notin {"full", "sanitized"} /\ Ends(r, v)
    BY <1>9 DEF MeterRefuses, Cancel
  <2>2. UNCHANGED authCache /\ UNCHANGED cache /\ granted' = granted
    BY <1>9 DEF MeterRefuses, Cancel, cacheVars
  <2> QED
    BY <1>0, <1>a, <1>c, <2>1, <2>2, EndedRequest DEF GrantIsRecent
<1>10. CASE Answer(r)
  <2>0. /\ phase[r] = "answering" /\ UNCHANGED authCache /\ UNCHANGED cache
        /\ UNCHANGED <<granted, metered>>
        /\ Ends(r, IF IsTrial(TenantConfig(r)) /\ r \notin Internal THEN "sanitized" ELSE "full")
    BY <1>10 DEF Answer, cacheVars
  <2>1. /\ GrantInv(r) /\ verdict[r] = "none" /\ granted[r].access
        /\ metered[r] = granted[r].quota
    BY <1>0, <2>0 DEF RequestInv, Inside
  <2>2. IsTrial(TenantConfig(r)) /\ r \notin Internal <=> granted[r].trial
    BY <1>0, <2>1, OneAnswer DEF IsTrial, GrantInv
  <2>3. /\ phase'[r] = "done" /\ reply'[r] = None
        /\ verdict'[r] = IF IsTrial(TenantConfig(r)) /\ r \notin Internal
                           THEN "sanitized" ELSE "full"
    BY <1>0, <2>0 DEF Ends, FetchEnds, TypeOK
  <2>4. (verdict'[r] = "sanitized") = granted[r].trial
    BY <1>0, <2>1, <2>2, <2>3, OneAnswer
  <2>5. granted[r] # None
    BY <1>0, <2>1, OneAnswer
  <2>6. Decided(r)'
    BY <2>0, <2>1, <2>4, <2>5 DEF Decided
  <2> QED
    BY <1>a, <1>c, <2>0, <2>3, <2>6 DEF RequestInv, Inside, GrantIsRecent
<1>11. CASE Renew(r)
  <2>1. /\ phase[r] = "done" /\ phase'[r] = "idle" /\ granted'[r] = None
        /\ verdict'[r] = "none" /\ reply' = reply
        /\ UNCHANGED authCache /\ UNCHANGED cache
    BY <1>0, <1>11 DEF Renew, cacheVars, fetchVars, TypeOK
  <2> QED
    BY <1>0, <1>a, <1>c, <2>1 DEF RequestInv, Inside, GrantIsRecent
<1>12. CASE DescopeDecides(r)
  <2>1. /\ phase[r] = "exchange" /\ phase'[r] = "exchange" /\ revoked[key[r]] = Never
        /\ decided'[r] = now /\ key'[r] = key[r] /\ granted' = granted
        /\ reply' = reply /\ verdict' = verdict
        /\ UNCHANGED authCache /\ UNCHANGED cache
    BY <1>0, <1>12 DEF DescopeDecides, cacheVars, fetchVars, answerVars, TypeOK
  <2>2. ExchangeInv(r)'
    BY <1>0, <1>n, <2>1 DEF ExchangeInv, ValidSince, Outside
  <2> QED
    BY <1>0, <1>a, <1>c, <2>1, <2>2 DEF RequestInv, Inside, GrantIsRecent
<1> QED
  BY <1>1, <1>2, <1>3, <1>4, <1>5, <1>6, <1>7, <1>8, <1>9, <1>10, <1>11, <1>12 DEF RequestSteps
-----------------------------------------------------------------------------
(* The steps of the world *)

\* A policy that was in force at a past time stays known as such.
LEMMA ChangeRemembers ==
  ASSUME TypeOK, NEW t \in Tenants, NEW p \in MaybePolicy, ChangePolicy(t, p),
         NEW u \in Tenants, NEW c \in Policies, NEW s \in Int, s <= now,
         policy[u] = c \/ lapsed[u][c] >= s
  PROVE  policy'[u] = c \/ lapsed'[u][c] >= s
<1>1. CASE u # t
  BY <1>1 DEF ChangePolicy, TypeOK
<1>2. CASE u = t /\ policy[t] = c
  <2>1. c # None
    BY PolicyAssumption
  <2>2. lapsed' = [lapsed EXCEPT ![t] = [lapsed[t] EXCEPT ![c] = now]]
    BY <1>2, <2>1 DEF ChangePolicy
  <2>3. lapsed'[t][c] = now /\ now \in Nat
    BY <2>2 DEF TypeOK
  <2> QED
    BY <1>2, <2>3
<1>3. CASE u = t /\ policy[t] # c
  <2>1. lapsed[u][c] >= s
    BY <1>3
  <2>2. CASE policy[t] = None
    BY <1>3, <2>1, <2>2 DEF ChangePolicy
  <2>3. CASE policy[t] # None
    <3>1. lapsed' = [lapsed EXCEPT ![t] = [lapsed[t] EXCEPT ![policy[t]] = now]]
      BY <2>3 DEF ChangePolicy
    <3>2. lapsed'[t][c] = lapsed[t][c]
      BY <1>3, <3>1 DEF TypeOK
    <3> QED
      BY <1>3, <2>1, <3>2
  <2> QED
    BY <2>2, <2>3
<1> QED
  BY <1>1, <1>2, <1>3

\* So does a key that was valid then.
LEMMA RevokeRemembers ==
  ASSUME TypeOK, NEW k \in Keys, Revoke(k), NEW u \in Keys, NEW s \in Int, s <= now,
         revoked[u] = Never \/ revoked[u] >= s
  PROVE  revoked'[u] = Never \/ revoked'[u] >= s
  BY DEF Revoke, TypeOK

\* What a world step leaves alone of a request is enough for the rest of its part.
LEMMA WorldKeepsRequest ==
  ASSUME NEW r \in Requests, RequestInv(r), UNCHANGED requestVars, source' = source,
         source = "allowlist" => policy' = policy,
         phase[r] = "exchange" => ExchangeInv(r)', phase[r] = "fetch" => FetchInv(r)'
  PROVE  RequestInv(r)'
<1>1. Same(r)
  BY DEF requestVars, exchangeVars, fetchVars, answerVars, Same
<1>2. phase[r] \in Inside => GrantInv(r)'
  BY <1>1 DEF RequestInv, GrantInv, Same
<1> QED
  BY <1>1, <1>2 DEF RequestInv, Decided, Same

LEMMA TickStep ==
  ASSUME PInv, Tick
  PROVE  AuthInv' /\ CacheInv' /\ \A r \in Requests : RequestInv(r)'
<1>0. TypeOK /\ AuthInv /\ CacheInv /\ UNCHANGED <<worldVars, requestVars>> /\ now' = now + 1
  BY DEF PInv, Tick
<1>1. AuthInv'
  <2> SUFFICES ASSUME NEW k \in Keys, authCache'[k] # None
               PROVE  /\ authCache'[k].at <= now' /\ now' < authCache'[k].at + AuthTTL
                      /\ ValidSince(k, authCache[k].at - FetchTimeout - authCache[k].delay)
                      /\ authCache'[k] = authCache[k]
    BY <1>0 DEF AuthInv, ValidSince, worldVars
  <2>1. authCache'[k] = authCache[k] /\ now + 1 < authCache[k].at + AuthTTL
    BY DEF Tick, Expire
  <2> QED
    BY <1>0, <2>1 DEF AuthInv, TypeOK
<1>2. CacheInv'
  <2> SUFFICES ASSUME NEW t \in Tenants, cache'[t] # None
               PROVE  /\ cache'[t].at <= now' /\ now' < cache'[t].at + PolicyTTL
                      /\ InForceSince(t, cache[t].config, cache[t].at - FetchTimeout)
                      /\ cache'[t] = cache[t]
    BY <1>0 DEF CacheInv, InForceSince, worldVars
  <2>1. cache'[t] = cache[t] /\ now + 1 < cache[t].at + PolicyTTL
    BY DEF Tick, Expire
  <2> QED
    BY <1>0, <2>1 DEF CacheInv, TypeOK
<1>3. ASSUME NEW r \in Requests PROVE RequestInv(r)'
  <2>1. phase[r] = "fetch" => FetchInv(r)'
    <3> SUFFICES ASSUME phase[r] = "fetch" PROVE FetchInv(r)'
      OBVIOUS
    <3>1. FetchInv(r) /\ now < due[r] /\ due[r] \in Nat /\ now \in Nat
      BY <1>0 DEF PInv, RequestInv, Tick, TypeOK
    <3>2. Began(r)' = Began(r) /\ Began(r) <= now + 1 /\ now + 1 <= due[r]
      BY <1>0, <3>1, PolicyAssumption DEF Began, FetchInv, requestVars, fetchVars
    <3> QED
      BY <1>0, <3>1, <3>2
         DEF FetchInv, GivenAt, ValidSince, InForceSince, worldVars, requestVars, exchangeVars,
             fetchVars
  <2>2. phase[r] = "exchange" => ExchangeInv(r)'
    BY <1>0 DEF PInv, RequestInv, ExchangeInv, ValidSince, worldVars, requestVars,
       exchangeVars, TypeOK, Times, Never
  <2> QED
    BY <1>0, <2>1, <2>2, WorldKeepsRequest DEF PInv, worldVars
<1> QED
  BY <1>1, <1>2, <1>3

LEMMA ChangeStep ==
  ASSUME PInv, NEW t \in Tenants, NEW p \in MaybePolicy, ChangePolicy(t, p)
  PROVE  AuthInv' /\ CacheInv' /\ \A r \in Requests : RequestInv(r)'
<1>0. /\ TypeOK /\ AuthInv /\ CacheInv /\ source = "catalog"
      /\ UNCHANGED <<now, source, revoked, cacheVars, requestVars>>
  BY DEF PInv, ChangePolicy
<1>1. AuthInv'
  BY <1>0 DEF AuthInv, ValidSince, cacheVars
<1>2. CacheInv'
  <2> SUFFICES ASSUME NEW u \in Tenants, cache[u] # None
               PROVE  \/ policy'[u] = cache[u].config
                      \/ lapsed'[u][cache[u].config] >= cache[u].at - FetchTimeout
    BY <1>0 DEF CacheInv, InForceSince, cacheVars
  <2>1. /\ cache[u].config \in Policies /\ cache[u].at - FetchTimeout \in Int
        /\ cache[u].at - FetchTimeout <= now
        /\ InForceSince(u, cache[u].config, cache[u].at - FetchTimeout)
    BY <1>0, PolicyAssumption DEF CacheInv, TypeOK
  <2> QED
    BY <1>0, <2>1, ChangeRemembers DEF InForceSince
<1>3. ASSUME NEW r \in Requests PROVE RequestInv(r)'
  <2>1. phase[r] = "fetch" => FetchInv(r)'
    <3> SUFFICES ASSUME phase[r] = "fetch" PROVE FetchInv(r)'
      OBVIOUS
    <3>1. FetchInv(r) /\ Began(r)' = Began(r) /\ Began(r) \in Int /\ tenant[r] \in Tenants
      BY <1>0, PolicyAssumption DEF PInv, RequestInv, Began, TypeOK, requestVars, fetchVars
    <3>2. reply[r] # None /\ reply[r].config # None =>
            \/ policy'[tenant[r]] = reply[r].config
            \/ lapsed'[tenant[r]][reply[r].config] >= Began(r)
      <4> SUFFICES ASSUME reply[r] # None, reply[r].config # None
                   PROVE  \/ policy'[tenant[r]] = reply[r].config
                          \/ lapsed'[tenant[r]][reply[r].config] >= Began(r)
        OBVIOUS
      <4>1. reply[r].config \in Policies
        BY <1>0 DEF TypeOK, MaybePolicy
      <4>2. InForceSince(tenant[r], reply[r].config, Began(r)) /\ Began(r) <= now
        BY <3>1 DEF FetchInv
      <4> QED
        BY <1>0, <3>1, <4>1, <4>2, ChangeRemembers DEF InForceSince
    <3> QED
      BY <1>0, <3>1, <3>2
      DEF FetchInv, GivenAt, ValidSince, InForceSince, requestVars, exchangeVars, fetchVars
  <2>2. phase[r] = "exchange" => ExchangeInv(r)'
    BY <1>0 DEF PInv, RequestInv, ExchangeInv, ValidSince, requestVars, exchangeVars
  <2> QED
    BY <1>0, <2>1, <2>2, WorldKeepsRequest DEF PInv
<1> QED
  BY <1>1, <1>2, <1>3

LEMMA RevokeStep ==
  ASSUME PInv, NEW k \in Keys, Revoke(k)
  PROVE  AuthInv' /\ CacheInv' /\ \A r \in Requests : RequestInv(r)'
<1>0. /\ TypeOK /\ AuthInv /\ CacheInv
      /\ UNCHANGED <<now, source, policy, lapsed, cacheVars, requestVars>>
  BY DEF PInv, Revoke
<1>1. AuthInv'
  <2> SUFFICES ASSUME NEW u \in Keys, authCache[u] # None
               PROVE  \/ revoked'[u] = Never
                      \/ revoked'[u] >= authCache[u].at - FetchTimeout - authCache[u].delay
    BY <1>0 DEF AuthInv, ValidSince, cacheVars
  <2> DEFINE s == authCache[u].at - FetchTimeout - authCache[u].delay
  <2>1. s \in Int /\ s <= now /\ ValidSince(u, s)
    BY <1>0, PolicyAssumption DEF AuthInv, TypeOK
  <2> HIDE DEF s
  <2>2. revoked'[u] = Never \/ revoked'[u] >= s
    BY <1>0, <2>1, RevokeRemembers DEF ValidSince
  <2> QED
    BY <2>2 DEF s
<1>2. CacheInv'
  BY <1>0 DEF CacheInv, InForceSince, cacheVars
<1>3. ASSUME NEW r \in Requests PROVE RequestInv(r)'
  <2>0. key[r] \in Keys /\ RequestInv(r)
    BY <1>0 DEF PInv, TypeOK
  <2>1. phase[r] = "fetch" => FetchInv(r)'
    <3> SUFFICES ASSUME phase[r] = "fetch" PROVE FetchInv(r)'
      OBVIOUS
    <3> DEFINE s == GivenAt(r) - delay[r]
    <3>1. /\ FetchInv(r) /\ Began(r)' = Began(r) /\ GivenAt(r)' = GivenAt(r)
          /\ delay'[r] = delay[r]
      BY <1>0, <2>0 DEF RequestInv, Began, GivenAt, requestVars, exchangeVars, fetchVars
    <3>2. s \in Int /\ s <= now /\ ValidSince(key[r], s)
      BY <1>0, <3>1, PolicyAssumption DEF FetchInv, GivenAt, Began, TypeOK
    <3>3. revoked'[key[r]] = Never \/ revoked'[key[r]] >= s
      <4> HIDE DEF s
      <4> QED
        BY <1>0, <2>0, <3>2, RevokeRemembers DEF ValidSince
    <3> QED
      BY <1>0, <3>1, <3>3 DEF FetchInv, ValidSince, InForceSince, requestVars, fetchVars
  <2>2. phase[r] = "exchange" => ExchangeInv(r)'
    <3> SUFFICES ASSUME phase[r] = "exchange", decided[r] # Never
                 PROVE  \/ revoked'[key[r]] = Never
                        \/ revoked'[key[r]] >= decided[r]
      BY <1>0, <2>0 DEF RequestInv, ExchangeInv, ValidSince, requestVars, exchangeVars
    <3>1. decided[r] \in Int /\ decided[r] <= now /\ ValidSince(key[r], decided[r])
      BY <1>0, <2>0 DEF RequestInv, ExchangeInv, TypeOK, Times, Never
    <3> QED
      BY <1>0, <2>0, <3>1, RevokeRemembers DEF ValidSince
  <2> QED
    BY <1>0, <2>1, <2>2, WorldKeepsRequest DEF PInv
<1> QED
  BY <1>1, <1>2, <1>3

\* A full cache may forget.
LEMMA EvictStep ==
  ASSUME PInv, UNCHANGED <<now, worldVars, requestVars>>,
         \/ \E k \in Keys : authCache' = [authCache EXCEPT ![k] = None] /\ cache' = cache
         \/ \E t \in Tenants : cache' = [cache EXCEPT ![t] = None] /\ authCache' = authCache
         \/ UNCHANGED cacheVars
  PROVE  AuthInv' /\ CacheInv' /\ \A r \in Requests : RequestInv(r)'
<1>0. TypeOK /\ AuthInv /\ CacheInv /\ UNCHANGED <<source, policy, lapsed, revoked>>
  BY DEF PInv, worldVars
<1>1. AuthInv'
  <2>1. \A k \in Keys : authCache'[k] # None => authCache'[k] = authCache[k]
    BY <1>0 DEF TypeOK, cacheVars
  <2> QED
    BY <1>0, <2>1 DEF AuthInv, ValidSince
<1>2. CacheInv'
  <2>1. \A t \in Tenants : cache'[t] # None => cache'[t] = cache[t]
    BY <1>0 DEF TypeOK, cacheVars
  <2> QED
    BY <1>0, <2>1 DEF CacheInv, InForceSince
<1>3. ASSUME NEW r \in Requests PROVE RequestInv(r)'
  <2>1. Same(r) /\ UNCHANGED Outside
    BY <1>0 DEF requestVars, exchangeVars, fetchVars, answerVars, Same, Outside
  <2> QED
    BY <2>1, SameKeeps DEF PInv
<1> QED
  BY <1>1, <1>2, <1>3
-----------------------------------------------------------------------------
(* The theorems *)

LEMMA InitPInv == Init => PInv
<1> SUFFICES ASSUME Init PROVE PInv
  OBVIOUS
<1>1. TypeOK
  BY InitTypes
<1>2. AuthInv /\ CacheInv
  BY DEF Init, AuthInv, CacheInv
<1>3. ASSUME NEW r \in Requests PROVE RequestInv(r)
  BY DEF Init, RequestInv, Inside
<1> QED
  BY <1>1, <1>2, <1>3 DEF PInv

LEMMA StepPInv == PInv /\ [Next]_vars => PInv'
<1> SUFFICES ASSUME PInv, [Next]_vars PROVE PInv'
  OBVIOUS
<1>0. TypeOK
  BY DEF PInv
<1>1. ASSUME NEW r \in Requests, RequestSteps(r) PROVE PInv'
  <2>1. AuthInv' /\ CacheInv' /\ RequestInv(r)'
    BY <1>1, RequestStep
  <2>2. TypeOK'
    BY <1>0, <1>1, RequestStepTypes DEF PInv
  <2>3. ASSUME NEW q \in Requests, q # r PROVE RequestInv(q)'
    BY <1>0, <1>1, <2>3, StepIsLocal, StepKeepsOutside, SameKeeps DEF PInv
  <2> QED
    BY <2>1, <2>2, <2>3 DEF PInv
<1>2. CASE World
  <2>1. TypeOK'
    BY <1>0, <1>2, WorldStepTypes
  <2>2. AuthInv' /\ CacheInv' /\ \A r \in Requests : RequestInv(r)'
    <3>1. CASE Tick
      BY <3>1, TickStep
    <3>2. CASE \E t \in Tenants, p \in MaybePolicy : ChangePolicy(t, p)
      BY <3>2, ChangeStep
    <3>3. CASE \E k \in Keys : Revoke(k)
      BY <3>3, RevokeStep
    <3>4. CASE (\E k \in Keys : EvictTenant(k)) \/ \E t \in Tenants : EvictPolicy(t)
      BY <3>4, EvictStep DEF EvictTenant, EvictPolicy
    <3> QED
      BY <1>2, <3>1, <3>2, <3>3, <3>4 DEF World
  <2> QED
    BY <2>1, <2>2 DEF PInv
<1>3. CASE UNCHANGED vars
  <2>1. TypeOK'
    BY <1>0, <1>3 DEF vars, worldVars, cacheVars, requestVars, exchangeVars, fetchVars, answerVars,
       TypeOK
  <2>2. AuthInv' /\ CacheInv' /\ \A r \in Requests : RequestInv(r)'
    BY <1>3, EvictStep DEF vars
  <2> QED
    BY <2>1, <2>2 DEF PInv
<1> QED
  BY <1>1, <1>2, <1>3 DEF Next

LEMMA AlwaysPInv == Spec => []PInv
  BY InitPInv, StepPInv, PTL DEF Spec

LEMMA StepGrantsRecent ==
  ASSUME PInv, [Next]_vars, NEW r \in Requests
  PROVE  GrantIsRecent(r)
<1>0. TypeOK
  BY DEF PInv
<1>1. ASSUME NEW q \in Requests, RequestSteps(q) PROVE GrantIsRecent(r)
  <2>1. CASE q = r
    BY <1>1, <2>1, RequestStep
  <2>2. CASE q # r
    BY <1>0, <1>1, <2>2, StepIsLocal DEF Same, GrantIsRecent
  <2> QED
    BY <2>1, <2>2
<1>2. CASE World \/ UNCHANGED vars
  <2>1. granted' = granted
    BY <1>2 DEF World, Tick, ChangePolicy, Revoke, EvictTenant, EvictPolicy, vars, requestVars
  <2> QED
    BY <2>1 DEF GrantIsRecent
<1> QED
  BY <1>1, <1>2 DEF Next

\* Every variable of authentication and policy keeps its type.
THEOREM PolicyTyped == Spec => []TypeOK
  BY AlwaysPInv, PTL DEF PInv

\* Whatever the caches and the catalog do while a request runs, the dataset, the quota
\* and the trial projection of its answer are those of the policy that authorised it.
THEOREM RequestDecided == Spec => []OnePolicyPerRequest
<1>1. PInv => OnePolicyPerRequest
  BY DEF PInv, RequestInv, Decided, OnePolicyPerRequest
<1> QED
  BY <1>1, AlwaysPInv, PTL

\* A revoked key authorises nothing after the time to live of its cache entry, two
\* fetches and the delay of the exchange that gave the entry, for every time to live,
\* timeout and delay.
THEOREM RevocationTakesEffect == Spec => RevocationReaches
<1>1. PInv /\ [Next]_vars =>
        [\A r \in Requests : granted'[r] # None /\ granted[r] = None =>
           ValidSince(key'[r], now - AuthBound - delay'[r])]_vars
  BY StepGrantsRecent DEF GrantIsRecent
<1> QED
  BY <1>1, AlwaysPInv, PTL DEF Spec, RevocationReaches

\* No request is authorised with a policy the tenant lost longer ago than the time to
\* live of a cached policy and one fetch.
THEOREM PolicyTakesEffect == Spec => PolicyIsRecent
<1>1. PInv /\ [Next]_vars =>
        [\A r \in Requests : granted'[r] # None /\ granted[r] = None =>
           InForceSince(tenant'[r], granted'[r], now - PolicyBound)]_vars
  BY StepGrantsRecent DEF GrantIsRecent
<1> QED
  BY <1>1, AlwaysPInv, PTL DEF Spec, PolicyIsRecent
=============================================================================
