---------------------------- MODULE MCTenantPolicy ----------------------------
(***************************************************************************)
(* Two interchangeable requests at a time with a key of one tenant.  The   *)
(* tenant has a trial policy with a quota until the catalog takes it away; *)
(* in the allowlist it may have none.                                      *)
(***************************************************************************)
EXTENDS TenantPolicy, TLC

MCTenantOf == [k \in Keys |-> CHOOSE t \in Tenants : TRUE]
MCPolicies == {[access |-> TRUE, quota |-> TRUE, trial |-> TRUE]}
MCSymmetry == Permutations(Requests)

MCInit == Init /\ (source = "catalog" => \A t \in Tenants : policy[t] # None)
MCSpec == MCInit /\ [][Next]_vars
=============================================================================
