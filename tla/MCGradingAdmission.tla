-------------------------- MODULE MCGradingAdmission --------------------------
(* Instances of GradingAdmission for TLC. *)
EXTENDS GradingAdmission, TLC

\* Two requests for one task of tenant "a", one for another, and one outside the
\* admission.
QuotaKeys == (1 :> "a1") @@ (2 :> "a1") @@ (3 :> "a2") @@ (4 :> "a3")
\* Two tasks of each tenant.
SlotKeys == (1 :> "a1") @@ (2 :> "b1") @@ (3 :> "b2") @@ (4 :> "a2")
KeyTenants == [k \in {"a1", "a2", "a3", "b1", "b2", "b3"} |->
                 IF k \in {"a1", "a2", "a3"} THEN "a" ELSE "b"]
=============================================================================
