----------------------------- MODULE MCServices -----------------------------
(* Seven components that share no state, checked side by side: a behaviour is  *)
(* one of the component that "subject" names, the others stay as they start. *)
EXTENDS Denylist, HrServer, ItServer, KeyCache, ActorToken, ConsentScreen, ToolPath, TLC

CONSTANTS t1, t2, t3, ann, hrm, mac, spare, x1, x2, j1, j2

\* Denylist: one token expires early, the others outlive the clock.
Expiries3 == t1 :> 0 @@ t2 :> 2 @@ t3 :> 2

\* HrServer: an employee, and an approver who also applies for leave.
Names == ann :> "ann" @@ hrm :> "hrm"
Scopes2 == ann :> {"hr_self_rest"}
        @@ hrm :> {"hr_approve_rest", "hr_assets_write_rest", "hr_self_rest"}
Annual == "annual" :> 2

\* ItServer: an asset of which two are in stock, and one not in the catalogue.
Stock == mac :> 2

\* ToolPath: an employee and an administrator.
EmployeeRole == {"hr_basic_rest", "hr_self_rest", "it_assets_self_rest", "it_assets_read_rest"}
AdminRole == EmployeeRole \cup {"hr_read_rest", "hr_approve_rest", "hr_assets_write_rest", "it_assets_write_rest"}
BothRoles == {EmployeeRole, AdminRole}

VARIABLE subject

\* Denylist: two things go wrong at most, of a restart, a stray post and the
\* first attempts of legs.
FewFaults ==
  restarts + Cardinality({p \in Strays : post[p] # "idle"})
           + Cardinality({t \in Tokens : leg[t] \in {"pause", "failed"} \/ post[<<t, 2>>] # "idle"}) <= 2

Subjects == {"denylist", "hr", "it", "keys", "actor", "screen", "path"}

restVars == <<vars, hrVars, itVars, kcVars, atVars, csVars, tpVars>>
servicesVars == <<subject, restVars>>

ServicesInit ==
  /\ subject \in Subjects
  /\ Init /\ HrInit /\ ItInit /\ KcInit /\ AtInit /\ CsInit /\ TpInit
  /\ subject # "keys" => ages /\ keys = {} /\ fetchedAt = 0
  /\ subject # "path" => role = AdminRole

ServicesNext ==
  /\ UNCHANGED subject
  /\ \/ subject = "denylist" /\ Next /\ FewFaults' /\ UNCHANGED <<hrVars, itVars, kcVars, atVars, csVars, tpVars>>
     \/ subject = "hr" /\ HrNext /\ UNCHANGED <<vars, itVars, kcVars, atVars, csVars, tpVars>>
     \/ subject = "it" /\ ItNext /\ UNCHANGED <<vars, hrVars, kcVars, atVars, csVars, tpVars>>
     \/ subject = "keys" /\ KcNext /\ UNCHANGED <<vars, hrVars, itVars, atVars, csVars, tpVars>>
     \/ subject = "actor" /\ AtNext /\ UNCHANGED <<vars, hrVars, itVars, kcVars, csVars, tpVars>>
     \/ subject = "screen" /\ CsNext /\ UNCHANGED <<vars, hrVars, itVars, kcVars, atVars, tpVars>>
     \/ subject = "path" /\ TpNext /\ UNCHANGED <<vars, hrVars, itVars, kcVars, atVars, csVars>>

ServicesSpec == ServicesInit /\ [][ServicesNext]_servicesVars

\* The moving component's variables keep their types; neither the denylist nor
\* the rate limit's bucket outgrows its cap.
ServicesTypeOK ==
  CASE subject = "denylist" -> TypeOK
    [] subject = "hr" -> HrTypeOK
    [] subject = "it" -> ItTypeOK
    [] subject = "keys" -> KcTypeOK
    [] subject = "actor" -> AtTypeOK
    [] subject = "screen" -> CsTypeOK
    [] subject = "path" -> TpTypeOK

\* What can be swapped in each component; only one component moves.
Swap == t2 :> t3 @@ t3 :> t2 @@ x1 :> x2 @@ x2 :> x1 @@ j1 :> j2 @@ j2 :> j1
Symmetry == {p \in Permutations(DOMAIN Swap) : p = Swap \/ \A m \in DOMAIN Swap : p[m] = m}
=============================================================================
