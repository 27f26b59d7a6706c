---------------------------- MODULE Services_proofs ----------------------------
(***************************************************************************)
(* The services side by side: a behaviour of MCServices is one of each of  *)
(* its seven components, so that what is proved of a component holds of    *)
(* the behaviours that are model-checked.                                  *)
(***************************************************************************)
EXTENDS MCServices, Denylist_proofs, ResourceServers_proofs, ConsentScreen_proofs

\* The components start as their own modules say, and one of them may move.
LEMMA ServicesStart ==
  ServicesInit => Init /\ HrInit /\ ItInit /\ KcInit /\ AtInit /\ CsInit /\ TpInit /\ subject \in Subjects
  BY DEF ServicesInit

\* Whoever moves, each component takes a step of its own or none.
LEMMA ServicesStep ==
  [ServicesNext]_servicesVars =>
    /\ [Next]_vars /\ [HrNext]_hrVars /\ [ItNext]_itVars /\ [KcNext]_kcVars
    /\ [AtNext]_atVars /\ [CsNext]_csVars /\ [TpNext]_tpVars
    /\ UNCHANGED subject
<1> SUFFICES ASSUME [ServicesNext]_servicesVars
             PROVE  /\ [Next]_vars /\ [HrNext]_hrVars /\ [ItNext]_itVars /\ [KcNext]_kcVars
                    /\ [AtNext]_atVars /\ [CsNext]_csVars /\ [TpNext]_tpVars
                    /\ UNCHANGED subject
  OBVIOUS
<1>1. CASE UNCHANGED servicesVars
  BY <1>1 DEF servicesVars, restVars
<1>2. CASE ServicesNext
  BY <1>2 DEF ServicesNext
<1> QED
  BY <1>1, <1>2

\* The services as they run side by side: each of them behaves as its own module
\* says, and the one that moves stays the same.
THEOREM ServicesAreComponents ==
  ServicesSpec => /\ Spec /\ HrSpec /\ ItSpec /\ KcSpec /\ AtSpec /\ CsSpec /\ TpSpec
                  /\ [](subject \in Subjects)
<1>1. subject \in Subjects /\ UNCHANGED subject => (subject \in Subjects)'
  OBVIOUS
<1> QED
  BY <1>1, ServicesStart, ServicesStep, PTL
  DEF ServicesSpec, Spec, HrSpec, ItSpec, KcSpec, AtSpec, CsSpec, TpSpec

\* ServicesTypeOK: whichever component moves keeps its types in all behaviours of
\* MCServices, and the receiver's denylist and rate bucket their caps.
THEOREM ServicesTypeCorrect == ServicesSpec => []ServicesTypeOK
<1>1. /\ subject \in Subjects
      /\ TypeOK /\ HrTypeOK /\ ItTypeOK /\ KcTypeOK /\ AtTypeOK /\ CsInv /\ TpTypeOK
      => ServicesTypeOK
  BY DEF Subjects, ServicesTypeOK, CsInv
<1> QED
  BY <1>1, ServicesAreComponents, ReceiverStaysCapped, HrTypeCorrect, ItTypeCorrect, KcTypeCorrect,
     AtTypeCorrect, CsInductive, TpTypeCorrect, PTL

==============================================================================
