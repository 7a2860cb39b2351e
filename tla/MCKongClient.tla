---------------------------- MODULE MCKongClient ----------------------------
(***************************************************************************)
(* Small instances of KongClient for TLC.                                  *)
(***************************************************************************)
EXTENDS KongClient, TLC

CONSTANTS svc, route, v1, v2, uid, g1, g2

(* A route whose backend is a Service, until its second version drops it.  *)
MCRefs == [ov \in Objects \X Versions |->
              IF ov = <<route, v1>> THEN {<<svc>>} ELSE {}]
MCUidOf == [ov \in Objects \X Versions |-> uid]
MCRejectedService == {<<svc, v2>>}
MCUntranslatable == (Objects \ {svc}) \X {v2}

GatewaySymmetry == Permutations(Gateways)
=============================================================================
