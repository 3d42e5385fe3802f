--------------------------- MODULE MCAssetRegistry ---------------------------
(***************************************************************************)
(* Instances of AssetRegistry for TLC.                                     *)
(***************************************************************************)
EXTENDS AssetRegistry, TLC

CONSTANTS ty1, ty2, c1, c2

MCCompanyOf == [ty \in AssetType |-> c1]

(* Every type has its own prefix, or all have the same one. *)
MCOwnLabel == [ty \in AssetType |-> IF ty = ty1 THEN "LAP-" ELSE "MON-"]
MCSharedLabel == [ty \in AssetType |-> "LAP-"]

(* A caller may choose the number the second asset would get. *)
MCManual == {<<"LAP-", 2>>}
MCNoManual == {}
=============================================================================
