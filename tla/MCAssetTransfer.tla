--------------------------- MODULE MCAssetTransfer ---------------------------
(***************************************************************************)
(* Instances of AssetTransfer for TLC.                                     *)
(***************************************************************************)
EXTENDS AssetTransfer, TLC

CONSTANTS d1, d2, l1, l2, p1, p2, t1, t2

(* Handlers are alike, and so are the identifiers of transfers. *)
Symmetry == Permutations({p1, p2}) \cup Permutations({t1, t2})

(* No department, or d1 in l1 and d2 in l2. *)
MCNoDeptLocation == <<>>
MCDeptLocation == d1 :> l1 @@ d2 :> l2

(***************************************************************************)
(* A plausible relation: stock and users exchange assets, a user passes    *)
(* one on, what is in repair only comes back to stock, and a move within   *)
(* stock is not a transition.                                              *)
(***************************************************************************)
MCAllowed == { <<"IN_STOCK", "ASSIGNED">>, <<"ASSIGNED", "IN_STOCK">>,
               <<"ASSIGNED", "ASSIGNED">>, <<"IN_REPAIR", "IN_STOCK">> }

=============================================================================
