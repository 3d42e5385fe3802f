------------------------------ MODULE MCDirectory ------------------------------
(***************************************************************************)
(* An instance of Users for TLC: two companies, one of them with a site, a *)
(* location, a department and an asset.                                    *)
(***************************************************************************)
EXTENDS Users, TLC

CONSTANTS c1, c2, p1, l1, d1, a1, x, y

MCLevel == c1 :> "company" @@ c2 :> "company" @@ p1 :> "plant" @@ l1 :> "location"
             @@ d1 :> "department" @@ a1 :> "asset"

MCParent == c1 :> Nobody @@ c2 :> Nobody @@ p1 :> c1 @@ l1 :> p1 @@ d1 :> l1 @@ a1 :> c1

MCFirstLabel == [n \in Node |-> IF n = c2 THEN y ELSE x]

(* Whoever looks after the second company, and an administrator of the tenant. *)
MCScope == {{c2}, {c1, c2}}

MCSymmetry == Permutations(User) \cup Permutations(Email)
=============================================================================
