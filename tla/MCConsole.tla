------------------------------- MODULE MCConsole -------------------------------
(***************************************************************************)
(* An instance of Console for TLC: two rows, one of which is what a search *)
(* finds; on the assets page two types and an asset, on the page of an     *)
(* asset its state and two of the other rows it shows.                     *)
(***************************************************************************)
EXTENDS Console

CONSTANTS i1, i2, i3, v1

MCItemsOf == [p \in Page |-> IF p \in {"asset", "assets"} THEN {i1, i2, i3} ELSE {i1, i2}]

MCFirstRows == {[i \in Item |-> IF i = i1 THEN v1 ELSE Nil]}

MCPermissions == {{"read", "write"}}
=============================================================================
