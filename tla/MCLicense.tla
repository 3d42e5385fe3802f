------------------------------ MODULE MCLicense ------------------------------
(***************************************************************************)
(* An instance of LicenseNotifications for TLC: one tenant, one person who *)
(* looks after its licence, and terms that end today or tomorrow.          *)
(***************************************************************************)
EXTENDS LicenseNotifications, TLC

CONSTANTS t1, q1, q2, k1, v1, r1

(* One plan with a feature and one without. *)
MCFeatures == [q \in Plan |-> IF q = q1 THEN k1 :> v1 ELSE <<>>]

MCRecipients == [t \in Tenant |-> {r1}]
=============================================================================
