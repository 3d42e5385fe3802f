--------------------------- MODULE TransferLedger ---------------------------
(***************************************************************************)
(* What the transfer service promises to somebody who sees only its        *)
(* results: a transfer request walks PENDING -> APPROVED -> COMPLETED, or  *)
(* leaves that path once for REJECTED or CANCELLED, and completing it      *)
(* hands the asset over in one step - custodian, lifecycle status,         *)
(* location and department together.  There are no requests in progress,   *)
(* no transactions and no locks here; AssetTransfer implements this        *)
(* specification with all of them.                                         *)
(***************************************************************************)

CONSTANTS
    Transfer,       \* identifiers of transfer requests
    Asset,
    User, NoUser,
    Order,          \* what a transfer can ask for: [asset, user, location, department]
    NoOrder,
    NoLocation, NoDepartment,
    Allowed         \* <<from, to>>: the moves of lifecycle status that are allowed

VARIABLES
    status,         \* per transfer, "NONE" while it is not requested
    order,          \* per transfer, what it asks for
    custodian,      \* per asset, the user who holds it or NoUser
    lifecycle,      \* per asset, its lifecycle status
    location,       \* per asset
    department      \* per asset

ledgerVars == <<status, order, custodian, lifecycle, location, department>>

custody == <<custodian, lifecycle, location, department>>

(***************************************************************************)
(* No transfer has been requested; an asset is ASSIGNED only to somebody,  *)
(* and IN_STOCK only when nobody holds it.                                 *)
(***************************************************************************)
Init ==
    /\ status = [t \in Transfer |-> "NONE"]
    /\ order = [t \in Transfer |-> NoOrder]
    /\ custodian \in [Asset -> User \cup {NoUser}]
    /\ \A a \in Asset :
        /\ lifecycle[a] = "ASSIGNED" => custodian[a] # NoUser
        /\ lifecycle[a] = "IN_STOCK" => custodian[a] = NoUser

Request(t, o) ==
    /\ status[t] = "NONE"
    /\ status' = [status EXCEPT ![t] = "PENDING"]
    /\ order' = [order EXCEPT ![t] = o]
    /\ UNCHANGED custody

Approve(t) ==
    /\ status[t] = "PENDING"
    /\ status' = [status EXCEPT ![t] = "APPROVED"]
    /\ UNCHANGED <<order, custody>>

Reject(t) ==
    /\ status[t] = "PENDING"
    /\ status' = [status EXCEPT ![t] = "REJECTED"]
    /\ UNCHANGED <<order, custody>>

Cancel(t) ==
    /\ status[t] \in {"PENDING", "APPROVED"}
    /\ status' = [status EXCEPT ![t] = "CANCELLED"]
    /\ UNCHANGED <<order, custody>>

Moved(old, new, none) == IF new = none THEN old ELSE new

(***************************************************************************)
(* The whole handover.  An asset that goes to a user is ASSIGNED to that   *)
(* user; one that only moves goes back to stock, and its holder is         *)
(* released.  A destination that was not named leaves its part alone.      *)
(***************************************************************************)
Complete(t) ==
    LET o  == order[t]
        a  == o.asset
        to == IF o.user # NoUser THEN "ASSIGNED" ELSE "IN_STOCK"
    IN  /\ status[t] = "APPROVED"
        /\ <<lifecycle[a], to>> \in Allowed
        /\ status' = [status EXCEPT ![t] = "COMPLETED"]
        /\ custodian' = [custodian EXCEPT ![a] = o.user]
        /\ lifecycle' = [lifecycle EXCEPT ![a] = to]
        /\ location' = [location EXCEPT ![a] = Moved(@, o.location, NoLocation)]
        /\ department' = [department EXCEPT ![a] = Moved(@, o.department, NoDepartment)]
        /\ order' = order

Next ==
    \E t \in Transfer :
        \/ \E o \in Order : Request(t, o)
        \/ Approve(t)
        \/ Reject(t)
        \/ Cancel(t)
        \/ Complete(t)

Spec == Init /\ [][Next]_ledgerVars
=============================================================================
