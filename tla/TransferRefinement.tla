-------------------------- MODULE TransferRefinement --------------------------
(***************************************************************************)
(* AssetTransfer implements TransferLedger: whatever the handlers, the     *)
(* transactions and the crashes do, somebody who looks at the transfers    *)
(* and at the assets sees requests, decisions and handovers that happen in *)
(* one step each.  The one visible write of a handler is the step of the   *)
(* ledger; everything before and after it is a stuttering step.            *)
(***************************************************************************)
EXTENDS TransferRecordsProofs

(* The assignment the mapping chooses, when a collection has one of the asset. *)
LEMMA HolderOf ==
    ASSUME NEW S, NEW a, NEW x \in S, x.asset = a, \A y \in S : y.asset = a => y = x
    PROVE  (CHOOSE y \in S : y.asset = a) = x
  OBVIOUS

(* What the mapping makes of an asset: its custodian is the user of an open assignment. *)
LEMMA CustodianOf ==
    ASSUME NEW a \in Asset
    PROVE  /\ OpenOf(a) = {} => Custodian[a] = NoUser
           /\ \A x \in OpenOf(a) : (\A y \in OpenOf(a) : y = x) => Custodian[a] = x.user
  <1>1. CASE OpenOf(a) = {}
    BY <1>1 DEF Custodian
  <1>2. ASSUME NEW x \in OpenOf(a), \A y \in OpenOf(a) : y = x
        PROVE  Custodian[a] = x.user
    <2>1. (CHOOSE y \in open : y.asset = a) = x
      BY <1>2, HolderOf DEF OpenOf
    <2>2. QED
      BY <2>1 DEF Custodian
  <1>3. QED
    BY <1>1, <1>2

(* The custodian of an asset is a user, or nobody exactly when nothing is open. *)
LEMMA CustodianTyped ==
    ASSUME TypeOK, CustodyConsistent, NEW a \in Asset
    PROVE  /\ Custodian[a] \in User \cup {NoUser}
           /\ OpenOf(a) # {} => Custodian[a] # NoUser
  <1>1. CASE OpenOf(a) = {}
    BY <1>1, CustodianOf
  <1>2. CASE OpenOf(a) # {}
    <2>1. PICK x \in OpenOf(a) : TRUE
      BY <1>2
    <2>2. \A y \in OpenOf(a) : y = x
      BY DEF CustodyConsistent
    <2>3. x.user \in User
      BY <2>1 DEF OpenOf, TypeOK, Assignment
    <2>4. Custodian[a] = x.user
      BY <2>2, CustodianOf
    <2>5. QED
      BY <2>3, <2>4, TransferAssumption
  <1>3. QED
    BY <1>1, <1>2

(* The initial states are initial states of the ledger. *)
LEMMA LedgerInit == Init => Ledger!Init
  <1> SUFFICES ASSUME Init PROVE Ledger!Init
    OBVIOUS
  <1>1. TypeOK /\ CustodyConsistent
    BY InitInv DEF Inv
  <1>2. Custodian \in [Asset -> User \cup {NoUser}]
    BY <1>1, CustodianTyped DEF Custodian
  <1>3. ASSUME NEW a \in Asset
        PROVE  /\ lifecycle[a] = "ASSIGNED" => Custodian[a] # NoUser
               /\ lifecycle[a] = "IN_STOCK" => Custodian[a] = NoUser
    BY <1>1, CustodianTyped, CustodianOf DEF CustodyConsistent
  <1>4. status = [t \in Transfer |-> "NONE"] /\ order = [t \in Transfer |-> NoOrder]
    BY DEF Init
  <1>5. QED
    BY <1>2, <1>3, <1>4 DEF Ledger!Init

-----------------------------------------------------------------------------
(* A step that touches no document is invisible. *)
LEMMA InvisibleStep ==
    ASSUME UNCHANGED documents
    PROVE  UNCHANGED Ledger!ledgerVars
  <1>1. Custodian' = Custodian
    BY DEF documents, Custodian, OpenOf
  <1>2. QED
    BY <1>1 DEF documents, Ledger!ledgerVars

(* Inserting the document is the request. *)
LEMMA InsertRequests ==
    ASSUME Inv, RecordsInv, NEW p \in Proc, Insert(p)
    PROVE  Ledger!Next
  <1>1. /\ job[p].t \in Transfer
        /\ job[p].order \in Order
        /\ status[job[p].t] = "NONE"
    BY DEF Inv, JobsKnow, RecordsInv, FreshRequests, Requesting, Insert
  <1>2. /\ status' = [status EXCEPT ![job[p].t] = "PENDING"]
        /\ order' = [order EXCEPT ![job[p].t] = job[p].order]
        /\ UNCHANGED <<lifecycle, location, department, open>>
    BY DEF Insert
  <1>3. Custodian' = Custodian
    BY <1>2 DEF Custodian, OpenOf
  <1>4. Ledger!Request(job[p].t, job[p].order)
    BY <1>1, <1>2, <1>3 DEF Ledger!Request, Ledger!custody
  <1>5. QED
    BY <1>1, <1>4 DEF Ledger!Next

(* The compare and set is the decision it is named for. *)
LEMMA DecideDecides ==
    ASSUME Inv, RecordsInv, NEW p \in Proc, Decide(p), ~Refuse(p)
    PROVE  Ledger!Next
  <1>1. PICK t \in Transfer : job[p].t = t
    BY DEF Inv, JobsKnow, Decide
  <1>2. /\ status[t] \in Prior(job[p].decision)
        /\ job[p].decision \in {"APPROVED", "REJECTED", "CANCELLED"}
        /\ status' = [status EXCEPT ![t] = job[p].decision]
        /\ UNCHANGED <<order, lifecycle, location, department, open>>
    BY <1>1 DEF Decide, Inv, DecisionsFit, Fits
  <1>3. Custodian' = Custodian
    BY <1>2 DEF Custodian, OpenOf
  <1>4. CASE job[p].decision = "APPROVED"
    BY <1>2, <1>3, <1>4 DEF Ledger!Next, Ledger!Approve, Ledger!custody, Prior
  <1>5. CASE job[p].decision = "REJECTED"
    BY <1>2, <1>3, <1>5 DEF Ledger!Next, Ledger!Reject, Ledger!custody, Prior
  <1>6. CASE job[p].decision = "CANCELLED"
    BY <1>2, <1>3, <1>6 DEF Ledger!Next, Ledger!Cancel, Ledger!custody, Prior
  <1>7. QED
    BY <1>2, <1>4, <1>5, <1>6

(***************************************************************************)
(* The commit is the handover: it replaces the holder by the user of the   *)
(* order, or by nobody, and leaves every other asset its holder.           *)
(***************************************************************************)
LEMMA CommitCompletes ==
    ASSUME Inv, Inv', RecordsInv, NEW p \in Proc, Commit(p)
    PROVE  Ledger!Next
  <1>0. PICK t \in Transfer, o \in Order : job[p].t = t /\ job[p].order = o
    BY DEF Inv, JobsKnow, Commit
  <1> DEFINE a == o.asset
  <1>1. /\ a \in Asset
        /\ order[t] = o
        /\ status[t] = "APPROVED"
        /\ job[p].existing = OpenOf(a)
        /\ <<lifecycle[a], To(o)>> \in Allowed
    BY <1>0, CommitKnows, OrderFields DEF Commit
  <1>2. /\ open' = (open \ OpenOf(a)) \cup NewAssignment(t, o)
        /\ lifecycle' = [lifecycle EXCEPT ![a] = To(o)]
        /\ location' = [location EXCEPT ![a] = Moved(@, o.location, NoLocation)]
        /\ department' = [department EXCEPT ![a] = Moved(@, o.department, NoDepartment)]
        /\ status' = [status EXCEPT ![t] = "COMPLETED"]
        /\ order' = order
    BY <1>0, <1>1 DEF Commit
  <1> HIDE DEF a
  <1>3. /\ OpenOf(a)' = NewAssignment(t, o)
        /\ \A b \in Asset : b # a => OpenOf(b)' = OpenOf(b)
    <2>1. \A x \in NewAssignment(t, o) : x.asset = a
      BY NewAssignmentOfOrder DEF a
    <2>2. OpenOf(a)' = NewAssignment(t, o)
      BY <1>2, <2>1 DEF OpenOf
    <2>3. ASSUME NEW b \in Asset, b # a PROVE OpenOf(b)' = OpenOf(b)
      BY <1>2, <2>1, <2>3 DEF OpenOf
    <2>4. QED
      BY <2>2, <2>3
  <1>4. Custodian'[a] = o.user
    <2>1. CASE o.user = NoUser
      <3>1. OpenOf(a)' = {}
        BY <1>3, <2>1, NewAssignmentOfOrder
      <3>2. QED
        BY <1>1, <2>1, <3>1 DEF Custodian
    <2>2. CASE o.user # NoUser
      <3>1. PICK x \in OpenOf(a)' : x.user = o.user
        BY <1>3, <2>2, NewAssignmentOfOrder DEF NewAssignment
      <3>2. \A y \in OpenOf(a)' : y = x
        BY <1>1 DEF Inv, CustodyConsistent
      <3>3. (CHOOSE y \in open' : y.asset = a) = x
        BY <3>1, <3>2, HolderOf DEF OpenOf
      <3>4. QED
        BY <1>1, <3>1, <3>3 DEF Custodian
    <2>3. QED
      BY <2>1, <2>2
  <1>5. ASSUME NEW b \in Asset, b # a
        PROVE  Custodian'[b] = Custodian[b]
    <2>1. OpenOf(b)' = OpenOf(b)
      BY <1>3, <1>5
    <2>2. CASE OpenOf(b) = {}
      BY <2>1, <2>2 DEF Custodian
    <2>3. CASE OpenOf(b) # {}
      <3>1. PICK x \in OpenOf(b) : TRUE
        BY <2>3
      <3>2. \A y \in OpenOf(b) : y = x
        BY DEF Inv, CustodyConsistent
      <3>3. (CHOOSE y \in open : y.asset = b) = x
        BY <3>1, <3>2, HolderOf DEF OpenOf
      <3>4. (CHOOSE y \in open' : y.asset = b) = x
        BY <2>1, <3>1, <3>2, HolderOf DEF OpenOf
      <3>5. Custodian[b] = x.user
        BY <2>3, <3>3 DEF Custodian
      <3>6. OpenOf(b)' # {}
        BY <2>1, <2>3
      <3>7. Custodian'[b] = x.user
        BY <3>4, <3>6 DEF Custodian
      <3>8. QED
        BY <3>5, <3>7
    <2>4. QED
      BY <2>2, <2>3
  <1>6. Custodian' = [Custodian EXCEPT ![a] = o.user]
    <2>1. /\ Custodian = [b \in Asset |-> Custodian[b]]
          /\ Custodian' = [b \in Asset |-> Custodian'[b]]
      BY DEF Custodian
    <2>2. QED
      BY <1>1, <1>4, <1>5, <2>1
  <1>7. Ledger!Complete(t)
    BY <1>1, <1>2, <1>6 DEF Ledger!Complete, Ledger!Moved, Moved, To, a
  <1>8. QED
    BY <1>7 DEF Ledger!Next

-----------------------------------------------------------------------------
(* Every step is a step of the ledger or leaves it as it is. *)
LEMMA LedgerStep ==
    Inv /\ Inv' /\ RecordsInv /\ [Next]_vars => [Ledger!Next]_(Ledger!ledgerVars)
  <1> SUFFICES ASSUME Inv, Inv', RecordsInv, [Next]_vars, ~UNCHANGED Ledger!ledgerVars
               PROVE  Ledger!Next
    OBVIOUS
  <1>1. ~UNCHANGED documents
    BY InvisibleStep
  <1>2. PICK p \in Proc : Insert(p) \/ Decide(p) \/ Commit(p)
    BY <1>1 DEF Next, vars, Step, Request, ReadTransfer, Crash, SetActive, LosePlace, Refuse,
                CheckExisting, CheckUser, CheckDestination, Begin, GiveUp, Seize, Conflict,
                Audit, RecordEvent
  <1>3. ~Refuse(p)
    BY <1>1 DEF Refuse
  <1>4. QED
    BY <1>2, <1>3, InsertRequests, DecideDecides, CommitCompletes

(***************************************************************************)
(* The transfer service, with its concurrent handlers, its retried         *)
(* transactions and its crashes, implements the ledger: request, decision  *)
(* and handover are atomic to whoever reads the documents, a transfer      *)
(* never leaves the path PENDING, APPROVED, COMPLETED but once for good,   *)
(* and an asset changes hands only as an approved order says, by a move    *)
(* that the lifecycle relation allows.                                     *)
(***************************************************************************)
THEOREM ServiceImplementsLedger == Spec => ImplementsLedger
  <1>1. Spec => Ledger!Spec
    BY LedgerInit, LedgerStep, TransferInvariance, PTL DEF Spec, Ledger!Spec
  <1>2. QED
    BY <1>1 DEF ImplementsLedger
=============================================================================
