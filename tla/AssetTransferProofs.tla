------------------------- MODULE AssetTransferProofs -------------------------
(***************************************************************************)
(* Proofs about AssetTransfer, for any number of handlers, transfers,      *)
(* assets, users and places and any lifecycle relation: the types are      *)
(* kept, and an asset and its assignments move together.                   *)
(***************************************************************************)
EXTENDS AssetTransfer, TLAPS

InTransaction(p) == pc[p] \in {"seize", "commit"}

(* A handler at work knows its transfer and what it asks for. *)
JobsKnow ==
    \A p \in Proc : pc[p] # "idle" => job[p].t \in Transfer /\ job[p].order \in Order

(* A transfer that exists has an order. *)
OrdersKnown == \A t \in Transfer : status[t] # "NONE" => order[t] \in Order

(* The transfer that a handler has read or written does not go away. *)
TransfersExist ==
    \A p \in Proc :
        pc[p] \in {"decide", "begin", "seize", "commit", "audit", "event"}
            => status[job[p].t] # "NONE"

(* The decisions a handler can be working on when it is at an await. *)
Fits(where, d) ==
    /\ where \in {"exists", "user", "destination", "insert"} => d = "PENDING"
    /\ where = "decide" => d \in {"APPROVED", "REJECTED", "CANCELLED"}
    /\ where \in {"begin", "seize", "commit", "event"} => d = "COMPLETED"

DecisionsFit == \A p \in Proc : Fits(pc[p], job[p].decision)

(* A completion past its snapshot remembers the status the asset had. *)
FromKnown ==
    \A p \in Proc :
        \/ InTransaction(p)
        \/ pc[p] = "event"
        \/ pc[p] = "audit" /\ job[p].decision = "COMPLETED"
        => job[p].from \in Lifecycle

(***************************************************************************)
(* Until it commits, a transaction's copies of the asset's status and of   *)
(* its open assignment are the current ones.                               *)
(***************************************************************************)
SnapshotCurrent ==
    \A p \in Proc : InTransaction(p) =>
        /\ job[p].existing = OpenOf(job[p].order.asset)
        /\ job[p].from = lifecycle[job[p].order.asset]

(* No two transactions work on one asset. *)
OneTransactionPerAsset ==
    \A p, q \in Proc :
        InTransaction(p) /\ InTransaction(q) /\ job[p].order.asset = job[q].order.asset
            => p = q

(***************************************************************************)
(* The inductive invariant.  CustodyConsistent is not inductive by itself: *)
(* a commit closes the assignment its transaction once read, which is the  *)
(* open one only because no other transaction committed in between.        *)
(***************************************************************************)
Inv ==
    /\ TypeOK
    /\ JobsKnow
    /\ OrdersKnown
    /\ TransfersExist
    /\ DecisionsFit
    /\ FromKnown
    /\ CustodyConsistent
    /\ SnapshotCurrent
    /\ OneTransactionPerAsset

-----------------------------------------------------------------------------
(* NewJob and NoJob are jobs, with the fields they were given. *)
LEMMA JobFields ==
    /\ NoJob \in Job
    /\ \A t \in Transfer, d \in Decisions \cup {"PENDING"}, o \in Order :
        /\ NewJob(t, d, o) \in Job
        /\ NewJob(t, d, o).t = t
        /\ NewJob(t, d, o).decision = d
        /\ NewJob(t, d, o).order = o
        /\ NewJob(t, d, o).from = "NONE"
        /\ NewJob(t, d, o).existing = {}
  BY DEF NoJob, NewJob, Job

(* What an order asks for is of its sort. *)
LEMMA OrderFields ==
    ASSUME NEW o \in Order
    PROVE  /\ o.asset \in Asset
           /\ o.user \in User \cup {NoUser}
           /\ o.location \in Location \cup {NoLocation}
           /\ o.department \in Department \cup {NoDepartment}
           /\ To(o) \in Lifecycle
  BY DEF Order, To, Lifecycle

(* A completion opens one assignment for a user, and none for a place. *)
LEMMA NewAssignmentOfOrder ==
    ASSUME NEW t \in Transfer, NEW o \in Order
    PROVE  /\ NewAssignment(t, o) \subseteq Assignment
           /\ \A x \in NewAssignment(t, o) : x.asset = o.asset
           /\ \A x, y \in NewAssignment(t, o) : x = y
           /\ o.user # NoUser => NewAssignment(t, o) # {}
           /\ o.user = NoUser => NewAssignment(t, o) = {}
  <1>1. /\ NewAssignment(t, o) \subseteq Assignment
        /\ \A x \in NewAssignment(t, o) : x.asset = o.asset
    BY DEF NewAssignment
  <1>2. \A x, y \in NewAssignment(t, o) : x = y
    BY DEF NewAssignment, Assignment
  <1>3. ASSUME o.user # NoUser PROVE NewAssignment(t, o) # {}
    <2>1. [asset |-> o.asset, user |-> o.user, via |-> t] \in Assignment
      BY <1>3, OrderFields DEF Assignment
    <2>2. QED
      BY <2>1 DEF NewAssignment
  <1>4. ASSUME o.user = NoUser PROVE NewAssignment(t, o) = {}
    BY <1>4, TransferAssumption DEF NewAssignment, Assignment
  <1>5. QED
    BY <1>1, <1>2, <1>3, <1>4

(* The initial states satisfy the invariant. *)
LEMMA InitInv == Init => Inv
  <1> SUFFICES ASSUME Init PROVE Inv
    OBVIOUS
  <1> USE DEF Init
  <1>1. PICK holder \in [Asset -> User \cup {NoUser}] :
          /\ \A a \in Asset :
              /\ lifecycle[a] = "ASSIGNED" => holder[a] # NoUser
              /\ lifecycle[a] = "IN_STOCK" => holder[a] = NoUser
          /\ open = { x \in Assignment : x.via = NoTransfer /\ x.user = holder[x.asset] }
    OBVIOUS
  <1>2. TypeOK
    <2>1. lifecycle \in [Asset -> Lifecycle]
      BY TransferAssumption
    <2>2. open \subseteq Assignment
      BY <1>1
    <2>3. history \in Seq(Event)
      OBVIOUS
    <2>4. job \in [Proc -> Job]
      BY JobFields
    <2>5. QED
      BY <2>1, <2>2, <2>3, <2>4 DEF TypeOK, Status
  <1>3. /\ JobsKnow /\ OrdersKnown /\ TransfersExist /\ DecisionsFit /\ FromKnown
        /\ SnapshotCurrent /\ OneTransactionPerAsset
    BY DEF JobsKnow, OrdersKnown, TransfersExist, DecisionsFit, Fits, FromKnown, SnapshotCurrent,
           OneTransactionPerAsset, InTransaction
  <1>4. CustodyConsistent
    <2> SUFFICES ASSUME NEW a \in Asset
                 PROVE  /\ \A x, y \in OpenOf(a) : x = y
                        /\ lifecycle[a] = "ASSIGNED" => OpenOf(a) # {}
                        /\ lifecycle[a] = "IN_STOCK" => OpenOf(a) = {}
      BY DEF CustodyConsistent
    <2>1. \A x, y \in OpenOf(a) : x = y
      BY <1>1 DEF OpenOf, Assignment
    <2>2. ASSUME lifecycle[a] = "ASSIGNED" PROVE OpenOf(a) # {}
      <3>1. [asset |-> a, user |-> holder[a], via |-> NoTransfer] \in open
        BY <1>1, <2>2 DEF Assignment
      <3>2. QED
        BY <3>1 DEF OpenOf
    <2>3. ASSUME lifecycle[a] = "IN_STOCK" PROVE OpenOf(a) = {}
      BY <1>1, <2>3, TransferAssumption DEF OpenOf, Assignment
    <2>4. QED
      BY <2>1, <2>2, <2>3
  <1>5. QED
    BY <1>2, <1>3, <1>4 DEF Inv

-----------------------------------------------------------------------------
(***************************************************************************)
(* A handler that throws changes no document: whatever its place was, the  *)
(* others keep theirs.                                                     *)
(***************************************************************************)
LEMMA RefuseInv ==
    ASSUME Inv, NEW p \in Proc, Refuse(p)
    PROVE  Inv'
  <1> USE DEF Inv, Refuse, Goto, documents, environment, records
  <1>1. /\ pc'[p] = "idle"
        /\ job'[p] = NoJob
        /\ \A q \in Proc : q # p => pc'[q] = pc[q] /\ job'[q] = job[q]
    BY DEF TypeOK
  <1>2. TypeOK'
    BY JobFields DEF TypeOK
  <1>3. (JobsKnow /\ TransfersExist /\ DecisionsFit /\ FromKnown)'
    BY <1>1 DEF JobsKnow, TransfersExist, DecisionsFit, Fits, FromKnown, InTransaction
  <1>4. (OrdersKnown /\ CustodyConsistent)'
    BY DEF OrdersKnown, CustodyConsistent, OpenOf
  <1>5. (SnapshotCurrent /\ OneTransactionPerAsset)'
    BY <1>1 DEF SnapshotCurrent, OneTransactionPerAsset, InTransaction, OpenOf
  <1>6. QED
    BY <1>2, <1>3, <1>4, <1>5

(***************************************************************************)
(* So does one that moves to a place outside the transaction with the same *)
(* job, or with a new one whose order is known.                            *)
(***************************************************************************)
LEMMA MoveInv ==
    ASSUME Inv, NEW p \in Proc,
           NEW where \in {"exists", "user", "destination", "insert", "decide", "begin"},
           NEW j \in Job, j.t \in Transfer, j.order \in Order, Fits(where, j.decision),
           where \in {"decide", "begin"} => status[j.t] # "NONE",
           Goto(p, where), job' = [job EXCEPT ![p] = j],
           UNCHANGED <<documents, environment, records>>
    PROVE  Inv'
  <1> USE DEF Inv, Goto, documents, environment, records
  <1>1. /\ pc'[p] = where
        /\ job'[p] = j
        /\ \A q \in Proc : q # p => pc'[q] = pc[q] /\ job'[q] = job[q]
    BY DEF TypeOK
  <1>2. TypeOK'
    BY DEF TypeOK
  <1>3. (JobsKnow /\ TransfersExist /\ DecisionsFit /\ FromKnown)'
    BY <1>1 DEF JobsKnow, TransfersExist, DecisionsFit, Fits, FromKnown, InTransaction
  <1>4. (OrdersKnown /\ CustodyConsistent)'
    BY DEF OrdersKnown, CustodyConsistent, OpenOf
  <1>5. (SnapshotCurrent /\ OneTransactionPerAsset)'
    BY <1>1 DEF SnapshotCurrent, OneTransactionPerAsset, InTransaction, OpenOf
  <1>6. QED
    BY <1>2, <1>3, <1>4, <1>5

(* A request that arrives, or passes one of its checks. *)
LEMMA RequestInv ==
    ASSUME Inv, NEW p \in Proc,
           Request(p) \/ CheckExisting(p) \/ CheckUser(p) \/ CheckDestination(p)
    PROVE  Inv'
  <1>1. CASE Request(p)
    <2>1. PICK t \in Transfer, o \in Order :
            job' = [job EXCEPT ![p] = NewJob(t, "PENDING", o)]
      BY <1>1 DEF Request
    <2>2. /\ NewJob(t, "PENDING", o) \in Job
          /\ NewJob(t, "PENDING", o).t \in Transfer
          /\ NewJob(t, "PENDING", o).order \in Order
          /\ Fits("exists", NewJob(t, "PENDING", o).decision)
      BY JobFields DEF Fits
    <2>3. Goto(p, "exists") /\ UNCHANGED <<documents, environment, records>>
      BY <1>1 DEF Request
    <2>4. QED
      BY <2>1, <2>2, <2>3, MoveInv
  <1>2. ASSUME pc[p] \in {"exists", "user", "destination"}, job' = job,
               NEW where \in {"user", "destination", "insert"},
               Goto(p, where), UNCHANGED <<documents, environment, records>>
        PROVE  Inv'
    <2>1. /\ job[p] \in Job
          /\ job[p].t \in Transfer
          /\ job[p].order \in Order
          /\ Fits(where, job[p].decision)
      BY <1>2 DEF Inv, TypeOK, JobsKnow, DecisionsFit, Fits
    <2>2. job' = [job EXCEPT ![p] = job[p]]
      BY <1>2 DEF Inv, TypeOK
    <2>3. QED
      BY <1>2, <2>1, <2>2, MoveInv
  <1>3. CASE CheckExisting(p)
    BY <1>2, <1>3, RefuseInv DEF CheckExisting
  <1>4. CASE CheckUser(p)
    BY <1>2, <1>4, RefuseInv DEF CheckUser
  <1>5. CASE CheckDestination(p)
    BY <1>2, <1>5, RefuseInv DEF CheckDestination
  <1>6. QED
    BY <1>1, <1>3, <1>4, <1>5

(* Reading the transfer hands its order to the handler. *)
LEMMA ReadTransferInv ==
    ASSUME Inv, NEW p \in Proc, ReadTransfer(p)
    PROVE  Inv'
  <1>1. PICK t \in Transfer, d \in Decisions :
          /\ status[t] \in Prior(d)
          /\ job' = [job EXCEPT ![p] = NewJob(t, d, order[t])]
          /\ Goto(p, IF d = "COMPLETED" THEN "begin" ELSE "decide")
    BY DEF ReadTransfer
  <1>2. status[t] # "NONE"
    BY <1>1 DEF Prior, Decisions
  <1>3. order[t] \in Order
    BY <1>2 DEF Inv, OrdersKnown
  <1>4. /\ NewJob(t, d, order[t]) \in Job
        /\ NewJob(t, d, order[t]).t \in Transfer
        /\ NewJob(t, d, order[t]).order \in Order
        /\ NewJob(t, d, order[t]).decision = d
        /\ status[NewJob(t, d, order[t]).t] # "NONE"
    BY <1>2, <1>3, JobFields
  <1>5. UNCHANGED <<documents, environment, records>>
    BY DEF ReadTransfer
  <1>6. CASE d = "COMPLETED"
    <2>1. Fits("begin", d)
      BY <1>6 DEF Fits
    <2>2. QED
      BY <1>1, <1>4, <1>5, <1>6, <2>1, MoveInv
  <1>7. CASE d # "COMPLETED"
    <2>1. Fits("decide", d)
      BY <1>7 DEF Fits, Decisions
    <2>2. QED
      BY <1>1, <1>4, <1>5, <1>7, <2>1, MoveInv
  <1>8. QED
    BY <1>6, <1>7

-----------------------------------------------------------------------------
(***************************************************************************)
(* A step that writes nothing but the status and order of its transfer,    *)
(* and goes on to the audit event.                                         *)
(***************************************************************************)
LEMMA WriteTransferInv ==
    ASSUME Inv, NEW p \in Proc, pc[p] \in {"insert", "decide"}, Goto(p, "audit"),
           (TypeOK /\ OrdersKnown)', status'[job[p].t] # "NONE",
           \A t \in Transfer : status[t] # "NONE" => status'[t] # "NONE",
           UNCHANGED <<lifecycle, location, department, open, returned, job>>
    PROVE  Inv'
  <1> USE DEF Inv, Goto
  <1>1. /\ pc'[p] = "audit"
        /\ \A q \in Proc : q # p => pc'[q] = pc[q]
    BY DEF TypeOK
  <1>2. job[p].decision # "COMPLETED"
    BY DEF DecisionsFit, Fits
  <1>3. (JobsKnow /\ TransfersExist /\ DecisionsFit /\ FromKnown)'
    BY <1>1, <1>2
       DEF JobsKnow, TransfersExist, DecisionsFit, Fits, FromKnown, InTransaction
  <1>4. CustodyConsistent'
    BY DEF CustodyConsistent, OpenOf
  <1>5. (SnapshotCurrent /\ OneTransactionPerAsset)'
    BY <1>1 DEF SnapshotCurrent, OneTransactionPerAsset, InTransaction, OpenOf
  <1>6. QED
    BY <1>3, <1>4, <1>5

(* The request is inserted. *)
LEMMA InsertInv ==
    ASSUME Inv, NEW p \in Proc, Insert(p)
    PROVE  Inv'
  <1>1. job[p].t \in Transfer /\ job[p].order \in Order
    BY DEF Inv, JobsKnow, Insert
  <1>2. TypeOK'
    BY <1>1 DEF Inv, TypeOK, Status, Insert, Goto, environment, records
  <1>3. OrdersKnown'
    BY <1>1 DEF Inv, TypeOK, OrdersKnown, Insert
  <1>4. /\ status'[job[p].t] # "NONE"
        /\ \A t \in Transfer : status[t] # "NONE" => status'[t] # "NONE"
    BY <1>1 DEF Inv, TypeOK, Insert
  <1>5. QED
    BY <1>2, <1>3, <1>4, WriteTransferInv DEF Insert

(* A decision is taken, or comes too late. *)
LEMMA DecideInv ==
    ASSUME Inv, NEW p \in Proc, Decide(p)
    PROVE  Inv'
  <1>1. CASE status[job[p].t] \in Prior(job[p].decision)
    <2>1. /\ job[p].t \in Transfer
          /\ job[p].decision \in {"APPROVED", "REJECTED", "CANCELLED"}
      BY DEF Inv, JobsKnow, DecisionsFit, Fits, Decide
    <2>2. status[job[p].t] # "NONE"
      BY <1>1, <2>1 DEF Prior
    <2>3. TypeOK'
      BY <1>1, <2>1 DEF Inv, TypeOK, Status, Decisions, Decide, Goto, environment, records
    <2>4. OrdersKnown'
      BY <1>1, <2>1, <2>2 DEF Inv, TypeOK, OrdersKnown, Decide
    <2>5. /\ status'[job[p].t] # "NONE"
          /\ \A t \in Transfer : status[t] # "NONE" => status'[t] # "NONE"
      BY <1>1, <2>1 DEF Inv, TypeOK, Decide
    <2>6. QED
      BY <1>1, <2>3, <2>4, <2>5, WriteTransferInv DEF Decide
  <1>2. CASE status[job[p].t] \notin Prior(job[p].decision)
    BY <1>2, RefuseInv DEF Decide
  <1>3. QED
    BY <1>1, <1>2

-----------------------------------------------------------------------------
(***************************************************************************)
(* A transaction begins only on an asset that no other is working on, and  *)
(* copies what it finds.                                                   *)
(***************************************************************************)
LEMMA BeginInv ==
    ASSUME Inv, NEW p \in Proc, Begin(p)
    PROVE  Inv'
  <1> DEFINE o == job[p].order
  <1>1. CASE ~Refuse(p)
    <2>1. /\ pc[p] = "begin"
          /\ ~AssetLocked(o.asset)
          /\ Goto(p, "seize")
          /\ UNCHANGED <<documents, environment, records>>
      BY <1>1 DEF Begin
    <2>2. PICK seen \in Existing(o.asset) :
            job' = [job EXCEPT ![p].from = lifecycle[o.asset], ![p].existing = seen]
      BY <1>1 DEF Begin
    <2>3. job[p] \in Job /\ job[p].t \in Transfer /\ o \in Order /\ o.asset \in Asset
      BY <2>1, OrderFields DEF Inv, TypeOK, JobsKnow
    <2>4. seen = OpenOf(o.asset)
      BY <2>3 DEF Inv, CustodyConsistent, Existing
    <2>5. /\ pc'[p] = "seize"
          /\ \A q \in Proc : q # p => pc'[q] = pc[q] /\ job'[q] = job[q]
      BY <2>1, <2>2 DEF Inv, TypeOK, Goto
    <2>6. /\ job'[p].t = job[p].t
          /\ job'[p].order = o
          /\ job'[p].decision = job[p].decision
          /\ job'[p].from = lifecycle[o.asset]
          /\ job'[p].existing = OpenOf(o.asset)
          /\ job'[p] \in Job
      <3>1. lifecycle[o.asset] \in Lifecycle /\ OpenOf(o.asset) \subseteq Assignment
        BY <2>3 DEF Inv, TypeOK, OpenOf
      <3>2. job'[p] = [job[p] EXCEPT !.from = lifecycle[o.asset], !.existing = seen]
        BY <2>2 DEF Inv, TypeOK
      <3>3. QED
        BY <2>3, <2>4, <3>1, <3>2 DEF Job
    <2> HIDE DEF o
    <2>7. TypeOK'
      BY <2>1, <2>2, <2>5, <2>6 DEF Inv, TypeOK, Goto, documents, environment, records
    <2>8. (JobsKnow /\ TransfersExist /\ DecisionsFit /\ FromKnown)'
      <3>1. lifecycle[o.asset] \in Lifecycle
        BY <2>3 DEF Inv, TypeOK
      <3>2. JobsKnow'
        BY <2>1, <2>3, <2>5, <2>6 DEF Inv, JobsKnow
      <3>3. DecisionsFit'
        <4>1. job[p].decision = "COMPLETED"
          BY <2>1 DEF Inv, DecisionsFit, Fits
        <4>2. QED
          BY <2>5, <2>6, <4>1 DEF Inv, DecisionsFit, Fits
      <3>4. FromKnown'
        BY <2>5, <2>6, <3>1 DEF Inv, FromKnown, InTransaction
      <3>5. TransfersExist'
        BY <2>1, <2>5, <2>6 DEF Inv, TransfersExist, documents
      <3>6. QED
        BY <3>2, <3>3, <3>4, <3>5
    <2>9. (OrdersKnown /\ CustodyConsistent)'
      BY <2>1 DEF Inv, OrdersKnown, CustodyConsistent, OpenOf, documents
    <2>10. SnapshotCurrent'
      <3>1. UNCHANGED <<open, lifecycle>>
        BY <2>1 DEF documents
      <3>2. ASSUME NEW q \in Proc, InTransaction(q)'
            PROVE  (/\ job[q].existing = OpenOf(job[q].order.asset)
                    /\ job[q].from = lifecycle[job[q].order.asset])'
        <4>1. CASE q = p
          BY <2>6, <3>1, <4>1 DEF OpenOf
        <4>2. CASE q # p
          BY <2>5, <3>1, <3>2, <4>2 DEF Inv, SnapshotCurrent, InTransaction, OpenOf
        <4>3. QED
          BY <4>1, <4>2
      <3>3. QED
        BY <3>2 DEF SnapshotCurrent, OpenOf
    <2>11. OneTransactionPerAsset'
      <3>1. \A q \in Proc : InTransaction(q) => job[q].order.asset # o.asset
        BY <2>1 DEF AssetLocked, InTransaction
      <3>2. QED
        BY <2>5, <2>6, <3>1 DEF Inv, OneTransactionPerAsset, InTransaction
    <2>12. QED
      BY <2>7, <2>8, <2>9, <2>10, <2>11 DEF Inv
  <1>2. CASE Refuse(p)
    BY <1>2, RefuseInv
  <1>3. QED
    BY <1>1, <1>2

(* The compare and set on the transfer inside the transaction. *)
LEMMA SeizeInv ==
    ASSUME Inv, NEW p \in Proc, Seize(p)
    PROVE  Inv'
  <1> USE DEF Inv, Seize, Goto, documents, environment, records
  <1>1. /\ pc'[p] = "commit"
        /\ \A q \in Proc : InTransaction(q)' = InTransaction(q)
        /\ \A q \in Proc : q # p => pc'[q] = pc[q]
    BY DEF TypeOK, InTransaction
  <1>2. (TypeOK /\ OrdersKnown /\ CustodyConsistent)'
    BY DEF TypeOK, OrdersKnown, CustodyConsistent, OpenOf
  <1>3. (JobsKnow /\ TransfersExist /\ DecisionsFit /\ FromKnown)'
    BY <1>1 DEF JobsKnow, TransfersExist, DecisionsFit, Fits, FromKnown, InTransaction
  <1>4. (SnapshotCurrent /\ OneTransactionPerAsset)'
    BY <1>1 DEF SnapshotCurrent, OneTransactionPerAsset, OpenOf
  <1>5. QED
    BY <1>2, <1>3, <1>4

(* A write conflict throws, or starts the transaction again. *)
LEMMA ConflictInv ==
    ASSUME Inv, NEW p \in Proc, Conflict(p)
    PROVE  Inv'
  <1>1. CASE Refuse(p)
    BY <1>1, RefuseInv
  <1>2. CASE ~Refuse(p)
    <2>1. /\ job[p] \in Job
          /\ job[p].t \in Transfer
          /\ job[p].order \in Order
          /\ Fits("begin", job[p].decision)
          /\ status[job[p].t] # "NONE"
      BY DEF Inv, TypeOK, JobsKnow, TransfersExist, DecisionsFit, Fits, Conflict
    <2>2. job' = [job EXCEPT ![p] = job[p]]
      BY <1>2 DEF Inv, TypeOK, Conflict
    <2>3. Goto(p, "begin") /\ UNCHANGED <<documents, environment, records>>
      BY <1>2 DEF Conflict
    <2>4. QED
      BY <2>1, <2>2, <2>3, MoveInv
  <1>3. QED
    BY <1>1, <1>2

-----------------------------------------------------------------------------
(***************************************************************************)
(* The commit.  Its transaction holds the asset, so the assignment it      *)
(* closes is the open one, and no other transaction has read this asset.   *)
(***************************************************************************)
LEMMA CommitInv ==
    ASSUME Inv, NEW p \in Proc, Commit(p)
    PROVE  Inv'
  <1>0. PICK t \in Transfer, o \in Order : job[p].t = t /\ job[p].order = o
    BY DEF Inv, JobsKnow, Commit
  <1> DEFINE a == o.asset
  <1>1. /\ pc[p] = "commit"
        /\ InTransaction(p)
        /\ a \in Asset
        /\ job[p].decision = "COMPLETED"
        /\ job[p].from \in Lifecycle
        /\ job[p].existing = OpenOf(a)
        /\ status[t] # "NONE"
    BY <1>0, OrderFields DEF Inv, Commit, InTransaction, TransfersExist,
                             DecisionsFit, Fits, FromKnown, SnapshotCurrent
  <1>2. /\ open' = (open \ OpenOf(a)) \cup NewAssignment(t, o)
        /\ returned' = returned \cup OpenOf(a)
        /\ lifecycle' = [lifecycle EXCEPT ![a] = To(o)]
        /\ location' = [location EXCEPT ![a] = Moved(@, o.location, NoLocation)]
        /\ department' = [department EXCEPT ![a] = Moved(@, o.department, NoDepartment)]
        /\ status' = [status EXCEPT ![t] = "COMPLETED"]
        /\ handovers' = handovers \cup
              {[asset |-> a, via |-> t, from |-> lifecycle[a], to |-> To(o)]}
        /\ UNCHANGED <<order, active, places, job, auditLog, history, answered>>
    BY <1>0, <1>1 DEF Commit, environment
  <1>3. /\ pc' = [pc EXCEPT ![p] = "audit"]
        /\ pc'[p] = "audit"
        /\ \A q \in Proc : q # p => pc'[q] = pc[q]
    BY DEF Commit, Goto, Inv, TypeOK
  <1> HIDE DEF a
  <1>4. /\ OpenOf(a)' = NewAssignment(t, o)
        /\ \A b \in Asset : b # a => OpenOf(b)' = OpenOf(b)
    <2>1. \A x \in NewAssignment(t, o) : x.asset = a
      BY <1>1, NewAssignmentOfOrder DEF a
    <2>2. OpenOf(a)' = NewAssignment(t, o)
      BY <1>2, <2>1 DEF OpenOf
    <2>3. ASSUME NEW b \in Asset, b # a PROVE OpenOf(b)' = OpenOf(b)
      BY <1>2, <2>1, <2>3 DEF OpenOf
    <2>4. QED
      BY <2>2, <2>3
  <1>5. TypeOK'
    <2>1. To(o) \in Lifecycle
      BY <1>1, OrderFields
    <2>2. status' \in [Transfer -> Status] /\ lifecycle' \in [Asset -> Lifecycle]
      BY <1>1, <1>2, <2>1 DEF Inv, TypeOK, Status, Decisions
    <2>3. /\ location' \in [Asset -> Location \cup {NoLocation}]
          /\ department' \in [Asset -> Department \cup {NoDepartment}]
      BY <1>1, <1>2, OrderFields DEF Inv, TypeOK, Moved
    <2>4. open' \subseteq Assignment /\ returned' \subseteq Assignment
      BY <1>1, <1>2, NewAssignmentOfOrder DEF Inv, TypeOK, OpenOf
    <2>5. handovers' \subseteq Event
      <3>1. [asset |-> a, via |-> t, from |-> lifecycle[a], to |-> To(o)] \in Event
        BY <1>1, <2>1 DEF Inv, TypeOK, Event
      <3>2. QED
        BY <1>2, <3>1 DEF Inv, TypeOK
    <2>6. pc' \in [Proc -> {"idle", "exists", "user", "destination", "insert", "decide",
                            "begin", "seize", "commit", "audit", "event"}]
      BY <1>3 DEF Inv, TypeOK
    <2>7. QED
      BY <1>2, <2>2, <2>3, <2>4, <2>5, <2>6 DEF Inv, TypeOK
  <1>6. (JobsKnow /\ OrdersKnown /\ TransfersExist)'
    <2>1. JobsKnow'
      BY <1>1, <1>2, <1>3 DEF Inv, JobsKnow
    <2>2. \A u \in Transfer : (status'[u] # "NONE") = (status[u] # "NONE")
      BY <1>1, <1>2 DEF Inv, TypeOK
    <2>3. OrdersKnown'
      BY <1>2, <2>2 DEF Inv, OrdersKnown
    <2>4. TransfersExist'
      BY <1>0, <1>1, <1>2, <1>3, <2>2 DEF Inv, TransfersExist, JobsKnow
    <2>5. QED
      BY <2>1, <2>3, <2>4
  <1>7. DecisionsFit' /\ FromKnown'
    BY <1>1, <1>2, <1>3 DEF Inv, DecisionsFit, Fits, FromKnown, InTransaction
  <1>8. CustodyConsistent'
    <2> SUFFICES ASSUME NEW b \in Asset
                 PROVE  (/\ \A x, y \in OpenOf(b) : x = y
                         /\ lifecycle[b] = "ASSIGNED" => OpenOf(b) # {}
                         /\ lifecycle[b] = "IN_STOCK" => OpenOf(b) = {})'
      BY DEF CustodyConsistent
    <2>1. CASE b = a
      <3>1. lifecycle'[a] = To(o)
        BY <1>1, <1>2 DEF Inv, TypeOK
      <3>2. /\ \A x, y \in NewAssignment(t, o) : x = y
            /\ To(o) = "ASSIGNED" => NewAssignment(t, o) # {}
            /\ To(o) = "IN_STOCK" => NewAssignment(t, o) = {}
        BY <1>1, NewAssignmentOfOrder DEF To
      <3>3. QED
        BY <1>4, <2>1, <3>1, <3>2
    <2>2. CASE b # a
      <3>1. lifecycle'[b] = lifecycle[b]
        BY <1>2, <2>2 DEF Inv, TypeOK
      <3>2. QED
        BY <1>4, <2>2, <3>1 DEF Inv, CustodyConsistent
    <2>3. QED
      BY <2>1, <2>2
  <1>9. SnapshotCurrent'
    <2> SUFFICES ASSUME NEW q \in Proc, InTransaction(q)'
                 PROVE  (/\ job[q].existing = OpenOf(job[q].order.asset)
                         /\ job[q].from = lifecycle[job[q].order.asset])'
      BY DEF SnapshotCurrent
    <2>1. q # p /\ InTransaction(q)
      BY <1>3 DEF InTransaction
    <2>2. job[q].order.asset # a
      BY <1>0, <1>1, <2>1 DEF Inv, OneTransactionPerAsset, a
    <2>3. job[q].order.asset \in Asset
      BY <2>1, OrderFields DEF Inv, JobsKnow, InTransaction
    <2>4. lifecycle'[job[q].order.asset] = lifecycle[job[q].order.asset]
      BY <1>2, <2>2, <2>3 DEF Inv, TypeOK
    <2>5. QED
      BY <1>2, <1>4, <2>1, <2>2, <2>3, <2>4 DEF Inv, SnapshotCurrent
  <1>10. OneTransactionPerAsset'
    BY <1>2, <1>3 DEF Inv, OneTransactionPerAsset, InTransaction
  <1>11. QED
    BY <1>5, <1>6, <1>7, <1>8, <1>9, <1>10 DEF Inv

(***************************************************************************)
(* The records written after the commit: none of them is a document that   *)
(* the others rely on.                                                     *)
(***************************************************************************)
LEMMA AuditInv ==
    ASSUME Inv, NEW p \in Proc, Audit(p)
    PROVE  Inv'
  <1>1. /\ pc[p] = "audit"
        /\ job[p] \in Job
        /\ job[p].t \in Transfer
        /\ job[p].order \in Order
        /\ status[job[p].t] # "NONE"
    BY DEF Inv, TypeOK, JobsKnow, TransfersExist, Audit
  <1>2. UNCHANGED <<documents, environment, history, handovers>>
    BY DEF Audit
  <1>3. /\ \/ /\ pc' = [pc EXCEPT ![p] = "event"]
              /\ job' = job
              /\ job[p].decision = "COMPLETED"
           \/ /\ pc' = [pc EXCEPT ![p] = "idle"]
              /\ job' = [job EXCEPT ![p] = NoJob]
        /\ answered' = answered \/ answered' = answered \cup {<<job[p].t, job[p].decision>>}
        /\ auditLog' = auditLog \cup {<<job[p].t, job[p].decision>>}
    BY DEF Audit, Answer, Goto
  <1>4. QED
    <2>1. <<job[p].t, job[p].decision>> \in Transfer \X Status
      <3>1. job[p].decision \in Status
        BY <1>1 DEF Job, Status, Decisions
      <3>2. QED
        BY <1>1, <3>1
    <2>2. /\ \A q \in Proc : q # p => pc'[q] = pc[q] /\ job'[q] = job[q]
          /\ \/ pc'[p] = "event" /\ job'[p] = job[p] /\ job[p].decision = "COMPLETED"
             \/ pc'[p] = "idle"
      BY <1>3 DEF Inv, TypeOK
    <2>3. TypeOK'
      <3>1. job' \in [Proc -> Job]
        BY <1>3, JobFields DEF Inv, TypeOK
      <3>2. pc' \in [Proc -> {"idle", "exists", "user", "destination", "insert", "decide",
                              "begin", "seize", "commit", "audit", "event"}]
        BY <1>3 DEF Inv, TypeOK
      <3>3. answered' \subseteq Transfer \X Status /\ auditLog' \subseteq Transfer \X Status
        BY <1>3, <2>1 DEF Inv, TypeOK
      <3>4. QED
        BY <1>2, <3>1, <3>2, <3>3 DEF Inv, TypeOK, documents, environment
    <2>4. (JobsKnow /\ OrdersKnown /\ TransfersExist)'
      BY <1>1, <1>2, <2>2 DEF Inv, JobsKnow, OrdersKnown, TransfersExist, documents
    <2>5. (DecisionsFit /\ FromKnown)'
      BY <1>1, <2>2 DEF Inv, DecisionsFit, Fits, FromKnown, InTransaction
    <2>6. CustodyConsistent'
      BY <1>2 DEF Inv, CustodyConsistent, OpenOf, documents
    <2>7. SnapshotCurrent'
      BY <1>2, <2>2 DEF Inv, SnapshotCurrent, InTransaction, OpenOf, documents
    <2>8. OneTransactionPerAsset'
      BY <2>2 DEF Inv, OneTransactionPerAsset, InTransaction
    <2>9. QED
      BY <2>3, <2>4, <2>5, <2>6, <2>7, <2>8 DEF Inv

LEMMA RecordEventInv ==
    ASSUME Inv, NEW p \in Proc, RecordEvent(p)
    PROVE  Inv'
  <1>1. /\ pc[p] = "event"
        /\ job[p] \in Job
        /\ job[p].t \in Transfer
        /\ job[p].order \in Order
        /\ job[p].from \in Lifecycle
    BY DEF Inv, TypeOK, JobsKnow, FromKnown, RecordEvent
  <1>2. /\ UNCHANGED <<documents, environment, auditLog, handovers>>
        /\ pc' = [pc EXCEPT ![p] = "idle"]
        /\ job' = [job EXCEPT ![p] = NoJob]
        /\ answered' = answered \cup {<<job[p].t, job[p].decision>>}
        /\ history' = Append(history, [asset |-> job[p].order.asset, via |-> job[p].t,
                                       from |-> job[p].from, to |-> To(job[p].order)])
    BY DEF RecordEvent, Answer, Goto
  <1>3. /\ \A q \in Proc : q # p => pc'[q] = pc[q] /\ job'[q] = job[q]
        /\ pc'[p] = "idle"
    BY <1>2 DEF Inv, TypeOK
  <1>4. TypeOK'
    <2>1. history' \in Seq(Event)
      <3>1. [asset |-> job[p].order.asset, via |-> job[p].t,
             from |-> job[p].from, to |-> To(job[p].order)] \in Event
        BY <1>1, OrderFields DEF Event
      <3>2. QED
        BY <1>2, <3>1 DEF Inv, TypeOK
    <2>2. answered' \subseteq Transfer \X Status
      <3>1. job[p].decision \in Status
        BY <1>1 DEF Job, Status, Decisions
      <3>2. QED
        BY <1>1, <1>2, <3>1 DEF Inv, TypeOK
    <2>3. job' \in [Proc -> Job]
      BY <1>2, JobFields DEF Inv, TypeOK
    <2>4. QED
      BY <1>2, <2>1, <2>2, <2>3 DEF Inv, TypeOK, documents, environment
  <1>5. (JobsKnow /\ OrdersKnown /\ TransfersExist)'
    BY <1>2, <1>3 DEF Inv, JobsKnow, OrdersKnown, TransfersExist, documents
  <1>6. (DecisionsFit /\ FromKnown)'
    <2>1. Fits("idle", job'[p].decision)
      BY DEF Fits
    <2>2. QED
      BY <1>3, <2>1 DEF Inv, DecisionsFit, Fits, FromKnown, InTransaction
  <1>7. CustodyConsistent'
    BY <1>2 DEF Inv, CustodyConsistent, OpenOf, documents
  <1>8. (SnapshotCurrent /\ OneTransactionPerAsset)'
    BY <1>2, <1>3
       DEF Inv, SnapshotCurrent, OneTransactionPerAsset, InTransaction, OpenOf, documents
  <1>9. QED
    BY <1>4, <1>5, <1>6, <1>7, <1>8 DEF Inv

(* Steps of the surroundings, and stuttering, move neither handlers nor documents. *)
LEMMA SurroundingsInv ==
    ASSUME Inv, UNCHANGED <<documents, pc, job, records>>,
           active' \subseteq User, places' \subseteq Location \cup Department
    PROVE  Inv'
  <1> USE DEF Inv, documents, records
  <1>1. TypeOK'
    BY DEF TypeOK
  <1>2. (JobsKnow /\ OrdersKnown /\ TransfersExist /\ DecisionsFit /\ FromKnown)'
    BY DEF JobsKnow, OrdersKnown, TransfersExist, DecisionsFit, FromKnown, InTransaction
  <1>3. (CustodyConsistent /\ SnapshotCurrent /\ OneTransactionPerAsset)'
    BY DEF CustodyConsistent, SnapshotCurrent, OneTransactionPerAsset, InTransaction, OpenOf
  <1>4. QED
    BY <1>1, <1>2, <1>3

-----------------------------------------------------------------------------
(* Every step keeps the invariant. *)
LEMMA NextInv == Inv /\ [Next]_vars => Inv'
  <1> SUFFICES ASSUME Inv, [Next]_vars PROVE Inv'
    OBVIOUS
  <1>1. ASSUME NEW p \in Proc, Request(p) \/ ReadTransfer(p) PROVE Inv'
    BY <1>1, RequestInv, ReadTransferInv
  <1>2. ASSUME NEW p \in Proc, Step(p) PROVE Inv'
    BY <1>2, RequestInv, InsertInv, DecideInv, BeginInv, RefuseInv, SeizeInv, ConflictInv,
       CommitInv, AuditInv, RecordEventInv DEF Step, GiveUp
  <1>3. ASSUME NEW p \in Proc, Crash(p) PROVE Inv'
    BY <1>3, RefuseInv DEF Crash
  <1>4. ASSUME NEW u \in User, SetActive(u) PROVE Inv'
    BY <1>4, SurroundingsInv DEF SetActive, Inv, TypeOK
  <1>5. ASSUME NEW x \in Location \cup Department, LosePlace(x) PROVE Inv'
    BY <1>5, SurroundingsInv DEF LosePlace, Inv, TypeOK
  <1>6. CASE UNCHANGED vars
    BY <1>6, SurroundingsInv DEF vars, environment, Inv, TypeOK
  <1>7. QED
    BY <1>1, <1>2, <1>3, <1>4, <1>5, <1>6 DEF Next

(***************************************************************************)
(* The types are kept by every behaviour.                                  *)
(***************************************************************************)
THEOREM TypeCorrect == Spec => []TypeOK
  <1>1. Inv => TypeOK
    BY DEF Inv
  <1>2. QED
    BY <1>1, InitInv, NextInv, PTL DEF Spec

(***************************************************************************)
(* An asset has at most one open assignment, one while it is ASSIGNED and  *)
(* none while it is IN_STOCK: complete() keeps the two collections         *)
(* together without the help of a unique index.                            *)
(***************************************************************************)
THEOREM CustodyIsConsistent == Spec => []CustodyConsistent
  <1>1. Inv => CustodyConsistent
    BY DEF Inv
  <1>2. QED
    BY <1>1, InitInv, NextInv, PTL DEF Spec
=============================================================================
