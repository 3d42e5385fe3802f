------------------------ MODULE TransferRecordsProofs ------------------------
(***************************************************************************)
(* Further proofs about AssetTransfer: a transfer makes its assignment     *)
(* once, what a client was told stands and is recorded, and the asset      *)
(* history tells only what was committed.                                  *)
(***************************************************************************)
EXTENDS AssetTransferProofs

(* Where a handler has not written its transfer yet, and where it has. *)
Requesting == {"exists", "user", "destination", "insert"}
Deciding == {"decide", "begin", "seize", "commit"}
Written == {"audit", "event"}

(* The transfer that a request is about to insert is its own. *)
FreshRequests ==
    \A p \in Proc : pc[p] \in Requesting =>
        /\ status[job[p].t] = "NONE"
        /\ \A q \in Proc : q # p => job[q].t # job[p].t

(* Handlers of one transfer agree on what it asks for. *)
OrdersRead ==
    \A p \in Proc : pc[p] \in Deciding \cup Written => job[p].order = order[job[p].t]

(* A transaction that has taken its transfer still finds it APPROVED ... *)
SeizedIsApproved == \A p \in Proc : pc[p] = "commit" => status[job[p].t] = "APPROVED"

(* ... and makes a move the lifecycle relation allows. *)
MovesAllowed ==
    \A p \in Proc : InTransaction(p) => <<job[p].from, To(job[p].order)>> \in Allowed

(* Decision d of transfer t has been taken and not been contradicted. *)
Stands(t, d) ==
    /\ status[t] # "NONE"
    /\ d = "APPROVED" => status[t] \in {"APPROVED", "CANCELLED", "COMPLETED"}
    /\ d \in {"REJECTED", "CANCELLED", "COMPLETED"} => status[t] = d

WritesStand ==
    \A p \in Proc : pc[p] \in Written => Stands(job[p].t, job[p].decision)

AnswersStand == \A a \in answered : Stands(a[1], a[2])

(* A committed move belongs to a completed transfer, and a transfer has one. *)
MovesOfCompleted ==
    \A h \in handovers :
        /\ status[h.via] = "COMPLETED"
        /\ \A k \in handovers : k.via = h.via => k = h

(* A completion that has committed and not answered, and the move it made. *)
Finishing(p) == pc[p] \in Written /\ job[p].decision = "COMPLETED"

MoveOf(p) == [asset |-> job[p].order.asset, via |-> job[p].t,
              from |-> job[p].from, to |-> To(job[p].order)]

(***************************************************************************)
(* It remembers its move as it was committed, has no entry in the history  *)
(* yet, and is the only one of its transfer.                               *)
(***************************************************************************)
FinishersKnow ==
    \A p \in Proc : Finishing(p) =>
        /\ MoveOf(p) \in handovers
        /\ \A i \in 1 .. Len(history) : history[i].via # job[p].t
        /\ \A q \in Proc : Finishing(q) /\ job[q].t = job[p].t => q = p

EventsAudited ==
    \A p \in Proc : pc[p] = "event" => <<job[p].t, job[p].decision>> \in auditLog

(***************************************************************************)
(* The inductive invariant, on top of Inv.                                 *)
(***************************************************************************)
RecordsInv ==
    /\ FreshRequests
    /\ OrdersRead
    /\ SeizedIsApproved
    /\ MovesAllowed
    /\ WritesStand
    /\ AnswersStand
    /\ MovesOfCompleted
    /\ FinishersKnow
    /\ EventsAudited
    /\ HandoverOnce
    /\ AcknowledgedIsRecorded
    /\ EventsAreTrue

-----------------------------------------------------------------------------
(* The ways a transfer's status may go in one step. *)
StatusMoves ==
    \A t \in Transfer :
        \/ status'[t] = status[t]
        \/ status[t] = "NONE" /\ status'[t] = "PENDING"
        \/ status[t] = "PENDING" /\ status'[t] \in {"APPROVED", "REJECTED", "CANCELLED"}
        \/ status[t] = "APPROVED" /\ status'[t] \in {"CANCELLED", "COMPLETED"}

(* On none of them a decision that stands is contradicted. *)
LEMMA StandsKept ==
    ASSUME StatusMoves, NEW t \in Transfer, NEW d, Stands(t, d)
    PROVE  Stands(t, d)'
  BY DEF StatusMoves, Stands

(* The members of the recorded sets name transfers. *)
LEMMA RecordsTyped ==
    ASSUME TypeOK
    PROVE  /\ \A a \in answered : a[1] \in Transfer
           /\ \A h \in handovers : h.via \in Transfer
           /\ \A i \in 1 .. Len(history) : history[i] \in Event
  <1>1. /\ answered \subseteq Transfer \X Status
        /\ handovers \subseteq Event
        /\ history \in Seq(Event)
    BY DEF TypeOK
  <1>2. \A a \in answered : a[1] \in Transfer
    BY <1>1
  <1>3. \A h \in handovers : h.via \in Transfer
    BY <1>1 DEF Event
  <1>4. \A i \in 1 .. Len(history) : history[i] \in Event
    BY <1>1
  <1>5. QED
    BY <1>2, <1>3, <1>4

(* The invariant holds before anything is asked for. *)
LEMMA InitRecords == Init => RecordsInv
  <1> SUFFICES ASSUME Init PROVE RecordsInv
    OBVIOUS
  <1> USE DEF Init
  <1>1. /\ FreshRequests /\ OrdersRead /\ SeizedIsApproved /\ MovesAllowed /\ WritesStand
        /\ AnswersStand /\ MovesOfCompleted /\ FinishersKnow /\ EventsAudited
    BY DEF FreshRequests, OrdersRead, SeizedIsApproved, MovesAllowed, WritesStand, AnswersStand,
           MovesOfCompleted, FinishersKnow, Finishing, EventsAudited,
           Requesting, Deciding, Written, InTransaction
  <1>2. HandoverOnce
    <2>1. open \cap returned = {}
      OBVIOUS
    <2>2. \A x \in open \cup returned : x.via = NoTransfer
      OBVIOUS
    <2>3. \A t \in Transfer : { x \in open \cup returned : x.via = t } = {}
      BY <2>2, TransferAssumption
    <2>4. \A t \in Transfer : status[t] # "COMPLETED"
      OBVIOUS
    <2>5. QED
      BY <2>1, <2>3, <2>4 DEF HandoverOnce
  <1>3. AcknowledgedIsRecorded
    BY DEF AcknowledgedIsRecorded
  <1>4. EventsAreTrue
    <2>1. Len(history) = 0
      OBVIOUS
    <2>2. QED
      BY <2>1 DEF EventsAreTrue
  <1>5. QED
    BY <1>1, <1>2, <1>3, <1>4 DEF RecordsInv

-----------------------------------------------------------------------------
(***************************************************************************)
(* A step that writes no document and no record: the handler goes to a     *)
(* place before its write, or away.                                        *)
(***************************************************************************)
LEMMA QuietRecords ==
    ASSUME TypeOK, JobsKnow, RecordsInv, NEW p \in Proc,
           UNCHANGED <<documents, records>>,
           \A q \in Proc : q # p => pc'[q] = pc[q] /\ job'[q] = job[q],
           pc'[p] \notin Written,
           pc'[p] \in Requesting => status[job'[p].t] = "NONE",
           pc'[p] \in Requesting => \A q \in Proc : q # p => job[q].t # job'[p].t,
           \A q \in Proc : q # p /\ pc[q] \in Requesting => job'[p].t # job[q].t,
           pc'[p] \in Deciding => job'[p].order = order[job'[p].t],
           pc'[p] = "commit" => status[job'[p].t] = "APPROVED",
           InTransaction(p)' => <<job'[p].from, To(job'[p].order)>> \in Allowed
    PROVE  RecordsInv'
  <1> USE DEF RecordsInv, documents, records
  <1>1. FreshRequests'
    BY DEF FreshRequests
  <1>2. (OrdersRead /\ SeizedIsApproved /\ MovesAllowed /\ EventsAudited)'
    BY DEF OrdersRead, SeizedIsApproved, MovesAllowed, EventsAudited, InTransaction, Written
  <1>3. (WritesStand /\ AnswersStand /\ MovesOfCompleted)'
    BY DEF WritesStand, AnswersStand, MovesOfCompleted, Stands
  <1>4. FinishersKnow'
    <2>1. \A q \in Proc : Finishing(q)' => q # p /\ Finishing(q)
      BY DEF Finishing
    <2>2. \A q \in Proc : q # p => MoveOf(q)' = MoveOf(q)
      BY DEF MoveOf
    <2>3. QED
      BY <2>1, <2>2 DEF FinishersKnow
  <1>5. (HandoverOnce /\ AcknowledgedIsRecorded /\ EventsAreTrue)'
    BY DEF HandoverOnce, AcknowledgedIsRecorded, EventsAreTrue, NewAssignment
  <1>6. QED
    BY <1>1, <1>2, <1>3, <1>4, <1>5

(* A handler that throws. *)
LEMMA RefuseRecords ==
    ASSUME TypeOK, JobsKnow, RecordsInv, NEW p \in Proc, Refuse(p)
    PROVE  RecordsInv'
  <1>1. /\ pc'[p] = "idle"
        /\ job'[p].t = NoTransfer
        /\ \A q \in Proc : q # p => pc'[q] = pc[q] /\ job'[q] = job[q]
    BY DEF TypeOK, Refuse, Goto, NoJob
  <1>2. \A q \in Proc : pc[q] \in Requesting => job[q].t # NoTransfer
    BY TransferAssumption DEF JobsKnow, Requesting
  <1>3. UNCHANGED <<documents, records>>
    BY DEF Refuse
  <1>4. QED
    BY <1>1, <1>2, <1>3, QuietRecords DEF Requesting, Deciding, Written, InTransaction

(* A request that arrives, or passes one of its checks. *)
LEMMA RequestRecords ==
    ASSUME TypeOK, JobsKnow, RecordsInv, NEW p \in Proc,
           Request(p) \/ CheckExisting(p) \/ CheckUser(p) \/ CheckDestination(p)
    PROVE  RecordsInv'
  <1>1. CASE Request(p)
    <2>1. PICK t \in Transfer, o \in Order :
            /\ status[t] = "NONE"
            /\ \A q \in Proc : job[q].t # t
            /\ job' = [job EXCEPT ![p] = NewJob(t, "PENDING", o)]
      BY <1>1 DEF Request
    <2>2. NewJob(t, "PENDING", o).t = t
      BY JobFields
    <2>3. /\ pc'[p] = "exists"
          /\ job'[p].t = t
          /\ \A q \in Proc : q # p => pc'[q] = pc[q] /\ job'[q] = job[q]
      BY <1>1, <2>1, <2>2 DEF Request, Goto, TypeOK
    <2>4. UNCHANGED <<documents, records>>
      BY <1>1 DEF Request
    <2>5. /\ status[job'[p].t] = "NONE"
          /\ \A q \in Proc : job[q].t # job'[p].t
      BY <2>1, <2>3
    <2>6. /\ pc'[p] \notin Written \cup Deciding
          /\ ~InTransaction(p)'
      BY <2>3 DEF Deciding, Written, InTransaction
    <2>7. QED
      BY <2>3, <2>4, <2>5, <2>6, QuietRecords
  <1>2. ASSUME pc[p] \in Requesting, job' = job, UNCHANGED <<documents, records>>,
               NEW where \in Requesting, Goto(p, where)
        PROVE  RecordsInv'
    <2>1. pc'[p] = where /\ \A q \in Proc : q # p => pc'[q] = pc[q]
      BY <1>2 DEF Goto, TypeOK
    <2>2. /\ status[job[p].t] = "NONE"
          /\ \A q \in Proc : q # p => job[q].t # job[p].t
      BY <1>2 DEF RecordsInv, FreshRequests
    <2>3. QED
      BY <1>2, <2>1, <2>2, QuietRecords DEF Requesting, Deciding, Written, InTransaction
  <1>3. CASE CheckExisting(p)
    BY <1>2, <1>3, RefuseRecords DEF CheckExisting, Requesting
  <1>4. CASE CheckUser(p)
    BY <1>2, <1>4, RefuseRecords DEF CheckUser, Requesting
  <1>5. CASE CheckDestination(p)
    BY <1>2, <1>5, RefuseRecords DEF CheckDestination, Requesting
  <1>6. QED
    BY <1>1, <1>3, <1>4, <1>5

(* A decider reads the order of a transfer that exists: no request is about to insert it. *)
LEMMA ReadTransferRecords ==
    ASSUME TypeOK, JobsKnow, OrdersKnown, RecordsInv, NEW p \in Proc, ReadTransfer(p)
    PROVE  RecordsInv'
  <1>1. PICK t \in Transfer, d \in Decisions :
          /\ status[t] \in Prior(d)
          /\ job' = [job EXCEPT ![p] = NewJob(t, d, order[t])]
          /\ Goto(p, IF d = "COMPLETED" THEN "begin" ELSE "decide")
    BY DEF ReadTransfer
  <1>2. status[t] # "NONE"
    BY <1>1 DEF Prior, Decisions
  <1>3. order[t] \in Order
    BY <1>2 DEF OrdersKnown
  <1>4. /\ NewJob(t, d, order[t]).t = t
        /\ NewJob(t, d, order[t]).order = order[t]
    BY <1>3, JobFields
  <1>5. /\ job'[p].t = t
        /\ job'[p].order = order[t]
        /\ pc'[p] \in {"begin", "decide"}
        /\ \A q \in Proc : q # p => pc'[q] = pc[q] /\ job'[q] = job[q]
    BY <1>1, <1>4 DEF Goto, TypeOK
  <1>6. \A q \in Proc : pc[q] \in Requesting => job[q].t # t
    BY <1>2 DEF RecordsInv, FreshRequests
  <1>7. UNCHANGED <<documents, records>>
    BY DEF ReadTransfer
  <1>8. QED
    BY <1>5, <1>6, <1>7, QuietRecords DEF Requesting, Deciding, Written, InTransaction

-----------------------------------------------------------------------------
(***************************************************************************)
(* The transaction: it takes its snapshot, takes its transfer, or meets a  *)
(* write conflict.  Its handler keeps the transfer and the order it has.   *)
(***************************************************************************)
LEMMA TransactionRecords ==
    ASSUME TypeOK, JobsKnow, RecordsInv, NEW p \in Proc,
           pc[p] \in {"begin", "seize"}, pc'[p] \in {"begin", "seize", "commit"},
           \A q \in Proc : q # p => pc'[q] = pc[q] /\ job'[q] = job[q],
           job'[p].t = job[p].t, job'[p].order = job[p].order,
           pc'[p] = "commit" => status[job[p].t] = "APPROVED",
           InTransaction(p)' => <<job'[p].from, To(job'[p].order)>> \in Allowed,
           UNCHANGED <<documents, records>>
    PROVE  RecordsInv'
  <1>1. job'[p].order = order[job'[p].t]
    BY DEF RecordsInv, OrdersRead, Deciding
  <1>2. \A q \in Proc : q # p /\ pc[q] \in Requesting => job'[p].t # job[q].t
    BY DEF RecordsInv, FreshRequests
  <1>3. QED
    BY <1>1, <1>2, QuietRecords DEF Requesting, Written

LEMMA BeginRecords ==
    ASSUME TypeOK, JobsKnow, RecordsInv, NEW p \in Proc, Begin(p)
    PROVE  RecordsInv'
  <1> DEFINE o == job[p].order
  <1>1. CASE ~Refuse(p)
    <2>1. /\ pc[p] = "begin"
          /\ <<lifecycle[o.asset], To(o)>> \in Allowed
          /\ Goto(p, "seize")
          /\ UNCHANGED <<documents, environment, records>>
      BY <1>1 DEF Begin
    <2>2. PICK seen \in Existing(o.asset) :
            job' = [job EXCEPT ![p].from = lifecycle[o.asset], ![p].existing = seen]
      BY <1>1 DEF Begin
    <2>3. job[p] \in Job
      BY DEF TypeOK
    <2>4. /\ job'[p].t = job[p].t
          /\ job'[p].order = o
          /\ job'[p].from = lifecycle[o.asset]
      BY <2>2, <2>3 DEF TypeOK, Job
    <2>5. /\ pc'[p] = "seize"
          /\ \A q \in Proc : q # p => pc'[q] = pc[q] /\ job'[q] = job[q]
      BY <2>1, <2>2 DEF TypeOK, Goto
    <2>6. QED
      BY <2>1, <2>4, <2>5, TransactionRecords
  <1>2. CASE Refuse(p)
    BY <1>2, RefuseRecords
  <1>3. QED
    BY <1>1, <1>2

LEMMA SeizeRecords ==
    ASSUME TypeOK, JobsKnow, RecordsInv, NEW p \in Proc, Seize(p) \/ Conflict(p)
    PROVE  RecordsInv'
  <1>1. CASE Seize(p)
    <2>1. /\ pc[p] = "seize"
          /\ status[job[p].t] = "APPROVED"
          /\ pc'[p] = "commit"
          /\ \A q \in Proc : q # p => pc'[q] = pc[q]
          /\ job' = job
          /\ UNCHANGED <<documents, records>>
      BY <1>1 DEF Seize, Goto, TypeOK
    <2>2. <<job[p].from, To(job[p].order)>> \in Allowed
      BY <2>1 DEF RecordsInv, MovesAllowed, InTransaction
    <2>3. QED
      BY <2>1, <2>2, TransactionRecords
  <1>2. CASE Conflict(p) /\ ~Refuse(p)
    <2>1. /\ pc[p] = "seize"
          /\ pc'[p] = "begin"
          /\ \A q \in Proc : q # p => pc'[q] = pc[q]
          /\ job' = job
          /\ UNCHANGED <<documents, records>>
      BY <1>2 DEF Conflict, Goto, TypeOK
    <2>2. QED
      BY <2>1, TransactionRecords DEF InTransaction
  <1>3. QED
    BY <1>1, <1>2, RefuseRecords

-----------------------------------------------------------------------------
(***************************************************************************)
(* A step that writes the status or the order of one transfer, completes   *)
(* none, and goes on to the audit event.                                   *)
(***************************************************************************)
LEMMA WriteRecords ==
    ASSUME TypeOK, JobsKnow, DecisionsFit, RecordsInv, NEW p \in Proc, NEW t \in Transfer,
           job[p].t = t, pc[p] \in {"insert", "decide"}, Goto(p, "audit"),
           StatusMoves, Stands(t, job[p].decision)', status'[t] # "COMPLETED",
           \A u \in Transfer : u # t => status'[u] = status[u] /\ order'[u] = order[u],
           order'[t] = job[p].order,
           \A q \in Proc : pc[q] \in Deciding \cup Written => order'[job[q].t] = order[job[q].t],
           \A q \in Proc : q # p /\ pc[q] \in Requesting => job[q].t # t,
           \A q \in Proc : pc[q] = "commit" => job[q].t # t,
           UNCHANGED <<open, returned, job, records>>
    PROVE  RecordsInv'
  <1> USE DEF records
  <1>1. /\ pc'[p] = "audit"
        /\ \A q \in Proc : q # p => pc'[q] = pc[q]
        /\ job[p].decision # "COMPLETED"
    BY DEF Goto, TypeOK, DecisionsFit, Fits
  <1>2. \A q \in Proc : pc[q] # "idle" => job[q].t \in Transfer
    BY DEF JobsKnow
  <1>3. FreshRequests'
    <2> SUFFICES ASSUME NEW q \in Proc, pc'[q] \in Requesting
                 PROVE  /\ status'[job[q].t] = "NONE"
                        /\ \A r \in Proc : r # q => job[r].t # job[q].t
      BY DEF FreshRequests
    <2>1. q # p /\ pc[q] \in Requesting /\ pc[q] # "idle"
      BY <1>1 DEF Requesting
    <2>2. QED
      BY <1>2, <2>1 DEF RecordsInv, FreshRequests
  <1>4. OrdersRead'
    <2> SUFFICES ASSUME NEW q \in Proc, pc'[q] \in Deciding \cup Written
                 PROVE  job[q].order = order'[job[q].t]
      BY DEF OrdersRead
    <2>1. CASE q = p
      BY <2>1
    <2>2. CASE q # p
      BY <1>1, <2>2 DEF RecordsInv, OrdersRead
    <2>3. QED
      BY <2>1, <2>2
  <1>5. SeizedIsApproved'
    BY <1>1, <1>2 DEF RecordsInv, SeizedIsApproved
  <1>6. MovesAllowed' /\ EventsAudited'
    BY <1>1 DEF RecordsInv, MovesAllowed, EventsAudited, InTransaction
  <1>7. WritesStand'
    <2> SUFFICES ASSUME NEW q \in Proc, pc'[q] \in Written
                 PROVE  Stands(job[q].t, job[q].decision)'
      BY DEF WritesStand
    <2>1. CASE q = p
      BY <2>1 DEF Stands
    <2>2. CASE q # p
      <3>1. Stands(job[q].t, job[q].decision) /\ job[q].t \in Transfer
        BY <1>1, <1>2, <2>2 DEF RecordsInv, WritesStand, Written
      <3>2. QED
        BY <3>1, StandsKept DEF Stands
    <2>3. QED
      BY <2>1, <2>2
  <1>8. AnswersStand'
    <2> SUFFICES ASSUME NEW a \in answered PROVE Stands(a[1], a[2])'
      BY DEF AnswersStand
    <2>1. Stands(a[1], a[2]) /\ a[1] \in Transfer
      BY RecordsTyped DEF RecordsInv, AnswersStand
    <2>2. QED
      BY <2>1, StandsKept DEF Stands
  <1>9. \A u \in Transfer : (status'[u] = "COMPLETED") = (status[u] = "COMPLETED")
    BY DEF StatusMoves
  <1>10. MovesOfCompleted'
    BY <1>9, RecordsTyped DEF RecordsInv, MovesOfCompleted
  <1>11. FinishersKnow'
    <2>1. \A q \in Proc : Finishing(q)' => q # p /\ Finishing(q)
      BY <1>1 DEF Finishing
    <2>2. \A q \in Proc : MoveOf(q)' = MoveOf(q)
      BY DEF MoveOf
    <2>3. QED
      BY <2>1, <2>2 DEF RecordsInv, FinishersKnow
  <1>12. HandoverOnce'
    <2>1. \A u \in Transfer : status[u] = "COMPLETED" => order'[u] = order[u]
      BY <1>9
    <2>2. \A u \in Transfer : { x \in open \cup returned : x.via = u } =
              IF status'[u] = "COMPLETED" THEN NewAssignment(u, order'[u]) ELSE {}
      BY <1>9, <2>1 DEF RecordsInv, HandoverOnce
    <2>3. QED
      BY <2>2 DEF RecordsInv, HandoverOnce, NewAssignment
  <1>13. AcknowledgedIsRecorded' /\ EventsAreTrue'
    BY DEF RecordsInv, AcknowledgedIsRecorded, EventsAreTrue
  <1>14. QED
    BY <1>3, <1>4, <1>5, <1>6, <1>7, <1>8, <1>10, <1>11, <1>12, <1>13 DEF RecordsInv

(* The request is inserted: nobody else has heard of the transfer yet. *)
LEMMA InsertRecords ==
    ASSUME TypeOK, JobsKnow, DecisionsFit, RecordsInv, NEW p \in Proc, Insert(p)
    PROVE  StatusMoves /\ RecordsInv'
  <1>1. PICK t \in Transfer : job[p].t = t
    BY DEF JobsKnow, Insert
  <1>2. /\ status[t] = "NONE"
        /\ \A q \in Proc : q # p => job[q].t # t
    BY <1>1 DEF RecordsInv, FreshRequests, Insert, Requesting
  <1>3. /\ pc[p] = "insert"
        /\ job[p].decision = "PENDING"
        /\ status' = [status EXCEPT ![t] = "PENDING"]
        /\ order' = [order EXCEPT ![t] = job[p].order]
        /\ Goto(p, "audit")
        /\ UNCHANGED <<open, returned, job, records>>
    BY <1>1 DEF Insert, DecisionsFit, Fits
  <1>4. /\ status'[t] = "PENDING"
        /\ order'[t] = job[p].order
        /\ \A u \in Transfer : u # t => status'[u] = status[u]
        /\ \A u : u # t => order'[u] = order[u]
    BY <1>3 DEF TypeOK
  <1>5. StatusMoves
    BY <1>2, <1>4 DEF StatusMoves
  <1>6. Stands(t, job[p].decision)'
    BY <1>3, <1>4 DEF Stands
  <1>7. \A q \in Proc : pc[q] \in Deciding \cup Written => order'[job[q].t] = order[job[q].t]
    BY <1>2, <1>3, <1>4 DEF Deciding, Written
  <1>8. QED
    BY <1>1, <1>2, <1>3, <1>4, <1>5, <1>6, <1>7, WriteRecords

(* A decision is taken: not while a transaction has the transfer. *)
LEMMA DecideRecords ==
    ASSUME TypeOK, JobsKnow, DecisionsFit, RecordsInv, NEW p \in Proc, Decide(p), ~Refuse(p)
    PROVE  StatusMoves /\ RecordsInv'
  <1>1. PICK t \in Transfer : job[p].t = t
    BY DEF JobsKnow, Decide
  <1> DEFINE d == job[p].decision
  <1>2. /\ pc[p] = "decide"
        /\ status[t] \in Prior(d)
        /\ d \in {"APPROVED", "REJECTED", "CANCELLED"}
        /\ \A q \in Proc : pc[q] = "commit" => job[q].t # t
        /\ status' = [status EXCEPT ![t] = d]
        /\ Goto(p, "audit")
        /\ UNCHANGED <<order, open, returned, job, records>>
    BY <1>1 DEF Decide, DecisionsFit, Fits, TransferLocked
  <1>3. /\ status'[t] = d
        /\ \A u \in Transfer : u # t => status'[u] = status[u]
    BY <1>2 DEF TypeOK
  <1>4. StatusMoves
    BY <1>2, <1>3 DEF StatusMoves, Prior
  <1>5. Stands(t, d)'
    BY <1>2, <1>3 DEF Stands
  <1>6. status[t] # "NONE"
    BY <1>2 DEF Prior
  <1>7. \A q \in Proc : pc[q] \in Requesting => job[q].t # t
    BY <1>6 DEF RecordsInv, FreshRequests
  <1>8. order[t] = job[p].order
    BY <1>1, <1>2 DEF RecordsInv, OrdersRead, Deciding
  <1>9. QED
    BY <1>1, <1>2, <1>3, <1>4, <1>5, <1>7, <1>8, WriteRecords

-----------------------------------------------------------------------------
(***************************************************************************)
(* What a transaction knows when it commits: its transfer is still         *)
(* APPROVED, its copies are the current ones, and its move is allowed.     *)
(***************************************************************************)
LEMMA CommitKnows ==
    ASSUME Inv, RecordsInv, NEW p \in Proc, pc[p] = "commit"
    PROVE  /\ job[p].t \in Transfer
           /\ job[p].order \in Order
           /\ job[p].order = order[job[p].t]
           /\ job[p].decision = "COMPLETED"
           /\ job[p].existing = OpenOf(job[p].order.asset)
           /\ job[p].from = lifecycle[job[p].order.asset]
           /\ status[job[p].t] = "APPROVED"
           /\ <<job[p].from, To(job[p].order)>> \in Allowed
  <1>1. /\ job[p].t \in Transfer
        /\ job[p].order \in Order
        /\ job[p].decision = "COMPLETED"
        /\ job[p].existing = OpenOf(job[p].order.asset)
        /\ job[p].from = lifecycle[job[p].order.asset]
    BY DEF Inv, JobsKnow, DecisionsFit, Fits, SnapshotCurrent, InTransaction
  <1>2. /\ job[p].order = order[job[p].t]
        /\ status[job[p].t] = "APPROVED"
        /\ <<job[p].from, To(job[p].order)>> \in Allowed
    BY DEF RecordsInv, OrdersRead, Deciding, SeizedIsApproved, MovesAllowed, InTransaction
  <1>3. QED
    BY <1>1, <1>2

(***************************************************************************)
(* The commit.  Until now the transfer was APPROVED, so that it has no     *)
(* assignment, no move and no other handler that finishes it.              *)
(***************************************************************************)
LEMMA CommitRecords ==
    ASSUME Inv, RecordsInv, NEW p \in Proc, Commit(p)
    PROVE  StatusMoves /\ RecordsInv'
  <1>0. PICK t \in Transfer, o \in Order : job[p].t = t /\ job[p].order = o
    BY DEF Inv, JobsKnow, Commit
  <1> DEFINE a == o.asset
             move == [asset |-> a, via |-> t, from |-> lifecycle[a], to |-> To(o)]
  <1>1. /\ pc[p] = "commit"
        /\ job[p].decision = "COMPLETED"
        /\ order[t] = o
        /\ status[t] = "APPROVED"
        /\ job[p].existing = OpenOf(a)
        /\ job[p].from = lifecycle[a]
    BY <1>0, CommitKnows DEF Commit
  <1>2. /\ open' = (open \ OpenOf(a)) \cup NewAssignment(t, o)
        /\ returned' = returned \cup OpenOf(a)
        /\ status' = [status EXCEPT ![t] = "COMPLETED"]
        /\ handovers' = handovers \cup {move}
        /\ UNCHANGED <<order, job, auditLog, history, answered>>
    BY <1>0, <1>1 DEF Commit
  <1>3. /\ pc'[p] = "audit"
        /\ \A q \in Proc : q # p => pc'[q] = pc[q]
    BY DEF Commit, Goto, Inv, TypeOK
  <1>4. /\ status'[t] = "COMPLETED"
        /\ \A u \in Transfer : u # t => status'[u] = status[u]
    BY <1>2 DEF Inv, TypeOK
  <1>5. move.via = t /\ MoveOf(p) = move
    BY <1>0, <1>1 DEF MoveOf
  <1> HIDE DEF a, move
  <1>6. StatusMoves
    BY <1>1, <1>4 DEF StatusMoves
  <1>7. \A q \in Proc : pc[q] # "idle" => job[q].t \in Transfer
    BY DEF Inv, JobsKnow
  <1>8. FreshRequests'
    <2> SUFFICES ASSUME NEW q \in Proc, pc'[q] \in Requesting
                 PROVE  /\ status'[job[q].t] = "NONE"
                        /\ \A r \in Proc : r # q => job[r].t # job[q].t
      BY <1>2 DEF FreshRequests
    <2>1. q # p /\ pc[q] \in Requesting /\ pc[q] # "idle"
      BY <1>3 DEF Requesting
    <2>2. job[q].t # t
      BY <1>0, <2>1 DEF RecordsInv, FreshRequests
    <2>3. QED
      BY <1>4, <1>7, <2>1, <2>2 DEF RecordsInv, FreshRequests
  <1>9. OrdersRead' /\ MovesAllowed' /\ EventsAudited'
    BY <1>1, <1>2, <1>3
       DEF RecordsInv, OrdersRead, Deciding, Written, MovesAllowed, EventsAudited, InTransaction
  <1>10. SeizedIsApproved'
    <2> SUFFICES ASSUME NEW q \in Proc, pc'[q] = "commit"
                 PROVE  status'[job[q].t] = "APPROVED"
      BY <1>2 DEF SeizedIsApproved
    <2>1. q # p /\ pc[q] = "commit"
      BY <1>3
    <2>2. job[q].t # t
      <3>1. ASSUME job[q].t = t PROVE FALSE
        <4>1. job[q].order = o
          BY <1>1, <2>1, <3>1, CommitKnows
        <4>2. QED
          BY <1>0, <1>1, <2>1, <4>1 DEF Inv, OneTransactionPerAsset, InTransaction
      <3>2. QED
        BY <3>1
    <2>3. QED
      BY <1>4, <1>7, <2>1, <2>2 DEF RecordsInv, SeizedIsApproved
  <1>11. WritesStand'
    <2> SUFFICES ASSUME NEW q \in Proc, pc'[q] \in Written
                 PROVE  Stands(job[q].t, job[q].decision)'
      BY <1>2 DEF WritesStand
    <2>1. CASE q = p
      BY <1>0, <1>1, <1>2, <1>4, <2>1 DEF Stands
    <2>2. CASE q # p
      <3>1. Stands(job[q].t, job[q].decision) /\ job[q].t \in Transfer
        BY <1>3, <1>7, <2>2 DEF RecordsInv, WritesStand, Written
      <3>2. QED
        BY <1>2, <1>6, <3>1, StandsKept DEF Stands
    <2>3. QED
      BY <2>1, <2>2
  <1>12. AnswersStand'
    <2> SUFFICES ASSUME NEW x \in answered PROVE Stands(x[1], x[2])'
      BY <1>2 DEF AnswersStand
    <2>1. Stands(x[1], x[2]) /\ x[1] \in Transfer
      BY RecordsTyped DEF Inv, RecordsInv, AnswersStand
    <2>2. QED
      BY <1>6, <2>1, StandsKept DEF Stands
  <1>13. \A h \in handovers : h.via # t
    BY <1>1 DEF RecordsInv, MovesOfCompleted
  <1>14. MovesOfCompleted'
    <2> SUFFICES ASSUME NEW h \in handovers'
                 PROVE  /\ status'[h.via] = "COMPLETED"
                        /\ \A k \in handovers' : k.via = h.via => k = h
      BY DEF MovesOfCompleted
    <2>1. CASE h = move
      BY <1>2, <1>4, <1>5, <1>13, <2>1
    <2>2. CASE h \in handovers
      BY <1>2, <1>4, <1>5, <1>13, <2>2, RecordsTyped DEF Inv, RecordsInv, MovesOfCompleted
    <2>3. QED
      BY <1>2, <2>1, <2>2
  <1>15. \A i \in 1 .. Len(history) : history[i].via # t
    BY <1>13 DEF RecordsInv, EventsAreTrue
  <1>16. FinishersKnow'
    <2>1. \A q \in Proc : q # p /\ Finishing(q)' => Finishing(q) /\ job[q].t # t
      BY <1>1, <1>2, <1>3 DEF Finishing, RecordsInv, WritesStand, Stands
    <2>2. \A q \in Proc : MoveOf(q)' = MoveOf(q)
      BY <1>2 DEF MoveOf
    <2>3. MoveOf(p) \in handovers'
      BY <1>2, <1>5
    <2>4. \A q \in Proc : q # p /\ Finishing(q)' => MoveOf(q) \in handovers'
      BY <1>2, <2>1 DEF RecordsInv, FinishersKnow
    <2>5. \A q \in Proc : Finishing(q)' =>
              \A i \in 1 .. Len(history) : history[i].via # job[q].t
      BY <1>0, <1>15, <2>1 DEF RecordsInv, FinishersKnow
    <2>6. \A q, r \in Proc : Finishing(q)' /\ Finishing(r)' /\ job[r].t = job[q].t => r = q
      BY <1>0, <2>1 DEF RecordsInv, FinishersKnow
    <2>7. QED
      BY <1>2, <2>2, <2>3, <2>4, <2>5, <2>6 DEF FinishersKnow
  <1>17. HandoverOnce'
    <2>1. \A x \in NewAssignment(t, o) : x.via = t
      BY DEF NewAssignment
    <2>2. \A x \in open \cup returned : x.via # t
      BY <1>1 DEF RecordsInv, HandoverOnce
    <2>3. open' \cup returned' = (open \cup returned) \cup NewAssignment(t, o)
      BY <1>2 DEF OpenOf
    <2>4. open' \cap returned' = {}
      BY <1>2, <2>1, <2>2 DEF RecordsInv, HandoverOnce, OpenOf
    <2>5. { x \in open' \cup returned' : x.via = t } = NewAssignment(t, o)
      BY <2>1, <2>2, <2>3
    <2>6. ASSUME NEW u \in Transfer, u # t
          PROVE  { x \in open' \cup returned' : x.via = u } = { x \in open \cup returned : x.via = u }
      BY <2>1, <2>3, <2>6
    <2>7. ASSUME NEW u \in Transfer
          PROVE  { x \in open' \cup returned' : x.via = u } =
                     IF status'[u] = "COMPLETED" THEN NewAssignment(u, order[u]) ELSE {}
      <3>1. CASE u = t
        BY <1>1, <1>4, <2>5, <3>1
      <3>2. CASE u # t
        BY <1>4, <2>6, <3>2 DEF RecordsInv, HandoverOnce
      <3>3. QED
        BY <3>1, <3>2
    <2>8. QED
      BY <1>2, <2>4, <2>7 DEF HandoverOnce, NewAssignment
  <1>18. AcknowledgedIsRecorded'
    <2>1. <<t, "COMPLETED">> \notin answered
      BY <1>1 DEF RecordsInv, AnswersStand, Stands
    <2>2. QED
      BY <1>2, <1>5, <2>1 DEF RecordsInv, AcknowledgedIsRecorded
  <1>19. EventsAreTrue'
    BY <1>2 DEF RecordsInv, EventsAreTrue
  <1>20. QED
    BY <1>6, <1>8, <1>9, <1>10, <1>11, <1>12, <1>14, <1>16, <1>17, <1>18, <1>19 DEF RecordsInv

-----------------------------------------------------------------------------
(***************************************************************************)
(* The parts that a handler that writes only records, or answers, leaves   *)
(* to the other handlers: it has no transfer to insert and no transaction. *)
(***************************************************************************)
LEMMA AfterWriteOthers ==
    ASSUME Inv, RecordsInv, NEW p \in Proc, pc[p] \in Written,
           UNCHANGED <<documents, handovers>>,
           \A q \in Proc : q # p => pc'[q] = pc[q] /\ job'[q] = job[q],
           \/ pc'[p] = "event" /\ job'[p] = job[p]
           \/ pc'[p] = "idle" /\ job'[p].t = NoTransfer
    PROVE  /\ (FreshRequests /\ OrdersRead /\ SeizedIsApproved /\ MovesAllowed /\ WritesStand)'
           /\ (MovesOfCompleted /\ HandoverOnce)'
  <1> USE DEF RecordsInv, documents
  <1>1. FreshRequests'
    <2> SUFFICES ASSUME NEW q \in Proc, pc'[q] \in Requesting
                 PROVE  /\ status'[job'[q].t] = "NONE"
                        /\ \A r \in Proc : r # q => job'[r].t # job'[q].t
      BY DEF FreshRequests
    <2>1. q # p /\ pc[q] \in Requesting /\ job'[q] = job[q]
      BY DEF Requesting
    <2>2. job[q].t # NoTransfer
      BY <2>1, TransferAssumption DEF Inv, JobsKnow, Requesting
    <2>3. QED
      BY <2>1, <2>2 DEF FreshRequests
  <1>2. (OrdersRead /\ SeizedIsApproved /\ MovesAllowed)'
    BY DEF OrdersRead, SeizedIsApproved, MovesAllowed, InTransaction, Deciding, Written
  <1>3. WritesStand'
    BY DEF WritesStand, Written, Stands
  <1>4. (MovesOfCompleted /\ HandoverOnce)'
    BY DEF MovesOfCompleted, HandoverOnce, NewAssignment
  <1>5. QED
    BY <1>1, <1>2, <1>3, <1>4

(***************************************************************************)
(* The audit event.  Who answers now was told nothing that does not stand, *)
(* and a completion that answers now made no change of lifecycle status.   *)
(***************************************************************************)
LEMMA AuditRecords ==
    ASSUME Inv, RecordsInv, NEW p \in Proc, Audit(p)
    PROVE  RecordsInv'
  <1> DEFINE told == <<job[p].t, job[p].decision>>
  <1>1. /\ pc[p] = "audit"
        /\ job[p].t \in Transfer
        /\ Stands(job[p].t, job[p].decision)
    BY DEF Audit, Inv, JobsKnow, RecordsInv, WritesStand, Written
  <1>2. /\ UNCHANGED <<documents, history, handovers>>
        /\ auditLog' = auditLog \cup {told}
    BY DEF Audit
  <1>3. \/ /\ pc' = [pc EXCEPT ![p] = "event"]
           /\ UNCHANGED <<job, answered>>
        \/ /\ pc' = [pc EXCEPT ![p] = "idle"]
           /\ job' = [job EXCEPT ![p] = NoJob]
           /\ answered' = answered \cup {told}
           /\ job[p].decision = "COMPLETED" => job[p].from = To(job[p].order)
    BY DEF Audit, Answer, Goto
  <1>4. /\ \A q \in Proc : q # p => pc'[q] = pc[q] /\ job'[q] = job[q]
        /\ \/ pc'[p] = "event" /\ job'[p] = job[p] /\ answered' = answered
           \/ /\ pc'[p] = "idle"
              /\ job'[p].t = NoTransfer
              /\ answered' = answered \cup {told}
              /\ job[p].decision = "COMPLETED" => job[p].from = To(job[p].order)
    BY <1>3 DEF Inv, TypeOK, NoJob
  <1>5. /\ (FreshRequests /\ OrdersRead /\ SeizedIsApproved /\ MovesAllowed /\ WritesStand)'
        /\ (MovesOfCompleted /\ HandoverOnce)'
    BY <1>1, <1>2, <1>4, AfterWriteOthers DEF Written
  <1> HIDE DEF told
  <1>6. AnswersStand'
    <2>1. \A x \in answered' : x \in answered \/ x = told
      BY <1>4
    <2>2. \A x \in answered' : Stands(x[1], x[2])
      BY <1>1, <2>1 DEF told, RecordsInv, AnswersStand
    <2>3. QED
      BY <1>2, <2>2 DEF AnswersStand, Stands, documents
  <1>7. FinishersKnow'
    <2>1. \A q \in Proc : Finishing(q)' => Finishing(q) /\ job'[q] = job[q]
      BY <1>1, <1>4 DEF Finishing, Written
    <2>2. \A q \in Proc : Finishing(q)' => MoveOf(q)' = MoveOf(q)
      BY <2>1 DEF MoveOf
    <2>3. QED
      BY <1>2, <2>1, <2>2 DEF RecordsInv, FinishersKnow
  <1>8. EventsAudited'
    <2> SUFFICES ASSUME NEW q \in Proc, pc'[q] = "event"
                 PROVE  <<job'[q].t, job'[q].decision>> \in auditLog'
      BY DEF EventsAudited
    <2>1. CASE q = p
      BY <1>2, <1>4, <2>1 DEF told
    <2>2. CASE q # p
      BY <1>2, <1>4, <2>2 DEF RecordsInv, EventsAudited
    <2>3. QED
      BY <2>1, <2>2
  <1>9. AcknowledgedIsRecorded'
    <2>1. answered' \subseteq auditLog'
      BY <1>2, <1>4 DEF RecordsInv, AcknowledgedIsRecorded
    <2>2. ASSUME NEW h \in handovers, <<h.via, "COMPLETED">> \in answered', h.from # h.to
          PROVE  \E i \in 1 .. Len(history) : history[i] = h
      <3>1. CASE <<h.via, "COMPLETED">> \in answered
        BY <2>2, <3>1 DEF RecordsInv, AcknowledgedIsRecorded
      <3>2. ASSUME <<h.via, "COMPLETED">> = told, <<h.via, "COMPLETED">> \notin answered
            PROVE  FALSE
        <4>1. /\ h.via = job[p].t
              /\ job[p].decision = "COMPLETED"
              /\ job[p].from = To(job[p].order)
          BY <1>4, <2>2, <3>2 DEF told
        <4>2. MoveOf(p) \in handovers
          BY <1>1, <4>1 DEF RecordsInv, FinishersKnow, Finishing, Written
        <4>3. MoveOf(p).via = job[p].t /\ MoveOf(p).from = MoveOf(p).to
          BY <4>1 DEF MoveOf
        <4>4. h = MoveOf(p)
          BY <4>1, <4>2, <4>3 DEF RecordsInv, MovesOfCompleted
        <4>5. QED
          BY <2>2, <4>3, <4>4
      <3>3. QED
        BY <1>4, <2>2, <3>1, <3>2
    <2>3. QED
      BY <1>2, <2>1, <2>2 DEF AcknowledgedIsRecorded
  <1>10. EventsAreTrue'
    BY <1>2 DEF RecordsInv, EventsAreTrue
  <1>11. QED
    BY <1>5, <1>6, <1>7, <1>8, <1>9, <1>10 DEF RecordsInv

(* The lifecycle event: it is the move the transfer committed, and the first entry of its. *)
LEMMA RecordEventRecords ==
    ASSUME Inv, RecordsInv, NEW p \in Proc, RecordEvent(p)
    PROVE  RecordsInv'
  <1> DEFINE told == <<job[p].t, job[p].decision>>
  <1>1. /\ pc[p] = "event"
        /\ job[p].t \in Transfer
        /\ job[p].decision = "COMPLETED"
        /\ Stands(job[p].t, job[p].decision)
        /\ told \in auditLog
        /\ Finishing(p)
    BY DEF RecordEvent, Inv, JobsKnow, DecisionsFit, Fits, RecordsInv, WritesStand, Written,
           EventsAudited, Finishing
  <1>2. /\ UNCHANGED <<documents, auditLog, handovers>>
        /\ history' = Append(history, MoveOf(p))
        /\ answered' = answered \cup {told}
        /\ pc' = [pc EXCEPT ![p] = "idle"]
        /\ job' = [job EXCEPT ![p] = NoJob]
    BY DEF RecordEvent, Answer, Goto, MoveOf
  <1>3. /\ \A q \in Proc : q # p => pc'[q] = pc[q] /\ job'[q] = job[q]
        /\ pc'[p] = "idle" /\ job'[p].t = NoTransfer
    BY <1>2 DEF Inv, TypeOK, NoJob
  <1>4. /\ (FreshRequests /\ OrdersRead /\ SeizedIsApproved /\ MovesAllowed /\ WritesStand)'
        /\ (MovesOfCompleted /\ HandoverOnce)'
    BY <1>1, <1>2, <1>3, AfterWriteOthers DEF Written
  <1> HIDE DEF told
  <1>5. AnswersStand'
    <2>1. \A x \in answered' : Stands(x[1], x[2])
      BY <1>1, <1>2 DEF told, RecordsInv, AnswersStand
    <2>2. QED
      BY <1>2, <2>1 DEF AnswersStand, Stands, documents
  <1>6. /\ MoveOf(p) \in handovers
        /\ MoveOf(p).via = job[p].t
        /\ \A i \in 1 .. Len(history) : history[i].via # job[p].t
    BY <1>1 DEF RecordsInv, FinishersKnow, MoveOf
  <1>7. /\ Len(history') = Len(history) + 1
        /\ history'[Len(history) + 1] = MoveOf(p)
        /\ \A i \in 1 .. Len(history) : history'[i] = history[i]
        /\ Len(history) \in Nat
    BY <1>2 DEF Inv, TypeOK
  <1>8. FinishersKnow'
    <2>1. \A q \in Proc : Finishing(q)' =>
              q # p /\ Finishing(q) /\ job'[q] = job[q] /\ job[q].t # job[p].t
      BY <1>1, <1>3 DEF RecordsInv, FinishersKnow, Finishing, Written
    <2>2. \A q \in Proc : Finishing(q)' => MoveOf(q)' = MoveOf(q)
      BY <2>1 DEF MoveOf
    <2>3. \A q \in Proc : Finishing(q)' =>
              \A i \in 1 .. Len(history') : history'[i].via # job[q].t
      BY <1>6, <1>7, <2>1 DEF RecordsInv, FinishersKnow
    <2>4. QED
      BY <1>2, <2>1, <2>2, <2>3 DEF RecordsInv, FinishersKnow
  <1>9. EventsAudited'
    BY <1>2, <1>3 DEF RecordsInv, EventsAudited
  <1>10. AcknowledgedIsRecorded'
    <2>1. answered' \subseteq auditLog'
      BY <1>1, <1>2 DEF RecordsInv, AcknowledgedIsRecorded
    <2>2. ASSUME NEW h \in handovers, <<h.via, "COMPLETED">> \in answered', h.from # h.to
          PROVE  \E i \in 1 .. Len(history') : history'[i] = h
      <3>1. CASE <<h.via, "COMPLETED">> \in answered
        <4>1. PICK i \in 1 .. Len(history) : history[i] = h
          BY <2>2, <3>1 DEF RecordsInv, AcknowledgedIsRecorded
        <4>2. QED
          BY <1>7, <4>1
      <3>2. CASE h.via = job[p].t
        <4>1. h = MoveOf(p)
          BY <1>6, <3>2 DEF RecordsInv, MovesOfCompleted
        <4>2. QED
          BY <1>7, <4>1
      <3>3. QED
        BY <1>2, <2>2, <3>1, <3>2 DEF told
    <2>3. QED
      BY <1>2, <2>1, <2>2 DEF AcknowledgedIsRecorded
  <1>11. EventsAreTrue'
    <2>1. \A i \in 1 .. Len(history') : history'[i] \in handovers'
      BY <1>2, <1>6, <1>7 DEF RecordsInv, EventsAreTrue
    <2>2. \A i, j \in 1 .. Len(history') : history'[i].via = history'[j].via => i = j
      BY <1>6, <1>7 DEF RecordsInv, EventsAreTrue
    <2>3. QED
      BY <2>1, <2>2 DEF EventsAreTrue
  <1>12. QED
    BY <1>4, <1>5, <1>8, <1>9, <1>10, <1>11 DEF RecordsInv

(* Steps of the surroundings, and stuttering, move neither handlers nor documents. *)
LEMMA SurroundingsRecords ==
    ASSUME RecordsInv, UNCHANGED <<documents, pc, job, records>>
    PROVE  RecordsInv'
  <1> USE DEF RecordsInv, documents, records
  <1>1. (FreshRequests /\ OrdersRead /\ SeizedIsApproved /\ MovesAllowed /\ WritesStand)'
    BY DEF FreshRequests, OrdersRead, SeizedIsApproved, MovesAllowed, WritesStand, Stands,
           InTransaction
  <1>2. (AnswersStand /\ MovesOfCompleted /\ FinishersKnow /\ EventsAudited)'
    BY DEF AnswersStand, Stands, MovesOfCompleted, FinishersKnow, Finishing, MoveOf, EventsAudited
  <1>3. (HandoverOnce /\ AcknowledgedIsRecorded /\ EventsAreTrue)'
    BY DEF HandoverOnce, NewAssignment, AcknowledgedIsRecorded, EventsAreTrue
  <1>4. QED
    BY <1>1, <1>2, <1>3

-----------------------------------------------------------------------------
(* Every step keeps the invariant. *)
LEMMA NextRecords == Inv /\ RecordsInv /\ [Next]_vars => RecordsInv'
  <1> SUFFICES ASSUME Inv, RecordsInv, [Next]_vars PROVE RecordsInv'
    OBVIOUS
  <1>0. TypeOK /\ JobsKnow /\ OrdersKnown /\ DecisionsFit
    BY DEF Inv
  <1>1. ASSUME NEW p \in Proc, Request(p) \/ ReadTransfer(p) PROVE RecordsInv'
    BY <1>0, <1>1, RequestRecords, ReadTransferRecords
  <1>2. ASSUME NEW p \in Proc, Step(p) PROVE RecordsInv'
    <2>1. CASE CheckExisting(p) \/ CheckUser(p) \/ CheckDestination(p) \/ GiveUp(p)
      BY <1>0, <2>1, RequestRecords, RefuseRecords DEF GiveUp
    <2>2. CASE Insert(p) \/ Decide(p)
      BY <1>0, <2>2, InsertRecords, DecideRecords, RefuseRecords
    <2>3. CASE Begin(p) \/ Seize(p) \/ Conflict(p)
      BY <1>0, <2>3, BeginRecords, SeizeRecords
    <2>4. CASE Commit(p) \/ Audit(p) \/ RecordEvent(p)
      BY <2>4, CommitRecords, AuditRecords, RecordEventRecords
    <2>5. QED
      BY <1>2, <2>1, <2>2, <2>3, <2>4 DEF Step
  <1>3. ASSUME NEW p \in Proc, Crash(p) PROVE RecordsInv'
    BY <1>0, <1>3, RefuseRecords DEF Crash
  <1>4. ASSUME NEW u \in User, SetActive(u) PROVE RecordsInv'
    BY <1>4, SurroundingsRecords DEF SetActive
  <1>5. ASSUME NEW x \in Location \cup Department, LosePlace(x) PROVE RecordsInv'
    BY <1>5, SurroundingsRecords DEF LosePlace
  <1>6. CASE UNCHANGED vars
    BY <1>6, SurroundingsRecords DEF vars
  <1>7. QED
    BY <1>1, <1>2, <1>3, <1>4, <1>5, <1>6 DEF Next

(* Both invariants hold in every state of every behaviour. *)
THEOREM TransferInvariance == Spec => [](Inv /\ RecordsInv)
  BY InitInv, NextInv, InitRecords, NextRecords, PTL DEF Spec

(***************************************************************************)
(* A completed transfer to a user has made its assignment exactly once,    *)
(* and no other transfer has made any, whoever retried, raced or died.     *)
(***************************************************************************)
THEOREM HandoversHappenOnce == Spec => []HandoverOnce
  <1>1. RecordsInv => HandoverOnce
    BY DEF RecordsInv
  <1>2. QED
    BY <1>1, TransferInvariance, PTL

(***************************************************************************)
(* What a client was told about a decision stays true: the filters on the  *)
(* required status and the transaction's hold on its transfer admit one    *)
(* winner of every race.                                                   *)
(***************************************************************************)
THEOREM AnswersStandForever == Spec => []DecisionsStand
  <1>1. AnswersStand => DecisionsStand
    BY DEF AnswersStand, Stands, DecisionsStand
  <1>2. RecordsInv => AnswersStand
    BY DEF RecordsInv
  <1>3. QED
    BY <1>1, <1>2, TransferInvariance, PTL

(***************************************************************************)
(* What a client was told is in the audit log, and the change of lifecycle *)
(* status it caused is in the history of the asset.                        *)
(***************************************************************************)
THEOREM AnswersAreRecorded == Spec => []AcknowledgedIsRecorded
  <1>1. RecordsInv => AcknowledgedIsRecorded
    BY DEF RecordsInv
  <1>2. QED
    BY <1>1, TransferInvariance, PTL

(***************************************************************************)
(* Every entry of the asset history is a move that its transfer committed, *)
(* with the status the commit replaced, and no transfer has two entries.   *)
(***************************************************************************)
THEOREM HistoryIsTrue == Spec => []EventsAreTrue
  <1>1. RecordsInv => EventsAreTrue
    BY DEF RecordsInv
  <1>2. QED
    BY <1>1, TransferInvariance, PTL
=============================================================================
