---------------------------- MODULE AssetTransfer ----------------------------
(***************************************************************************)
(* AssetTransferService: requests to move an asset to a user, a location   *)
(* or a department, as the API processes really serve them.  A process p   *)
(* works on one HTTP request at a time; every await of the handler is a    *)
(* step of its own, so the steps of two handlers interleave freely.        *)
(*                                                                         *)
(* complete() runs in a MongoDB snapshot transaction.  Its first operation *)
(* writes the asset document, which fixes the snapshot and keeps every     *)
(* other transaction off that asset; a document that somebody else changed *)
(* since the snapshot raises a write conflict, upon which withTransaction  *)
(* runs the callback again or, after its time limit, gives up.             *)
(***************************************************************************)
EXTENDS Naturals, Sequences, FiniteSets

CONSTANTS
    Proc,                       \* API handlers running at the same time
    Transfer,                   \* identifiers of transfer requests
    Asset,
    User,
    Location,
    Department,
    DeptLocation,               \* [Department -> Location]: Department.locationId
    NoUser, NoLocation, NoDepartment, NoTransfer, NoOrder,
    Allowed,                    \* the moves assertLifecycleTransition accepts
    StartStatus,                \* the lifecycle statuses assets begin with
    MayCrash                    \* whether an API process can die half-way

Lifecycle == {"REQUESTED", "IN_STOCK", "ASSIGNED", "IN_REPAIR",
              "LOST_STOLEN", "RETIRED", "DISPOSED"}

(***************************************************************************)
(* The absent values are not members of the sets they complete, a          *)
(* department has one location, and the lifecycle relation (the module     *)
(* asset-lifecycle, which the repository does not hold) is any relation.   *)
(***************************************************************************)
ASSUME TransferAssumption ==
    /\ NoUser \notin User
    /\ NoLocation \notin Location
    /\ NoDepartment \notin Department
    /\ NoTransfer \notin Transfer
    /\ DeptLocation \in [Department -> Location]
    /\ Allowed \subseteq Lifecycle \X Lifecycle
    /\ StartStatus \subseteq Lifecycle
    /\ MayCrash \in BOOLEAN

VARIABLES
    status,         \* asset_transfers.status, "NONE" while there is no such document
    order,          \* the asset and destination of a transfer
    lifecycle,      \* assets.status
    location,       \* assets.locationId
    department,     \* assets.departmentId
    open,           \* asset_assignments without returnedAt
    returned,       \* asset_assignments with returnedAt
    active,         \* the users with isActive
    places,         \* locations and departments that exist in the caller's scope
    pc,             \* the await each process is at
    job,            \* the local variables of its handler
    auditLog,       \* audit_events of transfers: <<transfer, status>>
    history,        \* asset_audit_events in the order they are written
    answered,       \* ghost: the decisions reported to a client as successful
    handovers       \* ghost: the moves of lifecycle status that were committed

documents == <<status, order, lifecycle, location, department, open, returned>>

records == <<auditLog, history, answered, handovers>>

environment == <<active, places>>

vars == <<documents, environment, pc, job, records>>

(***************************************************************************)
(* What a request may ask for.  One without any destination is refused     *)
(* before anything is read or written.                                     *)
(***************************************************************************)
Order == { o \in [asset : Asset, user : User \cup {NoUser},
                  location : Location \cup {NoLocation},
                  department : Department \cup {NoDepartment}] :
             \/ o.user # NoUser
             \/ o.location # NoLocation
             \/ o.department # NoDepartment }

(***************************************************************************)
(* The status a transfer must have for a decision to be taken on it; a     *)
(* decision is named by the status it leads to.                            *)
(***************************************************************************)
Prior(d) ==
    CASE d = "APPROVED"  -> {"PENDING"}
      [] d = "REJECTED"  -> {"PENDING"}
      [] d = "CANCELLED" -> {"PENDING", "APPROVED"}
      [] d = "COMPLETED" -> {"APPROVED"}

Decisions == {"APPROVED", "REJECTED", "CANCELLED", "COMPLETED"}

Status == Decisions \cup {"NONE", "PENDING"}

Assignment == [asset : Asset, user : User, via : Transfer \cup {NoTransfer}]

Event == [asset : Asset, via : Transfer, from : Lifecycle, to : Lifecycle]

NoJob == [t |-> NoTransfer, decision |-> "NONE", order |-> NoOrder,
          from |-> "NONE", existing |-> {}]

NewJob(t, d, o) == [NoJob EXCEPT !.t = t, !.decision = d, !.order = o]

OpenOf(a) == { x \in open : x.asset = a }

To(o) == IF o.user # NoUser THEN "ASSIGNED" ELSE "IN_STOCK"

UserOK(o) == o.user # NoUser => o.user \in active

(***************************************************************************)
(* A named location must exist in scope, and then a named department must  *)
(* be one of that location; a department alone must exist, with its        *)
(* location in scope.                                                      *)
(***************************************************************************)
ValidDestination(o) ==
    /\ o.location # NoLocation => o.location \in places
    /\ o.department # NoDepartment =>
        /\ o.department \in places
        /\ IF o.location # NoLocation THEN DeptLocation[o.department] = o.location
                                      ELSE DeptLocation[o.department] \in places

Moved(old, new, none) == IF new = none THEN old ELSE new

-----------------------------------------------------------------------------
Init ==
    /\ status = [t \in Transfer |-> "NONE"]
    /\ order = [t \in Transfer |-> NoOrder]
    /\ lifecycle \in [Asset -> StartStatus]
    /\ location \in [Asset -> Location \cup {NoLocation}]
    /\ department \in [Asset -> Department \cup {NoDepartment}]
    /\ \A a \in Asset :
        department[a] # NoDepartment => location[a] = DeptLocation[department[a]]
    /\ \E holder \in [Asset -> User \cup {NoUser}] :
        /\ \A a \in Asset :
            /\ lifecycle[a] = "ASSIGNED" => holder[a] # NoUser
            /\ lifecycle[a] = "IN_STOCK" => holder[a] = NoUser
        /\ open = { x \in Assignment : x.via = NoTransfer /\ x.user = holder[x.asset] }
    /\ returned = {}
    /\ active = User
    /\ places = Location \cup Department
    /\ pc = [p \in Proc |-> "idle"]
    /\ job = [p \in Proc |-> NoJob]
    /\ auditLog = {}
    /\ history = <<>>
    /\ answered = {}
    /\ handovers = {}

Goto(p, where) == pc' = [pc EXCEPT ![p] = where]

(***************************************************************************)
(* The handler throws: the client is told no, and nothing is written.      *)
(***************************************************************************)
Refuse(p) ==
    /\ Goto(p, "idle")
    /\ job' = [job EXCEPT ![p] = NoJob]
    /\ UNCHANGED <<documents, environment, records>>

(***************************************************************************)
(* The handler returns: the client is told that its decision stands.       *)
(***************************************************************************)
Answer(p) ==
    /\ Goto(p, "idle")
    /\ job' = [job EXCEPT ![p] = NoJob]
    /\ answered' = answered \cup {<<job[p].t, job[p].decision>>}

-----------------------------------------------------------------------------
(* request(): check, check, check, insert.                                 *)

(***************************************************************************)
(* A request arrives and finds its asset in scope.  The identifier of the  *)
(* document it may create is fresh; Transfer bounds how many there are.    *)
(***************************************************************************)
Request(p) ==
    /\ pc[p] = "idle"
    /\ \E t \in Transfer, o \in Order :
        /\ status[t] = "NONE"
        /\ \A q \in Proc : job[q].t # t
        /\ job' = [job EXCEPT ![p] = NewJob(t, "PENDING", o)]
    /\ Goto(p, "exists")
    /\ UNCHANGED <<documents, environment, records>>

ActiveOn(a) == { t \in Transfer : status[t] \in {"PENDING", "APPROVED"} /\ order[t].asset = a }

CheckExisting(p) ==
    /\ pc[p] = "exists"
    /\ IF ActiveOn(job[p].order.asset) # {}
       THEN Refuse(p)
       ELSE /\ Goto(p, "user")
            /\ UNCHANGED <<documents, environment, job, records>>

CheckUser(p) ==
    /\ pc[p] = "user"
    /\ IF UserOK(job[p].order)
       THEN /\ Goto(p, "destination")
            /\ UNCHANGED <<documents, environment, job, records>>
       ELSE Refuse(p)

CheckDestination(p) ==
    /\ pc[p] = "destination"
    /\ IF ValidDestination(job[p].order)
       THEN /\ Goto(p, "insert")
            /\ UNCHANGED <<documents, environment, job, records>>
       ELSE Refuse(p)

Insert(p) ==
    /\ pc[p] = "insert"
    /\ status' = [status EXCEPT ![job[p].t] = "PENDING"]
    /\ order' = [order EXCEPT ![job[p].t] = job[p].order]
    /\ Goto(p, "audit")
    /\ UNCHANGED <<lifecycle, location, department, open, returned,
                   environment, job, records>>

-----------------------------------------------------------------------------
(* approve(), reject(), cancel(): read the document, then compare and set. *)

(***************************************************************************)
(* Every decision begins by reading the transfer and refuses one whose     *)
(* status does not admit it.  The order read here never changes later.     *)
(***************************************************************************)
ReadTransfer(p) ==
    /\ pc[p] = "idle"
    /\ \E t \in Transfer, d \in Decisions :
        /\ status[t] \in Prior(d)
        /\ job' = [job EXCEPT ![p] = NewJob(t, d, order[t])]
        /\ Goto(p, IF d = "COMPLETED" THEN "begin" ELSE "decide")
    /\ UNCHANGED <<documents, environment, records>>

(* A transaction that has written the transfer keeps other writers waiting. *)
TransferLocked(t) == \E q \in Proc : pc[q] = "commit" /\ job[q].t = t

(* Mutant of Decide: the required status is not in the filter. *)
DecideBlind(p) ==
    /\ pc[p] = "decide"
    /\ ~TransferLocked(job[p].t)
    /\ status' = [status EXCEPT ![job[p].t] = job[p].decision]
    /\ Goto(p, "audit")
    /\ UNCHANGED <<order, lifecycle, location, department, open, returned,
                   environment, job, records>>

(* Mutant of Decide: a decision that came too late is tried until it matches. *)
DecidePersistent(p) ==
    /\ pc[p] = "decide"
    /\ status[job[p].t] \in Prior(job[p].decision)
    /\ DecideBlind(p)

(***************************************************************************)
(* findOneAndUpdate with the required status in its filter.                *)
(***************************************************************************)
Decide(p) ==
    LET t == job[p].t
        d == job[p].decision
    IN  /\ pc[p] = "decide"
        /\ ~TransferLocked(t)
        /\ IF status[t] \in Prior(d)
           THEN /\ status' = [status EXCEPT ![t] = d]
                /\ Goto(p, "audit")
                /\ UNCHANGED <<order, lifecycle, location, department, open, returned,
                               environment, job, records>>
           ELSE Refuse(p)

-----------------------------------------------------------------------------
(* complete(): the transaction.                                            *)

(* Mutant of AssetLocked: complete() works outside a transaction. *)
NoAssetLock(a) == FALSE

(* The other completions that have written the asset document and not yet committed. *)
AssetLocked(a) == \E q \in Proc : pc[q] \in {"seize", "commit"} /\ job[q].order.asset = a

(* findOne: one of the open assignments of the asset, as a set of at most one. *)
Existing(a) == IF OpenOf(a) = {} THEN {{}} ELSE { {x} : x \in OpenOf(a) }

(***************************************************************************)
(* The first write takes the asset document and fixes the snapshot; all    *)
(* later reads of the transaction see this moment: the lifecycle status,   *)
(* the destination user and place, the open assignment, the transfer.      *)
(***************************************************************************)
Begin(p) ==
    LET o == job[p].order
    IN  /\ pc[p] = "begin"
        /\ ~AssetLocked(o.asset)
        /\ IF /\ <<lifecycle[o.asset], To(o)>> \in Allowed
              /\ UserOK(o)
              /\ ValidDestination(o)
              /\ status[job[p].t] = "APPROVED"
           THEN /\ \E seen \in Existing(o.asset) :
                     job' = [job EXCEPT ![p].from = lifecycle[o.asset],
                                        ![p].existing = seen]
                /\ Goto(p, "seize")
                /\ UNCHANGED <<documents, environment, records>>
           ELSE Refuse(p)

(***************************************************************************)
(* Another transaction holds the asset.  The write conflict makes          *)
(* withTransaction try again, which is no step; at its time limit it       *)
(* throws.                                                                 *)
(***************************************************************************)
GiveUp(p) ==
    /\ pc[p] = "begin"
    /\ AssetLocked(job[p].order.asset)
    /\ Refuse(p)

(* Mutant of NewAssignment: an assignment is created for every completion. *)
AlwaysAssign(t, o) == {[asset |-> o.asset, user |-> o.user, via |-> t]}

(* None when the asset goes to no user. *)
NewAssignment(t, o) ==
    { x \in Assignment : x.asset = o.asset /\ x.user = o.user /\ x.via = t }

(* Mutant of Seize: the assignment is created without the session. *)
SeizeAndAssign(p) ==
    /\ pc[p] = "seize"
    /\ status[job[p].t] = "APPROVED"
    /\ open' = open \cup NewAssignment(job[p].t, job[p].order)
    /\ Goto(p, "commit")
    /\ UNCHANGED <<status, order, lifecycle, location, department, returned,
                   environment, job, records>>

(* Mutant of Seize: the required status is not in the filter. *)
SeizeBlind(p) ==
    /\ pc[p] = "seize"
    /\ Goto(p, "commit")
    /\ UNCHANGED <<documents, environment, job, records>>

(***************************************************************************)
(* The compare and set on the transfer inside the transaction: it takes    *)
(* the document if nobody changed it since the snapshot.                   *)
(***************************************************************************)
Seize(p) ==
    /\ pc[p] = "seize"
    /\ status[job[p].t] = "APPROVED"
    /\ Goto(p, "commit")
    /\ UNCHANGED <<documents, environment, job, records>>

(* Somebody did: the transaction aborts and is run again, or given up. *)
Conflict(p) ==
    /\ pc[p] = "seize"
    /\ status[job[p].t] # "APPROVED"
    /\ \/ /\ Goto(p, "begin")
          /\ UNCHANGED <<documents, environment, job, records>>
       \/ Refuse(p)

(***************************************************************************)
(* The commit publishes everything the transaction wrote: the assignment   *)
(* it closes, the asset, the assignment it opens, the transfer.            *)
(***************************************************************************)
Commit(p) ==
    LET t == job[p].t
        o == job[p].order
        a == o.asset
    IN  /\ pc[p] = "commit"
        /\ open' = (open \ job[p].existing) \cup NewAssignment(t, o)
        /\ returned' = returned \cup job[p].existing
        /\ lifecycle' = [lifecycle EXCEPT ![a] = To(o)]
        /\ location' = [location EXCEPT ![a] = Moved(@, o.location, NoLocation)]
        /\ department' = [department EXCEPT ![a] = Moved(@, o.department, NoDepartment)]
        /\ status' = [status EXCEPT ![t] = "COMPLETED"]
        /\ handovers' = handovers \cup
              {[asset |-> a, via |-> t, from |-> lifecycle[a], to |-> To(o)]}
        /\ Goto(p, "audit")
        /\ UNCHANGED <<order, environment, job, auditLog, history, answered>>

-----------------------------------------------------------------------------
(* After the write.                                                        *)

(* Mutant of Audit: complete() answers without the lifecycle event. *)
AuditAndAnswer(p) ==
    /\ pc[p] = "audit"
    /\ auditLog' = auditLog \cup {<<job[p].t, job[p].decision>>}
    /\ Answer(p)
    /\ UNCHANGED <<documents, environment, history, handovers>>

(***************************************************************************)
(* Every operation writes its audit event; complete() has one more record  *)
(* to write when the lifecycle status changed, the others answer.          *)
(***************************************************************************)
Audit(p) ==
    LET j == job[p]
    IN  /\ pc[p] = "audit"
        /\ auditLog' = auditLog \cup {<<j.t, j.decision>>}
        /\ IF j.decision = "COMPLETED" /\ j.from # To(j.order)
           THEN /\ Goto(p, "event")
                /\ UNCHANGED <<job, answered>>
           ELSE Answer(p)
        /\ UNCHANGED <<documents, environment, history, handovers>>

RecordEvent(p) ==
    LET j == job[p]
    IN  /\ pc[p] = "event"
        /\ history' = Append(history, [asset |-> j.order.asset, via |-> j.t,
                                       from |-> j.from, to |-> To(j.order)])
        /\ Answer(p)
        /\ UNCHANGED <<documents, environment, auditLog, handovers>>

-----------------------------------------------------------------------------
(* The surroundings.                                                       *)

(* UsersService.setActive, as the transfers see it. *)
SetActive(u) ==
    /\ \/ active' = active \ {u}
       \/ active' = active \cup {u}
    /\ UNCHANGED <<documents, places, pc, job, records>>

(* A location or department is deleted, or the site above it is. *)
LosePlace(x) ==
    /\ places' = places \ {x}
    /\ UNCHANGED <<documents, active, pc, job, records>>

(***************************************************************************)
(* The process dies: the client hears nothing, the server aborts an open   *)
(* transaction and frees its documents, what was written stays.            *)
(***************************************************************************)
Crash(p) ==
    /\ MayCrash
    /\ pc[p] # "idle"
    /\ Refuse(p)

Step(p) ==
    \/ CheckExisting(p) \/ CheckUser(p) \/ CheckDestination(p) \/ Insert(p)
    \/ Decide(p)
    \/ Begin(p) \/ GiveUp(p) \/ Seize(p) \/ Conflict(p) \/ Commit(p)
    \/ Audit(p) \/ RecordEvent(p)

Next ==
    \/ \E p \in Proc : Request(p) \/ ReadTransfer(p) \/ Step(p) \/ Crash(p)
    \/ \E u \in User : SetActive(u)
    \/ \E x \in Location \cup Department : LosePlace(x)

(***************************************************************************)
(* A handler that has started is run to its end: the event loop and the    *)
(* database leave no promise unsettled.                                    *)
(***************************************************************************)
Fairness == \A p \in Proc : WF_vars(Step(p))

Spec == Init /\ [][Next]_vars

FairSpec == Spec /\ Fairness

-----------------------------------------------------------------------------
Job == [t : Transfer \cup {NoTransfer}, decision : Decisions \cup {"PENDING", "NONE"},
        order : Order \cup {NoOrder}, from : Lifecycle \cup {"NONE"},
        existing : SUBSET Assignment]

(* Every variable holds what its collection, or its handler, can hold. *)
TypeOK ==
    /\ status \in [Transfer -> Status]
    /\ order \in [Transfer -> Order \cup {NoOrder}]
    /\ lifecycle \in [Asset -> Lifecycle]
    /\ location \in [Asset -> Location \cup {NoLocation}]
    /\ department \in [Asset -> Department \cup {NoDepartment}]
    /\ open \subseteq Assignment
    /\ returned \subseteq Assignment
    /\ active \subseteq User
    /\ places \subseteq Location \cup Department
    /\ pc \in [Proc -> {"idle", "exists", "user", "destination", "insert", "decide",
                        "begin", "seize", "commit", "audit", "event"}]
    /\ job \in [Proc -> Job]
    /\ auditLog \subseteq Transfer \X Status
    /\ history \in Seq(Event)
    /\ answered \subseteq Transfer \X Status
    /\ handovers \subseteq Event

(***************************************************************************)
(* However completions interleave, an asset has at most one open           *)
(* assignment, has one while it is ASSIGNED and none while it is IN_STOCK: *)
(* the asset and its assignments are two documents that complete() must    *)
(* move together, and it must close the assignment that is open when it    *)
(* commits.  Nothing here uses the unique index on open assignments.       *)
(***************************************************************************)
CustodyConsistent ==
    \A a \in Asset :
        /\ \A x, y \in OpenOf(a) : x = y
        /\ lifecycle[a] = "ASSIGNED" => OpenOf(a) # {}
        /\ lifecycle[a] = "IN_STOCK" => OpenOf(a) = {}

(***************************************************************************)
(* A completed transfer to a user has made its assignment once, any other  *)
(* transfer has made none: not one that was retried, aborted, cancelled at *)
(* the last moment or whose process died.                                  *)
(***************************************************************************)
HandoverOnce ==
    /\ open \cap returned = {}
    /\ \A t \in Transfer :
        { x \in open \cup returned : x.via = t } =
            IF status[t] = "COMPLETED" THEN NewAssignment(t, order[t]) ELSE {}

(***************************************************************************)
(* A decision that was reported as successful stands: of two deciders who  *)
(* raced for a transfer, never are both told they won, and a completion is *)
(* not reported for a transfer that somebody was told is cancelled.        *)
(***************************************************************************)
DecisionsStand ==
    \A t \in Transfer :
        /\ \A d \in {"REJECTED", "CANCELLED", "COMPLETED"} :
            <<t, d>> \in answered => status[t] = d
        /\ <<t, "APPROVED">> \in answered =>
            status[t] \in {"APPROVED", "CANCELLED", "COMPLETED"}

(***************************************************************************)
(* What a client was told has been recorded: the decision in the audit     *)
(* log, and the change of lifecycle status it caused in the asset history. *)
(***************************************************************************)
AcknowledgedIsRecorded ==
    /\ answered \subseteq auditLog
    /\ \A h \in handovers :
        <<h.via, "COMPLETED">> \in answered /\ h.from # h.to =>
            \E i \in 1 .. Len(history) : history[i] = h

(***************************************************************************)
(* The asset history tells nothing that did not happen: each entry is the  *)
(* move its transfer committed - the status it names as the old one is the *)
(* one the commit replaced - and no transfer has two entries.              *)
(***************************************************************************)
EventsAreTrue ==
    /\ \A i \in 1 .. Len(history) : history[i] \in handovers
    /\ \A i, j \in 1 .. Len(history) : history[i].via = history[j].via => i = j

(***************************************************************************)
(* Every handler ends, whatever the others do: a process that waits for an *)
(* asset or a transfer that another transaction holds is not held up for   *)
(* ever.                                                                   *)
(***************************************************************************)
EveryRequestEnds == \A p \in Proc : pc[p] # "idle" ~> pc[p] = "idle"

(***************************************************************************)
(* While no process dies, every committed change of lifecycle status gets  *)
(* its entry in the asset history.                                         *)
(***************************************************************************)
HandoversGetRecorded ==
    \A t \in Transfer :
        (\E h \in handovers : h.via = t /\ h.from # h.to)
            ~> (\E i \in 1 .. Len(history) : history[i].via = t)

(***************************************************************************)
(* The service implements the ledger: the custodian of an asset is the     *)
(* user of its open assignment, and everything a handler does before or    *)
(* after its one visible write is a stuttering step.                       *)
(***************************************************************************)
Custodian ==
    [a \in Asset |-> IF OpenOf(a) = {} THEN NoUser
                     ELSE (CHOOSE x \in open : x.asset = a).user]

Ledger == INSTANCE TransferLedger WITH custodian <- Custodian

ImplementsLedger == Ledger!Spec

-----------------------------------------------------------------------------
(* What the code says of itself and does not keep.                         *)

(***************************************************************************)
(* "Asset already has an active transfer request" is the error with which  *)
(* request() refuses a second one: an asset has at most one request that   *)
(* is PENDING or APPROVED.                                                 *)
(***************************************************************************)
OneActiveTransfer ==
    \A a \in Asset : \A t, u \in ActiveOn(a) : t = u
=============================================================================
