---------------------------- MODULE AssetRegistry ----------------------------
(***************************************************************************)
(* AssetsService over PostgreSQL: asset types with their numbering rules,  *)
(* the creation of assets with numbers drawn from a rule, and the          *)
(* transition of an asset to another lifecycle status.  Every operation is *)
(* one READ COMMITTED transaction: what it writes is visible to the others *)
(* when it commits, a row it has written or locked keeps other writers     *)
(* waiting until then, and a read without a lock sees whatever is          *)
(* committed at that moment.                                               *)
(***************************************************************************)
EXTENDS Naturals, Sequences

CONSTANTS
    Proc,           \* transactions running at the same time
    AssetType, Asset, Company,
    CompanyOf,      \* [AssetType -> Company]: AssetType.companyId
    Label,          \* what a rule writes around the sequence number: prefix,
                    \* separators, company code and width
    LabelOf,        \* [AssetType -> Label]
    Manual,         \* asset numbers a caller may give in `fields'
    Statuses,       \* the lifecycle statuses
    NoNumber, NoAsset, NoType, NoCompany, NoStatus,
    MaxEvents       \* bound: no transition starts once this many are recorded

(***************************************************************************)
(* The absent values are none of the values they stand in for; a rule's    *)
(* text is that of its type.                                               *)
(***************************************************************************)
ASSUME RegistryAssumption ==
    /\ CompanyOf \in [AssetType -> Company]
    /\ LabelOf \in [AssetType -> Label]
    /\ Manual \subseteq Label \X Nat
    /\ NoNumber \notin Label \X Nat
    /\ NoAsset \notin Asset
    /\ NoType \notin AssetType
    /\ NoCompany \notin Company
    /\ NoStatus \notin Statuses
    /\ MaxEvents \in Nat

VARIABLES
    types,          \* the asset types created
    nextSequence,   \* AssetNumberingRule.nextSequence, per type
    assets,         \* the rows of Asset, NoRow for an id not used
    events,         \* the rows of AssetAuditEvent in the order of their commits
    pc, job         \* per transaction: its next statement and its local variables

vars == <<types, nextSequence, assets, events, pc, job>>

tables == <<types, nextSequence, assets, events>>

(* The number a rule makes: its text around the sequence, both kept apart. *)
Number == Label \X Nat

(***************************************************************************)
(* type is the asset type whose rule numbered the asset; seq is a ghost:   *)
(* the sequence number that the creation consumed.                         *)
(***************************************************************************)
Row == [type : AssetType, company : Company, number : Number, status : Statuses, seq : Nat]

NoRow == [type |-> NoType, company |-> NoCompany, number |-> NoNumber, status |-> NoStatus,
          seq |-> 0]

NoJob == [type |-> NoType, company |-> NoCompany, asset |-> NoAsset, number |-> NoNumber,
          status |-> NoStatus, from |-> NoStatus, seq |-> 0]

(* The row that a transaction is creating. *)
RowOf(j) == [type |-> j.type, company |-> j.company, number |-> j.number, status |-> j.status,
             seq |-> j.seq]

Created == { a \in Asset : assets[a] # NoRow }

Init ==
    /\ types = {}
    /\ nextSequence = [ty \in AssetType |-> 1]
    /\ assets = [a \in Asset |-> NoRow]
    /\ events = <<>>
    /\ pc = [p \in Proc |-> "idle"]
    /\ job = [p \in Proc |-> NoJob]

Goto(p, where) == pc' = [pc EXCEPT ![p] = where]

Finish(p) ==
    /\ Goto(p, "idle")
    /\ job' = [job EXCEPT ![p] = NoJob]

(***************************************************************************)
(* An error, or the death of the process: the transaction rolls back and   *)
(* releases its rows.                                                      *)
(***************************************************************************)
Rollback(p) ==
    /\ pc[p] # "idle"
    /\ Finish(p)
    /\ UNCHANGED tables

(* A type is created together with its rule. *)
CreateAssetType(ty) ==
    /\ ty \notin types
    /\ types' = types \cup {ty}
    /\ UNCHANGED <<nextSequence, assets, events, pc, job>>

-----------------------------------------------------------------------------
(* createAsset().                                                          *)

(***************************************************************************)
(* The caller's company must be the type's.  `fields' are spread over the  *)
(* row last, so a number, a status or a company in them replaces that of   *)
(* the row; no statement that is modelled reads another of its columns.    *)
(* The identifier is fresh; Asset bounds how many there are.               *)
(***************************************************************************)
CreateAsset(p) ==
    /\ pc[p] = "idle"
    /\ \E ty \in types, a \in Asset \ Created, n \in Manual \cup {NoNumber},
          s \in Statuses, c \in Company, d \in Company :
        /\ CompanyOf[ty] = c
        /\ \A q \in Proc : job[q].asset # a
        /\ job' = [job EXCEPT ![p] = [NoJob EXCEPT !.type = ty, !.company = d, !.asset = a,
                                                   !.number = n, !.status = s]]
    /\ Goto(p, "lock")
    /\ UNCHANGED tables

(* Mutant of RuleLocked: the row is selected without FOR UPDATE. *)
NoRuleLock(ty) == FALSE

RuleLocked(ty) == \E q \in Proc : pc[q] \in {"insert", "commit"} /\ job[q].type = ty

(* Mutant of GenerateAssetNumber: the number is made, and not put into the row. *)
CountOnly(p) ==
    /\ pc[p] = "lock"
    /\ ~RuleLocked(job[p].type)
    /\ job' = [job EXCEPT ![p].seq = nextSequence[job[p].type]]
    /\ Goto(p, "insert")
    /\ UNCHANGED tables

(***************************************************************************)
(* SELECT ... FOR UPDATE waits for the row and then sees its last          *)
(* committed value; the increment stays in the transaction.                *)
(***************************************************************************)
GenerateAssetNumber(p) ==
    LET ty == job[p].type
        generated == <<LabelOf[ty], nextSequence[ty]>>
    IN  /\ pc[p] = "lock"
        /\ ~RuleLocked(ty)
        /\ job' = [job EXCEPT ![p].seq = nextSequence[ty],
                              ![p].number = IF @ = NoNumber THEN generated ELSE @]
        /\ Goto(p, "insert")
        /\ UNCHANGED tables

(* Mutant of InsertAsset: a number that is taken is waited for. *)
InsertWaiting(p) ==
    LET c == job[p].company
        n == job[p].number
    IN  /\ pc[p] = "insert"
        /\ \A a \in Created : assets[a].company = c => assets[a].number # n
        /\ Goto(p, "commit")
        /\ UNCHANGED <<tables, job>>

(* The assets of a company that have a number, and the insertions of it not yet committed. *)
HasNumber(c, n) == { a \in Created : assets[a].company = c /\ assets[a].number = n }

Inserting(c, n) ==
    { q \in Proc : pc[q] = "commit" /\ job[q].company = c /\ job[q].number = n }

(***************************************************************************)
(* The INSERT: the unique index on company and number refuses a number     *)
(* that is taken and waits for the end of a transaction that is taking it. *)
(***************************************************************************)
InsertAsset(p) ==
    LET c == job[p].company
        n == job[p].number
    IN  /\ pc[p] = "insert"
        /\ Inserting(c, n) = {}
        /\ IF HasNumber(c, n) # {} THEN Finish(p) ELSE Goto(p, "commit") /\ job' = job
        /\ UNCHANGED tables

(* Mutant of CommitAsset: the rule is not incremented in the transaction of the asset. *)
CommitAssetOnly(p) ==
    LET j == job[p]
    IN  /\ pc[p] = "commit"
        /\ assets' = [assets EXCEPT ![j.asset] = RowOf(j)]
        /\ Finish(p)
        /\ UNCHANGED <<types, nextSequence, events>>

CommitAsset(p) ==
    LET j == job[p]
    IN  /\ pc[p] = "commit"
        /\ nextSequence' = [nextSequence EXCEPT ![j.type] = j.seq + 1]
        /\ assets' = [assets EXCEPT ![j.asset] = RowOf(j)]
        /\ Finish(p)
        /\ UNCHANGED <<types, events>>

-----------------------------------------------------------------------------
(* transitionState().                                                      *)

(***************************************************************************)
(* The row is read without a lock; any status may follow any other.        *)
(***************************************************************************)
TransitionState(p) ==
    /\ pc[p] = "idle"
    /\ Len(events) < MaxEvents
    /\ \E a \in Created, s \in Statuses :
        job' = [job EXCEPT ![p] = [NoJob EXCEPT !.asset = a, !.status = s,
                                                !.from = assets[a].status]]
    /\ Goto(p, "update")
    /\ UNCHANGED tables

RowLocked(a) == \E q \in Proc : pc[q] = "event" /\ job[q].asset = a

(* Mutant of UpdateAsset: the raw client is used, outside the transaction. *)
UpdateAtOnce(p) ==
    /\ pc[p] = "update"
    /\ assets' = [assets EXCEPT ![job[p].asset].status = job[p].status]
    /\ Goto(p, "event")
    /\ UNCHANGED <<types, nextSequence, events, job>>

(* The UPDATE waits for the row and writes the status without looking at the old one. *)
UpdateAsset(p) ==
    /\ pc[p] = "update"
    /\ ~RowLocked(job[p].asset)
    /\ Goto(p, "event")
    /\ UNCHANGED <<tables, job>>

Event == [asset : Asset, from : Statuses, to : Statuses]

EventOf(j) == [asset |-> j.asset, from |-> j.from, to |-> j.status]

(* The event is inserted and the transaction commits. *)
CommitTransition(p) ==
    /\ pc[p] = "event"
    /\ assets' = [assets EXCEPT ![job[p].asset].status = job[p].status]
    /\ events' = Append(events, EventOf(job[p]))
    /\ Finish(p)
    /\ UNCHANGED <<types, nextSequence>>

-----------------------------------------------------------------------------
Step(p) ==
    \/ GenerateAssetNumber(p) \/ InsertAsset(p) \/ CommitAsset(p)
    \/ UpdateAsset(p) \/ CommitTransition(p)

Next ==
    \/ \E ty \in AssetType : CreateAssetType(ty)
    \/ \E p \in Proc : CreateAsset(p) \/ TransitionState(p) \/ Step(p) \/ Rollback(p)

(***************************************************************************)
(* PostgreSQL serves those who wait for a row in the order they came, so a *)
(* transaction that could go on again and again does go on.                *)
(***************************************************************************)
Fairness == \A p \in Proc : SF_vars(Step(p))

Spec == Init /\ [][Next]_vars

FairSpec == Spec /\ Fairness

-----------------------------------------------------------------------------
Job == [type : AssetType \cup {NoType}, company : Company \cup {NoCompany},
        asset : Asset \cup {NoAsset},
        number : Number \cup {NoNumber}, status : Statuses \cup {NoStatus},
        from : Statuses \cup {NoStatus}, seq : Nat]

(* The tables hold rows and the transactions hold what their operation gave them. *)
TypeOK ==
    /\ types \subseteq AssetType
    /\ nextSequence \in [AssetType -> Nat]
    /\ assets \in [Asset -> Row \cup {NoRow}]
    /\ events \in Seq(Event)
    /\ pc \in [Proc -> {"idle", "lock", "insert", "commit", "update", "event"}]
    /\ job \in [Proc -> Job]

(***************************************************************************)
(* The numbering has no gaps and no repetitions, whatever creations were   *)
(* interleaved, refused or rolled back: the sequence numbers below         *)
(* nextSequence are those its assets consumed, each by one asset.          *)
(***************************************************************************)
NumberingGapless ==
    \A ty \in AssetType :
        /\ { assets[a].seq : a \in { b \in Asset : assets[b].type = ty } }
              = 1 .. nextSequence[ty] - 1
        /\ \A a, b \in Asset :
            assets[a].type = ty /\ assets[b].type = ty /\ assets[a].seq = assets[b].seq => a = b

(***************************************************************************)
(* "We lock the specific AssetNumberingRule row ... so two concurrent      *)
(* requests serialize": a number that a rule generated, and that no caller *)
(* chose, is free when it is inserted, so the unique index never refuses   *)
(* it.                                                                     *)
(***************************************************************************)
GeneratedNumberIsFree ==
    \A p \in Proc :
        LET c == job[p].company
            n == job[p].number
        IN  pc[p] = "insert" /\ n \notin Manual => HasNumber(c, n) = {} /\ Inserting(c, n) = {}

(***************************************************************************)
(* Status and history of an asset move together: its last event, if it has *)
(* one, leads to the status it has.                                        *)
(***************************************************************************)
HistoryEndsAtStatus ==
    \A i \in 1 .. Len(events) :
        (\A j \in i + 1 .. Len(events) : events[j].asset # events[i].asset)
            => assets[events[i].asset].status = events[i].to

(***************************************************************************)
(* Every request ends, with a number, an event or an error: nobody waits   *)
(* for a row for ever.                                                     *)
(***************************************************************************)
EveryRequestEnds == \A p \in Proc : pc[p] # "idle" ~> pc[p] = "idle"

-----------------------------------------------------------------------------
(* What the code says of itself and does not keep.                         *)

(***************************************************************************)
(* "Lifecycle transitions are the single source of truth for asset         *)
(* history": read in order, the events of an asset tell one story - each   *)
(* begins with the status the one before it ended with.                    *)
(***************************************************************************)
HistoryChains ==
    \A i, k \in 1 .. Len(events) :
        /\ i < k
        /\ events[i].asset = events[k].asset
        /\ \A j \in i + 1 .. k - 1 : events[j].asset # events[i].asset
        => events[k].from = events[i].to
=============================================================================
