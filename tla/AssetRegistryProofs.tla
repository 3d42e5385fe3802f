------------------------- MODULE AssetRegistryProofs -------------------------
(***************************************************************************)
(* Proofs about AssetRegistry, for any number of transactions, types,      *)
(* assets and companies: the types are kept, numbering has no gaps, a      *)
(* generated number is free if no two types share their text, and the      *)
(* history of an asset ends at its status.                                 *)
(***************************************************************************)
EXTENDS AssetRegistry, TLAPS

Creating(p) == pc[p] \in {"lock", "insert", "commit"}

HoldsRule(p) == pc[p] \in {"insert", "commit"}

(* A creation has a type, a company, a status and an identifier of its own. *)
CreationsKnown ==
    \A p \in Proc : Creating(p) =>
        /\ job[p].type \in AssetType
        /\ job[p].company \in Company
        /\ job[p].asset \in Asset
        /\ job[p].status \in Statuses
        /\ assets[job[p].asset] = NoRow
        /\ \A q \in Proc : q # p => job[q].asset # job[p].asset

(* A transition works on an asset that exists, between two statuses. *)
TransitionsKnown ==
    \A p \in Proc : pc[p] \in {"update", "event"} =>
        /\ job[p].asset \in Asset
        /\ assets[job[p].asset] # NoRow
        /\ job[p].from \in Statuses
        /\ job[p].status \in Statuses

(***************************************************************************)
(* While a transaction holds the row of a rule, its copy of the sequence   *)
(* number is the current one, and its asset number is made from it unless  *)
(* the caller chose one.                                                   *)
(***************************************************************************)
NumbersDrawn ==
    \A p \in Proc : HoldsRule(p) =>
        /\ job[p].seq = nextSequence[job[p].type]
        /\ job[p].number \in Number
        /\ job[p].number \in Manual \/ job[p].number = <<LabelOf[job[p].type], job[p].seq>>

(* Before the rule is read, a number is one that the caller chose. *)
CallersNumber ==
    \A p \in Proc : pc[p] = "lock" =>
        job[p].number = NoNumber \/ job[p].number \in Manual

(* One transaction at a time holds the row of a rule. *)
OneHolderPerRule ==
    \A p, q \in Proc :
        HoldsRule(p) /\ HoldsRule(q) /\ job[p].type = job[q].type => p = q

(* NumberingGapless, one type at a time and without a set of images. *)
GaplessFor(ty) ==
    /\ nextSequence[ty] \in Nat \ {0}
    /\ \A a \in Asset : assets[a].type = ty => assets[a].seq \in 1 .. nextSequence[ty] - 1
    /\ \A n \in 1 .. nextSequence[ty] - 1 :
        \E a \in Asset : assets[a].type = ty /\ assets[a].seq = n
    /\ \A a, b \in Asset :
        assets[a].type = ty /\ assets[b].type = ty /\ assets[a].seq = assets[b].seq => a = b

(* A committed number is made from the sequence number, or was chosen. *)
RowsNumbered ==
    \A a \in Asset : assets[a] # NoRow =>
        \/ assets[a].number \in Manual
        \/ assets[a].number = <<LabelOf[assets[a].type], assets[a].seq>>

(***************************************************************************)
(* The inductive invariant.  What makes it one is the lock: the sequence   *)
(* number that a transaction commits plus one is the one it read, because  *)
(* nobody else could draw from the rule in between.                        *)
(***************************************************************************)
Inv ==
    /\ TypeOK
    /\ CreationsKnown
    /\ TransitionsKnown
    /\ NumbersDrawn
    /\ OneHolderPerRule
    /\ CallersNumber
    /\ \A ty \in AssetType : GaplessFor(ty)
    /\ RowsNumbered

-----------------------------------------------------------------------------
(* A row of the table and the absence of one are different things. *)
LEMMA RowsAreRows ==
    /\ NoRow \notin Row
    /\ NoRow.type \notin AssetType
    /\ \A r \in Row : r.type \in AssetType
  BY RegistryAssumption DEF NoRow, Row

(* NoJob is a job and no asset's. *)
LEMMA NoJobIsJob == NoJob \in Job /\ NoJob.asset \notin Asset
  BY RegistryAssumption DEF NoJob, Job

LEMMA InitInv == Init => Inv
  <1> SUFFICES ASSUME Init PROVE Inv
    OBVIOUS
  <1> USE DEF Init
  <1>1. TypeOK
    BY NoJobIsJob DEF TypeOK
  <1>2. /\ CreationsKnown /\ TransitionsKnown
        /\ NumbersDrawn /\ OneHolderPerRule /\ CallersNumber
    BY DEF CreationsKnown, TransitionsKnown, NumbersDrawn, OneHolderPerRule,
           CallersNumber, Creating, HoldsRule
  <1>3. ASSUME NEW ty \in AssetType PROVE GaplessFor(ty)
    BY RowsAreRows DEF GaplessFor
  <1>4. RowsNumbered
    BY DEF RowsNumbered
  <1>5. QED
    BY <1>1, <1>2, <1>3, <1>4 DEF Inv

(* A transaction that ends without a write leaves the others as they are. *)
LEMMA FinishInv ==
    ASSUME Inv, NEW p \in Proc, Finish(p), UNCHANGED tables
    PROVE  Inv'
  <1> USE DEF Inv, Finish, Goto, tables
  <1>1. /\ pc'[p] = "idle"
        /\ job'[p] = NoJob
        /\ \A q \in Proc : q # p => pc'[q] = pc[q] /\ job'[q] = job[q]
    BY DEF TypeOK
  <1>2. TypeOK'
    BY NoJobIsJob DEF TypeOK
  <1>3. CreationsKnown'
    BY <1>1, NoJobIsJob DEF CreationsKnown, Creating
  <1>4. (TransitionsKnown /\ NumbersDrawn /\ OneHolderPerRule /\ CallersNumber)'
    BY <1>1 DEF TransitionsKnown, NumbersDrawn, OneHolderPerRule, CallersNumber, HoldsRule
  <1>5. (RowsNumbered /\ \A ty \in AssetType : GaplessFor(ty))'
    BY DEF RowsNumbered, GaplessFor
  <1>6. QED
    BY <1>2, <1>3, <1>4, <1>5

LEMMA CreateAssetInv ==
    ASSUME Inv, NEW p \in Proc, CreateAsset(p)
    PROVE  Inv'
  <1>1. PICK ty \in types, a \in Asset \ Created, n \in Manual \cup {NoNumber},
             s \in Statuses, d \in Company :
          /\ \A q \in Proc : job[q].asset # a
          /\ job' = [job EXCEPT ![p] = [NoJob EXCEPT !.type = ty, !.company = d, !.asset = a,
                                                     !.number = n, !.status = s]]
    BY DEF CreateAsset
  <1> DEFINE j == [NoJob EXCEPT !.type = ty, !.company = d, !.asset = a, !.number = n,
                                !.status = s]
  <1>2. /\ j \in Job
        /\ j.type = ty
        /\ j.company = d
        /\ j.asset = a
        /\ j.status = s
        /\ j.number \in Manual \cup {NoNumber}
    BY RegistryAssumption DEF Inv, TypeOK, NoJob, Job, Number
  <1> HIDE DEF j
  <1>3. /\ pc' = [pc EXCEPT ![p] = "lock"]
        /\ pc[p] = "idle"
        /\ UNCHANGED <<types, nextSequence, assets, events>>
        /\ job' = [job EXCEPT ![p] = j]
    BY <1>1 DEF CreateAsset, Goto, tables, j
  <1>4. /\ pc'[p] = "lock"
        /\ job'[p] = j
        /\ \A q \in Proc : q # p => pc'[q] = pc[q] /\ job'[q] = job[q]
    BY <1>3 DEF Inv, TypeOK
  <1>5. TypeOK'
    BY <1>2, <1>3 DEF Inv, TypeOK
  <1>6. CreationsKnown'
    BY <1>1, <1>2, <1>3, <1>4 DEF Inv, TypeOK, CreationsKnown, Creating, Created
  <1>7. (TransitionsKnown /\ NumbersDrawn /\ OneHolderPerRule /\ CallersNumber)'
    BY <1>2, <1>3, <1>4
    DEF Inv, TransitionsKnown, NumbersDrawn, OneHolderPerRule, CallersNumber, HoldsRule
  <1>8. (RowsNumbered /\ \A u \in AssetType : GaplessFor(u))'
    BY <1>3 DEF Inv, RowsNumbered, GaplessFor
  <1>9. QED
    BY <1>5, <1>6, <1>7, <1>8 DEF Inv

(* Drawing a number: nobody else holds the rule. *)
LEMMA GenerateInv ==
    ASSUME Inv, NEW p \in Proc, GenerateAssetNumber(p)
    PROVE  Inv'
  <1>0. PICK ty \in AssetType, a \in Asset : job[p].type = ty /\ job[p].asset = a
    BY DEF Inv, CreationsKnown, Creating, GenerateAssetNumber
  <1> DEFINE n == IF job[p].number = NoNumber THEN <<LabelOf[ty], nextSequence[ty]>>
                                              ELSE job[p].number
  <1>1. /\ pc[p] = "lock"
        /\ ~RuleLocked(ty)
        /\ pc' = [pc EXCEPT ![p] = "insert"]
        /\ UNCHANGED <<types, nextSequence, assets, events>>
        /\ job' = [job EXCEPT ![p].seq = nextSequence[ty], ![p].number = n]
    BY <1>0 DEF GenerateAssetNumber, Goto, tables, Inv, TypeOK, Job
  <1> HIDE DEF n
  <1>2. /\ nextSequence[ty] \in Nat
        /\ n \in Number
        /\ n \in Manual \/ n = <<LabelOf[ty], nextSequence[ty]>>
    <2>1. nextSequence[ty] \in Nat /\ LabelOf[ty] \in Label
      BY RegistryAssumption DEF Inv, TypeOK
    <2>2. job[p].number \in Number \cup {NoNumber}
      BY DEF Inv, TypeOK, Job
    <2>3. job[p].number = NoNumber \/ job[p].number \in Manual
      BY <1>1 DEF Inv, CallersNumber
    <2>4. QED
      BY <2>1, <2>2, <2>3 DEF n, Number
  <1>3. /\ pc'[p] = "insert"
        /\ job'[p] \in Job
        /\ job'[p].type = ty
        /\ job'[p].asset = a
        /\ job'[p].company = job[p].company
        /\ job'[p].status = job[p].status
        /\ job'[p].seq = nextSequence[ty]
        /\ job'[p].number = n
        /\ \A q \in Proc : q # p => pc'[q] = pc[q] /\ job'[q] = job[q]
    BY <1>0, <1>1, <1>2 DEF Inv, TypeOK, Job
  <1>4. TypeOK'
    BY <1>1, <1>3 DEF Inv, TypeOK
  <1>5. CreationsKnown'
    <2>1. \A q \in Proc : job'[q].asset = job[q].asset
      BY <1>0, <1>3
    <2>2. CreationsKnown /\ Creating(p) /\ assets' = assets
      BY <1>1 DEF Inv, Creating
    <2>3. \A q \in Proc : Creating(q)' => Creating(q)
      BY <1>1, <1>3 DEF Creating
    <2>4. \A q \in Proc : /\ job'[q].type = job[q].type /\ job'[q].status = job[q].status
                          /\ job'[q].company = job[q].company
      BY <1>0, <1>3
    <2>5. QED
      BY <2>1, <2>2, <2>3, <2>4 DEF CreationsKnown
  <1>6. TransitionsKnown'
    BY <1>1, <1>3 DEF Inv, TransitionsKnown
  <1>7. NumbersDrawn'
    BY <1>1, <1>2, <1>3 DEF Inv, NumbersDrawn, HoldsRule
  <1>8. OneHolderPerRule'
    <2> SUFFICES ASSUME NEW q \in Proc, NEW r \in Proc, HoldsRule(q)', HoldsRule(r)',
                        job'[q].type = job'[r].type, q # r
                 PROVE  FALSE
      BY DEF OneHolderPerRule
    <2>1. \A x \in Proc : x # p => pc'[x] = pc[x] /\ job'[x] = job[x]
      BY <1>3
    <2>2. ASSUME NEW x \in Proc, x # p, HoldsRule(x)', job'[x].type = ty PROVE FALSE
      BY <1>1, <2>1, <2>2 DEF HoldsRule, RuleLocked
    <2>3. q # p /\ r # p
      BY <1>3, <2>2
    <2>4. QED
      BY <2>1, <2>3 DEF Inv, OneHolderPerRule, HoldsRule
  <1>9. CallersNumber'
    BY <1>1, <1>3 DEF Inv, CallersNumber
  <1>10. (RowsNumbered /\ \A u \in AssetType : GaplessFor(u))'
    BY <1>1 DEF Inv, RowsNumbered, GaplessFor
  <1>11. QED
    BY <1>4, <1>5, <1>6, <1>7, <1>8, <1>9, <1>10 DEF Inv

(* Going from the lock to the commit changes nothing but the place. *)
LEMMA InsertAssetInv ==
    ASSUME Inv, NEW p \in Proc, InsertAsset(p)
    PROVE  Inv'
  <1>1. UNCHANGED tables
    BY DEF InsertAsset
  <1>2. CASE Finish(p)
    BY <1>1, <1>2, FinishInv
  <1>3. CASE Goto(p, "commit") /\ job' = job
    <2>1. /\ pc[p] = "insert"
          /\ pc'[p] = "commit"
          /\ pc' = [pc EXCEPT ![p] = "commit"]
          /\ UNCHANGED <<types, nextSequence, assets, events, job>>
          /\ \A q \in Proc : q # p => pc'[q] = pc[q]
      BY <1>1, <1>3 DEF InsertAsset, Goto, tables, Inv, TypeOK
    <2>2. TypeOK'
      BY <2>1 DEF Inv, TypeOK
    <2>3. (CreationsKnown /\ TransitionsKnown)'
      BY <2>1 DEF Inv, CreationsKnown, TransitionsKnown, Creating
    <2>4. (NumbersDrawn /\ OneHolderPerRule)'
      BY <2>1 DEF Inv, NumbersDrawn, OneHolderPerRule, HoldsRule
    <2>5. (CallersNumber /\ RowsNumbered /\ \A u \in AssetType : GaplessFor(u))'
      BY <2>1 DEF Inv, CallersNumber, RowsNumbered, GaplessFor
    <2>6. QED
      BY <2>2, <2>3, <2>4, <2>5 DEF Inv
  <1>4. QED
    BY <1>2, <1>3 DEF InsertAsset

(***************************************************************************)
(* The commit: the new row takes the next sequence number of its type and  *)
(* touches no other type.                                                  *)
(***************************************************************************)
LEMMA CommitAssetInv ==
    ASSUME Inv, NEW p \in Proc, CommitAsset(p)
    PROVE  Inv'
  <1>1. PICK ty \in AssetType, a \in Asset : job[p].type = ty /\ job[p].asset = a
    BY DEF Inv, CreationsKnown, Creating, CommitAsset
  <1>2. PICK k \in Nat : k = nextSequence[ty]
    BY DEF Inv, TypeOK
  <1> DEFINE row == [type |-> ty, company |-> job[p].company, number |-> job[p].number,
                     status |-> job[p].status, seq |-> k]
  <1>3. /\ pc[p] = "commit"
        /\ job[p].seq = k
        /\ assets[a] = NoRow
        /\ row \in Row
        /\ row.number \in Manual \/ row.number = <<LabelOf[ty], k>>
    BY <1>1, <1>2 DEF CommitAsset, Inv, CreationsKnown, Creating, NumbersDrawn, HoldsRule, Row
  <1>4. /\ nextSequence' = [nextSequence EXCEPT ![ty] = k + 1]
        /\ assets' = [assets EXCEPT ![a] = row]
        /\ pc' = [pc EXCEPT ![p] = "idle"]
        /\ job' = [job EXCEPT ![p] = NoJob]
        /\ UNCHANGED <<types, events>>
    BY <1>1, <1>3 DEF CommitAsset, RowOf, Finish, Goto
  <1>5. row.type = ty /\ row.seq = k
    OBVIOUS
  <1> HIDE DEF row
  <1>6. /\ pc'[p] = "idle"
        /\ job'[p] = NoJob
        /\ nextSequence'[ty] = k + 1
        /\ assets'[a] = row
        /\ \A q \in Proc : q # p => pc'[q] = pc[q] /\ job'[q] = job[q]
        /\ \A u \in AssetType : u # ty => nextSequence'[u] = nextSequence[u]
        /\ \A b \in Asset : b # a => assets'[b] = assets[b]
    BY <1>4 DEF Inv, TypeOK
  <1>7. TypeOK'
    BY <1>3, <1>4, NoJobIsJob DEF Inv, TypeOK
  <1>8. CreationsKnown'
    BY <1>1, <1>3, <1>6, NoJobIsJob DEF Inv, CreationsKnown, Creating
  <1>9. TransitionsKnown'
    BY <1>3, <1>6, RowsAreRows DEF Inv, TransitionsKnown
  <1>10. NumbersDrawn'
    <2> SUFFICES ASSUME NEW q \in Proc, HoldsRule(q)'
                 PROVE  /\ job'[q].seq = nextSequence'[job'[q].type]
                        /\ job'[q].number \in Number
                        /\ \/ job'[q].number \in Manual
                           \/ job'[q].number = <<LabelOf[job'[q].type], job'[q].seq>>
      BY DEF NumbersDrawn
    <2>1. q # p /\ HoldsRule(q) /\ job'[q] = job[q]
      BY <1>6 DEF HoldsRule
    <2>2. job[q].type \in AssetType /\ job[q].type # ty
      BY <1>1, <1>3, <2>1
      DEF Inv, CreationsKnown, Creating, OneHolderPerRule, HoldsRule
    <2>3. nextSequence'[job[q].type] = nextSequence[job[q].type]
      BY <1>6, <2>2
    <2>4. QED
      BY <2>1, <2>3 DEF Inv, NumbersDrawn
  <1>11. OneHolderPerRule'
    BY <1>6 DEF Inv, OneHolderPerRule, HoldsRule
  <1>12. CallersNumber'
    BY <1>6 DEF Inv, CallersNumber
  <1>13. ASSUME NEW u \in AssetType PROVE GaplessFor(u)'
    <2>1. GaplessFor(u)
      BY DEF Inv
    <2>2. CASE u = ty
      <3>1. /\ k \in Nat \ {0}
            /\ \A b \in Asset : assets[b].type = ty => assets[b].seq \in 1 .. k - 1
            /\ \A m \in 1 .. k - 1 : \E b \in Asset : assets[b].type = ty /\ assets[b].seq = m
            /\ \A b, c \in Asset :
                assets[b].type = ty /\ assets[c].type = ty /\ assets[b].seq = assets[c].seq
                    => b = c
        BY <1>2, <2>1, <2>2 DEF GaplessFor
      <3>2. assets[a].type # ty
        BY <1>3, RowsAreRows
      <3>3. nextSequence'[ty] \in Nat \ {0} /\ nextSequence'[ty] - 1 = k
        BY <1>6
      <3>4. \A b \in Asset : assets'[b].type = ty => assets'[b].seq \in 1 .. k
        BY <1>5, <1>6, <3>1
      <3>5. \A m \in 1 .. k : \E b \in Asset : assets'[b].type = ty /\ assets'[b].seq = m
        <4> SUFFICES ASSUME NEW m \in 1 .. k
                     PROVE  \E b \in Asset : assets'[b].type = ty /\ assets'[b].seq = m
          OBVIOUS
        <4>1. CASE m = k
          BY <1>5, <1>6, <4>1
        <4>2. CASE m # k
          <5>1. PICK b \in Asset : assets[b].type = ty /\ assets[b].seq = m
            BY <3>1, <4>2
          <5>2. QED
            BY <1>6, <3>2, <5>1
        <4>3. QED
          BY <4>1, <4>2
      <3>6. \A b, c \in Asset :
              assets'[b].type = ty /\ assets'[c].type = ty /\ assets'[b].seq = assets'[c].seq
                  => b = c
        BY <1>5, <1>6, <3>1
      <3>7. QED
        BY <2>2, <3>3, <3>4, <3>5, <3>6 DEF GaplessFor
    <2>3. CASE u # ty
      <3>1. nextSequence'[u] = nextSequence[u] /\ assets'[a].type # u /\ assets[a].type # u
        BY <1>3, <1>5, <1>6, <2>3, RowsAreRows
      <3>2. \A b \in Asset : /\ assets'[b].type = u <=> assets[b].type = u
                             /\ assets[b].type = u => assets'[b].seq = assets[b].seq
        BY <1>6, <3>1
      <3>3. QED
        BY <2>1, <3>1, <3>2 DEF GaplessFor
    <2>4. QED
      BY <2>2, <2>3
  <1>14. RowsNumbered'
    BY <1>3, <1>5, <1>6 DEF Inv, RowsNumbered
  <1>15. QED
    BY <1>7, <1>8, <1>9, <1>10, <1>11, <1>12, <1>13, <1>14 DEF Inv

LEMMA TransitionStateInv ==
    ASSUME Inv, NEW p \in Proc, TransitionState(p)
    PROVE  Inv'
  <1>1. PICK a \in Created, s \in Statuses :
          job' = [job EXCEPT ![p] = [NoJob EXCEPT !.asset = a, !.status = s,
                                                  !.from = assets[a].status]]
    BY DEF TransitionState
  <1> DEFINE j == [NoJob EXCEPT !.asset = a, !.status = s, !.from = assets[a].status]
  <1>2. a \in Asset /\ assets[a] # NoRow /\ assets[a].status \in Statuses
    BY DEF Created, Inv, TypeOK, Row
  <1>3. j \in Job /\ j.asset = a /\ j.status = s /\ j.from \in Statuses
    BY <1>2, NoJobIsJob DEF NoJob, Job
  <1> HIDE DEF j
  <1>4. /\ pc' = [pc EXCEPT ![p] = "update"]
        /\ job' = [job EXCEPT ![p] = j]
        /\ UNCHANGED <<types, nextSequence, assets, events>>
    BY <1>1 DEF TransitionState, Goto, tables, j
  <1>5. /\ pc'[p] = "update"
        /\ job'[p] = j
        /\ \A q \in Proc : q # p => pc'[q] = pc[q] /\ job'[q] = job[q]
    BY <1>4 DEF Inv, TypeOK
  <1>6. TypeOK'
    BY <1>3, <1>4 DEF Inv, TypeOK
  <1>7. CreationsKnown'
    <2> SUFFICES ASSUME NEW q \in Proc, Creating(q)'
                 PROVE  /\ job'[q].type \in AssetType
                        /\ job'[q].company \in Company
                        /\ job'[q].asset \in Asset
                        /\ job'[q].status \in Statuses
                        /\ assets'[job'[q].asset] = NoRow
                        /\ \A r \in Proc : r # q => job'[r].asset # job'[q].asset
      BY DEF CreationsKnown
    <2>1. q # p /\ Creating(q) /\ job'[q] = job[q] /\ assets' = assets
      BY <1>4, <1>5 DEF Creating
    <2>2. assets[job[q].asset] = NoRow /\ job[q].asset # a
      BY <1>2, <2>1 DEF Inv, CreationsKnown
    <2>3. QED
      BY <1>3, <1>5, <2>1, <2>2 DEF Inv, CreationsKnown
  <1>8. TransitionsKnown'
    BY <1>2, <1>3, <1>4, <1>5 DEF Inv, TransitionsKnown
  <1>9. (NumbersDrawn /\ OneHolderPerRule)'
    BY <1>4, <1>5 DEF Inv, NumbersDrawn, OneHolderPerRule, HoldsRule
  <1>10. (CallersNumber /\ RowsNumbered /\ \A u \in AssetType : GaplessFor(u))'
    BY <1>4, <1>5 DEF Inv, CallersNumber, RowsNumbered, GaplessFor
  <1>11. QED
    BY <1>6, <1>7, <1>8, <1>9, <1>10 DEF Inv

LEMMA UpdateAssetInv ==
    ASSUME Inv, NEW p \in Proc, UpdateAsset(p)
    PROVE  Inv'
  <1>1. /\ pc[p] = "update"
        /\ pc'[p] = "event"
        /\ pc' = [pc EXCEPT ![p] = "event"]
        /\ UNCHANGED <<types, nextSequence, assets, events, job>>
        /\ \A q \in Proc : q # p => pc'[q] = pc[q]
    BY DEF UpdateAsset, Goto, tables, Inv, TypeOK
  <1>2. TypeOK'
    BY <1>1 DEF Inv, TypeOK
  <1>3. (CreationsKnown /\ TransitionsKnown)'
    BY <1>1 DEF Inv, CreationsKnown, TransitionsKnown, Creating
  <1>4. (NumbersDrawn /\ OneHolderPerRule)'
    BY <1>1 DEF Inv, NumbersDrawn, OneHolderPerRule, HoldsRule
  <1>5. (CallersNumber /\ RowsNumbered /\ \A u \in AssetType : GaplessFor(u))'
    BY <1>1 DEF Inv, CallersNumber, RowsNumbered, GaplessFor
  <1>6. QED
    BY <1>2, <1>3, <1>4, <1>5 DEF Inv

(* A transition changes the status of a row and nothing that numbering looks at. *)
LEMMA CommitTransitionInv ==
    ASSUME Inv, NEW p \in Proc, CommitTransition(p)
    PROVE  Inv'
  <1>1. PICK a \in Asset, s \in Statuses :
          /\ job[p].asset = a
          /\ job[p].status = s
          /\ assets[a] # NoRow
          /\ job[p].from \in Statuses
    BY DEF CommitTransition, Inv, TransitionsKnown
  <1> DEFINE row == [assets[a] EXCEPT !.status = s]
  <1>2. /\ assets[a] \in Row
        /\ row \in Row
        /\ row.type = assets[a].type
        /\ row.number = assets[a].number
        /\ row.seq = assets[a].seq
    BY <1>1 DEF Inv, TypeOK, Row
  <1>3. EventOf(job[p]) \in Event
    BY <1>1 DEF EventOf, Event
  <1>4. /\ assets' = [assets EXCEPT ![a] = row]
        /\ events' = Append(events, EventOf(job[p]))
        /\ pc' = [pc EXCEPT ![p] = "idle"]
        /\ job' = [job EXCEPT ![p] = NoJob]
        /\ UNCHANGED <<types, nextSequence>>
    BY <1>1 DEF CommitTransition, Finish, Goto
  <1> HIDE DEF row
  <1>5. /\ pc'[p] = "idle"
        /\ job'[p] = NoJob
        /\ assets'[a] = row
        /\ \A q \in Proc : q # p => pc'[q] = pc[q] /\ job'[q] = job[q]
        /\ \A b \in Asset : b # a => assets'[b] = assets[b]
    BY <1>4 DEF Inv, TypeOK
  <1>6. TypeOK'
    BY <1>2, <1>3, <1>4, NoJobIsJob DEF Inv, TypeOK
  <1>7. CreationsKnown'
    BY <1>1, <1>5, NoJobIsJob DEF Inv, CreationsKnown, Creating
  <1>8. TransitionsKnown'
    BY <1>2, <1>5, RowsAreRows DEF Inv, TransitionsKnown
  <1>9. (NumbersDrawn /\ OneHolderPerRule /\ CallersNumber)'
    BY <1>4, <1>5 DEF Inv, NumbersDrawn, OneHolderPerRule, HoldsRule, CallersNumber
  <1>10. \A b \in Asset : assets'[b].type = assets[b].type /\ assets'[b].seq = assets[b].seq
    BY <1>2, <1>5
  <1>11. ASSUME NEW u \in AssetType PROVE GaplessFor(u)'
    <2>1. GaplessFor(u) /\ nextSequence' = nextSequence
      BY <1>4 DEF Inv
    <2>2. QED
      BY <1>10, <2>1 DEF GaplessFor
  <1>12. RowsNumbered'
    BY <1>1, <1>2, <1>5 DEF Inv, RowsNumbered
  <1>13. QED
    BY <1>6, <1>7, <1>8, <1>9, <1>11, <1>12 DEF Inv

-----------------------------------------------------------------------------
LEMMA StutterInv ==
    ASSUME Inv, UNCHANGED <<nextSequence, assets, events, pc, job>>,
           types' \subseteq AssetType
    PROVE  Inv'
  <1>1. TypeOK'
    BY DEF Inv, TypeOK
  <1>2. (CreationsKnown /\ TransitionsKnown)'
    BY DEF Inv, CreationsKnown, TransitionsKnown, Creating
  <1>3. (NumbersDrawn /\ OneHolderPerRule)'
    BY DEF Inv, NumbersDrawn, OneHolderPerRule, HoldsRule
  <1>4. (CallersNumber /\ RowsNumbered /\ \A u \in AssetType : GaplessFor(u))'
    BY DEF Inv, CallersNumber, RowsNumbered, GaplessFor
  <1>5. QED
    BY <1>1, <1>2, <1>3, <1>4 DEF Inv

LEMMA NextInv == Inv /\ [Next]_vars => Inv'
  <1> SUFFICES ASSUME Inv, [Next]_vars PROVE Inv'
    OBVIOUS
  <1>1. CASE UNCHANGED vars
    BY <1>1, StutterInv DEF vars, Inv, TypeOK
  <1>2. ASSUME NEW ty \in AssetType, CreateAssetType(ty) PROVE Inv'
    BY <1>2, StutterInv DEF CreateAssetType, Inv, TypeOK
  <1>3. ASSUME NEW p \in Proc, Rollback(p) PROVE Inv'
    BY <1>3, FinishInv DEF Rollback
  <1>4. ASSUME NEW p \in Proc, CreateAsset(p) \/ TransitionState(p) \/ Step(p) PROVE Inv'
    BY <1>4, CreateAssetInv, TransitionStateInv, GenerateInv, InsertAssetInv,
       CommitAssetInv, UpdateAssetInv, CommitTransitionInv DEF Step
  <1>5. QED
    BY <1>1, <1>2, <1>3, <1>4 DEF Next

LEMMA Invariance == Spec => []Inv
  BY InitInv, NextInv, PTL DEF Spec

(***************************************************************************)
(* The tables hold rows and the transactions hold values of their kinds,   *)
(* in every state of every behaviour.                                      *)
(***************************************************************************)
THEOREM TypeCorrect == Spec => []TypeOK
  <1>1. Inv => TypeOK
    BY DEF Inv
  <1>2. QED
    BY <1>1, Invariance, PTL

(***************************************************************************)
(* Numbering has neither gaps nor repetitions, for any number of           *)
(* concurrent creations, refusals and rollbacks: the row lock that         *)
(* generateAssetNumber() takes is enough.                                  *)
(***************************************************************************)
THEOREM NumberingIsGapless == Spec => []NumberingGapless
  <1>1. Inv => NumberingGapless
    <2> SUFFICES ASSUME Inv, NEW ty \in AssetType
                 PROVE  /\ { assets[a].seq : a \in { b \in Asset : assets[b].type = ty } }
                              = 1 .. nextSequence[ty] - 1
                        /\ \A a, b \in Asset :
                            assets[a].type = ty /\ assets[b].type = ty
                                /\ assets[a].seq = assets[b].seq => a = b
      BY DEF NumberingGapless
    <2>1. GaplessFor(ty)
      BY DEF Inv
    <2>2. QED
      BY <2>1 DEF GaplessFor
  <1>2. QED
    BY <1>1, Invariance, PTL

(* No two types write the same text, which has a company's code in it, around *)
(* their numbers.                                                             *)
OwnLabels == \A t, u \in AssetType : LabelOf[t] = LabelOf[u] => t = u

(***************************************************************************)
(* Where no two types share the text of their rules, the unique index      *)
(* never refuses a generated number, whatever companies rows are put into. *)
(***************************************************************************)
THEOREM GeneratedNumbersAreFree ==
    ASSUME OwnLabels
    PROVE  Spec => []GeneratedNumberIsFree
  <1>1. Inv => GeneratedNumberIsFree
    <2> SUFFICES ASSUME Inv, NEW p \in Proc, pc[p] = "insert",
                        job[p].number \notin Manual
                 PROVE  /\ HasNumber(job[p].company, job[p].number) = {}
                        /\ Inserting(job[p].company, job[p].number) = {}
      BY DEF GeneratedNumberIsFree
    <2>1. PICK ty \in AssetType : ty = job[p].type
      BY DEF Inv, CreationsKnown, Creating
    <2>2. job[p].number = <<LabelOf[ty], nextSequence[ty]>>
      BY <2>1 DEF Inv, NumbersDrawn, HoldsRule
    <2>3. nextSequence[ty] \in Nat
      BY DEF Inv, TypeOK
    <2>4. ASSUME NEW a \in HasNumber(job[p].company, job[p].number) PROVE FALSE
      <3>1. /\ a \in Asset
            /\ assets[a] # NoRow
            /\ assets[a] \in Row
            /\ assets[a].number = job[p].number
        BY DEF HasNumber, Created, Inv, TypeOK
      <3>2. /\ assets[a].type \in AssetType
            /\ <<LabelOf[assets[a].type], assets[a].seq>> = <<LabelOf[ty], nextSequence[ty]>>
        BY <2>2, <3>1, RowsAreRows DEF Inv, RowsNumbered
      <3>3. assets[a].type = ty /\ assets[a].seq = nextSequence[ty]
        BY <3>1, <3>2 DEF OwnLabels
      <3>4. assets[a].seq \in 1 .. nextSequence[ty] - 1
        BY <3>1, <3>3 DEF Inv, GaplessFor
      <3>5. QED
        BY <2>3, <3>3, <3>4
    <2>5. ASSUME NEW q \in Inserting(job[p].company, job[p].number) PROVE FALSE
      <3>1. /\ q \in Proc
            /\ pc[q] = "commit"
            /\ job[q].number = job[p].number
        BY DEF Inserting
      <3>2. /\ job[q].type \in AssetType
            /\ <<LabelOf[job[q].type], job[q].seq>> = <<LabelOf[ty], nextSequence[ty]>>
        BY <2>2, <3>1 DEF Inv, CreationsKnown, Creating, NumbersDrawn, HoldsRule
      <3>3. job[q].type = ty
        BY <3>1, <3>2 DEF OwnLabels
      <3>4. QED
        BY <2>1, <3>1, <3>3 DEF Inv, OneHolderPerRule, HoldsRule
    <2>6. QED
      BY <2>1, <2>4, <2>5
  <1>2. QED
    BY <1>1, Invariance, PTL

-----------------------------------------------------------------------------
(* The asset history.                                                      *)

(* An event is of an asset that exists. *)
EventsOfAssets == \A i \in 1 .. Len(events) : assets[events[i].asset] # NoRow

(***************************************************************************)
(* HistoryEndsAtStatus with what makes it inductive: an asset that is only *)
(* being created has no history that its first status could contradict.    *)
(***************************************************************************)
HistoryInv == EventsOfAssets /\ HistoryEndsAtStatus

(* Events are of assets. *)
LEMMA EventsTyped ==
    ASSUME TypeOK
    PROVE  \A i \in 1 .. Len(events) : events[i].asset \in Asset
  <1>1. \A i \in 1 .. Len(events) : events[i] \in Event
    BY DEF TypeOK
  <1>2. QED
    BY <1>1 DEF Event

(* A step that keeps the rows and the events keeps what they say. *)
LEMMA SameHistory ==
    ASSUME HistoryInv, UNCHANGED <<assets, events>>
    PROVE  HistoryInv'
  BY DEF HistoryInv, EventsOfAssets, HistoryEndsAtStatus

(* A new row has no events. *)
LEMMA CommitAssetHistory ==
    ASSUME Inv, HistoryInv, NEW p \in Proc, CommitAsset(p)
    PROVE  HistoryInv'
  <1>1. PICK a \in Asset : job[p].asset = a /\ assets[a] = NoRow
    BY DEF Inv, CreationsKnown, Creating, CommitAsset
  <1>2. /\ events' = events
        /\ \A b \in Asset : b # a => assets'[b] = assets[b]
    BY <1>1 DEF CommitAsset, Inv, TypeOK
  <1>3. \A i \in 1 .. Len(events) : events[i].asset \in Asset \ {a}
    BY <1>1, EventsTyped DEF HistoryInv, EventsOfAssets, Inv
  <1>4. \A i \in 1 .. Len(events) : assets'[events[i].asset] = assets[events[i].asset]
    BY <1>2, <1>3
  <1>5. QED
    BY <1>2, <1>4 DEF HistoryInv, EventsOfAssets, HistoryEndsAtStatus

(***************************************************************************)
(* A transition: its event is the last of its asset, and leads to the      *)
(* status it writes; every other asset keeps its status and its last       *)
(* event.                                                                  *)
(***************************************************************************)
LEMMA CommitTransitionHistory ==
    ASSUME Inv, HistoryInv, NEW p \in Proc, CommitTransition(p)
    PROVE  HistoryInv'
  <1>1. PICK a \in Asset, s \in Statuses :
          /\ job[p].asset = a
          /\ job[p].status = s
          /\ assets[a] # NoRow
    BY DEF CommitTransition, Inv, TransitionsKnown
  <1> DEFINE n == Len(events)
             e == EventOf(job[p])
  <1>2. e \in Event /\ e.asset = a /\ e.to = s
    BY <1>1 DEF EventOf, Event, CommitTransition, Inv, TransitionsKnown
  <1>3. assets[a] \in Row
    BY <1>1 DEF Inv, TypeOK
  <1>4. assets' = [assets EXCEPT ![a] = [assets[a] EXCEPT !.status = s]]
    BY <1>1 DEF CommitTransition
  <1>5. [assets[a] EXCEPT !.status = s] \in Row /\ [assets[a] EXCEPT !.status = s].status = s
    BY <1>3 DEF Row
  <1>6. /\ assets'[a].status = s
        /\ assets'[a] # NoRow
        /\ \A b \in Asset : b # a => assets'[b] = assets[b]
    BY <1>4, <1>5, RowsAreRows DEF Inv, TypeOK
  <1>7. events' = Append(events, e)
    BY DEF CommitTransition
  <1> HIDE DEF e
  <1>8. /\ n \in Nat
        /\ Len(events') = n + 1
        /\ events'[n + 1] = e
        /\ \A i \in 1 .. n : events'[i] = events[i]
    BY <1>2, <1>7 DEF Inv, TypeOK
  <1>9. \A i \in 1 .. n : events[i].asset \in Asset
    BY EventsTyped DEF Inv
  <1> HIDE DEF n
  <1>10. EventsOfAssets'
    <2> SUFFICES ASSUME NEW i \in 1 .. n + 1 PROVE assets'[events'[i].asset] # NoRow
      BY <1>8 DEF EventsOfAssets
    <2>1. CASE i = n + 1
      BY <1>2, <1>6, <1>8, <2>1
    <2>2. CASE i \in 1 .. n
      BY <1>6, <1>8, <1>9, <2>2 DEF HistoryInv, EventsOfAssets, n
    <2>3. QED
      BY <1>8, <2>1, <2>2
  <1>11. HistoryEndsAtStatus'
    <2> SUFFICES ASSUME NEW i \in 1 .. n + 1,
                        \A j \in i + 1 .. n + 1 : events'[j].asset # events'[i].asset
                 PROVE  assets'[events'[i].asset].status = events'[i].to
      BY <1>8 DEF HistoryEndsAtStatus
    <2>1. CASE i = n + 1
      BY <1>2, <1>6, <1>8, <2>1
    <2>2. CASE i \in 1 .. n
      <3>1. events[i].asset # a
        BY <1>2, <1>8, <2>2
      <3>2. \A j \in i + 1 .. n : events[j].asset # events[i].asset
        BY <1>8, <2>2
      <3>3. assets[events[i].asset].status = events[i].to
        BY <2>2, <3>2 DEF HistoryInv, HistoryEndsAtStatus, n
      <3>4. QED
        BY <1>6, <1>8, <1>9, <2>2, <3>1, <3>3
    <2>3. QED
      BY <1>8, <2>1, <2>2
  <1>12. QED
    BY <1>10, <1>11 DEF HistoryInv

LEMMA NextHistory == Inv /\ HistoryInv /\ [Next]_vars => HistoryInv'
  <1> SUFFICES ASSUME Inv, HistoryInv, [Next]_vars PROVE HistoryInv'
    OBVIOUS
  <1>1. CASE UNCHANGED <<assets, events>>
    BY <1>1, SameHistory
  <1>2. ASSUME NEW p \in Proc, CommitAsset(p) \/ CommitTransition(p) PROVE HistoryInv'
    BY <1>2, CommitAssetHistory, CommitTransitionHistory
  <1>3. QED
    BY <1>1, <1>2
       DEF Next, vars, tables, Step, CreateAssetType, CreateAsset, TransitionState, Rollback,
           GenerateAssetNumber, InsertAsset, UpdateAsset

(***************************************************************************)
(* The status of an asset is the one its last event leads to, whatever     *)
(* transitions ran at the same time: the update and the event of one       *)
(* transition commit together, and the row is locked in between.           *)
(***************************************************************************)
THEOREM HistoryLeadsToStatus == Spec => []HistoryEndsAtStatus
  <1>1. Init => HistoryInv
    BY DEF Init, HistoryInv, EventsOfAssets, HistoryEndsAtStatus
  <1>2. HistoryInv => HistoryEndsAtStatus
    BY DEF HistoryInv
  <1>3. QED
    BY <1>1, <1>2, NextHistory, Invariance, PTL DEF Spec
=============================================================================
