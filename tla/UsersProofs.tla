------------------------------ MODULE UsersProofs ------------------------------
(***************************************************************************)
(* Proofs about Users and OrgHierarchy, for any set of documents that is   *)
(* shaped like an organisation and any number of users, sessions and       *)
(* requests: who is left without a parent, who keeps a session, and whose  *)
(* documents a request can touch.                                          *)
(***************************************************************************)
EXTENDS Users, TLAPS

Kind == {"plant", "location", "department", "asset", "user"}

Job == [scope : SUBSET Company, node : Node \cup {Nobody}, at : Node \cup {Nobody},
        todo : SUBSET Kind, label : Label \cup Code \cup {Nobody},
        user : User \cup {Nobody}, email : Email \cup {Nobody},
        roles : SUBSET Company, session : Session \cup {Nobody}]

Await == {"idle", "done", "climb", "count", "check", "rename", "insert", "taken",
          "patch", "roles", "link", "revoke", "session", "issue"}

(* TypeOK, with the types of the handlers' variables. *)
Typed ==
    /\ live \subseteq Node /\ gone \subseteq Node \ live
    /\ label \in [Node -> Label \cup Code]
    /\ users \in [User -> Row \cup {NoRow}]
    /\ sessions \in [Session -> SessionRow \cup {Unused}]
    /\ late \subseteq Node \cup User /\ cut \subseteq User
    /\ pc \in [Op -> Await]
    /\ job \in [Op -> Job]

(* The way up from a document stays in its company, and ends in scope. *)
Scoped(p) ==
    /\ pc[p] \in {"climb", "count", "check", "rename"} =>
          job[p].node \in Node /\ job[p].at \in Node
    /\ pc[p] = "climb" => Home(job[p].at) = Home(job[p].node)
    /\ pc[p] \in {"count", "check", "rename"} => Home(job[p].node) \in job[p].scope
    /\ pc[p] \in {"check", "rename"} => job[p].label # Nobody

(***************************************************************************)
(* What a deletion has counted was not there, so that whatever is there    *)
(* now is late.  This is what is left of the counts when it deletes.       *)
(***************************************************************************)
Counting(p) ==
    /\ pc[p] = "climb" /\ job[p].label = Nobody => job[p].todo = Counted(job[p].node)
    /\ pc[p] = "count" =>
          \A kind \in Counted(job[p].node) \ job[p].todo : Below(job[p].node, kind) \subseteq late

(* A handler that writes to a user writes to a user that there is. *)
Addressed(p) ==
    /\ pc[p] = "insert" => job[p].node \in Company /\ job[p].email \in Email
    /\ pc[p] \in {"taken", "patch"} => job[p].email \in Email
    /\ pc[p] \in {"taken", "patch", "roles", "link", "revoke", "session", "issue"} => job[p].user \in Known
    /\ pc[p] = "session" => job[p].session \in Session

(* The inductive invariant. *)
Inv ==
    /\ Typed
    /\ \A p \in Op : Scoped(p) /\ Counting(p) /\ Addressed(p)
    /\ OrphansAreLate
    /\ OneRowPerAddress
    /\ DeactivatedIsOut

-----------------------------------------------------------------------------
(* A document below the companies has a parent of the same company, whose  *)
(* deletion counts documents like it.                                      *)
LEMMA ParentIsAbove ==
    ASSUME NEW n \in Node, Level[n] # "company"
    PROVE  /\ Parent[n] \in Node
           /\ Home(Parent[n]) = Home(n)
           /\ Level[n] \in Counted(Parent[n])
  <1>1. /\ Parent[n] \in Node
        /\ Level[n] \in {"plant", "location", "department", "asset"}
    BY OrgAssumption
  <1>2. CASE Level[n] \in {"plant", "asset"}
    <2>1. Level[Parent[n]] = "company"
      BY <1>2, OrgAssumption
    <2> QED
      BY <1>1, <1>2, <2>1 DEF Home, Counted
  <1>3. CASE Level[n] = "location"
    <2>1. Level[Parent[n]] = "plant"
      BY <1>3, OrgAssumption
    <2> QED
      BY <1>1, <1>3, <2>1 DEF Home, Counted
  <1>4. CASE Level[n] = "department"
    <2>1. Level[Parent[n]] = "location"
      BY <1>4, OrgAssumption
    <2> QED
      BY <1>1, <1>4, <2>1 DEF Home, Counted
  <1> QED
    BY <1>1, <1>2, <1>3, <1>4

(* Scopes are sets of companies; companies are documents, and have no parent. *)
LEMMA ScopesAndCompanies ==
    /\ Company \subseteq Node
    /\ Scope \subseteq SUBSET Company
    /\ \A n \in Node : Level[n] = "company" => Home(n) = n /\ n \in Company
  BY OrgAssumption DEF Company, Home

(* The absence of a row and a row are different things, and so are the *)
(* absence of a job and a job.                                         *)
LEMMA NullsAreNulls ==
    /\ NoRow \notin Row
    /\ NoJob \in Job
    /\ Nobody \notin Node \cup User \cup Email \cup Session \cup Label \cup Code
  <1>1. Nobody \notin Company
    BY ScopesAndCompanies, OrgAssumption
  <1> QED
    BY <1>1, OrgAssumption DEF NoRow, Row, NoJob, Job

LEMMA InitInv == Init => Inv
  <1> SUFFICES ASSUME Init PROVE Inv
    OBVIOUS
  <1>1. PICK L \in SUBSET Node : /\ live = L
                                /\ Company \subseteq L
                                /\ \A n \in L \ Company : Parent[n] \in L
    BY DEF Init
  <1>2. users \in [User -> Row \cup {NoRow}]
    <2>1. [company : Company, email : Email, ext : {TRUE}, active : {TRUE},
            roles : {{}}, link : {0}] \subseteq Row
      <3>1. 0 \in 0 .. MaxOps
        BY OrgAssumption
      <3>2. {} \in SUBSET Company
        OBVIOUS
      <3> QED
        BY <3>1, <3>2 DEF Row
    <2> QED
      BY <2>1 DEF Init
  <1>3. Typed
    BY <1>1, <1>2, NullsAreNulls, OrgAssumption DEF Init, Typed, Await
  <1>4. \A p \in Op : Scoped(p) /\ Counting(p) /\ Addressed(p)
    BY DEF Init, Scoped, Counting, Addressed
  <1>5. OrphansAreLate
    <2>1. \A u \in Known : users[u].company \in Company
      BY <1>2 DEF Known, Row
    <2> QED
      BY <1>1, <2>1 DEF OrphansAreLate
  <1>6. OneRowPerAddress /\ DeactivatedIsOut
    BY OrgAssumption DEF Init, OneRowPerAddress, DeactivatedIsOut, Unused
  <1> QED
    BY <1>3, <1>4, <1>5, <1>6 DEF Inv

-----------------------------------------------------------------------------
(***************************************************************************)
(* The other handlers do not notice a step that leaves their variables     *)
(* alone, loses no user and adds only what is late to what they counted.   *)
(***************************************************************************)
LEMMA OthersInv ==
    ASSUME Inv, NEW p \in Op,
           \A q \in Op : q # p => pc'[q] = pc[q] /\ job'[q] = job[q],
           Known \subseteq Known',
           late \subseteq late',
           \A n \in Node, kind \in Kind : \A m \in Below(n, kind)' :
              m \in Below(n, kind) \/ (Overtakes(n, kind) => m \in late')
    PROVE  \A q \in Op : q # p => Scoped(q)' /\ Counting(q)' /\ Addressed(q)'
  <1> SUFFICES ASSUME NEW q \in Op, q # p PROVE Scoped(q)' /\ Counting(q)' /\ Addressed(q)'
    OBVIOUS
  <1>1. Scoped(q) /\ Counting(q) /\ Addressed(q) /\ Typed
    BY DEF Inv
  <1>2. Scoped(q)'
    BY <1>1 DEF Scoped
  <1>3. Counting(q)'
    <2> SUFFICES ASSUME pc[q] = "count",
                        NEW kind \in Counted(job[q].node) \ job[q].todo,
                        NEW m \in Below(job[q].node, kind)'
                 PROVE  m \in late'
      BY <1>1 DEF Counting
    <2>1. kind \in Kind /\ job[q].node \in Node
      BY <1>1 DEF Counted, Kind, Scoped
    <2>2. Overtakes(job[q].node, kind)
      BY DEF Overtakes
    <2> QED
      BY <1>1, <2>1, <2>2 DEF Counting
  <1>4. Addressed(q)'
    BY <1>1 DEF Addressed
  <1> QED
    BY <1>2, <1>3, <1>4
(* Only the step of p, and a step that only moves a handler. *)
OnlyJob(p) ==
    /\ pc' \in [Op -> Await]
    /\ job' \in [Op -> Job]
    /\ \A q \in Op : q # p => pc'[q] = pc[q] /\ job'[q] = job[q]

Obeys(p) == Scoped(p) /\ Counting(p) /\ Addressed(p)

(* A deactivation under way stays so in the steps of others. *)
LEMMA OutKept ==
    ASSUME Inv, NEW p \in Op, OnlyJob(p), pc[p] # "revoke",
           UNCHANGED <<sessions, cut>>,
           \A u \in User : users'[u].active = users[u].active
    PROVE  DeactivatedIsOut'
  <1>1. \A u \in User : Deactivating(u) => Deactivating(u)'
    BY DEF Deactivating, OnlyJob
  <1>2. Typed /\ DeactivatedIsOut
    BY DEF Inv
  <1>3. \A s \in Session : ~sessions[s].revoked => sessions[s].user \in User
    BY <1>2 DEF Typed, SessionRow, Unused
  <1> QED
    BY <1>1, <1>2, <1>3 DEF DeactivatedIsOut

(* A step that only moves a handler need only be right for that handler. *)
LEMMA MoveInv ==
    ASSUME Inv, NEW p \in Op, OnlyJob(p), pc[p] # "revoke",
           UNCHANGED directory, Obeys(p)'
    PROVE  Inv'
  <1>1. Typed'
    BY DEF Inv, Typed, OnlyJob, directory, org
  <1>2. \A q \in Op : q # p => Scoped(q)' /\ Counting(q)' /\ Addressed(q)'
    BY OthersInv DEF OnlyJob, directory, org, Known, Below
  <1>3. OrphansAreLate' /\ OneRowPerAddress'
    BY DEF Inv, OrphansAreLate, OneRowPerAddress, directory, org, Known
  <1>4. DeactivatedIsOut'
    BY OutKept DEF directory
  <1> QED
    BY <1>1, <1>2, <1>3, <1>4 DEF Inv, Obeys

(* The end of a request is such a move. *)
LEMMA FinishMove ==
    ASSUME Inv, NEW p \in Op, Finish(p)
    PROVE  OnlyJob(p) /\ Obeys(p)'
  <1>1. OnlyJob(p)
    BY NullsAreNulls DEF Inv, Typed, Finish, Goto, OnlyJob, Await
  <1>2. pc'[p] = "done"
    BY DEF Inv, Typed, Finish, Goto
  <1> QED
    BY <1>1, <1>2 DEF Obeys, Scoped, Counting, Addressed

LEMMA FinishInv ==
    ASSUME Inv, NEW p \in Op, Finish(p), pc[p] # "revoke", UNCHANGED directory
    PROVE  Inv'
  BY FinishMove, MoveInv

(* The arrival of a request is one, if what it brings is right. *)
LEMMA BeginMove ==
    ASSUME Inv, NEW p \in Op, NEW where \in Await, NEW j \in Job, Begin(p, where, j)
    PROVE  /\ OnlyJob(p)
           /\ pc[p] = "idle"
           /\ pc'[p] = where
           /\ job'[p] = j
  BY DEF Inv, Typed, Begin, OnlyJob

LEMMA GotoMove ==
    ASSUME Inv, NEW p \in Op, NEW where \in Await, Goto(p, where), UNCHANGED job
    PROVE  /\ OnlyJob(p)
           /\ pc'[p] = where
  BY DEF Inv, Typed, Goto, OnlyJob

-----------------------------------------------------------------------------
LEMMA UpdateInv ==
    ASSUME Inv, NEW p \in Op, Update(p), UNCHANGED <<sessions, cut>>
    PROVE  Inv'
  <1>1. PICK scope \in Scope, n \in Node, l \in Label \cup Code :
            /\ Begin(p, "climb", [NoJob EXCEPT !.scope = scope, !.node = n, !.at = n, !.label = l])
            /\ UNCHANGED <<org, users>>
    BY DEF Update
  <1> DEFINE j == [NoJob EXCEPT !.scope = scope, !.node = n, !.at = n, !.label = l]
  <1>2. j \in Job /\ j.node = n /\ j.at = n /\ j.label = l
    BY ScopesAndCompanies, NullsAreNulls DEF Job, NoJob
  <1>3. OnlyJob(p) /\ pc[p] = "idle" /\ pc'[p] = "climb" /\ job'[p] = j
    BY <1>1, <1>2, BeginMove DEF Await
  <1>4. Obeys(p)'
    BY <1>2, <1>3, NullsAreNulls DEF Obeys, Scoped, Counting, Addressed
  <1> QED
    BY <1>1, <1>3, <1>4, MoveInv DEF directory

LEMMA DeleteInv ==
    ASSUME Inv, NEW p \in Op, Delete(p), UNCHANGED <<sessions, cut>>
    PROVE  Inv'
  <1>1. PICK scope \in Scope, n \in Node :
            /\ Begin(p, "climb", [NoJob EXCEPT !.scope = scope, !.node = n, !.at = n, !.todo = Counted(n)])
            /\ UNCHANGED <<org, users>>
    BY DEF Delete
  <1> DEFINE j == [NoJob EXCEPT !.scope = scope, !.node = n, !.at = n, !.todo = Counted(n)]
  <1>2. Counted(n) \subseteq Kind
    BY DEF Counted, Kind
  <1>3. j \in Job /\ j.node = n /\ j.at = n /\ j.todo = Counted(n)
    BY <1>2, ScopesAndCompanies, NullsAreNulls DEF Job, NoJob
  <1>4. OnlyJob(p) /\ pc[p] = "idle" /\ pc'[p] = "climb" /\ job'[p] = j
    BY <1>1, <1>3, BeginMove DEF Await
  <1>5. Obeys(p)'
    BY <1>3, <1>4 DEF Obeys, Scoped, Counting, Addressed
  <1> QED
    BY <1>1, <1>4, <1>5, MoveInv DEF directory

(* A handler that climbs goes to the parent, in the same company, or has *)
(* arrived at the company of its document, which is in scope.            *)
LEMMA ClimbInv ==
    ASSUME Inv, NEW p \in Op, Climb(p), UNCHANGED <<sessions, cut>>
    PROVE  Inv'
  <1> DEFINE at == job[p].at
             n == job[p].node
  <1>1. /\ pc[p] = "climb" /\ UNCHANGED directory
        /\ Typed /\ Scoped(p) /\ Counting(p)
        /\ n \in Node /\ at \in Node /\ Home(at) = Home(n)
    BY DEF Inv, Climb, Scoped, directory
  <1>2. CASE Unseen(p)
    BY <1>1, <1>2, FinishInv DEF Climb
  <1>3. CASE ~Unseen(p) /\ Level[at] = "company"
    <2>1. Goto(p, Granted(p)) /\ UNCHANGED job
      BY <1>3 DEF Climb
    <2>2. /\ Granted(p) \in {"count", "check", "rename"}
          /\ Granted(p) = "count" <=> job[p].label = Nobody
      BY DEF Granted
    <2>3. OnlyJob(p) /\ pc'[p] = Granted(p)
      BY <2>1, <2>2, GotoMove DEF Await
    <2>4. Home(n) \in job[p].scope
      BY <1>1, <1>3, ScopesAndCompanies DEF Unseen
    <2>5. Scoped(p)'
      BY <1>1, <2>1, <2>2, <2>3, <2>4 DEF Scoped
    <2>6. Counting(p)' /\ Addressed(p)'
      BY <1>1, <2>1, <2>2, <2>3 DEF Counting, Addressed
    <2> QED
      BY <1>1, <2>3, <2>5, <2>6, MoveInv DEF Obeys
  <1>4. CASE ~Unseen(p) /\ Level[at] # "company"
    <2>1. job' = [job EXCEPT ![p].at = Parent[at]] /\ UNCHANGED pc
      BY <1>4 DEF Climb
    <2>2. Parent[at] \in Node /\ Home(Parent[at]) = Home(n)
      BY <1>1, <1>4, ParentIsAbove
    <2>3. job[p] \in Job
      BY <1>1 DEF Typed
    <2>4. [job[p] EXCEPT !.at = Parent[at]] \in Job
      BY <2>2, <2>3 DEF Job
    <2>5. OnlyJob(p) /\ job'[p] = [job[p] EXCEPT !.at = Parent[at]] /\ pc'[p] = "climb"
      BY <1>1, <2>1, <2>4 DEF OnlyJob, Typed
    <2>6. /\ job'[p].at = Parent[at] /\ job'[p].node = n
          /\ job'[p].label = job[p].label /\ job'[p].todo = job[p].todo
      BY <2>3, <2>5 DEF Job
    <2>7. Obeys(p)'
      BY <1>1, <2>2, <2>5, <2>6 DEF Obeys, Scoped, Counting, Addressed
    <2> QED
      BY <1>1, <2>5, <2>7, MoveInv
  <1> QED
    BY <1>2, <1>3, <1>4
(* A count that finds nothing leaves nothing to be late. *)
LEMMA CountInv ==
    ASSUME Inv, NEW p \in Op, Count(p), UNCHANGED <<sessions, cut>>
    PROVE  Inv'
  <1>1. /\ pc[p] = "count" /\ UNCHANGED directory
        /\ Typed /\ Scoped(p) /\ Counting(p) /\ job[p] \in Job
    BY DEF Inv, Count, directory, Typed
  <1>2. PICK kind \in job[p].todo :
            IF Below(job[p].node, kind) = {}
            THEN job' = [job EXCEPT ![p].todo = @ \ {kind}] /\ UNCHANGED pc
            ELSE Finish(p)
    BY DEF Count
  <1>3. CASE Below(job[p].node, kind) # {}
    BY <1>1, <1>2, <1>3, FinishInv
  <1>4. CASE Below(job[p].node, kind) = {}
    <2>1. job' = [job EXCEPT ![p].todo = @ \ {kind}] /\ UNCHANGED pc
      BY <1>2, <1>4
    <2>2. [job[p] EXCEPT !.todo = @ \ {kind}] \in Job
      BY <1>1 DEF Job
    <2>3. OnlyJob(p) /\ job'[p] = [job[p] EXCEPT !.todo = @ \ {kind}] /\ pc'[p] = "count"
      BY <1>1, <2>1, <2>2 DEF OnlyJob, Typed
    <2>4. /\ job'[p].at = job[p].at /\ job'[p].node = job[p].node
          /\ job'[p].label = job[p].label /\ job'[p].scope = job[p].scope
          /\ job'[p].todo = job[p].todo \ {kind}
      BY <1>1, <2>3 DEF Job
    <2>5. Scoped(p)' /\ Addressed(p)'
      BY <1>1, <2>3, <2>4 DEF Scoped, Addressed
    <2>6. \A n, k : Below(n, k)' = Below(n, k)
      BY <1>1 DEF Below, Known, directory, org
    <2>7. Counting(p)'
      BY <1>1, <1>4, <2>3, <2>4, <2>6 DEF Counting, directory, org
    <2> QED
      BY <1>1, <2>3, <2>5, <2>7, MoveInv DEF Obeys
  <1> QED
    BY <1>3, <1>4

(***************************************************************************)
(* When everything has been counted, whatever is below the document now is *)
(* late, so that the document can go.                                      *)
(***************************************************************************)
LEMMA RemoveInv ==
    ASSUME Inv, NEW p \in Op, Remove(p), UNCHANGED <<sessions, cut>>
    PROVE  Inv'
  <1> DEFINE doc == job[p].node
  <1>1. /\ pc[p] = "count" /\ job[p].todo = {} /\ Finish(p)
        /\ live' = live \ {doc} /\ gone' = gone \cup (live \cap {doc})
        /\ UNCHANGED <<label, late, users, sessions, cut>>
    BY DEF Remove
  <1>2. Typed /\ Scoped(p) /\ Counting(p) /\ OrphansAreLate
    BY DEF Inv
  <1>3. OnlyJob(p) /\ Obeys(p)'
    BY <1>1, FinishMove
  <1>4. Typed'
    BY <1>1, <1>2, <1>3 DEF Typed, OnlyJob
  <1>5. \A q \in Op : q # p => Scoped(q)' /\ Counting(q)' /\ Addressed(q)'
    <2>1. \A n \in Node, k \in Kind : Below(n, k)' \subseteq Below(n, k)
      BY <1>1 DEF Below, Known
    <2> QED
      BY <1>1, <1>3, <2>1, OthersInv DEF OnlyJob, Known
  <1>6. doc \in Node /\ \A kind \in Counted(doc) : Below(doc, kind) \subseteq late
    BY <1>1, <1>2 DEF Counting, Scoped
  <1>7. ASSUME NEW n \in live' \ Company PROVE Parent[n] \in live' \/ n \in late
    <2>1. n \in Node /\ Level[n] # "company" /\ n \in live
      BY <1>1, <1>2, <1>7 DEF Typed, Company
    <2>2. CASE Parent[n] = doc
      <3>1. Level[n] \in Counted(doc)
        BY <2>1, <2>2, ParentIsAbove
      <3>2. Level[n] # "user"
        BY <2>1, OrgAssumption
      <3>3. n \in Below(doc, Level[n])
        BY <2>1, <2>2, <3>2 DEF Below
      <3> QED
        BY <1>6, <3>1, <3>3
    <2>3. CASE Parent[n] # doc
      BY <1>1, <1>2, <1>7, <2>1, <2>3 DEF OrphansAreLate
    <2> QED
      BY <2>2, <2>3
  <1>8. ASSUME NEW u \in Known PROVE users[u].company \in live' \/ u \in late
    <2>1. users[u].company \in Company
      BY <1>2 DEF Typed, Known, Row
    <2>2. CASE users[u].company = doc
      <3>1. "user" \in Counted(doc)
        BY <2>1, <2>2 DEF Counted, Company
      <3>2. u \in Below(doc, "user")
        BY <2>2 DEF Below
      <3> QED
        BY <1>6, <3>1, <3>2
    <2>3. CASE users[u].company # doc
      BY <1>1, <1>2, <2>3 DEF OrphansAreLate
    <2> QED
      BY <2>2, <2>3
  <1>9. OrphansAreLate' /\ OneRowPerAddress'
    BY <1>1, <1>7, <1>8 DEF OrphansAreLate, Known, Inv, OneRowPerAddress
  <1>10. DeactivatedIsOut'
    BY <1>1, <1>3, OutKept
  <1> QED
    BY <1>3, <1>4, <1>5, <1>9, <1>10 DEF Inv, Obeys

LEMMA CheckCodeInv ==
    ASSUME Inv, NEW p \in Op, CheckCode(p), UNCHANGED <<sessions, cut>>
    PROVE  Inv'
  <1>1. /\ pc[p] = "check" /\ UNCHANGED directory
        /\ Finish(p) \/ (Goto(p, "rename") /\ UNCHANGED job)
        /\ Scoped(p)
    BY DEF Inv, CheckCode, directory
  <1>2. CASE Finish(p)
    BY <1>1, <1>2, FinishInv
  <1>3. CASE Goto(p, "rename") /\ UNCHANGED job
    <2>1. OnlyJob(p) /\ pc'[p] = "rename" /\ job' = job
      BY <1>3, GotoMove DEF Await
    <2>2. Obeys(p)'
      BY <1>1, <2>1 DEF Obeys, Scoped, Counting, Addressed
    <2> QED
      BY <1>1, <2>1, <2>2, MoveInv
  <1> QED
    BY <1>1, <1>2, <1>3

LEMMA RenameInv ==
    ASSUME Inv, NEW p \in Op, Rename(p), UNCHANGED <<sessions, cut>>
    PROVE  Inv'
  <1>1. CASE Refuse(p)
    BY <1>1, FinishInv DEF Refuse, Rename, directory
  <1>2. CASE ~Refuse(p)
    <2> DEFINE n == job[p].node
    <2>1. /\ pc[p] = "rename" /\ Finish(p)
          /\ label' = IF n \in live THEN [label EXCEPT ![n] = job[p].label] ELSE label
          /\ UNCHANGED <<live, gone, late, users, sessions, cut>>
      BY <1>2 DEF Rename, Relabel
    <2>2. Typed /\ job[p].label \in Label \cup Code
      BY <2>1 DEF Inv, Typed, Scoped, Job
    <2>3. OnlyJob(p) /\ Obeys(p)'
      BY <2>1, FinishMove
    <2>4. Typed'
      BY <2>1, <2>2, <2>3 DEF Typed, OnlyJob
    <2>5. \A q \in Op : q # p => Scoped(q)' /\ Counting(q)' /\ Addressed(q)'
      BY <2>1, <2>3, OthersInv DEF OnlyJob, Known, Below
    <2>6. OrphansAreLate' /\ OneRowPerAddress'
      BY <2>1, <2>2 DEF Inv, Typed, OrphansAreLate, OneRowPerAddress, Known
    <2>7. DeactivatedIsOut'
      BY <2>1, <2>3, OutKept
    <2> QED
      BY <2>3, <2>4, <2>5, <2>6, <2>7 DEF Inv, Obeys
  <1> QED
    BY <1>1, <1>2 DEF Rename

(* A new document has its parent, and is late for those who have counted. *)
LEMMA AddInv ==
    ASSUME Inv, NEW n \in Node, Add(n), UNCHANGED <<sessions, cut>>
    PROVE  Inv'
  <1>1. /\ n \notin live \cup gone /\ Parent[n] \in live
        /\ live' = live \cup {n} /\ late \subseteq late'
        /\ Overtakes(Parent[n], Level[n]) => n \in late'
        /\ late' \subseteq late \cup {n}
        /\ UNCHANGED <<gone, label, users, pc, job, sessions, cut>>
    BY DEF Add
  <1>2. Typed'
    BY <1>1 DEF Inv, Typed
  <1>3. ASSUME NEW q \in Op PROVE Obeys(q)'
    <2>1. Scoped(q) /\ Counting(q) /\ Addressed(q)
      BY DEF Inv
    <2>2. Scoped(q)' /\ Addressed(q)'
      BY <1>1, <2>1 DEF Scoped, Addressed, Known
    <2>3. ASSUME pc[q] = "count", NEW kind \in Counted(job[q].node) \ job[q].todo,
                 NEW m \in Below(job[q].node, kind)'
          PROVE  m \in late'
      <3>1. CASE m \in Below(job[q].node, kind)
        BY <1>1, <2>1, <2>3, <3>1 DEF Counting
      <3>2. CASE m \notin Below(job[q].node, kind)
        <4>1. m = n /\ Parent[n] = job[q].node /\ Level[n] = kind
          BY <1>1, <2>3, <3>2 DEF Below, Known
        <4>2. Overtakes(Parent[n], Level[n])
          BY <2>3, <4>1 DEF Overtakes
        <4> QED
          BY <1>1, <4>1, <4>2
      <3> QED
        BY <3>1, <3>2
    <2>4. Counting(q)'
      BY <1>1, <2>1, <2>3 DEF Counting
    <2> QED
      BY <2>2, <2>4 DEF Obeys
  <1>4. OrphansAreLate' /\ OneRowPerAddress'
    <2>1. n \notin Company
      BY <1>1, OrgAssumption DEF Inv, Typed, Company
    <2> QED
      BY <1>1, <2>1 DEF Inv, OrphansAreLate, OneRowPerAddress, Known
  <1>5. DeactivatedIsOut'
    BY <1>1 DEF Inv, DeactivatedIsOut, Deactivating
  <1> QED
    BY <1>2, <1>3, <1>4, <1>5 DEF Inv, Obeys
-----------------------------------------------------------------------------
(* The arrivals of requests that concern users, and their checks. *)
LEMMA ArrivalInv ==
    ASSUME Inv, NEW p \in Op,
           NEW where \in Await \ {"climb", "count", "check", "rename"}, NEW j \in Job,
           Begin(p, where, j), UNCHANGED directory,
           where = "insert" => j.node \in Company /\ j.email \in Email,
           where \in {"taken", "patch"} => j.email \in Email,
           where \in {"taken", "patch", "roles", "link", "revoke", "session", "issue"} => j.user \in Known,
           where = "session" => j.session \in Session
    PROVE  Inv'
  <1>1. OnlyJob(p) /\ pc[p] = "idle" /\ pc'[p] = where /\ job'[p] = j
    BY BeginMove
  <1>2. Known' = Known
    BY DEF Known, directory
  <1>3. Obeys(p)'
    BY <1>1, <1>2 DEF Obeys, Scoped, Counting, Addressed
  <1> QED
    BY <1>1, <1>3, MoveInv

LEMMA CreateInv == ASSUME Inv, NEW p \in Op, Create(p) PROVE Inv'
  <1>1. PICK c \in Company, e \in Email :
            Begin(p, "insert", [NoJob EXCEPT !.node = c, !.email = e])
    BY ScopesAndCompanies DEF Create
  <1> DEFINE j == [NoJob EXCEPT !.node = c, !.email = e]
  <1>2. j \in Job /\ j.node = c /\ j.email = e
    BY ScopesAndCompanies, NullsAreNulls DEF Job, NoJob
  <1> QED
    BY <1>1, <1>2, ArrivalInv DEF Create, Await

LEMMA UpdateUserInv == ASSUME Inv, NEW p \in Op, UpdateUser(p) PROVE Inv'
  <1>1. PICK u \in Known, e \in Email :
            Begin(p, IF e = users[u].email THEN "patch" ELSE "taken",
                  [NoJob EXCEPT !.user = u, !.email = e])
    BY DEF UpdateUser
  <1> DEFINE j == [NoJob EXCEPT !.user = u, !.email = e]
             where == IF e = users[u].email THEN "patch" ELSE "taken"
  <1>2. j \in Job /\ j.user = u /\ j.email = e
    BY NullsAreNulls DEF Job, NoJob, Known
  <1>3. where \in {"patch", "taken"} /\ Begin(p, where, j)
    BY <1>1
  <1> HIDE DEF where, j
  <1> QED
    BY <1>2, <1>3, ArrivalInv DEF UpdateUser, Await

LEMMA CheckTakenInv == ASSUME Inv, NEW p \in Op, CheckTaken(p) PROVE Inv'
  <1>1. /\ pc[p] = "taken" /\ UNCHANGED directory
        /\ Finish(p) \/ (Goto(p, "patch") /\ UNCHANGED job)
        /\ Addressed(p)
    BY DEF Inv, CheckTaken
  <1>2. CASE Finish(p)
    BY <1>1, <1>2, FinishInv
  <1>3. CASE Goto(p, "patch") /\ UNCHANGED job
    <2>1. OnlyJob(p) /\ pc'[p] = "patch" /\ job' = job
      BY <1>3, GotoMove DEF Await
    <2>2. Known' = Known
      BY <1>1 DEF Known, directory
    <2>3. Obeys(p)'
      BY <1>1, <2>1, <2>2 DEF Obeys, Scoped, Counting, Addressed
    <2> QED
      BY <1>1, <2>1, <2>3, MoveInv
  <1> QED
    BY <1>1, <1>2, <1>3

LEMMA SetRolesInv == ASSUME Inv, NEW p \in Op, SetRoles(p) PROVE Inv'
  <1>1. PICK u \in Known, roles \in SUBSET Company :
            Begin(p, "roles", [NoJob EXCEPT !.user = u, !.roles = roles])
    BY ScopesAndCompanies DEF SetRoles
  <1> DEFINE j == [NoJob EXCEPT !.user = u, !.roles = roles]
  <1>2. j \in Job /\ j.user = u
    BY NullsAreNulls DEF Job, NoJob, Known
  <1> QED
    BY <1>1, <1>2, ArrivalInv DEF SetRoles, Await

LEMMA IssueAccessLinkInv == ASSUME Inv, NEW p \in Op, IssueAccessLink(p) PROVE Inv'
  <1>1. PICK u \in Known : Begin(p, "link", [NoJob EXCEPT !.user = u])
    BY DEF IssueAccessLink
  <1> DEFINE j == [NoJob EXCEPT !.user = u]
  <1>2. j \in Job /\ j.user = u
    BY NullsAreNulls DEF Job, NoJob, Known
  <1> QED
    BY <1>1, <1>2, ArrivalInv DEF IssueAccessLink, Await

LEMMA RevokeSessionInv == ASSUME Inv, NEW p \in Op, RevokeSession(p) PROVE Inv'
  <1>1. PICK u \in Known, s \in Session :
            Begin(p, "session", [NoJob EXCEPT !.user = u, !.session = s])
    BY DEF RevokeSession
  <1> DEFINE j == [NoJob EXCEPT !.user = u, !.session = s]
  <1>2. j \in Job /\ j.user = u /\ j.session = s
    BY NullsAreNulls DEF Job, NoJob, Known
  <1> QED
    BY <1>1, <1>2, ArrivalInv DEF RevokeSession, Await

LEMMA SignInInv == ASSUME Inv, NEW p \in Op, SignIn(p) PROVE Inv'
  <1>1. PICK u \in Known : Begin(p, "issue", [NoJob EXCEPT !.user = u])
    BY DEF SignIn
  <1> DEFINE j == [NoJob EXCEPT !.user = u]
  <1>2. j \in Job /\ j.user = u
    BY NullsAreNulls DEF Job, NoJob, Known
  <1> QED
    BY <1>1, <1>2, ArrivalInv DEF SignIn, Await
-----------------------------------------------------------------------------
(* A new user has an address of its own, and is late if its company is gone *)
(* or has been counted.                                                     *)
LEMMA InsertInv == ASSUME Inv, NEW p \in Op, Insert(p) PROVE Inv'
  <1> DEFINE c == job[p].node
  <1>1. pc[p] = "insert" /\ Typed /\ Addressed(p) /\ c \in Company /\ job[p].email \in Email
    BY DEF Inv, Addressed, Insert, InsertAnyway, Decline
  <1>2. CASE Decline(p)
    BY <1>1, <1>2, FinishInv DEF Decline
  <1>3. CASE ~Decline(p)
    <2> DEFINE row == [company |-> c, email |-> job[p].email, ext |-> FALSE,
                       active |-> TRUE, roles |-> {}, link |-> 0]
    <2>1. /\ WithEmail(job[p].email) = {} /\ Finish(p)
          /\ UNCHANGED <<live, gone, label, sessions, cut>>
      BY <1>1, <1>3 DEF Insert, InsertAnyway
    <2>2. PICK u \in User \ Known :
              /\ users' = [users EXCEPT ![u] = row]
              /\ late' = IF c \notin live \/ Overtakes(c, "user") THEN late \cup {u} ELSE late
      BY <1>1, <1>3 DEF Insert, InsertAnyway
    <2>3. row \in Row
      <3>1. 0 \in 0 .. MaxOps
        BY OrgAssumption
      <3> QED
        BY <1>1, <3>1 DEF Row
    <2>4. OnlyJob(p) /\ Obeys(p)'
      BY <2>1, FinishMove
    <2>5. Typed'
      BY <1>1, <2>1, <2>2, <2>3, <2>4 DEF Typed, OnlyJob
    <2>6. /\ users'[u] = row
          /\ \A v \in User : v # u => users'[v] = users[v]
          /\ Known' = Known \cup {u}
      <3>1. row # NoRow
        BY <2>3, NullsAreNulls
      <3> HIDE DEF row
      <3>2. /\ users'[u] = row
            /\ \A v \in User : v # u => users'[v] = users[v]
        BY <1>1, <2>2 DEF Typed
      <3> QED
        BY <3>1, <3>2 DEF Known
    <2>7. \A n \in Node, kind \in Kind : \A m \in Below(n, kind)' :
              m \in Below(n, kind) \/ (Overtakes(n, kind) => m \in late')
      <3> SUFFICES ASSUME NEW n \in Node, NEW kind \in Kind, NEW m \in Below(n, kind)',
                          m \notin Below(n, kind), Overtakes(n, kind)
                   PROVE  m \in late'
        OBVIOUS
      <3>1. kind = "user" /\ m = u /\ n = c
        BY <2>1, <2>6 DEF Below, Known
      <3> QED
        BY <2>2, <3>1
    <2>8. \A q \in Op : q # p => Scoped(q)' /\ Counting(q)' /\ Addressed(q)'
      BY <2>2, <2>4, <2>6, <2>7, OthersInv DEF OnlyJob
    <2>9. OrphansAreLate' 
      BY <2>1, <2>2, <2>6 DEF Inv, OrphansAreLate
    <2>10. OneRowPerAddress'
      <3>1. \A v \in Known : users[v].email # job[p].email
        BY <2>1 DEF WithEmail
      <3>2. users'[u].email = job[p].email
        BY <2>6
      <3>3. \A v \in Known : v \in User /\ users'[v] = users[v]
        BY <2>2, <2>6 DEF Known
      <3> QED
        BY <2>6, <3>1, <3>2, <3>3 DEF Inv, OneRowPerAddress
    <2>11. DeactivatedIsOut'
      <3>1. \A v \in User : Deactivating(v) => Deactivating(v)'
        BY <1>1, <2>1, <2>4 DEF Deactivating, OnlyJob
      <3>2. \A s \in Session : ~sessions[s].revoked => sessions[s].user \in User
        BY <1>1 DEF Typed, SessionRow, Unused
      <3>3. users'[u].active
        BY <2>6
      <3> QED
        BY <2>1, <2>6, <3>1, <3>2, <3>3 DEF Inv, DeactivatedIsOut
    <2> QED
      BY <2>4, <2>5, <2>8, <2>9, <2>10, <2>11 DEF Inv, Obeys
  <1> QED
    BY <1>2, <1>3

(***************************************************************************)
(* A write to the row of a user that leaves its company and whether it is  *)
(* active, and its address unless it is nobody else's.                     *)
(***************************************************************************)
LEMMA RowInv ==
    ASSUME Inv, NEW p \in Op, pc[p] # "revoke", Finish(p),
           NEW u \in Known, NEW row \in Row,
           row.company = users[u].company, row.active = users[u].active,
           row.email = users[u].email \/ WithEmail(row.email) \ {u} = {},
           users' = [users EXCEPT ![u] = row],
           UNCHANGED <<org, sessions, cut>>
    PROVE  Inv'
  <1>1. Typed /\ OrphansAreLate /\ OneRowPerAddress
    BY DEF Inv
  <1>2. OnlyJob(p) /\ Obeys(p)'
    BY FinishMove
  <1>3. Typed'
    BY <1>1, <1>2 DEF Typed, OnlyJob, Known, org
  <1>4. /\ u \in User /\ users'[u] = row /\ row # NoRow
        /\ \A v \in User : v # u => users'[v] = users[v]
        /\ Known' = Known
    BY <1>1, NullsAreNulls DEF Typed, Known
  <1>5. \A n, kind : Below(n, kind)' = Below(n, kind)
    <2>1. \A v \in Known : users'[v].company = users[v].company
      BY <1>4 DEF Known
    <2> QED
      BY <1>4, <2>1 DEF Below, org
  <1>6. \A q \in Op : q # p => Scoped(q)' /\ Counting(q)' /\ Addressed(q)'
    BY <1>2, <1>4, <1>5, OthersInv DEF OnlyJob, org
  <1>7. OrphansAreLate' 
    BY <1>1, <1>4 DEF Inv, OrphansAreLate, org, Known
  <1>8. OneRowPerAddress'
    BY <1>1, <1>4 DEF OneRowPerAddress, WithEmail, Known
  <1>9. DeactivatedIsOut'
    BY <1>2, <1>4, OutKept
  <1> QED
    BY <1>2, <1>3, <1>6, <1>7, <1>8, <1>9 DEF Inv, Obeys

LEMMA PatchInv == ASSUME Inv, NEW p \in Op, Patch(p) PROVE Inv'
  <1> DEFINE u == job[p].user
             e == job[p].email
             row == [users[u] EXCEPT !.email = e]
  <1>1. pc[p] = "patch" /\ Typed /\ u \in Known /\ e \in Email
    BY DEF Inv, Patch, Addressed
  <1>2. CASE Decline(p)
    BY <1>1, <1>2, FinishInv DEF Decline
  <1>3. CASE ~Decline(p)
    <2>1. /\ WithEmail(e) \ {u} = {} /\ Finish(p)
          /\ users' = [users EXCEPT ![u].email = e]
          /\ UNCHANGED <<org, sessions, cut>>
      BY <1>3 DEF Patch
    <2>2. users[u] \in Row
      BY <1>1 DEF Typed, Known
    <2>3. /\ row \in Row /\ row.company = users[u].company
          /\ row.active = users[u].active /\ row.email = e
      BY <1>1, <2>2 DEF Row
    <2>4. users' = [users EXCEPT ![u] = row]
      BY <2>1
    <2> HIDE DEF u, e, row
    <2> QED
      BY <1>1, <2>1, <2>3, <2>4, RowInv
  <1> QED
    BY <1>2, <1>3

LEMMA WriteRolesInv == ASSUME Inv, NEW p \in Op, WriteRoles(p) PROVE Inv'
  <1> DEFINE u == job[p].user
             row == [users[u] EXCEPT !.roles = job[p].roles]
  <1>1. /\ pc[p] = "roles" /\ u \in Known /\ job[p].roles \in SUBSET Company
        /\ Finish(p) /\ UNCHANGED <<org, sessions, cut>>
        /\ users' = [users EXCEPT ![u] = row]
    BY DEF Inv, Typed, Job, WriteRoles, Addressed
  <1>2. users[u] \in Row
    BY <1>1 DEF Inv, Typed, Known
  <1>3. /\ row \in Row /\ row.company = users[u].company
        /\ row.active = users[u].active /\ row.email = users[u].email
    BY <1>1, <1>2 DEF Row
  <1> HIDE DEF u, row
  <1> QED
    BY <1>1, <1>3, RowInv

LEMMA WriteLinkInv == ASSUME Inv, NEW p \in Op, WriteLink(p) PROVE Inv'
  <1> DEFINE u == job[p].user
             row == [users[u] EXCEPT !.link = p]
  <1>1. /\ pc[p] = "link" /\ u \in Known
        /\ Finish(p) /\ UNCHANGED <<org, sessions, cut>>
        /\ users' = [users EXCEPT ![u] = row]
    BY DEF Inv, WriteLink, Addressed
  <1>2. users[u] \in Row
    BY <1>1 DEF Inv, Typed, Known
  <1>3. /\ row \in Row /\ row.company = users[u].company
        /\ row.active = users[u].active /\ row.email = users[u].email
    <2>1. p \in 0 .. MaxOps
      BY OrgAssumption DEF Op
    <2> QED
      BY <1>2, <2>1 DEF Row
  <1> HIDE DEF u, row
  <1> QED
    BY <1>1, <1>3, RowInv
-----------------------------------------------------------------------------
(* A deactivation begins with the row, and has its user's sessions ahead. *)
LEMMA SetActiveInv == ASSUME Inv, NEW p \in Op, SetActive(p) PROVE Inv'
  <1>1. PICK u \in Known, on \in BOOLEAN :
            /\ Begin(p, IF on THEN "done" ELSE "revoke",
                     IF on THEN NoJob ELSE [NoJob EXCEPT !.user = u])
            /\ users' = [users EXCEPT ![u].active = on]
            /\ UNCHANGED <<org, sessions, cut>>
    BY DEF SetActive
  <1> DEFINE row == [users[u] EXCEPT !.active = on]
             where == IF on THEN "done" ELSE "revoke"
             j == IF on THEN NoJob ELSE [NoJob EXCEPT !.user = u]
  <1>2. Typed /\ OrphansAreLate /\ OneRowPerAddress /\ DeactivatedIsOut
    BY DEF Inv
  <1>3. j \in Job /\ where \in Await /\ (~on => where = "revoke" /\ j.user = u)
    BY NullsAreNulls DEF Job, NoJob, Known, Await
  <1>4. where \in {"done", "revoke"} /\ (where = "revoke" => j.user = u)
    BY <1>3
  <1>5. users[u] \in Row
    BY <1>2 DEF Typed, Known
  <1>6. /\ row \in Row /\ row.company = users[u].company
        /\ row.email = users[u].email /\ row.active = on
    BY <1>5 DEF Row
  <1>7. Begin(p, where, j) /\ users' = [users EXCEPT ![u] = row]
    BY <1>1
  <1> HIDE DEF row, where, j
  <1>8. OnlyJob(p) /\ pc[p] = "idle" /\ pc'[p] = where /\ job'[p] = j
    BY <1>3, <1>7, BeginMove
  <1>9. /\ u \in User /\ users'[u] = row /\ row # NoRow
        /\ \A v \in User : v # u => users'[v] = users[v]
        /\ Known' = Known
    BY <1>2, <1>6, <1>7, NullsAreNulls DEF Typed, Known
  <1>10. Typed'
    BY <1>1, <1>2, <1>6, <1>7, <1>8 DEF Typed, OnlyJob, Known, org
  <1>11. Obeys(p)'
    BY <1>4, <1>8, <1>9 DEF Obeys, Scoped, Counting, Addressed
  <1>12. \A q \in Op : q # p => Scoped(q)' /\ Counting(q)' /\ Addressed(q)'
    <2>1. \A v \in Known : users'[v].company = users[v].company
      BY <1>6, <1>9 DEF Known
    <2>2. \A n, kind : Below(n, kind)' = Below(n, kind)
      BY <1>1, <1>9, <2>1 DEF Below, org
    <2> QED
      BY <1>1, <1>8, <1>9, <2>2, OthersInv DEF OnlyJob, org
  <1>13. OrphansAreLate' /\ OneRowPerAddress'
    BY <1>1, <1>2, <1>6, <1>9 DEF Inv, OrphansAreLate, OneRowPerAddress, org, Known
  <1>14. DeactivatedIsOut'
    <2>1. \A v \in User : Deactivating(v) => Deactivating(v)'
      BY <1>1, <1>8 DEF Deactivating, OnlyJob
    <2>2. on \/ Deactivating(u)'
      BY <1>3, <1>8 DEF Deactivating
    <2>3. \A s \in Session : ~sessions[s].revoked => sessions[s].user \in User
      BY <1>2 DEF Typed, SessionRow, Unused
    <2> QED
      BY <1>1, <1>2, <1>6, <1>9, <2>1, <2>2, <2>3 DEF DeactivatedIsOut
  <1> QED
    BY <1>10, <1>11, <1>12, <1>13, <1>14 DEF Inv, Obeys

(* The end of a handler that has only written to sessions. *)
LEMMA SessionsInv ==
    ASSUME Inv, NEW p \in Op, Finish(p), UNCHANGED <<org, users>>,
           sessions' \in [Session -> SessionRow \cup {Unused}], cut' \subseteq User,
           DeactivatedIsOut'
    PROVE  Inv'
  <1>1. OnlyJob(p) /\ Obeys(p)'
    BY FinishMove
  <1>2. Typed'
    BY <1>1 DEF Inv, Typed, OnlyJob, org
  <1>3. \A q \in Op : q # p => Scoped(q)' /\ Counting(q)' /\ Addressed(q)'
    BY <1>1, OthersInv DEF OnlyJob, org, Known, Below
  <1>4. OrphansAreLate' /\ OneRowPerAddress'
    BY DEF Inv, OrphansAreLate, OneRowPerAddress, org, Known
  <1> QED
    BY <1>1, <1>2, <1>3, <1>4 DEF Inv, Obeys

(* ... and ends without a session that its user could use. *)
LEMMA RevokeSessionsInv == ASSUME Inv, NEW p \in Op, RevokeSessions(p) PROVE Inv'
  <1> DEFINE u == job[p].user
  <1>1. /\ pc[p] = "revoke" /\ Finish(p) /\ UNCHANGED <<org, users>>
        /\ sessions' = [s \in Session |-> IF sessions[s].user = u THEN Revoked(sessions[s])
                                          ELSE sessions[s]]
        /\ cut' = cut \ {u}
    BY DEF RevokeSessions
  <1>2. Typed /\ DeactivatedIsOut /\ u \in User
    BY <1>1 DEF Inv, Addressed, Known
  <1>3. \A s \in Session : sessions[s].user = u =>
            sessions[s] \in SessionRow /\ Revoked(sessions[s]) \in SessionRow
                                     /\ Revoked(sessions[s]).revoked
    <2>1. Unused.user # u
      BY <1>2, NullsAreNulls DEF Unused
    <2>2. ASSUME NEW r \in SessionRow PROVE Revoked(r) \in SessionRow /\ Revoked(r).revoked
      BY DEF Revoked, SessionRow
    <2> QED
      BY <1>2, <2>1, <2>2 DEF Typed
  <1>4. sessions' \in [Session -> SessionRow \cup {Unused}] /\ cut' \subseteq User
    BY <1>1, <1>2, <1>3 DEF Typed
  <1>5. \A v \in User \ {u} : Deactivating(v) => Deactivating(v)'
    <2>1. OnlyJob(p)
      BY <1>1, FinishMove
    <2> QED
      BY <1>1, <2>1 DEF Deactivating, OnlyJob
  <1>6. ASSUME NEW s \in Session, ~sessions'[s].revoked
        PROVE  sessions'[s] = sessions[s] /\ sessions[s].user \in User \ {u}
    BY <1>1, <1>2, <1>3, <1>6 DEF Typed, SessionRow, Unused
  <1>7. DeactivatedIsOut'
    BY <1>1, <1>2, <1>5, <1>6 DEF DeactivatedIsOut
  <1> QED
    BY <1>1, <1>4, <1>7, SessionsInv

LEMMA DieInv == ASSUME Inv, NEW p \in Op, Die(p) PROVE Inv'
  <1> DEFINE u == job[p].user
  <1>1. /\ pc[p] = "revoke" /\ Finish(p) /\ UNCHANGED <<org, users, sessions>>
        /\ cut' = cut \cup {u}
    BY DEF Die
  <1>2. Typed /\ DeactivatedIsOut /\ u \in User
    BY <1>1 DEF Inv, Addressed, Known
  <1>3. \A v \in User : Deactivating(v) => Deactivating(v)'
    <2>1. OnlyJob(p)
      BY <1>1, FinishMove
    <2> QED
      BY <1>1, <2>1 DEF Deactivating, OnlyJob
  <1>4. \A s \in Session : ~sessions[s].revoked => sessions[s].user \in User
    BY <1>2 DEF Typed, SessionRow, Unused
  <1>5. DeactivatedIsOut'
    BY <1>1, <1>2, <1>3, <1>4 DEF DeactivatedIsOut
  <1> QED
    BY <1>1, <1>2, <1>5, SessionsInv DEF Typed

LEMMA WriteRevokedInv == ASSUME Inv, NEW p \in Op, WriteRevoked(p) PROVE Inv'
  <1> DEFINE t == job[p].session
             u == job[p].user
  <1>1. /\ pc[p] = "session" /\ Finish(p) /\ UNCHANGED <<org, users, cut>>
        /\ sessions' = IF sessions[t].user = u THEN [sessions EXCEPT ![t] = Revoked(@)] ELSE sessions
    BY DEF WriteRevoked
  <1>2. Typed /\ DeactivatedIsOut /\ t \in Session /\ u \in User
    BY <1>1 DEF Inv, Addressed, Known
  <1>3. sessions[t].user = u =>
            Revoked(sessions[t]) \in SessionRow /\ Revoked(sessions[t]).revoked
    <2>1. Unused.user # u
      BY <1>2, NullsAreNulls DEF Unused
    <2>2. ASSUME NEW r \in SessionRow PROVE Revoked(r) \in SessionRow /\ Revoked(r).revoked
      BY DEF Revoked, SessionRow
    <2> QED
      BY <1>2, <2>1, <2>2 DEF Typed
  <1>4. sessions' \in [Session -> SessionRow \cup {Unused}]
    BY <1>1, <1>2, <1>3 DEF Typed
  <1>5. \A v \in User : Deactivating(v) => Deactivating(v)'
    <2>1. OnlyJob(p)
      BY <1>1, FinishMove
    <2> QED
      BY <1>1, <2>1 DEF Deactivating, OnlyJob
  <1>6. ASSUME NEW s \in Session, ~sessions'[s].revoked
        PROVE  sessions'[s] = sessions[s] /\ sessions[s].user \in User
    BY <1>1, <1>2, <1>3, <1>6 DEF Typed, SessionRow, Unused
  <1>7. DeactivatedIsOut'
    BY <1>1, <1>2, <1>5, <1>6 DEF DeactivatedIsOut
  <1> QED
    BY <1>1, <1>2, <1>4, <1>7, SessionsInv DEF Typed

(* A session issued to a user who has become inactive is an overtaken one. *)
LEMMA IssueSessionInv == ASSUME Inv, NEW p \in Op, IssueSession(p) PROVE Inv'
  <1> DEFINE u == job[p].user
             row == [user |-> u, revoked |-> FALSE, overtaken |-> ~users[u].active]
  <1>1. pc[p] = "issue" /\ Finish(p) /\ UNCHANGED <<org, users, cut>>
    BY DEF IssueSession
  <1>2. PICK t \in Session : sessions' = [sessions EXCEPT ![t] = row]
    BY DEF IssueSession
  <1>3. Typed /\ DeactivatedIsOut /\ u \in User
    BY <1>1 DEF Inv, Addressed, Known
  <1>4. row \in SessionRow /\ row.user = u /\ row.overtaken = ~users[u].active
    BY <1>3 DEF SessionRow
  <1> HIDE DEF row
  <1>5. /\ sessions'[t] = row
        /\ \A s \in Session : s # t => sessions'[s] = sessions[s]
        /\ sessions' \in [Session -> SessionRow \cup {Unused}]
    BY <1>2, <1>3, <1>4 DEF Typed
  <1>6. \A v \in User : Deactivating(v) => Deactivating(v)'
    <2>1. OnlyJob(p)
      BY <1>1, FinishMove
    <2> QED
      BY <1>1, <2>1 DEF Deactivating, OnlyJob
  <1>7. \A s \in Session : ~sessions[s].revoked => sessions[s].user \in User
    BY <1>3 DEF Typed, SessionRow, Unused
  <1>8. DeactivatedIsOut'
    BY <1>1, <1>3, <1>4, <1>5, <1>6, <1>7 DEF DeactivatedIsOut
  <1> QED
    BY <1>1, <1>3, <1>5, <1>8, SessionsInv DEF Typed
-----------------------------------------------------------------------------
LEMMA OrgStepInv ==
    ASSUME Inv, NEW p \in Op, OrgStep(p), UNCHANGED <<sessions, cut>>
    PROVE  Inv'
  BY UpdateInv, DeleteInv, ClimbInv, CountInv, RemoveInv, CheckCodeInv, RenameInv DEF OrgStep

LEMMA UserStepInv == ASSUME Inv, NEW p \in Op, UserStep(p) PROVE Inv'
  BY CreateInv, InsertInv, UpdateUserInv, CheckTakenInv, PatchInv, SetRolesInv,
     WriteRolesInv, IssueAccessLinkInv, WriteLinkInv, SetActiveInv, RevokeSessionsInv,
     DieInv, RevokeSessionInv, WriteRevokedInv, SignInInv, IssueSessionInv DEF UserStep

LEMMA StutterInv == ASSUME Inv, UNCHANGED vars PROVE Inv'
  <1>1. UNCHANGED <<live, gone, label, users, late, pc, job, sessions, cut>>
    BY DEF vars, directory, org
  <1>2. Known' = Known /\ \A n, kind : Below(n, kind)' = Below(n, kind)
    BY <1>1 DEF Known, Below
  <1>3. \A p \in Op : Scoped(p)' /\ Counting(p)' /\ Addressed(p)'
    BY <1>1, <1>2 DEF Inv, Scoped, Counting, Addressed
  <1>4. Typed'
    BY <1>1 DEF Inv, Typed
  <1>5. OrphansAreLate' /\ OneRowPerAddress' /\ DeactivatedIsOut'
    BY <1>1, <1>2 DEF Inv, OrphansAreLate, OneRowPerAddress, DeactivatedIsOut, Deactivating
  <1> QED
    BY <1>3, <1>4, <1>5 DEF Inv

(* The invariant holds in every state of every behaviour. *)
THEOREM Invariance == Spec => []Inv
  <1>1. Inv /\ [Next]_vars => Inv'
    BY OrgStepInv, UserStepInv, AddInv, StutterInv DEF Next
  <1> QED
    BY InitInv, <1>1, PTL DEF Spec

(* The variables keep their types (TypeOK). *)
THEOREM TypeCorrect == Spec => []TypeOK
  <1>1. Inv => TypeOK
    BY DEF Inv, Typed, TypeOK, Await, Job
  <1> QED
    BY <1>1, Invariance, PTL

(***************************************************************************)
(* Whatever requests interleave, only what was added after a deletion had  *)
(* counted is ever left without its parent (OrphansAreLate).               *)
(***************************************************************************)
THEOREM OrphansWereLate == Spec => []OrphansAreLate
  <1>1. Inv => OrphansAreLate
    BY DEF Inv
  <1> QED
    BY <1>1, Invariance, PTL

(* Two users never have one address (OneRowPerAddress). *)
THEOREM AddressesAreUnique == Spec => []OneRowPerAddress
  <1>1. Inv => OneRowPerAddress
    BY DEF Inv
  <1> QED
    BY <1>1, Invariance, PTL

(* A deactivated user keeps no session but an overtaken one (DeactivatedIsOut). *)
THEOREM DeactivatedUsersAreOut == Spec => []DeactivatedIsOut
  <1>1. Inv => DeactivatedIsOut
    BY DEF Inv
  <1> QED
    BY <1>1, Invariance, PTL

-----------------------------------------------------------------------------
(* What a step touches belongs to a company in the scope of a request that *)
(* it answers.                                                             *)
Confined ==
    Touched # {} =>
      \E p \in Op : /\ pc[p] # "done" /\ pc'[p] = "done"
                    /\ \A n \in Touched : Home(n) \in job[p].scope

LEMMA UntouchedConfined == ASSUME live \subseteq live', label' = label PROVE Confined
  BY DEF Confined, Touched

(* Only a deletion and a change of name touch anything, and what they touch *)
(* is the document whose way up has ended in scope.                         *)
LEMMA OrgStepConfined == ASSUME Inv, NEW p \in Op, OrgStep(p) PROVE Confined
  <1> DEFINE doc == job[p].node
  <1>1. CASE Remove(p) \/ (Rename(p) /\ ~Refuse(p))
    <2>1. /\ pc[p] \in {"count", "rename"} /\ Finish(p)
          /\ \/ live' = live \ {doc} /\ label' = label
             \/ live' = live /\ (label' = label \/ label' = [label EXCEPT ![doc] = job[p].label])
      BY <1>1 DEF Remove, Rename, Relabel
    <2>2. Typed /\ Scoped(p)
      BY DEF Inv
    <2>3. pc'[p] = "done"
      BY <2>1, <2>2 DEF Typed, Finish, Goto
    <2>4. Touched \subseteq {doc}
      BY <2>1, <2>2 DEF Typed, Touched
    <2>5. Home(doc) \in job[p].scope
      BY <2>1, <2>2 DEF Scoped
    <2> QED
      BY <2>1, <2>3, <2>4, <2>5 DEF Confined
  <1>2. CASE ~(Remove(p) \/ (Rename(p) /\ ~Refuse(p)))
    <2>1. UNCHANGED org
      BY <1>2 DEF OrgStep, Update, Delete, Climb, Count, CheckCode, Refuse
    <2> QED
      BY <2>1, UntouchedConfined DEF org
  <1> QED
    BY <1>1, <1>2

LEMMA UserStepConfined == ASSUME NEW p \in Op, UserStep(p) PROVE Confined
  <1>1. UNCHANGED <<live, label>>
    BY DEF UserStep, Create, Insert, InsertAnyway, UpdateUser, CheckTaken, Patch, SetRoles,
           WriteRoles, IssueAccessLink, WriteLink, SetActive, RevokeSessions, Die,
           RevokeSession, WriteRevoked, SignIn, IssueSession, Decline, directory, org
  <1> QED
    BY <1>1, UntouchedConfined

(***************************************************************************)
(* No request renames or deletes a document outside of its caller's scope, *)
(* however the reads on its way up interleave with others (ScopeRespected). *)
(***************************************************************************)
THEOREM ScopeIsRespected == Spec => ScopeRespected
  <1>1. ASSUME Inv, Next PROVE Confined
    BY <1>1, OrgStepConfined, UserStepConfined, UntouchedConfined DEF Next, Add
  <1>2. Inv /\ [Next]_vars => [Confined]_vars
    BY <1>1
  <1>3. Spec => [][Confined]_vars
    BY <1>2, Invariance, PTL DEF Spec
  <1> QED
    BY <1>3 DEF Confined, ScopeRespected
=============================================================================
