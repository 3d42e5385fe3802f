---------------------------- MODULE LicenseProofs ----------------------------
(***************************************************************************)
(* Proofs about LicenseNotifications, for any number of tenants, plans,    *)
(* requests and days: the types are kept, a status is recorded, features   *)
(* are granted, a marker stands for a mail, and nobody is told twice.      *)
(***************************************************************************)
EXTENDS LicenseNotifications, WellFoundedInduction, TLAPS

(* What a handler that changes a subscription will write, and its variables. *)
Fields == [plan : Plan \cup {Same}, status : Status, ends : Int \cup {NoEnd}]

Job == [tenant : Tenant \cup {Same}, sub : Nat, set : Fields \cup {Same},
        plan : Plan \cup {Same}, key : Key \cup {Same}, ent : Ent \cup {NoEnt},
        todo : SUBSET Key]

Places == {"idle", "done", "save", "grant", "record", "upsert", "previous", "reset"}

(* The tables and variables of the administrators' requests. *)
TablesOK ==
    /\ today \in 0 .. LastDay
    /\ subs \in Seq(Row)
    /\ ents \in [(DOMAIN subs) \X Key -> Ent \cup {NoEnt}]
    /\ \A s \in DOMAIN subs : subs[s].changed <= today
    /\ trail \subseteq (DOMAIN subs) \X Status \X Nat
    /\ died \subseteq DOMAIN subs
    /\ outrun \subseteq (DOMAIN subs) \X Key
    /\ pc \in [Op -> Places]
    /\ job \in [Op -> Job]

(***************************************************************************)
(* What a handler at an await has read: the subscription it works on, the  *)
(* fields it writes, the plan whose entitlements it still has to grant.    *)
(***************************************************************************)
JobOK(where, j) ==
    /\ j.sub \in {0} \cup DOMAIN subs
    /\ where \in {"save", "grant", "record"} => j.set \in Fields
    /\ where = "save" /\ j.sub = 0 => j.set.plan \in Plan /\ j.tenant \in Tenant
    /\ where \in {"grant", "record", "upsert", "previous", "reset"} => j.sub \in DOMAIN subs
    /\ where = "grant" => j.set.plan \in Plan /\ j.todo \subseteq DOMAIN Features[j.set.plan]
    /\ where = "upsert" => j.key \in Key /\ j.ent \in Ent
    /\ where \in {"previous", "reset"} => j.key \in Key /\ j.plan \in Plan

JobsOK == \A p \in Op : JobOK(pc[p], job[p])

(* A status set within the retention is recorded, or a handler that wrote it *)
(* has yet to record it.                                                     *)
StatusComes ==
    \A s \in DOMAIN subs \ died :
        \/ Old(subs[s].changed)
        \/ Recorded(s)
        \/ \E p \in Op : /\ pc[p] \in {"grant", "record"}
                         /\ job[p].sub = s
                         /\ job[p].set.status = subs[s].status

(* A feature of the plan is granted, or a handler has yet to grant it. *)
FeaturesCome ==
    \A s \in DOMAIN subs \ died : \A k \in DOMAIN Planned(s) :
        \/ <<s, k>> \in outrun
        \/ ents[<<s, k>>] # NoEnt
        \/ \E p \in Op : pc[p] = "grant" /\ job[p].sub = s /\ k \in job[p].todo

AdminInv == TablesOK /\ JobsOK /\ StatusComes /\ FeaturesCome

Worker == [at : {"off", "purge", "read", "mail", "mark"}, todo : SUBSET Tenant,
           tenant : Tenant \cup {Same}, notice : Notice, ends : Int, got : SUBSET Person]

(* The marker or mail m is of the tenant and the notice the worker is at. *)
Mine(m) == m.tenant = worker.tenant /\ m.notice = worker.notice

(* What the worker has read: a tenant, and a notice that it has no marker of. *)
NoticesOK ==
    /\ marks \subseteq Mark
    /\ told \subseteq Mail
    /\ \A m \in told : m.day <= today
    /\ lost \subseteq Tenant \X Notice
    /\ faults \in 0 .. MaxFaults
    /\ worker \in Worker
    /\ worker.at \in {"read", "mail", "mark"} => worker.tenant \in Tenant
    /\ worker.at \in {"mail", "mark"} => \A k \in marks : ~Mine(k)
    /\ worker.at = "mark" =>
          \A u \in worker.got : \E m \in told : Mine(m) /\ m.ends = worker.ends

(* A mail within the retention is remembered, or about to be, or was lost. *)
ToldIsMarked ==
    \A m \in told :
        \/ Old(m.day)
        \/ <<m.tenant, m.notice>> \in lost
        \/ \E k \in marks : k.tenant = m.tenant /\ k.notice = m.notice /\ k.day >= m.day
        \/ worker.at = "mark" /\ Mine(m) /\ worker.got # {}

WorkerInv == NoticesOK /\ MarkedIsMailed /\ ToldIsMarked

LicenseInv == AdminInv /\ WorkerInv

-----------------------------------------------------------------------------
(* A set of numbers up to a bound has a greatest one. *)
LEMMA MaxIsIn ==
    ASSUME NEW n \in Nat, NEW S \in SUBSET (0 .. n), S # {}
    PROVE  Max(S) \in S /\ \A x \in S : x <= Max(S)
  <1> DEFINE Down == { n - x : x \in S }
             Below == { ss \in Nat \X Nat : ss[1] < ss[2] }
  <1>1. IsWellFoundedOn(Below, Nat)
    BY NatLessThanWellFounded, Zenon DEF OpToRel
  <1>2. \A x \in S : x \in Nat /\ n - x \in Nat
    OBVIOUS
  <1>3. Down \subseteq Nat /\ Down # {}
    BY <1>2
  <1>4. \A x, y \in Nat : <<y, x>> \in Below <=> y < x
    OBVIOUS
  <1> HIDE DEF Below
  <1>5. PICK d \in Down : \A y \in Down : ~ (<<y, d>> \in Below)
    BY <1>1, <1>3, WFMin
  <1>6. \A y \in Down : ~ (y < d)
    BY <1>3, <1>4, <1>5
  <1>7. PICK m \in S : d = n - m
    OBVIOUS
  <1>8. \A x \in S : ~ (n - x < n - m)
    BY <1>6, <1>7
  <1>9. \A x \in S : m >= x
    BY <1>2, <1>8
  <1>10. Max(S) \in S /\ \A x \in S : Max(S) >= x
    BY <1>9 DEF Max
  <1>11. QED
    BY <1>2, <1>10

LEMMA NewestIsOne ==
    ASSUME TablesOK, NEW t
    PROVE  Newest(t) \in {0} \cup DOMAIN subs
  <1>1. {0} \cup Of(t) \in SUBSET (0 .. Len(subs)) /\ Len(subs) \in Nat
    BY DEF TablesOK, Of
  <1>2. Newest(t) \in {0} \cup Of(t)
    BY <1>1, MaxIsIn DEF Newest
  <1>3. QED
    BY <1>2 DEF Of

LEMMA RowTypes ==
    ASSUME TablesOK, NEW s \in DOMAIN subs
    PROVE  /\ s \in Nat \ {0}
           /\ subs[s] \in Row
           /\ subs[s].plan \in Plan /\ subs[s].status \in Status
           /\ subs[s].changed \in Nat
  <1>1. s \in Nat \ {0}
    BY DEF TablesOK
  <1>2. subs[s] \in Row
    BY DEF TablesOK
  <1>3. QED
    BY <1>1, <1>2 DEF Row

(* The features of a plan, and what is absent. *)
LEMMA FeatureTypes ==
    ASSUME NEW q \in Plan
    PROVE  /\ DOMAIN Features[q] \subseteq Key
           /\ \A k \in DOMAIN Features[q] : Features[q][k] \in Value
  <1>1. Features[q] \in UNION { [S -> Value] : S \in SUBSET Key }
    BY SubscriptionAssumption
  <1>2. PICK S \in SUBSET Key : Features[q] \in [S -> Value]
    BY <1>1
  <1>3. QED
    BY <1>2

LEMMA AbsentValues ==
    /\ NoEnt \notin Ent
    /\ Same \notin Plan
    /\ NoJob \in Job
    /\ NoJob.sub = 0 /\ NoJob.todo = {} /\ NoJob.set = Same
  <1>1. NoEnt \notin Ent /\ Same \notin Plan
    BY SubscriptionAssumption DEF Ent
  <1>2. NoJob \in Job
    BY DEF NoJob, Job
  <1>3. QED
    BY <1>1, <1>2 DEF NoJob

(* A handler goes on to another await, with variables that fit there. *)
LEMMA MoveJob ==
    ASSUME TablesOK, JobsOK, NEW p \in Op, NEW where \in Places, NEW j \in Job,
           JobOK(where, j)', Goto(p, where), job' = [job EXCEPT ![p] = j],
           DOMAIN subs \subseteq DOMAIN subs'
    PROVE  /\ JobsOK'
           /\ pc' \in [Op -> Places] /\ job' \in [Op -> Job]
           /\ pc'[p] = where /\ job'[p] = j
           /\ \A q \in Op : q # p => pc'[q] = pc[q] /\ job'[q] = job[q]
  <1>1. /\ pc' \in [Op -> Places] /\ job' \in [Op -> Job]
        /\ pc'[p] = where /\ job'[p] = j
        /\ \A q \in Op : q # p => pc'[q] = pc[q] /\ job'[q] = job[q]
    BY DEF TablesOK, Goto
  <1>2. JobsOK'
    <2> SUFFICES ASSUME NEW q \in Op PROVE JobOK(pc[q], job[q])'
      BY DEF JobsOK
    <2>1. CASE q = p
      BY <1>1, <2>1 DEF JobOK
    <2>2. CASE q # p
      <3>1. JobOK(pc[q], job[q])
        BY DEF JobsOK
      <3>2. QED
        BY <1>1, <2>2, <3>1 DEF JobOK
    <2>3. QED
      BY <2>1, <2>2
  <1>3. QED
    BY <1>1, <1>2

LEMMA EndJobs ==
    ASSUME TablesOK, JobsOK, NEW p \in Op, Finish(p), DOMAIN subs \subseteq DOMAIN subs'
    PROVE  /\ JobsOK'
           /\ pc' \in [Op -> Places] /\ job' \in [Op -> Job]
           /\ pc'[p] = "done" /\ job'[p] = NoJob
           /\ \A q \in Op : q # p => pc'[q] = pc[q] /\ job'[q] = job[q]
  <1>1. JobOK("done", NoJob)'
    BY AbsentValues DEF JobOK
  <1>2. Goto(p, "done") /\ job' = [job EXCEPT ![p] = NoJob] /\ "done" \in Places
    BY DEF Finish, Places
  <1>3. QED
    BY <1>1, <1>2, AbsentValues, MoveJob

(* A row keeps its status, and whoever has yet to record it is still to do so. *)
LEMMA StatusKept ==
    ASSUME AdminInv, NEW p \in Op, UNCHANGED <<today, subs>>,
           trail \subseteq trail', died \subseteq died',
           \A q \in Op : q # p => pc'[q] = pc[q] /\ job'[q] = job[q],
           pc[p] \in {"grant", "record"} =>
               \/ /\ pc'[p] \in {"grant", "record"}
                  /\ job'[p].sub = job[p].sub /\ job'[p].set = job[p].set
               \/ job[p].sub \in died'
               \/ <<job[p].sub, job[p].set.status, today>> \in trail'
    PROVE  StatusComes'
  <1> SUFFICES ASSUME NEW s \in DOMAIN subs, s \notin died', ~Old(subs[s].changed)
               PROVE  \/ Recorded(s)'
                      \/ \E q \in Op : /\ pc'[q] \in {"grant", "record"}
                                       /\ job'[q].sub = s
                                       /\ job'[q].set.status = subs[s].status
    BY DEF StatusComes, Old
  <1>1. CASE Recorded(s)
    BY <1>1 DEF Recorded
  <1>2. ASSUME NEW q \in Op, pc[q] \in {"grant", "record"}, job[q].sub = s,
               job[q].set.status = subs[s].status
        PROVE  \/ Recorded(s)'
               \/ \E r \in Op : /\ pc'[r] \in {"grant", "record"}
                                /\ job'[r].sub = s
                                /\ job'[r].set.status = subs[s].status
    <2>1. CASE <<s, subs[s].status, today>> \in trail'
      <3>1. today >= subs[s].changed
        BY RowTypes DEF AdminInv, TablesOK
      <3>2. PICK e \in trail' : e = <<s, subs[s].status, today>>
        BY <2>1
      <3>3. e[1] = s /\ e[2] = subs[s].status /\ e[3] = today
        BY <3>2
      <3>4. QED
        BY <3>1, <3>3 DEF Recorded
    <2>2. QED
      BY <1>2, <2>1
  <1>3. QED
    BY <1>1, <1>2 DEF AdminInv, StatusComes

(* No entitlement goes, and whoever has yet to grant one is still to do so. *)
LEMMA FeaturesKept ==
    ASSUME AdminInv, NEW p \in Op, UNCHANGED subs, died \subseteq died', outrun \subseteq outrun',
           \A s \in DOMAIN subs, k \in Key :
               \/ ents[<<s, k>>] # NoEnt => ents'[<<s, k>>] # NoEnt
               \/ <<s, k>> \in outrun'
               \/ k \notin DOMAIN Planned(s),
           \A q \in Op : q # p => pc'[q] = pc[q] /\ job'[q] = job[q],
           pc[p] # "grant" \/ job[p].sub \in died' \/ (pc'[p] = pc[p] /\ job'[p] = job[p])
    PROVE  FeaturesCome'
  <1> SUFFICES ASSUME NEW s \in DOMAIN subs', s \notin died',
                      NEW k \in DOMAIN Features[subs[s].plan], <<s, k>> \notin outrun'
               PROVE  \/ ents'[<<s, k>>] # NoEnt
                      \/ \E q \in Op : pc'[q] = "grant" /\ job'[q].sub = s /\ k \in job'[q].todo
    BY DEF FeaturesCome, Planned
  <1>1. subs[s].plan \in Plan
    BY RowTypes DEF AdminInv
  <1>2. k \in Key /\ k \in DOMAIN Planned(s)
    BY <1>1, FeatureTypes DEF Planned
  <1>3. CASE ents[<<s, k>>] # NoEnt
    BY <1>2, <1>3
  <1>4. CASE \E q \in Op : pc[q] = "grant" /\ job[q].sub = s /\ k \in job[q].todo
    BY <1>4
  <1>5. QED
    BY <1>2, <1>3, <1>4 DEF AdminInv, FeaturesCome

-----------------------------------------------------------------------------
(* A request begins. *)
LEMMA BeginAdmin ==
    ASSUME AdminInv, NEW p \in Op, NEW where \in {"save", "upsert", "previous"},
           NEW j \in Job, JobOK(where, j), Begin(p, where, j)
    PROVE  AdminInv'
  <1>1. /\ pc[p] = "idle" /\ Goto(p, where) /\ job' = [job EXCEPT ![p] = j]
        /\ UNCHANGED <<today, subs, ents, trail, died, outrun>>
    BY DEF Begin, Goto, licence
  <1>2. JobOK(where, j)'
    BY <1>1 DEF JobOK
  <1>3. where \in Places
    BY DEF Places
  <1>4. /\ JobsOK'
        /\ pc' \in [Op -> Places] /\ job' \in [Op -> Job]
        /\ \A q \in Op : q # p => pc'[q] = pc[q] /\ job'[q] = job[q]
    BY <1>1, <1>2, <1>3, MoveJob DEF AdminInv
  <1>5. TablesOK'
    BY <1>1, <1>4 DEF AdminInv, TablesOK
  <1>6. StatusComes'
    BY <1>1, <1>4, StatusKept
  <1>7. FeaturesCome'
    BY <1>1, <1>4, FeaturesKept
  <1>8. QED
    BY <1>4, <1>5, <1>6, <1>7 DEF AdminInv

LEMMA AssignAdmin ==
    ASSUME AdminInv, NEW p \in Op, Assign(p)
    PROVE  AdminInv'
  <1>1. PICK t \in Tenant, q \in Plan, st \in Assigned, d \in EndDay \cup {Same} :
          Begin(p, "save", [NoJob EXCEPT !.tenant = t, !.sub = Newest(t),
                                         !.set = [plan |-> q, status |-> st, ends |-> d]])
    BY DEF Assign
  <1>2. PICK n \in Nat : n = Newest(t) /\ n \in {0} \cup DOMAIN subs
    BY NewestIsOne, RowTypes DEF AdminInv
  <1>3. PICK set \in Fields : set = [plan |-> q, status |-> st, ends |-> d]
    BY SubscriptionAssumption DEF Fields, Status, NoEnd
  <1> DEFINE j == [NoJob EXCEPT !.tenant = t, !.sub = n, !.set = set]
  <1>4. j \in Job /\ j.tenant = t /\ j.sub = n /\ j.set = set
    BY DEF NoJob, Job
  <1>5. Begin(p, "save", j)
    BY <1>1, <1>2, <1>3
  <1> HIDE DEF j
  <1>6. JobOK("save", j)
    BY <1>2, <1>3, <1>4 DEF JobOK
  <1>7. QED
    BY <1>4, <1>5, <1>6, BeginAdmin

LEMMA ChangeAdmin ==
    ASSUME AdminInv, NEW p \in Op, NEW set \in Fields, Change(p, set)
    PROVE  AdminInv'
  <1>1. PICK t \in Tenant :
          /\ Newest(t) # 0
          /\ Begin(p, "save", [NoJob EXCEPT !.tenant = t, !.sub = Newest(t), !.set = set])
    BY DEF Change
  <1>2. PICK n \in Nat \ {0} : n = Newest(t) /\ n \in DOMAIN subs
    BY <1>1, NewestIsOne, RowTypes DEF AdminInv
  <1> DEFINE j == [NoJob EXCEPT !.tenant = t, !.sub = n, !.set = set]
  <1>3. j \in Job /\ j.sub = n /\ j.set = set
    BY DEF NoJob, Job
  <1>4. Begin(p, "save", j)
    BY <1>1, <1>2
  <1> HIDE DEF j
  <1>5. JobOK("save", j)
    BY <1>2, <1>3 DEF JobOK
  <1>6. QED
    BY <1>3, <1>4, <1>5, BeginAdmin

LEMMA ChangesAdmin ==
    ASSUME AdminInv, NEW p \in Op, Renew(p) \/ SetStatus(p) \/ Revoke(p)
    PROVE  AdminInv'
  <1>1. CASE Renew(p)
    <2>1. PICK d \in EndDay : Change(p, [plan |-> Same, status |-> "active", ends |-> d])
      BY <1>1 DEF Renew
    <2>2. [plan |-> Same, status |-> "active", ends |-> d] \in Fields
      BY SubscriptionAssumption DEF Fields, Status
    <2>3. QED
      BY <2>1, <2>2, ChangeAdmin
  <1>2. CASE SetStatus(p)
    <2>1. PICK st \in Set : Change(p, [plan |-> Same, status |-> st, ends |-> Same])
      BY <1>2 DEF SetStatus
    <2>2. [plan |-> Same, status |-> st, ends |-> Same] \in Fields
      BY SubscriptionAssumption DEF Fields, Status, NoEnd
    <2>3. QED
      BY <2>1, <2>2, ChangeAdmin
  <1>3. CASE Revoke(p)
    <2>1. [plan |-> Same, status |-> "revoked", ends |-> Same] \in Fields
      BY DEF Fields, Status, NoEnd
    <2>2. QED
      BY <1>3, <2>1, ChangeAdmin DEF Revoke
  <1>4. QED
    BY <1>1, <1>2, <1>3

LEMMA EntitlementAdmin ==
    ASSUME AdminInv, NEW p \in Op, SetEntitlement(p) \/ Override(p)
    PROVE  AdminInv'
  <1>1. PICK s \in DOMAIN subs, k \in Key, v \in Value, from \in {"plan", "override"} :
          Begin(p, "upsert", [NoJob EXCEPT !.sub = s, !.key = k,
                                           !.ent = [value |-> v, source |-> from]])
    BY NewestIsOne DEF SetEntitlement, Override, AdminInv
  <1>2. s \in Nat
    BY DEF AdminInv, TablesOK
  <1>3. PICK e \in Ent : e = [value |-> v, source |-> from]
    BY DEF Ent
  <1> DEFINE j == [NoJob EXCEPT !.sub = s, !.key = k, !.ent = e]
  <1>4. j \in Job /\ j.sub = s /\ j.key = k /\ j.ent = e
    BY <1>2 DEF NoJob, Job
  <1>5. Begin(p, "upsert", j)
    BY <1>1, <1>3
  <1> HIDE DEF j
  <1>6. JobOK("upsert", j)
    BY <1>4 DEF JobOK
  <1>7. QED
    BY <1>4, <1>5, <1>6, BeginAdmin

LEMMA ResetAdmin ==
    ASSUME AdminInv, NEW p \in Op, Reset(p)
    PROVE  AdminInv'
  <1>1. PICK t \in Tenant, k \in Key, s \in DOMAIN subs :
          Begin(p, "previous", [NoJob EXCEPT !.sub = s, !.key = k, !.plan = subs[s].plan])
    BY NewestIsOne DEF Reset, AdminInv
  <1> DEFINE q == subs[s].plan
  <1>2. s \in Nat /\ q \in Plan
    BY <1>1, RowTypes DEF AdminInv
  <1> DEFINE j == [NoJob EXCEPT !.sub = s, !.key = k, !.plan = q]
  <1>3. j \in Job /\ j.sub = s /\ j.key = k /\ j.plan = q
    BY <1>2 DEF NoJob, Job
  <1>4. Begin(p, "previous", j)
    BY <1>1
  <1> HIDE DEF j
  <1>5. JobOK("previous", j)
    BY <1>2, <1>3 DEF JobOK
  <1>6. QED
    BY <1>3, <1>4, <1>5, BeginAdmin

-----------------------------------------------------------------------------
(* What a handler that saves a subscription does: row s is appended, or written. *)
Saved(p, j, n, row, s) ==
    /\ pc[p] = "save" /\ j = job[p] /\ JobOK("save", j)
    /\ n.sub = s /\ n.set = j.set /\ n.todo = Granted(j.set)
    /\ job' = [job EXCEPT ![p] = n]
    /\ Goto(p, After(n))
    /\ UNCHANGED <<today, trail, died, outrun>>
    /\ row.status = j.set.status /\ row.changed = today
    /\ \/ /\ s = Len(subs) + 1
          /\ subs' = Append(subs, row)
          /\ ents' = [e \in (1 .. s) \X Key |-> IF e[1] = s THEN NoEnt ELSE ents[e]]
          /\ row.plan = j.set.plan
       \/ /\ s \in DOMAIN subs
          /\ subs' = [subs EXCEPT ![s] = row]
          /\ UNCHANGED ents
          /\ row.plan = IF j.set.plan = Same THEN subs[s].plan ELSE j.set.plan

LEMMA SaveEffect ==
    ASSUME AdminInv, NEW p \in Op, Save(p)
    PROVE  \E j \in Job, n \in Job, row \in Row, s \in Nat : Saved(p, j, n, row, s)
  <1>1. PICK j \in Job : j = job[p]
    BY DEF AdminInv, TablesOK
  <1>2. JobOK("save", j) /\ pc[p] = "save"
    BY <1>1 DEF Save, AdminInv, JobsOK, JobOK
  <1>3. PICK set \in Fields : set = j.set
    BY <1>2 DEF JobOK
  <1>4. set.plan \in Plan \cup {Same} /\ set.status \in Status /\ set.ends \in Int \cup {NoEnd}
    BY DEF Fields
  <1>5. Granted(set) \in SUBSET Key
    BY <1>4, FeatureTypes, AbsentValues DEF Granted
  <1>6. PICK s \in Nat : s = IF j.sub = 0 THEN Len(subs) + 1 ELSE j.sub
    BY <1>2, RowTypes DEF JobOK, AdminInv, TablesOK
  <1>7. PICK todo \in SUBSET Key : todo = Granted(set)
    BY <1>5
  <1> DEFINE n == [j EXCEPT !.sub = s, !.todo = todo]
  <1>8. n \in Job /\ n.sub = s /\ n.set = set /\ n.todo = todo
    BY <1>3 DEF Job
  <1>9. /\ job' = [job EXCEPT ![p] = n]
        /\ Goto(p, After(n))
        /\ UNCHANGED <<today, trail, died, outrun>>
    BY <1>1, <1>3, <1>6, <1>7 DEF Save
  <1> HIDE DEF n
  <1>10. today \in Nat
    BY SubscriptionAssumption DEF AdminInv, TablesOK
  <1>11. CASE j.sub = 0
    <2>1. set.plan \in Plan /\ j.tenant \in Tenant
      BY <1>2, <1>3, <1>11 DEF JobOK
    <2>2. PICK row \in Row : row = [tenant |-> j.tenant, plan |-> set.plan,
                                    status |-> set.status, ends |-> set.ends,
                                    changed |-> today]
      BY <1>4, <1>10, <2>1 DEF Row
    <2>3. row.plan = set.plan /\ row.status = set.status /\ row.changed = today
      BY <2>2
    <2>4. /\ subs' = Append(subs, row)
          /\ ents' = [e \in (1 .. s) \X Key |-> IF e[1] = s THEN NoEnt ELSE ents[e]]
          /\ s = Len(subs) + 1
      BY <1>1, <1>3, <1>6, <1>11, <2>2 DEF Save
    <2>5. Saved(p, j, n, row, s)
      BY <1>1, <1>2, <1>3, <1>7, <1>8, <1>9, <2>3, <2>4 DEF Saved
    <2>6. QED
      BY <1>8, <2>5
  <1>12. CASE j.sub # 0
    <2>1. s \in DOMAIN subs
      BY <1>2, <1>6, <1>12 DEF JobOK
    <2>2. PICK old \in Row : old = subs[s]
      BY <2>1, RowTypes DEF AdminInv
    <2>4. Ending(set) \in Int \cup {NoEnd}
      BY <1>4, <1>10 DEF Ending
    <2>5. PICK row \in Row : row = Written(old, set)
      BY <1>4, <1>10, <2>4 DEF Written, Row, NoEnd
    <2>6. /\ row.status = set.status /\ row.changed = today
          /\ row.plan = IF set.plan = Same THEN old.plan ELSE set.plan
      BY <2>5 DEF Written, Row
    <2>7. subs' = [subs EXCEPT ![s] = row] /\ UNCHANGED ents
      BY <1>1, <1>3, <1>6, <1>12, <2>2, <2>5 DEF Save
    <2>8. Saved(p, j, n, row, s)
      BY <1>1, <1>2, <1>3, <1>7, <1>8, <1>9, <2>1, <2>2, <2>6, <2>7 DEF Saved
    <2>9. QED
      BY <1>8, <2>8
  <1>13. QED
    BY <1>11, <1>12

LEMMA SaveAdmin ==
    ASSUME AdminInv, NEW p \in Op, Save(p)
    PROVE  AdminInv'
  <1>1. PICK j \in Job, n \in Job, row \in Row, s \in Nat : Saved(p, j, n, row, s)
    BY SaveEffect
  <1>2. /\ pc[p] = "save" /\ j = job[p] /\ j.set \in Fields
        /\ n.sub = s /\ n.set = j.set /\ n.todo = Granted(j.set)
        /\ job' = [job EXCEPT ![p] = n]
        /\ Goto(p, After(n))
        /\ UNCHANGED <<today, trail, died, outrun>>
        /\ row.status = j.set.status /\ row.changed = today
    BY <1>1 DEF Saved, JobOK
  <1>3. Len(subs) \in Nat /\ DOMAIN subs = 1 .. Len(subs)
    BY DEF AdminInv, TablesOK
  <1>4. /\ subs' \in Seq(Row)
        /\ subs'[s] = row
        /\ DOMAIN subs' = DOMAIN subs \cup {s}
        /\ \A x \in DOMAIN subs : x # s => subs'[x] = subs[x]
    <2>1. CASE s = Len(subs) + 1 /\ subs' = Append(subs, row)
      BY <2>1, <1>3 DEF AdminInv, TablesOK
    <2>2. CASE s \in DOMAIN subs /\ subs' = [subs EXCEPT ![s] = row]
      BY <2>2, <1>3 DEF AdminInv, TablesOK
    <2>3. QED
      BY <1>1, <2>1, <2>2 DEF Saved
  <1>5. /\ ents' \in [(DOMAIN subs') \X Key -> Ent \cup {NoEnt}]
        /\ \A x \in DOMAIN subs, k \in Key : ents'[<<x, k>>] = ents[<<x, k>>]
    <2>1. CASE /\ s = Len(subs) + 1
               /\ ents' = [e \in (1 .. s) \X Key |-> IF e[1] = s THEN NoEnt ELSE ents[e]]
      <3>1. DOMAIN subs' = 1 .. s
        BY <1>3, <1>4, <2>1
      <3>2. ASSUME NEW e \in (1 .. s) \X Key, e[1] # s
            PROVE  e \in (DOMAIN subs) \X Key
        BY <1>3, <2>1, <3>2
      <3>3. \A e \in (DOMAIN subs) \X Key : ents[e] \in Ent \cup {NoEnt}
        BY DEF AdminInv, TablesOK
      <3>4. ents' \in [(DOMAIN subs') \X Key -> Ent \cup {NoEnt}]
        BY <2>1, <3>1, <3>2, <3>3
      <3>5. \A x \in DOMAIN subs, k \in Key : <<x, k>> \in (1 .. s) \X Key /\ x # s
        BY <1>3, <2>1
      <3>6. \A x \in DOMAIN subs, k \in Key : ents'[<<x, k>>] = ents[<<x, k>>]
        BY <2>1, <3>5
      <3>7. QED
        BY <3>4, <3>6
    <2>2. CASE s \in DOMAIN subs /\ UNCHANGED ents
      BY <1>4, <2>2 DEF AdminInv, TablesOK
    <2>3. QED
      BY <1>1, <2>1, <2>2 DEF Saved
  <1>6. \/ row.plan = j.set.plan
        \/ j.set.plan = Same /\ s \in DOMAIN subs /\ row.plan = subs[s].plan
    BY <1>1 DEF Saved
  <1>7. row.plan \in Plan
    BY DEF Row
  <1>8. j.set.plan = Same \/ (j.set.plan = row.plan /\ n.todo = DOMAIN Features[row.plan])
    BY <1>2, <1>6, <1>7, AbsentValues DEF Granted
  <1>9. After(n) \in {"grant", "record"} /\ (After(n) = "grant" <=> n.todo # {})
    BY DEF After
  <1>10. n.todo # {} => j.set.plan = row.plan
    BY <1>2, <1>8 DEF Granted
  <1>11. JobOK(After(n), n)'
    <2>1. n.sub \in DOMAIN subs' /\ n.set \in Fields
      BY <1>2, <1>4
    <2>2. CASE n.todo = {}
      BY <2>1, <2>2 DEF JobOK, After
    <2>3. CASE n.todo # {}
      <3>1. n.set.plan \in Plan /\ n.todo = DOMAIN Features[n.set.plan]
        BY <1>2, <1>7, <1>8, <1>10, <2>3, AbsentValues
      <3>2. QED
        BY <2>1, <2>3, <3>1 DEF JobOK, After
    <2>4. QED
      BY <2>2, <2>3
  <1>12. After(n) \in Places /\ DOMAIN subs \subseteq DOMAIN subs'
    BY <1>4, <1>9 DEF Places
  <1>13. /\ JobsOK'
         /\ pc' \in [Op -> Places] /\ job' \in [Op -> Job]
         /\ pc'[p] = After(n) /\ job'[p] = n
         /\ \A q \in Op : q # p => pc'[q] = pc[q] /\ job'[q] = job[q]
    BY <1>2, <1>11, <1>12, MoveJob DEF AdminInv
  <1>14. TablesOK'
    <2>1. \A x \in DOMAIN subs' : subs'[x].changed <= today
      BY <1>2, <1>4 DEF AdminInv, TablesOK, Row
    <2>2. QED
      BY <1>2, <1>4, <1>5, <1>13, <2>1 DEF AdminInv, TablesOK
  <1>15. StatusComes'
    <2> SUFFICES ASSUME NEW x \in DOMAIN subs', x \notin died, ~Old(subs'[x].changed)
                 PROVE  \/ Recorded(x)'
                        \/ \E q \in Op : /\ pc'[q] \in {"grant", "record"}
                                         /\ job'[q].sub = x
                                         /\ job'[q].set.status = subs'[x].status
      BY <1>2 DEF StatusComes, Old
    <2>1. CASE x = s
      BY <1>2, <1>4, <1>9, <1>13, <2>1
    <2>2. CASE x # s
      <3>1. \/ Recorded(x)
            \/ \E q \in Op : /\ pc[q] \in {"grant", "record"}
                             /\ job[q].sub = x
                             /\ job[q].set.status = subs[x].status
        BY <1>4, <2>2 DEF AdminInv, StatusComes
      <3>2. Recorded(x) => Recorded(x)'
        BY <1>2, <1>4, <2>2 DEF Recorded
      <3>3. QED
        BY <1>2, <1>4, <1>13, <2>2, <3>1, <3>2
    <2>3. QED
      BY <2>1, <2>2
  <1>16. FeaturesCome'
    <2> SUFFICES ASSUME NEW x \in DOMAIN subs', x \notin died,
                        NEW k \in DOMAIN Features[subs'[x].plan], <<x, k>> \notin outrun
                 PROVE  \/ ents'[<<x, k>>] # NoEnt
                        \/ \E q \in Op : pc'[q] = "grant" /\ job'[q].sub = x /\ k \in job'[q].todo
      BY <1>2 DEF FeaturesCome, Planned
    <2>1. CASE x = s /\ n.todo = DOMAIN Features[row.plan]
      BY <1>2, <1>4, <1>9, <1>13, <2>1
    <2>2. CASE x \in DOMAIN subs /\ subs'[x].plan = subs[x].plan
      <3>1. subs[x].plan \in Plan
        BY <2>2, RowTypes DEF AdminInv
      <3>2. k \in Key /\ k \in DOMAIN Planned(x)
        BY <2>2, <3>1, FeatureTypes DEF Planned
      <3>3. \/ ents[<<x, k>>] # NoEnt
            \/ \E q \in Op : pc[q] = "grant" /\ job[q].sub = x /\ k \in job[q].todo
        BY <2>2, <3>2 DEF AdminInv, FeaturesCome
      <3>4. QED
        BY <1>2, <1>5, <1>13, <2>2, <3>2, <3>3
    <2>3. QED
      BY <1>4, <1>6, <1>7, <1>8, <2>1, <2>2, AbsentValues
  <1>17. QED
    BY <1>13, <1>14, <1>15, <1>16 DEF AdminInv

-----------------------------------------------------------------------------
(* One entitlement is written. *)
LEMMA WriteEnt ==
    ASSUME TablesOK, NEW s \in DOMAIN subs, NEW k \in Key, NEW e \in Ent \cup {NoEnt},
           ents' = [ents EXCEPT ![<<s, k>>] = e]
    PROVE  /\ ents' \in [(DOMAIN subs) \X Key -> Ent \cup {NoEnt}]
           /\ ents'[<<s, k>>] = e
           /\ \A x \in DOMAIN subs, l \in Key :
                x # s \/ l # k => ents'[<<x, l>>] = ents[<<x, l>>]
  <1>1. ents \in [(DOMAIN subs) \X Key -> Ent \cup {NoEnt}]
    BY DEF TablesOK
  <1>2. <<s, k>> \in (DOMAIN subs) \X Key
    OBVIOUS
  <1>3. \A x \in DOMAIN subs, l \in Key :
          <<x, l>> \in (DOMAIN subs) \X Key /\ (x # s \/ l # k => <<x, l>> # <<s, k>>)
    OBVIOUS
  <1>4. QED
    BY <1>1, <1>2, <1>3

LEMMA UpsertEffect ==
    ASSUME TablesOK, NEW s \in DOMAIN subs, NEW k \in Key, NEW v \in Value, Upsert(s, k, v)
    PROVE  \E e \in Ent : ents' = [ents EXCEPT ![<<s, k>>] = e]
  <1>1. PICK was \in Ent \cup {NoEnt} : was = ents[<<s, k>>]
    BY DEF TablesOK
  <1> DEFINE e == [value |-> v, source |-> IF was = NoEnt THEN "plan" ELSE was.source]
  <1>2. e \in Ent
    BY DEF Ent
  <1>3. ents' = [ents EXCEPT ![<<s, k>>] = e]
    BY <1>1 DEF Upsert
  <1> HIDE DEF e
  <1>4. QED
    BY <1>2, <1>3

LEMMA GrantAdmin ==
    ASSUME AdminInv, NEW p \in Op, Grant(p)
    PROVE  AdminInv'
  <1>1. PICK j \in Job : j = job[p]
    BY DEF AdminInv, TablesOK
  <1>2. pc[p] = "grant" /\ JobOK("grant", j)
    BY <1>1 DEF Grant, AdminInv, JobsOK, JobOK
  <1>3. /\ j.sub \in DOMAIN subs /\ j.set \in Fields
        /\ j.set.plan \in Plan /\ j.todo \subseteq DOMAIN Features[j.set.plan]
        /\ j.todo \in SUBSET Key
    BY <1>2 DEF JobOK, Job
  <1>4. PICK k \in j.todo :
          /\ Upsert(j.sub, k, Features[j.set.plan][k])
          /\ job' = [job EXCEPT ![p] = [j EXCEPT !.todo = j.todo \ {k}]]
          /\ Goto(p, After([j EXCEPT !.todo = j.todo \ {k}]))
    BY <1>1 DEF Grant
  <1>5. UNCHANGED <<today, subs, trail, died, outrun>>
    BY DEF Grant
  <1>6. PICK todo \in SUBSET Key : todo = j.todo \ {k}
    BY <1>3
  <1> DEFINE n == [j EXCEPT !.todo = todo]
  <1>7. n \in Job /\ n.sub = j.sub /\ n.set = j.set /\ n.todo = todo
    BY DEF Job
  <1>8. job' = [job EXCEPT ![p] = n] /\ Goto(p, After(n))
    BY <1>4, <1>6
  <1> HIDE DEF n
  <1>9. k \in Key /\ Features[j.set.plan][k] \in Value
    BY <1>3, FeatureTypes
  <1>10. PICK e \in Ent : ents' = [ents EXCEPT ![<<j.sub, k>>] = e]
    BY <1>3, <1>4, <1>9, UpsertEffect DEF AdminInv
  <1>11. /\ ents' \in [(DOMAIN subs) \X Key -> Ent \cup {NoEnt}]
         /\ ents'[<<j.sub, k>>] # NoEnt
         /\ \A x \in DOMAIN subs, l \in Key :
              x # j.sub \/ l # k => ents'[<<x, l>>] = ents[<<x, l>>]
    BY <1>3, <1>9, <1>10, WriteEnt, AbsentValues DEF AdminInv
  <1>12. /\ After(n) \in {"grant", "record"} /\ After(n) \in Places
         /\ After(n) = "grant" <=> n.todo # {}
    BY DEF After, Places
  <1>13. JobOK(After(n), n)'
    <2>1. \A where \in {"grant", "record"} : JobOK(where, n)'
      BY <1>3, <1>5, <1>6, <1>7 DEF JobOK
    <2>2. QED
      BY <1>12, <2>1 DEF After
  <1>14. /\ JobsOK'
         /\ pc' \in [Op -> Places] /\ job' \in [Op -> Job]
         /\ pc'[p] = After(n) /\ job'[p] = n
         /\ \A q \in Op : q # p => pc'[q] = pc[q] /\ job'[q] = job[q]
    BY <1>5, <1>7, <1>8, <1>12, <1>13, MoveJob DEF AdminInv
  <1>15. TablesOK'
    BY <1>5, <1>11, <1>14 DEF AdminInv, TablesOK
  <1>16. StatusComes'
    BY <1>1, <1>5, <1>7, <1>12, <1>14, StatusKept
  <1>17. FeaturesCome'
    <2> SUFFICES ASSUME NEW x \in DOMAIN subs, x \notin died,
                        NEW l \in DOMAIN Features[subs[x].plan], <<x, l>> \notin outrun
                 PROVE  \/ ents'[<<x, l>>] # NoEnt
                        \/ \E q \in Op : pc'[q] = "grant" /\ job'[q].sub = x /\ l \in job'[q].todo
      BY <1>5 DEF FeaturesCome, Planned
    <2>1. subs[x].plan \in Plan
      BY RowTypes DEF AdminInv
    <2>2. l \in Key /\ l \in DOMAIN Planned(x)
      BY <2>1, FeatureTypes DEF Planned
    <2>3. CASE x = j.sub /\ l = k
      BY <1>11, <2>3
    <2>4. CASE (x # j.sub \/ l # k) /\ ents[<<x, l>>] # NoEnt
      BY <1>11, <2>2, <2>4
    <2>5. ASSUME x # j.sub \/ l # k,
                 NEW q \in Op, pc[q] = "grant", job[q].sub = x, l \in job[q].todo
          PROVE  \E r \in Op : pc'[r] = "grant" /\ job'[r].sub = x /\ l \in job'[r].todo
      <3>1. CASE q # p
        BY <1>14, <2>5, <3>1
      <3>2. CASE q = p
        <4>1. x = j.sub /\ l \in todo
          BY <1>1, <1>6, <2>5, <3>2
        <4>2. QED
          BY <1>7, <1>12, <1>14, <4>1
      <3>3. QED
        BY <3>1, <3>2
    <2>6. QED
      BY <2>2, <2>3, <2>4, <2>5 DEF AdminInv, FeaturesCome
  <1>18. QED
    BY <1>14, <1>15, <1>16, <1>17 DEF AdminInv

(* A handler ends, having written no row and taken no entitlement. *)
LEMMA EndAdmin ==
    ASSUME AdminInv, NEW p \in Op, Finish(p), UNCHANGED <<today, subs>>,
           ents' \in [(DOMAIN subs) \X Key -> Ent \cup {NoEnt}],
           trail \subseteq trail', trail' \subseteq (DOMAIN subs) \X Status \X Nat,
           died \subseteq died', died' \subseteq DOMAIN subs,
           outrun \subseteq outrun', outrun' \subseteq (DOMAIN subs) \X Key,
           \A s \in DOMAIN subs, k \in Key :
               \/ ents[<<s, k>>] # NoEnt => ents'[<<s, k>>] # NoEnt
               \/ <<s, k>> \in outrun'
               \/ k \notin DOMAIN Planned(s),
           pc[p] = "grant" => job[p].sub \in died',
           pc[p] = "record" =>
               job[p].sub \in died' \/ <<job[p].sub, job[p].set.status, today>> \in trail'
    PROVE  AdminInv'
  <1>1. /\ JobsOK'
        /\ pc' \in [Op -> Places] /\ job' \in [Op -> Job]
        /\ \A q \in Op : q # p => pc'[q] = pc[q] /\ job'[q] = job[q]
    BY EndJobs DEF AdminInv
  <1>2. TablesOK'
    BY <1>1 DEF AdminInv, TablesOK
  <1>3. StatusComes'
    BY <1>1, StatusKept
  <1>4. FeaturesCome'
    BY <1>1, FeaturesKept
  <1>5. QED
    BY <1>1, <1>2, <1>3, <1>4 DEF AdminInv

LEMMA RecordAdmin ==
    ASSUME AdminInv, NEW p \in Op, Record(p)
    PROVE  AdminInv'
  <1>1. job[p].sub \in DOMAIN subs /\ job[p].set.status \in Status /\ pc[p] = "record"
    BY DEF Record, AdminInv, JobsOK, JobOK, Fields
  <1>2. /\ trail' = trail \cup {<<job[p].sub, job[p].set.status, today>>}
        /\ Finish(p)
        /\ UNCHANGED <<today, subs, ents, died, outrun>>
    BY DEF Record
  <1>3. trail' \subseteq (DOMAIN subs) \X Status \X Nat
    BY <1>1, <1>2, SubscriptionAssumption DEF AdminInv, TablesOK
  <1>4. QED
    BY <1>1, <1>2, <1>3, EndAdmin DEF AdminInv, TablesOK

LEMMA DieAdmin ==
    ASSUME AdminInv, NEW p \in Op, Die(p)
    PROVE  AdminInv'
  <1>1. job[p].sub \in DOMAIN subs
    BY DEF Die, AdminInv, JobsOK, JobOK
  <1>2. /\ died' = died \cup {job[p].sub}
        /\ Finish(p)
        /\ UNCHANGED <<today, subs, ents, trail, outrun>>
    BY DEF Die
  <1>3. QED
    BY <1>1, <1>2, EndAdmin DEF AdminInv, TablesOK

LEMMA WriteEntitlementAdmin ==
    ASSUME AdminInv, NEW p \in Op, WriteEntitlement(p)
    PROVE  AdminInv'
  <1>1. /\ pc[p] = "upsert"
        /\ job[p].sub \in DOMAIN subs /\ job[p].key \in Key /\ job[p].ent \in Ent
    BY DEF WriteEntitlement, AdminInv, JobsOK, JobOK
  <1>2. PICK s \in DOMAIN subs, k \in Key, e \in Ent :
          s = job[p].sub /\ k = job[p].key /\ e = job[p].ent
    BY <1>1
  <1>3. /\ (ents' = [ents EXCEPT ![<<s, k>>] = e]) \/ Upsert(s, k, e.value)
        /\ Finish(p)
        /\ UNCHANGED <<today, subs, trail, died, outrun>>
    BY <1>2 DEF WriteEntitlement
  <1>4. e.value \in Value
    BY DEF Ent
  <1>5. PICK f \in Ent : ents' = [ents EXCEPT ![<<s, k>>] = f]
    BY <1>3, <1>4, UpsertEffect DEF AdminInv
  <1>6. /\ ents' \in [(DOMAIN subs) \X Key -> Ent \cup {NoEnt}]
        /\ \A x \in DOMAIN subs, l \in Key :
             ents[<<x, l>>] # NoEnt => ents'[<<x, l>>] # NoEnt
    BY <1>5, WriteEnt, AbsentValues DEF AdminInv
  <1>7. QED
    BY <1>1, <1>3, <1>6, EndAdmin DEF AdminInv, TablesOK

LEMMA WriteDefaultAdmin ==
    ASSUME AdminInv, NEW p \in Op, WriteDefault(p)
    PROVE  AdminInv'
  <1>1. /\ pc[p] = "reset"
        /\ job[p].sub \in DOMAIN subs /\ job[p].key \in Key /\ job[p].plan \in Plan
    BY DEF WriteDefault, AdminInv, JobsOK, JobOK
  <1>2. PICK s \in DOMAIN subs, k \in Key, q \in Plan :
          s = job[p].sub /\ k = job[p].key /\ q = job[p].plan
    BY <1>1
  <1> DEFINE e == IF k \notin DOMAIN Features[q] \/ ents[<<s, k>>] = NoEnt THEN NoEnt
                  ELSE [value |-> Features[q][k], source |-> "plan"]
  <1>3. /\ ents' = [ents EXCEPT ![<<s, k>>] = e]
        /\ outrun' = IF subs[s].plan = q \/ k \in DOMAIN Features[q]
                     THEN outrun ELSE outrun \cup {<<s, k>>}
        /\ Finish(p)
        /\ UNCHANGED <<today, subs, trail, died>>
    BY <1>2 DEF WriteDefault
  <1>4. e \in Ent \cup {NoEnt}
    BY FeatureTypes DEF Ent
  <1>5. PICK f \in Ent \cup {NoEnt} : f = e
    BY <1>4
  <1>6. /\ ents' \in [(DOMAIN subs) \X Key -> Ent \cup {NoEnt}]
        /\ ents'[<<s, k>>] = f
        /\ \A x \in DOMAIN subs, l \in Key :
             x # s \/ l # k => ents'[<<x, l>>] = ents[<<x, l>>]
    BY <1>3, <1>5, WriteEnt DEF AdminInv
  <1>7. f # NoEnt \/ k \notin DOMAIN Features[q] \/ ents[<<s, k>>] = NoEnt
    BY <1>4, <1>5, FeatureTypes, AbsentValues DEF Ent
  <1>8. <<s, k>> \in outrun' \/ k \in DOMAIN Features[q] \/ Planned(s) = Features[q]
    BY <1>3 DEF Planned
  <1> HIDE DEF e
  <1>9. \A x \in DOMAIN subs, l \in Key :
          \/ ents[<<x, l>>] # NoEnt => ents'[<<x, l>>] # NoEnt
          \/ <<x, l>> \in outrun'
          \/ l \notin DOMAIN Planned(x)
    <2> SUFFICES ASSUME NEW x \in DOMAIN subs, NEW l \in Key, ents[<<x, l>>] # NoEnt,
                        <<x, l>> \notin outrun', l \in DOMAIN Planned(x)
                 PROVE  ents'[<<x, l>>] # NoEnt
      OBVIOUS
    <2>1. CASE x = s /\ l = k
      BY <1>6, <1>7, <1>8, <2>1
    <2>2. CASE x # s \/ l # k
      BY <1>6, <2>2
    <2>3. QED
      BY <2>1, <2>2
  <1>10. outrun \subseteq outrun' /\ outrun' \subseteq (DOMAIN subs) \X Key
    BY <1>3 DEF AdminInv, TablesOK
  <1>11. QED
    BY <1>1, <1>3, <1>6, <1>9, <1>10, EndAdmin DEF AdminInv, TablesOK

LEMMA ReadPreviousAdmin ==
    ASSUME AdminInv, NEW p \in Op, ReadPrevious(p)
    PROVE  AdminInv'
  <1>1. /\ pc[p] = "previous"
        /\ UNCHANGED <<today, subs, ents, trail, died, outrun>>
        /\ Finish(p) \/ (Goto(p, "reset") /\ UNCHANGED job)
    BY DEF ReadPrevious, licence
  <1>2. CASE Finish(p)
    BY <1>1, <1>2, EndAdmin DEF AdminInv, TablesOK
  <1>3. CASE Goto(p, "reset") /\ UNCHANGED job
    <2>1. PICK j \in Job : j = job[p]
      BY DEF AdminInv, TablesOK
    <2>2. JobOK("previous", j)
      BY <1>1, <2>1 DEF AdminInv, JobsOK, JobOK
    <2>3. JobOK("reset", j)'
      BY <1>1, <2>2 DEF JobOK
    <2>4. job' = [job EXCEPT ![p] = j] /\ "reset" \in Places
      BY <1>3, <2>1 DEF AdminInv, TablesOK, Places
    <2>5. /\ JobsOK'
          /\ pc' \in [Op -> Places] /\ job' \in [Op -> Job]
          /\ \A q \in Op : q # p => pc'[q] = pc[q] /\ job'[q] = job[q]
      BY <1>1, <1>3, <2>3, <2>4, MoveJob DEF AdminInv
    <2>6. TablesOK'
      BY <1>1, <2>5 DEF AdminInv, TablesOK
    <2>7. StatusComes' /\ FeaturesCome'
      BY <1>1, <2>5, StatusKept, FeaturesKept
    <2>8. QED
      BY <2>5, <2>6, <2>7 DEF AdminInv
  <1>4. QED
    BY <1>1, <1>2, <1>3

(* Entitlements depend on nothing but the rows, the handlers and the ghosts. *)
LEMMA FeaturesStay ==
    ASSUME FeaturesCome, UNCHANGED <<subs, ents, died, outrun, pc, job>>
    PROVE  FeaturesCome'
  <1>1. /\ subs' = subs /\ ents' = ents /\ pc' = pc /\ job' = job
        /\ died' = died /\ outrun' = outrun
    OBVIOUS
  <1> SUFFICES ASSUME NEW s \in DOMAIN subs', s \notin died',
                      NEW k \in DOMAIN Features[subs'[s].plan], <<s, k>> \notin outrun'
               PROVE  \/ ents'[<<s, k>>] # NoEnt
                      \/ \E q \in Op : pc'[q] = "grant" /\ job'[q].sub = s /\ k \in job'[q].todo
    BY DEF FeaturesCome, Planned
  <1>2. s \in DOMAIN subs \ died /\ k \in DOMAIN Planned(s) /\ <<s, k>> \notin outrun
    BY <1>1 DEF Planned
  <1>3. QED
    BY <1>1, <1>2 DEF FeaturesCome

(* What is old stays old. *)
LEMMA NextDayAdmin ==
    ASSUME AdminInv, NextDay \/ UNCHANGED subscriptionVars
    PROVE  AdminInv'
  <1>1. /\ UNCHANGED <<subs, ents, trail, died, outrun, pc, job>>
        /\ today' \in 0 .. LastDay /\ today \in Nat /\ today <= today'
    BY SubscriptionAssumption
       DEF NextDay, subscriptionVars, licence, admins, AdminInv, TablesOK
  <1>2. \A s \in DOMAIN subs : subs[s].changed \in Nat
    BY RowTypes DEF AdminInv
  <1>3. TablesOK'
    BY <1>1, <1>2 DEF AdminInv, TablesOK
  <1>4. JobsOK'
    BY <1>1 DEF AdminInv, JobsOK, JobOK
  <1>5. StatusComes'
    <2>1. \A s \in DOMAIN subs : Old(subs[s].changed) => Old(subs[s].changed)'
      BY <1>1, <1>2, LicenseAssumption DEF Old
    <2>2. \A s \in DOMAIN subs : Recorded(s)' <=> Recorded(s)
      BY <1>1 DEF Recorded
    <2>3. QED
      BY <1>1, <2>1, <2>2 DEF AdminInv, StatusComes
  <1>6. FeaturesCome'
    BY <1>1, FeaturesStay DEF AdminInv
  <1>7. QED
    BY <1>3, <1>4, <1>5, <1>6 DEF AdminInv

(* The purge takes old events alone, and none that a status within the *)
(* retention is recorded by.                                           *)
LEMMA PurgeAdmin ==
    ASSUME AdminInv, Purge
    PROVE  AdminInv'
  <1>1. PICK t \in worker.todo :
          trail' = { e \in trail : e[1] \in Of(t) => ~Old(e[3]) }
    BY DEF Purge
  <1>2. UNCHANGED <<today, subs, ents, died, outrun, pc, job>>
    BY DEF Purge, admins
  <1>3. TablesOK'
    BY <1>1, <1>2 DEF AdminInv, TablesOK
  <1>4. JobsOK'
    BY <1>2 DEF AdminInv, JobsOK, JobOK
  <1>5. StatusComes'
    <2>1. ASSUME NEW s \in DOMAIN subs, Recorded(s), ~Old(subs[s].changed)
          PROVE  Recorded(s)'
      <3>1. PICK e \in trail : e[1] = s /\ e[2] = subs[s].status /\ e[3] >= subs[s].changed
        BY <2>1 DEF Recorded
      <3>2. e[3] \in Nat /\ subs[s].changed \in Nat /\ today \in Nat
        BY RowTypes, SubscriptionAssumption DEF AdminInv, TablesOK
      <3>3. ~Old(e[3])
        BY <2>1, <3>1, <3>2, LicenseAssumption DEF Old
      <3>4. e \in trail'
        BY <1>1, <3>3
      <3>5. QED
        BY <1>2, <3>1, <3>4 DEF Recorded
    <2>2. \A s \in DOMAIN subs : Old(subs[s].changed)' <=> Old(subs[s].changed)
      BY <1>2 DEF Old
    <2>3. QED
      BY <1>2, <2>1, <2>2 DEF AdminInv, StatusComes
  <1>6. FeaturesCome'
    BY <1>2, FeaturesStay DEF AdminInv
  <1>7. QED
    BY <1>3, <1>4, <1>5, <1>6 DEF AdminInv

LEMMA NextAdmin ==
    ASSUME AdminInv, SubscriptionNext \/ UNCHANGED subscriptionVars
    PROVE  AdminInv'
  <1>1. ASSUME NEW p \in Op, AdminStep(p)
        PROVE  AdminInv'
    BY <1>1, AssignAdmin, ChangesAdmin, EntitlementAdmin, ResetAdmin, SaveAdmin, GrantAdmin,
       RecordAdmin, WriteEntitlementAdmin, ReadPreviousAdmin, WriteDefaultAdmin, DieAdmin
       DEF AdminStep
  <1>2. QED
    BY <1>1, NextDayAdmin DEF SubscriptionNext

LEMMA InitAdmin ==
    ASSUME Init
    PROVE  AdminInv
  <1>1. /\ subs \in Seq(Row) /\ Len(subs) \in {0, 1}
        /\ \A s \in DOMAIN subs : subs[s].status = "active" /\ subs[s].changed = 0
    <2>1. CASE subs = <<>>
      BY <2>1
    <2>2. CASE \E t \in Tenant, q \in Plan, d \in EndDay :
                 subs = <<[tenant |-> t, plan |-> q, status |-> "active", ends |-> d, changed |-> 0]>>
      <3>1. PICK t \in Tenant, q \in Plan, d \in EndDay :
              subs = <<[tenant |-> t, plan |-> q, status |-> "active", ends |-> d, changed |-> 0]>>
        BY <2>2
      <3>2. PICK row \in Row : row = [tenant |-> t, plan |-> q, status |-> "active",
                                  ends |-> d, changed |-> 0]
        BY SubscriptionAssumption DEF Row, Status
      <3>3. subs = <<row>> /\ row.status = "active" /\ row.changed = 0
        BY <3>1, <3>2
      <3>4. QED
        BY <3>3
    <2>3. QED
      BY <2>1, <2>2 DEF Init
  <1>2. ents \in [(DOMAIN subs) \X Key -> Ent]
    BY DEF Init, Ent
  <1>3. /\ trail \subseteq (DOMAIN subs) \X Status \X Nat
        /\ \A s \in DOMAIN subs : Recorded(s)
    <2>1. trail = { <<s, "active", 0>> : s \in DOMAIN subs }
      BY DEF Init
    <2>2. \A s \in DOMAIN subs : <<s, "active", 0>> \in trail
      BY <2>1
    <2>3. ASSUME NEW s \in DOMAIN subs PROVE Recorded(s)
      <3>1. PICK e \in trail : e = <<s, "active", 0>>
        BY <2>2
      <3>2. QED
        BY <1>1, <3>1 DEF Recorded
    <2>4. QED
      BY <2>1, <2>3 DEF Status
  <1>4. TablesOK
    BY <1>1, <1>2, <1>3, SubscriptionAssumption, AbsentValues DEF Init, TablesOK, Places
  <1>5. JobsOK
    BY AbsentValues DEF Init, JobsOK, JobOK
  <1>6. StatusComes
    BY <1>3 DEF StatusComes
  <1>7. FeaturesCome
    <2> SUFFICES ASSUME NEW s \in DOMAIN subs, NEW k \in DOMAIN Features[subs[s].plan]
                 PROVE  ents[<<s, k>>] # NoEnt
      BY DEF FeaturesCome, Planned
    <2>1. k \in Key
      BY <1>4, RowTypes, FeatureTypes
    <2>2. QED
      BY <1>2, <2>1, AbsentValues
  <1>8. QED
    BY <1>4, <1>5, <1>6, <1>7 DEF AdminInv

-----------------------------------------------------------------------------
(* The worker. *)
LEMMA OffTypes == Off \in Worker /\ Off.at = "off" /\ Off.got = {}
  BY DEF Off, Worker, Notice

LEMMA PurgingTypes ==
    ASSUME NEW todo \in SUBSET Tenant
    PROVE  /\ [Off EXCEPT !.at = "purge", !.todo = todo] \in Worker
           /\ [Off EXCEPT !.at = "purge", !.todo = todo].at = "purge"
           /\ [Off EXCEPT !.at = "purge", !.todo = todo].got = {}
  <1>1. PICK off \in Worker : off = Off /\ off.got = {}
    BY OffTypes
  <1>2. [off EXCEPT !.at = "purge", !.todo = todo] \in Worker
    BY DEF Worker
  <1>3. /\ [off EXCEPT !.at = "purge", !.todo = todo].at = "purge"
        /\ [off EXCEPT !.at = "purge", !.todo = todo].got = off.got
    BY DEF Worker
  <1>4. QED
    BY <1>1, <1>2, <1>3

LEMMA Today == AdminInv => today \in Nat
  BY SubscriptionAssumption DEF AdminInv, TablesOK

LEMMA InitWorker ==
    ASSUME LicenseInit
    PROVE  WorkerInv
  <1>1. NoticesOK
    BY OffTypes, LicenseAssumption DEF LicenseInit, NoticesOK
  <1>2. MarkedIsMailed /\ ToldIsMarked
    BY DEF LicenseInit, MarkedIsMailed, ToldIsMarked
  <1>3. QED
    BY <1>1, <1>2 DEF WorkerInv

(* Days go by, and the administrators go on. *)
LEMMA WorkerWaits ==
    ASSUME LicenseInv, UNCHANGED <<marks, told, faults, lost, worker>>,
           today' \in Nat, today <= today'
    PROVE  WorkerInv'
  <1>1. today \in Nat
    BY Today DEF LicenseInv
  <1>2. \A m \in told : m.day \in Nat
    BY DEF LicenseInv, WorkerInv, NoticesOK, Mail
  <1>3. \A m \in told : Old(m.day) => Old(m.day)'
    BY <1>1, <1>2, LicenseAssumption DEF Old
  <1>4. NoticesOK'
    <2>1. \A m \in told' : m.day <= today'
      BY <1>1, <1>2 DEF LicenseInv, WorkerInv, NoticesOK
    <2>2. QED
      BY <2>1 DEF LicenseInv, WorkerInv, NoticesOK, Mine
  <1>5. MarkedIsMailed'
    BY DEF LicenseInv, WorkerInv, MarkedIsMailed
  <1>6. ToldIsMarked'
    BY <1>3 DEF LicenseInv, WorkerInv, ToldIsMarked, Mine
  <1>7. QED
    BY <1>4, <1>5, <1>6 DEF WorkerInv

(* The worker goes on without a mail or a marker. *)
LEMMA WorkerGoes ==
    ASSUME WorkerInv, UNCHANGED <<today, marks, told, lost>>, worker.at # "mark",
           faults' \in 0 .. MaxFaults, worker' \in Worker, worker'.at # "mark",
           worker'.at \in {"read", "mail"} => worker'.tenant \in Tenant,
           worker'.at = "mail" =>
               \A k \in marks : k.tenant # worker'.tenant \/ k.notice # worker'.notice
    PROVE  WorkerInv'
  <1>1. NoticesOK'
    BY DEF WorkerInv, NoticesOK, Mine
  <1>2. MarkedIsMailed'
    BY DEF WorkerInv, MarkedIsMailed
  <1>3. ToldIsMarked'
    BY DEF WorkerInv, ToldIsMarked, Old
  <1>4. QED
    BY <1>1, <1>2, <1>3 DEF WorkerInv

LEMMA StartWorker ==
    ASSUME WorkerInv, StartJob \/ EndJob \/ PurgeFails
    PROVE  WorkerInv'
  <1>1. /\ [Off EXCEPT !.at = "purge", !.todo = Tenant] \in Worker
        /\ [Off EXCEPT !.at = "purge", !.todo = Tenant].at = "purge"
    BY PurgingTypes
  <1>2. /\ worker' \in Worker /\ worker'.at \in {"off", "purge"} /\ worker.at \in {"off", "purge"}
        /\ UNCHANGED <<today, marks, told, lost>>
    BY <1>1, OffTypes DEF StartJob, EndJob, PurgeFails, At, notices, subscriptionVars
  <1>3. faults' \in 0 .. MaxFaults
    BY LicenseAssumption
       DEF StartJob, EndJob, PurgeFails, notices, Fault, WorkerInv, NoticesOK
  <1>4. QED
    BY <1>2, <1>3, WorkerGoes

(* A marker that is not old, and so one that stands for a mail that is not, is kept. *)
LEMMA PurgeWorker ==
    ASSUME WorkerInv, today \in Nat, Purge
    PROVE  WorkerInv'
  <1>1. PICK t \in worker.todo :
          /\ marks' = { m \in marks : m.tenant = t => ~Old(m.day) }
          /\ worker' = Visit(t)
    BY DEF Purge
  <1>2. worker.at = "purge" /\ UNCHANGED <<today, told, faults, lost>>
    BY DEF Purge, At
  <1>3. PICK w \in Worker : w = worker
    BY DEF WorkerInv, NoticesOK
  <1>4. w.todo \in SUBSET Tenant /\ t \in Tenant
    BY <1>1, <1>3 DEF Worker
  <1>5. PICK todo \in SUBSET Tenant : todo = w.todo \ {t}
    BY <1>4
  <1> DEFINE next == [w EXCEPT !.at = "read", !.todo = todo, !.tenant = t]
  <1>6. next \in Worker /\ next.at = "read" /\ next.tenant = t
    BY <1>4 DEF Worker
  <1>7. worker' = next
    BY <1>1, <1>3, <1>5 DEF Visit
  <1> HIDE DEF next
  <1>8. NoticesOK'
    BY <1>1, <1>2, <1>4, <1>6, <1>7 DEF WorkerInv, NoticesOK
  <1>9. MarkedIsMailed'
    BY <1>1, <1>2 DEF WorkerInv, MarkedIsMailed
  <1>10. ToldIsMarked'
    <2> SUFFICES ASSUME NEW m \in told, ~Old(m.day), <<m.tenant, m.notice>> \notin lost
                 PROVE  \E k \in marks' :
                          k.tenant = m.tenant /\ k.notice = m.notice /\ k.day >= m.day
      BY <1>2 DEF ToldIsMarked, Old
    <2>1. PICK k \in marks :
            k.tenant = m.tenant /\ k.notice = m.notice /\ k.day >= m.day
      BY <1>2 DEF WorkerInv, ToldIsMarked
    <2>2. k.day \in Nat /\ m.day \in Nat
      BY DEF WorkerInv, NoticesOK, Mark, Mail
    <2>3. ~Old(k.day)
      BY <2>1, <2>2, LicenseAssumption DEF Old
    <2>4. QED
      BY <1>1, <2>1, <2>3
  <1>11. QED
    BY <1>8, <1>9, <1>10 DEF WorkerInv

(* The worker skips the rest for this tenant. *)
LEMMA SkipEffect ==
    ASSUME WorkerInv, Skip
    PROVE  worker' \in Worker /\ worker'.at = "purge" /\ worker'.got = {}
  <1>1. PICK todo \in SUBSET Tenant : todo = worker.todo
    BY DEF WorkerInv, NoticesOK, Worker
  <1>2. worker' = [Off EXCEPT !.at = "purge", !.todo = todo]
    BY <1>1 DEF Skip
  <1>3. QED
    BY <1>2, PurgingTypes

(* A notice is due of a subscription that has an end. *)
LEMMA DueTypes ==
    ASSUME TablesOK, NEW t, NEW n \in Due(t)
    PROVE  n \in Notice /\ subs[Current(t)].ends \in Int
  <1>1. {0} \cup { s \in Of(t) : subs[s].status \in {"active", "trialing", "past_due"} }
          \in SUBSET (0 .. Len(subs)) /\ Len(subs) \in Nat
    BY DEF TablesOK, Of
  <1>2. Current(t) \in {0} \cup Of(t)
    BY <1>1, MaxIsIn DEF Current
  <1>3. Current(t) # 0 /\ subs[Current(t)].ends # NoEnd /\ n \in Notice
    BY DEF Due, Notice
  <1>4. subs[Current(t)] \in Row
    BY <1>2, <1>3, RowTypes DEF Of
  <1>5. QED
    BY <1>3, <1>4 DEF Row

LEMMA ReadWorker ==
    ASSUME LicenseInv, ReadSubscription
    PROVE  WorkerInv'
  <1> DEFINE marked == { m.notice : m \in { k \in marks : k.tenant = worker.tenant } }
  <1>1. /\ worker.at = "read" /\ UNCHANGED <<today, marks, told, lost, faults>>
        /\ \/ Skip
           \/ \E n \in Due(worker.tenant) \ marked :
                worker' = [worker EXCEPT !.at = "mail", !.notice = n,
                                         !.ends = subs[Current(worker.tenant)].ends]
    BY DEF ReadSubscription, Look, At, notices, subscriptionVars
  <1>2. worker.tenant \in Tenant /\ faults \in 0 .. MaxFaults /\ WorkerInv
    BY <1>1 DEF LicenseInv, WorkerInv, NoticesOK
  <1>3. CASE Skip
    BY <1>1, <1>2, <1>3, SkipEffect, WorkerGoes
  <1>4. ASSUME NEW n \in Due(worker.tenant), n \notin marked,
               worker' = [worker EXCEPT !.at = "mail", !.notice = n,
                                        !.ends = subs[Current(worker.tenant)].ends]
        PROVE  WorkerInv'
    <2>1. PICK d \in Int : d = subs[Current(worker.tenant)].ends
      BY DueTypes DEF LicenseInv, AdminInv
    <2>2. PICK w \in Worker : w = worker
      BY DEF LicenseInv, WorkerInv, NoticesOK
    <2>3. n \in Notice
      BY DueTypes DEF LicenseInv, AdminInv
    <2> DEFINE next == [w EXCEPT !.at = "mail", !.notice = n, !.ends = d]
    <2>4. /\ next \in Worker /\ next.at = "mail" /\ next.notice = n
          /\ next.tenant = w.tenant
      BY <2>3 DEF Worker
    <2>5. worker' = next
      BY <1>4, <2>1, <2>2
    <2> HIDE DEF next
    <2>6. \A k \in marks : k.tenant # worker'.tenant \/ k.notice # worker'.notice
      BY <1>4, <2>2, <2>4, <2>5
    <2>7. QED
      BY <1>1, <1>2, <2>2, <2>4, <2>5, <2>6, WorkerGoes
  <1>5. QED
    BY <1>1, <1>3, <1>4

(* Mails reach somebody: of this notice and of this term, today. *)
LEMMA DeliverEffect ==
    ASSUME WorkerInv, today \in Nat, NEW got \in SUBSET Person,
           worker.tenant \in Tenant, Deliver(got)
    PROVE  /\ told \subseteq told' /\ told' \subseteq Mail
           /\ \A m \in told' : m.day <= today
           /\ \A m \in told' \ told : Mine(m) /\ got # {}
           /\ \A u \in got : \E m \in told' : Mine(m) /\ m.ends = worker.ends
  <1>1. worker.notice \in Notice /\ worker.ends \in Int
    BY DEF WorkerInv, NoticesOK, Worker
  <1> DEFINE mail(u) == [tenant |-> worker.tenant, notice |-> worker.notice, day |-> today,
                         ends |-> worker.ends, to |-> u]
  <1>2. \A u \in got : /\ mail(u) \in Mail /\ mail(u).day = today
                       /\ Mine(mail(u)) /\ mail(u).ends = worker.ends
    BY <1>1 DEF Mail, Mine
  <1>3. told' = told \cup { mail(u) : u \in got }
    BY DEF Deliver
  <1> HIDE DEF mail
  <1>4. told \subseteq Mail /\ \A m \in told : m.day <= today
    BY DEF WorkerInv, NoticesOK
  <1>5. QED
    BY <1>2, <1>3, <1>4

LEMMA SendWorker ==
    ASSUME WorkerInv, today \in Nat, SendMails
    PROVE  WorkerInv'
  <1>1. PICK got \in SUBSET Recipients[worker.tenant] :
          /\ IF got = Recipients[worker.tenant] THEN UNCHANGED faults ELSE Fault
          /\ Deliver(got)
          /\ worker' = [worker EXCEPT !.at = "mark", !.got = got]
    BY DEF SendMails
  <1>2. worker.at = "mail" /\ UNCHANGED <<today, marks, lost>>
    BY DEF SendMails, At, subscriptionVars
  <1>3. worker.tenant \in Tenant /\ \A k \in marks : ~Mine(k)
    BY <1>2 DEF WorkerInv, NoticesOK
  <1>4. got \in SUBSET Person
    BY <1>1, <1>3 DEF Person
  <1>5. PICK w \in Worker : w = worker
    BY DEF WorkerInv, NoticesOK
  <1> DEFINE next == [w EXCEPT !.at = "mark", !.got = got]
  <1>6. /\ next \in Worker /\ next.at = "mark" /\ next.got = got
        /\ next.tenant = w.tenant /\ next.notice = w.notice /\ next.ends = w.ends
    BY <1>4 DEF Worker
  <1>7. worker' = next
    BY <1>1, <1>5
  <1> HIDE DEF next
  <1>8. \A m : Mine(m)' <=> m.tenant = worker.tenant /\ m.notice = worker.notice
    BY <1>5, <1>6, <1>7 DEF Mine
  <1>9. /\ told \subseteq told' /\ told' \subseteq Mail
        /\ \A m \in told' : m.day <= today
        /\ \A m \in told' \ told : Mine(m) /\ got # {}
        /\ \A u \in got : \E m \in told' : Mine(m) /\ m.ends = worker.ends
    BY <1>1, <1>3, <1>4, DeliverEffect
  <1>10. faults' \in 0 .. MaxFaults
    BY <1>1, LicenseAssumption DEF Fault, WorkerInv, NoticesOK
  <1>11. NoticesOK'
    BY <1>2, <1>3, <1>5, <1>6, <1>7, <1>9, <1>10 DEF WorkerInv, NoticesOK, Mine
  <1>12. MarkedIsMailed'
    BY <1>2, <1>9 DEF WorkerInv, MarkedIsMailed
  <1>13. ToldIsMarked'
    <2> SUFFICES ASSUME NEW m \in told', ~Old(m.day), <<m.tenant, m.notice>> \notin lost
                 PROVE  \/ \E k \in marks :
                             k.tenant = m.tenant /\ k.notice = m.notice /\ k.day >= m.day
                        \/ Mine(m) /\ got # {}
      BY <1>2, <1>5, <1>6, <1>7 DEF ToldIsMarked, Old, Mine
    <2>1. CASE m \in told
      BY <1>2, <2>1 DEF WorkerInv, ToldIsMarked
    <2>2. QED
      BY <1>9, <2>1
  <1>14. QED
    BY <1>11, <1>12, <1>13 DEF WorkerInv

LEMMA MarkWorker ==
    ASSUME WorkerInv, today \in Nat, WriteMarker
    PROVE  WorkerInv'
  <1>1. /\ worker.at = "mark"
        /\ marks' = IF worker.got = {} THEN marks ELSE marks \cup {Marker}
        /\ Skip
        /\ UNCHANGED <<today, told, faults, lost>>
    BY DEF WriteMarker, At, subscriptionVars
  <1>2. worker' \in Worker /\ worker'.at = "purge"
    BY <1>1, SkipEffect
  <1>3. /\ Marker \in Mark /\ Mine(Marker)
        /\ Marker.day = today /\ Marker.ends = worker.ends
    BY <1>1 DEF WorkerInv, NoticesOK, Worker, Marker, Mark, Mine
  <1>4. marks \subseteq marks' /\ \A k \in marks' : k \in marks \/ (k = Marker /\ worker.got # {})
    BY <1>1
  <1>5. NoticesOK'
    BY <1>1, <1>2, <1>3, <1>4 DEF WorkerInv, NoticesOK
  <1>6. MarkedIsMailed'
    <2> SUFFICES ASSUME NEW k \in marks'
                 PROVE  \E m \in told : /\ m.tenant = k.tenant /\ m.notice = k.notice
                                        /\ m.ends = k.ends /\ m.day <= k.day
      BY <1>1 DEF MarkedIsMailed
    <2>1. CASE k \in marks
      BY <2>1 DEF WorkerInv, MarkedIsMailed
    <2>2. CASE k = Marker /\ worker.got # {}
      <3>1. PICK m \in told : Mine(m) /\ m.ends = worker.ends
        BY <1>1, <2>2 DEF WorkerInv, NoticesOK
      <3>2. m.day <= today
        BY DEF WorkerInv, NoticesOK
      <3>3. QED
        BY <1>3, <2>2, <3>1, <3>2 DEF Mine
    <2>3. QED
      BY <1>4, <2>1, <2>2
  <1>7. ToldIsMarked'
    <2> SUFFICES ASSUME NEW m \in told, ~Old(m.day), <<m.tenant, m.notice>> \notin lost
                 PROVE  \E k \in marks' :
                          k.tenant = m.tenant /\ k.notice = m.notice /\ k.day >= m.day
      BY <1>1 DEF ToldIsMarked, Old
    <2>1. CASE Mine(m) /\ worker.got # {}
      <3>1. Marker \in marks' /\ m.day <= today /\ m.day \in Nat
        BY <1>1, <2>1 DEF WorkerInv, NoticesOK, Mail
      <3>2. Marker.tenant = m.tenant /\ Marker.notice = m.notice /\ Marker.day >= m.day
        BY <1>3, <2>1, <3>1 DEF Mine
      <3>3. QED
        BY <3>1, <3>2
    <2>2. QED
      BY <1>4, <2>1 DEF WorkerInv, ToldIsMarked
  <1>8. QED
    BY <1>5, <1>6, <1>7 DEF WorkerInv

LEMMA RestartWorker ==
    ASSUME WorkerInv, today \in Nat, Restart
    PROVE  WorkerInv'
  <1>1. /\ worker.at \in {"mail", "mark"} /\ Fault
        /\ worker' = Off /\ UNCHANGED <<today, marks>>
    BY DEF Restart, At, subscriptionVars
  <1>2. worker.tenant \in Tenant /\ worker.got \in SUBSET Person /\ worker.notice \in Notice
    BY <1>1 DEF WorkerInv, NoticesOK, Worker
  <1>3. PICK got \in SUBSET Person :
          /\ worker.at = "mark" => got = worker.got
          /\ Deliver(IF worker.at = "mail" THEN got ELSE {})
          /\ lost' = IF got = {} THEN lost ELSE lost \cup {<<worker.tenant, worker.notice>>}
    BY <1>1, <1>2 DEF Restart, At, Person
  <1>4. PICK sent \in SUBSET Person :
          /\ sent = IF worker.at = "mail" THEN got ELSE {}
          /\ Deliver(sent)
    BY <1>3
  <1>5. /\ told \subseteq told' /\ told' \subseteq Mail
        /\ \A m \in told' : m.day <= today
        /\ \A m \in told' \ told : Mine(m) /\ sent # {}
    BY <1>2, <1>4, DeliverEffect
  <1>6. faults' \in 0 .. MaxFaults
    BY <1>1, LicenseAssumption DEF Fault, WorkerInv, NoticesOK
  <1>7. lost \subseteq lost' /\ lost' \subseteq Tenant \X Notice
    BY <1>2, <1>3 DEF WorkerInv, NoticesOK
  <1>8. NoticesOK'
    BY <1>1, <1>5, <1>6, <1>7, OffTypes DEF WorkerInv, NoticesOK
  <1>9. MarkedIsMailed'
    BY <1>1, <1>5 DEF WorkerInv, MarkedIsMailed
  <1>10. ToldIsMarked'
    <2> SUFFICES ASSUME NEW m \in told', ~Old(m.day), <<m.tenant, m.notice>> \notin lost'
                 PROVE  \E k \in marks :
                          k.tenant = m.tenant /\ k.notice = m.notice /\ k.day >= m.day
      BY <1>1 DEF ToldIsMarked, Old
    <2>1. Mine(m) => got = {}
      BY <1>3 DEF Mine
    <2>2. m \in told
      BY <1>4, <1>5, <2>1
    <2>3. QED
      BY <1>1, <1>3, <1>7, <2>1, <2>2 DEF WorkerInv, ToldIsMarked
  <1>11. QED
    BY <1>8, <1>9, <1>10 DEF WorkerInv

LEMMA NextLicense ==
    ASSUME LicenseInv, [LicenseNext]_licenseVars
    PROVE  LicenseInv'
  <1>1. today \in Nat
    BY Today DEF LicenseInv
  <1>2. CASE /\ SubscriptionNext \/ UNCHANGED subscriptionVars
             /\ UNCHANGED <<notices, worker>>
    <2>1. AdminInv'
      BY <1>2, NextAdmin DEF LicenseInv
    <2>2. today' \in Nat /\ today <= today'
      <3>1. today' \in {today, today + 1}
        BY <1>2 DEF SubscriptionNext, NextDay, subscriptionVars, AdminStep, Assign, Change, Renew,
           SetStatus, Revoke, SetEntitlement, Override, Reset, Begin, Save, Grant, Record,
           WriteEntitlement, ReadPrevious, WriteDefault, Die
      <3>2. QED
        BY <1>1, <3>1
    <2>3. WorkerInv'
      BY <1>2, <2>2, WorkerWaits DEF notices
    <2>4. QED
      BY <2>1, <2>3 DEF LicenseInv
  <1>3. CASE WorkerStep \/ PurgeFails \/ Restart
    <2>1. ASSUME ~Purge
          PROVE  AdminInv'
      <3>1. UNCHANGED subscriptionVars
        BY <1>3, <2>1 DEF WorkerStep, StartJob, EndJob, PurgeFails, ReadSubscription, Look,
                          SendMails, WriteMarker, Restart
      <3>2. QED
        BY <3>1, NextAdmin DEF LicenseInv
    <2>2. AdminInv'
      BY <2>1, PurgeAdmin DEF LicenseInv
    <2>3. WorkerInv'
      BY <1>1, <1>3, StartWorker, PurgeWorker, ReadWorker, SendWorker, MarkWorker, RestartWorker
         DEF LicenseInv, WorkerStep
    <2>4. QED
      BY <2>2, <2>3 DEF LicenseInv
  <1>4. QED
    BY <1>2, <1>3 DEF LicenseNext, licenseVars

(* The invariant of the administrators' requests and of the worker. *)
LEMMA LicenseInvariance == Spec => []LicenseInv
  <1>1. LicenseInit => LicenseInv
    BY InitAdmin, InitWorker DEF LicenseInit, LicenseInv
  <1>2. LicenseInv /\ [LicenseNext]_licenseVars => LicenseInv'
    BY NextLicense
  <1>3. QED
    BY <1>1, <1>2, PTL DEF Spec

(* Rows, entitlements, markers and what handlers hold of them are of their types. *)
THEOREM LicenseTypes == Spec => []TypeOK
  <1>1. LicenseInv => TypeOK
    BY DEF LicenseInv, AdminInv, TablesOK, JobsOK, JobOK, Job, WorkerInv, NoticesOK, Worker,
           Places, TypeOK
  <1>2. QED
    BY <1>1, LicenseInvariance, PTL

(***************************************************************************)
(* However administrators' requests overlap, the trail has an event of the *)
(* status that a subscription is left in, and one not older than its last  *)
(* change, as long as events of that day are kept: what the purge deletes  *)
(* is older.  A handler that died on the subscription is the exception.    *)
(***************************************************************************)
THEOREM StatusIsRecorded == Spec => []StatusRecorded
  <1>1. LicenseInv => StatusRecorded
    BY DEF LicenseInv, AdminInv, StatusComes, StatusRecorded, Settled
  <1>2. QED
    BY <1>1, LicenseInvariance, PTL

(***************************************************************************)
(* However assignments, overrides and resets overlap, a subscription ends  *)
(* up with every feature of its plan, except those that a reset deleted by *)
(* a plan that was replaced by then, and unless a handler died on it.      *)
(***************************************************************************)
THEOREM FeaturesAreGranted == Spec => []FeaturesGranted
  <1>1. LicenseInv => FeaturesGranted
    BY DEF LicenseInv, AdminInv, FeaturesCome, FeaturesGranted, Settled
  <1>2. QED
    BY <1>1, LicenseInvariance, PTL

(* A marker in the audit trail stands for a mail of that term that somebody has got. *)
THEOREM MarkersAreMailed == Spec => []MarkedIsMailed
  <1>1. LicenseInv => MarkedIsMailed
    BY DEF LicenseInv, WorkerInv
  <1>2. QED
    BY <1>1, LicenseInvariance, PTL

(***************************************************************************)
(* Nobody gets the same notice twice within the retention of audit events, *)
(* unless the worker died before it wrote the marker.                      *)
(***************************************************************************)
THEOREM NobodyIsToldTwice == Spec => ToldOnce
  <1>1. LicenseInv /\ [LicenseNext]_licenseVars =>
          [ \A u \in worker'.got \ worker.got :
              \/ <<worker.tenant, worker.notice>> \in lost
              \/ \A m \in told :
                    /\ m.tenant = worker.tenant
                    /\ m.notice = worker.notice
                    /\ m.to = u
                    => Old(m.day) ]_licenseVars
    <2> SUFFICES ASSUME LicenseInv, LicenseNext,
                        NEW u \in worker'.got \ worker.got,
                        NEW m \in told, Mine(m)
                 PROVE  <<worker.tenant, worker.notice>> \in lost \/ Old(m.day)
      BY DEF Mine
    <2>1. CASE SendMails
      <3>1. worker.at = "mail"
        BY <2>1 DEF SendMails, At
      <3>2. \A k \in marks : ~Mine(k)
        BY <3>1 DEF LicenseInv, WorkerInv, NoticesOK
      <3>3. QED
        BY <3>1, <3>2 DEF LicenseInv, WorkerInv, ToldIsMarked, Mine
    <2>2. CASE ~SendMails
      <3>1. PICK w \in Worker : w = worker
        BY DEF LicenseInv, WorkerInv, NoticesOK
      <3>2. WorkerInv
        BY DEF LicenseInv
      <3>3. CASE SubscriptionNext /\ UNCHANGED <<notices, worker>>
        BY <3>3
      <3>4. CASE StartJob \/ EndJob \/ PurgeFails \/ Restart
        <4>1. worker' = Off \/ worker' = [Off EXCEPT !.at = "purge", !.todo = Tenant]
          BY <3>4 DEF StartJob, EndJob, PurgeFails, Restart
        <4>2. [Off EXCEPT !.at = "purge", !.todo = Tenant].got = {}
          BY PurgingTypes
        <4>3. QED
          BY <4>1, <4>2, OffTypes
      <3>5. CASE Purge
        <4>1. PICK t \in worker.todo : worker' = Visit(t)
          BY <3>5 DEF Purge
        <4>2. worker' = [w EXCEPT !.at = "read", !.todo = @ \ {t}, !.tenant = t]
          BY <3>1, <4>1 DEF Visit
        <4>3. QED
          BY <3>1, <4>2 DEF Worker
      <3>6. CASE ReadSubscription
        <4>1. CASE Skip
          BY <3>2, <4>1, SkipEffect
        <4>2. ASSUME NEW n, NEW d, worker' = [worker EXCEPT !.at = "mail", !.notice = n, !.ends = d]
              PROVE  worker'.got = worker.got
          BY <3>1, <4>2 DEF Worker
        <4>3. QED
          BY <3>6, <4>1, <4>2 DEF ReadSubscription, Look
      <3>7. CASE WriteMarker
        BY <3>2, <3>7, SkipEffect DEF WriteMarker
      <3>8. QED
        BY <2>2, <3>3, <3>4, <3>5, <3>6, <3>7 DEF LicenseNext, WorkerStep
    <2>3. QED
      BY <2>1, <2>2
  <1>2. QED
    BY <1>1, LicenseInvariance, PTL DEF Spec, ToldOnce
=============================================================================
