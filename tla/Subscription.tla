----------------------------- MODULE Subscription -----------------------------
(***************************************************************************)
(* Licensing: SystemSubscriptionService and SystemEntitlementController,   *)
(* with which platform administrators give a tenant a plan, renew, change  *)
(* and revoke it, and set single entitlements by hand.  Nothing is in a    *)
(* transaction: every await is a step of the handler, and two handlers     *)
(* interleave freely.                                                      *)
(***************************************************************************)
EXTENDS Integers, Sequences, FiniteSetsExt

CONSTANTS
    Tenant, Plan, Key, Value,
    Features,       \* [Plan -> feature functions on subsets of Key]
    EndDay,         \* the end dates administrators choose from
    Assigned, Set,  \* the statuses they choose from to assign a plan and to set
    LastDay,        \* bound: the last day of the calendar
    MaxOps,         \* bound: requests of administrators
    Same,           \* "this field is not in the $set"
    NoEnt

ASSUME SubscriptionAssumption ==
    /\ Features \in [Plan -> UNION { [S -> Value] : S \in SUBSET Key }]
    /\ EndDay \subseteq Int
    /\ Assigned \cup Set \subseteq {"active", "trialing", "past_due", "canceled"}
    /\ LastDay \in Nat
    /\ MaxOps \in Nat
    /\ Same \notin Plan \cup Int \cup STRING
    /\ NoEnt \notin [value : Value, source : {"plan", "override"}]

VARIABLES
    today,          \* the day it is
    subs,           \* the subscriptions, the oldest (createdAt) first
    ents,           \* the entitlements, by subscription and key
    trail,          \* audit events: which status of which subscription, and the day
    died,           \* ghost: subscriptions on which a handler stopped half-way
    outrun,         \* ghost: entitlements deleted by a plan that was replaced by then
    pc, job         \* per request: its handler's next await and variables

licence == <<subs, ents, trail, died, outrun>>
admins == <<pc, job>>
subscriptionVars == <<today, licence, admins>>

Op == 1 .. MaxOps

Status == {"active", "trialing", "past_due", "canceled", "revoked"}

NoEnd == Same       \* a row without endsAt

(* changed is the day of updatedAt, which Mongoose keeps. *)
Row == [tenant : Tenant, plan : Plan, status : Status, ends : Int \cup {NoEnd}, changed : Nat]

Ent == [value : Value, source : {"plan", "override"}]

NoJob == [tenant |-> Same, sub |-> 0, set |-> Same, plan |-> Same, key |-> Same,
          ent |-> NoEnt, todo |-> {}]

Of(t) == { s \in DOMAIN subs : subs[s].tenant = t }

(* findOne({ tenantId }).sort({ createdAt: -1 }), 0 if there is none. *)
Newest(t) == Max({0} \cup Of(t))

Planned(s) == Features[subs[s].plan]

(* A tenant has no subscription yet, or one whose entitlements have all been *)
(* overridden by an administrator.                                           *)
Init ==
    /\ today = 0
    /\ \/ subs = <<>>
       \/ \E t \in Tenant, q \in Plan, d \in EndDay :
            subs = <<[tenant |-> t, plan |-> q, status |-> "active", ends |-> d, changed |-> 0]>>
    /\ ents \in [(DOMAIN subs) \X Key -> [value : Value, source : {"override"}]]
    /\ trail = { <<s, "active", 0>> : s \in DOMAIN subs }
    /\ died = {}
    /\ outrun = {}
    /\ pc = [p \in Op |-> "idle"]
    /\ job = [p \in Op |-> NoJob]

-----------------------------------------------------------------------------
(* Requests are numbered in the order in which they come in. *)
Begin(p, where, j) ==
    /\ pc[p] = "idle"
    /\ \A o \in Op : o < p => pc[o] # "idle"
    /\ pc' = [pc EXCEPT ![p] = where]
    /\ job' = [job EXCEPT ![p] = j]
    /\ UNCHANGED <<today, licence>>

Goto(p, where) == pc' = [pc EXCEPT ![p] = where]

Finish(p) ==
    /\ Goto(p, "done")
    /\ job' = [job EXCEPT ![p] = NoJob]

(***************************************************************************)
(* assign(), renew(), setStatus() and revoke() read the newest             *)
(* subscription of the tenant and will write some of its fields.  Only     *)
(* assign() can do without one.                                            *)
(***************************************************************************)
Assign(p) == \E t \in Tenant, q \in Plan, st \in Assigned, d \in EndDay \cup {Same} :
    Begin(p, "save", [NoJob EXCEPT !.tenant = t, !.sub = Newest(t),
                                   !.set = [plan |-> q, status |-> st, ends |-> d]])

Change(p, set) == \E t \in Tenant :
    /\ Newest(t) # 0
    /\ Begin(p, "save", [NoJob EXCEPT !.tenant = t, !.sub = Newest(t), !.set = set])

Renew(p) == \E d \in EndDay :
    Change(p, [plan |-> Same, status |-> "active", ends |-> d])

SetStatus(p) == \E st \in Set :
    Change(p, [plan |-> Same, status |-> st, ends |-> Same])

Revoke(p) == Change(p, [plan |-> Same, status |-> "revoked", ends |-> Same])

(***************************************************************************)
(* endsAt as it is written.  setStatus("canceled") and revoke() end the    *)
(* subscription "now", at the time of the write; assign(), which names a   *)
(* plan, writes the end it was given whatever the status.                  *)
(***************************************************************************)
Ending(set) ==
    IF set.plan = Same /\ set.status \in {"canceled", "revoked"} THEN today ELSE set.ends

Written(row, set) ==
    [row EXCEPT !.plan    = IF set.plan = Same THEN @ ELSE set.plan,
                !.status  = set.status,
                !.ends    = IF Ending(set) = Same THEN @ ELSE Ending(set),
                !.changed = today]

Granted(set) == IF set.plan = Same THEN {} ELSE DOMAIN Features[set.plan]

After(j) == IF j.todo = {} THEN "record" ELSE "grant"

(* Mutant of Save: the subscription is answered for before its entitlements. *)
SaveOnly(p) ==
    LET j == job[p]
    IN  /\ pc[p] = "save"
        /\ j.sub # 0
        /\ subs' = [subs EXCEPT ![j.sub] = Written(@, j.set)]
        /\ Goto(p, "record")
        /\ UNCHANGED <<today, ents, trail, died, outrun, job>>

Save(p) ==
    LET j == job[p]
        s == IF j.sub = 0 THEN Len(subs) + 1 ELSE j.sub
        next == [j EXCEPT !.sub = s, !.todo = Granted(j.set)]
    IN  /\ pc[p] = "save"
        /\ IF j.sub = 0
           THEN /\ subs' = Append(subs, [tenant |-> j.tenant, plan |-> j.set.plan,
                                         status |-> j.set.status, ends |-> j.set.ends,
                                         changed |-> today])
                /\ ents' = [e \in (1 .. s) \X Key |-> IF e[1] = s THEN NoEnt ELSE ents[e]]
           ELSE /\ subs' = [subs EXCEPT ![s] = Written(@, j.set)]
                /\ UNCHANGED ents
        /\ job' = [job EXCEPT ![p] = next]
        /\ Goto(p, After(next))
        /\ UNCHANGED <<today, trail, died, outrun>>

(* An upsert that names the value alone: a source that is there stays. *)
Upsert(s, k, v) ==
    ents' = [ents EXCEPT ![<<s, k>>] =
        [value |-> v, source |-> IF @ = NoEnt THEN "plan" ELSE @.source]]

(* materializeEntitlements(): the upserts run at once and end in any order. *)
Grant(p) ==
    LET j == job[p]
    IN  /\ pc[p] = "grant"
        /\ \E k \in j.todo :
            LET next == [j EXCEPT !.todo = @ \ {k}]
            IN  /\ Upsert(j.sub, k, Features[j.set.plan][k])
                /\ job' = [job EXCEPT ![p] = next]
                /\ Goto(p, After(next))
        /\ UNCHANGED <<today, subs, trail, died, outrun>>

(* Mutant of Record: nothing is written to the trail. *)
RecordNothing(p) ==
    /\ pc[p] = "record"
    /\ Finish(p)
    /\ UNCHANGED <<today, licence>>

(* audit(); then the answer. *)
Record(p) ==
    /\ pc[p] = "record"
    /\ trail' = trail \cup {<<job[p].sub, job[p].set.status, today>>}
    /\ Finish(p)
    /\ UNCHANGED <<today, subs, ents, died, outrun>>

-----------------------------------------------------------------------------
(* setEntitlement(), and override() and reset() of the controller.  What   *)
(* recordChange() and audit() add to the trail after them is left out.     *)

SetEntitlement(p) == \E s \in DOMAIN subs, k \in Key, v \in Value :
    Begin(p, "upsert", [NoJob EXCEPT !.sub = s, !.key = k,
                             !.ent = [value |-> v, source |-> "plan"]])

Override(p) == \E t \in Tenant, k \in Key, v \in Value :
    /\ Newest(t) # 0
    /\ Begin(p, "upsert", [NoJob EXCEPT !.sub = Newest(t), !.key = k,
                                !.ent = [value |-> v, source |-> "override"]])

WriteEntitlement(p) ==
    LET j == job[p]
    IN  /\ pc[p] = "upsert"
        /\ IF j.ent.source = "override" THEN ents' = [ents EXCEPT ![<<j.sub, j.key>>] = j.ent]
                                      ELSE Upsert(j.sub, j.key, j.ent.value)
        /\ Finish(p)
        /\ UNCHANGED <<today, subs, trail, died, outrun>>

(* The plan is the one of the row as it was read here. *)
Reset(p) == \E t \in Tenant, k \in Key :
    /\ Newest(t) # 0
    /\ Begin(p, "previous", [NoJob EXCEPT !.sub = Newest(t), !.key = k,
                                          !.plan = subs[Newest(t)].plan])

(* Only an override is reset. *)
ReadPrevious(p) ==
    LET e == ents[<<job[p].sub, job[p].key>>]
    IN  /\ pc[p] = "previous"
        /\ IF e # NoEnt /\ e.source = "override"
           THEN Goto(p, "reset") /\ UNCHANGED job
           ELSE Finish(p)
        /\ UNCHANGED <<today, licence>>

(* Mutant of WriteDefault: a plan without the key is not thought of. *)
WriteUndefined(p) ==
    LET j == job[p]
    IN  /\ pc[p] = "reset"
        /\ ents' = [ents EXCEPT ![<<j.sub, j.key>>] =
              [value |-> IF j.key \in DOMAIN Features[j.plan] THEN Features[j.plan][j.key] ELSE Same,
               source |-> "plan"]]
        /\ Finish(p)
        /\ UNCHANGED <<today, subs, trail, died, outrun>>

(* deleteOne, or an update that is no upsert. *)
WriteDefault(p) ==
    LET j == job[p]
    IN  /\ pc[p] = "reset"
        /\ ents' = [ents EXCEPT ![<<j.sub, j.key>>] =
              IF j.key \notin DOMAIN Features[j.plan] \/ @ = NoEnt THEN NoEnt
              ELSE [value |-> Features[j.plan][j.key], source |-> "plan"]]
        /\ outrun' = IF subs[j.sub].plan = j.plan \/ j.key \in DOMAIN Features[j.plan]
                     THEN outrun ELSE outrun \cup {<<j.sub, j.key>>}
        /\ Finish(p)
        /\ UNCHANGED <<today, subs, trail, died>>

(* A write fails or the process dies.  Before a request's first write this is *)
(* no different from a handler that never goes on, and no step here.          *)
Die(p) ==
    /\ pc[p] \in {"grant", "record"}
    /\ died' = died \cup {job[p].sub}
    /\ Finish(p)
    /\ UNCHANGED <<today, subs, ents, trail, outrun>>

NextDay ==
    /\ today < LastDay
    /\ today' = today + 1
    /\ UNCHANGED <<licence, admins>>

AdminStep(p) ==
    \/ Assign(p) \/ Renew(p) \/ SetStatus(p) \/ Revoke(p)
    \/ SetEntitlement(p) \/ Override(p) \/ Reset(p)
    \/ Save(p) \/ Grant(p) \/ Record(p)
    \/ WriteEntitlement(p) \/ ReadPrevious(p) \/ WriteDefault(p) \/ Die(p)

SubscriptionNext == NextDay \/ \E p \in Op : AdminStep(p)
=============================================================================
