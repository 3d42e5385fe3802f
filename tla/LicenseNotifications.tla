------------------------- MODULE LicenseNotifications -------------------------
(***************************************************************************)
(* The maintenance worker, queue/worker.main.ts: once a day it purges old  *)
(* audit events and writes to the people who look after a tenant's licence *)
(* that it ends soon or has ended.  That a notice was sent is remembered   *)
(* as an audit event, the marker, written after the mails.  The console's  *)
(* administrators (Subscription) go on between any two of its awaits.      *)
(***************************************************************************)
EXTENDS Subscription

CONSTANTS
    WarningDays,    \* days before the end at which a notice is due
    Recipients,     \* [Tenant -> set of active users with billing:read]
    Retention,      \* days for which audit events are kept
    MaxFaults       \* bound: outages of mail, failures of the purge, deaths

ASSUME LicenseAssumption ==
    /\ WarningDays \subseteq Nat \ {0}
    /\ Retention \in Nat
    /\ MaxFaults \in Nat

VARIABLES
    marks,          \* the markers among the audit events
    told,           \* the mails that got away
    faults,         \* how many there have been
    lost,           \* ghost: <<tenant, notice>> of markers unwritten when the worker died
    worker          \* the worker: next await and variables

notices == <<marks, told, faults, lost>>
licenseVars == <<subscriptionVars, notices, worker>>

(* A notice: days before the end, 0 for `expired'. *)
Notice == {0} \cup WarningDays

Person == UNION { Recipients[t] : t \in Tenant }

(* What a marker names, and the day it was written; ends is a ghost, the end *)
(* of the term that was announced.  A mail, and the day it was sent.         *)
Mark == [tenant : Tenant, notice : Notice, day : Nat, ends : Int]
Mail == [tenant : Tenant, notice : Notice, day : Nat, ends : Int, to : Person]

Off == [at |-> "off", todo |-> {}, tenant |-> Same, notice |-> 0, ends |-> 0, got |-> {}]

LicenseInit ==
    /\ Init
    /\ marks = {}
    /\ told = {}
    /\ faults = 0
    /\ lost = {}
    /\ worker = Off

At(where) == worker.at = where

Fault == faults < MaxFaults /\ faults' = faults + 1

(* find({ status: $in }).sort({ createdAt: -1 }), 0 if there is none. *)
Current(t) ==
    Max({0} \cup { s \in Of(t) : subs[s].status \in {"active", "trialing", "past_due"} })

(* Mutant of Due: on the very day of its end a licence has not ended yet. *)
DueLater(t) ==
    LET s == Current(t)
        remaining == subs[s].ends - today
    IN  IF s = 0 \/ subs[s].ends = NoEnd THEN {}
        ELSE IF remaining < 0 THEN {0}
        ELSE { d \in WarningDays : /\ remaining <= d
                                   /\ \A lower \in {0} \cup WarningDays : lower < d => remaining > lower }

(* The notices that are due: none, or the one whose range the day is in. *)
Due(t) ==
    LET s == Current(t)
        remaining == subs[s].ends - today
    IN  IF s = 0 \/ subs[s].ends = NoEnd THEN {}
        ELSE IF remaining <= 0 THEN {0}
        ELSE { d \in WarningDays : /\ remaining <= d
                                   /\ \A lower \in WarningDays : lower < d => remaining > lower }

-----------------------------------------------------------------------------
(* The scheduler's job: the tenants that are not archived, one by one. *)
StartJob ==
    /\ At("off")
    /\ worker' = [Off EXCEPT !.at = "purge", !.todo = Tenant]
    /\ UNCHANGED <<subscriptionVars, notices>>

EndJob ==
    /\ At("purge")
    /\ worker.todo = {}
    /\ worker' = Off
    /\ UNCHANGED <<subscriptionVars, notices>>

Visit(t) == [worker EXCEPT !.at = "read", !.todo = @ \ {t}, !.tenant = t]

Old(day) == today - day > Retention

(***************************************************************************)
(* purgeExpired() deletes the tenant's audit events that are past their    *)
(* retention: statuses of subscriptions, and markers of notices.           *)
(***************************************************************************)
Purge == \E t \in worker.todo :
    /\ At("purge")
    /\ trail' = { e \in trail : e[1] \in Of(t) => ~Old(e[3]) }
    /\ marks' = { m \in marks : m.tenant = t => ~Old(m.day) }
    /\ worker' = Visit(t)
    /\ UNCHANGED <<today, subs, ents, died, outrun, admins, told, faults, lost>>

(* ... or throws: the job ends there, whatever tenants are left. *)
PurgeFails ==
    /\ At("purge")
    /\ worker.todo # {}
    /\ Fault
    /\ worker' = Off
    /\ UNCHANGED <<subscriptionVars, marks, told, lost>>

(* The rest of sendLicenseNotifications() is skipped for this tenant. *)
Skip == worker' = [Off EXCEPT !.at = "purge", !.todo = worker.todo]

Look(forMarker) ==
    /\ At("read")
    /\ \/ Due(worker.tenant) \ forMarker = {} /\ Skip
       \/ \E n \in Due(worker.tenant) \ forMarker :
            worker' = [worker EXCEPT !.at = "mail", !.notice = n,
                                     !.ends = subs[Current(worker.tenant)].ends]
    /\ UNCHANGED <<subscriptionVars, notices>>

(* Mutant of ReadSubscription: the marker is not looked for. *)
ReadWithoutMarker == Look({})

(***************************************************************************)
(* The subscription, the notice, the marker and the people.  Nobody else   *)
(* writes markers, so that the awaits after the first are no steps.        *)
(***************************************************************************)
ReadSubscription == Look({ m.notice : m \in { k \in marks : k.tenant = worker.tenant } })

Marker == [tenant |-> worker.tenant, notice |-> worker.notice, day |-> today, ends |-> worker.ends]

Deliver(got) == told' = told \cup
    { [tenant |-> worker.tenant, notice |-> worker.notice, day |-> today,
       ends |-> worker.ends, to |-> u] : u \in got }

(***************************************************************************)
(* The loop over the recipients.  A mail that is refused is caught, and it *)
(* is the next person's turn; an outage of the mail server is one fault.   *)
(***************************************************************************)
SendMails ==
    /\ At("mail")
    /\ \E got \in SUBSET Recipients[worker.tenant] :
        /\ IF got = Recipients[worker.tenant] THEN UNCHANGED faults ELSE Fault
        /\ Deliver(got)
        /\ worker' = [worker EXCEPT !.at = "mark", !.got = got]
    /\ UNCHANGED <<subscriptionVars, marks, lost>>

(* Mutant of WriteMarker: the marker is written whoever has got a mail. *)
MarkAlways ==
    /\ At("mark")
    /\ marks' = marks \cup {Marker}
    /\ Skip
    /\ UNCHANGED <<subscriptionVars, told, faults, lost>>

(* After the last of them: the marker, if a mail has got away. *)
WriteMarker ==
    /\ At("mark")
    /\ marks' = IF worker.got = {} THEN marks ELSE marks \cup {Marker}
    /\ Skip
    /\ UNCHANGED <<subscriptionVars, told, faults, lost>>

(* The worker's process dies, some of the mails sent, and is started again. *)
Restart ==
    /\ At("mail") \/ At("mark")
    /\ Fault
    /\ \E got \in IF At("mail") THEN SUBSET Recipients[worker.tenant] ELSE {worker.got} :
        /\ Deliver(IF At("mail") THEN got ELSE {})
        /\ lost' = IF got = {} THEN lost ELSE lost \cup {<<worker.tenant, worker.notice>>}
    /\ worker' = Off
    /\ UNCHANGED <<subscriptionVars, marks>>

WorkerStep ==
    \/ StartJob \/ EndJob \/ Purge \/ ReadSubscription
    \/ SendMails \/ WriteMarker

LicenseNext ==
    \/ SubscriptionNext /\ UNCHANGED <<notices, worker>>
    \/ WorkerStep \/ PurgeFails \/ Restart

(***************************************************************************)
(* The scheduler starts a job every day, and Node goes on with what an     *)
(* answer has come for.  No administrator has to do anything, no day has   *)
(* to come and nothing has to fail.                                        *)
(***************************************************************************)
Spec == LicenseInit /\ [][LicenseNext]_licenseVars /\ WF_licenseVars(WorkerStep)

-----------------------------------------------------------------------------
(* Rows, entitlements and the variables of the handlers and of the worker. *)
TypeOK ==
    /\ today \in 0 .. LastDay
    /\ subs \in Seq(Row)
    /\ ents \in [(DOMAIN subs) \X Key -> Ent \cup {NoEnt}]
    /\ trail \subseteq (DOMAIN subs) \X Status \X Nat
    /\ died \subseteq DOMAIN subs
    /\ outrun \subseteq (DOMAIN subs) \X Key
    /\ pc \in [Op -> {"idle", "done", "save", "grant", "record", "upsert", "previous", "reset"}]
    /\ \A p \in Op : job[p].sub \in {0} \cup DOMAIN subs /\ job[p].todo \subseteq Key
    /\ marks \subseteq Mark
    /\ told \subseteq Mail
    /\ lost \subseteq Tenant \X Notice
    /\ faults \in 0 .. MaxFaults
    /\ worker.at \in {"off", "purge", "read", "mail", "mark"}
    /\ worker.todo \subseteq Tenant /\ worker.got \subseteq Person

Settled(s) == s \notin died /\ \A p \in Op : job[p].sub = s => pc[p] \notin {"grant", "record"}

(* An audit event tells of the status of a row, and is not older than its change. *)
Recorded(s) == \E e \in trail :
    e[1] = s /\ e[2] = subs[s].status /\ e[3] >= subs[s].changed

(***************************************************************************)
(* Whoever changed a subscription last, and whoever else was changing it,  *)
(* the trail has an event, not older than the change, of the status it is  *)
(* left in, for as long as events of that day are kept - unless a handler  *)
(* has died between the write and the audit event.                         *)
(***************************************************************************)
StatusRecorded ==
    \A s \in DOMAIN subs : Settled(s) /\ ~Old(subs[s].changed) => Recorded(s)

(***************************************************************************)
(* A subscription has an entitlement for every feature of its plan, once   *)
(* the assignments under way have ended.  Left out are subscriptions on    *)
(* which a handler has died half-way, and the keys that a reset deleted    *)
(* because a plan that was replaced by then did not have them.             *)
(***************************************************************************)
FeaturesGranted ==
    \A s \in DOMAIN subs :
        Settled(s) =>
            \A k \in DOMAIN Planned(s) : <<s, k>> \in outrun \/ ents[<<s, k>>] # NoEnt

(***************************************************************************)
(* Nobody is told the same thing of a licence twice while the first time   *)
(* is within the retention of audit events, however often the worker runs  *)
(* and the subscription changes - unless the worker died before it could   *)
(* write the marker.                                                       *)
(***************************************************************************)
ToldOnce ==
    [][ \A u \in worker'.got \ worker.got :
            \/ <<worker.tenant, worker.notice>> \in lost
            \/ \A m \in told :
                  /\ m.tenant = worker.tenant
                  /\ m.notice = worker.notice
                  /\ m.to = u
                  => Old(m.day) ]_licenseVars

(* A notice is only taken for sent when somebody has got it, of that very term. *)
MarkedIsMailed ==
    \A k \in marks : \E m \in told :
        m.tenant = k.tenant /\ m.notice = k.notice /\ m.ends = k.ends /\ m.day <= k.day

(* What is remembered of an earlier term would pass for the notice of this one. *)
Masked(t, day) == \E k \in marks : k.tenant = t /\ k.notice = 0 /\ k.ends # day

Announced(t, day) == \E m \in told : m.tenant = t /\ m.notice = 0 /\ m.ends = day

(* The licence of t has run out, nobody knows, and no marker is in the way. *)
Unannounced(t) ==
    LET day == subs[Current(t)].ends
    IN  /\ Current(t) # 0 /\ day # NoEnd /\ day <= today
        /\ ~Masked(t, day)
        /\ ~Announced(t, day)

(***************************************************************************)
(* A licence that has run out does not stay unannounced: somebody is told  *)
(* of the end of this very term of it, or it is renewed first - unless the *)
(* marker of an earlier term stands.  A job that is cut short by a purge   *)
(* that fails, by mails that come back or by the death of the worker is    *)
(* made up for.                                                            *)
(***************************************************************************)
ExpiryAnnounced == \A t \in Tenant : []<>~Unannounced(t)
=============================================================================
