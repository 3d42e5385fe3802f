----------------------------- MODULE OrgHierarchy -----------------------------
(***************************************************************************)
(* The organisation of one tenant in MongoDB, OrganizationManagementService: *)
(* companies, their sites (plants), the locations of a site and the          *)
(* departments of a location are renamed and deleted.  A handler reads its   *)
(* way up to the company, to see whether it is in its caller's scope, then   *)
(* counts what is below, then writes.  There is no transaction and no        *)
(* foreign key: every await is a step, and what is counted may have changed  *)
(* when the deletion comes.                                                  *)
(***************************************************************************)
EXTENDS Naturals, FiniteSets

CONSTANTS
    Node,           \* the ids of the documents, assets included
    Level,          \* [Node -> the kind of document]
    Parent,         \* [Node -> its parent's id, Nobody for a company]
    FirstLabel,     \* [Node -> name or code]: what it is called to begin with
    Label, Code,    \* names, and codes of companies, that requests give
    User, Email, Session,
    Scope,          \* the scopes of callers: a company of their own, or all
    MaxOps,         \* bound: requests
    Nobody

Company == { n \in Node : Level[n] = "company" }

ASSUME OrgAssumption ==
    /\ Level \in [Node -> {"company", "plant", "location", "department", "asset"}]
    /\ Parent \in [Node -> Node \cup {Nobody}]
    /\ \A n \in Node : Parent[n] = Nobody <=> Level[n] = "company"
    /\ \A n \in Node : Level[n] # "company" =>
          Level[Parent[n]] = CASE Level[n] \in {"plant", "asset"} -> "company"
                               [] Level[n] = "location" -> "plant"
                               [] Level[n] = "department" -> "location"
    /\ FirstLabel \in [Node -> Label \cup Code]
    /\ \A c, d \in Company : FirstLabel[c] = FirstLabel[d] => c = d
    /\ Scope \subseteq { {c} : c \in Company } \cup {Company}
    /\ MaxOps \in Nat
    /\ Nobody \notin Node \cup User \cup Email \cup Session \cup Label \cup Code

VARIABLES
    live, gone,     \* the documents there are, and those deleted
    label,          \* the name of a document, the code of a company
    users,          \* the rows of User, NoRow for an id not used
    late,           \* ghost: added under a parent whose deletion had counted
    pc, job         \* per request: its handler's next await and variables

org == <<live, gone, label, late>>

Op == 1 .. MaxOps

(* ext: whether the row has an externalScimId.  link: the request whose      *)
(* access link is the valid one, 0 for none.                                 *)
Row == [company : Company, email : Email, ext : BOOLEAN, active : BOOLEAN,
        roles : SUBSET Company, link : 0 .. MaxOps]

NoRow == [company |-> Nobody, email |-> Nobody, ext |-> FALSE, active |-> FALSE,
          roles |-> {}, link |-> 0]

Known == { u \in User : users[u] # NoRow }

NoJob == [scope |-> {}, node |-> Nobody, at |-> Nobody, todo |-> {}, label |-> Nobody,
          user |-> Nobody, email |-> Nobody, roles |-> {}, session |-> Nobody]

-----------------------------------------------------------------------------
(* Requests are numbered in the order in which they come in. *)
Begin(p, where, j) ==
    /\ pc[p] = "idle"
    /\ \A o \in Op : o < p => pc[o] # "idle"
    /\ pc' = [pc EXCEPT ![p] = where]
    /\ job' = [job EXCEPT ![p] = j]

Goto(p, where) == pc' = [pc EXCEPT ![p] = where]

Finish(p) ==
    /\ Goto(p, "done")
    /\ job' = [job EXCEPT ![p] = NoJob]

Refuse(p) == Finish(p) /\ UNCHANGED <<org, users>>

(* The next await once it is known that the document is in scope. *)
Granted(p) ==
    IF job[p].label = Nobody THEN "count"
    ELSE IF Level[job[p].node] = "company" THEN "check" ELSE "rename"

Update(p) == \E scope \in Scope, n \in Node, l \in Label \cup Code :
    /\ Level[n] # "asset"
    /\ l \in IF Level[n] = "company" THEN Code ELSE Label
    /\ Begin(p, "climb", [NoJob EXCEPT !.scope = scope, !.node = n, !.at = n, !.label = l])
    /\ UNCHANGED <<org, users>>

(* Mutant of Counted: the assets of a company are not thought of. *)
CountedButAssets(n) ==
    CASE Level[n] = "company"  -> {"plant", "user"}
      [] Level[n] = "plant"    -> {"location"}
      [] Level[n] = "location" -> {"department"}
      [] OTHER                 -> {}

(* What the deletion of a document asks the database to count. *)
Counted(n) ==
    CASE Level[n] = "company"  -> {"plant", "asset", "user"}
      [] Level[n] = "plant"    -> {"location"}
      [] Level[n] = "location" -> {"department"}
      [] OTHER                 -> {}

Delete(p) == \E scope \in Scope, n \in Node :
    /\ Level[n] # "asset"
    /\ Begin(p, "climb", [NoJob EXCEPT !.scope = scope, !.node = n, !.at = n, !.todo = Counted(n)])
    /\ UNCHANGED <<org, users>>

(* Mutant of Climb: the company only has to be there. *)
ClimbAnywhere(p) ==
    LET at == job[p].at
    IN  /\ pc[p] = "climb"
        /\ IF at \notin live THEN Finish(p)
           ELSE IF Level[at] = "company"
                THEN Goto(p, Granted(p)) /\ UNCHANGED job
                ELSE job' = [job EXCEPT ![p].at = Parent[at]] /\ UNCHANGED pc
        /\ UNCHANGED <<org, users>>

(* assertCompany() and the like: no such document, or a company out of scope. *)
Unseen(p) ==
    LET at == job[p].at
    IN  at \notin live \/ (Level[at] = "company" /\ at \notin job[p].scope)

(***************************************************************************)
(* assertDepartment, assertLocation, assertPlant and assertCompany: one    *)
(* document is read.  It may not be there; it may be a company, and that   *)
(* company out of scope; its parent is the next one to read.               *)
(***************************************************************************)
Climb(p) ==
    LET at == job[p].at
    IN  /\ pc[p] = "climb"
        /\ IF Unseen(p) THEN Finish(p)
           ELSE IF Level[at] = "company"
                THEN Goto(p, Granted(p)) /\ UNCHANGED job
                ELSE job' = [job EXCEPT ![p].at = Parent[at]] /\ UNCHANGED pc
        /\ UNCHANGED <<org, users>>

Below(n, kind) ==
    IF kind = "user" THEN { u \in Known : users[u].company = n }
    ELSE { m \in live : Parent[m] = n /\ Level[m] = kind }

(* One of the counts, which are taken at once and answered in any order.  The *)
(* first that is not zero decides, whatever the others would have been.       *)
Count(p) ==
    /\ pc[p] = "count"
    /\ \E kind \in job[p].todo :
        IF Below(job[p].node, kind) = {}
        THEN job' = [job EXCEPT ![p].todo = @ \ {kind}] /\ UNCHANGED pc
        ELSE Finish(p)
    /\ UNCHANGED <<org, users>>

Remove(p) ==
    /\ pc[p] = "count"
    /\ job[p].todo = {}
    /\ live' = live \ {job[p].node}
    /\ gone' = gone \cup (live \cap {job[p].node})
    /\ Finish(p)
    /\ UNCHANGED <<label, late, users>>

(* updateCompany(): no other company has the code, as it seems. *)
CheckCode(p) ==
    /\ pc[p] = "check"
    /\ IF \E c \in Company \cap live : c # job[p].node /\ label[c] = job[p].label
       THEN Finish(p)
       ELSE Goto(p, "rename") /\ UNCHANGED job
    /\ UNCHANGED <<org, users>>

(* updateOne by id: a document that is gone is not written. *)
Relabel(p) ==
    LET n == job[p].node
    IN  /\ pc[p] = "rename"
        /\ label' = IF n \in live THEN [label EXCEPT ![n] = job[p].label] ELSE label
        /\ Finish(p)
        /\ UNCHANGED <<live, gone, late, users>>

(* The unique index on the codes of a tenant has the last word. *)
Rename(p) ==
    /\ pc[p] = "rename"
    /\ IF /\ Level[job[p].node] = "company"
          /\ \E c \in Company \cap live : c # job[p].node /\ label[c] = job[p].label
       THEN Refuse(p)
       ELSE Relabel(p)

(* Whose deletion has already counted this kind of document. *)
Overtakes(n, kind) == \E p \in Op :
    pc[p] = "count" /\ job[p].node = n /\ kind \notin job[p].todo

(* Whoever adds documents sees that the parent is there. *)
Add(n) ==
    /\ n \notin live \cup gone
    /\ Parent[n] \in live
    /\ live' = live \cup {n}
    /\ late' = IF Overtakes(Parent[n], Level[n]) THEN late \cup {n} ELSE late
    /\ UNCHANGED <<gone, label, users, pc, job>>

OrgStep(p) ==
    \/ Update(p) \/ Delete(p) \/ Climb(p) \/ Count(p) \/ Remove(p)
    \/ CheckCode(p) \/ Rename(p)
=============================================================================
