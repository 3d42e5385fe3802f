--------------------------------- MODULE Users ---------------------------------
(***************************************************************************)
(* The users of the same tenant, UsersService: administrators create users *)
(* in their scope, change them, switch them off and on, and revoke their   *)
(* sessions.  Their handlers run among those of OrgHierarchy, whose        *)
(* deletion of a company counts users, and among sign-ins.                 *)
(***************************************************************************)
EXTENDS OrgHierarchy

VARIABLES
    sessions,       \* the rows of Session
    cut             \* ghost: users whose deactivation stopped half-way

directory == <<org, users, sessions, cut>>
vars == <<directory, pc, job>>

(* overtaken, a ghost: the user was inactive when the session was issued.    *)
SessionRow == [user : User, revoked : BOOLEAN, overtaken : BOOLEAN]

Unused == [user |-> Nobody, revoked |-> TRUE, overtaken |-> FALSE]

InScope(u, scope) == u \in Known /\ users[u].company \in scope

WithEmail(e) == { u \in Known : users[u].email = e }

(* A compound sparse index holds every row that has one of its fields, and   *)
(* every user has a company: without externalScimId there is one per company. *)
WithoutExt(c) == { u \in Known : users[u].company = c /\ ~users[u].ext }

Init ==
    /\ live \in { L \in SUBSET Node : /\ Company \subseteq L
                                      /\ \A n \in L \ Company : Parent[n] \in L }
    /\ gone = {}
    /\ label = FirstLabel
    /\ late = {}
    /\ users \in [User -> {NoRow} \cup
          [company : Company, email : Email, ext : {TRUE}, active : {TRUE}, roles : {{}}, link : {0}]]
    /\ \A u, v \in Known : users[u].email = users[v].email => u = v
    /\ sessions = [s \in Session |-> Unused]
    /\ cut = {}
    /\ pc = [p \in Op |-> "idle"]
    /\ job = [p \in Op |-> NoJob]

Decline(p) == Finish(p) /\ UNCHANGED directory

-----------------------------------------------------------------------------
(* What is refused at the first look leaves no trace, and is no step.  A   *)
(* user stays in a company for good, so that a scope that is asked for     *)
(* again in the filter of the write decides nothing new.                   *)

(* create(): the company is in scope, and the address is not taken, as it      *)
(* seems.  Whether there is such a company is not looked at.                   *)
Create(p) == \E scope \in Scope, e \in Email :
    /\ WithEmail(e) = {}
    /\ \E c \in scope :
        Begin(p, "insert", [NoJob EXCEPT !.node = c, !.email = e])
    /\ UNCHANGED directory

(* Mutant of Insert: the index on addresses is not unique. *)
InsertAnyway(p) ==
    LET c == job[p].node
    IN  /\ pc[p] = "insert"
        /\ IF WithoutExt(c) # {} THEN Decline(p)
           ELSE /\ \E u \in User \ Known :
                    /\ users' = [users EXCEPT ![u] =
                          [company |-> c, email |-> job[p].email, ext |-> FALSE,
                           active |-> TRUE, roles |-> {}, link |-> 0]]
                    /\ late' = IF c \notin live \/ Overtakes(c, "user") THEN late \cup {u} ELSE late
                /\ Finish(p)
                /\ UNCHANGED <<live, gone, label, sessions, cut>>

(* Two unique indexes decide. *)
Insert(p) == IF pc[p] = "insert" /\ WithEmail(job[p].email) # {} THEN Decline(p) ELSE InsertAnyway(p)

(* update(): an address is only looked for among the others if it is new. *)
UpdateUser(p) == \E scope \in Scope, u \in Known, e \in Email :
    /\ InScope(u, scope)
    /\ Begin(p, IF e = users[u].email THEN "patch" ELSE "taken",
             [NoJob EXCEPT !.user = u, !.email = e])
    /\ UNCHANGED directory

CheckTaken(p) ==
    /\ pc[p] = "taken"
    /\ IF WithEmail(job[p].email) \ {job[p].user} # {}
       THEN Finish(p)
       ELSE Goto(p, "patch") /\ UNCHANGED job
    /\ UNCHANGED directory

(* Mutant of Patch: an address that is left as it is is written as missing. *)
PatchAlways(p) ==
    LET j == job[p]
    IN  /\ pc[p] = "patch"
        /\ users' = [users EXCEPT ![j.user].email = IF @ = j.email THEN Nobody ELSE j.email]
        /\ Finish(p)
        /\ UNCHANGED <<org, sessions, cut>>

Patch(p) ==
    LET j == job[p]
    IN  /\ pc[p] = "patch"
        /\ IF WithEmail(j.email) \ {j.user} # {}
           THEN Decline(p)
           ELSE /\ users' = [users EXCEPT ![j.user].email = j.email]
                /\ Finish(p)
                /\ UNCHANGED <<org, sessions, cut>>

(* setRoles(): a role is named by its company.  Every role asked for has to be *)
(* in scope.  Roles do not change, and reading them is no step.                *)
SetRoles(p) == \E scope \in Scope, u \in Known : \E roles \in SUBSET scope :
    /\ InScope(u, scope)
    /\ Begin(p, "roles", [NoJob EXCEPT !.user = u, !.roles = roles])
    /\ UNCHANGED directory

WriteRoles(p) ==
    LET j == job[p]
    IN  /\ pc[p] = "roles"
        /\ users' = [users EXCEPT ![j.user].roles = j.roles]
        /\ Finish(p)
        /\ UNCHANGED <<org, sessions, cut>>

(* issueAccessLink() writes by id what it has read in scope.  It is the hash *)
(* of the last link that stays.                                              *)
IssueAccessLink(p) == \E scope \in Scope, u \in Known :
    /\ InScope(u, scope)
    /\ Begin(p, "link", [NoJob EXCEPT !.user = u])
    /\ UNCHANGED directory

WriteLink(p) ==
    /\ pc[p] = "link"
    /\ users' = [users EXCEPT ![job[p].user].link = p]
    /\ Finish(p)
    /\ UNCHANGED <<org, sessions, cut>>

(* Mutant of SetActive: the sessions of the user are not thought of. *)
SetActiveAlone(p) == \E scope \in Scope, u \in Known, on \in BOOLEAN :
    /\ InScope(u, scope)
    /\ Begin(p, "done", NoJob)
    /\ users' = [users EXCEPT ![u].active = on]
    /\ UNCHANGED <<org, sessions, cut>>

(* setActive(): the row first, and its sessions next. *)
SetActive(p) == \E scope \in Scope, u \in Known, on \in BOOLEAN :
    /\ InScope(u, scope)
    /\ Begin(p, IF on THEN "done" ELSE "revoke",
             IF on THEN NoJob ELSE [NoJob EXCEPT !.user = u])
    /\ users' = [users EXCEPT ![u].active = on]
    /\ UNCHANGED <<org, sessions, cut>>

Revoked(row) == [row EXCEPT !.revoked = TRUE]

RevokeSessions(p) ==
    LET u == job[p].user
    IN  /\ pc[p] = "revoke"
        /\ sessions' = [s \in Session |-> IF sessions[s].user = u THEN Revoked(sessions[s]) ELSE sessions[s]]
        /\ cut' = cut \ {u}
        /\ Finish(p)
        /\ UNCHANGED <<org, users>>

(* The process dies, or the second update of a deactivation fails.  Elsewhere *)
(* this is no different from a handler that never goes on.                    *)
Die(p) ==
    /\ pc[p] = "revoke"
    /\ cut' = cut \cup {job[p].user}
    /\ Finish(p)
    /\ UNCHANGED <<org, users, sessions>>

(* revokeSession() of somebody else: none of one's own is revoked here. *)
RevokeSession(p) == \E scope \in Scope, u \in Known, s \in Session :
    /\ InScope(u, scope)
    /\ Begin(p, "session", [NoJob EXCEPT !.user = u, !.session = s])
    /\ UNCHANGED directory

WriteRevoked(p) ==
    LET s == job[p].session
    IN  /\ pc[p] = "session"
        /\ sessions' = IF sessions[s].user = job[p].user THEN [sessions EXCEPT ![s] = Revoked(@)]
                       ELSE sessions
        /\ Finish(p)
        /\ UNCHANGED <<org, users, cut>>

-----------------------------------------------------------------------------
(* A sign-in sees that the user is active, and issues a session. *)
SignIn(p) == \E u \in Known :
    /\ users[u].active
    /\ Begin(p, "issue", [NoJob EXCEPT !.user = u])
    /\ UNCHANGED directory

IssueSession(p) ==
    LET u == job[p].user
    IN  /\ pc[p] = "issue"
        /\ \E s \in Session :
            /\ sessions[s] = Unused
            /\ sessions' = [sessions EXCEPT ![s] =
                  [user |-> u, revoked |-> FALSE, overtaken |-> ~users[u].active]]
        /\ Finish(p)
        /\ UNCHANGED <<org, users, cut>>

UserStep(p) ==
    \/ Create(p) \/ Insert(p) \/ UpdateUser(p) \/ CheckTaken(p) \/ Patch(p)
    \/ SetRoles(p) \/ WriteRoles(p) \/ IssueAccessLink(p) \/ WriteLink(p)
    \/ SetActive(p) \/ RevokeSessions(p) \/ Die(p)
    \/ RevokeSession(p) \/ WriteRevoked(p) \/ SignIn(p) \/ IssueSession(p)

Next ==
    \/ \E p \in Op : OrgStep(p) /\ UNCHANGED <<sessions, cut>>
    \/ \E p \in Op : UserStep(p)
    \/ \E n \in Node : Add(n) /\ UNCHANGED <<sessions, cut>>

Spec == Init /\ [][Next]_vars

-----------------------------------------------------------------------------
(* Documents, rows, sessions and the variables of the handlers. *)
TypeOK ==
    /\ live \subseteq Node /\ gone \subseteq Node \ live
    /\ label \in [Node -> Label \cup Code]
    /\ users \in [User -> Row \cup {NoRow}]
    /\ sessions \in [Session -> SessionRow \cup {Unused}]
    /\ late \subseteq Node \cup User /\ cut \subseteq User
    /\ pc \in [Op -> {"idle", "done", "climb", "count", "check", "rename", "insert", "taken",
                      "patch", "roles", "link", "revoke", "session", "issue"}]
    /\ \A p \in Op : job[p].at \in live \cup gone \cup Node \cup {Nobody}

(***************************************************************************)
(* A document or a user whose parent is gone was added, or its company     *)
(* never looked for, after a deletion had counted: whatever a deletion     *)
(* could have seen has kept the parent in its place.  Nothing is said of   *)
(* the assets and users a department has, which its deletion leaves.       *)
(***************************************************************************)
OrphansAreLate ==
    /\ \A n \in live \ Company : Parent[n] \in live \/ n \in late
    /\ \A u \in Known : users[u].company \in live \/ u \in late

(* The company that a document belongs to. *)
Home(n) ==
    CASE Level[n] = "company" -> n
      [] Level[n] \in {"plant", "asset"} -> Parent[n]
      [] Level[n] = "location" -> Parent[Parent[n]]
      [] OTHER -> Parent[Parent[Parent[n]]]

Touched == { n \in Node : label'[n] # label[n] } \cup (live \ live')

(***************************************************************************)
(* Whatever is renamed or deleted belongs to a company in the scope of the *)
(* caller of a request that is answered in this step: no way up, of one to *)
(* four reads, ends without the company.                                   *)
(***************************************************************************)
ScopeRespected ==
    [][ Touched # {} =>
          \E p \in Op : /\ pc[p] # "done" /\ pc'[p] = "done"
                        /\ \A n \in Touched : Home(n) \in job[p].scope ]_vars

(* Two users never have one address: it is checked before it is written, by *)
(* creations and by changes of address, and the index decides between them. *)
OneRowPerAddress ==
    \A u, v \in Known : users[u].email = users[v].email => u = v

Deactivating(u) == u \in cut \/ \E p \in Op : pc[p] = "revoke" /\ job[p].user = u

(***************************************************************************)
(* Once a deactivation has ended, the user has no live session but one     *)
(* whose sign-in had seen the user active and was overtaken by it - or,    *)
(* if the deactivation died half-way, those it did not get to.             *)
(***************************************************************************)
DeactivatedIsOut ==
    \A s \in Session :
        LET u == sessions[s].user
        IN  ~sessions[s].revoked /\ ~users[u].active /\ ~Deactivating(u) => sessions[s].overtaken
=============================================================================
