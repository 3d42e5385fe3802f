-------------------------------- MODULE SignIn --------------------------------
(***************************************************************************)
(* How a user gets a session and keeps it: AuthService (password login and *)
(* the rotation of refresh tokens), IdentityService with OidcProvider and  *)
(* the Redis cache behind it (single sign-on), ProvisioningService (the    *)
(* user row of a person known to the identity provider) and                *)
(* SessionService, where all of them end.  None of it runs in a            *)
(* transaction: every await is a step, and handlers interleave freely.     *)
(***************************************************************************)
EXTENDS Naturals

CONSTANTS
    Proc,           \* API handlers running at the same time
    User,           \* ids of user rows
    Email, Person,  \* Person: subjects (externalId) of the identity provider
    Session,        \* ids of session rows, each with its refresh token
    State,          \* the `state' values of authorization URLs
    Code,           \* the authorization codes that the identity provider issues
    FlowOf,         \* [Code -> State]: the URL that was visited for a code
    PersonOf,       \* [Code -> Person]: who authenticated for it
    NoUser, NoEmail, NoPerson, NoSession, NoCode,
    Patient         \* a client has one request at a time with a refresh token

ASSUME SignInAssumption ==
    /\ FlowOf \in [Code -> State]
    /\ PersonOf \in [Code -> Person]
    /\ NoUser \notin User
    /\ NoEmail \notin Email
    /\ NoPerson \notin Person
    /\ NoSession \notin Session
    /\ NoCode \notin Code
    /\ Patient \in BOOLEAN

VARIABLES
    users,          \* the rows of User, NoRow for an id not used
    sessions,       \* the rows of Session, Unused for an id not used
    logins,         \* the successful rows of LoginHistory, named by the login
    cache,          \* the OIDC entries in Redis
    mail,           \* the e-mail address the identity provider has of a person
    spent,          \* the authorization codes that have been redeemed
    renamed,        \* ghost: whether the provider has ever changed an address
    pc, job         \* per handler: its next await and its local variables

vars == <<users, sessions, logins, cache, mail, spent, renamed, pc, job>>

tables == <<users, sessions, logins>>

provider == <<mail, spent, renamed>>

NoRow == [email |-> NoEmail, ext |-> NoPerson, active |-> FALSE, password |-> FALSE]

Row == [email : Email, ext : Person \cup {NoPerson}, active : BOOLEAN, password : BOOLEAN]

(***************************************************************************)
(* Ghosts: login is the session with which the sign-in began that this one *)
(* continues, code what was redeemed for it in a single sign-on, and old   *)
(* the session whose refresh token was exchanged for this one.             *)
(***************************************************************************)
SessionRow == [user : User, login : Session, code : Code \cup {NoCode},
               old : Session \cup {NoSession}, revoked : BOOLEAN]

Unused == [user |-> NoUser, login |-> NoSession, code |-> NoCode,
           old |-> NoSession, revoked |-> TRUE]

(* new is the id that the session to be created will have. *)
NoJob == [user |-> NoUser, email |-> NoEmail, code |-> NoCode,
          old |-> NoSession, login |-> NoSession, new |-> NoSession]

Known == { u \in User : users[u] # NoRow }

Live == { s \in Session : ~sessions[s].revoked }

WithEmail(e) == { u \in Known : users[u].email = e }

WithExternalId(x) == { u \in Known : users[u].ext = x }

(***************************************************************************)
(* Rows that were made by hand: local users, each with a password and an   *)
(* address of its own.                                                     *)
(***************************************************************************)
Init ==
    /\ users \in [User -> {NoRow} \cup
          [email : Email, ext : {NoPerson}, active : {TRUE}, password : {TRUE}]]
    /\ \A u, v \in Known : users[u].email = users[v].email => u = v
    /\ sessions = [s \in Session |-> Unused]
    /\ logins = {}
    /\ cache = [f \in State |-> "unset"]
    /\ mail \in [Person -> Email]
    /\ spent = {}
    /\ renamed = FALSE
    /\ pc = [p \in Proc |-> "idle"]
    /\ job = [p \in Proc |-> NoJob]

Goto(p, where) == pc' = [pc EXCEPT ![p] = where]

Finish(p) ==
    /\ Goto(p, "idle")
    /\ job' = [job EXCEPT ![p] = NoJob]

Refuse(p) ==
    /\ Finish(p)
    /\ UNCHANGED <<tables, cache, provider>>

Fresh(s) == sessions[s] = Unused /\ \A q \in Proc : job[q].new # s

-----------------------------------------------------------------------------
(* login().                                                                *)

(* Mutant of Login: the attempt is not recorded before the session is issued. *)
LoginUnrecorded(p) ==
    /\ pc[p] = "idle"
    /\ \E u \in Known, s \in Session :
        /\ users[u].password
        /\ users[u].active
        /\ Fresh(s)
        /\ job' = [job EXCEPT ![p] = [NoJob EXCEPT !.user = u, !.login = s, !.new = s]]
    /\ Goto(p, "issue")
    /\ UNCHANGED <<tables, cache, provider>>

(***************************************************************************)
(* The user is found, has this password and is active.  A login that fails *)
(* is recorded as a failure and is no step here.                           *)
(***************************************************************************)
Login(p) ==
    /\ pc[p] = "idle"
    /\ \E u \in Known, s \in Session :
        /\ users[u].password
        /\ users[u].active
        /\ Fresh(s)
        /\ job' = [job EXCEPT ![p] = [NoJob EXCEPT !.user = u, !.login = s, !.new = s]]
    /\ Goto(p, "record")
    /\ UNCHANGED <<tables, cache, provider>>

RecordLoginAttempt(p) ==
    /\ pc[p] = "record"
    /\ logins' = logins \cup {<<job[p].login, job[p].user>>}
    /\ Goto(p, "issue")
    /\ UNCHANGED <<users, sessions, cache, provider, job>>

-----------------------------------------------------------------------------
(* refresh(): find, revoke, issue.                                         *)

(***************************************************************************)
(* The session of the token is there and not revoked.  An expired one is   *)
(* refused in the same way, which leaves no trace.  That the user is still *)
(* active is not looked at.                                                *)
(***************************************************************************)
Refresh(p) ==
    /\ pc[p] = "idle"
    /\ \E s \in Live, new \in Session :
        /\ Patient => \A q \in Proc : job[q].old # s
        /\ Fresh(new)
        /\ job' = [job EXCEPT ![p] =
              [NoJob EXCEPT !.user = sessions[s].user, !.code = sessions[s].code,
                            !.old = s, !.login = sessions[s].login, !.new = new]]
    /\ Goto(p, "revoke")
    /\ UNCHANGED <<tables, cache, provider>>

(* Mutant of RevokeSession: the old session is left alone. *)
RevokeNothing(p) ==
    /\ pc[p] = "revoke"
    /\ Goto(p, "issue")
    /\ UNCHANGED <<tables, cache, provider, job>>

(* The update names the session by its id alone. *)
RevokeSession(p) ==
    /\ pc[p] = "revoke"
    /\ sessions' = [sessions EXCEPT ![job[p].old].revoked = TRUE]
    /\ Goto(p, "issue")
    /\ UNCHANGED <<users, logins, cache, provider, job>>

(* issueSession(): the row is created and the pair of tokens returned. *)
IssueSession(p) ==
    LET j == job[p]
    IN  /\ pc[p] = "issue"
        /\ sessions' = [sessions EXCEPT ![j.new] =
              [user |-> j.user, login |-> j.login, code |-> j.code,
               old |-> j.old, revoked |-> FALSE]]
        /\ Finish(p)
        /\ UNCHANGED <<users, logins, cache, provider>>

-----------------------------------------------------------------------------
(* Single sign-on: startLogin, and the callback.                           *)

GetAuthorizationUrl(f) ==
    /\ cache[f] = "unset"
    /\ cache' = [cache EXCEPT ![f] = "stored"]
    /\ UNCHANGED <<tables, provider, pc, job>>

(* Ten minutes are over. *)
ExpireState(f) ==
    /\ cache[f] = "stored"
    /\ cache' = [cache EXCEPT ![f] = "gone"]
    /\ UNCHANGED <<tables, provider, pc, job>>

(***************************************************************************)
(* The callback comes with a state and a code; a browser that visits one   *)
(* URL twice comes back with two codes.  takeValue(), first half: GET.     *)
(* Without a value the callback is refused.                                *)
(***************************************************************************)
TakeValueGet(p) ==
    /\ pc[p] = "idle"
    /\ \E c \in Code, s \in Session :
        /\ cache[FlowOf[c]] = "stored"
        /\ Fresh(s)
        /\ job' = [job EXCEPT ![p] = [NoJob EXCEPT !.code = c, !.login = s, !.new = s]]
    /\ Goto(p, "del")
    /\ UNCHANGED <<tables, cache, provider>>

(* Mutant of TakeValueDel: the value stays until its ten minutes are over. *)
KeepValue(p) ==
    /\ pc[p] = "del"
    /\ Goto(p, "exchange")
    /\ UNCHANGED <<tables, cache, provider, job>>

(* takeValue(), second half: DEL, whether or not the value is still there. *)
TakeValueDel(p) ==
    /\ pc[p] = "del"
    /\ cache' = [cache EXCEPT ![FlowOf[job[p].code]] = "gone"]
    /\ Goto(p, "exchange")
    /\ UNCHANGED <<tables, provider, job>>

(* Mutant of ExchangeCode: the claims have no address. *)
ExchangeForSubject(p) ==
    LET c == job[p].code
    IN  /\ pc[p] = "exchange"
        /\ IF c \in spent
           THEN Refuse(p)
           ELSE /\ spent' = spent \cup {c}
                /\ Goto(p, "external")
                /\ UNCHANGED <<tables, cache, mail, renamed, job>>

(***************************************************************************)
(* client.callback(): the identity provider exchanges a code once, for     *)
(* claims with the address the person has now.                             *)
(***************************************************************************)
ExchangeCode(p) ==
    LET c == job[p].code
    IN  /\ pc[p] = "exchange"
        /\ IF c \in spent
           THEN Refuse(p)
           ELSE /\ spent' = spent \cup {c}
                /\ job' = [job EXCEPT ![p].email = mail[PersonOf[c]]]
                /\ Goto(p, "external")
                /\ UNCHANGED <<tables, cache, mail, renamed>>

-----------------------------------------------------------------------------
(* upsertFromIdentity().                                                   *)

Subject(p) == PersonOf[job[p].code]

(* A user with this external id is updated; otherwise the address decides. *)
MatchExternalId(p) ==
    /\ pc[p] = "external"
    /\ \/ \E u \in WithExternalId(Subject(p)) :
            /\ job' = [job EXCEPT ![p].user = u]
            /\ Goto(p, "profile")
       \/ /\ WithExternalId(Subject(p)) = {}
          /\ Goto(p, "email")
          /\ job' = job
    /\ UNCHANGED <<tables, cache, provider>>

MatchEmail(p) ==
    /\ pc[p] = "email"
    /\ \/ \E u \in WithEmail(job[p].email) :
            /\ job' = [job EXCEPT ![p].user = u]
            /\ Goto(p, "link")
       \/ /\ WithEmail(job[p].email) = {}
          /\ Goto(p, "create")
          /\ job' = job
    /\ UNCHANGED <<tables, cache, provider>>

(* The row as written is looked at: "Account is inactive", or a session. *)
Admit(p, row) == IF row.active THEN Goto(p, "issue") /\ job' = job ELSE Finish(p)

(* The unique index on e-mail addresses refuses an address another row has. *)
UpdateProfile(p) ==
    LET u == job[p].user
    IN  /\ pc[p] = "profile"
        /\ IF WithEmail(job[p].email) \ {u} # {}
           THEN Refuse(p)
           ELSE /\ users' = [users EXCEPT ![u].email = job[p].email]
                /\ Admit(p, users[u])
                /\ UNCHANGED <<sessions, logins, cache, provider>>

(* Mutant of LinkExternalId: the row that has the address is taken as it is. *)
TakeByEmail(p) ==
    /\ pc[p] = "link"
    /\ Admit(p, users[job[p].user])
    /\ UNCHANGED <<tables, cache, provider>>

(***************************************************************************)
(* Whoever the row was linked to before, it is linked to this person now,  *)
(* unless another row is: external ids are unique in a company.            *)
(***************************************************************************)
LinkExternalId(p) ==
    LET u == job[p].user
    IN  /\ pc[p] = "link"
        /\ IF WithExternalId(Subject(p)) \ {u} # {}
           THEN Refuse(p)
           ELSE /\ users' = [users EXCEPT ![u].ext = Subject(p)]
                /\ Admit(p, users[u])
                /\ UNCHANGED <<sessions, logins, cache, provider>>

(***************************************************************************)
(* Two first sign-ins of one person race to this: the unique indexes on    *)
(* addresses and on external ids let one of them insert.                   *)
(***************************************************************************)
CreateUser(p) ==
    /\ pc[p] = "create"
    /\ IF WithEmail(job[p].email) \cup WithExternalId(Subject(p)) # {}
       THEN Refuse(p)
       ELSE /\ \E u \in User \ Known :
                 /\ users' = [users EXCEPT ![u] =
                       [email |-> job[p].email, ext |-> Subject(p),
                        active |-> TRUE, password |-> FALSE]]
                 /\ job' = [job EXCEPT ![p].user = u]
            /\ Goto(p, "issue")
            /\ UNCHANGED <<sessions, logins, cache, provider>>

-----------------------------------------------------------------------------
(* The surroundings: no operation of this half of the API writes isActive. *)
SetActive(u, on) ==
    /\ u \in Known
    /\ users' = [users EXCEPT ![u].active = on]
    /\ UNCHANGED <<sessions, logins, cache, provider, pc, job>>

(* The address of a person changes at the identity provider. *)
ChangeMail(x, e) ==
    /\ mail[x] # e
    /\ mail' = [mail EXCEPT ![x] = e]
    /\ renamed' = TRUE
    /\ UNCHANGED <<tables, cache, spent, pc, job>>

(* The handler throws or its process dies; what it wrote stays. *)
Crash(p) ==
    /\ pc[p] # "idle"
    /\ Refuse(p)

Step(p) ==
    \/ RecordLoginAttempt(p) \/ RevokeSession(p) \/ IssueSession(p)
    \/ TakeValueDel(p) \/ ExchangeCode(p)
    \/ MatchExternalId(p) \/ MatchEmail(p)
    \/ UpdateProfile(p) \/ LinkExternalId(p) \/ CreateUser(p)

Next ==
    \/ \E p \in Proc : Login(p) \/ Refresh(p) \/ TakeValueGet(p) \/ Step(p) \/ Crash(p)
    \/ \E f \in State : GetAuthorizationUrl(f) \/ ExpireState(f)
    \/ \E u \in User, on \in BOOLEAN : SetActive(u, on)
    \/ \E x \in Person, e \in Email : ChangeMail(x, e)

Spec == Init /\ [][Next]_vars

-----------------------------------------------------------------------------
Job == [user : User \cup {NoUser}, email : Email \cup {NoEmail},
        code : Code \cup {NoCode}, old : Session \cup {NoSession},
        login : Session \cup {NoSession}, new : Session \cup {NoSession}]

(* Every table holds its rows and every handler the values it has read. *)
TypeOK ==
    /\ users \in [User -> Row \cup {NoRow}]
    /\ sessions \in [Session -> SessionRow \cup {Unused}]
    /\ logins \subseteq Session \X User
    /\ cache \in [State -> {"unset", "stored", "gone"}]
    /\ mail \in [Person -> Email]
    /\ spent \subseteq Code
    /\ renamed \in BOOLEAN
    /\ pc \in [Proc -> {"idle", "record", "revoke", "issue", "del", "exchange",
                        "external", "email", "profile", "link", "create"}]
    /\ job \in [Proc -> Job]

(***************************************************************************)
(* A sign-in is one chain of sessions, and refreshing replaces its last    *)
(* link: while the client waits for the answer to a refresh before it      *)
(* presents the token again, a chain never has two sessions that can be    *)
(* refreshed - not even after a refresh that was cut off half-way.         *)
(***************************************************************************)
OneLivePerLogin ==
    Patient => \A s, t \in Live : sessions[s].login = sessions[t].login => s = t

(***************************************************************************)
(* A state that has signed somebody in is of no more use: a callback that  *)
(* begins after a session was issued for it is refused, whatever code it   *)
(* comes with and however the callbacks before it overlapped.              *)
(***************************************************************************)
StateNotReplayed ==
    [][\A p \in Proc :
         pc[p] = "idle" /\ pc'[p] = "del" =>
             \A s \in Session :
                 sessions[s].code # NoCode =>
                     FlowOf[sessions[s].code] # FlowOf[job'[p].code]]_vars

(***************************************************************************)
(* Every session goes back to a sign-in that is accounted for: a password  *)
(* login of this user in LoginHistory, or a code that was redeemed.        *)
(***************************************************************************)
SignInsAccountedFor ==
    \A s \in Session :
        sessions[s] # Unused =>
            IF sessions[s].code = NoCode
            THEN <<sessions[s].login, sessions[s].user>> \in logins
            ELSE sessions[s].code \in spent

(* Every person has an address of its own and has kept it. *)
AddressesSteady ==
    ~renamed /\ \A x, y \in Person : mail[x] = mail[y] => x = y

(***************************************************************************)
(* While that is so, a session begun at the identity provider belongs to   *)
(* the row that is linked to the person who authenticated: rows are found  *)
(* by external id or by address, linked, relinked and created by handlers  *)
(* that interleave, and the session is issued after all of that.           *)
(***************************************************************************)
SignedInAsThemselves ==
    AddressesSteady =>
        \A s \in Session :
            sessions[s].code # NoCode =>
                users[sessions[s].user].ext = PersonOf[sessions[s].code]

-----------------------------------------------------------------------------
(* What the code says of itself and does not keep.                         *)

(***************************************************************************)
(* "Once a refresh token is exchanged we immediately revoke it             *)
(* (single-use)": however the client sends its requests, no token is       *)
(* exchanged for two sessions.                                             *)
(***************************************************************************)
RefreshSingleUse ==
    \A s, t \in Session :
        sessions[s].old # NoSession /\ sessions[s].old = sessions[t].old => s = t

(***************************************************************************)
(* "So a state/nonce value can never be reused even if a callback fires    *)
(* twice": all sessions of one state continue one sign-in.                 *)
(***************************************************************************)
StateSingleUse ==
    \A s, t \in Session :
        /\ sessions[s].code # NoCode
        /\ sessions[t].code # NoCode
        /\ FlowOf[sessions[s].code] = FlowOf[sessions[t].code]
        => sessions[s].login = sessions[t].login
=============================================================================
