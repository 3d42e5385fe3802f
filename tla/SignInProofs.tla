---------------------------- MODULE SignInProofs ----------------------------
(***************************************************************************)
(* Proofs about SignIn, for any number of handlers, users, persons,        *)
(* sessions and codes: the types are kept, a sign-in has one session that  *)
(* can be refreshed, every session is accounted for, a state that has      *)
(* signed somebody in is refused, and people are signed in as themselves.  *)
(***************************************************************************)
EXTENDS SignIn, TLAPS

(* The awaits of a callback, and those after its code has been redeemed. *)
Redeemed == {"external", "email", "profile", "link", "create"}
SingleSignOn == {"del", "exchange"} \cup Redeemed

(***************************************************************************)
(* What a handler at an await knows: a fresh id for the session it is to   *)
(* create; a user, a code and an address once it has read them; that its   *)
(* sign-in is accounted for when it issues the session; and the session    *)
(* that it refreshes.                                                      *)
(***************************************************************************)
JobOK(where, j) ==
    /\ where # "idle" => j.new \in Session /\ sessions[j.new] = Unused
    /\ where \in {"record", "issue"} => j.user \in User
    /\ where \in {"profile", "link"} => j.user \in Known
    /\ where \in SingleSignOn => j.code \in Code
    /\ where \in Redeemed => j.code \in spent /\ j.email \in Email
    /\ where = "record" => j.code = NoCode
    /\ where \in SingleSignOn \cup {"record"} => j.login = j.new /\ j.old = NoSession
    /\ where = "revoke" =>
        /\ j.old \in Session
        /\ sessions[j.old] # Unused
        /\ j.user = sessions[j.old].user
        /\ j.code = sessions[j.old].code
        /\ j.login = sessions[j.old].login
    /\ where = "issue" =>
        /\ j.login \in Session
        /\ IF j.code = NoCode THEN <<j.login, j.user>> \in logins ELSE j.code \in spent
        /\ \/ j.old = NoSession /\ j.login = j.new
           \/ j.old \in Session /\ sessions[j.old] # Unused /\ sessions[j.old].login = j.login

JobsOK == \A p \in Proc : JobOK(pc[p], job[p])

(* No two handlers are about to create the same session. *)
OwnSessions ==
    \A p, q \in Proc : pc[p] # "idle" /\ job[p].new = job[q].new => p = q

(* A chain of sessions begins with one that exists. *)
ChainsRooted ==
    \A s \in Session : sessions[s] # Unused => sessions[sessions[s].login] # Unused

(* What the handlers know and the sessions they have made. *)
AccountInv ==
    /\ TypeOK
    /\ JobsOK
    /\ OwnSessions
    /\ ChainsRooted
    /\ SignInsAccountedFor

(***************************************************************************)
(* While clients wait for their answers: a handler that is about to revoke *)
(* a session finds it live, and one that is about to issue a session finds *)
(* no live one of its sign-in; no two handlers refresh one session, or     *)
(* issue one of the same sign-in.                                          *)
(***************************************************************************)
ChainsHeld ==
    /\ \A p \in Proc : pc[p] = "revoke" => ~sessions[job[p].old].revoked
    /\ \A p \in Proc, s \in Live : pc[p] = "issue" => sessions[s].login # job[p].login
    /\ \A p, q \in Proc : pc[p] = "revoke" /\ job[p].old = job[q].old => p = q
    /\ \A p, q \in Proc :
        pc[p] = "issue" /\ pc[q] = "issue" /\ job[p].login = job[q].login => p = q
    /\ \A s, t \in Live : sessions[s].login = sessions[t].login => s = t

ChainInv == Patient => ChainsHeld

(* The awaits of a handler that has taken the value of a state, or goes on from one that has. *)
Taken == {"exchange", "revoke", "issue"} \cup Redeemed

(* Once a handler has taken the value, and while a session of it exists, it is not stored. *)
StateInv ==
    /\ \A p \in Proc :
        pc[p] \in Taken /\ job[p].code # NoCode => cache[FlowOf[job[p].code]] = "gone"
    /\ \A s \in Session :
        sessions[s].code # NoCode => cache[FlowOf[sessions[s].code]] = "gone"

(* No two rows have one address. *)
AddressesUnique == \A u, v \in Known : users[u].email = users[v].email => u = v

(***************************************************************************)
(* Until an address changes, the rows linked to a person and the handlers  *)
(* that sign the person in all have the address the provider has.          *)
(***************************************************************************)
AddressesCurrent ==
    /\ \A u \in Known : users[u].ext # NoPerson => users[u].email = mail[users[u].ext]
    /\ \A p \in Proc : pc[p] \in Redeemed => job[p].email = mail[Subject(p)]
    /\ \A p \in Proc : pc[p] \in {"profile", "link"} => users[job[p].user].email = job[p].email

PersonInv == AddressesUnique /\ (~renamed => AddressesCurrent)

(***************************************************************************)
(* The row that a handler has found by external id, is about to issue a    *)
(* session for, or has issued one for, is linked to the person.            *)
(***************************************************************************)
Themselves ==
    /\ \A p \in Proc :
        pc[p] \in {"profile", "revoke", "issue"} /\ job[p].code # NoCode =>
            users[job[p].user].ext = PersonOf[job[p].code]
    /\ \A s \in Session :
        sessions[s].code # NoCode => users[sessions[s].user].ext = PersonOf[sessions[s].code]

SelfInv == AddressesSteady => Themselves

-----------------------------------------------------------------------------
Places == {"idle", "record", "revoke", "issue"} \cup SingleSignOn

(* An absent row is no row, and a job without a session reserves none. *)
LEMMA AbsentValues ==
    /\ NoRow \notin Row
    /\ Unused \notin SessionRow
    /\ NoJob \in Job
    /\ NoJob.new = NoSession /\ NoJob.new \notin Session
    /\ NoJob.old = NoSession /\ NoJob.old \notin Session
    /\ NoJob.code = NoCode /\ NoJob.login = NoSession
    /\ Unused.revoked /\ Unused.code = NoCode
  <1>1. NoRow \notin Row
    BY SignInAssumption DEF NoRow, Row
  <1>2. Unused \notin SessionRow
    BY SignInAssumption DEF Unused, SessionRow
  <1>3. NoJob \in Job
    BY DEF NoJob, Job
  <1>4. QED
    BY <1>1, <1>2, <1>3, SignInAssumption DEF NoJob, Unused

(* No session is created, and none changes but for being revoked. *)
SameLinks ==
    \A s \in Session :
        /\ sessions'[s] = Unused <=> sessions[s] = Unused
        /\ sessions'[s].user = sessions[s].user
        /\ sessions'[s].login = sessions[s].login
        /\ sessions'[s].code = sessions[s].code

(* The parts of the account that a handler's step leaves alone if it creates no session. *)
LEMMA SameSessions ==
    ASSUME AccountInv, SameLinks, logins \subseteq logins', spent \subseteq spent'
    PROVE  ChainsRooted' /\ SignInsAccountedFor'
  <1>1. \A s \in Session : sessions[s] # Unused => sessions[s].login \in Session
    BY DEF AccountInv, TypeOK, SessionRow
  <1>2. ChainsRooted'
    BY <1>1 DEF AccountInv, ChainsRooted, SameLinks
  <1>3. SignInsAccountedFor'
    BY DEF AccountInv, SignInsAccountedFor, SameLinks
  <1>4. QED
    BY <1>2, <1>3

(* What a handler knows stays true while the tables only grow. *)
LEMMA JobKept ==
    ASSUME NEW where, NEW j, JobOK(where, j), SameLinks,
           Known \subseteq Known', logins \subseteq logins', spent \subseteq spent'
    PROVE  JobOK(where, j)'
  BY DEF JobOK, SameLinks

(* A handler goes on to another await, with a job that fits there. *)
LEMMA MoveAccount ==
    ASSUME AccountInv, NEW p \in Proc, NEW where \in Places \ {"idle"}, NEW j \in Job,
           JobOK(where, j)', Goto(p, where), job' = [job EXCEPT ![p] = j],
           \A q \in Proc : q # p => job[q].new # j.new,
           SameLinks, Known \subseteq Known',
           logins \subseteq logins', spent \subseteq spent', TypeOK'
    PROVE  AccountInv'
  <1>1. /\ pc'[p] = where
        /\ job'[p] = j
        /\ \A q \in Proc : q # p => pc'[q] = pc[q] /\ job'[q] = job[q]
    BY DEF AccountInv, TypeOK, Goto
  <1>2. JobsOK'
    <2> SUFFICES ASSUME NEW q \in Proc PROVE JobOK(pc[q], job[q])'
      BY DEF JobsOK
    <2>1. CASE q = p
      BY <1>1, <2>1 DEF JobOK
    <2>2. CASE q # p
      <3>1. PICK there, k : there = pc[q] /\ k = job[q]
        OBVIOUS
      <3>2. JobOK(there, k)
        BY <3>1 DEF AccountInv, JobsOK, JobOK
      <3>3. JobOK(there, k)'
        BY <3>2, JobKept
      <3>4. QED
        BY <1>1, <2>2, <3>1, <3>3 DEF JobOK
    <2>3. QED
      BY <2>1, <2>2
  <1>3. OwnSessions'
    BY <1>1 DEF AccountInv, OwnSessions
  <1>4. QED
    BY <1>2, <1>3, SameSessions DEF AccountInv

(* A handler ends without creating a session. *)
LEMMA FinishAccount ==
    ASSUME AccountInv, NEW p \in Proc, Finish(p), SameLinks, Known \subseteq Known',
           logins \subseteq logins', spent \subseteq spent', TypeOK'
    PROVE  AccountInv'
  <1>1. /\ pc'[p] = "idle"
        /\ job'[p] = NoJob
        /\ \A q \in Proc : q # p => pc'[q] = pc[q] /\ job'[q] = job[q]
    BY DEF AccountInv, TypeOK, Finish, Goto
  <1>2. JobsOK'
    <2> SUFFICES ASSUME NEW q \in Proc PROVE JobOK(pc[q], job[q])'
      BY DEF JobsOK
    <2>1. CASE q = p
      BY <1>1, <2>1 DEF JobOK, SingleSignOn, Redeemed
    <2>2. CASE q # p
      <3>1. PICK there, k : there = pc[q] /\ k = job[q]
        OBVIOUS
      <3>2. JobOK(there, k)
        BY <3>1 DEF AccountInv, JobsOK, JobOK
      <3>3. JobOK(there, k)'
        BY <3>2, JobKept
      <3>4. QED
        BY <1>1, <2>2, <3>1, <3>3 DEF JobOK
    <2>3. QED
      BY <2>1, <2>2
  <1>3. OwnSessions'
    <2>1. \A q \in Proc : pc[q] # "idle" => job[q].new # NoJob.new
      BY AbsentValues DEF AccountInv, JobsOK, JobOK
    <2>2. QED
      BY <1>1, <2>1 DEF AccountInv, OwnSessions
  <1>4. QED
    BY <1>2, <1>3, SameSessions DEF AccountInv

LEMMA RefuseAccount ==
    ASSUME AccountInv, NEW p \in Proc, Refuse(p)
    PROVE  AccountInv'
  <1>1. /\ Finish(p)
        /\ UNCHANGED <<users, sessions, logins, spent, cache, mail, renamed>>
    BY DEF Refuse, tables, provider
  <1>2. TypeOK'
    BY <1>1, AbsentValues DEF AccountInv, TypeOK, Finish, Goto
  <1>3. SameLinks /\ Known \subseteq Known'
    BY <1>1 DEF Known, SameLinks
  <1>4. QED
    BY <1>1, <1>2, <1>3, FinishAccount

LEMMA InitAccount == Init => AccountInv
  <1> SUFFICES ASSUME Init PROVE AccountInv
    OBVIOUS
  <1> USE DEF Init
  <1>1. TypeOK
    <2>1. users \in [User -> Row \cup {NoRow}]
      BY DEF Row
    <2>2. QED
      BY <2>1, AbsentValues DEF TypeOK
  <1>2. JobsOK
    BY DEF JobsOK, JobOK, SingleSignOn, Redeemed
  <1>3. OwnSessions /\ ChainsRooted /\ SignInsAccountedFor
    BY DEF OwnSessions, ChainsRooted, SignInsAccountedFor
  <1>4. QED
    BY <1>1, <1>2, <1>3 DEF AccountInv

-----------------------------------------------------------------------------
(* A handler begins: with a password, with a callback, with a refresh token. *)
LEMMA LoginAccount ==
    ASSUME AccountInv, NEW p \in Proc, Login(p)
    PROVE  AccountInv'
  <1>1. PICK u \in Known, s \in Session :
          /\ Fresh(s)
          /\ job' = [job EXCEPT ![p] = [NoJob EXCEPT !.user = u, !.login = s, !.new = s]]
    BY DEF Login
  <1> DEFINE j == [NoJob EXCEPT !.user = u, !.login = s, !.new = s]
  <1>2. /\ j \in Job
        /\ j.user = u /\ j.login = s /\ j.new = s /\ j.code = NoCode /\ j.old = NoSession
    BY DEF NoJob, Job, Known
  <1> HIDE DEF j
  <1>3. /\ Goto(p, "record")
        /\ UNCHANGED <<users, sessions, logins, cache, mail, spent, renamed>>
        /\ job' = [job EXCEPT ![p] = j]
    BY <1>1 DEF Login, tables, provider, j
  <1>4. TypeOK'
    BY <1>2, <1>3 DEF AccountInv, TypeOK, Goto
  <1>5. JobOK("record", j)'
    BY <1>1, <1>2, <1>3 DEF JobOK, Fresh, Known, SingleSignOn, Redeemed
  <1>6. \A q \in Proc : q # p => job[q].new # j.new
    BY <1>1, <1>2 DEF Fresh
  <1>7. "record" \in Places \ {"idle"} /\ SameLinks /\ Known \subseteq Known'
    BY <1>3 DEF Places, Known, SameLinks
  <1>8. QED
    BY <1>2, <1>3, <1>4, <1>5, <1>6, <1>7, MoveAccount

LEMMA TakeValueGetAccount ==
    ASSUME AccountInv, NEW p \in Proc, TakeValueGet(p)
    PROVE  AccountInv'
  <1>1. PICK c \in Code, s \in Session :
          /\ Fresh(s)
          /\ job' = [job EXCEPT ![p] = [NoJob EXCEPT !.code = c, !.login = s, !.new = s]]
    BY DEF TakeValueGet
  <1> DEFINE j == [NoJob EXCEPT !.code = c, !.login = s, !.new = s]
  <1>2. j \in Job /\ j.login = s /\ j.new = s /\ j.code = c /\ j.old = NoSession
    BY DEF NoJob, Job
  <1> HIDE DEF j
  <1>3. /\ Goto(p, "del")
        /\ UNCHANGED <<users, sessions, logins, cache, mail, spent, renamed>>
        /\ job' = [job EXCEPT ![p] = j]
    BY <1>1 DEF TakeValueGet, tables, provider, j
  <1>4. TypeOK'
    BY <1>2, <1>3 DEF AccountInv, TypeOK, Goto
  <1>5. JobOK("del", j)'
    BY <1>1, <1>2, <1>3 DEF JobOK, Fresh, SingleSignOn, Redeemed
  <1>6. \A q \in Proc : q # p => job[q].new # j.new
    BY <1>1, <1>2 DEF Fresh
  <1>7. "del" \in Places \ {"idle"} /\ SameLinks /\ Known \subseteq Known'
    BY <1>3 DEF Places, Known, SameLinks, SingleSignOn
  <1>8. QED
    BY <1>2, <1>3, <1>4, <1>5, <1>6, <1>7, MoveAccount

LEMMA RefreshAccount ==
    ASSUME AccountInv, NEW p \in Proc, Refresh(p)
    PROVE  AccountInv'
  <1>1. PICK s \in Live, new \in Session :
          /\ Fresh(new)
          /\ job' = [job EXCEPT ![p] =
                [NoJob EXCEPT !.user = sessions[s].user, !.code = sessions[s].code,
                              !.old = s, !.login = sessions[s].login, !.new = new]]
    BY DEF Refresh
  <1>2. s \in Session /\ sessions[s] \in SessionRow /\ sessions[s] # Unused
    BY AbsentValues DEF Live, AccountInv, TypeOK
  <1>3. PICK r \in SessionRow : r = sessions[s]
    BY <1>2
  <1>4. PICK u \in User, c \in Code \cup {NoCode}, l \in Session :
          u = r.user /\ c = r.code /\ l = r.login
    BY DEF SessionRow
  <1> DEFINE j == [NoJob EXCEPT !.user = u, !.code = c, !.old = s, !.login = l, !.new = new]
  <1>5. /\ j \in Job
        /\ j.user = u /\ j.code = c /\ j.old = s /\ j.login = l /\ j.new = new
    BY <1>2 DEF NoJob, Job
  <1>6. j = [NoJob EXCEPT !.user = r.user, !.code = r.code, !.old = s, !.login = r.login, !.new = new]
    BY <1>4
  <1> HIDE DEF j
  <1>7. /\ Goto(p, "revoke")
        /\ UNCHANGED <<users, sessions, logins, cache, mail, spent, renamed>>
        /\ job' = [job EXCEPT ![p] = j]
    BY <1>1, <1>3, <1>6 DEF Refresh, tables, provider
  <1>8. TypeOK'
    BY <1>5, <1>7 DEF AccountInv, TypeOK, Goto
  <1>9. JobOK("revoke", j)'
    BY <1>1, <1>2, <1>3, <1>4, <1>5, <1>7 DEF JobOK, Fresh, SingleSignOn, Redeemed
  <1>10. \A q \in Proc : q # p => job[q].new # j.new
    BY <1>1, <1>5 DEF Fresh
  <1>11. "revoke" \in Places \ {"idle"} /\ SameLinks /\ Known \subseteq Known'
    BY <1>7 DEF Places, Known, SameLinks
  <1>12. QED
    BY <1>5, <1>7, <1>8, <1>9, <1>10, <1>11, MoveAccount

-----------------------------------------------------------------------------
(* The steps of a handler: the attempt is recorded, a session revoked, a session created. *)
LEMMA RecordAccount ==
    ASSUME AccountInv, NEW p \in Proc, RecordLoginAttempt(p)
    PROVE  AccountInv'
  <1>1. PICK j \in Job : j = job[p]
    BY DEF AccountInv, TypeOK
  <1>2. JobOK("record", j)
    BY <1>1 DEF RecordLoginAttempt, AccountInv, JobsOK
  <1>3. /\ j.user \in User /\ j.new \in Session /\ j.login = j.new
        /\ j.old = NoSession /\ j.code = NoCode /\ sessions[j.new] = Unused
    BY <1>2 DEF JobOK
  <1>4. /\ Goto(p, "issue") /\ pc[p] = "record"
        /\ logins' = logins \cup {<<j.login, j.user>>}
        /\ UNCHANGED <<users, sessions, cache, mail, spent, renamed>>
        /\ job' = [job EXCEPT ![p] = j]
    BY <1>1 DEF RecordLoginAttempt, provider, AccountInv, TypeOK
  <1>5. TypeOK'
    BY <1>3, <1>4 DEF AccountInv, TypeOK, Goto
  <1>6. JobOK("issue", j)'
    BY <1>3, <1>4 DEF JobOK, SingleSignOn, Redeemed
  <1>7. \A q \in Proc : q # p => job[q].new # j.new
    BY <1>1, <1>4 DEF AccountInv, OwnSessions
  <1>8. "issue" \in Places \ {"idle"} /\ SameLinks /\ Known \subseteq Known'
    BY <1>4 DEF Places, Known, SameLinks
  <1>9. QED
    BY <1>3, <1>4, <1>5, <1>6, <1>7, <1>8, MoveAccount

LEMMA RevokeAccount ==
    ASSUME AccountInv, NEW p \in Proc, RevokeSession(p)
    PROVE  AccountInv' /\ SameLinks
  <1>1. PICK j \in Job : j = job[p]
    BY DEF AccountInv, TypeOK
  <1>2. JobOK("revoke", j)
    BY <1>1 DEF RevokeSession, AccountInv, JobsOK
  <1>3. /\ j.new \in Session /\ sessions[j.new] = Unused
        /\ j.old \in Session /\ sessions[j.old] # Unused /\ sessions[j.old] \in SessionRow
        /\ j.user = sessions[j.old].user
        /\ j.code = sessions[j.old].code
        /\ j.login = sessions[j.old].login
    BY <1>2 DEF JobOK, AccountInv, TypeOK
  <1>4. /\ Goto(p, "issue") /\ pc[p] = "revoke"
        /\ sessions' = [sessions EXCEPT ![j.old].revoked = TRUE]
        /\ UNCHANGED <<users, logins, cache, mail, spent, renamed>>
        /\ job' = [job EXCEPT ![p] = j]
    BY <1>1 DEF RevokeSession, provider, AccountInv, TypeOK
  <1>5. PICK row \in SessionRow : row = [sessions[j.old] EXCEPT !.revoked = TRUE]
    BY <1>3 DEF SessionRow
  <1>6. /\ row.user = sessions[j.old].user
        /\ row.login = sessions[j.old].login
        /\ row.code = sessions[j.old].code
        /\ row # Unused
    BY <1>3, <1>5, AbsentValues DEF SessionRow
  <1>7. sessions' = [sessions EXCEPT ![j.old] = row]
    BY <1>4, <1>5
  <1>8. TypeOK'
    BY <1>4, <1>5, <1>7 DEF AccountInv, TypeOK, Goto
  <1>9. SameLinks
    BY <1>3, <1>6, <1>7 DEF SameLinks, AccountInv, TypeOK
  <1>10. j.user \in User /\ j.login \in Session
    BY <1>3 DEF SessionRow
  <1>11. IF j.code = NoCode THEN <<j.login, j.user>> \in logins ELSE j.code \in spent
    BY <1>3 DEF AccountInv, SignInsAccountedFor
  <1>12. JobOK("issue", j)'
    BY <1>3, <1>4, <1>9, <1>10, <1>11 DEF JobOK, SingleSignOn, Redeemed, SameLinks
  <1>13. \A q \in Proc : q # p => job[q].new # j.new
    BY <1>1, <1>4 DEF AccountInv, OwnSessions
  <1>14. "issue" \in Places \ {"idle"} /\ Known \subseteq Known'
    BY <1>4 DEF Places, Known
  <1>15. QED
    BY <1>4, <1>8, <1>9, <1>12, <1>13, <1>14, MoveAccount

(* What a handler that creates a session does. *)
LEMMA IssueEffect ==
    ASSUME AccountInv, NEW p \in Proc, IssueSession(p)
    PROVE  \E j \in Job, row \in SessionRow :
             /\ j = job[p] /\ JobOK("issue", j) /\ pc[p] = "issue"
             /\ row.user = j.user /\ row.login = j.login /\ row.code = j.code
             /\ row.old = j.old /\ ~row.revoked /\ row # Unused
             /\ j.new \in Session /\ sessions[j.new] = Unused
             /\ sessions' = [sessions EXCEPT ![j.new] = row]
             /\ Finish(p)
             /\ UNCHANGED <<users, logins, cache, mail, spent, renamed>>
  <1>1. PICK j \in Job : j = job[p]
    BY DEF AccountInv, TypeOK
  <1>2. JobOK("issue", j) /\ pc[p] = "issue"
    BY <1>1 DEF IssueSession, AccountInv, JobsOK
  <1>3. /\ j.new \in Session /\ sessions[j.new] = Unused
        /\ j.user \in User /\ j.login \in Session
    BY <1>2 DEF JobOK
  <1>4. j.code \in Code \cup {NoCode} /\ j.old \in Session \cup {NoSession}
    BY DEF Job
  <1> DEFINE row == [user |-> j.user, login |-> j.login, code |-> j.code,
                     old |-> j.old, revoked |-> FALSE]
  <1>5. row \in SessionRow /\ row # Unused
    BY <1>3, <1>4, AbsentValues DEF SessionRow
  <1>6. sessions' = [sessions EXCEPT ![j.new] = row]
    BY <1>1 DEF IssueSession
  <1>7. Finish(p) /\ UNCHANGED <<users, logins, cache, mail, spent, renamed>>
    BY DEF IssueSession, provider
  <1>8. /\ row.user = j.user /\ row.login = j.login /\ row.code = j.code
        /\ row.old = j.old /\ ~row.revoked
    OBVIOUS
  <1> HIDE DEF row
  <1>9. QED
    BY <1>1, <1>2, <1>3, <1>5, <1>6, <1>7, <1>8

LEMMA IssueAccount ==
    ASSUME AccountInv, NEW p \in Proc, IssueSession(p)
    PROVE  AccountInv'
  <1>1. PICK j \in Job, row \in SessionRow :
             /\ j = job[p] /\ JobOK("issue", j) /\ pc[p] = "issue"
             /\ row.user = j.user /\ row.login = j.login /\ row.code = j.code
             /\ row.old = j.old /\ ~row.revoked /\ row # Unused
             /\ j.new \in Session /\ sessions[j.new] = Unused
             /\ sessions' = [sessions EXCEPT ![j.new] = row]
             /\ Finish(p)
             /\ UNCHANGED <<users, logins, cache, mail, spent, renamed>>
    BY IssueEffect
  <1>2. TypeOK'
    BY <1>1, AbsentValues DEF AccountInv, TypeOK, Finish, Goto
  <1>3. /\ pc'[p] = "idle"
        /\ job'[p] = NoJob
        /\ \A q \in Proc : q # p => pc'[q] = pc[q] /\ job'[q] = job[q]
    BY <1>1 DEF AccountInv, TypeOK, Finish, Goto
  <1>4. /\ sessions'[j.new] = row
        /\ \A s \in Session : s # j.new => sessions'[s] = sessions[s]
    BY <1>1 DEF AccountInv, TypeOK
  <1>5. JobsOK'
    <2> SUFFICES ASSUME NEW q \in Proc PROVE JobOK(pc[q], job[q])'
      BY DEF JobsOK
    <2>1. CASE q = p
      BY <1>3, <2>1 DEF JobOK, SingleSignOn, Redeemed
    <2>2. CASE q # p
      <3>1. PICK there, k : there = pc[q] /\ k = job[q]
        OBVIOUS
      <3>2. JobOK(there, k)
        BY <3>1 DEF AccountInv, JobsOK, JobOK
      <3>3. k.new # j.new
        BY <1>1, <2>2, <3>1 DEF AccountInv, OwnSessions
      <3>4. Known' = Known
        BY <1>1 DEF Known
      <3>5. JobOK(there, k)'
        BY <1>1, <1>4, <3>2, <3>3, <3>4 DEF JobOK
      <3>6. QED
        BY <1>3, <2>2, <3>1, <3>5 DEF JobOK
    <2>3. QED
      BY <2>1, <2>2
  <1>6. OwnSessions'
    <2>1. \A q \in Proc : pc[q] # "idle" => job[q].new # NoJob.new
      BY AbsentValues DEF AccountInv, JobsOK, JobOK
    <2>2. QED
      BY <1>3, <2>1 DEF AccountInv, OwnSessions
  <1>7. \A s \in Session : sessions[s] # Unused => sessions[s].login \in Session
    BY DEF AccountInv, TypeOK, SessionRow
  <1>8. ChainsRooted'
    <2> SUFFICES ASSUME NEW s \in Session, sessions'[s] # Unused
                 PROVE  sessions'[sessions'[s].login] # Unused
      BY DEF ChainsRooted
    <2>1. CASE s = j.new
      <3>1. \/ j.login = j.new
            \/ j.old \in Session /\ sessions[j.old] # Unused /\ sessions[j.old].login = j.login
        BY <1>1 DEF JobOK
      <3>2. j.login \in Session /\ (j.login = j.new \/ sessions[j.login] # Unused)
        BY <1>1, <3>1 DEF JobOK, AccountInv, ChainsRooted
      <3>3. QED
        BY <1>1, <1>4, <2>1, <3>2
    <2>2. CASE s # j.new
      BY <1>1, <1>4, <1>7, <2>2 DEF AccountInv, ChainsRooted
    <2>3. QED
      BY <2>1, <2>2
  <1>9. SignInsAccountedFor'
    <2> SUFFICES ASSUME NEW s \in Session, sessions'[s] # Unused
                 PROVE  IF sessions'[s].code = NoCode
                        THEN <<sessions'[s].login, sessions'[s].user>> \in logins'
                        ELSE sessions'[s].code \in spent'
      BY DEF SignInsAccountedFor
    <2>1. CASE s = j.new
      BY <1>1, <1>4, <2>1 DEF JobOK
    <2>2. CASE s # j.new
      BY <1>1, <1>4, <2>2 DEF AccountInv, SignInsAccountedFor
    <2>3. QED
      BY <2>1, <2>2
  <1>10. QED
    BY <1>2, <1>5, <1>6, <1>8, <1>9 DEF AccountInv

-----------------------------------------------------------------------------
(* The steps of a callback. *)
LEMMA TakeValueDelAccount ==
    ASSUME AccountInv, NEW p \in Proc, TakeValueDel(p)
    PROVE  AccountInv'
  <1>1. PICK j \in Job : j = job[p]
    BY DEF AccountInv, TypeOK
  <1>2. JobOK("del", j)
    BY <1>1 DEF TakeValueDel, AccountInv, JobsOK
  <1>3. /\ Goto(p, "exchange") /\ pc[p] = "del"
        /\ cache' = [cache EXCEPT ![FlowOf[j.code]] = "gone"]
        /\ UNCHANGED <<users, sessions, logins, mail, spent, renamed>>
        /\ job' = [job EXCEPT ![p] = j]
    BY <1>1 DEF TakeValueDel, tables, provider, AccountInv, TypeOK
  <1>4. TypeOK'
    BY <1>3 DEF AccountInv, TypeOK, Goto
  <1>5. JobOK("exchange", j)'
    BY <1>2, <1>3 DEF JobOK, SingleSignOn, Redeemed
  <1>6. \A q \in Proc : q # p => job[q].new # j.new
    BY <1>1, <1>3 DEF AccountInv, OwnSessions
  <1>7. "exchange" \in Places \ {"idle"} /\ SameLinks /\ Known \subseteq Known'
    BY <1>3 DEF Places, Known, SameLinks, SingleSignOn
  <1>8. QED
    BY <1>3, <1>4, <1>5, <1>6, <1>7, MoveAccount

(* What a handler that redeems a code does. *)
LEMMA ExchangeEffect ==
    ASSUME AccountInv, NEW p \in Proc, ExchangeCode(p), ~Refuse(p)
    PROVE  \E i \in Job, j \in Job :
             /\ i = job[p] /\ JobOK("exchange", i) /\ pc[p] = "exchange"
             /\ i.code \in Code \ spent
             /\ spent' = spent \cup {i.code}
             /\ j.code = i.code /\ j.new = i.new /\ j.old = i.old /\ j.login = i.login
             /\ j.email = mail[PersonOf[i.code]] /\ j.email \in Email
             /\ job' = [job EXCEPT ![p] = j]
             /\ Goto(p, "external")
             /\ UNCHANGED <<users, sessions, logins, cache, mail, renamed>>
  <1>1. PICK i \in Job : i = job[p]
    BY DEF AccountInv, TypeOK
  <1>2. JobOK("exchange", i) /\ pc[p] = "exchange"
    BY <1>1 DEF ExchangeCode, AccountInv, JobsOK
  <1>3. i.code \in Code
    BY <1>2 DEF JobOK, SingleSignOn
  <1>4. /\ i.code \notin spent
        /\ spent' = spent \cup {i.code}
        /\ job' = [job EXCEPT ![p].email = mail[PersonOf[i.code]]]
        /\ Goto(p, "external")
        /\ UNCHANGED <<users, sessions, logins, cache, mail, renamed>>
    BY <1>1 DEF ExchangeCode, tables
  <1>5. PICK e \in Email : e = mail[PersonOf[i.code]]
    BY <1>3, SignInAssumption DEF AccountInv, TypeOK
  <1> DEFINE j == [i EXCEPT !.email = e]
  <1>6. /\ j \in Job /\ j.email = e
        /\ j.code = i.code /\ j.new = i.new /\ j.old = i.old /\ j.login = i.login
    BY DEF Job
  <1>7. job' = [job EXCEPT ![p] = j]
    BY <1>1, <1>4, <1>5
  <1> HIDE DEF j
  <1>8. QED
    BY <1>1, <1>2, <1>3, <1>4, <1>5, <1>6, <1>7

LEMMA ExchangeAccount ==
    ASSUME AccountInv, NEW p \in Proc, ExchangeCode(p)
    PROVE  AccountInv'
  <1>1. CASE Refuse(p)
    BY <1>1, RefuseAccount
  <1>2. CASE ~Refuse(p)
    <2>1. PICK i \in Job, j \in Job :
             /\ i = job[p] /\ JobOK("exchange", i) /\ pc[p] = "exchange"
             /\ i.code \in Code \ spent
             /\ spent' = spent \cup {i.code}
             /\ j.code = i.code /\ j.new = i.new /\ j.old = i.old /\ j.login = i.login
             /\ j.email = mail[PersonOf[i.code]] /\ j.email \in Email
             /\ job' = [job EXCEPT ![p] = j]
             /\ Goto(p, "external")
             /\ UNCHANGED <<users, sessions, logins, cache, mail, renamed>>
      BY <1>2, ExchangeEffect
    <2>2. TypeOK'
      BY <2>1 DEF AccountInv, TypeOK, Goto
    <2>3. JobOK("external", j)'
      BY <2>1 DEF JobOK, SingleSignOn, Redeemed
    <2>4. \A q \in Proc : q # p => job[q].new # j.new
      BY <2>1 DEF AccountInv, OwnSessions
    <2>5. "external" \in Places \ {"idle"} /\ SameLinks /\ Known \subseteq Known'
      BY <2>1 DEF Places, Known, SameLinks, SingleSignOn, Redeemed
    <2>6. spent \subseteq spent' /\ logins \subseteq logins'
      BY <2>1
    <2>7. QED
      BY <2>1, <2>2, <2>3, <2>4, <2>5, <2>6, MoveAccount
  <1>3. QED
    BY <1>1, <1>2

(* A row is found, or none: the handler keeps what it knows and may take the user. *)
LEMMA MatchAccount ==
    ASSUME AccountInv, NEW p \in Proc, pc[p] \in {"external", "email"},
           NEW where \in Redeemed, Goto(p, where),
           UNCHANGED <<users, sessions, logins, cache, mail, spent, renamed>>,
           \/ where \in {"profile", "link"} /\ \E u \in Known : job' = [job EXCEPT ![p].user = u]
           \/ where \in {"email", "create"} /\ job' = job
    PROVE  AccountInv'
  <1>1. PICK i \in Job : i = job[p]
    BY DEF AccountInv, TypeOK
  <1>2. JobOK(pc[p], i)
    BY <1>1 DEF AccountInv, JobsOK
  <1>3. /\ i.new \in Session /\ sessions[i.new] = Unused
        /\ i.code \in Code /\ i.code \in spent /\ i.email \in Email
        /\ i.login = i.new /\ i.old = NoSession
    BY <1>2 DEF JobOK, SingleSignOn, Redeemed
  <1>4. PICK j \in Job :
          /\ job' = [job EXCEPT ![p] = j]
          /\ j.new = i.new /\ j.code = i.code /\ j.email = i.email
          /\ j.login = i.login /\ j.old = i.old
          /\ where \in {"profile", "link"} => j.user \in Known
    <2>1. CASE where \in {"profile", "link"} /\ \E u \in Known : job' = [job EXCEPT ![p].user = u]
      <3>1. PICK u \in Known : job' = [job EXCEPT ![p].user = u]
        BY <2>1
      <3> DEFINE j == [i EXCEPT !.user = u]
      <3>2. /\ j \in Job /\ j.user = u /\ j.email = i.email
            /\ j.code = i.code /\ j.new = i.new /\ j.old = i.old /\ j.login = i.login
        BY DEF Job, Known
      <3>3. job' = [job EXCEPT ![p] = j]
        BY <1>1, <3>1
      <3> HIDE DEF j
      <3>4. QED
        BY <3>2, <3>3
    <2>2. CASE where \in {"email", "create"} /\ job' = job
      BY <1>1, <2>2 DEF AccountInv, TypeOK
    <2>3. QED
      BY <2>1, <2>2
  <1>5. TypeOK'
    BY <1>4 DEF AccountInv, TypeOK, Goto, Redeemed
  <1>6. JobOK(where, j)'
    BY <1>3, <1>4 DEF JobOK, SingleSignOn, Redeemed, Known
  <1>7. \A q \in Proc : q # p => job[q].new # j.new
    BY <1>1, <1>4 DEF AccountInv, OwnSessions
  <1>8. where \in Places \ {"idle"} /\ SameLinks /\ Known \subseteq Known'
    BY DEF Places, Known, SameLinks, SingleSignOn, Redeemed
  <1>9. QED
    BY <1>4, <1>5, <1>6, <1>7, <1>8, MoveAccount

LEMMA MatchExternalIdAccount ==
    ASSUME AccountInv, NEW p \in Proc, MatchExternalId(p)
    PROVE  AccountInv'
  <1>1. /\ pc[p] = "external"
        /\ UNCHANGED <<users, sessions, logins, cache, mail, spent, renamed>>
        /\ \/ Goto(p, "profile") /\ \E u \in Known : job' = [job EXCEPT ![p].user = u]
           \/ Goto(p, "email") /\ job' = job
    BY DEF MatchExternalId, WithExternalId, tables, provider
  <1>2. QED
    BY <1>1, MatchAccount DEF Redeemed

LEMMA MatchEmailAccount ==
    ASSUME AccountInv, NEW p \in Proc, MatchEmail(p)
    PROVE  AccountInv'
  <1>1. /\ pc[p] = "email"
        /\ UNCHANGED <<users, sessions, logins, cache, mail, spent, renamed>>
        /\ \/ Goto(p, "link") /\ \E u \in Known : job' = [job EXCEPT ![p].user = u]
           \/ Goto(p, "create") /\ job' = job
    BY DEF MatchEmail, WithEmail, tables, provider
  <1>2. QED
    BY <1>1, MatchAccount DEF Redeemed

(* A row is written, and the user admitted or not. *)
LEMMA WriteAccount ==
    ASSUME AccountInv, NEW p \in Proc, pc[p] \in Redeemed, NEW u \in User, NEW row \in Row,
           users' = [users EXCEPT ![u] = row],
           UNCHANGED <<sessions, logins, cache, mail, spent, renamed>>,
           \/ Finish(p)
           \/ Goto(p, "issue") /\ job[p].user \in User /\ job' = job
           \/ Goto(p, "issue") /\ job' = [job EXCEPT ![p].user = u]
    PROVE  AccountInv'
  <1>1. Known \subseteq Known' /\ SameLinks /\ users' \in [User -> Row \cup {NoRow}]
    <2>1. row # NoRow
      BY AbsentValues
    <2>2. QED
      BY <2>1 DEF Known, SameLinks, AccountInv, TypeOK
  <1>2. CASE Finish(p)
    <2>1. TypeOK'
      BY <1>1, <1>2, AbsentValues DEF AccountInv, TypeOK, Finish, Goto
    <2>2. QED
      BY <1>1, <1>2, <2>1, FinishAccount
  <1>3. CASE /\ Goto(p, "issue")
             /\ (job[p].user \in User /\ job' = job) \/ job' = [job EXCEPT ![p].user = u]
    <2>1. PICK i \in Job : i = job[p]
      BY DEF AccountInv, TypeOK
    <2>2. JobOK(pc[p], i)
      BY <2>1 DEF AccountInv, JobsOK
    <2>3. /\ i.new \in Session /\ sessions[i.new] = Unused
          /\ i.code \in Code /\ i.code \in spent
          /\ i.login = i.new /\ i.old = NoSession
      BY <2>2 DEF JobOK, SingleSignOn, Redeemed
    <2>4. PICK j \in Job :
            /\ job' = [job EXCEPT ![p] = j]
            /\ j.new = i.new /\ j.code = i.code /\ j.login = i.login /\ j.old = i.old
            /\ j.user \in User
      <3>1. CASE job[p].user \in User /\ job' = job
        BY <2>1, <3>1 DEF AccountInv, TypeOK
      <3>2. CASE job' = [job EXCEPT ![p].user = u]
        <4> DEFINE j == [i EXCEPT !.user = u]
        <4>1. /\ j \in Job /\ j.user = u
              /\ j.code = i.code /\ j.new = i.new /\ j.old = i.old /\ j.login = i.login
          BY DEF Job
        <4>2. job' = [job EXCEPT ![p] = j]
          BY <2>1, <3>2
        <4> HIDE DEF j
        <4>3. QED
          BY <4>1, <4>2
      <3>3. QED
        BY <1>3, <3>1, <3>2
    <2>5. TypeOK'
      BY <1>1, <1>3, <2>4 DEF AccountInv, TypeOK, Goto
    <2>6. i.code # NoCode
      BY <2>3, SignInAssumption
    <2>7. JobOK("issue", j)'
      BY <2>3, <2>4, <2>6 DEF JobOK, SingleSignOn, Redeemed
    <2>8. \A q \in Proc : q # p => job[q].new # j.new
      BY <2>1, <2>4 DEF AccountInv, OwnSessions, Redeemed
    <2>9. "issue" \in Places \ {"idle"}
      BY DEF Places
    <2>10. QED
      BY <1>1, <1>3, <2>4, <2>5, <2>7, <2>8, <2>9, MoveAccount
  <1>4. QED
    BY <1>2, <1>3

(* What a handler that writes the address of a known user does. *)
LEMMA ProfileEffect ==
    ASSUME AccountInv, NEW p \in Proc, UpdateProfile(p), ~Refuse(p)
    PROVE  \E u \in Known, row \in Row :
             /\ pc[p] = "profile" /\ u = job[p].user
             /\ row.email = job[p].email /\ row.ext = users[u].ext
             /\ WithEmail(job[p].email) \subseteq {u}
             /\ users' = [users EXCEPT ![u] = row]
             /\ UNCHANGED <<sessions, logins, cache, mail, spent, renamed>>
             /\ Finish(p) \/ (Goto(p, "issue") /\ job' = job)
  <1>1. PICK u \in Known : u = job[p].user /\ pc[p] = "profile"
    BY DEF UpdateProfile, AccountInv, JobsOK, JobOK
  <1>2. u \in User /\ users[u] \in Row
    BY DEF Known, AccountInv, TypeOK
  <1>3. PICK e \in Email : e = job[p].email
    BY <1>1 DEF AccountInv, JobsOK, JobOK, Redeemed
  <1>4. /\ WithEmail(job[p].email) \subseteq {u}
        /\ users' = [users EXCEPT ![u].email = e]
        /\ Finish(p) \/ (Goto(p, "issue") /\ job' = job)
        /\ UNCHANGED <<sessions, logins, cache, mail, spent, renamed>>
    BY <1>1, <1>3 DEF UpdateProfile, Admit, provider
  <1>5. PICK row \in Row : row = [users[u] EXCEPT !.email = e]
    BY <1>2 DEF Row
  <1>6. row.email = e /\ row.ext = users[u].ext
    BY <1>2, <1>5 DEF Row
  <1>7. QED
    BY <1>1, <1>3, <1>4, <1>5, <1>6

LEMMA ProfileAccount ==
    ASSUME AccountInv, NEW p \in Proc, UpdateProfile(p)
    PROVE  AccountInv'
  <1>1. CASE Refuse(p)
    BY <1>1, RefuseAccount
  <1>2. CASE ~Refuse(p)
    <2>1. PICK u \in Known, row \in Row :
             /\ pc[p] = "profile" /\ u = job[p].user
             /\ users' = [users EXCEPT ![u] = row]
             /\ UNCHANGED <<sessions, logins, cache, mail, spent, renamed>>
             /\ Finish(p) \/ (Goto(p, "issue") /\ job' = job)
      BY <1>2, ProfileEffect
    <2>2. QED
      BY <2>1, WriteAccount DEF Known, Redeemed
  <1>3. QED
    BY <1>1, <1>2

(* What a handler that links a person to a known user does. *)
LEMMA LinkEffect ==
    ASSUME AccountInv, NEW p \in Proc, LinkExternalId(p), ~Refuse(p)
    PROVE  \E u \in Known, row \in Row :
             /\ pc[p] = "link" /\ u = job[p].user
             /\ row.email = users[u].email /\ row.ext = Subject(p) /\ Subject(p) \in Person
             /\ users' = [users EXCEPT ![u] = row]
             /\ UNCHANGED <<sessions, logins, cache, mail, spent, renamed>>
             /\ Finish(p) \/ (Goto(p, "issue") /\ job' = job)
  <1>1. PICK u \in Known : u = job[p].user /\ pc[p] = "link"
    BY DEF LinkExternalId, AccountInv, JobsOK, JobOK
  <1>2. u \in User /\ users[u] \in Row
    BY DEF Known, AccountInv, TypeOK
  <1>3. job[p].code \in Code
    BY <1>1 DEF AccountInv, JobsOK, JobOK, SingleSignOn, Redeemed
  <1>4. PICK x \in Person : x = Subject(p)
    BY <1>3, SignInAssumption DEF Subject
  <1>5. /\ users' = [users EXCEPT ![u].ext = x]
        /\ Finish(p) \/ (Goto(p, "issue") /\ job' = job)
        /\ UNCHANGED <<sessions, logins, cache, mail, spent, renamed>>
    BY <1>1, <1>4 DEF LinkExternalId, Admit, provider
  <1>6. PICK row \in Row : row = [users[u] EXCEPT !.ext = x]
    BY <1>2 DEF Row
  <1>7. row.email = users[u].email /\ row.ext = x
    BY <1>2, <1>6 DEF Row
  <1>8. QED
    BY <1>1, <1>4, <1>5, <1>6, <1>7

LEMMA LinkAccount ==
    ASSUME AccountInv, NEW p \in Proc, LinkExternalId(p)
    PROVE  AccountInv'
  <1>1. CASE Refuse(p)
    BY <1>1, RefuseAccount
  <1>2. CASE ~Refuse(p)
    <2>1. PICK u \in Known, row \in Row :
             /\ pc[p] = "link" /\ u = job[p].user
             /\ users' = [users EXCEPT ![u] = row]
             /\ UNCHANGED <<sessions, logins, cache, mail, spent, renamed>>
             /\ Finish(p) \/ (Goto(p, "issue") /\ job' = job)
      BY <1>2, LinkEffect
    <2>2. QED
      BY <2>1, WriteAccount DEF Known, Redeemed
  <1>3. QED
    BY <1>1, <1>2

(* What a handler that creates a user does. *)
LEMMA CreateEffect ==
    ASSUME AccountInv, NEW p \in Proc, CreateUser(p), ~Refuse(p)
    PROVE  \E u \in User \ Known, row \in Row :
             /\ pc[p] = "create"
             /\ WithEmail(job[p].email) = {}
             /\ row.email = job[p].email /\ row.ext = Subject(p) /\ Subject(p) \in Person
             /\ users' = [users EXCEPT ![u] = row]
             /\ UNCHANGED <<sessions, logins, cache, mail, spent, renamed>>
             /\ Goto(p, "issue") /\ job' = [job EXCEPT ![p].user = u]
  <1>1. /\ pc[p] = "create"
        /\ WithEmail(job[p].email) = {}
        /\ Goto(p, "issue")
        /\ UNCHANGED <<sessions, logins, cache, mail, spent, renamed>>
    BY DEF CreateUser, provider
  <1>2. job[p].email \in Email /\ job[p].code \in Code
    BY <1>1 DEF AccountInv, JobsOK, JobOK, SingleSignOn, Redeemed
  <1>3. PICK e \in Email, x \in Person : e = job[p].email /\ x = Subject(p)
    BY <1>2, SignInAssumption DEF Subject
  <1>4. PICK u \in User \ Known :
          /\ users' = [users EXCEPT ![u] =
                [email |-> e, ext |-> x, active |-> TRUE, password |-> FALSE]]
          /\ job' = [job EXCEPT ![p].user = u]
    BY <1>3 DEF CreateUser
  <1>5. PICK row \in Row : row = [email |-> e, ext |-> x, active |-> TRUE, password |-> FALSE]
    BY DEF Row
  <1>6. row.email = e /\ row.ext = x
    BY <1>5
  <1>7. QED
    BY <1>1, <1>3, <1>4, <1>5, <1>6

LEMMA CreateAccount ==
    ASSUME AccountInv, NEW p \in Proc, CreateUser(p)
    PROVE  AccountInv'
  <1>1. CASE Refuse(p)
    BY <1>1, RefuseAccount
  <1>2. CASE ~Refuse(p)
    <2>1. PICK u \in User \ Known, row \in Row :
             /\ pc[p] = "create"
             /\ users' = [users EXCEPT ![u] = row]
             /\ UNCHANGED <<sessions, logins, cache, mail, spent, renamed>>
             /\ Goto(p, "issue") /\ job' = [job EXCEPT ![p].user = u]
      BY <1>2, CreateEffect
    <2>2. QED
      BY <2>1, WriteAccount DEF Redeemed
  <1>3. QED
    BY <1>1, <1>2

-----------------------------------------------------------------------------
(* The surroundings change no handler. *)
LEMMA OutsideAccount ==
    ASSUME AccountInv, UNCHANGED <<sessions, logins, spent, pc, job>>,
           Known \subseteq Known', TypeOK'
    PROVE  AccountInv'
  <1>1. SameLinks
    BY DEF SameLinks
  <1>2. JobsOK'
    BY DEF AccountInv, JobsOK, JobOK
  <1>3. OwnSessions'
    BY DEF AccountInv, OwnSessions
  <1>4. QED
    BY <1>1, <1>2, <1>3, SameSessions DEF AccountInv

(* What an administrator does to a row. *)
LEMMA SetActiveEffect ==
    ASSUME AccountInv, NEW u \in User, NEW on \in BOOLEAN, SetActive(u, on)
    PROVE  \E row \in Row :
             /\ u \in Known
             /\ row.email = users[u].email /\ row.ext = users[u].ext
             /\ users' = [users EXCEPT ![u] = row]
             /\ UNCHANGED <<sessions, logins, cache, mail, spent, renamed, pc, job>>
  <1>1. u \in Known /\ users[u] \in Row
    BY DEF SetActive, Known, AccountInv, TypeOK
  <1>2. PICK row \in Row : row = [users[u] EXCEPT !.active = on]
    BY <1>1 DEF Row
  <1>3. row.email = users[u].email /\ row.ext = users[u].ext
    BY <1>1, <1>2 DEF Row
  <1>4. /\ users' = [users EXCEPT ![u] = row]
        /\ UNCHANGED <<sessions, logins, cache, mail, spent, renamed, pc, job>>
    BY <1>2 DEF SetActive, provider
  <1>5. QED
    BY <1>1, <1>3, <1>4

(* The steps outside the handlers. *)
Surroundings ==
    \/ \E f \in State : GetAuthorizationUrl(f) \/ ExpireState(f)
    \/ \E u \in User, on \in BOOLEAN : SetActive(u, on)
    \/ \E x \in Person, e \in Email : ChangeMail(x, e)
    \/ UNCHANGED vars

LEMMA SurroundingsAccount ==
    ASSUME AccountInv, Surroundings
    PROVE  AccountInv'
  <1>1. CASE \E f \in State : GetAuthorizationUrl(f) \/ ExpireState(f)
    <2>1. TypeOK' /\ Known \subseteq Known' /\ UNCHANGED <<sessions, logins, spent, pc, job>>
      BY <1>1 DEF GetAuthorizationUrl, ExpireState, AccountInv, TypeOK, tables, provider, Known
    <2>2. QED
      BY <2>1, OutsideAccount
  <1>2. CASE \E u \in User, on \in BOOLEAN : SetActive(u, on)
    <2>1. PICK u \in User, row \in Row :
             /\ users' = [users EXCEPT ![u] = row]
             /\ UNCHANGED <<sessions, logins, cache, mail, spent, renamed, pc, job>>
      BY <1>2, SetActiveEffect
    <2>2. TypeOK' /\ Known \subseteq Known'
      BY <2>1, AbsentValues DEF AccountInv, TypeOK, Known
    <2>3. QED
      BY <2>1, <2>2, OutsideAccount
  <1>3. CASE \E x \in Person, e \in Email : ChangeMail(x, e)
    <2>1. TypeOK' /\ Known \subseteq Known' /\ UNCHANGED <<sessions, logins, spent, pc, job>>
      BY <1>3 DEF ChangeMail, AccountInv, TypeOK, tables, Known
    <2>2. QED
      BY <2>1, OutsideAccount
  <1>4. CASE UNCHANGED vars
    <2>1. TypeOK' /\ Known \subseteq Known' /\ UNCHANGED <<sessions, logins, spent, pc, job>>
      BY <1>4 DEF vars, AccountInv, TypeOK, Known
    <2>2. QED
      BY <2>1, OutsideAccount
  <1>5. QED
    BY <1>1, <1>2, <1>3, <1>4 DEF Surroundings

LEMMA NextAccount ==
    ASSUME AccountInv, [Next]_vars
    PROVE  AccountInv'
  <1>1. ASSUME NEW p \in Proc,
               Login(p) \/ Refresh(p) \/ TakeValueGet(p) \/ Step(p) \/ Crash(p)
        PROVE  AccountInv'
    BY <1>1, LoginAccount, RefreshAccount, TakeValueGetAccount, RecordAccount, RevokeAccount,
       IssueAccount, TakeValueDelAccount, ExchangeAccount, MatchExternalIdAccount,
       MatchEmailAccount, ProfileAccount, LinkAccount, CreateAccount, RefuseAccount
       DEF Step, Crash
  <1>2. QED
    BY <1>1, SurroundingsAccount DEF Next, Surroundings

(* The invariant of the handlers and the sessions they make. *)
LEMMA AccountInvariance == Spec => []AccountInv
  <1>1. Init => AccountInv
    BY InitAccount
  <1>2. AccountInv /\ [Next]_vars => AccountInv'
    BY NextAccount
  <1>3. QED
    BY <1>1, <1>2, PTL DEF Spec

(* Every table holds its rows, and every handler the values it has read. *)
THEOREM SignInTypes == Spec => []TypeOK
  <1>1. AccountInv => TypeOK
    BY DEF AccountInv
  <1>2. QED
    BY <1>1, AccountInvariance, PTL

(***************************************************************************)
(* Every session that was issued, by login or by refresh, goes back to a   *)
(* login of this user that is recorded, or to a code that was redeemed.    *)
(***************************************************************************)
THEOREM SignInsAreAccountedFor == Spec => []SignInsAccountedFor
  <1>1. AccountInv => SignInsAccountedFor
    BY DEF AccountInv
  <1>2. QED
    BY <1>1, AccountInvariance, PTL

-----------------------------------------------------------------------------
(***************************************************************************)
(* Most steps concern one handler, change no session, and either leave it  *)
(* with a sign-in that has no session yet or somewhere before that.        *)
(***************************************************************************)
Alone(p) == \A q \in Proc : q # p => pc'[q] = pc[q] /\ job'[q] = job[q]

SmallStep(p) ==
    \/ Login(p) \/ TakeValueGet(p) \/ RecordLoginAttempt(p)
    \/ TakeValueDel(p) \/ ExchangeCode(p)
    \/ MatchExternalId(p) \/ MatchEmail(p)
    \/ UpdateProfile(p) \/ LinkExternalId(p) \/ CreateUser(p) \/ Crash(p)

SmallEffect(p) ==
    /\ UNCHANGED sessions
    /\ Alone(p)
    /\ pc'[p] # "revoke"
    /\ job'[p].old \notin Session
    /\ pc'[p] = "issue" => job'[p].login = job'[p].new
    /\ pc'[p] \in Taken /\ job'[p].code # NoCode =>
        /\ job'[p].code = job[p].code
        /\ pc[p] \in Taken \/ cache'[FlowOf[job[p].code]] = "gone"

LEMMA SmallStepEffect ==
    ASSUME AccountInv, NEW p \in Proc, SmallStep(p)
    PROVE  SmallEffect(p)
  <1> USE DEF Alone, SmallEffect
  <1>1. CASE Login(p)
    <2>1. PICK u \in Known, s \in Session :
            job' = [job EXCEPT ![p] = [NoJob EXCEPT !.user = u, !.login = s, !.new = s]]
      BY <1>1 DEF Login
    <2>2. job'[p].old = NoSession /\ pc'[p] = "record"
      BY <1>1, <2>1 DEF Login, Goto, NoJob, AccountInv, TypeOK
    <2>3. Alone(p) /\ UNCHANGED sessions
      BY <1>1, <2>1 DEF Login, Goto, tables, AccountInv, TypeOK
    <2>4. QED
      BY <2>2, <2>3, SignInAssumption DEF Taken, Redeemed
  <1>2. CASE TakeValueGet(p)
    <2>1. PICK c \in Code, s \in Session :
            job' = [job EXCEPT ![p] = [NoJob EXCEPT !.code = c, !.login = s, !.new = s]]
      BY <1>2 DEF TakeValueGet
    <2>2. job'[p].old = NoSession /\ pc'[p] = "del"
      BY <1>2, <2>1 DEF TakeValueGet, Goto, NoJob, AccountInv, TypeOK
    <2>3. Alone(p) /\ UNCHANGED sessions
      BY <1>2, <2>1 DEF TakeValueGet, Goto, tables, AccountInv, TypeOK
    <2>4. QED
      BY <2>2, <2>3, SignInAssumption DEF Taken, Redeemed
  <1>3. CASE Refuse(p)
    <2>1. job'[p] = NoJob /\ pc'[p] = "idle" /\ Alone(p) /\ UNCHANGED sessions
      BY <1>3 DEF Refuse, Finish, Goto, tables, AccountInv, TypeOK
    <2>2. QED
      BY <2>1, AbsentValues DEF Taken, Redeemed
  <1>4. CASE RecordLoginAttempt(p)
    <2>1. job[p].old = NoSession /\ job[p].login = job[p].new /\ job[p].code = NoCode
      BY <1>4 DEF RecordLoginAttempt, AccountInv, JobsOK, JobOK
    <2>2. job' = job /\ pc'[p] = "issue" /\ Alone(p) /\ UNCHANGED sessions
      BY <1>4 DEF RecordLoginAttempt, Goto, AccountInv, TypeOK
    <2>3. QED
      BY <2>1, <2>2, SignInAssumption DEF Taken
  <1>5. CASE TakeValueDel(p)
    <2>1. job[p].old = NoSession
      BY <1>5 DEF TakeValueDel, AccountInv, JobsOK, JobOK, SingleSignOn
    <2>2. job' = job /\ pc'[p] = "exchange" /\ Alone(p) /\ UNCHANGED sessions
      BY <1>5 DEF TakeValueDel, Goto, tables, AccountInv, TypeOK
    <2>3. FlowOf[job[p].code] \in State
      BY <1>5, SignInAssumption DEF TakeValueDel, AccountInv, JobsOK, JobOK, SingleSignOn
    <2>4. cache'[FlowOf[job[p].code]] = "gone"
      BY <1>5, <2>3 DEF TakeValueDel, AccountInv, TypeOK
    <2>5. QED
      BY <2>1, <2>2, <2>4, SignInAssumption DEF Taken, Redeemed
  <1>6. CASE ExchangeCode(p) /\ ~Refuse(p)
    <2>1. PICK i \in Job, j \in Job :
             /\ i = job[p] /\ JobOK("exchange", i) /\ pc[p] = "exchange"
             /\ i.code \in Code \ spent
             /\ j.code = i.code /\ j.new = i.new /\ j.old = i.old /\ j.login = i.login
             /\ job' = [job EXCEPT ![p] = j]
             /\ Goto(p, "external")
             /\ UNCHANGED <<users, sessions, logins, cache, mail, renamed>>
      BY <1>6, ExchangeEffect
    <2>2. i.old = NoSession
      BY <2>1 DEF JobOK, SingleSignOn
    <2>3. job'[p] = j /\ pc'[p] = "external" /\ Alone(p)
      BY <2>1 DEF Goto, AccountInv, TypeOK
    <2>4. QED
      BY <2>1, <2>2, <2>3, SignInAssumption DEF Taken
  <1>7. ASSUME pc[p] \in Redeemed, Alone(p), pc'[p] \in Redeemed \cup {"issue"},
               UNCHANGED sessions,
               \/ job' = job
               \/ \E u \in User : job' = [job EXCEPT ![p].user = u]
        PROVE  SmallEffect(p)
    <2>1. job[p].old = NoSession /\ job[p].login = job[p].new /\ job[p] \in Job
      BY <1>7 DEF AccountInv, JobsOK, JobOK, TypeOK, SingleSignOn
    <2>2. /\ job'[p].old = job[p].old /\ job'[p].login = job[p].login
          /\ job'[p].new = job[p].new /\ job'[p].code = job[p].code
      BY <1>7, <2>1 DEF AccountInv, TypeOK, Job
    <2>3. QED
      BY <1>7, <2>1, <2>2, SignInAssumption DEF Taken, Redeemed
  <1>8. CASE MatchExternalId(p) \/ MatchEmail(p)
    <2>1. /\ pc[p] \in Redeemed /\ pc'[p] \in Redeemed /\ Alone(p) /\ UNCHANGED sessions
          /\ \/ job' = job
             \/ \E u \in User : job' = [job EXCEPT ![p].user = u]
      BY <1>8 DEF MatchExternalId, MatchEmail, WithExternalId, WithEmail, Known, Goto, tables,
                  Redeemed, AccountInv, TypeOK
    <2>2. QED
      BY <1>7, <2>1
  <1>9. ASSUME NEW where \in {"profile", "link"}, pc[p] = where, UNCHANGED sessions,
               Finish(p) \/ (Goto(p, "issue") /\ job' = job)
        PROVE  SmallEffect(p)
    <2>1. CASE Finish(p)
      <3>1. job'[p] = NoJob /\ pc'[p] = "idle" /\ Alone(p)
        BY <2>1 DEF Finish, Goto, AccountInv, TypeOK
      <3>2. QED
        BY <1>9, <3>1, AbsentValues DEF Taken, Redeemed
    <2>2. CASE Goto(p, "issue") /\ job' = job
      <3>1. pc[p] \in Redeemed /\ pc'[p] \in Redeemed \cup {"issue"} /\ Alone(p)
        BY <1>9, <2>2 DEF Goto, Redeemed, AccountInv, TypeOK
      <3>2. QED
        BY <1>7, <1>9, <2>2, <3>1
    <2>3. QED
      BY <1>9, <2>1, <2>2
  <1>10. CASE (UpdateProfile(p) \/ LinkExternalId(p)) /\ ~Refuse(p)
    BY <1>9, <1>10, ProfileEffect, LinkEffect
  <1>11. CASE CreateUser(p) /\ ~Refuse(p)
    <2>1. PICK u \in User : /\ pc[p] = "create" /\ UNCHANGED sessions
                            /\ Goto(p, "issue") /\ job' = [job EXCEPT ![p].user = u]
      BY <1>11, CreateEffect
    <2>2. pc[p] \in Redeemed /\ pc'[p] \in Redeemed \cup {"issue"} /\ Alone(p)
      BY <2>1 DEF Goto, Redeemed, AccountInv, TypeOK
    <2>3. QED
      BY <1>7, <2>1, <2>2
  <1>12. QED
    BY <1>1, <1>2, <1>3, <1>4, <1>5, <1>6, <1>8, <1>10, <1>11 DEF SmallStep, Crash

-----------------------------------------------------------------------------
(* One session that can be refreshed. *)
LEMMA SmallChain ==
    ASSUME AccountInv, AccountInv', ChainInv, NEW p \in Proc, SmallEffect(p)
    PROVE  ChainInv'
  <1> SUFFICES ASSUME Patient PROVE ChainsHeld'
    BY DEF ChainInv
  <1>1. ChainsHeld
    BY DEF ChainInv
  <1>2. /\ UNCHANGED sessions /\ pc'[p] # "revoke" /\ job'[p].old \notin Session
        /\ pc'[p] = "issue" => job'[p].login = job'[p].new
        /\ \A q \in Proc : q # p => pc'[q] = pc[q] /\ job'[q] = job[q]
    BY DEF SmallEffect, Alone
  <1>3. Live' = Live
    BY <1>2 DEF Live
  <1>4. \A q \in Proc : pc[q] = "revoke" => job[q].old \in Session
    BY DEF AccountInv, JobsOK, JobOK
  <1>5. \A s \in Live : sessions[s] # Unused /\ s \in Session
    BY AbsentValues DEF Live
  <1>6. pc'[p] = "issue" =>
          /\ sessions[job'[p].login] = Unused
          /\ \A s \in Session : sessions[s] # Unused => sessions[s].login # job'[p].login
    <2> SUFFICES ASSUME pc'[p] = "issue"
                 PROVE  /\ sessions[job'[p].login] = Unused
                        /\ \A s \in Session :
                             sessions[s] # Unused => sessions[s].login # job'[p].login
      OBVIOUS
    <2>1. JobOK(pc[p], job[p])'
      BY DEF AccountInv, JobsOK
    <2>2. sessions[job'[p].new] = Unused
      BY <1>2, <2>1 DEF JobOK
    <2>3. QED
      BY <1>2, <2>2 DEF AccountInv, ChainsRooted
  <1>7. \A q \in Proc : pc[q] = "issue" /\ q # p =>
          \/ job[q].login = job[q].new
          \/ job[q].old \in Session /\ sessions[job[q].old] # Unused
             /\ sessions[job[q].old].login = job[q].login
    BY DEF AccountInv, JobsOK, JobOK
  <1>8. \A q \in Proc : pc'[p] = "issue" /\ pc'[q] = "issue" /\ job'[q].login = job'[p].login => q = p
    <2> SUFFICES ASSUME NEW q \in Proc, q # p, pc'[p] = "issue", pc'[q] = "issue",
                        job'[q].login = job'[p].login
                 PROVE  FALSE
      OBVIOUS
    <2>1. pc[q] = "issue" /\ job'[q] = job[q]
      BY <1>2
    <2>2. CASE job[q].login = job[q].new
      <3>1. job'[p].new = job'[q].new
        BY <1>2, <2>1, <2>2
      <3>2. QED
        BY <3>1 DEF AccountInv, OwnSessions
    <2>3. CASE job[q].old \in Session /\ sessions[job[q].old] # Unused
               /\ sessions[job[q].old].login = job[q].login
      BY <1>6, <2>1, <2>3
    <2>4. QED
      BY <1>7, <2>1, <2>2, <2>3
  <1>9. /\ \A q \in Proc : pc'[q] = "revoke" => ~sessions[job'[q].old].revoked
        /\ \A q, r \in Proc : pc'[q] = "revoke" /\ job'[q].old = job'[r].old => q = r
    BY <1>1, <1>2, <1>4 DEF ChainsHeld
  <1>10. \A q \in Proc, s \in Live : pc'[q] = "issue" => sessions[s].login # job'[q].login
    BY <1>1, <1>2, <1>5, <1>6 DEF ChainsHeld
  <1>11. \A q, r \in Proc :
           pc'[q] = "issue" /\ pc'[r] = "issue" /\ job'[q].login = job'[r].login => q = r
    BY <1>1, <1>2, <1>8 DEF ChainsHeld
  <1>12. QED
    BY <1>1, <1>2, <1>3, <1>9, <1>10, <1>11 DEF ChainsHeld

LEMMA RefreshChain ==
    ASSUME AccountInv, ChainInv, NEW p \in Proc, Refresh(p)
    PROVE  ChainInv'
  <1> SUFFICES ASSUME Patient PROVE ChainsHeld'
    BY DEF ChainInv
  <1>1. ChainsHeld
    BY DEF ChainInv
  <1>2. PICK s \in Live, new \in Session :
          /\ \A q \in Proc : job[q].old # s
          /\ job' = [job EXCEPT ![p] =
                [NoJob EXCEPT !.user = sessions[s].user, !.code = sessions[s].code,
                              !.old = s, !.login = sessions[s].login, !.new = new]]
    BY DEF Refresh
  <1>3. /\ pc'[p] = "revoke" /\ job'[p].old = s
        /\ \A q \in Proc : q # p => pc'[q] = pc[q] /\ job'[q] = job[q]
        /\ UNCHANGED sessions
    BY <1>2 DEF Refresh, Goto, NoJob, tables, AccountInv, TypeOK
  <1>4. Live' = Live /\ ~sessions[s].revoked
    BY <1>3 DEF Live
  <1>5. QED
    BY <1>1, <1>2, <1>3, <1>4 DEF ChainsHeld

LEMMA RevokeChain ==
    ASSUME AccountInv, ChainInv, NEW p \in Proc, RevokeSession(p)
    PROVE  ChainInv'
  <1> SUFFICES ASSUME Patient PROVE ChainsHeld'
    BY DEF ChainInv
  <1>1. ChainsHeld
    BY DEF ChainInv
  <1>2. PICK o : o = job[p].old
    OBVIOUS
  <1>3. /\ o \in Session /\ sessions[o] # Unused /\ sessions[o] \in SessionRow
        /\ job[p].login = sessions[o].login /\ pc[p] = "revoke"
    BY <1>2 DEF RevokeSession, AccountInv, JobsOK, JobOK, TypeOK
  <1>4. /\ pc'[p] = "issue" /\ job' = job
        /\ \A q \in Proc : q # p => pc'[q] = pc[q]
        /\ sessions' = [sessions EXCEPT ![o].revoked = TRUE]
    BY <1>2 DEF RevokeSession, Goto, AccountInv, TypeOK
  <1>5. sessions'[o].revoked /\ \A s \in Session : s # o => sessions'[s] = sessions[s]
    BY <1>3, <1>4 DEF AccountInv, TypeOK, SessionRow
  <1>6. SameLinks
    BY RevokeAccount
  <1>7. /\ Live' \subseteq Live \ {o} /\ o \in Live
        /\ \A s \in Session : sessions'[s].login = sessions[s].login
    BY <1>1, <1>2, <1>3, <1>5, <1>6 DEF Live, SameLinks, ChainsHeld
  <1>8. \A q \in Proc : q # p /\ pc[q] = "revoke" =>
          job[q].old \in Session /\ job[q].old # o /\ ~sessions'[job[q].old].revoked
    BY <1>1, <1>2, <1>3, <1>5 DEF ChainsHeld, AccountInv, JobsOK, JobOK
  <1>9. \A s \in Live : sessions[s].login = job[p].login => s = o
    BY <1>1, <1>3, <1>7 DEF ChainsHeld
  <1>10. \A q \in Proc : pc[q] = "issue" => job[q].login # job[p].login
    BY <1>1, <1>3, <1>7 DEF ChainsHeld
  <1>11. /\ \A q \in Proc : pc'[q] = "revoke" => ~sessions'[job'[q].old].revoked
         /\ \A q, r \in Proc : pc'[q] = "revoke" /\ job'[q].old = job'[r].old => q = r
    BY <1>1, <1>4, <1>8 DEF ChainsHeld
  <1>12. \A s \in Live' : s \in Live /\ s \in Session /\ s # o
    BY <1>7 DEF Live
  <1>13. \A q \in Proc, s \in Live' : pc'[q] = "issue" => sessions'[s].login # job'[q].login
    BY <1>1, <1>4, <1>7, <1>9, <1>12 DEF ChainsHeld
  <1>14. \A q, r \in Proc :
           pc'[q] = "issue" /\ pc'[r] = "issue" /\ job'[q].login = job'[r].login => q = r
    BY <1>1, <1>4, <1>10 DEF ChainsHeld
  <1>15. \A s, t \in Live' : sessions'[s].login = sessions'[t].login => s = t
    BY <1>1, <1>7, <1>12 DEF ChainsHeld
  <1>16. QED
    BY <1>11, <1>13, <1>14, <1>15 DEF ChainsHeld

LEMMA IssueChain ==
    ASSUME AccountInv, ChainInv, NEW p \in Proc, IssueSession(p)
    PROVE  ChainInv'
  <1> SUFFICES ASSUME Patient PROVE ChainsHeld'
    BY DEF ChainInv
  <1>1. ChainsHeld
    BY DEF ChainInv
  <1>2. PICK j \in Job, row \in SessionRow :
             /\ j = job[p] /\ pc[p] = "issue" /\ row.login = j.login
             /\ j.new \in Session /\ sessions[j.new] = Unused
             /\ sessions' = [sessions EXCEPT ![j.new] = row]
             /\ Finish(p)
    BY IssueEffect
  <1>3. /\ pc'[p] = "idle" /\ job'[p] = NoJob
        /\ \A q \in Proc : q # p => pc'[q] = pc[q] /\ job'[q] = job[q]
        /\ sessions'[j.new] = row
        /\ \A s \in Session : s # j.new => sessions'[s] = sessions[s]
    BY <1>2 DEF Finish, Goto, AccountInv, TypeOK
  <1>4. \A s \in Live' : s \in Session /\ (s = j.new \/ s \in Live)
    BY <1>3 DEF Live
  <1>5. \A s \in Live : s \in Session /\ s # j.new /\ sessions[s].login # j.login
    BY <1>1, <1>2, AbsentValues DEF Live, ChainsHeld
  <1>6. \A q \in Proc : q # p /\ pc[q] = "issue" => job[q].login # j.login
    BY <1>1, <1>2 DEF ChainsHeld
  <1>7. \A q \in Proc : pc[q] = "revoke" => job[q].old \in Session /\ job[q].old # j.new
    BY <1>2 DEF AccountInv, JobsOK, JobOK
  <1>8. /\ \A q \in Proc : pc'[q] = "revoke" => ~sessions'[job'[q].old].revoked
        /\ \A q, r \in Proc : pc'[q] = "revoke" /\ job'[q].old = job'[r].old => q = r
    BY <1>1, <1>3, <1>7, AbsentValues DEF ChainsHeld
  <1>9. \A q \in Proc, s \in Live' : pc'[q] = "issue" => sessions'[s].login # job'[q].login
    BY <1>1, <1>2, <1>3, <1>4, <1>5, <1>6 DEF ChainsHeld
  <1>10. \A q, r \in Proc :
           pc'[q] = "issue" /\ pc'[r] = "issue" /\ job'[q].login = job'[r].login => q = r
    BY <1>1, <1>3 DEF ChainsHeld
  <1>11. \A s, t \in Live' : sessions'[s].login = sessions'[t].login => s = t
    BY <1>1, <1>2, <1>3, <1>4, <1>5 DEF ChainsHeld
  <1>12. QED
    BY <1>8, <1>9, <1>10, <1>11 DEF ChainsHeld

LEMMA HandlersStay ==
    ASSUME Surroundings
    PROVE  UNCHANGED <<sessions, logins, spent, pc, job>>
  BY DEF Surroundings, GetAuthorizationUrl, ExpireState, SetActive, ChangeMail, tables, provider,
         vars

LEMMA NextSplit ==
    ASSUME [Next]_vars
    PROVE  \/ \E p \in Proc : SmallStep(p)
           \/ \E p \in Proc : Refresh(p) \/ RevokeSession(p) \/ IssueSession(p)
           \/ Surroundings
  BY DEF Next, Step, SmallStep, Surroundings

LEMMA NextChain ==
    ASSUME AccountInv, AccountInv', ChainInv, [Next]_vars
    PROVE  ChainInv'
  <1>1. CASE \E p \in Proc : SmallStep(p)
    BY <1>1, SmallStepEffect, SmallChain
  <1>2. CASE \E p \in Proc : Refresh(p) \/ RevokeSession(p) \/ IssueSession(p)
    BY <1>2, RefreshChain, RevokeChain, IssueChain
  <1>3. CASE Surroundings
    BY <1>3, HandlersStay DEF ChainInv, ChainsHeld, Live
  <1>4. QED
    BY <1>1, <1>2, <1>3, NextSplit

(***************************************************************************)
(* However logins, refreshes and crashes interleave, a sign-in never has   *)
(* two sessions that can be refreshed, provided that a client waits for    *)
(* the answer to one refresh before it sends the next.                     *)
(***************************************************************************)
THEOREM ChainsHaveOneLiveSession == Spec => []OneLivePerLogin
  <1>1. Init => ChainInv
    BY DEF Init, ChainInv, ChainsHeld, Live, Unused
  <1>2. AccountInv /\ AccountInv' /\ ChainInv /\ [Next]_vars => ChainInv'
    BY NextChain
  <1>3. ChainInv => OneLivePerLogin
    BY DEF ChainInv, ChainsHeld, OneLivePerLogin
  <1>4. QED
    BY <1>1, <1>2, <1>3, AccountInvariance, PTL DEF Spec

-----------------------------------------------------------------------------
(* A state is refused after a session was issued for it.  What is gone stays gone. *)
LEMMA GoneStays ==
    ASSUME AccountInv, [Next]_vars
    PROVE  \A f \in State : cache[f] = "gone" => cache'[f] = "gone"
  <1>1. CASE UNCHANGED cache
    BY <1>1
  <1>2. CASE \E f \in State : GetAuthorizationUrl(f) \/ ExpireState(f)
    BY <1>2 DEF GetAuthorizationUrl, ExpireState, AccountInv, TypeOK
  <1>3. CASE \E p \in Proc : TakeValueDel(p)
    BY <1>3 DEF TakeValueDel, AccountInv, TypeOK
  <1>4. ASSUME NEW p \in Proc,
               Login(p) \/ Refresh(p) \/ TakeValueGet(p) \/ Step(p) \/ Crash(p)
        PROVE  TakeValueDel(p) \/ UNCHANGED cache
    BY <1>4 DEF Login, Refresh, TakeValueGet, Step, Crash, Refuse, RecordLoginAttempt, RevokeSession,
                IssueSession, ExchangeCode, MatchExternalId, MatchEmail, UpdateProfile,
                LinkExternalId, CreateUser
  <1>5. QED
    BY <1>1, <1>2, <1>3, <1>4 DEF Next, SetActive, ChangeMail, vars

(* The codes that handlers and sessions know came with a state. *)
LEMMA CodesHaveStates ==
    ASSUME AccountInv
    PROVE  /\ \A p \in Proc : job[p].code # NoCode => FlowOf[job[p].code] \in State
           /\ \A s \in Session : sessions[s].code # NoCode => FlowOf[sessions[s].code] \in State
  <1>1. \A p \in Proc : job[p].code \in Code \cup {NoCode}
    BY DEF AccountInv, TypeOK, Job
  <1>2. \A s \in Session : sessions[s].code \in Code \cup {NoCode}
    BY DEF AccountInv, TypeOK, SessionRow, Unused
  <1>3. QED
    BY <1>1, <1>2, SignInAssumption

LEMMA SmallState ==
    ASSUME AccountInv, StateInv, [Next]_vars, NEW p \in Proc, SmallEffect(p)
    PROVE  StateInv'
  <1>1. /\ UNCHANGED sessions
        /\ \A q \in Proc : q # p => pc'[q] = pc[q] /\ job'[q] = job[q]
        /\ pc'[p] \in Taken /\ job'[p].code # NoCode =>
              /\ job'[p].code = job[p].code
              /\ pc[p] \in Taken \/ cache'[FlowOf[job[p].code]] = "gone"
    BY DEF SmallEffect, Alone
  <1>2. QED
    BY <1>1, GoneStays, CodesHaveStates DEF StateInv

LEMMA RefreshState ==
    ASSUME AccountInv, StateInv, [Next]_vars, NEW p \in Proc, Refresh(p)
    PROVE  StateInv'
  <1>1. PICK s \in Live, new \in Session :
          job' = [job EXCEPT ![p] =
                [NoJob EXCEPT !.user = sessions[s].user, !.code = sessions[s].code,
                              !.old = s, !.login = sessions[s].login, !.new = new]]
    BY DEF Refresh
  <1>2. /\ job'[p].code = sessions[s].code
        /\ s \in Session
        /\ \A q \in Proc : q # p => pc'[q] = pc[q] /\ job'[q] = job[q]
        /\ UNCHANGED <<sessions, cache>>
    BY <1>1 DEF Refresh, Goto, NoJob, Live, tables, AccountInv, TypeOK
  <1>3. QED
    BY <1>2 DEF StateInv

LEMMA RevokeState ==
    ASSUME AccountInv, StateInv, [Next]_vars, NEW p \in Proc, RevokeSession(p)
    PROVE  StateInv'
  <1>1. /\ job' = job /\ UNCHANGED cache /\ pc[p] = "revoke"
        /\ \A q \in Proc : q # p => pc'[q] = pc[q]
    BY DEF RevokeSession, Goto, AccountInv, TypeOK
  <1>2. \A s \in Session : sessions'[s].code = sessions[s].code
    BY RevokeAccount DEF SameLinks
  <1>3. QED
    BY <1>1, <1>2 DEF StateInv, Taken

LEMMA IssueState ==
    ASSUME AccountInv, StateInv, [Next]_vars, NEW p \in Proc, IssueSession(p)
    PROVE  StateInv'
  <1>1. PICK j \in Job, row \in SessionRow :
             /\ j = job[p] /\ pc[p] = "issue"
             /\ row.code = j.code
             /\ j.new \in Session
             /\ sessions' = [sessions EXCEPT ![j.new] = row]
             /\ Finish(p)
             /\ UNCHANGED cache
    BY IssueEffect
  <1>2. /\ pc'[p] = "idle"
        /\ \A q \in Proc : q # p => pc'[q] = pc[q] /\ job'[q] = job[q]
        /\ sessions'[j.new] = row
        /\ \A s \in Session : s # j.new => sessions'[s] = sessions[s]
    BY <1>1 DEF Finish, Goto, AccountInv, TypeOK
  <1>3. QED
    BY <1>1, <1>2 DEF StateInv, Taken, Redeemed

LEMMA NextState ==
    ASSUME AccountInv, StateInv, [Next]_vars
    PROVE  StateInv'
  <1>1. CASE \E p \in Proc : SmallStep(p)
    BY <1>1, SmallStepEffect, SmallState
  <1>2. CASE \E p \in Proc : Refresh(p) \/ RevokeSession(p) \/ IssueSession(p)
    BY <1>2, RefreshState, RevokeState, IssueState
  <1>3. CASE Surroundings
    <2>1. UNCHANGED <<sessions, pc, job>>
      BY <1>3, HandlersStay
    <2>2. QED
      BY <2>1, GoneStays, CodesHaveStates DEF StateInv
  <1>4. QED
    BY <1>1, <1>2, <1>3, NextSplit

(* The step with which a callback begins. *)
LEMMA CallbackBegins ==
    ASSUME AccountInv, StateInv, [Next]_vars, NEW p \in Proc, pc[p] = "idle", pc'[p] = "del",
           NEW s \in Session, sessions[s].code # NoCode
    PROVE  FlowOf[sessions[s].code] # FlowOf[job'[p].code]
  <1>1. TakeValueGet(p)
    <2>1. ASSUME NEW q \in Proc,
                 Login(q) \/ Refresh(q) \/ TakeValueGet(q) \/ Step(q) \/ Crash(q)
          PROVE  TakeValueGet(p)
      <3>1. q = p
        BY <2>1 DEF Login, Refresh, TakeValueGet, Step, Crash, Refuse, RecordLoginAttempt,
                    RevokeSession, IssueSession, TakeValueDel, ExchangeCode, MatchExternalId,
                    MatchEmail, UpdateProfile, LinkExternalId, CreateUser, Admit, Finish, Goto,
                    AccountInv, TypeOK
      <3>2. pc'[p] = "del" => ~(Login(p) \/ Refresh(p))
        BY DEF Login, Refresh, Goto, AccountInv, TypeOK
      <3>3. pc[p] = "idle" => ~(Step(p) \/ Crash(p))
        BY DEF Step, Crash, RecordLoginAttempt, RevokeSession, IssueSession, TakeValueDel,
               ExchangeCode, MatchExternalId, MatchEmail, UpdateProfile, LinkExternalId, CreateUser
      <3>4. QED
        BY <2>1, <3>1, <3>2, <3>3
    <2>2. UNCHANGED pc => FALSE
      OBVIOUS
    <2>3. QED
      BY <2>1, <2>2 DEF Next, GetAuthorizationUrl, ExpireState, SetActive, ChangeMail, vars
  <1>2. PICK c \in Code, t \in Session :
          /\ cache[FlowOf[c]] = "stored"
          /\ job' = [job EXCEPT ![p] = [NoJob EXCEPT !.code = c, !.login = t, !.new = t]]
    BY <1>1 DEF TakeValueGet
  <1>3. job'[p].code = c
    BY <1>2 DEF NoJob, AccountInv, TypeOK
  <1>4. QED
    BY <1>2, <1>3 DEF StateInv

(***************************************************************************)
(* However callbacks, refreshes and crashes interleave, a callback that    *)
(* begins after a session was issued for its state is refused.             *)
(***************************************************************************)
THEOREM StatesAreNotReplayed == Spec => StateNotReplayed
  <1>1. Init => StateInv
    BY DEF Init, StateInv, Taken, Redeemed, Unused
  <1>2. AccountInv /\ StateInv /\ [Next]_vars => StateInv'
    BY NextState
  <1>3. AccountInv /\ StateInv /\ [Next]_vars =>
          [\A p \in Proc :
             pc[p] = "idle" /\ pc'[p] = "del" =>
                 \A s \in Session :
                     sessions[s].code # NoCode =>
                         FlowOf[sessions[s].code] # FlowOf[job'[p].code]]_vars
    BY CallbackBegins
  <1>4. QED
    BY <1>1, <1>2, <1>3, AccountInvariance, PTL DEF Spec, StateNotReplayed

-----------------------------------------------------------------------------
(* Whose row it is.  A handler that writes no row keeps the address it was given. *)
LEMMA ReadsKeepPersons ==
    ASSUME AccountInv, PersonInv, NEW p \in Proc, UNCHANGED <<users, mail, renamed>>, Alone(p),
           pc'[p] \in Redeemed /\ ~renamed =>
               /\ job'[p].email = mail[PersonOf[job'[p].code]]
               /\ pc'[p] \in {"profile", "link"} => users[job'[p].user].email = job'[p].email
    PROVE  PersonInv'
  <1>1. Known' = Known
    BY DEF Known
  <1>2. AddressesUnique'
    BY <1>1 DEF PersonInv, AddressesUnique
  <1>3. ASSUME ~renamed
        PROVE  AddressesCurrent'
    <2>1. AddressesCurrent
      BY <1>3 DEF PersonInv
    <2>2. \A u \in Known' : users'[u].ext # NoPerson => users'[u].email = mail'[users'[u].ext]
      BY <1>1, <2>1 DEF AddressesCurrent
    <2>3. \A q \in Proc : pc'[q] \in Redeemed => job'[q].email = mail'[Subject(q)']
      BY <1>3, <2>1 DEF AddressesCurrent, Alone, Subject
    <2>4. \A q \in Proc :
            pc'[q] \in {"profile", "link"} => users'[job'[q].user].email = job'[q].email
      BY <1>3, <2>1 DEF AddressesCurrent, Alone, Redeemed
    <2>5. QED
      BY <2>2, <2>3, <2>4 DEF AddressesCurrent
  <1>4. QED
    BY <1>2, <1>3 DEF PersonInv

(* A row is written with an address that no other row has, and that is current. *)
LEMMA WritesKeepPersons ==
    ASSUME AccountInv, PersonInv, NEW u \in User, NEW row \in Row,
           users' = [users EXCEPT ![u] = row], UNCHANGED <<mail, renamed>>,
           \A q \in Proc : pc'[q] \in Redeemed => pc'[q] = pc[q] /\ job'[q] = job[q],
           \A v \in Known : users[v].email = row.email => v = u,
           ~renamed =>
               /\ u \in Known => users[u].email = row.email
               /\ row.ext # NoPerson => row.email = mail[row.ext]
    PROVE  PersonInv'
  <1>1. /\ users'[u] = row
        /\ \A v \in User : v # u => users'[v] = users[v]
    BY DEF AccountInv, TypeOK
  <1>2. \A v \in Known' : v = u \/ (v # u /\ v \in Known)
    BY <1>1 DEF Known
  <1>3. AddressesUnique'
    BY <1>1, <1>2 DEF PersonInv, AddressesUnique, Known
  <1>4. ASSUME ~renamed
        PROVE  AddressesCurrent'
    <2>1. AddressesCurrent
      BY <1>4 DEF PersonInv
    <2>2. \A v \in Known' : users'[v].ext # NoPerson => users'[v].email = mail'[users'[v].ext]
      BY <1>1, <1>2, <1>4, <2>1 DEF AddressesCurrent, Known
    <2>3. \A q \in Proc : pc'[q] \in Redeemed => job'[q].email = mail'[Subject(q)']
      BY <2>1 DEF AddressesCurrent, Subject
    <2>4. \A q \in Proc : pc[q] \in {"profile", "link"} => job[q].user \in Known
      BY DEF AccountInv, JobsOK, JobOK
    <2>5. \A q \in Proc :
            pc'[q] \in {"profile", "link"} => users'[job'[q].user].email = job'[q].email
      BY <1>1, <1>4, <2>1, <2>4 DEF AddressesCurrent, Redeemed, Known
    <2>6. QED
      BY <2>2, <2>3, <2>5 DEF AddressesCurrent
  <1>5. QED
    BY <1>3, <1>4 DEF PersonInv

LEMMA ExchangePersons ==
    ASSUME AccountInv, PersonInv, NEW p \in Proc, ExchangeCode(p), ~Refuse(p)
    PROVE  PersonInv'
  <1>1. PICK j \in Job :
          /\ j.email = mail[PersonOf[j.code]]
          /\ job' = [job EXCEPT ![p] = j]
          /\ Goto(p, "external")
          /\ UNCHANGED <<users, mail, renamed>>
    BY ExchangeEffect
  <1>2. pc'[p] = "external" /\ job'[p] = j /\ Alone(p)
    BY <1>1 DEF Goto, Alone, AccountInv, TypeOK
  <1>3. QED
    BY <1>1, <1>2, ReadsKeepPersons

LEMMA MatchPersons ==
    ASSUME AccountInv, PersonInv, NEW p \in Proc, MatchExternalId(p) \/ MatchEmail(p)
    PROVE  PersonInv'
  <1>1. /\ pc[p] \in Redeemed /\ UNCHANGED <<users, mail, renamed>>
        /\ \A q \in Proc : q # p => pc'[q] = pc[q]
        /\ \/ /\ pc'[p] \notin {"profile", "link"} /\ job' = job
           \/ \E u \in Known :
                /\ users[u].ext = Subject(p) \/ users[u].email = job[p].email
                /\ job' = [job EXCEPT ![p].user = u]
    BY DEF MatchExternalId, MatchEmail, WithExternalId, WithEmail, Goto, tables, provider,
           Redeemed, AccountInv, TypeOK
  <1>2. job[p] \in Job /\ job[p].code \in Code
    BY <1>1 DEF AccountInv, TypeOK, JobsOK, JobOK, SingleSignOn
  <1>3. ~renamed => job[p].email = mail[Subject(p)]
    BY <1>1 DEF PersonInv, AddressesCurrent
  <1>4. CASE pc'[p] \notin {"profile", "link"} /\ job' = job
    BY <1>1, <1>3, <1>4, ReadsKeepPersons DEF Alone, Subject
  <1>5. CASE \E u \in Known :
               /\ users[u].ext = Subject(p) \/ users[u].email = job[p].email
               /\ job' = [job EXCEPT ![p].user = u]
    <2>1. PICK u \in Known :
            /\ users[u].ext = Subject(p) \/ users[u].email = job[p].email
            /\ job' = [job EXCEPT ![p].user = u]
      BY <1>5
    <2>2. /\ job'[p].user = u /\ job'[p].email = job[p].email /\ job'[p].code = job[p].code
          /\ \A q \in Proc : q # p => job'[q] = job[q]
      BY <1>2, <2>1 DEF AccountInv, TypeOK, Job
    <2>3. Subject(p) # NoPerson
      BY <1>2, SignInAssumption DEF Subject
    <2>4. ~renamed => users[u].email = job[p].email
      BY <1>3, <2>1, <2>3 DEF PersonInv, AddressesCurrent
    <2>5. QED
      BY <1>1, <1>3, <2>2, <2>4, ReadsKeepPersons DEF Alone, Subject
  <1>6. QED
    BY <1>1, <1>4, <1>5

(* After a write the handler is done, or about to issue the session. *)
LEMMA WriterLeaves ==
    ASSUME AccountInv, NEW p \in Proc,
           \/ Finish(p)
           \/ Goto(p, "issue") /\ job' = job
           \/ Goto(p, "issue") /\ \E u \in User : job' = [job EXCEPT ![p].user = u]
    PROVE  \A q \in Proc : pc'[q] \in Redeemed => pc'[q] = pc[q] /\ job'[q] = job[q]
  BY DEF Finish, Goto, Redeemed, AccountInv, TypeOK

LEMMA ProfilePersons ==
    ASSUME AccountInv, PersonInv, NEW p \in Proc, UpdateProfile(p), ~Refuse(p)
    PROVE  PersonInv'
  <1>1. PICK u \in Known, row \in Row :
          /\ pc[p] = "profile" /\ u = job[p].user
          /\ row.email = job[p].email /\ row.ext = users[u].ext
          /\ WithEmail(job[p].email) \subseteq {u}
          /\ users' = [users EXCEPT ![u] = row]
          /\ UNCHANGED <<sessions, logins, cache, mail, spent, renamed>>
          /\ Finish(p) \/ (Goto(p, "issue") /\ job' = job)
    BY ProfileEffect
  <1>2. \A v \in Known : users[v].email = row.email => v = u
    BY <1>1 DEF WithEmail
  <1>3. ~renamed => users[u].email = row.email
    BY <1>1 DEF PersonInv, AddressesCurrent
  <1>4. ~renamed /\ row.ext # NoPerson => row.email = mail[row.ext]
    BY <1>1, <1>3 DEF PersonInv, AddressesCurrent
  <1>5. \A q \in Proc : pc'[q] \in Redeemed => pc'[q] = pc[q] /\ job'[q] = job[q]
    BY <1>1, WriterLeaves
  <1>6. QED
    BY <1>1, <1>2, <1>3, <1>4, <1>5, WritesKeepPersons DEF Known

LEMMA LinkPersons ==
    ASSUME AccountInv, PersonInv, NEW p \in Proc, LinkExternalId(p), ~Refuse(p)
    PROVE  PersonInv'
  <1>1. PICK u \in Known, row \in Row :
          /\ pc[p] = "link" /\ u = job[p].user
          /\ row.email = users[u].email /\ row.ext = Subject(p)
          /\ users' = [users EXCEPT ![u] = row]
          /\ UNCHANGED <<sessions, logins, cache, mail, spent, renamed>>
          /\ Finish(p) \/ (Goto(p, "issue") /\ job' = job)
    BY LinkEffect
  <1>2. \A v \in Known : users[v].email = row.email => v = u
    BY <1>1 DEF PersonInv, AddressesUnique
  <1>3. ~renamed => row.email = mail[row.ext]
    BY <1>1 DEF PersonInv, AddressesCurrent, Redeemed
  <1>4. \A q \in Proc : pc'[q] \in Redeemed => pc'[q] = pc[q] /\ job'[q] = job[q]
    BY <1>1, WriterLeaves
  <1>5. QED
    BY <1>1, <1>2, <1>3, <1>4, WritesKeepPersons DEF Known

LEMMA CreatePersons ==
    ASSUME AccountInv, PersonInv, NEW p \in Proc, CreateUser(p), ~Refuse(p)
    PROVE  PersonInv'
  <1>1. PICK u \in User \ Known, row \in Row :
          /\ pc[p] = "create"
          /\ WithEmail(job[p].email) = {}
          /\ row.email = job[p].email /\ row.ext = Subject(p)
          /\ users' = [users EXCEPT ![u] = row]
          /\ UNCHANGED <<sessions, logins, cache, mail, spent, renamed>>
          /\ Goto(p, "issue") /\ job' = [job EXCEPT ![p].user = u]
    BY CreateEffect
  <1>2. \A v \in Known : users[v].email = row.email => v = u
    BY <1>1 DEF WithEmail
  <1>3. ~renamed => row.email = mail[row.ext]
    BY <1>1 DEF PersonInv, AddressesCurrent, Redeemed
  <1>4. \A q \in Proc : pc'[q] \in Redeemed => pc'[q] = pc[q] /\ job'[q] = job[q]
    BY <1>1, WriterLeaves
  <1>5. QED
    BY <1>1, <1>2, <1>3, <1>4, WritesKeepPersons

(* The steps that find, write or redeem nothing. *)
LEMMA OtherPersons ==
    ASSUME AccountInv, PersonInv, NEW p \in Proc,
           \/ Login(p) \/ Refresh(p) \/ TakeValueGet(p) \/ Refuse(p) \/ TakeValueDel(p)
           \/ RecordLoginAttempt(p) \/ RevokeSession(p) \/ IssueSession(p)
    PROVE  PersonInv'
  <1>1. /\ pc'[p] \in {"record", "revoke", "issue", "del", "exchange", "idle"}
        /\ \A q \in Proc : q # p => pc'[q] = pc[q]
    BY DEF Login, Refresh, TakeValueGet, Refuse, TakeValueDel, RecordLoginAttempt, RevokeSession,
           IssueSession, Finish, Goto, AccountInv, TypeOK
  <1>2. \A q \in Proc : q # p => job'[q] = job[q]
    BY DEF Login, Refresh, TakeValueGet, Refuse, TakeValueDel, RecordLoginAttempt, RevokeSession,
           IssueSession, Finish, AccountInv, TypeOK
  <1>3. UNCHANGED <<users, mail, renamed>>
    BY DEF Login, Refresh, TakeValueGet, Refuse, TakeValueDel, RecordLoginAttempt, RevokeSession,
           IssueSession, tables, provider
  <1>4. QED
    BY <1>1, <1>2, <1>3, ReadsKeepPersons DEF Alone, Redeemed

LEMMA SurroundingsPersons ==
    ASSUME AccountInv, PersonInv, Surroundings
    PROVE  PersonInv'
  <1>1. UNCHANGED <<pc, job>>
    BY HandlersStay
  <1>2. CASE UNCHANGED <<users, mail, renamed>>
    BY <1>1, <1>2 DEF PersonInv, AddressesUnique, AddressesCurrent, Known, Subject
  <1>3. CASE \E u \in User, on \in BOOLEAN : SetActive(u, on)
    <2>1. PICK u \in User, row \in Row :
             /\ u \in Known
             /\ row.email = users[u].email /\ row.ext = users[u].ext
             /\ users' = [users EXCEPT ![u] = row]
             /\ UNCHANGED <<sessions, logins, cache, mail, spent, renamed, pc, job>>
      BY <1>3, SetActiveEffect
    <2>2. \A v \in Known : users[v].email = row.email => v = u
      BY <2>1 DEF PersonInv, AddressesUnique
    <2>3. ~renamed /\ row.ext # NoPerson => row.email = mail[row.ext]
      BY <2>1 DEF PersonInv, AddressesCurrent
    <2>4. QED
      BY <2>1, <2>2, <2>3, WritesKeepPersons
  <1>4. CASE \E x \in Person, e \in Email : ChangeMail(x, e)
    <2>1. renamed' /\ UNCHANGED users
      BY <1>4 DEF ChangeMail, tables
    <2>2. QED
      BY <2>1 DEF PersonInv, AddressesUnique, Known
  <1>5. CASE \/ \E f \in State : GetAuthorizationUrl(f) \/ ExpireState(f)
             \/ UNCHANGED vars
    BY <1>2, <1>5 DEF GetAuthorizationUrl, ExpireState, tables, provider, vars
  <1>6. QED
    BY <1>3, <1>4, <1>5 DEF Surroundings

LEMMA NextPersons ==
    ASSUME AccountInv, PersonInv, [Next]_vars
    PROVE  PersonInv'
  <1>1. ASSUME NEW p \in Proc, SmallStep(p) \/ Refresh(p) \/ RevokeSession(p) \/ IssueSession(p)
        PROVE  PersonInv'
    <2>1. CASE Refuse(p)
      BY <2>1, OtherPersons
    <2>2. CASE ~Refuse(p)
      BY <1>1, <2>2, OtherPersons, ExchangePersons, MatchPersons, ProfilePersons, LinkPersons,
         CreatePersons DEF SmallStep, Crash
    <2>3. QED
      BY <2>1, <2>2
  <1>2. QED
    BY <1>1, SurroundingsPersons, NextSplit

-----------------------------------------------------------------------------
(* While addresses are steady, a row that is linked stays linked to the same person. *)
LEMMA LinksStay ==
    ASSUME AccountInv, PersonInv, AddressesSteady, [Next]_vars, NEW v \in User,
           users[v].ext \in Person
    PROVE  users'[v].ext = users[v].ext
  <1>1. AddressesCurrent
    BY DEF PersonInv, AddressesSteady
  <1>2. v \in Known
    BY SignInAssumption DEF Known, NoRow
  <1>3. ASSUME NEW p \in Proc, UpdateProfile(p), ~Refuse(p)
        PROVE  users'[v].ext = users[v].ext
    <2>1. PICK u \in Known, row \in Row :
            row.ext = users[u].ext /\ users' = [users EXCEPT ![u] = row]
      BY <1>3, ProfileEffect
    <2>2. QED
      BY <2>1 DEF AccountInv, TypeOK
  <1>4. ASSUME NEW p \in Proc, LinkExternalId(p), ~Refuse(p)
        PROVE  users'[v].ext = users[v].ext
    <2>1. PICK u \in Known, row \in Row :
            /\ pc[p] = "link" /\ u = job[p].user
            /\ row.ext = Subject(p) /\ Subject(p) \in Person
            /\ users' = [users EXCEPT ![u] = row]
      BY <1>4, LinkEffect
    <2>2. CASE v = u
      <3>1. mail[users[v].ext] = mail[Subject(p)]
        BY <1>1, <1>2, <2>1, <2>2, SignInAssumption DEF AddressesCurrent, Redeemed
      <3>2. users[v].ext = Subject(p)
        BY <2>1, <3>1 DEF AddressesSteady
      <3>3. QED
        BY <2>1, <2>2, <3>2 DEF AccountInv, TypeOK, Known
    <2>3. CASE v # u
      BY <2>1, <2>3 DEF AccountInv, TypeOK
    <2>4. QED
      BY <2>2, <2>3
  <1>5. ASSUME NEW p \in Proc, CreateUser(p), ~Refuse(p)
        PROVE  users'[v].ext = users[v].ext
    <2>1. PICK u \in User \ Known, row \in Row : users' = [users EXCEPT ![u] = row]
      BY <1>5, CreateEffect
    <2>2. QED
      BY <1>2, <2>1 DEF AccountInv, TypeOK
  <1>6. ASSUME NEW u \in User, NEW on \in BOOLEAN, SetActive(u, on)
        PROVE  users'[v].ext = users[v].ext
    <2>1. PICK row \in Row : row.ext = users[u].ext /\ users' = [users EXCEPT ![u] = row]
      BY <1>6, SetActiveEffect
    <2>2. QED
      BY <2>1 DEF AccountInv, TypeOK
  <1>7. CASE UNCHANGED users
    BY <1>7
  <1>8. ASSUME NEW p \in Proc, SmallStep(p) \/ Refresh(p) \/ RevokeSession(p) \/ IssueSession(p)
        PROVE  \/ (UpdateProfile(p) \/ LinkExternalId(p) \/ CreateUser(p)) /\ ~Refuse(p)
               \/ UNCHANGED users
    BY <1>8 DEF SmallStep, Login, Refresh, TakeValueGet, Crash, Refuse, RecordLoginAttempt,
                RevokeSession, IssueSession, TakeValueDel, ExchangeCode, MatchExternalId, MatchEmail,
                tables
  <1>9. Surroundings => UNCHANGED users \/ \E u \in User, on \in BOOLEAN : SetActive(u, on)
    BY DEF Surroundings, GetAuthorizationUrl, ExpireState, ChangeMail, tables, vars
  <1>10. QED
    BY <1>3, <1>4, <1>5, <1>6, <1>7, <1>8, <1>9, NextSplit

LEMMA SteadyBefore ==
    ASSUME AccountInv, [Next]_vars, AddressesSteady'
    PROVE  AddressesSteady
  <1>1. CASE UNCHANGED <<mail, renamed>>
    BY <1>1 DEF AddressesSteady
  <1>2. CASE \E x \in Person, e \in Email : ChangeMail(x, e)
    BY <1>2 DEF ChangeMail, AddressesSteady
  <1>3. ASSUME NEW p \in Proc, SmallStep(p) \/ Refresh(p) \/ RevokeSession(p) \/ IssueSession(p)
        PROVE  UNCHANGED <<mail, renamed>>
    BY <1>3 DEF SmallStep, Login, Refresh, TakeValueGet, Crash, Refuse, RecordLoginAttempt,
                RevokeSession, IssueSession, TakeValueDel, ExchangeCode, MatchExternalId, MatchEmail,
                UpdateProfile, LinkExternalId, CreateUser, provider
  <1>4. Surroundings =>
          UNCHANGED <<mail, renamed>> \/ \E x \in Person, e \in Email : ChangeMail(x, e)
    BY DEF Surroundings, GetAuthorizationUrl, ExpireState, SetActive, provider, vars
  <1>5. QED
    BY <1>1, <1>2, <1>3, <1>4, NextSplit

(* What a handler that moves on within upsertFromIdentity() or out of it has settled. *)
Settling(p) ==
    /\ pc'[p] \in {"profile", "issue"} /\ job'[p].code # NoCode =>
          users'[job'[p].user].ext = PersonOf[job'[p].code]
    /\ pc'[p] # "revoke"

LEMMA SmallSettles ==
    ASSUME AccountInv, PersonInv, SelfInv, AddressesSteady, NEW p \in Proc, SmallStep(p)
    PROVE  Settling(p)
  <1>1. CASE Refuse(p)
    <2>1. pc'[p] = "idle"
      BY <1>1 DEF Refuse, Finish, Goto, AccountInv, TypeOK
    <2>2. QED
      BY <2>1 DEF Settling
  <1>2. CASE Login(p) \/ TakeValueGet(p) \/ TakeValueDel(p) \/ MatchEmail(p)
    <2>1. pc'[p] \in {"record", "del", "exchange", "link", "create"}
      BY <1>2 DEF Login, TakeValueGet, TakeValueDel, MatchEmail, Goto, AccountInv, TypeOK
    <2>2. QED
      BY <2>1 DEF Settling
  <1>3. CASE ExchangeCode(p) /\ ~Refuse(p)
    <2>1. pc'[p] = "external"
      BY <1>3 DEF ExchangeCode, Goto, AccountInv, TypeOK
    <2>2. QED
      BY <2>1 DEF Settling
  <1>4. CASE RecordLoginAttempt(p)
    <2>1. job[p].code = NoCode /\ job' = job /\ pc'[p] = "issue"
      BY <1>4 DEF RecordLoginAttempt, Goto, AccountInv, TypeOK, JobsOK, JobOK
    <2>2. QED
      BY <2>1 DEF Settling
  <1>5. CASE MatchExternalId(p)
    <2>1. UNCHANGED users /\ job[p] \in Job
      BY <1>5 DEF MatchExternalId, tables, AccountInv, TypeOK
    <2>2. CASE \E u \in WithExternalId(Subject(p)) :
                 job' = [job EXCEPT ![p].user = u] /\ Goto(p, "profile")
      <3>1. PICK u \in WithExternalId(Subject(p)) :
              job' = [job EXCEPT ![p].user = u] /\ Goto(p, "profile")
        BY <2>2
      <3>2. job'[p].user = u /\ job'[p].code = job[p].code /\ pc'[p] = "profile"
        BY <2>1, <3>1 DEF AccountInv, TypeOK, Job, Goto
      <3>3. users[u].ext = PersonOf[job[p].code]
        BY <3>1 DEF WithExternalId, Subject
      <3>4. QED
        BY <2>1, <3>2, <3>3 DEF Settling
    <2>3. CASE Goto(p, "email")
      BY <2>3 DEF Settling, Goto, AccountInv, TypeOK
    <2>4. QED
      BY <1>5, <2>2, <2>3 DEF MatchExternalId
  <1>6. ASSUME NEW u \in User, NEW row \in Row, row.ext = Subject(p),
               users' = [users EXCEPT ![u] = row], job[p] \in Job,
               \/ Finish(p)
               \/ Goto(p, "issue") /\ job' = job /\ u = job[p].user
               \/ Goto(p, "issue") /\ job' = [job EXCEPT ![p].user = u]
        PROVE  Settling(p)
    <2>1. users'[u].ext = PersonOf[job[p].code]
      BY <1>6 DEF AccountInv, TypeOK, Subject
    <2>2. CASE Finish(p)
      BY <2>2 DEF Settling, Finish, Goto, AccountInv, TypeOK
    <2>3. CASE Goto(p, "issue") /\ job' = job /\ u = job[p].user
      BY <2>1, <2>3 DEF Settling, Goto, AccountInv, TypeOK
    <2>4. CASE Goto(p, "issue") /\ job' = [job EXCEPT ![p].user = u]
      <3>1. job'[p].user = u /\ job'[p].code = job[p].code /\ pc'[p] = "issue"
        BY <1>6, <2>4 DEF AccountInv, TypeOK, Job, Goto
      <3>2. QED
        BY <2>1, <3>1 DEF Settling
    <2>5. QED
      BY <1>6, <2>2, <2>3, <2>4
  <1>7. job[p] \in Job
    BY DEF AccountInv, TypeOK
  <1>8. CASE UpdateProfile(p) /\ ~Refuse(p)
    <2>1. PICK u \in Known, row \in Row :
            /\ pc[p] = "profile" /\ u = job[p].user
            /\ row.ext = users[u].ext
            /\ users' = [users EXCEPT ![u] = row]
            /\ Finish(p) \/ (Goto(p, "issue") /\ job' = job)
      BY <1>8, ProfileEffect
    <2>2. job[p].code # NoCode
      BY <2>1, SignInAssumption DEF AccountInv, JobsOK, JobOK, SingleSignOn, Redeemed
    <2>3. users[u].ext = Subject(p)
      BY <2>1, <2>2 DEF SelfInv, Themselves, Subject
    <2>4. QED
      BY <1>6, <1>7, <2>1, <2>3 DEF Known
  <1>9. CASE LinkExternalId(p) /\ ~Refuse(p)
    <2>1. PICK u \in Known, row \in Row :
            /\ u = job[p].user /\ row.ext = Subject(p)
            /\ users' = [users EXCEPT ![u] = row]
            /\ Finish(p) \/ (Goto(p, "issue") /\ job' = job)
      BY <1>9, LinkEffect
    <2>2. QED
      BY <1>6, <1>7, <2>1 DEF Known
  <1>10. CASE CreateUser(p) /\ ~Refuse(p)
    <2>1. PICK u \in User \ Known, row \in Row :
            /\ row.ext = Subject(p)
            /\ users' = [users EXCEPT ![u] = row]
            /\ Goto(p, "issue") /\ job' = [job EXCEPT ![p].user = u]
      BY <1>10, CreateEffect
    <2>2. QED
      BY <1>6, <1>7, <2>1
  <1>11. QED
    BY <1>1, <1>2, <1>3, <1>4, <1>5, <1>8, <1>9, <1>10 DEF SmallStep, Crash

(* What a person's link to a row held for, it still holds for. *)
LEMMA SelfKept ==
    ASSUME AccountInv, PersonInv, SelfInv, AddressesSteady, [Next]_vars
    PROVE  /\ \A p \in Proc :
                pc[p] \in {"profile", "revoke", "issue"} /\ job[p].code # NoCode =>
                    users'[job[p].user].ext = PersonOf[job[p].code]
           /\ \A s \in Session :
                sessions[s].code # NoCode =>
                    users'[sessions[s].user].ext = PersonOf[sessions[s].code]
  <1>1. Themselves
    BY DEF SelfInv
  <1>2. ASSUME NEW p \in Proc, pc[p] \in {"profile", "revoke", "issue"}, job[p].code # NoCode
        PROVE  users'[job[p].user].ext = PersonOf[job[p].code]
    <2>1. PersonOf[job[p].code] \in Person
      BY <1>2, SignInAssumption DEF AccountInv, TypeOK, Job
    <2>2. job[p].user \in User
      <3>1. CASE pc[p] = "profile"
        BY <3>1 DEF AccountInv, JobsOK, JobOK, Known
      <3>2. CASE pc[p] = "revoke"
        <4>1. /\ job[p].old \in Session /\ sessions[job[p].old] \in SessionRow
              /\ job[p].user = sessions[job[p].old].user
          BY <3>2 DEF AccountInv, TypeOK, JobsOK, JobOK
        <4>2. QED
          BY <4>1 DEF SessionRow
      <3>3. CASE pc[p] = "issue"
        BY <3>3 DEF AccountInv, JobsOK, JobOK
      <3>4. QED
        BY <1>2, <3>1, <3>2, <3>3
    <2>3. users[job[p].user].ext = PersonOf[job[p].code]
      BY <1>1, <1>2 DEF Themselves
    <2>4. QED
      BY <2>1, <2>2, <2>3, LinksStay
  <1>3. ASSUME NEW s \in Session, sessions[s].code # NoCode
        PROVE  users'[sessions[s].user].ext = PersonOf[sessions[s].code]
    <2>1. sessions[s] \in SessionRow
      BY <1>3 DEF AccountInv, TypeOK, Unused
    <2>2. sessions[s].user \in User /\ PersonOf[sessions[s].code] \in Person
      BY <1>3, <2>1, SignInAssumption DEF SessionRow
    <2>3. users[sessions[s].user].ext = PersonOf[sessions[s].code]
      BY <1>1, <1>3 DEF Themselves
    <2>4. QED
      BY <2>2, <2>3, LinksStay
  <1>4. QED
    BY <1>2, <1>3

LEMMA NextSelf ==
    ASSUME AccountInv, PersonInv, SelfInv, [Next]_vars
    PROVE  SelfInv'
  <1> SUFFICES ASSUME AddressesSteady' PROVE Themselves'
    BY DEF SelfInv
  <1>1. AddressesSteady
    BY SteadyBefore
  <1>2. /\ \A p \in Proc :
             pc[p] \in {"profile", "revoke", "issue"} /\ job[p].code # NoCode =>
                 users'[job[p].user].ext = PersonOf[job[p].code]
        /\ \A s \in Session :
             sessions[s].code # NoCode =>
                 users'[sessions[s].user].ext = PersonOf[sessions[s].code]
    BY <1>1, SelfKept
  <1>3. ASSUME NEW p \in Proc, SmallStep(p)
        PROVE  Themselves'
    <2>1. Settling(p)
      BY <1>1, <1>3, SmallSettles
    <2>2. UNCHANGED sessions /\ \A q \in Proc : q # p => pc'[q] = pc[q] /\ job'[q] = job[q]
      BY <1>3, SmallStepEffect DEF SmallEffect, Alone
    <2>3. QED
      BY <1>2, <2>1, <2>2 DEF Themselves, Settling
  <1>4. ASSUME NEW p \in Proc, Refresh(p)
        PROVE  Themselves'
    <2>1. PICK s \in Live, new \in Session :
            job' = [job EXCEPT ![p] =
                  [NoJob EXCEPT !.user = sessions[s].user, !.code = sessions[s].code,
                                !.old = s, !.login = sessions[s].login, !.new = new]]
      BY <1>4 DEF Refresh
    <2>2. /\ job'[p].code = sessions[s].code /\ job'[p].user = sessions[s].user
          /\ s \in Session
          /\ \A q \in Proc : q # p => pc'[q] = pc[q] /\ job'[q] = job[q]
          /\ UNCHANGED sessions
      BY <1>4, <2>1 DEF Refresh, Goto, NoJob, Live, tables, AccountInv, TypeOK
    <2>3. QED
      BY <1>2, <2>2 DEF Themselves
  <1>5. ASSUME NEW p \in Proc, RevokeSession(p)
        PROVE  Themselves'
    <2>1. /\ job' = job /\ pc[p] = "revoke"
          /\ \A q \in Proc : q # p => pc'[q] = pc[q]
      BY <1>5 DEF RevokeSession, Goto, AccountInv, TypeOK
    <2>2. \A s \in Session :
            sessions'[s].code = sessions[s].code /\ sessions'[s].user = sessions[s].user
      BY <1>5, RevokeAccount DEF SameLinks
    <2>3. QED
      BY <1>2, <2>1, <2>2 DEF Themselves
  <1>6. ASSUME NEW p \in Proc, IssueSession(p)
        PROVE  Themselves'
    <2>1. PICK j \in Job, row \in SessionRow :
               /\ j = job[p] /\ pc[p] = "issue"
               /\ row.code = j.code /\ row.user = j.user
               /\ j.new \in Session
               /\ sessions' = [sessions EXCEPT ![j.new] = row]
               /\ Finish(p)
      BY <1>6, IssueEffect
    <2>2. /\ pc'[p] = "idle"
          /\ \A q \in Proc : q # p => pc'[q] = pc[q] /\ job'[q] = job[q]
          /\ sessions'[j.new] = row
          /\ \A s \in Session : s # j.new => sessions'[s] = sessions[s]
      BY <2>1 DEF Finish, Goto, AccountInv, TypeOK
    <2>3. QED
      BY <1>2, <2>1, <2>2 DEF Themselves
  <1>7. CASE Surroundings
    <2>1. UNCHANGED <<sessions, pc, job>>
      BY <1>7, HandlersStay
    <2>2. QED
      BY <1>2, <2>1 DEF Themselves
  <1>8. QED
    BY <1>3, <1>4, <1>5, <1>6, <1>7, NextSplit

(***************************************************************************)
(* However the sign-ins of several people interleave, as long as everybody *)
(* has kept an address of their own at the identity provider, a session    *)
(* belongs to the row that is linked to the person who authenticated.      *)
(***************************************************************************)
THEOREM PeopleSignInAsThemselves == Spec => []SignedInAsThemselves
  <1>1. Init => PersonInv /\ SelfInv
    <2>1. ASSUME Init
          PROVE  /\ \A u \in Known : users[u].ext = NoPerson
                 /\ \A p \in Proc : pc[p] = "idle"
      BY <2>1 DEF Init, Known
    <2>2. Init => PersonInv
      BY <2>1 DEF Init, PersonInv, AddressesUnique, AddressesCurrent, Redeemed
    <2>3. Init => SelfInv
      BY DEF Init, SelfInv, Themselves, Unused
    <2>4. QED
      BY <2>2, <2>3
  <1>2. AccountInv /\ PersonInv /\ SelfInv /\ [Next]_vars => PersonInv' /\ SelfInv'
    BY NextPersons, NextSelf
  <1>3. SelfInv => SignedInAsThemselves
    BY DEF SelfInv, Themselves, SignedInAsThemselves
  <1>4. QED
    BY <1>1, <1>2, <1>3, AccountInvariance, PTL DEF Spec
=============================================================================
