-------------------------------- MODULE Console --------------------------------
(***************************************************************************)
(* The pages of the web console and the API behind them.  A page loads its *)
(* rows, and every handler that changes something sends a request, waits   *)
(* and loads them again.  A handler is asynchronous: while it waits, the   *)
(* user may go on, and answers come in any order.  What the pages differ   *)
(* in is what they let a user do meanwhile, and which of their state       *)
(* variables (useState) a handler sets before, between and after.  A       *)
(* behaviour is the life of one page, from the moment it is opened.        *)
(***************************************************************************)
EXTENDS Naturals, FiniteSets

CONSTANTS
    Page,           \* the pages there are
    Item,           \* what rows there can be
    ItemsOf,        \* and which of them on a page
    Type,           \* those that are asset types, on the assets page
    Lifecycle,      \* on the page of an asset: its state; the others: warranty
    Match,          \* the rows a search on the organization page finds
    FirstRows,      \* what rows there can be to begin with
    Permissions,    \* the sets of permissions an access token can have
    Value,          \* names, statuses, sets of roles: what a row can be
    New,            \* what a row is when it has just been created
    MaxCalls,       \* bound: handlers under way at the same time
    MaxWrites,      \* bound: requests of this page that change something
    MaxLoads,       \* bound: loads of the page, beyond which nobody retries
    MaxOthers,      \* bound: changes by others
    Shared,         \* bound: the pages of which others change a row meanwhile
    MaxFaults,      \* bound: requests or answers lost, and tokens expired
    Nil

ASSUME ConsoleAssumption ==
    /\ Page \subseteq {"organization", "users", "assets", "asset", "roles", "companies", "platform"}
    /\ IsFiniteSet(Item) /\ Type \cup Match \cup {Lifecycle} \subseteq Item
    /\ ItemsOf \in [Page -> SUBSET Item]
    /\ FirstRows \subseteq [Item -> Value \cup {Nil}]
    /\ Permissions \subseteq SUBSET {"read", "write"}
    /\ New \in Value
    /\ Nil \notin Item \cup Value \cup STRING
    /\ {MaxWrites, MaxLoads, MaxOthers, MaxFaults} \subseteq Nat /\ MaxCalls \in Nat \ {0}

VARIABLES
    page,           \* the page that is open
    access,         \* the access token: permissions, and whether it is valid
    store, version, \* the rows on the server, and how often they have changed
    view,           \* the state of the page
    calls,          \* the handlers under way
    ghost,          \* what only the properties look at
    spent           \* how much of each bound is used up

vars == <<page, access, store, version, view, calls, ghost, spent>>

Absent == Nil
Rows == [Item -> Value \cup {Absent}]
Call == 1 .. MaxCalls
Version == 0 .. MaxWrites + MaxOthers

Here(pages) == page \in pages

(* The rows there can be here. *)
Ids == ItemsOf[page]

(* no: which load of the page this is.  got: what has come of the rest that  *)
(* an asset's page asks for.  choice: selectedTypeId as the handler has it,   *)
(* which is what it was when the handler began.                               *)
Idle == [step |-> "idle", what |-> "load", item |-> Nil, value |-> Nil, choice |-> Nil,
         ok |-> FALSE, rows |-> [i \in Item |-> Absent], version |-> 0, no |-> 0, got |-> {}]

Closed == [kind |-> "none", item |-> Nil, value |-> Nil]

Loading(no) == [Idle EXCEPT !.step = "read", !.no = no]

Init ==
    /\ page \in Page
    /\ access \in [valid : {TRUE}, permissions : Permissions]
    /\ store \in FirstRows
    /\ version = 0
    /\ view = [rows |-> [i \in Item |-> Absent], loading |-> TRUE, busy |-> {}, error |-> FALSE,
               dialog |-> Closed, filter |-> Item, page |-> 1, choice |-> Nil]
    /\ calls = [c \in Call |-> IF c = 1 THEN Loading(1) ELSE Idle]
    /\ ghost = [last |-> 1, shown |-> [i \in Item |-> 0], failed |-> FALSE, freed |-> FALSE,
                seen |-> [i \in Item |-> 0], acked |-> [i \in Item |-> 0]]
    /\ spent = [writes |-> 0, others |-> 0, faults |-> 0]

Present == { i \in Item : view.rows[i] # Absent }

(* Where the handlers of rows, and of dialogs, can be started: below the    *)
(* headings, when a page has loaded and has something to show.              *)
ShownOrganization == Here({"organization"}) /\ ~view.loading /\ ~(view.error /\ Present = {})

ShownUsers == Here({"users"}) /\ ~view.loading

ShownAssets == Here({"assets"}) /\ ~view.loading

ShownAsset == Here({"asset"}) /\ ~view.loading /\ Lifecycle \in Present

ShownPlatform == Here({"platform"}) /\ ~view.loading

-----------------------------------------------------------------------------
(* The organization page: rows, filters, pages and dialogs.                *)

(* The rows that match the filters; a page of the table has one of them.   *)
Filtered == Present \cap view.filter
TotalPages == IF Filtered = {} THEN 1 ELSE Cardinality(Filtered)

Look(v) ==
    /\ ShownOrganization
    /\ view' = v
    /\ UNCHANGED <<page, access, store, version, calls, ghost, spent>>

(* Mutant of SetFilter: the page stays the one it was. *)
SetFilterOnly == \E f \in {Item, Match} :
    /\ view.dialog = Closed
    /\ Look([view EXCEPT !.filter = f])

SetFilter == \E f \in {Item, Match} \ {view.filter} :
    /\ view.dialog = Closed
    /\ Look([view EXCEPT !.filter = f, !.page = 1])

(* Next is only disabled on the last page, or on one beyond it. *)
TurnPage ==
    /\ view.dialog = Closed
    /\ Filtered # {}
    /\ \/ view.page > 1 /\ Look([view EXCEPT !.page = @ - 1])
       \/ view.page < TotalPages /\ Look([view EXCEPT !.page = @ + 1])

Open(dialog) == Look([view EXCEPT !.dialog = dialog, !.error = FALSE])

OpenCreate ==
    /\ view.dialog = Closed
    /\ Open([kind |-> "create", item |-> Nil, value |-> Nil])

OpenEdit == \E i \in Filtered :
    /\ view.dialog = Closed
    /\ Open([kind |-> "edit", item |-> i, value |-> view.rows[i]])

(* Delete leaves the messages where they are. *)
Ask == \E i \in Filtered :
    /\ view.dialog = Closed
    /\ Look([view EXCEPT !.dialog = [kind |-> "delete", item |-> i, value |-> view.rows[i]]])

(* A field of the form: Nil while one that is required is missing.  It can be  *)
(* edited while the form is being saved.                                       *)
Fill == \E v \in Value \cup {Nil} :
    /\ view.dialog.kind \in {"create", "edit"}
    /\ v # view.dialog.value
    /\ Look([view EXCEPT !.dialog.value = v])

Cancel ==
    /\ view.dialog # Closed
    /\ view.busy = {}
    /\ Look([view EXCEPT !.dialog = Closed])

(* submit() returns early: a name, a company, a site or a location is missing. *)
SubmitIncomplete ==
    /\ view.dialog.kind \in {"create", "edit"}
    /\ view.dialog.value = Nil
    /\ view.busy = {}
    /\ Look([view EXCEPT !.error = TRUE])

(* The select of the assets page. *)
ChooseType == \E t \in Type \cap Present :
    /\ Here({"assets"})
    /\ t # view.choice
    /\ view' = [view EXCEPT !.choice = t]
    /\ UNCHANGED <<page, access, store, version, calls, ghost, spent>>

-----------------------------------------------------------------------------
(* The handlers of the pages, up to their first await.                     *)

(* A request is sent: the flag is raised, old messages are cleared. *)
Post(c, what, i, v, seen) ==
    /\ calls[c] = Idle
    /\ spent.writes < MaxWrites
    /\ spent' = [spent EXCEPT !.writes = @ + 1]
    /\ view' = seen
    /\ calls' = [calls EXCEPT ![c] = [Idle EXCEPT !.step = "write", !.what = what, !.item = i,
                                                  !.value = v, !.choice = view.choice]]
    /\ UNCHANGED <<page, access, store, version, ghost>>

Cleared == [view EXCEPT !.error = FALSE]

(* A button, or a select, is disabled while its flag is up. *)
Disabled(flag) == flag \in view.busy

Raised(flag) == [Cleared EXCEPT !.busy = @ \cup {flag}]

(* Mutant of SubmitForm: a form with nothing in it is submitted as well. *)
SubmitAnyForm(c) == \E i \in Ids :
    /\ ShownOrganization
    /\ view.dialog.kind \in {"create", "edit"} /\ view.busy = {}
    /\ view.dialog.item \in {Nil, i}
    /\ Post(c, view.dialog.kind, i, view.dialog.value, Raised("saving"))

(* submit(), of the form that is open: a row to be created, or this one. *)
SubmitForm(c) == \E i \in Ids :
    /\ ShownOrganization
    /\ view.dialog.kind \in {"create", "edit"} /\ view.busy = {}
    /\ view.dialog.value # Nil
    /\ view.dialog.item \in {Nil, i}
    /\ Post(c, view.dialog.kind, i, view.dialog.value, Raised("saving"))

Remove(c) ==
    /\ ShownOrganization
    /\ view.dialog.kind = "delete" /\ view.busy = {}
    /\ Post(c, "delete", view.dialog.item, Nil, Raised("deleting"))

(* Mutant of CreateUser: the button is not disabled. *)
CreateUserTwice(c) == \E i \in Ids :
    /\ Here({"users"})
    /\ Post(c, "create", i, New, Raised("saving"))

CreateUser(c) == \E i \in Ids :
    /\ Here({"users"})
    /\ ~Disabled("saving")
    /\ Post(c, "create", i, New, Raised("saving"))

(* Every user in the table has a button, which is never disabled. *)
ToggleUser(c) == \E i \in Present, v \in Value :
    /\ ShownUsers
    /\ v # view.rows[i]
    /\ Post(c, "edit", i, v, Cleared)

CreateType(c) == \E t \in Type :
    /\ Here({"assets"})
    /\ Post(c, "create", t, New, Cleared)

CreateAsset(c) == \E i \in Ids \ Type :
    /\ Here({"assets"})
    /\ Type \cap Present # {}
    /\ Post(c, "create", i, New, Cleared)

TransitionAsset(c) == \E i \in Present \ Type, v \in Value :
    /\ ShownAssets
    /\ v # view.rows[i]
    /\ Post(c, "edit", i, v, Cleared)

(* On the page of an asset the message that is shown is left. *)
Transition(c) == \E v \in Value :
    /\ ShownAsset
    /\ v # view.rows[Lifecycle] /\ ~Disabled("transitioning")
    /\ Post(c, "transition", Lifecycle, v, [view EXCEPT !.busy = @ \cup {"transitioning"}])

SaveWarranty(c) == \E i \in Ids \ {Lifecycle}, v \in Value :
    /\ ShownAsset
    /\ Post(c, "edit", i, v, view)

CreateRole(c) == \E i \in Ids :
    /\ Here({"roles"})
    /\ Post(c, "create", i, New, Cleared)

CreateCompany(c) == \E i \in Ids :
    /\ Here({"companies"})
    /\ Post(c, "create", i, New, Cleared)

(* The flag is the user whose roles are being saved: the last such one. *)
SaveRoles(c) == \E i \in Present \ view.busy, v \in Value :
    /\ ShownPlatform
    /\ v # view.rows[i]
    /\ Post(c, "edit", i, v, [Cleared EXCEPT !.busy = {i}])

Handler(c) ==
    \/ SubmitForm(c) \/ Remove(c) \/ CreateUser(c) \/ ToggleUser(c)
    \/ CreateType(c) \/ CreateAsset(c) \/ TransitionAsset(c)
    \/ Transition(c) \/ SaveWarranty(c) \/ CreateRole(c) \/ CreateCompany(c) \/ SaveRoles(c)

-----------------------------------------------------------------------------
(* What load() sets before it sends its requests, page by page.            *)

LoadOrganization(v) == [v EXCEPT !.loading = TRUE, !.error = FALSE]

LoadUsers(v) == [v EXCEPT !.loading = TRUE, !.error = FALSE]

(* The error of an earlier load stays. *)
LoadAssets(v) == [v EXCEPT !.loading = TRUE]

LoadAsset(v) == [v EXCEPT !.loading = TRUE, !.error = FALSE]

LoadRoles(v) == [v EXCEPT !.loading = TRUE]

LoadCompanies(v) == [v EXCEPT !.loading = TRUE]

LoadPlatform(v) == [v EXCEPT !.loading = TRUE, !.error = FALSE]

Reloading(v) ==
    CASE Here({"organization"}) -> LoadOrganization(v)
      [] Here({"users"})        -> LoadUsers(v)
      [] Here({"assets"})       -> LoadAssets(v)
      [] Here({"asset"})        -> LoadAsset(v)
      [] Here({"roles"})        -> LoadRoles(v)
      [] Here({"companies"})    -> LoadCompanies(v)
      [] Here({"platform"})     -> LoadPlatform(v)

Start(c, load) ==
    /\ calls' = [calls EXCEPT ![c] = [load EXCEPT !.step = "read", !.no = ghost.last + 1]]
    /\ ghost' = [ghost EXCEPT !.last = @ + 1, !.failed = FALSE]

(* "Try again" beside an error, and the Refresh buttons: on the platform page *)
(* it is disabled while roles are saved, on that of an asset it never is.     *)
Retry(c) ==
    /\ calls[c] = Idle
    /\ ~view.loading
    /\ \/ /\ Here({"organization"})
          /\ view.error
          /\ view.dialog = Closed \/ Present = {}
       \/ Here({"platform"}) /\ view.busy = {}
       \/ ShownAsset
    /\ ghost.last < MaxLoads
    /\ Start(c, Idle)
    /\ view' = Reloading(view)
    /\ UNCHANGED <<page, access, store, version, spent>>

-----------------------------------------------------------------------------
(* The API.  TenantContextGuard wants a valid token, RbacGuard the         *)
(* permission of the route, as the token has it; a handler may refuse for  *)
(* reasons of its own.                                                     *)

Authenticated == access.valid

Permitted(permission) == permission \in access.permissions

Admitted(permission) == Authenticated /\ Permitted(permission)

Answer(c, answer) ==
    /\ calls' = [calls EXCEPT ![c] = answer]
    /\ UNCHANGED <<page, access, view, ghost>>

Refused(c) == [calls[c] EXCEPT !.step = "answer", !.ok = FALSE]

(* Whether there is such a row to change, or none yet to create. *)
Possible(call) == (call.what = "create") = (store[call.item] = Absent)

Written(call) == IF call.what = "delete" THEN Absent ELSE call.value

Serve(c) ==
    LET call == calls[c]
    IN  /\ call.step = "write"
        /\ \/ /\ Admitted("write")
              /\ Possible(call) \/ (Here({"asset"}) /\ call.item # Lifecycle)
              /\ store' = [store EXCEPT ![call.item] = Written(call)]
              /\ version' = version + 1
              /\ Answer(c, [call EXCEPT !.step = "answer", !.ok = TRUE, !.version = version + 1])
           \/ Answer(c, Refused(c)) /\ UNCHANGED <<store, version>>
        /\ UNCHANGED spent

(* A list, which only fails for a caller who may not read. *)
ServeRead(c) ==
    /\ calls[c].step = "read"
    /\ Answer(c, IF Admitted("read")
                 THEN [calls[c] EXCEPT !.step = "rows", !.rows = store, !.version = version]
                 ELSE [calls[c] EXCEPT !.step = "failed"])
    /\ UNCHANGED <<store, version, spent>>

(* The rest of what an asset's page asks for, in requests of their own. *)
ServeRest(c) ==
    /\ calls[c].step = "rest"
    /\ Answer(c, [calls[c] EXCEPT !.step = "all", !.rows = store, !.version = version,
                                  !.got = IF Admitted("read") THEN Ids \ {Lifecycle} ELSE {}])
    /\ UNCHANGED <<store, version, spent>>

(***************************************************************************)
(* The request or its answer is lost: fetch() rejects.  What was asked for *)
(* may have been done.  Of several requests some may come back.            *)
(***************************************************************************)
Lose(c) ==
    /\ spent.faults < MaxFaults
    /\ spent' = [spent EXCEPT !.faults = @ + 1]
    /\ \/ /\ calls[c].step \in {"write", "answer"}
          /\ Answer(c, Refused(c))
       \/ /\ calls[c].step \in {"read", "rows"}
          /\ Answer(c, [calls[c] EXCEPT !.step = "failed"])
       \/ \E some \in (SUBSET calls[c].got) \ {calls[c].got} :
            /\ calls[c].step = "all"
            /\ Answer(c, [calls[c] EXCEPT !.got = some])
    /\ UNCHANGED <<store, version>>

(* Somebody else's request. *)
Other == \E i \in Ids, v \in Value \cup {Absent} :
    /\ Here(Shared)
    /\ v # store[i]
    /\ spent.others < MaxOthers
    /\ spent' = [spent EXCEPT !.others = @ + 1]
    /\ store' = [store EXCEPT ![i] = v]
    /\ version' = version + 1
    /\ UNCHANGED <<page, access, view, calls, ghost>>

ExpireToken ==
    /\ access.valid
    /\ spent.faults < MaxFaults
    /\ spent' = [spent EXCEPT !.faults = @ + 1]
    /\ access' = [access EXCEPT !.valid = FALSE]
    /\ UNCHANGED <<page, store, version, view, calls, ghost>>

-----------------------------------------------------------------------------
(* The handlers, after an await.                                           *)

(* The flag that a handler lowers when it ends, whoever raised it last. *)
Lowered(call) ==
    CASE Here({"users"})  -> IF call.what = "create" THEN {} ELSE view.busy
      [] Here({"asset"})  -> IF call.what = "transition" THEN {} ELSE view.busy
      [] call.what = "load" -> view.busy
      [] OTHER -> {}

Done(c) == calls' = [calls EXCEPT ![c] = Idle]

Higher(a, b) == IF a > b THEN a ELSE b

Alone(c) == \A d \in Call : d # c => calls[d] = Idle

(* The write has failed: the error is shown and the flag lowered. *)
ReceiveRefusal(c) ==
    LET call == calls[c]
    IN  /\ call.step = "answer" /\ ~call.ok
        /\ view' = [view EXCEPT !.error = TRUE, !.busy = Lowered(call)]
        /\ ghost' = [ghost EXCEPT !.freed = @ \/ ~Alone(c)]
        /\ Done(c)
        /\ UNCHANGED <<page, access, store, version, spent>>

Acknowledged(g, call) == [g EXCEPT !.acked[call.item] = Higher(@, call.version)]

(* The platform page puts what it sent into the row it shows. *)
PatchRow(c) ==
    LET call == calls[c]
    IN  /\ Here({"platform"})
        /\ call.step = "answer" /\ call.ok
        /\ view' = [view EXCEPT !.rows[call.item] = IF @ = Absent THEN @ ELSE call.value,
                                !.busy = {}]
        /\ ghost' = [Acknowledged(ghost, call) EXCEPT
                        !.seen[call.item] = call.version,
                        !.freed = @ \/ ~Alone(c)]
        /\ Done(c)
        /\ UNCHANGED <<page, access, store, version, spent>>

(* Mutant of Reload: the rows are not loaded again. *)
ForgetReload(c) ==
    LET call == calls[c]
    IN  /\ ~Here({"platform"})
        /\ call.step = "answer" /\ call.ok
        /\ view' = [view EXCEPT !.dialog = Closed, !.busy = Lowered(call)]
        /\ ghost' = Acknowledged(ghost, call)
        /\ Done(c)
        /\ UNCHANGED <<page, access, store, version, spent>>

(* The others close their form, if they have one, and load again; the flag    *)
(* of the handler stays up.                                                   *)
Reload(c) ==
    LET call == calls[c]
    IN  /\ ~Here({"platform"})
        /\ call.step = "answer" /\ call.ok
        /\ calls' = [calls EXCEPT ![c] = [call EXCEPT !.step = "read", !.no = ghost.last + 1]]
        /\ ghost' = [Acknowledged(ghost, call) EXCEPT !.last = @ + 1, !.failed = FALSE]
        /\ view' = Reloading([view EXCEPT !.dialog = Closed])
        /\ UNCHANGED <<page, access, store, version, spent>>

(* load() has ended, and the handler that called it goes on: load() does not   *)
(* throw, whether it has worked or not.                                        *)
Ended(v, call) == [v EXCEPT !.loading = FALSE, !.busy = Lowered(call)]

(* Mutant of ReceiveFailure: there is no finally. *)
FailAndStop(c) ==
    LET call == calls[c]
    IN  /\ call.step = "failed"
        /\ view' = [view EXCEPT !.error = TRUE]
        /\ ghost' = [ghost EXCEPT !.failed = @ \/ call.no = ghost.last]
        /\ Done(c)
        /\ UNCHANGED <<page, access, store, version, spent>>

ReceiveFailure(c) ==
    LET call == calls[c]
    IN  /\ call.step = "failed"
        /\ view' = Ended([view EXCEPT !.error = TRUE], call)
        /\ ghost' = [ghost EXCEPT !.failed = @ \/ call.no = ghost.last]
        /\ Done(c)
        /\ UNCHANGED <<page, access, store, version, spent>>

Seen(g, call) == [g EXCEPT !.shown = [i \in Item |-> call.no], !.seen = [i \in Item |-> call.version]]

(* Mutant of Choice: the first type is selected whenever the page loads. *)
ChoiceAlways(call) ==
    LET types == { i \in Type : call.rows[i] # Absent }
    IN  IF ~Here({"assets"}) THEN view.choice
        ELSE IF types = {} THEN Nil ELSE CHOOSE t \in types : TRUE

(* The type that is selected for the user when there is none, for a handler. *)
Choice(call) ==
    LET types == { i \in Type : call.rows[i] # Absent }
    IN  IF Here({"assets"}) /\ types # {} /\ call.choice = Nil
        THEN CHOOSE t \in types : TRUE
        ELSE view.choice

ReceiveRows(c) ==
    LET call == calls[c]
    IN  /\ ~Here({"asset"})
        /\ call.step = "rows"
        /\ view' = Ended([view EXCEPT !.rows = call.rows, !.choice = Choice(call)], call)
        /\ ghost' = Seen(ghost, call)
        /\ Done(c)
        /\ UNCHANGED <<page, access, store, version, spent>>

(* On the page of an asset, its state comes first, or "Asset not found". *)
ReceiveAsset(c) ==
    LET call == calls[c]
    IN  /\ Here({"asset"})
        /\ call.step = "rows"
        /\ IF call.rows[Lifecycle] = Absent
           THEN /\ calls' = [calls EXCEPT ![c].step = "failed"]
                /\ UNCHANGED <<view, ghost>>
           ELSE /\ calls' = [calls EXCEPT ![c].step = "rest"]
                /\ view' = [view EXCEPT !.rows[Lifecycle] = call.rows[Lifecycle]]
                /\ ghost' = [ghost EXCEPT !.shown[Lifecycle] = call.no,
                                           !.seen[Lifecycle] = call.version]
        /\ UNCHANGED <<page, access, store, version, spent>>

(* ... and what Promise.allSettled() has brought, each for itself. *)
ReceiveRest(c) ==
    LET call == calls[c]
        merged(old, new) == [i \in Item |-> IF i \in call.got THEN new ELSE old[i]]
    IN  /\ call.step = "all"
        /\ view' = Ended([view EXCEPT !.rows = [i \in Item |-> IF i \in call.got THEN call.rows[i]
                                                               ELSE view.rows[i]]], call)
        /\ ghost' = [ghost EXCEPT
                        !.shown = merged(@, call.no),
                        !.seen = merged(@, call.version),
                        !.failed = @ \/ (call.got # Ids \ {Lifecycle} /\ call.no = ghost.last)]
        /\ Done(c)
        /\ UNCHANGED <<page, access, store, version, spent>>

Net(c) ==
    \/ Serve(c) \/ ServeRead(c) \/ ServeRest(c)
    \/ ReceiveRefusal(c) \/ PatchRow(c) \/ Reload(c) \/ ReceiveFailure(c)
    \/ ReceiveRows(c) \/ ReceiveAsset(c) \/ ReceiveRest(c)

UserStep ==
    \/ SetFilter \/ TurnPage \/ OpenCreate \/ OpenEdit \/ Ask \/ Fill \/ Cancel
    \/ SubmitIncomplete \/ ChooseType
    \/ \E c \in Call : Handler(c) \/ Retry(c)

Next ==
    \/ UserStep
    \/ \E c \in Call : Net(c) \/ Lose(c)
    \/ Other \/ ExpireToken

(***************************************************************************)
(* A request is answered or fails at last, and the browser runs what waits *)
(* for it.  Nobody has to touch the page.                                  *)
(***************************************************************************)
Spec == Init /\ [][Next]_vars /\ \A c \in Call : WF_vars(Net(c))

-----------------------------------------------------------------------------
(* The rows on the server and on the page, and what handlers carry. *)
TypeOK ==
    /\ store \in Rows /\ view.rows \in Rows /\ version \in Version
    /\ view.busy \subseteq Item \cup {"saving", "deleting", "transitioning"}
    /\ view.choice \in Type \cup {Nil} /\ view.filter \subseteq Item /\ view.page \in Nat \ {0}
    /\ \A c \in Call : /\ calls[c].step \in {"idle", "write", "answer", "read", "rows", "failed", "rest", "all"}
                       /\ calls[c].rows \in Rows
                       /\ calls[c].step = "write" /\ calls[c].what # "delete" => calls[c].value \in Value

Quiet == \A c \in Call : calls[c] = Idle

(***************************************************************************)
(* A page at rest shows what its own acknowledged writes have made, or     *)
(* something later.  It can lag behind only if its last load failed, or,   *)
(* on the pages that let handlers overlap, if the last load to arrive was  *)
(* not the last to be sent; on the platform page, which does not load      *)
(* again, if the end of one save has lowered the flag of another.          *)
(***************************************************************************)
ReadYourWrites ==
    Quiet => \A i \in Item :
        \/ ghost.seen[i] >= ghost.acked[i]
        \/ ghost.failed
        \/ ~Here({"organization", "platform"}) /\ ghost.shown[i] # ghost.last
        \/ Here({"platform"}) /\ ghost.freed

(***************************************************************************)
(* Nothing is submitted a second time while it is being saved, however     *)
(* handlers and loads overlap: there is one request at a time on the       *)
(* organization page, one creation on that of users and one transition on  *)
(* that of an asset.  The other pages have no such flag.                   *)
(***************************************************************************)
SubmittedOnce ==
    \A c, d \in Call :
        LET changes(what) == /\ calls[c].what = what /\ calls[d].what = what
                             /\ c # d
        IN  /\ Here({"users"}) => ~changes("create")
            /\ Here({"asset"}) => ~changes("transition")
            /\ Here({"organization"}) /\ c # d => calls[c] = Idle \/ calls[d] = Idle

(* The number of the page is only left without rows when a load, not the      *)
(* user, has made the rows fewer.                                             *)
PageInRange ==
    [][ view.page <= TotalPages => view'.page <= TotalPages' \/ view'.rows # view.rows ]_vars

(* A type that the user has selected stays selected, unless a handler that    *)
(* began before there was a selection brings its answer afterwards.           *)
ChoiceKept ==
    [][ view.choice # Nil /\ view'.choice # view.choice =>
          \/ calls' = calls
          \/ \E c \in Call : calls[c].step = "rows" /\ calls[c].choice = Nil ]_vars

(* No page loads, or keeps its buttons disabled, for ever. *)
ComesToRest == []<>(~view.loading /\ view.busy = {})
=============================================================================
