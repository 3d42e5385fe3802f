----------------------------- MODULE ConsoleProofs -----------------------------
(***************************************************************************)
(* Proofs about Console: of its types, that nothing is submitted twice,    *)
(* that a page at rest shows what it has written, and of what a step may   *)
(* do to the number of the page and to the selected type.                  *)
(*                                                                         *)
(* That nothing is submitted twice rests on flags: a creation, or a        *)
(* transition, under way has its flag up, and nobody else's handler        *)
(* lowers it.  On the organization page it rests on two of them: while a   *)
(* write is under way `busy' is not empty, while a load is `loading' is    *)
(* up, and then the page has no control that starts another handler.       *)
(*                                                                         *)
(* That reads follow writes rests on an order: whatever has been           *)
(* acknowledged was acknowledged before the last load was sent, so that    *)
(* the rows this load brings are of a later version than all of it.        *)
(***************************************************************************)
EXTENDS Console, FiniteSetTheorems, TLAPS

Flag == Item \cup {"saving", "deleting", "transitioning"}

PageNumber == Nat \ {0}

Dialog == [kind : {"none", "create", "edit", "delete"}, item : Item \cup {Nil}, value : Value \cup {Nil}]

View == [rows : Rows, loading : BOOLEAN, busy : SUBSET Flag, error : BOOLEAN, dialog : Dialog,
         filter : SUBSET Item, page : PageNumber, choice : Type \cup {Nil}]

HandlerCall ==
    [step : {"idle", "write", "answer", "read", "rows", "failed", "rest", "all"},
     what : {"load", "create", "edit", "delete", "transition"},
     item : Item \cup {Nil}, value : Value \cup {Nil}, choice : Type \cup {Nil}, ok : BOOLEAN,
     rows : Rows, version : Nat, no : Nat, got : SUBSET Item]

Ghost == [last : Nat, shown : [Item -> Nat], failed : BOOLEAN, freed : BOOLEAN,
          seen : [Item -> Nat], acked : [Item -> Nat]]

Spent == [writes : 0 .. MaxWrites, others : 0 .. MaxOthers, faults : 0 .. MaxFaults]

TablesOK ==
    /\ page \in Page
    /\ store \in Rows
    /\ version \in Nat
    /\ view \in View
    /\ view.dialog.kind = "delete" => view.dialog.item \in Item
    /\ calls \in [Call -> HandlerCall]
    /\ ghost \in Ghost
    /\ spent \in Spent

(* What a handler holds has come from the past; it changes a row there can be. *)
CallOK(call) ==
    /\ call.version <= version
    /\ call.no <= ghost.last
    /\ call.step = "idle" => call = Idle
    /\ call.step \in {"write", "answer"} => call.item \in Item /\ call.what # "load"
    /\ call.step = "write" /\ call.what # "delete" => call.value \in Value
    /\ call.step \in {"rest", "all"} => page = "asset"

CallsOK == \A c \in Call : CallOK(calls[c])

(* A write that is not served yet is to come on top of the versions there are. *)
Pending == { c \in Call : calls[c].step = "write" }

Counted == version + Cardinality(Pending) <= spent.writes + spent.others

(* A handler that does what there may be only one of has its flag up. *)
OnlyOne(what, flag) ==
    \A c \in Call :
        calls[c].what = what =>
            flag \in view.busy /\ \A d \in Call \ {c} : calls[d].what # what

FlagsHold ==
    /\ page = "users" => OnlyOne("create", "saving")
    /\ page = "asset" => OnlyOne("transition", "transitioning")

IsLoad(call) == call.step \in {"read", "rows", "failed"}

IsWrite(call) == call.step \in {"write", "answer"}

(***************************************************************************)
(* The organization page has one handler at a time, and what it shows      *)
(* while there is none is what its last load has brought, if it has.       *)
(***************************************************************************)
OneAtATime ==
    page = "organization" =>
        /\ \A c \in Call : calls[c] # Idle => \A d \in Call \ {c} : calls[d] = Idle
        /\ \A c \in Call : IsLoad(calls[c]) => view.loading /\ calls[c].no = ghost.last
        /\ \A c \in Call : IsWrite(calls[c]) => view.busy # {} /\ ~view.error
        /\ \/ ghost.failed
           \/ \A i \in Item : ghost.shown[i] = ghost.last
           \/ \E c \in Call : IsLoad(calls[c])

InThePast ==
    \A i \in Item : ghost.acked[i] <= version /\ ghost.shown[i] <= ghost.last

AllAcked(seen) == \A i \in Item : ghost.acked[i] <= seen

(* What the last load brings, or has brought, is not older than what is acked. *)
LastLoadIsNew ==
    page # "platform" =>
        /\ \A i \in Item : ghost.shown[i] = ghost.last => ghost.acked[i] <= ghost.seen[i]
        /\ \A c \in Call :
              calls[c].no = ghost.last /\ calls[c].step \in {"rows", "rest", "all"}
                  => AllAcked(calls[c].version)

(* On the platform page any answer does, as long as handlers did not overlap. *)
AnswersAreNew ==
    page = "platform" /\ ~ghost.freed =>
        /\ \A i \in Item : ghost.acked[i] <= ghost.seen[i]
        /\ \A c \in Call :
              calls[c].step = "rows" \/ (calls[c].step = "answer" /\ calls[c].ok)
                  => AllAcked(calls[c].version)

ConsoleInv ==
    /\ TablesOK
    /\ CallsOK
    /\ Counted
    /\ FlagsHold
    /\ OneAtATime
    /\ InThePast
    /\ LastLoadIsNew
    /\ AnswersAreNew

-----------------------------------------------------------------------------
(* What helpers return. *)

LEMMA ConstantTypes ==
    /\ 1 \in PageNumber
    /\ PageNumber \subseteq Nat
    /\ Lifecycle \in Item /\ Type \subseteq Item /\ Match \subseteq Item
    /\ \A p \in Page : ItemsOf[p] \subseteq Item
    /\ FirstRows \subseteq Rows
    /\ MaxWrites \in Nat /\ MaxOthers \in Nat /\ MaxFaults \in Nat
    /\ 1 \in Call
    /\ Nil \notin Item /\ Nil \notin Value
  BY ConsoleAssumption DEF PageNumber, Rows, Absent, Call

LEMMA IdleTypes ==
    /\ Idle \in HandlerCall
    /\ Idle.step = "idle" /\ Idle.what = "load" /\ Idle.no = 0 /\ Idle.version = 0 /\ ~Idle.ok
  BY DEF Idle, HandlerCall, Rows, Absent

LEMMA IdleOK ==
    ASSUME version \in Nat, ghost \in Ghost
    PROVE  CallOK(Idle)
  BY IdleTypes DEF CallOK, Ghost

(* An idle call is idle in all that it holds. *)
LEMMA IdleStep ==
    ASSUME CallsOK, NEW c \in Call
    PROVE  calls[c] = Idle <=> calls[c].step = "idle"
  BY IdleTypes DEF CallsOK, CallOK

(* Before a load sends its requests it says so, whatever page it is on. *)
LEMMA ReloadingEffect ==
    ASSUME page \in Page, NEW v \in View
    PROVE  /\ Reloading(v) \in View
           /\ Reloading(v).loading
           /\ Reloading(v).busy = v.busy
           /\ Reloading(v).dialog = v.dialog
           /\ Reloading(v).rows = v.rows
           /\ Reloading(v).page = v.page
           /\ Reloading(v).filter = v.filter
           /\ Reloading(v).choice = v.choice
  <1>1. \/ Reloading(v) = [v EXCEPT !.loading = TRUE]
        \/ Reloading(v) = [v EXCEPT !.loading = TRUE, !.error = FALSE]
    BY ConsoleAssumption
       DEF Reloading, Here, LoadOrganization, LoadUsers, LoadAssets, LoadAsset, LoadRoles,
           LoadCompanies, LoadPlatform
  <1>2. QED
    BY <1>1 DEF View

(* A handler lowers its own flag, or none that FlagsHold is about. *)
LEMMA LoweredEffect ==
    ASSUME view \in View, NEW call
    PROVE  /\ Lowered(call) \in SUBSET Flag
           /\ page = "users" /\ call.what # "create" => Lowered(call) = view.busy
           /\ page = "asset" /\ call.what # "transition" => Lowered(call) = view.busy
  BY DEF Lowered, Here, View

LEMMA EndedEffect ==
    ASSUME view \in View, NEW v \in View, NEW call
    PROVE  /\ Ended(v, call) \in View
           /\ Ended(v, call).busy = Lowered(call)
           /\ Ended(v, call).dialog = v.dialog
           /\ Ended(v, call).page = v.page
           /\ Ended(v, call).filter = v.filter
           /\ Ended(v, call).choice = v.choice
  BY LoweredEffect DEF Ended, View

LEMMA HigherOf ==
    ASSUME NEW a \in Nat, NEW b \in Nat
    PROVE  Higher(a, b) \in Nat /\ Higher(a, b) >= a /\ Higher(a, b) >= b /\ Higher(a, b) \in {a, b}
  BY DEF Higher

-----------------------------------------------------------------------------
(* One handler moves, the others stay where they are. *)
LEMMA MoveCall ==
    ASSUME TablesOK, CallsOK, UNCHANGED page, NEW c \in Call, NEW call \in HandlerCall,
           calls' = [calls EXCEPT ![c] = call], CallOK(call)',
           version' \in Nat, version <= version', ghost' \in Ghost, ghost.last <= ghost'.last
    PROVE  /\ calls' \in [Call -> HandlerCall]
           /\ calls'[c] = call
           /\ \A d \in Call \ {c} : calls'[d] = calls[d]
           /\ CallsOK'
  <1>1. /\ calls' \in [Call -> HandlerCall]
        /\ calls'[c] = call
        /\ \A d \in Call \ {c} : calls'[d] = calls[d]
    BY DEF TablesOK
  <1>2. ASSUME NEW d \in Call \ {c}
        PROVE  CallOK(calls[d])'
    <2>1. PICK x \in HandlerCall : x = calls[d]
      BY DEF TablesOK
    <2>2. CallOK(x)
      BY <2>1 DEF CallsOK
    <2>3. x.version \in Nat /\ x.no \in Nat /\ ghost.last \in Nat /\ ghost'.last \in Nat /\ version \in Nat
      BY DEF HandlerCall, TablesOK, Ghost
    <2>4. CallOK(x)'
      BY <2>2, <2>3 DEF CallOK
    <2>5. QED
      BY <1>1, <2>1, <2>4
  <1>3. CallOK(calls[c])'
    BY <1>1
  <1>4. QED
    BY <1>1, <1>2, <1>3 DEF CallsOK

LEMMA PendingMoves ==
    ASSUME TablesOK, NEW c \in Call, NEW call \in HandlerCall, calls' = [calls EXCEPT ![c] = call]
    PROVE  /\ Cardinality(Pending) \in Nat
           /\ Cardinality(Pending') \in Nat
           /\ Cardinality(Pending') <= Cardinality(Pending) + 1
           /\ call.step # "write" => Cardinality(Pending') <= Cardinality(Pending)
           /\ call.step # "write" /\ calls[c].step = "write" =>
                 Cardinality(Pending') = Cardinality(Pending) - 1
  <1>1. IsFiniteSet(Call)
    <2>1. MaxCalls \in Int /\ 1 \in Int
      BY ConsoleAssumption
    <2>2. QED
      BY <2>1, FS_Interval DEF Call
  <1>2. /\ IsFiniteSet(Pending) /\ Cardinality(Pending) \in Nat
        /\ IsFiniteSet(Pending') /\ Cardinality(Pending') \in Nat
    BY <1>1, FS_Subset, FS_CardinalityType DEF Pending
  <1>3. calls'[c] = call /\ \A d \in Call \ {c} : calls'[d] = calls[d]
    BY DEF TablesOK
  <1>4. IsFiniteSet(Pending \cup {c}) /\ Cardinality(Pending \cup {c}) <= Cardinality(Pending) + 1
    <2>1. /\ IsFiniteSet(Pending \cup {c})
          /\ Cardinality(Pending \cup {c}) =
               IF c \in Pending THEN Cardinality(Pending) ELSE Cardinality(Pending) + 1
      BY <1>2, FS_AddElement
    <2>2. QED
      BY <1>2, <2>1
  <1>5. Pending' \subseteq Pending \cup {c}
    BY <1>3 DEF Pending
  <1>6. Cardinality(Pending') <= Cardinality(Pending) + 1
    <2>1. Cardinality(Pending') <= Cardinality(Pending \cup {c})
      BY <1>4, <1>5, FS_Subset
    <2>2. Cardinality(Pending \cup {c}) \in Nat
      BY <1>4, FS_CardinalityType
    <2>3. QED
      BY <1>2, <1>4, <2>1, <2>2
  <1>7. ASSUME call.step # "write"
        PROVE  Cardinality(Pending') <= Cardinality(Pending)
    <2>1. Pending' \subseteq Pending
      BY <1>3, <1>7 DEF Pending
    <2>2. QED
      BY <1>2, <2>1, FS_Subset
  <1>8. ASSUME call.step # "write", calls[c].step = "write"
        PROVE  Cardinality(Pending') = Cardinality(Pending) - 1
    <2>1. Pending' = Pending \ {c} /\ c \in Pending
      BY <1>3, <1>8 DEF Pending
    <2>2. QED
      BY <1>2, <2>1, FS_RemoveElement
  <1>9. QED
    BY <1>2, <1>6, <1>7, <1>8

(* A flag holds while its handler goes on, and when it ends and lowers it. *)
LEMMA FlagsKept ==
    ASSUME FlagsHold, UNCHANGED page, NEW c \in Call,
           \A d \in Call \ {c} : calls'[d] = calls[d],
           calls'[c].what \in {calls[c].what, "load"},
           page = "users" => \/ "saving" \in view.busy => "saving" \in view'.busy
                             \/ calls[c].what = "create" /\ calls'[c].what = "load",
           page = "asset" => \/ "transitioning" \in view.busy => "transitioning" \in view'.busy
                             \/ calls[c].what = "transition" /\ calls'[c].what = "load"
    PROVE  FlagsHold'
  BY DEF FlagsHold, OnlyOne

-----------------------------------------------------------------------------
(* The user looks at the rows, and opens and fills in forms. *)
LEMMA LookInv ==
    ASSUME ConsoleInv, view' \in View,
           view'.dialog.kind = "delete" => view'.dialog.item \in Item,
           view'.busy = view.busy, view'.loading = view.loading,
           page = "organization" /\ view'.error => view.error \/ view.busy = {},
           UNCHANGED <<page, store, version, calls, ghost, spent>>
    PROVE  ConsoleInv'
  <1>1. TablesOK' /\ CallsOK'
    BY DEF ConsoleInv, TablesOK, CallsOK, CallOK
  <1>2. Counted'
    BY DEF ConsoleInv, Counted, Pending
  <1>3. FlagsHold'
    BY DEF ConsoleInv, FlagsHold, OnlyOne
  <1>4. OneAtATime'
    BY DEF ConsoleInv, OneAtATime, IsLoad, IsWrite
  <1>5. InThePast' /\ LastLoadIsNew' /\ AnswersAreNew'
    BY DEF ConsoleInv, InThePast, LastLoadIsNew, AnswersAreNew, AllAcked
  <1>6. QED
    BY <1>1, <1>2, <1>3, <1>4, <1>5 DEF ConsoleInv

UserLooks ==
    \/ SetFilter \/ TurnPage \/ OpenCreate \/ OpenEdit \/ Ask \/ Fill \/ Cancel
    \/ SubmitIncomplete \/ ChooseType

LEMMA RowsOfView ==
    ASSUME view \in View
    PROVE  /\ Present \subseteq Item
           /\ \A i \in Item : view.rows[i] \in Value \cup {Nil}
           /\ \A i \in Present : view.rows[i] \in Value
  BY DEF Present, View, Rows, Absent

LEMMA UserLooksInv ==
    ASSUME ConsoleInv, UserLooks
    PROVE  ConsoleInv'
  <1>1. view \in View /\ (view.dialog.kind = "delete" => view.dialog.item \in Item)
    BY DEF ConsoleInv, TablesOK
  <1>2. UNCHANGED <<page, store, version, calls, ghost, spent>>
    BY DEF UserLooks, SetFilter, TurnPage, OpenCreate, OpenEdit, Ask, Fill, Cancel, SubmitIncomplete,
           ChooseType, Open, Look
  <1>3. CASE SetFilter
    <2>1. PICK f \in {Item, Match} : view' = [view EXCEPT !.filter = f, !.page = 1]
      BY <1>3 DEF SetFilter, Look
    <2>2. f \in SUBSET Item
      BY ConstantTypes
    <2>3. /\ view' \in View /\ view'.dialog = view.dialog /\ view'.busy = view.busy
          /\ view'.loading = view.loading /\ view'.error = view.error
      BY <1>1, <2>1, <2>2, ConstantTypes DEF View
    <2>4. QED
      BY <1>1, <1>2, <2>3, LookInv
  <1>4. CASE TurnPage
    <2>1. PICK n \in PageNumber : view' = [view EXCEPT !.page = n]
      BY <1>1, <1>4 DEF TurnPage, Look, View, PageNumber
    <2>2. /\ view' \in View /\ view'.dialog = view.dialog /\ view'.busy = view.busy
          /\ view'.loading = view.loading /\ view'.error = view.error
      BY <1>1, <2>1 DEF View
    <2>3. QED
      BY <1>1, <1>2, <2>2, LookInv
  <1>5. CASE OpenCreate \/ OpenEdit
    <2>1. PICK dialog \in Dialog :
            dialog.kind # "delete" /\ view' = [view EXCEPT !.dialog = dialog, !.error = FALSE]
      <3>1. CASE OpenCreate
        BY <3>1 DEF OpenCreate, Open, Look, Dialog
      <3>2. CASE OpenEdit
        <4>1. PICK i \in Filtered :
                view' = [view EXCEPT !.dialog = [kind |-> "edit", item |-> i, value |-> view.rows[i]],
                                     !.error = FALSE]
          BY <3>2 DEF OpenEdit, Open, Look
        <4>2. i \in Item /\ view.rows[i] \in Value
          BY <1>1, RowsOfView DEF Filtered
        <4>3. QED
          BY <4>1, <4>2 DEF Dialog
      <3>3. QED
        BY <1>5, <3>1, <3>2
    <2>2. /\ view' \in View /\ view'.dialog = dialog /\ view'.busy = view.busy
          /\ view'.loading = view.loading /\ ~view'.error
      BY <1>1, <2>1 DEF View
    <2>3. QED
      BY <1>2, <2>1, <2>2, LookInv
  <1>6. CASE Ask
    <2>1. PICK i \in Filtered :
            view' = [view EXCEPT !.dialog = [kind |-> "delete", item |-> i, value |-> view.rows[i]]]
      BY <1>6 DEF Ask, Look
    <2>2. i \in Item /\ view.rows[i] \in Value
      BY <1>1, RowsOfView DEF Filtered
    <2>3. PICK dialog \in Dialog :
            dialog.item = i /\ view' = [view EXCEPT !.dialog = dialog]
      BY <2>1, <2>2 DEF Dialog
    <2>4. /\ view' \in View /\ view'.dialog = dialog /\ view'.busy = view.busy
          /\ view'.loading = view.loading /\ view'.error = view.error
      BY <1>1, <2>3 DEF View
    <2>5. QED
      BY <1>2, <2>2, <2>3, <2>4, LookInv
  <1>7. CASE Fill
    <2>1. PICK v \in Value \cup {Nil} : view' = [view EXCEPT !.dialog.value = v]
      BY <1>7 DEF Fill, Look
    <2>2. /\ view' \in View /\ view'.dialog.kind = view.dialog.kind /\ view'.busy = view.busy
          /\ view'.dialog.item = view.dialog.item
          /\ view'.loading = view.loading /\ view'.error = view.error
      BY <1>1, <2>1 DEF View, Dialog
    <2>3. QED
      BY <1>1, <1>2, <2>2, LookInv
  <1>8. CASE Cancel
    <2>1. view' = [view EXCEPT !.dialog = Closed]
      BY <1>8 DEF Cancel, Look
    <2>2. Closed \in Dialog /\ Closed.kind = "none"
      BY DEF Closed, Dialog
    <2>3. /\ view' \in View /\ view'.dialog = Closed /\ view'.busy = view.busy
          /\ view'.loading = view.loading /\ view'.error = view.error
      BY <1>1, <2>1, <2>2 DEF View
    <2>4. QED
      BY <1>2, <2>2, <2>3, LookInv
  <1>9. CASE SubmitIncomplete
    <2>1. view' = [view EXCEPT !.error = TRUE] /\ view.busy = {}
      BY <1>9 DEF SubmitIncomplete, Look
    <2>2. /\ view' \in View /\ view'.dialog = view.dialog /\ view'.busy = view.busy
          /\ view'.loading = view.loading
      BY <1>1, <2>1 DEF View
    <2>3. QED
      BY <1>1, <1>2, <2>1, <2>2, LookInv
  <1>10. CASE ChooseType
    <2>1. PICK t \in Type : view' = [view EXCEPT !.choice = t]
      BY <1>10 DEF ChooseType
    <2>2. /\ view' \in View /\ view'.dialog = view.dialog /\ view'.busy = view.busy
          /\ view'.loading = view.loading /\ view'.error = view.error
      BY <1>1, <2>1 DEF View
    <2>3. QED
      BY <1>1, <1>2, <2>2, LookInv
  <1>11. QED
    BY <1>3, <1>4, <1>5, <1>6, <1>7, <1>8, <1>9, <1>10 DEF UserLooks

-----------------------------------------------------------------------------
(* The user starts a handler: what Post does, but for what it shows. *)
Posts(c, what, i, v) ==
    /\ calls[c] = Idle
    /\ spent.writes < MaxWrites
    /\ spent' = [spent EXCEPT !.writes = @ + 1]
    /\ \E choice \in Type \cup {Nil} :
          calls' = [calls EXCEPT ![c] = [Idle EXCEPT !.step = "write", !.what = what, !.item = i,
                                                     !.value = v, !.choice = choice]]
    /\ UNCHANGED <<page, access, store, version, ghost>>

LEMMA PostIsPosts ==
    ASSUME view \in View, NEW c \in Call, NEW what, NEW i, NEW v, NEW seen, Post(c, what, i, v, seen)
    PROVE  Posts(c, what, i, v) /\ view' = seen
  BY DEF Post, Posts, View

(* A page raises the flag that FlagsHold wants, and the organization page is idle. *)
MayStart(what) ==
    /\ view'.dialog = view.dialog
    /\ page = "users" =>
          /\ "saving" \in view.busy => "saving" \in view'.busy /\ what # "create"
          /\ what = "create" => "saving" \in view'.busy
    /\ page = "asset" =>
          /\ "transitioning" \in view.busy => "transitioning" \in view'.busy /\ what # "transition"
          /\ what = "transition" => "transitioning" \in view'.busy
    /\ page = "organization" =>
          ~view.loading /\ view.busy = {} /\ view'.busy # {} /\ ~view'.error

LEMMA PostInv ==
    ASSUME ConsoleInv, NEW c \in Call, NEW what \in {"create", "edit", "delete", "transition"},
           NEW i \in Item, NEW v \in Value \cup {Nil}, what # "delete" => v \in Value,
           Posts(c, what, i, v), view' \in View
    PROVE  MayStart(what) => ConsoleInv'
  <1> SUFFICES ASSUME MayStart(what)
               PROVE  ConsoleInv'
    OBVIOUS
  <1>1. PICK choice \in Type \cup {Nil} :
          calls' = [calls EXCEPT ![c] = [Idle EXCEPT !.step = "write", !.what = what, !.item = i,
                                                     !.value = v, !.choice = choice]]
    BY DEF Posts
  <1> DEFINE x == [Idle EXCEPT !.step = "write", !.what = what, !.item = i, !.value = v, !.choice = choice]
  <1>2. /\ x \in HandlerCall
        /\ x.step = "write" /\ x.what = what /\ x.item = i /\ x.value = v
        /\ x.no = 0 /\ x.version = 0
    BY IdleTypes DEF HandlerCall
  <1>3. calls' = [calls EXCEPT ![c] = x]
    BY <1>1
  <1> HIDE DEF x
  <1>4. /\ calls[c] = Idle /\ spent.writes < MaxWrites
        /\ spent' = [spent EXCEPT !.writes = @ + 1]
        /\ UNCHANGED <<page, store, version, ghost>>
    BY DEF Posts
  <1>5. TablesOK /\ CallsOK
    BY DEF ConsoleInv
  <1>6. CallOK(x)'
    BY <1>2, <1>4, <1>5 DEF CallOK, TablesOK, Ghost
  <1>7. /\ calls' \in [Call -> HandlerCall]
        /\ calls'[c] = x
        /\ \A d \in Call \ {c} : calls'[d] = calls[d]
        /\ CallsOK'
    <2>1. version' \in Nat /\ version <= version' /\ ghost' \in Ghost /\ ghost.last <= ghost'.last
      BY <1>4, <1>5 DEF TablesOK, Ghost
    <2>2. QED
      BY <1>2, <1>3, <1>4, <1>5, <1>6, <2>1, MoveCall
  <1>8. /\ spent' \in Spent /\ spent'.writes = spent.writes + 1 /\ spent'.others = spent.others
        /\ spent.writes \in Nat /\ spent.others \in Nat
    BY <1>4, <1>5, ConstantTypes DEF TablesOK, Spent
  <1>9. TablesOK'
    BY <1>4, <1>5, <1>7, <1>8 DEF TablesOK, MayStart
  <1>10. Counted'
    <2>1. /\ Cardinality(Pending) \in Nat /\ Cardinality(Pending') \in Nat
          /\ Cardinality(Pending') <= Cardinality(Pending) + 1
      BY <1>2, <1>3, <1>5, PendingMoves
    <2>2. version \in Nat /\ version' = version
      BY <1>4, <1>5 DEF TablesOK
    <2>3. QED
      BY <1>8, <2>1, <2>2 DEF ConsoleInv, Counted
  <1>11. FlagsHold'
    BY <1>2, <1>4, <1>7, IdleTypes DEF ConsoleInv, FlagsHold, OnlyOne, MayStart
  <1>12. OneAtATime'
    <2> SUFFICES ASSUME page = "organization"
                 PROVE  OneAtATime'
      BY <1>4 DEF OneAtATime
    <2>1. \A d \in Call : ~IsLoad(calls[d]) /\ ~IsWrite(calls[d])
      BY DEF ConsoleInv, OneAtATime, MayStart
    <2>2. \A d \in Call : calls[d] = Idle
      <3>1. ASSUME NEW d \in Call
            PROVE  calls[d].step = "idle"
        <4>1. calls[d].step \in {"idle", "write", "answer", "read", "rows", "failed", "rest", "all"}
          BY <1>5 DEF TablesOK, HandlerCall
        <4>2. calls[d].step \notin {"rest", "all"}
          BY <1>5 DEF CallsOK, CallOK
        <4>3. QED
          BY <2>1, <4>1, <4>2 DEF IsLoad, IsWrite
      <3>2. QED
        BY <1>5, <3>1, IdleStep
    <2>3. ghost.failed \/ \A j \in Item : ghost.shown[j] = ghost.last
      BY <2>1 DEF ConsoleInv, OneAtATime
    <2>4. QED
      BY <1>2, <1>4, <1>7, <2>2, <2>3, IdleTypes DEF OneAtATime, IsLoad, IsWrite, MayStart
  <1>13. InThePast'
    BY <1>4 DEF ConsoleInv, InThePast
  <1>14. LastLoadIsNew' /\ AnswersAreNew'
    BY <1>2, <1>4, <1>7 DEF ConsoleInv, LastLoadIsNew, AnswersAreNew, AllAcked
  <1>15. QED
    BY <1>7, <1>9, <1>10, <1>11, <1>12, <1>13, <1>14 DEF ConsoleInv

LEMMA RaisedEffect ==
    ASSUME view \in View, NEW flag \in Flag
    PROVE  /\ Raised(flag) \in View
           /\ Raised(flag).busy = view.busy \cup {flag}
           /\ Raised(flag).dialog = view.dialog
           /\ ~Raised(flag).error
           /\ Raised(flag).page = view.page
           /\ Raised(flag).filter = view.filter
           /\ Raised(flag).choice = view.choice
  BY DEF Raised, Cleared, View

LEMMA ClearedEffect ==
    ASSUME view \in View
    PROVE  /\ Cleared \in View
           /\ Cleared.busy = view.busy
           /\ Cleared.dialog = view.dialog
           /\ Cleared.page = view.page
           /\ Cleared.filter = view.filter
           /\ Cleared.choice = view.choice
  BY DEF Cleared, View

LEMMA HandlerInv ==
    ASSUME ConsoleInv, NEW c \in Call, Handler(c)
    PROVE  /\ ConsoleInv'
           /\ view'.page = view.page /\ view'.filter = view.filter /\ view'.choice = view.choice
  <1>1. view \in View /\ page \in Page /\ (view.dialog.kind = "delete" => view.dialog.item \in Item)
    BY DEF ConsoleInv, TablesOK
  <1>2. {"saving", "deleting", "transitioning"} \cup Item \subseteq Flag
    BY DEF Flag
  <1>3. /\ Ids \subseteq Item /\ Present \subseteq Item
        /\ New \in Value /\ New \in Value \cup {Nil}
    BY <1>1, ConstantTypes, ConsoleAssumption, RowsOfView DEF Ids
  <1>4. CASE SubmitForm(c)
    <2>1. PICK i \in Item :
            /\ ShownOrganization
            /\ view.dialog.kind \in {"create", "edit"} /\ view.busy = {} /\ view.dialog.value # Nil
            /\ Post(c, view.dialog.kind, i, view.dialog.value, Raised("saving"))
      BY <1>3, <1>4 DEF SubmitForm
    <2>2. PICK what \in {"create", "edit"} : what = view.dialog.kind
      BY <2>1
    <2>3. PICK v \in Value : v = view.dialog.value
      BY <1>1, <2>1 DEF View, Dialog
    <2>4. Posts(c, what, i, v) /\ view' = Raised("saving")
      BY <1>1, <2>1, <2>2, <2>3, PostIsPosts
    <2>5. MayStart(what)
      BY <1>1, <1>2, <2>1, <2>4, RaisedEffect DEF MayStart, ShownOrganization, Here
    <2>6. QED
      BY <1>1, <1>2, <2>4, <2>5, PostInv, RaisedEffect
  <1>5. CASE Remove(c)
    <2>1. /\ ShownOrganization
          /\ view.dialog.kind = "delete" /\ view.busy = {}
          /\ Post(c, "delete", view.dialog.item, Nil, Raised("deleting"))
      BY <1>5 DEF Remove
    <2>2. PICK i \in Item : i = view.dialog.item
      BY <1>1, <2>1
    <2>3. Posts(c, "delete", i, Nil) /\ view' = Raised("deleting")
      BY <1>1, <2>1, <2>2, PostIsPosts
    <2>4. MayStart("delete")
      BY <1>1, <1>2, <2>1, <2>3, RaisedEffect DEF MayStart, ShownOrganization, Here
    <2>5. QED
      BY <1>1, <1>2, <2>3, <2>4, PostInv, RaisedEffect
  <1>6. CASE CreateUser(c)
    <2>1. PICK i \in Item : page = "users" /\ "saving" \notin view.busy /\ Post(c, "create", i, New, Raised("saving"))
      BY <1>3, <1>6 DEF CreateUser, Here, Disabled
    <2>2. Posts(c, "create", i, New) /\ view' = Raised("saving")
      BY <1>1, <2>1, PostIsPosts
    <2>3. MayStart("create")
      BY <1>1, <1>2, <2>1, <2>2, RaisedEffect DEF MayStart
    <2>4. QED
      BY <1>1, <1>2, <1>3, <2>2, <2>3, PostInv, RaisedEffect
  <1>7. CASE ToggleUser(c) \/ TransitionAsset(c)
    <2>1. PICK i \in Item, v \in Value : page \in {"users", "assets"} /\ Post(c, "edit", i, v, Cleared)
      BY <1>3, <1>7 DEF ToggleUser, ShownUsers, TransitionAsset, ShownAssets, Here
    <2>2. Posts(c, "edit", i, v) /\ view' = Cleared
      BY <1>1, <2>1, PostIsPosts
    <2>3. MayStart("edit")
      BY <1>1, <2>1, <2>2, ClearedEffect DEF MayStart
    <2>4. QED
      BY <1>1, <2>2, <2>3, PostInv, ClearedEffect
  <1>8. CASE CreateType(c) \/ CreateAsset(c) \/ CreateRole(c) \/ CreateCompany(c)
    <2>1. PICK i \in Item : page \in {"assets", "roles", "companies"} /\ Post(c, "create", i, New, Cleared)
      BY <1>3, <1>8, ConstantTypes DEF CreateType, CreateAsset, CreateRole, CreateCompany, Here
    <2>2. Posts(c, "create", i, New) /\ view' = Cleared
      BY <1>1, <2>1, PostIsPosts
    <2>3. MayStart("create")
      BY <1>1, <2>1, <2>2, ClearedEffect DEF MayStart
    <2>4. QED
      BY <1>1, <1>3, <2>2, <2>3, PostInv, ClearedEffect
  <1>9. CASE Transition(c)
    <2>1. PICK v \in Value :
            /\ page = "asset" /\ "transitioning" \notin view.busy
            /\ Post(c, "transition", Lifecycle, v, [view EXCEPT !.busy = @ \cup {"transitioning"}])
      BY <1>9 DEF Transition, ShownAsset, Here, Disabled
    <2>2. Posts(c, "transition", Lifecycle, v) /\ view' = [view EXCEPT !.busy = @ \cup {"transitioning"}]
      BY <1>1, <2>1, PostIsPosts
    <2>3. /\ view' \in View /\ view'.busy = view.busy \cup {"transitioning"}
          /\ view'.dialog = view.dialog /\ view'.page = view.page
          /\ view'.filter = view.filter /\ view'.choice = view.choice
      BY <1>1, <1>2, <2>2 DEF View
    <2>4. MayStart("transition")
      BY <2>1, <2>3 DEF MayStart
    <2>5. QED
      BY <2>2, <2>3, <2>4, PostInv, ConstantTypes
  <1>10. CASE SaveWarranty(c)
    <2>1. PICK i \in Item, v \in Value : page = "asset" /\ Post(c, "edit", i, v, view)
      BY <1>3, <1>10 DEF SaveWarranty, ShownAsset, Here
    <2>2. Posts(c, "edit", i, v) /\ view' = view
      BY <1>1, <2>1, PostIsPosts
    <2>3. MayStart("edit")
      BY <2>1, <2>2 DEF MayStart
    <2>4. QED
      BY <1>1, <2>2, <2>3, PostInv
  <1>11. CASE SaveRoles(c)
    <2>1. PICK i \in Item, v \in Value :
            page = "platform" /\ Post(c, "edit", i, v, [Cleared EXCEPT !.busy = {i}])
      BY <1>3, <1>11 DEF SaveRoles, ShownPlatform, Here
    <2>2. Posts(c, "edit", i, v) /\ view' = [Cleared EXCEPT !.busy = {i}]
      BY <1>1, <2>1, PostIsPosts
    <2>3. /\ view' \in View /\ view'.dialog = view.dialog /\ view'.page = view.page
          /\ view'.filter = view.filter /\ view'.choice = view.choice
      BY <1>1, <1>2, <2>2 DEF Cleared, View
    <2>4. MayStart("edit")
      BY <2>1, <2>3 DEF MayStart
    <2>5. QED
      BY <2>2, <2>3, <2>4, PostInv
  <1>12. QED
    BY <1>4, <1>5, <1>6, <1>7, <1>8, <1>9, <1>10, <1>11 DEF Handler

(* Another load: nothing acknowledged is later than it, and no load has its number. *)
LEMMA StartInv ==
    ASSUME ConsoleInv, NEW c \in Call, NEW load \in HandlerCall, NEW acked \in [Item -> Nat],
           load.step = "read", load.no = ghost.last + 1, load.version <= version,
           load.what \in {calls[c].what, "load"},
           calls' = [calls EXCEPT ![c] = load],
           ghost' = [ghost EXCEPT !.last = @ + 1, !.failed = FALSE, !.acked = acked],
           \A i \in Item : acked[i] <= version,
           page = "platform" => acked = ghost.acked,
           view' \in View, view'.loading, view'.busy = view.busy,
           view'.dialog.kind = "delete" => view'.dialog.item \in Item,
           page = "organization" => \A d \in Call \ {c} : calls[d] = Idle,
           UNCHANGED <<page, access, store, version, spent>>
    PROVE  ConsoleInv'
  <1>1. TablesOK /\ CallsOK
    BY DEF ConsoleInv
  <1>2. /\ ghost' \in Ghost /\ ghost'.last = ghost.last + 1 /\ ghost'.acked = acked
        /\ ghost'.shown = ghost.shown /\ ghost'.seen = ghost.seen /\ ghost'.freed = ghost.freed
        /\ ghost.last \in Nat /\ ghost.shown \in [Item -> Nat] /\ ~ghost'.failed
    <2>1. ghost \in Ghost /\ ghost.last \in Nat
      BY <1>1 DEF TablesOK, Ghost
    <2>2. PICK n \in Nat : n = ghost.last + 1
      BY <2>1
    <2>3. ghost' = [ghost EXCEPT !.last = n, !.failed = FALSE, !.acked = acked]
      BY <2>1, <2>2 DEF Ghost
    <2>4. QED
      BY <2>1, <2>2, <2>3 DEF Ghost
  <1>3. version' \in Nat /\ version <= version' /\ ghost.last <= ghost'.last
    BY <1>1, <1>2 DEF TablesOK
  <1>4. CallOK(load)'
    BY <1>1, <1>2 DEF CallOK, TablesOK
  <1>5. /\ calls' \in [Call -> HandlerCall]
        /\ calls'[c] = load
        /\ \A d \in Call \ {c} : calls'[d] = calls[d]
        /\ CallsOK'
    BY <1>1, <1>2, <1>3, <1>4, MoveCall
  <1>6. TablesOK'
    BY <1>1, <1>2, <1>5 DEF TablesOK
  <1>7. Counted'
    <2>1. /\ Cardinality(Pending) \in Nat /\ Cardinality(Pending') \in Nat
          /\ Cardinality(Pending') <= Cardinality(Pending)
      BY <1>1, PendingMoves
    <2>2. version \in Nat /\ spent.writes \in Nat /\ spent.others \in Nat
      BY <1>1, ConstantTypes DEF TablesOK, Spent
    <2>3. QED
      BY <2>1, <2>2 DEF ConsoleInv, Counted
  <1>8. FlagsHold'
    BY <1>5, FlagsKept DEF ConsoleInv
  <1>9. OneAtATime'
    BY <1>2, <1>5, IdleTypes DEF OneAtATime, IsLoad, IsWrite
  <1>10. InThePast'
    <2>1. \A i \in Item : ghost.shown[i] <= ghost.last
      BY DEF ConsoleInv, InThePast
    <2>2. QED
      BY <1>2, <2>1 DEF InThePast
  <1>11. LastLoadIsNew'
    <2>1. \A i \in Item : ghost.shown[i] <= ghost.last
      BY DEF ConsoleInv, InThePast
    <2>2. \A i \in Item : ghost'.shown[i] # ghost'.last
      BY <1>2, <2>1
    <2>3. \A d \in Call \ {c} : calls'[d].no # ghost'.last
      <3>1. \A d \in Call : calls[d].no <= ghost.last /\ calls[d].no \in Nat
        BY <1>1 DEF CallsOK, CallOK, TablesOK, HandlerCall
      <3>2. QED
        BY <1>2, <1>5, <3>1
    <2>4. QED
      BY <1>5, <2>2, <2>3 DEF LastLoadIsNew
  <1>12. AnswersAreNew'
    BY <1>2, <1>5 DEF ConsoleInv, AnswersAreNew, AllAcked
  <1>13. QED
    BY <1>5, <1>6, <1>7, <1>8, <1>9, <1>10, <1>11, <1>12 DEF ConsoleInv

(* On the organization page nobody has to try again what is still under way. *)
LEMMA RetryInv ==
    ASSUME ConsoleInv, NEW c \in Call, Retry(c)
    PROVE  /\ ConsoleInv'
           /\ view'.page = view.page /\ view'.filter = view.filter /\ view'.choice = view.choice
  <1>1. /\ view \in View /\ page \in Page /\ ghost \in Ghost /\ version \in Nat
        /\ (view.dialog.kind = "delete" => view.dialog.item \in Item)
        /\ CallsOK /\ calls \in [Call -> HandlerCall]
    BY DEF ConsoleInv, TablesOK
  <1>2. /\ calls[c] = Idle /\ ~view.loading
        /\ page = "organization" => view.error
        /\ view' = Reloading(view)
        /\ UNCHANGED <<page, access, store, version, spent>>
    BY DEF Retry, Here, ShownAsset
  <1>3. /\ calls' = [calls EXCEPT ![c] = [Idle EXCEPT !.step = "read", !.no = ghost.last + 1]]
        /\ ghost' = [ghost EXCEPT !.last = @ + 1, !.failed = FALSE]
    BY DEF Retry, Start
  <1>4. PICK load \in HandlerCall :
          /\ load = [Idle EXCEPT !.step = "read", !.no = ghost.last + 1]
          /\ load.step = "read" /\ load.no = ghost.last + 1 /\ load.version = 0 /\ load.what = "load"
    <2>1. PICK n \in Nat : n = ghost.last + 1
      BY <1>1 DEF Ghost
    <2>2. PICK load : load = [Idle EXCEPT !.step = "read", !.no = n]
      OBVIOUS
    <2>3. /\ load \in HandlerCall /\ load.step = "read" /\ load.no = n
          /\ load.version = 0 /\ load.what = "load"
      BY <2>2, IdleTypes DEF HandlerCall
    <2>4. QED
      BY <2>1, <2>2, <2>3
  <1>5. PICK acked \in [Item -> Nat] : acked = ghost.acked
    BY <1>1 DEF Ghost
  <1>6. ghost' = [ghost EXCEPT !.last = @ + 1, !.failed = FALSE, !.acked = acked]
    BY <1>1, <1>3, <1>5 DEF Ghost
  <1>7. /\ view' \in View /\ view'.loading /\ view'.busy = view.busy /\ view'.dialog = view.dialog
        /\ view'.page = view.page /\ view'.filter = view.filter /\ view'.choice = view.choice
    BY <1>1, <1>2, ReloadingEffect
  <1>8. page = "organization" => \A d \in Call : calls[d] = Idle
    <2>1. ASSUME page = "organization", NEW d \in Call
          PROVE  calls[d].step = "idle"
      <3>1. ~IsLoad(calls[d]) /\ ~IsWrite(calls[d])
        BY <1>2, <2>1 DEF ConsoleInv, OneAtATime
      <3>2. calls[d].step \in {"idle", "write", "answer", "read", "rows", "failed", "rest", "all"}
        BY <1>1 DEF HandlerCall
      <3>3. calls[d].step \notin {"rest", "all"}
        BY <1>1, <2>1 DEF CallsOK, CallOK
      <3>4. QED
        BY <3>1, <3>2, <3>3 DEF IsLoad, IsWrite
    <2>2. QED
      BY <1>1, <2>1, IdleStep
  <1>9. \A i \in Item : acked[i] <= version
    BY <1>5 DEF ConsoleInv, InThePast
  <1>10. load.version <= version
    BY <1>1, <1>4
  <1>11. calls' = [calls EXCEPT ![c] = load]
    BY <1>3, <1>4
  <1>12. ConsoleInv'
    BY <1>1, <1>2, <1>4, <1>5, <1>6, <1>7, <1>8, <1>9, <1>10, <1>11, StartInv
  <1>13. QED
    BY <1>7, <1>12

-----------------------------------------------------------------------------
(* The API answers, or the network does not: the page knows nothing of it yet. *)
Same(x, y) ==
    /\ x.what = y.what /\ x.no = y.no /\ y.step # "idle" /\ x.step # "idle"
    /\ IsLoad(x) <=> IsLoad(y)
    /\ IsWrite(x) <=> IsWrite(y)

LEMMA AnswerInv ==
    ASSUME ConsoleInv, NEW c \in Call, NEW call \in HandlerCall,
           calls' = [calls EXCEPT ![c] = call], CallOK(call)', Same(call, calls[c]),
           store' \in Rows, version' \in Nat, version <= version', spent' \in Spent, Counted',
           page # "platform" /\ call.no = ghost.last /\ call.step \in {"rows", "rest", "all"}
               => AllAcked(call.version),
           page = "platform" /\ ~ghost.freed /\ (call.step = "rows" \/ (call.step = "answer" /\ call.ok))
               => AllAcked(call.version),
           UNCHANGED <<page, view, ghost>>
    PROVE  ConsoleInv'
  <1>1. TablesOK /\ CallsOK
    BY DEF ConsoleInv
  <1>2. ghost' \in Ghost /\ ghost.last <= ghost'.last
    BY <1>1 DEF TablesOK, Ghost
  <1>3. /\ calls' \in [Call -> HandlerCall]
        /\ calls'[c] = call
        /\ \A d \in Call \ {c} : calls'[d] = calls[d]
        /\ CallsOK'
    BY <1>1, <1>2, MoveCall
  <1>4. TablesOK'
    BY <1>1, <1>3 DEF TablesOK
  <1>5. FlagsHold'
    BY <1>3, FlagsKept DEF ConsoleInv, Same
  <1>6. OneAtATime'
    <2>1. calls[c] # Idle
      BY <1>1, IdleTypes DEF Same
    <2>2. call # Idle
      BY IdleTypes DEF Same
    <2>3. \A d \in Call : /\ IsLoad(calls'[d]) <=> IsLoad(calls[d])
                          /\ IsWrite(calls'[d]) <=> IsWrite(calls[d])
                          /\ calls'[d] = Idle <=> calls[d] = Idle
                          /\ calls'[d].no = calls[d].no
      BY <1>3, <2>1, <2>2 DEF Same
    <2>4. \A d \in Call : IsLoad(calls[d])' = IsLoad(calls'[d]) /\ IsWrite(calls[d])' = IsWrite(calls'[d])
      BY DEF IsLoad, IsWrite
    <2>5. QED
      BY <2>3, <2>4 DEF ConsoleInv, OneAtATime
  <1>7. InThePast'
    BY <1>1 DEF ConsoleInv, InThePast, TablesOK, Ghost
  <1>8. LastLoadIsNew'
    BY <1>3 DEF ConsoleInv, LastLoadIsNew, AllAcked
  <1>9. AnswersAreNew'
    BY <1>3 DEF ConsoleInv, AnswersAreNew, AllAcked
  <1>10. QED
    BY <1>3, <1>4, <1>5, <1>6, <1>7, <1>8, <1>9 DEF ConsoleInv

(* An answer to something that changes nothing, or has been refused. *)
LEMMA CountedKept ==
    ASSUME ConsoleInv, NEW c \in Call, NEW call \in HandlerCall, call.step # "write",
           calls' = [calls EXCEPT ![c] = call], version' = version, spent' \in Spent,
           spent'.writes = spent.writes, spent'.others = spent.others
    PROVE  Counted'
  <1>1. /\ Cardinality(Pending) \in Nat /\ Cardinality(Pending') \in Nat
        /\ Cardinality(Pending') <= Cardinality(Pending)
    BY PendingMoves DEF ConsoleInv
  <1>2. version \in Nat /\ spent.writes \in Nat /\ spent.others \in Nat
    BY ConstantTypes DEF ConsoleInv, TablesOK, Spent
  <1>3. QED
    BY <1>1, <1>2 DEF ConsoleInv, Counted

LEMMA ServeInv ==
    ASSUME ConsoleInv, NEW c \in Call, Serve(c)
    PROVE  ConsoleInv'
  <1>1. /\ calls \in [Call -> HandlerCall] /\ store \in Rows /\ version \in Nat
        /\ spent \in Spent /\ ghost \in Ghost
    BY DEF ConsoleInv, TablesOK
  <1>2. PICK old \in HandlerCall : old = calls[c] /\ CallOK(old)
    BY <1>1 DEF ConsoleInv, CallsOK
  <1>3. old.step = "write" /\ UNCHANGED <<page, view, ghost, spent>>
    BY <1>2 DEF Serve, Answer
  <1>4. CASE /\ store' = [store EXCEPT ![old.item] = Written(old)]
             /\ version' = version + 1
             /\ calls' = [calls EXCEPT ![c] = [old EXCEPT !.step = "answer", !.ok = TRUE,
                                                           !.version = version + 1]]
    <2>1. PICK v \in Nat : v = version + 1 /\ version <= v
      BY <1>1
    <2>2. PICK call : call = [old EXCEPT !.step = "answer", !.ok = TRUE, !.version = v]
      OBVIOUS
    <2>3. /\ call \in HandlerCall /\ call.step = "answer" /\ call.version = v
          /\ call.what = old.what /\ call.no = old.no /\ call.item = old.item
      BY <2>2 DEF HandlerCall
    <2>4. version' = v /\ calls' = [calls EXCEPT ![c] = call]
      BY <1>4, <2>1, <2>2
    <2>5. CallOK(call)'
      BY <1>2, <1>3, <2>3, <2>4 DEF CallOK, HandlerCall
    <2>6. Same(call, calls[c])
      BY <1>2, <1>3, <2>3 DEF Same, IsLoad, IsWrite
    <2>7. store' \in Rows
      <3>1. old.item \in Item /\ Written(old) \in Value \cup {Nil}
        BY <1>2, <1>3 DEF CallOK, Written, Absent
      <3>2. QED
        BY <1>1, <1>4, <3>1 DEF Rows, Absent
    <2>8. Counted'
      <3>1. /\ Cardinality(Pending) \in Nat
            /\ Cardinality(Pending') = Cardinality(Pending) - 1
        BY <1>2, <1>3, <2>3, <2>4, PendingMoves DEF ConsoleInv
      <3>2. spent.writes \in Nat /\ spent.others \in Nat
        BY <1>1, ConstantTypes DEF Spent
      <3>3. QED
        BY <1>1, <1>3, <1>4, <3>1, <3>2 DEF ConsoleInv, Counted
    <2>9. AllAcked(call.version)
      BY <1>1, <2>1, <2>3 DEF ConsoleInv, InThePast, AllAcked, Ghost
    <2>10. spent' \in Spent
      BY <1>1, <1>3
    <2>11. QED
      BY <1>3, <2>1, <2>3, <2>4, <2>5, <2>6, <2>7, <2>8, <2>9, <2>10, AnswerInv
  <1>5. CASE /\ calls' = [calls EXCEPT ![c] = [old EXCEPT !.step = "answer", !.ok = FALSE]]
             /\ UNCHANGED <<store, version>>
    <2>1. PICK call : call = [old EXCEPT !.step = "answer", !.ok = FALSE]
      OBVIOUS
    <2>2. /\ call \in HandlerCall /\ call.step = "answer" /\ call.version = old.version
          /\ call.what = old.what /\ call.no = old.no /\ call.item = old.item /\ ~call.ok
      BY <2>1 DEF HandlerCall
    <2>3. calls' = [calls EXCEPT ![c] = call]
      BY <1>5, <2>1
    <2>4. CallOK(call)'
      BY <1>2, <1>3, <1>5, <2>2 DEF CallOK
    <2>5. Same(call, calls[c])
      BY <1>2, <1>3, <2>2 DEF Same, IsLoad, IsWrite
    <2>6. spent' \in Spent /\ version <= version' /\ version' \in Nat /\ store' \in Rows
      BY <1>1, <1>3, <1>5
    <2>7. Counted'
      BY <1>3, <1>5, <2>2, <2>3, <2>6, CountedKept
    <2>8. QED
      BY <1>3, <2>2, <2>3, <2>4, <2>5, <2>6, <2>7, AnswerInv
  <1>6. QED
    BY <1>2, <1>4, <1>5 DEF Serve, Answer, Refused

(* A list is as new as what it is read from. *)
LEMMA ServeReadInv ==
    ASSUME ConsoleInv, NEW c \in Call, ServeRead(c) \/ ServeRest(c)
    PROVE  ConsoleInv'
  <1>1. /\ calls \in [Call -> HandlerCall] /\ store \in Rows /\ version \in Nat
        /\ spent \in Spent /\ ghost \in Ghost
    BY DEF ConsoleInv, TablesOK
  <1>2. PICK old \in HandlerCall : old = calls[c] /\ CallOK(old)
    BY <1>1 DEF ConsoleInv, CallsOK
  <1>3. UNCHANGED <<page, view, ghost, spent, store, version>>
    BY DEF ServeRead, ServeRest, Answer
  <1>4. PICK call \in HandlerCall :
          /\ calls' = [calls EXCEPT ![c] = call]
          /\ call.what = old.what /\ call.no = old.no /\ call.item = old.item
          /\ \/ old.step = "read" /\ call.step = "rows" /\ call.version = version
             \/ old.step = "read" /\ call.step = "failed" /\ call.version = old.version
             \/ old.step = "rest" /\ call.step = "all" /\ call.version = version
    <2>1. CASE old.step = "read" /\ calls' = [calls EXCEPT ![c] =
                  [old EXCEPT !.step = "rows", !.rows = store, !.version = version]]
      <3>1. PICK x : x = [old EXCEPT !.step = "rows", !.rows = store, !.version = version]
        OBVIOUS
      <3>2. x \in HandlerCall /\ x.what = old.what /\ x.no = old.no /\ x.item = old.item
                /\ x.step = "rows" /\ x.version = version
        BY <1>1, <3>1 DEF HandlerCall
      <3>3. QED
        BY <2>1, <3>1, <3>2
    <2>2. CASE old.step = "read" /\ calls' = [calls EXCEPT ![c] = [old EXCEPT !.step = "failed"]]
      <3>1. PICK x : x = [old EXCEPT !.step = "failed"]
        OBVIOUS
      <3>2. x \in HandlerCall /\ x.what = old.what /\ x.no = old.no /\ x.item = old.item
                /\ x.step = "failed" /\ x.version = old.version
        BY <1>1, <3>1 DEF HandlerCall
      <3>3. QED
        BY <2>2, <3>1, <3>2
    <2>3. CASE ServeRest(c)
      <3>1. PICK got \in SUBSET Item : got = IF Admitted("read") THEN Ids \ {Lifecycle} ELSE {}
        <4>1. page \in Page
          BY DEF ConsoleInv, TablesOK
        <4>2. Ids \subseteq Item
          BY <4>1, ConstantTypes DEF Ids
        <4>3. QED
          BY <4>2
      <3>2. old.step = "rest" /\ calls' = [calls EXCEPT ![c] =
                  [old EXCEPT !.step = "all", !.rows = store, !.version = version, !.got = got]]
        BY <1>2, <2>3, <3>1 DEF ServeRest, Answer
      <3>3. PICK x : x = [old EXCEPT !.step = "all", !.rows = store, !.version = version, !.got = got]
        OBVIOUS
      <3>4. x \in HandlerCall /\ x.what = old.what /\ x.no = old.no /\ x.item = old.item
                /\ x.step = "all" /\ x.version = version
        BY <1>1, <3>3 DEF HandlerCall
      <3>5. QED
        BY <3>2, <3>3, <3>4
    <2>4. QED
      BY <1>2, <2>1, <2>2, <2>3 DEF ServeRead, Answer
  <1>5. CallOK(call)'
    BY <1>1, <1>2, <1>3, <1>4 DEF CallOK
  <1>6. Same(call, calls[c])
    BY <1>2, <1>4 DEF Same, IsLoad, IsWrite
  <1>7. spent' \in Spent /\ version <= version' /\ version' \in Nat /\ store' \in Rows
    BY <1>1, <1>3
  <1>8. Counted'
    BY <1>3, <1>4, <1>7, CountedKept
  <1>9. AllAcked(version)
    BY DEF ConsoleInv, InThePast, AllAcked
  <1>10. QED
    BY <1>3, <1>4, <1>5, <1>6, <1>7, <1>8, <1>9, AnswerInv

LEMMA LoseInv ==
    ASSUME ConsoleInv, NEW c \in Call, Lose(c)
    PROVE  ConsoleInv'
  <1>1. /\ calls \in [Call -> HandlerCall] /\ store \in Rows /\ version \in Nat
        /\ spent \in Spent /\ ghost \in Ghost
    BY DEF ConsoleInv, TablesOK
  <1>2. PICK old \in HandlerCall : old = calls[c] /\ CallOK(old)
    BY <1>1 DEF ConsoleInv, CallsOK
  <1>3. /\ old.step \in {"write", "answer", "read", "rows", "all"}
        /\ spent.faults < MaxFaults /\ spent' = [spent EXCEPT !.faults = @ + 1]
        /\ UNCHANGED <<page, view, ghost, store, version>>
    BY <1>2 DEF Lose, Answer
  <1>4. PICK call \in HandlerCall :
          /\ calls' = [calls EXCEPT ![c] = call]
          /\ call.what = old.what /\ call.no = old.no /\ call.item = old.item /\ call.version = old.version
          /\ \/ old.step \in {"write", "answer"} /\ call.step = "answer" /\ ~call.ok
             \/ old.step \in {"read", "rows"} /\ call.step = "failed"
             \/ old.step = "all" /\ call.step = "all"
    <2>1. CASE old.step \in {"write", "answer"} /\ calls' = [calls EXCEPT ![c] =
                  [old EXCEPT !.step = "answer", !.ok = FALSE]]
      <3>1. PICK x : x = [old EXCEPT !.step = "answer", !.ok = FALSE]
        OBVIOUS
      <3>2. x \in HandlerCall /\ x.what = old.what /\ x.no = old.no /\ x.item = old.item /\ x.version = old.version
                /\ x.step = "answer" /\ ~x.ok
        BY <1>1, <3>1 DEF HandlerCall
      <3>3. QED
        BY <2>1, <3>1, <3>2
    <2>2. CASE old.step \in {"read", "rows"} /\ calls' = [calls EXCEPT ![c] = [old EXCEPT !.step = "failed"]]
      <3>1. PICK x : x = [old EXCEPT !.step = "failed"]
        OBVIOUS
      <3>2. x \in HandlerCall /\ x.what = old.what /\ x.no = old.no /\ x.item = old.item /\ x.version = old.version
                /\ x.step = "failed"
        BY <1>1, <3>1 DEF HandlerCall
      <3>3. QED
        BY <2>2, <3>1, <3>2
    <2>3. CASE old.step = "all" /\ \E some \in SUBSET old.got :
                  calls' = [calls EXCEPT ![c] = [old EXCEPT !.got = some]]
      <3>0. PICK some \in SUBSET Item : calls' = [calls EXCEPT ![c] = [old EXCEPT !.got = some]]
        BY <2>3 DEF HandlerCall
      <3>1. PICK x : x = [old EXCEPT !.got = some]
        OBVIOUS
      <3>2. x \in HandlerCall /\ x.what = old.what /\ x.no = old.no /\ x.item = old.item /\ x.version = old.version
                /\ x.step = "all"
        BY <2>3, <3>1 DEF HandlerCall
      <3>3. QED
        BY <2>3, <3>0, <3>1, <3>2
    <2>4. QED
      BY <1>2, <1>3, <2>1, <2>2, <2>3 DEF Lose, Answer, Refused
  <1>5. CallOK(call)'
    BY <1>2, <1>3, <1>4 DEF CallOK
  <1>6. Same(call, calls[c])
    BY <1>2, <1>4 DEF Same, IsLoad, IsWrite
  <1>7. /\ spent' \in Spent /\ spent'.writes = spent.writes /\ spent'.others = spent.others
        /\ version <= version' /\ version' \in Nat /\ store' \in Rows
    BY <1>1, <1>3, ConstantTypes DEF Spent
  <1>8. Counted'
    BY <1>3, <1>4, <1>7, CountedKept
  <1>9. page # "platform" /\ call.no = ghost.last /\ call.step = "all" => AllAcked(call.version)
    BY <1>2, <1>4 DEF ConsoleInv, LastLoadIsNew
  <1>10. QED
    BY <1>3, <1>4, <1>5, <1>6, <1>7, <1>8, <1>9, AnswerInv

(* Others go on. *)
LEMMA OtherInv ==
    ASSUME ConsoleInv, Other \/ ExpireToken \/ UNCHANGED vars
    PROVE  ConsoleInv'
  <1>1. /\ version \in Nat /\ store \in Rows /\ spent \in Spent /\ ghost \in Ghost /\ page \in Page
        /\ calls \in [Call -> HandlerCall]
    BY DEF ConsoleInv, TablesOK
  <1>2. UNCHANGED <<page, view, calls, ghost>>
    BY DEF Other, ExpireToken, vars
  <1>3. /\ store' \in Rows /\ version' \in Nat /\ version <= version' /\ spent' \in Spent
        /\ version' - version = spent'.others - spent.others /\ spent'.writes = spent.writes
    <2>1. CASE Other
      <3>1. PICK i \in Item, v \in Value \cup {Nil} : store' = [store EXCEPT ![i] = v]
        BY <1>1, <2>1, ConstantTypes DEF Other, Ids, Absent
      <3>2. store' \in Rows
        BY <1>1, <3>1 DEF Rows, Absent
      <3>3. /\ spent' \in Spent /\ spent'.others = spent.others + 1 /\ spent'.writes = spent.writes
            /\ spent.others \in Nat
        BY <1>1, <2>1, ConstantTypes DEF Other, Spent
      <3>4. version' = version + 1
        BY <2>1 DEF Other
      <3>5. QED
        BY <1>1, <3>2, <3>3, <3>4
    <2>2. CASE ExpireToken \/ UNCHANGED vars
      <3>1. /\ spent' \in Spent /\ spent'.others = spent.others /\ spent'.writes = spent.writes
            /\ spent.others \in Nat
        BY <1>1, <2>2, ConstantTypes DEF ExpireToken, vars, Spent
      <3>2. store' = store /\ version' = version
        BY <2>2 DEF ExpireToken, vars
      <3>3. QED
        BY <1>1, <3>1, <3>2
    <2>3. QED
      BY <2>1, <2>2
  <1>4. TablesOK'
    BY <1>2, <1>3 DEF ConsoleInv, TablesOK
  <1>5. CallsOK'
    <2>1. ASSUME NEW c \in Call
          PROVE  CallOK(calls[c])'
      <3>1. CallOK(calls[c]) /\ calls[c].version \in Nat
        BY <1>1 DEF ConsoleInv, CallsOK, HandlerCall
      <3>2. QED
        BY <1>1, <1>2, <1>3, <3>1 DEF CallOK
    <2>2. QED
      BY <2>1 DEF CallsOK
  <1>6. Counted'
    <2>1. Pending' = Pending
      BY <1>2 DEF Pending
    <2>2. Cardinality(Pending) \in Nat
      <3>1. MaxCalls \in Int /\ 1 \in Int
        BY ConsoleAssumption
      <3>2. IsFiniteSet(Call)
        BY <3>1, FS_Interval DEF Call
      <3>3. QED
        BY <3>2, FS_Subset, FS_CardinalityType DEF Pending
    <2>3. /\ spent.writes \in Nat /\ spent.others \in Nat
          /\ spent'.writes \in Nat /\ spent'.others \in Nat
      BY <1>1, <1>3, ConstantTypes DEF Spent
    <2>4. QED
      BY <1>1, <1>3, <2>1, <2>2, <2>3 DEF ConsoleInv, Counted
  <1>7. FlagsHold'
    BY <1>2 DEF ConsoleInv, FlagsHold, OnlyOne
  <1>8. OneAtATime'
    BY <1>2 DEF ConsoleInv, OneAtATime, IsLoad, IsWrite
  <1>9. InThePast'
    BY <1>1, <1>2, <1>3 DEF ConsoleInv, InThePast, Ghost
  <1>10. LastLoadIsNew' /\ AnswersAreNew'
    BY <1>2 DEF ConsoleInv, LastLoadIsNew, AnswersAreNew, AllAcked
  <1>11. QED
    BY <1>4, <1>5, <1>6, <1>7, <1>8, <1>9, <1>10 DEF ConsoleInv

-----------------------------------------------------------------------------
(* A handler ends, whatever it has found out. *)
LEMMA DoneInv ==
    ASSUME ConsoleInv, NEW c \in Call, Done(c), calls[c].step # "idle",
           ghost' \in Ghost, ghost'.last = ghost.last,
           view' \in View, view'.dialog = view.dialog,
           page = "users" /\ calls[c].what # "create" => view'.busy = view.busy,
           page = "asset" /\ calls[c].what # "transition" => view'.busy = view.busy,
           page = "organization" =>
               ghost'.failed \/ \A i \in Item : ghost'.shown[i] = ghost'.last,
           UNCHANGED <<page, store, version, spent>>,
           InThePast', LastLoadIsNew', AnswersAreNew'
    PROVE  ConsoleInv'
  <1>1. TablesOK /\ CallsOK
    BY DEF ConsoleInv
  <1>2. /\ version' \in Nat /\ version <= version' /\ ghost.last <= ghost'.last
        /\ calls' = [calls EXCEPT ![c] = Idle] /\ Idle \in HandlerCall
    BY <1>1, IdleTypes DEF TablesOK, Ghost, Done
  <1>3. CallOK(Idle)'
    BY <1>2, IdleTypes DEF CallOK, Ghost
  <1>4. /\ calls' \in [Call -> HandlerCall]
        /\ calls'[c] = Idle
        /\ \A d \in Call \ {c} : calls'[d] = calls[d]
        /\ CallsOK'
    BY <1>1, <1>2, <1>3, MoveCall
  <1>5. TablesOK'
    BY <1>1, <1>4 DEF TablesOK
  <1>6. Counted'
    <2>1. /\ spent' \in Spent /\ spent'.writes = spent.writes /\ spent'.others = spent.others
          /\ version' = version
      BY <1>1 DEF TablesOK
    <2>2. QED
      BY <1>2, <2>1, CountedKept, IdleTypes
  <1>7. FlagsHold'
    BY <1>4, FlagsKept, IdleTypes DEF ConsoleInv
  <1>8. OneAtATime'
    <2> SUFFICES ASSUME page = "organization"
                 PROVE  OneAtATime'
      BY DEF OneAtATime
    <2>1. \A d \in Call \ {c} : calls[d] = Idle
      BY <1>1, IdleStep DEF ConsoleInv, OneAtATime
    <2>2. \A d \in Call : calls'[d] = Idle
      BY <1>4, <2>1
    <2>3. QED
      BY <2>2, IdleTypes DEF OneAtATime, IsLoad, IsWrite
  <1>9. QED
    BY <1>4, <1>5, <1>6, <1>7, <1>8 DEF ConsoleInv

(* Which of the calls are left, and that they are what they were. *)
LEMMA DoneCalls ==
    ASSUME ConsoleInv, NEW c \in Call, Done(c)
    PROVE  calls'[c] = Idle /\ \A d \in Call \ {c} : calls'[d] = calls[d]
  BY DEF ConsoleInv, TablesOK, Done

(* What is acknowledged is put on record, unless something later is. *)
LEMMA AckedOf ==
    ASSUME ghost \in Ghost, NEW call \in HandlerCall, call.item \in Item
    PROVE  \E acked \in [Item -> Nat] :
             /\ Acknowledged(ghost, call) = [ghost EXCEPT !.acked = acked]
             /\ acked[call.item] = Higher(ghost.acked[call.item], call.version)
             /\ \A i \in Item \ {call.item} : acked[i] = ghost.acked[i]
  <1>1. ghost.acked \in [Item -> Nat] /\ ghost.acked[call.item] \in Nat /\ call.version \in Nat
    BY DEF Ghost, HandlerCall
  <1>2. PICK h \in Nat : h = Higher(ghost.acked[call.item], call.version)
    BY <1>1, HigherOf
  <1>3. PICK acked : acked = [ghost.acked EXCEPT ![call.item] = h]
    OBVIOUS
  <1>4. /\ acked \in [Item -> Nat] /\ acked[call.item] = h
        /\ \A i \in Item \ {call.item} : acked[i] = ghost.acked[i]
    BY <1>1, <1>3
  <1>5. Acknowledged(ghost, call) = [ghost EXCEPT !.acked = acked]
    BY <1>2, <1>3 DEF Acknowledged, Ghost
  <1>6. QED
    BY <1>2, <1>4, <1>5

LEMMA ReceiveRefusalInv ==
    ASSUME ConsoleInv, NEW c \in Call, ReceiveRefusal(c)
    PROVE  /\ ConsoleInv'
           /\ view'.page = view.page /\ view'.filter = view.filter /\ view'.choice = view.choice
  <1>1. /\ view \in View /\ ghost \in Ghost /\ version \in Nat /\ calls \in [Call -> HandlerCall]
    BY DEF ConsoleInv, TablesOK
  <1>2. /\ calls[c].step = "answer"
        /\ view' = [view EXCEPT !.error = TRUE, !.busy = Lowered(calls[c])]
        /\ ghost' = [ghost EXCEPT !.freed = @ \/ ~Alone(c)]
        /\ Done(c)
        /\ UNCHANGED <<page, access, store, version, spent>>
    BY DEF ReceiveRefusal
  <1>3. PICK freed \in BOOLEAN : freed = (ghost.freed \/ ~Alone(c))
    OBVIOUS
  <1>4. ghost' = [ghost EXCEPT !.freed = freed]
    BY <1>1, <1>2, <1>3 DEF Ghost
  <1>5. /\ ghost' \in Ghost /\ ghost'.last = ghost.last /\ ghost'.failed = ghost.failed
        /\ ghost'.shown = ghost.shown /\ ghost'.seen = ghost.seen /\ ghost'.acked = ghost.acked
        /\ ghost.freed => ghost'.freed
    BY <1>1, <1>3, <1>4 DEF Ghost
  <1>6. /\ view' \in View /\ view'.dialog = view.dialog /\ view'.busy = Lowered(calls[c])
        /\ view'.page = view.page /\ view'.filter = view.filter /\ view'.choice = view.choice
    <2>1. Lowered(calls[c]) \in SUBSET Flag
      BY <1>1, LoweredEffect
    <2>2. QED
      BY <1>1, <1>2, <2>1 DEF View
  <1>7. calls'[c] = Idle /\ \A d \in Call \ {c} : calls'[d] = calls[d]
    BY <1>2, DoneCalls
  <1>8. InThePast' /\ LastLoadIsNew' /\ AnswersAreNew'
    BY <1>2, <1>5, <1>7, IdleTypes DEF ConsoleInv, InThePast, LastLoadIsNew, AnswersAreNew, AllAcked
  <1>9. ASSUME page = "organization"
        PROVE  ghost.failed \/ \A i \in Item : ghost.shown[i] = ghost.last
    <2>1. \A d \in Call \ {c} : calls[d] = Idle
      BY <1>2, <1>9, IdleTypes DEF ConsoleInv, OneAtATime
    <2>2. \A d \in Call : ~IsLoad(calls[d])
      BY <1>2, <2>1, IdleTypes DEF IsLoad
    <2>3. QED
      BY <1>9, <2>2 DEF ConsoleInv, OneAtATime
  <1>10. /\ page = "users" /\ calls[c].what # "create" => view'.busy = view.busy
         /\ page = "asset" /\ calls[c].what # "transition" => view'.busy = view.busy
    BY <1>1, <1>6, LoweredEffect
  <1>11. ConsoleInv'
    BY <1>2, <1>5, <1>6, <1>8, <1>9, <1>10, DoneInv
  <1>12. QED
    BY <1>6, <1>11

(* The answer of a save that no other has overlapped is later than what is acked. *)
LEMMA PatchRowInv ==
    ASSUME ConsoleInv, NEW c \in Call, PatchRow(c)
    PROVE  /\ ConsoleInv'
           /\ view'.page = view.page /\ view'.filter = view.filter /\ view'.choice = view.choice
  <1>1. /\ view \in View /\ ghost \in Ghost /\ version \in Nat /\ calls \in [Call -> HandlerCall]
    BY DEF ConsoleInv, TablesOK
  <1>2. PICK call \in HandlerCall : call = calls[c] /\ CallOK(call)
    BY <1>1 DEF ConsoleInv, CallsOK
  <1>3. /\ page = "platform" /\ call.step = "answer" /\ call.ok
        /\ view' = [view EXCEPT !.rows[call.item] = IF @ = Absent THEN @ ELSE call.value, !.busy = {}]
        /\ ghost' = [Acknowledged(ghost, call) EXCEPT !.seen[call.item] = call.version,
                                                      !.freed = @ \/ ~Alone(c)]
        /\ Done(c)
        /\ UNCHANGED <<page, access, store, version, spent>>
    BY <1>2 DEF PatchRow, Here
  <1>4. /\ call.item \in Item /\ call.version \in Nat /\ call.version <= version
        /\ call.value \in Value \cup {Nil}
    BY <1>2, <1>3 DEF CallOK, HandlerCall
  <1>5. PICK acked \in [Item -> Nat] :
          /\ Acknowledged(ghost, call) = [ghost EXCEPT !.acked = acked]
          /\ acked[call.item] = Higher(ghost.acked[call.item], call.version)
          /\ \A i \in Item \ {call.item} : acked[i] = ghost.acked[i]
    BY <1>1, <1>4, AckedOf
  <1>6. PICK freed \in BOOLEAN : freed = (ghost.freed \/ ~Alone(c))
    OBVIOUS
  <1>7. /\ ghost' \in Ghost /\ ghost'.last = ghost.last /\ ghost'.shown = ghost.shown
        /\ ghost'.acked = acked /\ ghost'.freed = freed
        /\ ghost'.seen = [ghost.seen EXCEPT ![call.item] = call.version]
    <2>1. PICK seen \in [Item -> Nat] : seen = [ghost.seen EXCEPT ![call.item] = call.version]
      BY <1>1, <1>4 DEF Ghost
    <2>2. ghost' = [ghost EXCEPT !.acked = acked, !.seen = seen, !.freed = freed]
      BY <1>1, <1>3, <1>5, <1>6, <2>1 DEF Ghost
    <2>3. QED
      BY <1>1, <2>1, <2>2 DEF Ghost
  <1>8. /\ view' \in View /\ view'.dialog = view.dialog
        /\ view'.page = view.page /\ view'.filter = view.filter /\ view'.choice = view.choice
    BY <1>1, <1>3, <1>4 DEF View, Rows, Absent
  <1>9. calls'[c] = Idle /\ \A d \in Call \ {c} : calls'[d] = calls[d]
    BY <1>3, DoneCalls
  <1>10. ghost.acked[call.item] \in Nat /\ ghost.acked[call.item] <= version
    BY <1>1, <1>4 DEF Ghost, ConsoleInv, InThePast
  <1>11. acked[call.item] <= version
    BY <1>4, <1>5, <1>10, HigherOf
  <1>12. InThePast'
    BY <1>3, <1>5, <1>7, <1>11 DEF ConsoleInv, InThePast
  <1>13. LastLoadIsNew'
    BY <1>3 DEF LastLoadIsNew
  <1>14. AnswersAreNew'
    <2> SUFFICES ASSUME ~freed
                 PROVE  AnswersAreNew'
      BY <1>7 DEF AnswersAreNew
    <2>1. Alone(c) /\ ~ghost.freed
      BY <1>6
    <2>2. \A d \in Call : calls'[d] = Idle
      BY <1>9, <2>1 DEF Alone
    <2>3. ghost.acked[call.item] <= call.version
      BY <1>2, <1>3, <1>4, <2>1 DEF ConsoleInv, AnswersAreNew, AllAcked
    <2>4. acked[call.item] = call.version
      BY <1>4, <1>5, <1>10, <2>3 DEF Higher
    <2>5. \A i \in Item : ghost.acked[i] <= ghost.seen[i]
      BY <1>3, <2>1 DEF ConsoleInv, AnswersAreNew
    <2>6. \A i \in Item : ghost'.acked[i] <= ghost'.seen[i]
      <3>1. ghost.seen \in [Item -> Nat]
        BY <1>1 DEF Ghost
      <3>2. QED
        BY <1>4, <1>5, <1>7, <2>4, <2>5, <3>1
    <2>7. QED
      BY <2>2, <2>6, IdleTypes DEF AnswersAreNew
  <1>15. ConsoleInv'
    BY <1>2, <1>3, <1>7, <1>8, <1>12, <1>13, <1>14, DoneInv
  <1>16. QED
    BY <1>8, <1>15

(* The write is acknowledged before the load that follows it is sent. *)
LEMMA ReloadInv ==
    ASSUME ConsoleInv, NEW c \in Call, Reload(c)
    PROVE  /\ ConsoleInv'
           /\ view'.page = view.page /\ view'.filter = view.filter /\ view'.choice = view.choice
  <1>1. /\ view \in View /\ ghost \in Ghost /\ version \in Nat /\ calls \in [Call -> HandlerCall]
        /\ page \in Page
    BY DEF ConsoleInv, TablesOK
  <1>2. PICK call \in HandlerCall : call = calls[c] /\ CallOK(call)
    BY <1>1 DEF ConsoleInv, CallsOK
  <1>3. /\ page # "platform" /\ call.step = "answer" /\ call.ok
        /\ calls' = [calls EXCEPT ![c] = [call EXCEPT !.step = "read", !.no = ghost.last + 1]]
        /\ ghost' = [Acknowledged(ghost, call) EXCEPT !.last = @ + 1, !.failed = FALSE]
        /\ view' = Reloading([view EXCEPT !.dialog = Closed])
        /\ UNCHANGED <<page, access, store, version, spent>>
    BY <1>2 DEF Reload, Here
  <1>4. /\ call.item \in Item /\ call.version \in Nat /\ call.version <= version
    BY <1>2, <1>3 DEF CallOK, HandlerCall
  <1>5. ghost.acked \in [Item -> Nat] /\ ghost.acked[call.item] \in Nat
    BY <1>1, <1>4 DEF Ghost
  <1>6. PICK acked \in [Item -> Nat] :
          /\ Acknowledged(ghost, call) = [ghost EXCEPT !.acked = acked]
          /\ acked[call.item] = Higher(ghost.acked[call.item], call.version)
          /\ \A i \in Item \ {call.item} : acked[i] = ghost.acked[i]
    BY <1>1, <1>4, AckedOf
  <1>7. ghost' = [ghost EXCEPT !.last = @ + 1, !.failed = FALSE, !.acked = acked]
    BY <1>1, <1>3, <1>6 DEF Ghost
  <1>8. \A i \in Item : acked[i] <= version
    <2>1. \A i \in Item : ghost.acked[i] <= version
      BY DEF ConsoleInv, InThePast
    <2>2. acked[call.item] <= version
      BY <1>1, <1>4, <1>5, <1>6, <2>1, HigherOf
    <2>3. QED
      BY <1>6, <2>1, <2>2
  <1>9. PICK load \in HandlerCall :
          /\ calls' = [calls EXCEPT ![c] = load]
          /\ load.step = "read" /\ load.no = ghost.last + 1
          /\ load.version = call.version /\ load.what = call.what
    <2>1. PICK n \in Nat : n = ghost.last + 1
      BY <1>1 DEF Ghost
    <2>2. PICK load : load = [call EXCEPT !.step = "read", !.no = n]
      OBVIOUS
    <2>3. /\ load \in HandlerCall /\ load.step = "read" /\ load.no = n
          /\ load.version = call.version /\ load.what = call.what
      BY <2>2 DEF HandlerCall
    <2>4. QED
      BY <1>3, <2>1, <2>2, <2>3
  <1>10. /\ view' \in View /\ view'.loading /\ view'.busy = view.busy /\ view'.dialog.kind = "none"
         /\ view'.page = view.page /\ view'.filter = view.filter /\ view'.choice = view.choice
    <2>1. PICK v : v = [view EXCEPT !.dialog = Closed]
      OBVIOUS
    <2>2. Closed \in Dialog /\ Closed.kind = "none"
      BY DEF Closed, Dialog
    <2>3. /\ v \in View /\ v.busy = view.busy /\ v.dialog = Closed
          /\ v.page = view.page /\ v.filter = view.filter /\ v.choice = view.choice
      BY <1>1, <2>1, <2>2 DEF View
    <2>4. view' = Reloading(v)
      BY <1>3, <2>1
    <2>5. QED
      BY <1>1, <2>2, <2>3, <2>4, ReloadingEffect
  <1>11. page = "organization" => \A d \in Call \ {c} : calls[d] = Idle
    BY <1>2, <1>3, IdleTypes DEF ConsoleInv, OneAtATime
  <1>12. load.version <= version /\ load.what \in {calls[c].what, "load"}
    BY <1>2, <1>4, <1>9
  <1>13. page = "platform" => acked = ghost.acked
    BY <1>3
  <1>14. view'.dialog.kind = "delete" => view'.dialog.item \in Item
    BY <1>10
  <1>15. load.step = "read" /\ load.no = ghost.last + 1 /\ calls' = [calls EXCEPT ![c] = load]
    BY <1>9
  <1>16. UNCHANGED <<page, access, store, version, spent>>
    BY <1>3
  <1>17. ConsoleInv'
    BY <1>7, <1>8, <1>10, <1>11, <1>12, <1>13, <1>14, <1>15, <1>16, StartInv
  <1>18. QED
    BY <1>10, <1>17

LEMMA ReceiveFailureInv ==
    ASSUME ConsoleInv, NEW c \in Call, ReceiveFailure(c)
    PROVE  /\ ConsoleInv'
           /\ view'.page = view.page /\ view'.filter = view.filter /\ view'.choice = view.choice
  <1>1. /\ view \in View /\ ghost \in Ghost /\ version \in Nat /\ calls \in [Call -> HandlerCall]
    BY DEF ConsoleInv, TablesOK
  <1>2. /\ calls[c].step = "failed"
        /\ view' = Ended([view EXCEPT !.error = TRUE], calls[c])
        /\ ghost' = [ghost EXCEPT !.failed = @ \/ calls[c].no = ghost.last]
        /\ Done(c)
        /\ UNCHANGED <<page, access, store, version, spent>>
    BY DEF ReceiveFailure
  <1>3. PICK failed \in BOOLEAN : failed = (ghost.failed \/ calls[c].no = ghost.last)
    OBVIOUS
  <1>4. ghost' = [ghost EXCEPT !.failed = failed]
    BY <1>1, <1>2, <1>3 DEF Ghost
  <1>5. /\ ghost' \in Ghost /\ ghost'.last = ghost.last /\ ghost'.failed = failed
        /\ ghost'.shown = ghost.shown /\ ghost'.seen = ghost.seen /\ ghost'.acked = ghost.acked
        /\ ghost'.freed = ghost.freed
    BY <1>1, <1>4 DEF Ghost
  <1>6. /\ view' \in View /\ view'.dialog = view.dialog /\ view'.busy = Lowered(calls[c])
        /\ view'.page = view.page /\ view'.filter = view.filter /\ view'.choice = view.choice
    <2>1. PICK v \in View : /\ v = [view EXCEPT !.error = TRUE]
                           /\ v.dialog = view.dialog /\ v.page = view.page
                           /\ v.filter = view.filter /\ v.choice = view.choice
      <3>1. PICK v : v = [view EXCEPT !.error = TRUE]
        OBVIOUS
      <3>2. /\ v \in View /\ v.dialog = view.dialog /\ v.page = view.page
            /\ v.filter = view.filter /\ v.choice = view.choice
        BY <1>1, <3>1 DEF View
      <3>3. QED
        BY <3>1, <3>2
    <2>2. view' = Ended(v, calls[c])
      BY <1>2, <2>1
    <2>3. QED
      BY <1>1, <2>1, <2>2, EndedEffect
  <1>7. calls'[c] = Idle /\ \A d \in Call \ {c} : calls'[d] = calls[d]
    BY <1>2, DoneCalls
  <1>8. InThePast' /\ LastLoadIsNew' /\ AnswersAreNew'
    BY <1>2, <1>5, <1>7, IdleTypes DEF ConsoleInv, InThePast, LastLoadIsNew, AnswersAreNew, AllAcked
  <1>9. page = "organization" => failed
    BY <1>2, <1>3 DEF ConsoleInv, OneAtATime, IsLoad
  <1>10. /\ page = "users" /\ calls[c].what # "create" => view'.busy = view.busy
         /\ page = "asset" /\ calls[c].what # "transition" => view'.busy = view.busy
    BY <1>1, <1>6, LoweredEffect
  <1>11. ConsoleInv'
    BY <1>2, <1>5, <1>6, <1>8, <1>9, <1>10, DoneInv
  <1>12. QED
    BY <1>6, <1>11

(* Only rows that a handler without a choice brings can change the choice. *)
LEMMA ChoiceEffect ==
    ASSUME view \in View, NEW call
    PROVE  /\ Choice(call) \in Type \cup {Nil}
           /\ call.choice # Nil => Choice(call) = view.choice
  BY DEF Choice, View

LEMMA ReceiveRowsInv ==
    ASSUME ConsoleInv, NEW c \in Call, ReceiveRows(c)
    PROVE  /\ ConsoleInv'
           /\ view'.page = view.page /\ view'.filter = view.filter
           /\ calls[c].step = "rows" /\ (calls[c].choice # Nil => view'.choice = view.choice)
  <1>1. /\ view \in View /\ ghost \in Ghost /\ version \in Nat /\ calls \in [Call -> HandlerCall]
    BY DEF ConsoleInv, TablesOK
  <1>2. PICK call \in HandlerCall : call = calls[c] /\ CallOK(call)
    BY <1>1 DEF ConsoleInv, CallsOK
  <1>3. /\ call.step = "rows"
        /\ view' = Ended([view EXCEPT !.rows = call.rows, !.choice = Choice(call)], call)
        /\ ghost' = Seen(ghost, call)
        /\ Done(c)
        /\ UNCHANGED <<page, access, store, version, spent>>
    BY <1>2 DEF ReceiveRows
  <1>4. /\ call.no \in Nat /\ call.no <= ghost.last /\ call.version \in Nat /\ call.rows \in Rows
    BY <1>2 DEF CallOK, HandlerCall
  <1>5. /\ ghost' \in Ghost /\ ghost'.last = ghost.last /\ ghost'.failed = ghost.failed
        /\ ghost'.acked = ghost.acked /\ ghost'.freed = ghost.freed
        /\ \A i \in Item : ghost'.shown[i] = call.no /\ ghost'.seen[i] = call.version
    BY <1>1, <1>3, <1>4 DEF Seen, Ghost
  <1>6. PICK v \in View : /\ v = [view EXCEPT !.rows = call.rows, !.choice = Choice(call)]
                         /\ v.dialog = view.dialog /\ v.page = view.page
                         /\ v.filter = view.filter /\ v.choice = Choice(call)
    <2>1. PICK choice \in Type \cup {Nil} : choice = Choice(call)
      BY <1>1, ChoiceEffect
    <2>2. PICK v : v = [view EXCEPT !.rows = call.rows, !.choice = choice]
      OBVIOUS
    <2>3. /\ v \in View /\ v.dialog = view.dialog /\ v.page = view.page
          /\ v.filter = view.filter /\ v.choice = choice
      BY <1>1, <1>4, <2>2 DEF View
    <2>4. QED
      BY <2>1, <2>2, <2>3
  <1>7. /\ view' \in View /\ view'.dialog = view.dialog /\ view'.busy = Lowered(call)
        /\ view'.page = view.page /\ view'.filter = view.filter /\ view'.choice = Choice(call)
    <2>1. view' = Ended(v, call)
      BY <1>3, <1>6
    <2>2. QED
      BY <1>1, <1>6, <2>1, EndedEffect
  <1>8. calls'[c] = Idle /\ \A d \in Call \ {c} : calls'[d] = calls[d]
    BY <1>3, DoneCalls
  <1>9. InThePast'
    BY <1>3, <1>4, <1>5 DEF ConsoleInv, InThePast
  <1>10. LastLoadIsNew'
    <2> SUFFICES ASSUME page # "platform"
                 PROVE  LastLoadIsNew'
      BY <1>3 DEF LastLoadIsNew
    <2>1. call.no = ghost.last => AllAcked(call.version)
      BY <1>2, <1>3 DEF ConsoleInv, LastLoadIsNew
    <2>2. \A i \in Item : ghost'.shown[i] = ghost'.last => ghost'.acked[i] <= ghost'.seen[i]
      BY <1>5, <2>1 DEF AllAcked
    <2>3. QED
      BY <1>3, <1>5, <1>8, <2>2, IdleTypes DEF ConsoleInv, LastLoadIsNew, AllAcked
  <1>11. AnswersAreNew'
    <2> SUFFICES ASSUME page = "platform", ~ghost.freed
                 PROVE  AnswersAreNew'
      BY <1>3, <1>5 DEF AnswersAreNew
    <2>1. AllAcked(call.version)
      BY <1>2, <1>3 DEF ConsoleInv, AnswersAreNew
    <2>2. \A i \in Item : ghost'.acked[i] <= ghost'.seen[i]
      BY <1>5, <2>1 DEF AllAcked
    <2>3. QED
      BY <1>3, <1>5, <1>8, <2>2, IdleTypes DEF ConsoleInv, AnswersAreNew, AllAcked
  <1>12. page = "organization" => call.no = ghost.last
    BY <1>2, <1>3 DEF ConsoleInv, OneAtATime, IsLoad
  <1>13. /\ page = "users" /\ calls[c].what # "create" => view'.busy = view.busy
         /\ page = "asset" /\ calls[c].what # "transition" => view'.busy = view.busy
    BY <1>1, <1>2, <1>7, LoweredEffect
  <1>14. ConsoleInv'
    BY <1>2, <1>3, <1>5, <1>7, <1>9, <1>10, <1>11, <1>12, <1>13, DoneInv
  <1>15. QED
    BY <1>1, <1>2, <1>3, <1>7, <1>14, ChoiceEffect

LEMMA ReceiveAssetInv ==
    ASSUME ConsoleInv, NEW c \in Call, ReceiveAsset(c)
    PROVE  /\ ConsoleInv'
           /\ view'.page = view.page /\ view'.filter = view.filter /\ view'.choice = view.choice
  <1>1. /\ view \in View /\ ghost \in Ghost /\ version \in Nat /\ calls \in [Call -> HandlerCall]
        /\ spent \in Spent /\ store \in Rows /\ (view.dialog.kind = "delete" => view.dialog.item \in Item)
        /\ TablesOK /\ CallsOK
    BY DEF ConsoleInv, TablesOK
  <1>2. PICK old \in HandlerCall : old = calls[c] /\ CallOK(old)
    BY <1>1 DEF CallsOK
  <1>3. /\ page = "asset" /\ old.step = "rows"
        /\ UNCHANGED <<page, access, store, version, spent>>
    BY <1>2 DEF ReceiveAsset, Here
  <1>4. /\ spent' \in Spent /\ version' \in Nat /\ version <= version' /\ version' = version
        /\ store' \in Rows /\ spent'.writes = spent.writes /\ spent'.others = spent.others
    BY <1>1, <1>3
  <1>5. CASE calls' = [calls EXCEPT ![c].step = "failed"] /\ UNCHANGED <<view, ghost>>
    <2>1. PICK call : call = [old EXCEPT !.step = "failed"]
      OBVIOUS
    <2>2. /\ call \in HandlerCall /\ call.step = "failed" /\ call.version = old.version
          /\ call.what = old.what /\ call.no = old.no /\ call.item = old.item
      BY <2>1 DEF HandlerCall
    <2>3. calls' = [calls EXCEPT ![c] = call]
      BY <1>1, <1>2, <1>5, <2>1
    <2>4. CallOK(call)'
      BY <1>2, <1>3, <1>5, <2>2 DEF CallOK
    <2>5. Same(call, calls[c])
      BY <1>2, <1>3, <2>2 DEF Same, IsLoad, IsWrite
    <2>6. Counted'
      BY <1>4, <2>2, <2>3, CountedKept
    <2>7. ConsoleInv'
      BY <1>3, <1>4, <1>5, <2>2, <2>3, <2>4, <2>5, <2>6, AnswerInv
    <2>8. QED
      BY <1>5, <2>7
  <1>6. CASE /\ calls' = [calls EXCEPT ![c].step = "rest"]
             /\ view' = [view EXCEPT !.rows[Lifecycle] = old.rows[Lifecycle]]
             /\ ghost' = [ghost EXCEPT !.shown[Lifecycle] = old.no, !.seen[Lifecycle] = old.version]
    <2>1. PICK call : call = [old EXCEPT !.step = "rest"]
      OBVIOUS
    <2>2. /\ call \in HandlerCall /\ call.step = "rest" /\ call.version = old.version
          /\ call.what = old.what /\ call.no = old.no /\ call.item = old.item
      BY <2>1 DEF HandlerCall
    <2>3. calls' = [calls EXCEPT ![c] = call]
      BY <1>1, <1>2, <1>6, <2>1
    <2>4. old.no \in Nat /\ old.version \in Nat /\ old.no <= ghost.last /\ old.rows[Lifecycle] \in Value \cup {Nil}
      BY <1>2, ConstantTypes DEF CallOK, HandlerCall, Rows, Absent
    <2>5. /\ ghost' \in Ghost /\ ghost'.last = ghost.last /\ ghost'.acked = ghost.acked
          /\ ghost'.shown = [ghost.shown EXCEPT ![Lifecycle] = old.no]
          /\ ghost'.seen = [ghost.seen EXCEPT ![Lifecycle] = old.version]
      <3>1. PICK shown \in [Item -> Nat], seen \in [Item -> Nat] :
              /\ shown = [ghost.shown EXCEPT ![Lifecycle] = old.no]
              /\ seen = [ghost.seen EXCEPT ![Lifecycle] = old.version]
        BY <1>1, <2>4, ConstantTypes DEF Ghost
      <3>2. ghost' = [ghost EXCEPT !.shown = shown, !.seen = seen]
        BY <1>1, <1>6, <3>1 DEF Ghost
      <3>3. QED
        BY <1>1, <3>1, <3>2 DEF Ghost
    <2>6. /\ view' \in View /\ view'.dialog = view.dialog /\ view'.busy = view.busy
          /\ view'.page = view.page /\ view'.filter = view.filter /\ view'.choice = view.choice
      BY <1>1, <1>6, <2>4, ConstantTypes DEF View, Rows, Absent
    <2>7. CallOK(call)'
      BY <1>2, <1>3, <2>2, <2>5 DEF CallOK
    <2>8. ghost.last <= ghost'.last
      BY <1>1, <2>5 DEF Ghost
    <2>9. /\ calls' \in [Call -> HandlerCall]
          /\ calls'[c] = call
          /\ \A d \in Call \ {c} : calls'[d] = calls[d]
          /\ CallsOK'
      BY <1>1, <1>3, <1>4, <2>2, <2>3, <2>5, <2>7, <2>8, MoveCall
    <2>10. TablesOK'
      BY <1>1, <1>3, <1>4, <2>5, <2>6, <2>9 DEF TablesOK
    <2>11. Counted'
      BY <1>4, <2>2, <2>3, CountedKept
    <2>12. FlagsHold'
      BY <1>2, <1>3, <2>2, <2>6, <2>9, FlagsKept DEF ConsoleInv
    <2>13. OneAtATime' /\ AnswersAreNew'
      BY <1>3 DEF OneAtATime, AnswersAreNew
    <2>14. ghost.shown \in [Item -> Nat] /\ ghost.seen \in [Item -> Nat]
      BY <1>1 DEF Ghost
    <2>15. InThePast'
      BY <1>3, <2>4, <2>5, <2>14 DEF ConsoleInv, InThePast
    <2>16. LastLoadIsNew'
      <3>1. old.no = ghost.last => AllAcked(old.version)
        BY <1>2, <1>3 DEF ConsoleInv, LastLoadIsNew
      <3>2. \A i \in Item : ghost'.shown[i] = ghost'.last => ghost'.acked[i] <= ghost'.seen[i]
        BY <1>3, <2>5, <2>14, <3>1, ConstantTypes DEF ConsoleInv, LastLoadIsNew, AllAcked
      <3>3. \A d \in Call :
              calls'[d].no = ghost'.last /\ calls'[d].step \in {"rows", "rest", "all"}
                  => AllAcked(calls'[d].version)
        BY <1>3, <2>2, <2>5, <2>9, <3>1 DEF ConsoleInv, LastLoadIsNew
      <3>4. QED
        BY <2>5, <3>2, <3>3 DEF LastLoadIsNew, AllAcked
    <2>17. QED
      BY <2>6, <2>9, <2>10, <2>11, <2>12, <2>13, <2>15, <2>16 DEF ConsoleInv
  <1>7. QED
    BY <1>2, <1>5, <1>6 DEF ReceiveAsset

LEMMA ReceiveRestInv ==
    ASSUME ConsoleInv, NEW c \in Call, ReceiveRest(c)
    PROVE  /\ ConsoleInv'
           /\ view'.page = view.page /\ view'.filter = view.filter /\ view'.choice = view.choice
  <1>1. /\ view \in View /\ ghost \in Ghost /\ version \in Nat /\ calls \in [Call -> HandlerCall]
    BY DEF ConsoleInv, TablesOK
  <1>2. PICK call \in HandlerCall : call = calls[c] /\ CallOK(call)
    BY <1>1 DEF ConsoleInv, CallsOK
  <1>3. /\ call.step = "all" /\ page = "asset"
        /\ view' = Ended([view EXCEPT !.rows = [i \in Item |-> IF i \in call.got THEN call.rows[i]
                                                                ELSE view.rows[i]]], call)
        /\ ghost' = [ghost EXCEPT
                        !.shown = [i \in Item |-> IF i \in call.got THEN call.no ELSE ghost.shown[i]],
                        !.seen = [i \in Item |-> IF i \in call.got THEN call.version ELSE ghost.seen[i]],
                        !.failed = @ \/ (call.got # Ids \ {Lifecycle} /\ call.no = ghost.last)]
        /\ Done(c)
        /\ UNCHANGED <<page, access, store, version, spent>>
    BY <1>1, <1>2 DEF ReceiveRest, CallOK, Ghost
  <1>4. /\ call.no \in Nat /\ call.no <= ghost.last /\ call.version \in Nat /\ call.rows \in Rows
    BY <1>2 DEF CallOK, HandlerCall
  <1>5. ghost.shown \in [Item -> Nat] /\ ghost.seen \in [Item -> Nat]
    BY <1>1 DEF Ghost
  <1>6. /\ ghost' \in Ghost /\ ghost'.last = ghost.last /\ ghost'.acked = ghost.acked
        /\ \A i \in Item : \/ ghost'.shown[i] = ghost.shown[i] /\ ghost'.seen[i] = ghost.seen[i]
                           \/ ghost'.shown[i] = call.no /\ ghost'.seen[i] = call.version
    <2>1. PICK shown \in [Item -> Nat] :
            shown = [i \in Item |-> IF i \in call.got THEN call.no ELSE ghost.shown[i]]
      BY <1>4, <1>5
    <2>2. PICK seen \in [Item -> Nat] :
            seen = [i \in Item |-> IF i \in call.got THEN call.version ELSE ghost.seen[i]]
      BY <1>4, <1>5
    <2>3. PICK failed \in BOOLEAN :
            failed = (ghost.failed \/ (call.got # Ids \ {Lifecycle} /\ call.no = ghost.last))
      OBVIOUS
    <2>4. ghost' = [ghost EXCEPT !.shown = shown, !.seen = seen, !.failed = failed]
      BY <1>1, <1>3, <2>1, <2>2, <2>3 DEF Ghost
    <2>5. /\ ghost' \in Ghost /\ ghost'.last = ghost.last /\ ghost'.acked = ghost.acked
          /\ ghost'.shown = shown /\ ghost'.seen = seen
      BY <1>1, <2>4 DEF Ghost
    <2>6. QED
      BY <2>1, <2>2, <2>5
  <1>7. PICK v \in View :
          /\ view' = Ended(v, call)
          /\ v.dialog = view.dialog /\ v.page = view.page
          /\ v.filter = view.filter /\ v.choice = view.choice
    <2>1. PICK rows \in Rows :
            rows = [i \in Item |-> IF i \in call.got THEN call.rows[i] ELSE view.rows[i]]
      <3>1. \A i \in Item : call.rows[i] \in Value \cup {Absent} /\ view.rows[i] \in Value \cup {Absent}
        BY <1>1, <1>4 DEF Rows, View
      <3>2. [i \in Item |-> IF i \in call.got THEN call.rows[i] ELSE view.rows[i]]
              \in [Item -> Value \cup {Absent}]
        BY <3>1
      <3>3. QED
        BY <3>2 DEF Rows
    <2>2. PICK v : v = [view EXCEPT !.rows = rows]
      OBVIOUS
    <2>3. /\ v \in View /\ v.dialog = view.dialog /\ v.page = view.page
          /\ v.filter = view.filter /\ v.choice = view.choice
      BY <1>1, <2>2 DEF View
    <2>4. view' = Ended(v, call)
      BY <1>3, <2>1, <2>2
    <2>5. QED
      BY <2>3, <2>4
  <1>8. /\ view' \in View /\ view'.dialog = view.dialog /\ view'.busy = Lowered(call)
        /\ view'.page = view.page /\ view'.filter = view.filter /\ view'.choice = view.choice
    BY <1>1, <1>7, EndedEffect
  <1>9. calls'[c] = Idle /\ \A d \in Call \ {c} : calls'[d] = calls[d]
    BY <1>3, DoneCalls
  <1>10. InThePast'
    BY <1>3, <1>4, <1>6 DEF ConsoleInv, InThePast
  <1>11. LastLoadIsNew'
    <2>1. call.no = ghost.last => AllAcked(call.version)
      BY <1>2, <1>3 DEF ConsoleInv, LastLoadIsNew
    <2>2. \A i \in Item : ghost'.shown[i] = ghost'.last => ghost'.acked[i] <= ghost'.seen[i]
      BY <1>3, <1>6, <2>1 DEF ConsoleInv, LastLoadIsNew, AllAcked
    <2>3. QED
      BY <1>3, <1>6, <1>9, <2>2, IdleTypes DEF ConsoleInv, LastLoadIsNew, AllAcked
  <1>12. AnswersAreNew'
    BY <1>3 DEF AnswersAreNew
  <1>13. page = "asset" /\ calls[c].what # "transition" => view'.busy = view.busy
    BY <1>1, <1>2, <1>8, LoweredEffect
  <1>14. ConsoleInv'
    BY <1>2, <1>3, <1>6, <1>8, <1>10, <1>11, <1>12, <1>13, DoneInv
  <1>15. QED
    BY <1>8, <1>14

-----------------------------------------------------------------------------
(* Every step keeps the invariant. *)
LEMMA NextInv ==
    ASSUME ConsoleInv, [Next]_vars
    PROVE  ConsoleInv'
  <1>1. CASE UserStep
    <2>1. CASE UserLooks
      BY <2>1, UserLooksInv
    <2>2. CASE \E c \in Call : Handler(c) \/ Retry(c)
      BY <2>2, HandlerInv, RetryInv
    <2>3. QED
      BY <1>1, <2>1, <2>2 DEF UserStep, UserLooks
  <1>2. ASSUME NEW c \in Call, Net(c)
        PROVE  ConsoleInv'
    BY <1>2, ServeInv, ServeReadInv, ReceiveRefusalInv, PatchRowInv, ReloadInv, ReceiveFailureInv,
       ReceiveRowsInv, ReceiveAssetInv, ReceiveRestInv DEF Net
  <1>3. ASSUME NEW c \in Call, Lose(c)
        PROVE  ConsoleInv'
    BY <1>3, LoseInv
  <1>4. CASE Other \/ ExpireToken \/ UNCHANGED vars
    BY <1>4, OtherInv
  <1>5. QED
    BY <1>1, <1>2, <1>3, <1>4 DEF Next

LEMMA InitInv ==
    ASSUME Init
    PROVE  ConsoleInv
  <1>1. PICK rows \in Rows : rows = [i \in Item |-> Absent]
    BY DEF Rows, Absent
  <1>2. PICK dialog \in Dialog : dialog = Closed /\ dialog.kind = "none"
    <2>1. Closed \in Dialog /\ Closed.kind = "none"
      BY DEF Closed, Dialog
    <2>2. QED
      BY <2>1
  <1>3. view = [rows |-> rows, loading |-> TRUE, busy |-> {}, error |-> FALSE,
                dialog |-> dialog, filter |-> Item, page |-> 1, choice |-> Nil]
    BY <1>1, <1>2 DEF Init
  <1>4. view \in View /\ view.dialog.kind # "delete" /\ view.loading
    BY <1>2, <1>3, ConstantTypes DEF View
  <1>5. PICK load : load = Loading(1)
    OBVIOUS
  <1>6. /\ load \in HandlerCall /\ load.step = "read" /\ load.no = 1 /\ load.what = "load"
        /\ load.version = 0
    BY <1>5, IdleTypes DEF Loading, HandlerCall
  <1>7. /\ calls \in [Call -> HandlerCall]
        /\ calls[1] = load /\ \A c \in Call \ {1} : calls[c] = Idle
    BY <1>5, <1>6, IdleTypes, ConstantTypes DEF Init
  <1>8. PICK zero \in [Item -> Nat] : zero = [i \in Item |-> 0] /\ \A i \in Item : zero[i] = 0
    <2>1. PICK zero : zero = [i \in Item |-> 0]
      OBVIOUS
    <2>2. zero \in [Item -> Nat] /\ \A i \in Item : zero[i] = 0
      BY <2>1
    <2>3. QED
      BY <2>1, <2>2
  <1>9. ghost = [last |-> 1, shown |-> zero, failed |-> FALSE, freed |-> FALSE, seen |-> zero, acked |-> zero]
    BY <1>8 DEF Init
  <1>10. /\ ghost \in Ghost /\ ghost.last = 1
         /\ ghost.shown = zero /\ ghost.seen = zero /\ ghost.acked = zero
    BY <1>9 DEF Ghost
  <1>11. /\ spent \in Spent /\ spent.writes = 0 /\ spent.others = 0 /\ version = 0
         /\ store \in Rows /\ page \in Page
    BY ConstantTypes DEF Init, Spent
  <1>12. TablesOK
    BY <1>4, <1>7, <1>10, <1>11 DEF TablesOK
  <1>13. CallsOK
    BY <1>6, <1>7, <1>10, <1>11, IdleTypes, ConstantTypes DEF CallsOK, CallOK
  <1>14. Counted
    <2>1. Pending = {}
      BY <1>6, <1>7, IdleTypes, ConstantTypes DEF Pending
    <2>2. Cardinality(Pending) = 0
      BY <2>1, FS_EmptySet
    <2>3. QED
      BY <1>11, <2>2 DEF Counted
  <1>15. FlagsHold
    BY <1>6, <1>7, IdleTypes DEF FlagsHold, OnlyOne
  <1>16. OneAtATime
    <2>1. \A c \in Call : IsLoad(calls[c]) <=> c = 1
      BY <1>6, <1>7, IdleTypes, ConstantTypes DEF IsLoad
    <2>2. \A c \in Call : ~IsWrite(calls[c])
      BY <1>6, <1>7, IdleTypes DEF IsWrite
    <2>3. \A c \in Call : calls[c] # Idle => \A d \in Call \ {c} : calls[d] = Idle
      BY <1>7
    <2>4. QED
      BY <1>4, <1>6, <1>7, <1>10, <2>1, <2>2, <2>3, ConstantTypes DEF OneAtATime
  <1>17. InThePast /\ LastLoadIsNew /\ AnswersAreNew
    BY <1>6, <1>7, <1>8, <1>10, <1>11, IdleTypes DEF InThePast, LastLoadIsNew, AnswersAreNew
  <1>18. QED
    BY <1>12, <1>13, <1>14, <1>15, <1>16, <1>17 DEF ConsoleInv

(* The invariant of a page, its handlers and the API. *)
LEMMA ConsoleInvariance == Spec => []ConsoleInv
  <1>1. Init => ConsoleInv
    BY InitInv
  <1>2. ConsoleInv /\ [Next]_vars => ConsoleInv'
    BY NextInv
  <1>3. QED
    BY <1>1, <1>2, PTL DEF Spec

-----------------------------------------------------------------------------
(* Rows, handlers and the state of a page are of their types. *)
THEOREM ConsoleTypes == Spec => []TypeOK
  <1>1. ConsoleInv => TypeOK
    <2> SUFFICES ASSUME ConsoleInv
                 PROVE  TypeOK
      OBVIOUS
    <2>1. /\ store \in Rows /\ version \in Nat /\ view \in View
          /\ calls \in [Call -> HandlerCall] /\ spent \in Spent
      BY DEF ConsoleInv, TablesOK
    <2>2. version \in Version
      <3>1. IsFiniteSet(Pending)
        <4>1. MaxCalls \in Int /\ 1 \in Int
          BY ConsoleAssumption
        <4>2. IsFiniteSet(Call)
          BY <4>1, FS_Interval DEF Call
        <4>3. QED
          BY <4>2, FS_Subset DEF Pending
      <3>2. Cardinality(Pending) \in Nat
        BY <3>1, FS_CardinalityType
      <3>3. spent.writes \in 0 .. MaxWrites /\ spent.others \in 0 .. MaxOthers
        BY <2>1 DEF Spent
      <3>4. QED
        BY <2>1, <3>2, <3>3, ConstantTypes DEF ConsoleInv, Counted, Version
    <2>3. /\ view.rows \in Rows
          /\ view.busy \subseteq Item \cup {"saving", "deleting", "transitioning"}
          /\ view.choice \in Type \cup {Nil} /\ view.filter \subseteq Item /\ view.page \in Nat \ {0}
      BY <2>1 DEF View, Flag, PageNumber
    <2>4. \A c \in Call :
            /\ calls[c].step \in {"idle", "write", "answer", "read", "rows", "failed", "rest", "all"}
            /\ calls[c].rows \in Rows
            /\ calls[c].step = "write" /\ calls[c].what # "delete" => calls[c].value \in Value
      BY <2>1 DEF ConsoleInv, CallsOK, CallOK, HandlerCall
    <2>5. QED
      BY <2>1, <2>2, <2>3, <2>4 DEF TypeOK
  <1>2. QED
    BY <1>1, ConsoleInvariance, PTL

(***************************************************************************)
(* However handlers and loads overlap, a form of the organization page, a  *)
(* new user and the transition of an asset are not submitted again while   *)
(* they are being saved.                                                   *)
(***************************************************************************)
THEOREM NothingIsSubmittedTwice == Spec => []SubmittedOnce
  <1>1. ConsoleInv => SubmittedOnce
    BY DEF ConsoleInv, FlagsHold, OnlyOne, OneAtATime, SubmittedOnce, Here
  <1>2. QED
    BY <1>1, ConsoleInvariance, PTL

(***************************************************************************)
(* A page at rest shows what it has been told of its own writes, or        *)
(* something later, if the last load it sent has succeeded and was also    *)
(* the last to arrive.  The organization page needs no such order: it has  *)
(* one load at a time.  The platform page loads nothing after a write: of  *)
(* it this says so as long as no save has ended beside another.            *)
(***************************************************************************)
THEOREM ReadsFollowWrites == Spec => []ReadYourWrites
  <1>1. ConsoleInv => ReadYourWrites
    <2> SUFFICES ASSUME ConsoleInv, Quiet, NEW i \in Item
                 PROVE  \/ ghost.seen[i] >= ghost.acked[i]
                        \/ ghost.failed
                        \/ ~Here({"organization", "platform"}) /\ ghost.shown[i] # ghost.last
                        \/ Here({"platform"}) /\ ghost.freed
      BY DEF ReadYourWrites
    <2>1. ghost.seen[i] \in Nat /\ ghost.acked[i] \in Nat
      BY DEF ConsoleInv, TablesOK, Ghost
    <2>2. CASE page = "platform"
      BY <2>1, <2>2 DEF ConsoleInv, AnswersAreNew, Here
    <2>3. CASE page = "organization"
      <3>1. ghost.failed \/ ghost.shown[i] = ghost.last
        BY <2>3, IdleTypes DEF ConsoleInv, OneAtATime, Quiet, IsLoad
      <3>2. QED
        BY <2>1, <2>3, <3>1 DEF ConsoleInv, LastLoadIsNew
    <2>4. CASE page \notin {"platform", "organization"}
      BY <2>1, <2>4 DEF ConsoleInv, LastLoadIsNew, Here
    <2>5. QED
      BY <2>2, <2>3, <2>4
  <1>2. QED
    BY <1>1, ConsoleInvariance, PTL

-----------------------------------------------------------------------------
(* Which steps change the page of the table, the filter and the choice. *)
LEMMA NextEffect ==
    ASSUME ConsoleInv, Next
    PROVE  /\ \/ SetFilter \/ TurnPage
              \/ view'.page = view.page /\ view'.filter = view.filter
           /\ \/ calls' = calls
              \/ view'.choice = view.choice
              \/ \E c \in Call : calls[c].step = "rows" /\ calls[c].choice = Nil
  <1>1. view \in View
    BY DEF ConsoleInv, TablesOK
  <1>2. CASE UserLooks
    <2>1. calls' = calls
      BY <1>2 DEF UserLooks, SetFilter, TurnPage, OpenCreate, OpenEdit, Ask, Fill, Cancel,
             SubmitIncomplete, ChooseType, Open, Look
    <2>2. CASE \E dialog : view' = [view EXCEPT !.dialog = dialog, !.error = FALSE]
      BY <1>1, <2>2 DEF View
    <2>3. CASE \E dialog : view' = [view EXCEPT !.dialog = dialog]
      BY <1>1, <2>3 DEF View
    <2>4. CASE Fill
      BY <1>1, <2>4 DEF Fill, Look, View
    <2>5. CASE SubmitIncomplete
      BY <1>1, <2>5 DEF SubmitIncomplete, Look, View
    <2>6. CASE ChooseType
      BY <1>1, <2>6 DEF ChooseType, View
    <2>7. QED
      BY <1>2, <2>1, <2>2, <2>3, <2>4, <2>5, <2>6
         DEF UserLooks, OpenCreate, OpenEdit, Ask, Cancel, Open, Look
  <1>3. CASE \E c \in Call : Handler(c) \/ Retry(c)
    BY <1>3, HandlerInv, RetryInv
  <1>4. ASSUME NEW c \in Call, Net(c)
        PROVE  /\ view'.page = view.page /\ view'.filter = view.filter
               /\ \/ view'.choice = view.choice
                  \/ calls[c].step = "rows" /\ calls[c].choice = Nil
    <2>1. CASE Serve(c) \/ ServeRead(c) \/ ServeRest(c)
      BY <2>1 DEF Serve, ServeRead, ServeRest, Answer
    <2>2. CASE ReceiveRows(c)
      BY <2>2, ReceiveRowsInv
    <2>3. CASE ReceiveRefusal(c) \/ PatchRow(c) \/ Reload(c) \/ ReceiveFailure(c)
               \/ ReceiveAsset(c) \/ ReceiveRest(c)
      BY <2>3, ReceiveRefusalInv, PatchRowInv, ReloadInv, ReceiveFailureInv, ReceiveAssetInv,
         ReceiveRestInv
    <2>4. QED
      BY <1>4, <2>1, <2>2, <2>3 DEF Net
  <1>5. CASE (\E c \in Call : Lose(c)) \/ Other \/ ExpireToken
    BY <1>5 DEF Lose, Answer, Other, ExpireToken
  <1>6. QED
    BY <1>2, <1>3, <1>4, <1>5 DEF Next, UserStep, UserLooks

(* A table has a page, even without rows. *)
LEMMA TotalPagesIsOne ==
    ASSUME view \in View
    PROVE  TotalPages \in Nat /\ 1 <= TotalPages
  <1>1. Filtered \subseteq Item
    BY RowsOfView DEF Filtered
  <1>2. IsFiniteSet(Filtered)
    BY <1>1, ConsoleAssumption, FS_Subset
  <1>3. Cardinality(Filtered) \in Nat /\ (Cardinality(Filtered) = 0 <=> Filtered = {})
    BY <1>2, FS_CardinalityType, FS_EmptySet
  <1>4. QED
    BY <1>3 DEF TotalPages

(***************************************************************************)
(* The user does not get to a page of the table that has no rows: neither  *)
(* by turning pages nor by a search, which begins at the first page.       *)
(***************************************************************************)
THEOREM PageStaysInRange == Spec => PageInRange
  <1>1. ConsoleInv /\ ConsoleInv' /\ [Next]_vars =>
          [ view.page <= TotalPages =>
              view'.page <= TotalPages' \/ view'.rows # view.rows ]_vars
    <2> SUFFICES ASSUME ConsoleInv, ConsoleInv', Next, view.page <= TotalPages, view'.rows = view.rows
                 PROVE  view'.page <= TotalPages'
      OBVIOUS
    <2>1. view \in View /\ view' \in View
      BY DEF ConsoleInv, TablesOK
    <2>2. TotalPages \in Nat /\ 1 <= TotalPages
      BY <2>1, TotalPagesIsOne
    <2>3. TotalPages' \in Nat /\ 1 <= TotalPages'
      <3>1. Filtered' \subseteq Item
        BY <2>1 DEF Filtered, Present, View
      <3>2. IsFiniteSet(Filtered')
        BY <3>1, ConsoleAssumption, FS_Subset
      <3>3. Cardinality(Filtered') \in Nat /\ (Cardinality(Filtered') = 0 <=> Filtered' = {})
        BY <3>2, FS_CardinalityType, FS_EmptySet
      <3>4. QED
        BY <3>3 DEF TotalPages
    <2>4. view'.filter = view.filter => TotalPages' = TotalPages
      BY DEF TotalPages, Filtered, Present
    <2>5. CASE SetFilter
      <3>1. view'.page = 1
        BY <2>1, <2>5 DEF SetFilter, Look, View
      <3>2. QED
        BY <2>3, <3>1
    <2>6. CASE TurnPage
      <3>1. /\ view'.filter = view.filter /\ view.page \in Nat
            /\ \/ view'.page = view.page - 1
               \/ view.page < TotalPages /\ view'.page = view.page + 1
        BY <2>1, <2>6 DEF TurnPage, Look, View, PageNumber
      <3>2. QED
        BY <2>2, <2>4, <3>1
    <2>7. CASE view'.page = view.page /\ view'.filter = view.filter
      BY <2>4, <2>7
    <2>8. QED
      BY <2>5, <2>6, <2>7, NextEffect
  <1>2. QED
    BY <1>1, ConsoleInvariance, PTL DEF Spec, PageInRange

(***************************************************************************)
(* A load that began with a selection does not undo the one there is when  *)
(* it ends.  One that began without any may: it sets the first type, over  *)
(* what the user has selected in the meantime.                             *)
(***************************************************************************)
THEOREM ChoicesAreKept == Spec => ChoiceKept
  <1>1. ConsoleInv /\ [Next]_vars =>
          [ view.choice # Nil /\ view'.choice # view.choice =>
              \/ calls' = calls
              \/ \E c \in Call : calls[c].step = "rows" /\ calls[c].choice = Nil ]_vars
    BY NextEffect
  <1>2. QED
    BY <1>1, ConsoleInvariance, PTL DEF Spec, ChoiceKept
=============================================================================
