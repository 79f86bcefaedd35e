------------------------------- MODULE Lists -------------------------------
(***************************************************************************)
(* The pages and dialogs of a trip that show rows of their own: the packing*)
(* list, the expenses, a thread of comments, the members with their invite *)
(* links, and the two switches of the share dialog.  None of their calls   *)
(* carries a version the server looks at (the settings of the budget page  *)
(* and the recap switch do, and may be refused for it), so whether a page  *)
(* shows what the server has depends on how it takes the answers in: some  *)
(* show a change before it is saved and take it back if it fails, some     *)
(* patch their rows with the answer, some fetch all rows again.            *)
(*                                                                         *)
(* Several calls of one page may be under way and are answered in any      *)
(* order or not at all; other members change the same rows.                *)
(***************************************************************************)
EXTENDS Naturals, Sequences

CONSTANTS
  Items,      \* the rows there may be; ids are not used twice
  Invites,    \* those that are invite links, on the page of the members
  Link,       \* the public link and the recap, in the share dialog
  Recap,
  Pages,      \* which of Kinds are looked at
  MaxWrites,  \* bound: no edit starts once so much has been committed
  Slots,      \* bound: as many handlers are under way at once
  New,        \* the row an addition will make
  None        \* nothing

Kinds == {"packing", "budget", "comments", "members", "share"}
Values == {"a", "b"}    \* packed or not, an amount, a text, a role, on or off
Flip(v) == IF v = "a" THEN "b" ELSE "a"

ASSUME ListsAssumption ==
  /\ Invites \subseteq Items /\ {Link, Recap} \subseteq Items /\ Link # Recap
  /\ Pages \subseteq Kinds
  /\ MaxWrites \in Nat
  /\ New \notin Items /\ None \notin Items \cup {New} \cup Values \cup {"gone"}

VARIABLES
  kind,     \* the page that is open
  mayEdit,  \* the page takes the user for an editor, or on "members" the owner
  copy,     \* share: the two switches in the trip page's trip, from which the dialog opens
  rows,     \* the server's rows: None before, "gone" after they exist
  writes,   \* commits 1..writes have been made to them
  view,     \* "loading", "ready", "error" or "left"
  shown,    \* the values shown for each row, one per copy on the page
  seen,     \* history: the commits the rows shown reflect; {} if that cannot be said
  summed,   \* budget: its totals reflect the commits 1..summed
  call,     \* the handlers under way, each with its call
  mine,     \* history: the commits the page has been told of
  torn      \* history: calls of the page overlapped, or one failed
            \* (share: of the dialog since it was opened)

server == <<kind, mayEdit, copy, rows, writes>>
page == <<view, shown, seen, summed>>
vars == <<server, page, call, mine, torn>>

Lists == [Items -> Seq(Values \cup {"gone"})]
Edits == {"set", "remove", "add", "template", "settings"}
Handlers == {"open", "toggle", "remove", "add", "template", "amount", "settings", "send",
             "edit", "role", "invite", "revoke", "leave", "link", "recap"}
Calls == [at : {"idle", "out", "back"},
          by : Handlers,
          op : Edits \cup {"load", "invites", "sum"},
          item : Items \cup {None},
          val : Values \cup {None},
          kept : Lists \cup {None},             \* the rows shown at the click
          crossed : SUBSET (Items \cup {New}),  \* history: what overlapping calls are about
          ok : BOOLEAN,
          reply : Lists \cup {None},
          upto : Nat,                           \* its reply reflects the commits 1..upto
          wrote : Nat]                          \* the commit it has made, or 0

NoCall == [at |-> "idle", by |-> "open", op |-> "load", item |-> None, val |-> None,
           kept |-> None, crossed |-> {}, ok |-> FALSE, reply |-> None, upto |-> 0, wrote |-> 0]
Asked(by, op, i, v) == [NoCall EXCEPT !.at = "out", !.by = by, !.op = op, !.item = i, !.val = v]

(* A deleted comment stays in its thread; the links are for the owner.     *)
Listing ==
  [i \in Items |-> IF \/ rows[i] \in Values /\ ~(kind = "members" /\ i \in Invites /\ ~mayEdit)
                      \/ kind = "comments" /\ rows[i] = "gone"
                   THEN <<rows[i]>> ELSE <<>>]

Init ==
  /\ kind \in Pages /\ mayEdit \in BOOLEAN
  /\ kind \in {"comments", "share"} => mayEdit
  /\ rows \in [Items -> {None, "a"}]
  /\ kind = "share" => \A i \in Items \ {Link} : rows[i] = IF i = Recap THEN "a" ELSE None
  /\ writes = 1 /\ mine = {} /\ torn = FALSE
  /\ view = IF kind \in {"packing", "budget"} THEN "loading" ELSE "ready"
  /\ shown = IF kind = "share" THEN Listing ELSE [i \in Items |-> <<>>]
  /\ seen = IF kind = "share" THEN {1} ELSE {}
  /\ copy = [shown |-> shown, seen |-> seen]
  /\ summed = 1
  /\ \E open \in Slots :
       call = [c \in Slots |->
                 IF c # open \/ (kind = "share" /\ rows[Link] = None) THEN NoCall
                 ELSE IF kind = "share" THEN Asked("open", "add", Link, None)
                 ELSE Asked("open", "load", None, None)]

-----------------------------------------------------------------------------
(* What the pages offer.                                                   *)

Under(by) == \E c \in Slots : call[c].at # "idle" /\ call[c].by = by

PackingOffers == IF mayEdit THEN {"toggle", "remove", "add", "template"} ELSE {}
BudgetOffers == IF mayEdit THEN {"amount", "remove", "add", "settings"} ELSE {}

(* Writing and editing share a form, and its button.                       *)
CommentsOffers ==
  {"remove"} \cup (IF Under("send") \/ Under("edit") THEN {} ELSE {"send", "edit"})

MembersOffers ==
  IF mayEdit THEN {"role", "remove", "revoke"} \cup (IF Under("invite") THEN {} ELSE {"invite"})
  ELSE {"leave"}

ShareOffers ==
  (IF Under("link") THEN {} ELSE {"link"}) \cup (IF shown[Link] # <<>> THEN {"recap"} ELSE {})

Offered ==
  IF view # "ready" THEN {}
  ELSE CASE kind = "packing" -> PackingOffers
         [] kind = "budget" -> BudgetOffers
         [] kind = "comments" -> CommentsOffers
         [] kind = "members" -> MembersOffers
         [] kind = "share" -> ShareOffers

-----------------------------------------------------------------------------
(* The clicks.                                                             *)

Free(c) == call[c].at = "idle"
Marks(op, i) ==
  CASE op = "add" -> {New, i} \ {None}
    [] op = "template" -> Items \cup {New}
    [] OTHER -> {i} \ {None}

Start(by, op, i, v, kept) ==
  /\ by \in Offered /\ writes < MaxWrites
  /\ \E c \in Slots :
       /\ Free(c)
       /\ call' = [d \in Slots |->
            IF d = c THEN [Asked(by, op, i, v) EXCEPT
              !.kept = kept,
              !.crossed = UNION {Marks(call[e].op, call[e].item) : e \in {e \in Slots : ~Free(e)}}]
            ELSE IF Free(d) THEN call[d]
            ELSE [call[d] EXCEPT !.crossed = @ \cup Marks(op, i)]]
  /\ torn' = (torn \/ \E d \in Slots : ~Free(d))

(* A click that shows nothing before the answer.                           *)
Click(by, op, i, v) ==
  Start(by, op, i, v, None) /\ UNCHANGED <<server, page, mine>>

Shown(S) == {i \in S : shown[i] # <<>> /\ Head(shown[i]) \in Values}
Set(i, v) == [shown EXCEPT ![i] = [n \in DOMAIN @ |-> v]]
Drop(i) == [shown EXCEPT ![i] = <<>>]

(* The packing page: a box and a bin answer at once.                       *)
Toggle ==
  /\ kind = "packing"
  /\ \E i \in Shown(Items) :
       /\ Start("toggle", "set", i, Flip(Head(shown[i])), shown)
       /\ shown' = Set(i, Flip(Head(shown[i])))
  /\ UNCHANGED <<server, view, seen, summed, mine>>

RemoveItem ==
  /\ kind = "packing"
  /\ \E i \in Shown(Items) : Start("remove", "remove", i, None, shown) /\ shown' = Drop(i)
  /\ UNCHANGED <<server, view, seen, summed, mine>>

AddItem == kind = "packing" /\ Click("add", "add", None, None)
AddTemplate == kind = "packing" /\ Click("template", "template", None, None)

AddExpense == kind = "budget" /\ Click("add", "add", None, None)
UpdateAmount ==
  kind = "budget" /\ \E i \in Shown(Items) : Click("amount", "set", i, Flip(Head(shown[i])))
RemoveExpense == kind = "budget" /\ \E i \in Shown(Items) : Click("remove", "remove", i, None)
SaveSettings == kind = "budget" /\ Click("settings", "settings", None, None)

SendComment ==
  /\ kind = "comments"
  /\ \/ Click("send", "add", None, None)
     \/ \E i \in Shown(Items) : Click("edit", "set", i, Flip(Head(shown[i])))
RemoveComment == kind = "comments" /\ \E i \in Shown(Items) : Click("remove", "remove", i, None)

(* The sheet is closed, which cancels the request it opened with, and      *)
(* opened again.                                                           *)
Reopen ==
  /\ kind = "comments"
  /\ \E c \in Slots :
       /\ Free(c)
       /\ call' = [d \in Slots |->
                     IF d = c THEN Asked("open", "load", None, None)
                     ELSE IF call[d].by = "open" THEN NoCall ELSE call[d]]
  /\ torn' = (torn \/ \E d \in Slots : ~Free(d))
  /\ UNCHANGED <<server, page, mine>>

ChangeRole ==
  kind = "members" /\ \E i \in Shown(Items \ Invites) : Click("role", "set", i, Flip(Head(shown[i])))
RemoveMember ==
  kind = "members" /\ \E i \in Shown(Items \ Invites) : Click("remove", "remove", i, None)
LeaveTrip ==
  kind = "members" /\ \E i \in Shown(Items \ Invites) : Click("leave", "remove", i, None)
CreateInvite == kind = "members" /\ Click("invite", "add", None, None)
Revoke == kind = "members" /\ \E i \in Shown(Invites) : Click("revoke", "remove", i, None)

HandleToggle ==
  kind = "share" /\ Click("link", IF shown[Link] # <<>> THEN "remove" ELSE "add", Link, None)

RecapToggle ==
  /\ kind = "share"
  /\ Start("recap", "set", Recap, Flip(Head(shown[Recap])), shown)
  /\ shown' = Set(Recap, Flip(Head(shown[Recap])))
  /\ UNCHANGED <<server, view, seen, summed, mine>>

(* The dialog is closed and opened again.  It starts from the page's trip, *)
(* which its switches do not update, and hears of its old requests no      *)
(* more: what they still do at the server is left to OtherEdit.            *)
ReopenShare ==
  /\ kind = "share" /\ writes < MaxWrites
  /\ shown' = copy.shown /\ seen' = copy.seen
  /\ \E open \in Slots :
       call' = [c \in Slots |-> IF c = open /\ copy.shown[Link] # <<>>
                               THEN Asked("open", "add", Link, None) ELSE NoCall]
  /\ mine' = {} /\ torn' = FALSE
  /\ UNCHANGED <<server, view, summed>>

-----------------------------------------------------------------------------
(* The server.                                                             *)

Out(c, op) == call[c].at = "out" /\ call[c].op = op
Keep == UNCHANGED <<kind, mayEdit, copy, page, mine>>
Answer(c, x) == call' = [call EXCEPT ![c] = x]

Fails(c) ==
  /\ Answer(c, [call[c] EXCEPT !.at = "back", !.ok = FALSE, !.reply = None,
                               !.upto = 0, !.wrote = 0])
  /\ torn' = TRUE

Commit(c, r) ==
  /\ rows' = r /\ writes' = writes + 1
  /\ Answer(c, [call[c] EXCEPT !.at = "back", !.ok = TRUE, !.wrote = writes', !.upto = writes'])
  /\ UNCHANGED torn

(* An addition makes a row there has not been; the public link is one row, *)
(* which is switched on whether it was on or not.                          *)
ServeAdd(c) ==
  /\ Out(c, "add")
  /\ \E i \in Items :
       /\ IF kind = "share" THEN i = Link ELSE rows[i] = None
       /\ kind = "members" => i \in Invites
       /\ rows' = [rows EXCEPT ![i] = "a"] /\ writes' = writes + 1
       /\ Answer(c, [call[c] EXCEPT !.at = "back", !.ok = TRUE, !.item = i, !.val = "a",
                                    !.wrote = writes', !.upto = writes'])
  /\ UNCHANGED torn

(* What is on the list already is skipped, and the whole list answered.    *)
ServeTemplate(c) ==
  /\ Out(c, "template")
  /\ \E S \in SUBSET {i \in Items : rows[i] = None} :
       LET r == [i \in Items |-> IF i \in S THEN "a" ELSE rows[i]]
       IN  /\ rows' = r /\ writes' = writes + 1
           /\ Answer(c, [call[c] EXCEPT !.at = "back", !.ok = TRUE, !.wrote = writes',
                           !.upto = writes',
                           !.reply = [i \in Items |-> IF r[i] \in Values THEN <<r[i]>> ELSE <<>>]])
  /\ UNCHANGED torn

ServeSet(c) ==
  /\ Out(c, "set") /\ rows[call[c].item] \in Values
  /\ Commit(c, [rows EXCEPT ![call[c].item] = call[c].val])

(* Switching the link off is no error if it is off, nor is deleting a      *)
(* comment that is deleted.                                                *)
Repeatable == kind \in {"share", "comments"}

ServeRemove(c) ==
  /\ Out(c, "remove") /\ (rows[call[c].item] \in Values \/ Repeatable)
  /\ Commit(c, [rows EXCEPT ![call[c].item] = "gone"])

ServeSettings(c) == Out(c, "settings") /\ Commit(c, rows)

ServeMissing(c) ==
  /\ Out(c, "set") \/ (Out(c, "remove") /\ ~Repeatable)
  /\ rows[call[c].item] \notin Values
  /\ Fails(c)
  /\ UNCHANGED <<rows, writes>>

ServeLoad(c) ==
  /\ Out(c, "load") \/ Out(c, "invites") \/ Out(c, "sum")
  /\ Answer(c, [call[c] EXCEPT !.at = "back", !.ok = TRUE, !.upto = writes,
                               !.reply = IF call[c].op = "sum" THEN None ELSE Listing])
  /\ UNCHANGED <<rows, writes, torn>>

Serve(c) ==
  /\ \/ ServeAdd(c) \/ ServeTemplate(c) \/ ServeSet(c) \/ ServeRemove(c) \/ ServeSettings(c)
     \/ ServeMissing(c) \/ ServeLoad(c)
  /\ Keep

(* A refusal, an error, a request or an answer that is lost.               *)
Lost(c) ==
  /\ call[c].at = "out" \/ (call[c].at = "back" /\ call[c].ok)
  /\ Fails(c)
  /\ UNCHANGED <<rows, writes>> /\ Keep

OtherEdit ==
  /\ writes < MaxWrites /\ writes' = writes + 1
  /\ \E i \in Items : \E v \in Values \cup {"gone"} :
       /\ rows[i] = "gone" => kind = "share"
       /\ rows[i] # v /\ (rows[i] = None => v = "a")
       /\ kind = "share" => i \in {Link, Recap} /\ (i = Recap => v # "gone") /\ (i = Link => v # "b")
       /\ rows' = [rows EXCEPT ![i] = v]
  /\ UNCHANGED <<kind, mayEdit, copy, page, call, mine, torn>>

-----------------------------------------------------------------------------
(* The page behind the dialog: a saved title or a calculated route answers *)
(* with the whole trip, which replaces the page's (in one step here).      *)
CopyReplaced ==
  /\ kind = "share"
  /\ copy' = [shown |-> Listing, seen |-> 1 .. writes]
  /\ UNCHANGED <<kind, mayEdit, rows, writes, page, call, mine, torn>>

-----------------------------------------------------------------------------
(* The answers.                                                            *)

Back(c, op) == call[c].at = "back" /\ call[c].op = op
Ends(c) == Answer(c, NoCall)
Goes(c, op) == Answer(c, [Asked(call[c].by, op, None, None) EXCEPT !.crossed = call[c].crossed])
Told(c) == mine' = IF call[c].wrote > 0 THEN mine \cup {call[c].wrote} ELSE mine

(* The commits reflected once the page has taken an answer in: nothing can *)
(* be said where another call was about the same row.                      *)
With(c, clear) == IF clear THEN seen \cup ({call[c].wrote} \ {0}) ELSE {}
Clear(c) == call[c].item \notin call[c].crossed

(* Promise.all of the packing page and the budget page, whose totals are   *)
(* answered by a request of their own; load of the threads and of the      *)
(* members, which goes on to the links; after a change of members the      *)
(* whole document is loaded anew.                                          *)
Loaded(c) ==
  /\ Back(c, "load")
  /\ IF call[c].ok
     THEN /\ shown' = [i \in Items |-> IF kind = "members" /\ i \in Invites THEN shown[i]
                                       ELSE call[c].reply[i]]
          /\ seen' = 1 .. call[c].upto
     ELSE UNCHANGED <<shown, seen>>
  /\ summed' \in IF kind = "budget" THEN 1 .. writes ELSE {summed}
  /\ IF call[c].ok /\ kind = "members" /\ mayEdit
     THEN Goes(c, "invites") /\ UNCHANGED view
     ELSE /\ Ends(c)
          /\ view' = IF kind \in {"packing", "budget"}
                     THEN IF call[c].ok THEN "ready" ELSE "error"
                     ELSE IF kind = "members" /\ call[c].by \in {"role", "remove"}
                     THEN "left" ELSE view
  /\ UNCHANGED <<server, mine, torn>>

InvitesLoaded(c) ==
  /\ Back(c, "invites") /\ Ends(c)
  /\ IF call[c].ok
     THEN /\ shown' = [i \in Items |-> IF i \in Invites THEN call[c].reply[i] ELSE shown[i]]
          /\ seen' = seen \cap (1 .. call[c].upto)
     ELSE shown' = shown /\ seen' = {}
  /\ view' = IF call[c].by \in {"role", "remove"} THEN "left" ELSE view
  /\ UNCHANGED <<server, summed, mine, torn>>

(* A mistake: what could not be saved stays on the page.                   *)
ToggleAnsweredKept(c) ==
  /\ kind = "packing" /\ Back(c, "set") /\ Ends(c) /\ Told(c)
  /\ seen' = With(c, Clear(c))
  /\ UNCHANGED <<server, view, shown, summed, torn>>

(* The packing page puts the item back as it was, or the list.             *)
ToggleAnswered(c) ==
  /\ kind = "packing" /\ Back(c, "set") /\ Ends(c) /\ Told(c)
  /\ shown' = IF call[c].ok THEN shown
              ELSE Set(call[c].item, Head(call[c].kept[call[c].item]))
  /\ seen' = With(c, Clear(c))
  /\ UNCHANGED <<server, view, summed, torn>>

RemoveAnswered(c) ==
  /\ kind = "packing" /\ Back(c, "remove") /\ Ends(c) /\ Told(c)
  /\ shown' = IF call[c].ok THEN shown ELSE call[c].kept
  /\ seen' = With(c, IF call[c].ok THEN Clear(c) ELSE call[c].crossed = {})
  /\ UNCHANGED <<server, view, summed, torn>>

(* A mistake: the row is read from where only lists are answered.          *)
AppendedUnread(c) ==
  /\ shown' = [shown EXCEPT ![call[c].item] = Append(@, call[c].reply)]
  /\ seen' = With(c, call[c].wrote \notin seen)

(* The answer of a template may have brought the item already.             *)
Appended(c) ==
  /\ shown' = [shown EXCEPT ![call[c].item] = Append(@, call[c].val)]
  /\ seen' = With(c, call[c].wrote \notin seen)

ItemAdded(c) ==
  /\ kind = "packing" /\ Back(c, "add") /\ Ends(c) /\ Told(c)
  /\ IF call[c].ok THEN Appended(c) ELSE UNCHANGED <<shown, seen>>
  /\ UNCHANGED <<server, view, summed, torn>>

TemplateAdded(c) ==
  /\ kind = "packing" /\ Back(c, "template") /\ Ends(c) /\ Told(c)
  /\ IF call[c].ok THEN shown' = call[c].reply /\ seen' = 1 .. call[c].upto
     ELSE UNCHANGED <<shown, seen>>
  /\ UNCHANGED <<server, view, summed, torn>>

(* The budget page patches its list and asks for the totals.               *)
Sums(c) == IF call[c].ok THEN Goes(c, "sum") ELSE Ends(c)

(* A mistake: the totals stay.                                             *)
ExpenseAddedUnsummed(c) ==
  /\ kind = "budget" /\ Back(c, "add") /\ Ends(c) /\ Told(c)
  /\ IF call[c].ok THEN Appended(c) ELSE UNCHANGED <<shown, seen>>
  /\ UNCHANGED <<server, view, summed, torn>>

ExpenseAdded(c) ==
  /\ kind = "budget" /\ Back(c, "add") /\ Sums(c) /\ Told(c)
  /\ IF call[c].ok THEN Appended(c) ELSE UNCHANGED <<shown, seen>>
  /\ UNCHANGED <<server, view, summed, torn>>

AmountUpdated(c) ==
  /\ kind = "budget" /\ Back(c, "set") /\ Sums(c) /\ Told(c)
  /\ IF call[c].ok THEN shown' = Set(call[c].item, call[c].val) /\ seen' = With(c, Clear(c))
     ELSE UNCHANGED <<shown, seen>>
  /\ UNCHANGED <<server, view, summed, torn>>

ExpenseRemoved(c) ==
  /\ kind = "budget" /\ Back(c, "remove") /\ Sums(c) /\ Told(c)
  /\ IF call[c].ok THEN shown' = Drop(call[c].item) /\ seen' = With(c, TRUE)
     ELSE UNCHANGED <<shown, seen>>
  /\ UNCHANGED <<server, view, summed, torn>>

SettingsSaved(c) ==
  /\ kind = "budget" /\ Back(c, "settings") /\ Sums(c) /\ Told(c)
  /\ seen' = With(c, TRUE)
  /\ UNCHANGED <<server, view, shown, summed, torn>>

(* reloadBudget: the totals are those of the answer, however old.          *)
BudgetReloaded(c) ==
  /\ Back(c, "sum") /\ Ends(c)
  /\ summed' = IF call[c].ok THEN call[c].upto ELSE summed
  /\ UNCHANGED <<server, view, shown, seen, mine, torn>>

(* A change of a thread, or of the members, is shown by fetching it.       *)
Fetches(c) == IF call[c].ok THEN Goes(c, "load") ELSE Ends(c)

CommentSent(c) ==
  /\ kind = "comments" /\ (Back(c, "add") \/ Back(c, "set"))
  /\ Fetches(c) /\ Told(c)
  /\ UNCHANGED <<server, page, torn>>

CommentRemoved(c) ==
  /\ kind = "comments" /\ Back(c, "remove") /\ Fetches(c) /\ Told(c)
  /\ UNCHANGED <<server, page, torn>>

RoleChanged(c) ==
  /\ kind = "members" /\ Back(c, "set") /\ Fetches(c) /\ Told(c)
  /\ UNCHANGED <<server, page, torn>>

InviteCreated(c) ==
  /\ kind = "members" /\ Back(c, "add") /\ Fetches(c) /\ Told(c)
  /\ UNCHANGED <<server, page, torn>>

(* Who has left the trip goes to the list of trips.                        *)
MemberRemoved(c) ==
  /\ kind = "members" /\ Back(c, "remove") /\ Told(c)
  /\ IF call[c].ok /\ call[c].by = "leave" THEN Ends(c) /\ view' = "left"
     ELSE Fetches(c) /\ UNCHANGED view
  /\ UNCHANGED <<server, shown, seen, summed, torn>>

(* The share dialog: the request it opens with changes no switch.          *)
ShareOpened(c) ==
  /\ kind = "share" /\ Back(c, "add") /\ call[c].by = "open" /\ Ends(c) /\ Told(c)
  /\ seen' = With(c, Clear(c))
  /\ UNCHANGED <<server, view, shown, summed, torn>>

LinkSwitched(c) ==
  /\ kind = "share" /\ call[c].by = "link" /\ call[c].at = "back" /\ Ends(c) /\ Told(c)
  /\ shown' = IF ~call[c].ok THEN shown
              ELSE [shown EXCEPT ![Link] = IF call[c].op = "add" THEN <<"a">> ELSE <<>>]
  /\ seen' = With(c, Clear(c))
  /\ UNCHANGED <<server, view, summed, torn>>

RecapSwitched(c) ==
  /\ kind = "share" /\ Back(c, "set") /\ Ends(c) /\ Told(c)
  /\ shown' = IF call[c].ok THEN shown ELSE Set(Recap, Flip(call[c].val))
  /\ seen' = With(c, Clear(c))
  /\ UNCHANGED <<server, view, summed, torn>>

Answered(c) ==
  \/ Loaded(c) \/ InvitesLoaded(c)
  \/ ToggleAnswered(c) \/ RemoveAnswered(c) \/ ItemAdded(c) \/ TemplateAdded(c)
  \/ ExpenseAdded(c) \/ AmountUpdated(c) \/ ExpenseRemoved(c) \/ SettingsSaved(c)
  \/ BudgetReloaded(c)
  \/ CommentSent(c) \/ CommentRemoved(c)
  \/ RoleChanged(c) \/ InviteCreated(c) \/ MemberRemoved(c)
  \/ ShareOpened(c) \/ LinkSwitched(c) \/ RecapSwitched(c)

User ==
  \/ Toggle \/ RemoveItem \/ AddItem \/ AddTemplate
  \/ AddExpense \/ UpdateAmount \/ RemoveExpense \/ SaveSettings
  \/ SendComment \/ RemoveComment \/ Reopen
  \/ ChangeRole \/ RemoveMember \/ LeaveTrip \/ CreateInvite \/ Revoke
  \/ HandleToggle \/ RecapToggle \/ ReopenShare

Next ==
  /\ view \notin {"error", "left"}
  /\ \/ User \/ OtherEdit \/ CopyReplaced
     \/ \E c \in Slots : Serve(c) \/ Lost(c) \/ Answered(c)

Spec == Init /\ [][Next]_vars

-----------------------------------------------------------------------------
TypeOK ==
  /\ kind \in Kinds /\ mayEdit \in BOOLEAN
  /\ rows \in [Items -> Values \cup {None, "gone"}]
  /\ writes \in Nat /\ summed \in Nat /\ seen \subseteq Nat /\ mine \subseteq Nat
  /\ view \in {"loading", "ready", "error", "left"}
  /\ shown \in Lists /\ copy \in [shown : Lists, seen : SUBSET Nat]
  /\ call \in [Slots -> Calls]
  /\ torn \in BOOLEAN

AtRest == view = "ready" /\ \A c \in Slots : call[c].at = "idle"

(* A page that has been told of every change shows exactly the rows of the *)
(* server, each once: what it shows before it is saved, what it takes back *)
(* when that fails, and what it patches or fetches come to the same        *)
(* (packing/page.tsx:74, budget/page.tsx:97, ShareModal.tsx:46).           *)
ListExact == AtRest /\ seen = 1 .. writes => shown = Listing

(* Without overlapping or failing calls, a change the user has been told   *)
(* of is on the page afterwards, and in the totals: every handler fetches  *)
(* or patches what it has changed (budget/page.tsx:83,                     *)
(* CommentsSheet.tsx:76, MembersModal.tsx:48).  In the share dialog these  *)
(* are the changes told of since it was opened.                            *)
OwnShown ==
  AtRest /\ ~torn => /\ mine \subseteq seen
                     /\ kind = "budget" => mine \subseteq 1 .. summed

(* Not so: what the share dialog has been told of is shown when it is      *)
(* closed and opened again.  It opens with the old positions, since the    *)
(* page's trip has not followed (page.tsx:530, ShareModal.tsx:25).         *)
ReopenShowsOwn == [][ReopenShare /\ AtRest /\ ~torn => mine \subseteq seen']_vars

(* Not so, since the dialog asks for its link with the request that        *)
(* publishes the trip: opening it publishes nothing (ShareModal.tsx:38).   *)
OpeningOnlyReads ==
  [][\A c \in Slots : Out(c, "add") /\ call[c].by = "open" /\ call'[c].at = "back"
       => rows' = rows]_vars
=============================================================================
