------------------------------ MODULE Notifications ------------------------------
(***************************************************************************)
(* The two places that list a user's notifications, the notifications page  *)
(* (useNotifications, useNotificationSelection) and the Navbar's dropdown,  *)
(* with the REST calls of NotificationService, the pushes of the            *)
(* notification hub and the controller's table behind both.                 *)
(***************************************************************************)
EXTENDS PageShell

CONSTANT MaxNotes   \* bound on the notifications; 1 is stored before the page opens

ASSUME NotesAssumption == MaxNotes \in Nat \ {0}

Notes == 1 .. MaxNotes

\* One request: what it asks, for which ids, how many of them the closure of its
\* click saw unread, and what the server's answer says (None until handled).
NoteAsk(op, ids, seen) == [op |-> op, ids |-> ids, seen |-> seen, answer |-> None]

\* The page asks for the list and the count side by side; the Navbar for the
\* count once it has the list.
NotesInit ==
  \E view \in {"page", "bar"} :
    page = [name |-> "notifications", clicks |-> 0, view |-> view,
            stored |-> [n \in Notes |-> IF n = 1 THEN "unread" ELSE "none"],
            pushes |-> <<>>, made |-> 1,
            list |-> <<>>, unread |-> 0, loading |-> TRUE, busy |-> FALSE,
            selected |-> {}, onlyUnread |-> FALSE, swept |-> {},
            asked |-> <<NoteAsk("list", {}, 0)>> \o
                      (IF view = "page" THEN <<NoteAsk("count", {}, 0)>> ELSE <<>>)]

Row(n, read) == [id |-> n, read |-> read]
Listing == ToSet(page.list)
Shown(ids) == Keep(page.list, {r \in Listing : r.id \in ids})
Unread(rows) == Len(Keep(rows, {r \in ToSet(rows) : ~r.read}))
Unlisted(ids) == Keep(page.list, {r \in Listing : r.id \notin ids})
\* filteredNotifications; the queries on text, type and date pass every row.
Filtered == IF page.onlyUnread THEN Keep(page.list, {r \in Listing : ~r.read}) ELSE page.list
Ids(rows) == {rows[k].id : k \in DOMAIN rows}

-----------------------------------------------------------------------------
\* Pushes.

\* The webhooks: a match start is stored before it is pushed, an end or a failure
\* only pushed.
Notified ==
  /\ page.made < MaxNotes
  /\ \E kind \in {"start", "end", "failed"} :
       LET n == page.made + 1 IN
         Change([made |-> n, pushes |-> Append(page.pushes, [id |-> n, kind |-> kind]),
                 stored |-> IF kind = "start" THEN [page.stored EXCEPT ![n] = "unread"] ELSE page.stored])

\* Two closures answer each match start and end, one under each casing of a
\* method name that the client compares without case; a plain notification
\* registers one function under both and is heard once.
Times(kind) == IF kind = "failed" THEN 1 ELSE 2
\* What the listener of each view adds: the Navbar's ignores starts and ends.
Added(push) ==
  IF page.view = "bar" /\ push.kind # "failed" THEN <<>>
  ELSE [k \in 1 .. Times(push.kind) |-> Row(push.id, FALSE)]
\* The push arrives, at this view's listener unless another view registered last.
Pushed ==
  /\ page.pushes # <<>>
  /\ \E rows \in {<<>>, Added(Head(page.pushes))} :
       Change([pushes |-> Tail(page.pushes), list |-> rows \o page.list,
               unread |-> page.unread + Len(rows)])

-----------------------------------------------------------------------------
\* What the user may do: nothing on the page while it loads.

Usable == page.view = "bar" \/ ~page.loading
\* The buttons of a row, and those above the page's rows: deleting what is selected
\* rests while an earlier deletion is under way.
RowButtons(row) == {"delete"} \cup IF row.read THEN {} ELSE {"mark"}
ActionBar ==
  {"selectAll", "markAll"} \cup
  IF page.selected # {} /\ \A k \in DOMAIN page.asked : page.asked[k].op # "bulk" THEN {"delete"} ELSE {}
Ask(op, ids, seen, fields) ==
  Usable /\ Click(fields ++ [asked |-> Append(page.asked, NoteAsk(op, ids, seen))])

MarkAsRead(n) == (\E r \in Listing : r.id = n /\ "mark" \in RowButtons(r)) /\ Ask("mark", {n}, 0, <<>>)
MarkAllAsRead ==
  /\ page.view = "bar" => page.unread > 0 /\ ~page.busy
  /\ Ask("markAll", {}, 0, [busy |-> TRUE])
DeleteNotification(n) ==
  /\ n \in Ids(page.list)
  /\ Ask("delete", {n}, IF Head(Shown({n})).read THEN 0 ELSE 1, <<>>)
\* Only the Navbar has a button for it.
ClearAll ==
  /\ page.view = "bar" /\ page.list # <<>> /\ ~page.busy
  /\ Ask("clear", {}, 0, [busy |-> TRUE])

ToggleSelection(n) ==
  /\ page.view = "page" /\ Usable /\ n \in Ids(Filtered)
  /\ Click([selected |-> IF n \in page.selected THEN page.selected \ {n} ELSE page.selected \cup {n}])
\* Everything the filter shows, or nothing if as many are selected, whichever.
ToggleSelectAll ==
  /\ page.view = "page" /\ Usable
  /\ Click([selected |-> IF Cardinality(page.selected) = Len(Filtered) THEN {} ELSE Ids(Filtered)])
SetFilter ==
  /\ page.view = "page" /\ Usable
  /\ Click([onlyUnread |-> ~page.onlyUnread])
\* One request for each selected id, awaited together.
DeleteSelected ==
  /\ page.view = "page" /\ "delete" \in ActionBar
  /\ Ask("bulk", page.selected, Unread(Shown(page.selected)), <<>>)

-----------------------------------------------------------------------------
\* The server handles request k: what the table holds afterwards and the answer.

Mark(n) == IF page.stored[n] = "unread" THEN "read" ELSE page.stored[n]
StoredBy(r) ==
  CASE r.op = "mark" -> [n \in Notes |-> IF n \in r.ids THEN Mark(n) ELSE page.stored[n]]
    [] r.op = "markAll" -> [n \in Notes |-> Mark(n)]
    [] r.op \in {"delete", "bulk"} -> [n \in Notes |-> IF n \in r.ids THEN "none" ELSE page.stored[n]]
    [] r.op = "clear" -> [n \in Notes |-> "none"]
    [] OTHER -> page.stored
\* Every stored row, newest first, whatever page and limit say; 404 for an id or a
\* table that is not there.
Held == {n \in Notes : page.stored[n] # "none"}
AnswerTo(r) ==
  CASE r.op = "list" -> [ok |-> TRUE, rows |->
         LET newest == Keep([k \in Notes |-> MaxNotes + 1 - k], Held) IN
           [k \in DOMAIN newest |-> Row(newest[k], page.stored[newest[k]] = "read")]]
    [] r.op = "count" -> [ok |-> TRUE, count |-> Cardinality({n \in Notes : page.stored[n] = "unread"})]
    [] r.op \in {"mark", "delete"} -> [ok |-> r.ids \subseteq Held]
    [] r.op = "clear" -> [ok |-> Held # {}]
    [] r.op = "markAll" -> [ok |-> TRUE, covered |-> Held]
    [] OTHER -> [ok |-> TRUE]

\* The request reaches the server or not, and so does the answer its client.
NoteHandled(k) ==
  LET r == page.asked[k] IN
    /\ r.answer = None
    /\ \E reached, heard \in BOOLEAN :
         LET answer == IF reached /\ heard THEN AnswerTo(r) ELSE [ok |-> FALSE] IN
           Change([stored |-> IF reached THEN StoredBy(r) ELSE page.stored,
                   asked |-> [page.asked EXCEPT ![k] = [r EXCEPT !.answer = answer]]])

-----------------------------------------------------------------------------
\* Answers.

Succeeded(r) == r.answer.ok
AsRead(ids) == [k \in DOMAIN page.list |->
                  IF page.list[k].id \in ids THEN [page.list[k] EXCEPT !.read = TRUE] ELSE page.list[k]]

\* What the answer to r changes on the view, busy and loading included.
Listed(r) ==
  IF Succeeded(r) THEN [list |-> r.answer.rows, loading |-> FALSE] ELSE [loading |-> FALSE]
Counted(r) ==
  IF Succeeded(r) THEN [unread |-> r.answer.count] ELSE [unread |-> 0]
\* Wrong: the row is shown as read whether or not the server was reached.
MarkedAnyway(r) == [list |-> AsRead(r.ids), unread |-> NotNegative(page.unread - 1)]
Marked(r) ==
  IF Succeeded(r) THEN [list |-> AsRead(r.ids), unread |-> NotNegative(page.unread - 1)] ELSE <<>>
MarkedAll(r) ==
  [busy |-> FALSE] ++
  IF Succeeded(r) THEN [list |-> AsRead(Notes), unread |-> 0, swept |-> page.swept \cup (Ids(page.list) \ r.answer.covered)]
  ELSE <<>>
Deleted(r) ==
  IF Succeeded(r) THEN [list |-> Unlisted(r.ids), unread |-> NotNegative(page.unread - r.seen)] ELSE <<>>
NoteCleared(r) ==
  [busy |-> FALSE] ++ IF Succeeded(r) THEN [list |-> <<>>, unread |-> 0] ELSE <<>>
\* deleteNotification reports a failure as false and throws nothing, so that the
\* rows go whatever became of them.
DeletedSelected(r) ==
  [selected |-> {}, list |-> Unlisted(r.ids), unread |-> NotNegative(page.unread - r.seen)]

NoteShown(r) ==
  CASE r.op = "list" -> Listed(r)
    [] r.op = "count" -> Counted(r)
    [] r.op = "mark" -> Marked(r)
    [] r.op = "markAll" -> MarkedAll(r)
    [] r.op = "delete" -> Deleted(r)
    [] r.op = "bulk" -> DeletedSelected(r)
    [] r.op = "clear" -> NoteCleared(r)

NoteAnswered(k) ==
  LET r == page.asked[k]
      more == IF r.op = "list" /\ page.view = "bar" /\ Succeeded(r) THEN <<NoteAsk("count", {}, 0)>> ELSE <<>> IN
    /\ r.answer # None
    /\ Change(NoteShown(r) ++ [asked |-> RemoveAt(page.asked, k) \o more])

NotesNext ==
  /\ On("notifications")
  /\ \/ Notified \/ Pushed
     \/ MarkAllAsRead \/ ClearAll \/ ToggleSelectAll \/ SetFilter \/ DeleteSelected
     \/ \E n \in Notes : MarkAsRead(n) \/ DeleteNotification(n) \/ ToggleSelection(n)
     \/ \E k \in DOMAIN page.asked : NoteHandled(k) \/ NoteAnswered(k)

-----------------------------------------------------------------------------
\* A row that a view shows as read is read, deleted or was never stored at the
\* server, however requests, answers and pushes cross: only a row pushed while a
\* mark-all was under way is swept along (useNotifications.ts:182 marks the rows
\* of the answer's time, the server those of the request's).
ReadIsRead ==
  On("notifications") =>
    \A k \in DOMAIN page.list :
      LET r == page.list[k] IN
        r.read => page.stored[r.id] # "unread" \/ r.id \in page.swept
=============================================================================
