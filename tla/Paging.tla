------------------------------- MODULE Paging -------------------------------
(***************************************************************************)
(* The operations of queries.c that collect a list page by page: the       *)
(* history of a dialog, a search, the dialogs, the channels and the members *)
(* of a channel.  A call asks for limit items after the first offset ones;  *)
(* the server cuts every answer to PageSize items, and between two answers  *)
(* items may be added to its list and deleted from it.                      *)
(***************************************************************************)
EXTENDS Naturals, Integers, Sequences, SequencesExt, FiniteSets

CONSTANTS
  Kinds,     \* the kinds of list that are asked for
  Limits,    \* values of limit
  Offsets,   \* values of offset
  Lengths,   \* how long the server's list is at first
  PageSize,  \* the most items the server puts in one answer
  MaxNew,    \* bound: items added to the list during one call
  Deletions  \* whether an item may be deleted during the call

ASSUME PagingAssumption ==
  /\ Kinds \subseteq {"history", "channel history", "local", "search",
                      "global search", "dialogs", "channels", "members"}
  /\ Limits \subseteq Nat \ {0} /\ Offsets \subseteq Nat
  /\ Lengths \subseteq Nat /\ PageSize \in Nat \ {0} /\ MaxNew \in Nat
  /\ Deletions \in BOOLEAN

VARIABLES
  kind, limit, offset,  \* the arguments of the call
  list,                 \* the server's list, newest first; greater is newer
  E,                    \* the extra of the query: what is still wanted
  got,                  \* ML, PL or UL: what has come
  first,                \* history: the list of the first answer
  phase                 \* "asking", "done" or "failed"

vars == <<kind, limit, offset, list, E, got, first, phase>>
call == <<kind, limit, offset>>

Least(a, b) == IF a < b THEN a ELSE b
Most(a, b) == IF a > b THEN a ELSE b
\* The part of a list that starts after the first o items, at most n long.
Part(s, o, n) == SubSeq(s, o + 1, Least(Len(s), o + n))

(***************************************************************************)
(* The server.  An offset counts from the newest item, or from the first   *)
(* one older than max_id; 0 is no max_id.                                  *)
(***************************************************************************)
NotOlder(id) == {i \in DOMAIN list : id # 0 /\ list[i] >= id}
Older(id) == SubSeq(list, Cardinality(NotOlder(id)) + 1, Len(list))
Answered(max_id, o, n) == Part(Older(max_id), o, Least(n, PageSize))

\* The answer holds the whole list, and so is not a slice of it.
Whole(page) == Len(page) = Len(list)

\* An item of the list of the first answer is not there any more.
Deleted == \E i \in DOMAIN first : ~Contains(list, first[i])

(***************************************************************************)
(* The client.                                                             *)
(***************************************************************************)
Receive(page, more, next) ==
  /\ got' = got \o page
  /\ E' = IF more THEN next ELSE E
  /\ phase' = IF more THEN "asking" ELSE "done"

\* How many messages are still to come: not more than the server says there
\* are.
\* mutants: it asks for more; it leaves the last one out
ClipNever(left, skipped) == left
ClipShort(left, skipped) ==
  IF left + skipped >= Len(list) THEN Most(Len(list) - skipped - 1, 0)
  ELSE left

Clip(left, skipped) ==
  IF left + skipped >= Len(list) THEN Most(Len(list) - skipped, 0) ELSE left

\* E->max_id: the last message there is.  Of no messages it is ML[-1], which
\* the type invariant says is never read.
Oldest(ml) == IF ml = <<>> THEN -1 ELSE Last(ml)

\* The request for a part of a history (_tgl_do_get_history).
\* mutant: it does not send the max_id
PageUnanchored == Answered(0, E.offset, E.limit)

HistoryPage == Answered(E.max_id, E.offset, E.limit)

\* get_history_on_answer: the whole history ends the call, and so does every
\* answer about a channel; otherwise the next page starts after the last
\* message.
TakeHistory ==
  LET left == Clip(E.limit - Len(HistoryPage), E.offset + Len(HistoryPage))
  IN Receive(HistoryPage,
       left > 0 /\ kind = "history" /\ ~Whole(HistoryPage),
       [offset |-> 0, limit |-> left, max_id |-> Oldest(got')])

\* A search in all dialogs is not sent the max_id (_tgl_do_msg_search).
SearchPage ==
  Answered(IF kind = "search" THEN E.max_id ELSE 0, E.offset, E.limit)

\* msg_search_on_answer
TakeFound ==
  LET left == Clip(E.limit - Len(SearchPage), E.offset + Len(SearchPage))
  IN Receive(SearchPage, left > 0 /\ ~Whole(SearchPage),
             [offset |-> 0, limit |-> left, max_id |-> Oldest(got')])

\* Dialogs are asked for after offset_peer, channels from an offset.  The
\* offset of the dialogs goes in the place of the id of a message, and what the
\* server makes of it with no peer is not known: Init has none, and neither for
\* channels. (_tgl_do_get_dialog_list)
DialogsPage ==
  IF kind = "channels" THEN Answered(0, E.offset, limit - Len(got))
  ELSE Answered(E.max_id, 0, limit - Len(got))

\* get_dialogs_on_answer
TakeDialogs ==
  LET page == DialogsPage
  IN Receive(page,
       /\ page # <<>> /\ ~Whole(page)
       /\ Len(got') < limit /\ Len(got') < Len(list),
       [E EXCEPT !.offset = @ + Len(page), !.max_id = Oldest(got')])

\* Every request asks for the full limit (_tgl_do_channel_get_members).
MembersPage == Answered(0, E.offset, E.limit)

\* channels_get_members_on_answer
TakeMembers ==
  Receive(MembersPage, MembersPage # <<>> /\ Len(got') # limit,
          [E EXCEPT !.offset = @ + Len(MembersPage)])

\* tgl_do_get_local_history walks the client's own list, and stops limit
\* messages from its front: with an offset past that it gives a number below
\* 0, of which nothing is printed.  A list of no messages is an error.
TakeLocal ==
  \/ /\ list # <<>>
     /\ Receive(Part(list, offset, Most(limit, 1) - offset), FALSE, E)
  \/ /\ list = <<>>
     /\ phase' = "failed" /\ UNCHANGED <<E, got>>

Take ==
  CASE kind \in {"history", "channel history"} -> TakeHistory
    [] kind \in {"search", "global search"} -> TakeFound
    [] kind \in {"dialogs", "channels"} -> TakeDialogs
    [] kind = "members" -> TakeMembers
    [] kind = "local" -> TakeLocal

Init ==
  /\ kind \in Kinds /\ limit \in Limits
  /\ offset \in IF kind \in {"dialogs", "channels"} THEN {0} ELSE Offsets
  /\ \E n \in Lengths : list = Reverse([i \in 1..n |-> i])
  /\ E = [offset |-> offset, limit |-> limit, max_id |-> 0]
  /\ got = <<>> /\ first = <<>> /\ phase = "asking"

Answer ==
  /\ phase = "asking"
  /\ Take
  /\ first' = IF got = <<>> THEN list ELSE first
  /\ UNCHANGED <<call, list>>

\* get_history_on_error, get_dialogs_on_error and their like give up what has
\* come.
Error ==
  /\ phase = "asking" /\ kind # "local"
  /\ phase' = "failed" /\ got' = <<>>
  /\ UNCHANGED <<call, list, E, first>>

\* Another item at the front of the list.
Arrive ==
  /\ phase = "asking" /\ got # <<>>
  /\ ~Deleted /\ Len(list) < Len(first) + MaxNew
  /\ list' = <<Len(list) + 1>> \o list
  /\ UNCHANGED <<call, E, got, first, phase>>

Delete ==
  /\ phase = "asking" /\ got # <<>>
  /\ Deletions /\ ~Deleted
  /\ \E i \in DOMAIN list :
       /\ list[i] <= Len(first)
       /\ list' = RemoveAt(list, i)
  /\ UNCHANGED <<call, E, got, first, phase>>

Next == Answer \/ Error \/ Arrive \/ Delete

\* Every request is answered or fails (tgl/queries.c sends it again until it
\* is).
Fairness == WF_vars(Answer)

Spec == Init /\ [][Next]_vars /\ Fairness

-----------------------------------------------------------------------------
TypeOK ==
  /\ kind \in Kinds /\ limit \in Limits /\ offset \in Offsets \cup {0}
  /\ list \in Seq(Nat) /\ got \in Seq(Nat) /\ first \in Seq(Nat)
  /\ E \in [offset : Nat, limit : Nat \ {0}, max_id : Nat]
  /\ phase \in {"asking", "done", "failed"}

Window == Part(first, offset, limit)
Moved == list # first

\* What has come is the front of what the caller asked for, in its order and
\* without a hole, however the pages were cut; items that arrive during the
\* call do not move the pages of a history, a search or the dialogs, which
\* are anchored at the last item that came (get_history_on_answer,
\* msg_search_on_answer, get_dialogs_on_answer).  Whatever is added or deleted
\* meanwhile, those bring no item twice, and not more than was asked for.
PagesJoin ==
  /\ kind \in {"history", "channel history", "search", "dialogs"} =>
       /\ \A i, j \in DOMAIN got : i < j => got[i] > got[j]
       /\ Len(got) <= limit
  /\ kind \in {"history", "channel history", "search", "dialogs", "local"}
     /\ ~Deleted => IsPrefix(got, Window)
  /\ kind = "channels" /\ ~Moved => IsPrefix(got, Window)
  /\ kind = "members" /\ ~Moved =>
       IsPrefix(got, Part(first, offset, Len(first)))

\* When the call ends, it has everything that was asked for and there: the
\* counting of limit, offset and count over the pages neither stops early nor
\* leaves the last page out.  (One page is all that a channel's history, and
\* the front of the list all that the local history, ever gives.)
AllThere ==
  phase = "done" =>
    /\ kind \in {"history", "search", "dialogs"} /\ ~Deleted => got = Window
    /\ kind = "channels" /\ ~Moved => got = Window
    /\ kind = "members" /\ ~Moved => IsPrefix(Window, got)
    /\ kind = "local" /\ offset = 0 => got = Window

\* The call calls back.  Except that an item deleted behind a page of a
\* history or a search leaves the count short: the rest is asked for again for
\* ever, and every answer is empty.
Ends ==
  <>(\/ phase # "asking"
     \/ Deleted /\ kind \in {"history", "search", "global search"})

=============================================================================
