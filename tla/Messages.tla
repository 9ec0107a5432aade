------------------------------ MODULE Messages ------------------------------
(***************************************************************************)
(* The message store of the client (structures.c, binlog.c) and the        *)
(* requests that change it (queries.c, updates.c): a message is sent under *)
(* a random id, and takes its permanent id from the answer, from a push or *)
(* from a difference, whichever comes first.  One conversation; the events *)
(* of the account are numbered 1, 2, ... after the client's first pts, and  *)
(* the event that brings a message gives it its id.                        *)
(***************************************************************************)
EXTENDS Integers, SequencesExt

CONSTANTS
  RandomId,     \* the random ids of this client's messages (64-bit, signed)
  MaxId         \* bound: events in the account

Id == 1 .. MaxId

ASSUME MessagesAssumption ==
  /\ MaxId \in Nat /\ RandomId \subseteq Int \ (Id \cup {0})

\* A message is named after what it was allocated for: the random id of a
\* message to send, or the id of a message that was fetched.  The same numbers
\* are the values of permanent_id.
Message == RandomId \cup Id
NoMessage == 0

VARIABLES
  tls,       \* the client: its store, pts and lock
  log,       \* the account's events, as the server has them
  requests,  \* requests of the client that the server has not seen
  answers,   \* answers on their way
  loaded,    \* history: the ids that came with the history
  announced  \* history: how often each id was given to msg_receive

vars == <<tls, log, requests, answers, loaded, announced>>

Request ==
  [kind : {"send", "history", "delete"}, of : Message \cup {NoMessage}]
Answer == [kind : {"sent", "updates", "error", "history", "delete",
                   "difference"},
           of : Message \cup {NoMessage}, at : Id \cup {0}, count : {0, 1},
           news : SUBSET Id]
Event == [kind : {"message", "deletion"}, from : RandomId \cup {NoMessage},
          gone : BOOLEAN]
-----------------------------------------------------------------------------
(* The indexes.                                                            *)

\* live       allocated messages
\* id         permanent_id
\* pending    those with TGLMF_PENDING
\* tree       message_tree, by permanent_id
\* unsent     message_unsent_tree, by permanent_id
\* random     random_id_tree
\* temp, use  temp_id_tree and the list of all messages
\* last       the list of the conversation: pairs of the id by which the
\*            message was placed and the message
\* aborted    an assertion of the indexes has failed
\* again      bl_do_edit_message was to create a message that was there already
EmptyStore ==
  [live |-> {}, id |-> [m \in Message |-> m], pending |-> {},
   tree |-> [k \in Message |-> NoMessage],
   unsent |-> [k \in Message |-> NoMessage],
   random |-> [r \in RandomId |-> NoMessage],
   temp |-> {}, use |-> {}, last |-> {},
   pts |-> 0, locked |-> FALSE, aborted |-> FALSE, again |-> FALSE]

\* tgl_message_get with a permanent id and with a random id
ById(c, k) == c.tree[k]
ByRandom(c, r) ==
  IF c.random[r] = NoMessage THEN NoMessage ELSE c.tree[c.id[c.random[r]]]

\* Is there a message in the conversation with one of the ids K?
Placed(c, K) == \E l \in c.last : c.id[l[2]] \in K

Unplace(c, M) == {l \in c.last : l[2] \notin M}

\* bl_do_edit_message with CREATE, for a message to send: tglm_message_alloc,
\* tglm_message_insert_unsent, tglm_message_insert,
\* tgls_message_change_random_id, tgls_message_change_temp_id.
CreatePending(c, r) ==
  [c EXCEPT !.live = @ \cup {r}, !.id[r] = r, !.pending = @ \cup {r},
            !.tree[r] = r, !.unsent[r] = r, !.random[r] = r,
            !.temp = @ \cup {r}, !.use = @ \cup {r},
            !.last = @ \cup {<<r, r>>},
            !.aborted = @ \/ c.tree[r] # NoMessage \/ Placed(c, {r})]

\* tglf_fetch_alloc_message for the messages with the ids N, one after the
\* other: those that the tree does not have are allocated, placed and indexed.
FetchAlloc(c, N) ==
  LET new == {n \in N : ById(c, n) = NoMessage}
  IN [c EXCEPT !.live = @ \cup new,
               !.id = [m \in Message |-> IF m \in new THEN m ELSE @[m]],
               !.tree = [k \in Message |-> IF k \in new THEN k ELSE @[k]],
               !.temp = @ \cup new, !.use = @ \cup new,
               !.last = @ \cup {<<n, n>> : n \in new},
               !.aborted = @ \/ Placed(c, new)]

\* bl_do_set_msg_id for the pending messages R, one after the other, with the
\* new ids at: each leaves the unsent tree, the tree and the list, and goes
\* back under its new id, unless a message has that id: then it is freed.
SetMsgId(c, R, at) ==
  LET freed == {m \in R : ById(c, at[m]) # NoMessage}
      moved == R \ freed
      old == {c.id[m] : m \in R}
      To(k) == {m \in moved : at[m] = k}
  IN [c EXCEPT
        !.live = @ \ freed,
        !.pending = @ \ R,
        !.id = [m \in Message |-> IF m \in moved THEN at[m]
                                  ELSE IF m \in freed THEN m ELSE @[m]],
        !.unsent = [k \in Message |-> IF k \in old THEN NoMessage ELSE @[k]],
        !.tree = [k \in Message |->
                    IF To(k) # {} THEN CHOOSE m \in To(k) : TRUE
                    ELSE IF k \in old THEN NoMessage ELSE @[k]],
        !.random = [r \in RandomId |->
                      IF @[r] \in freed THEN NoMessage ELSE @[r]],
        !.temp = @ \ freed, !.use = @ \ freed,
        !.last = Unplace(c, R) \cup {<<at[m], m>> : m \in moved},
        !.aborted = @ \/ \E l \in Unplace(c, R), m \in moved :
                           c.id[l[2]] = at[m]]

\* mutant: a freed message stays in the list of all messages
DeleteNoUse(c, m) ==
  IF m = NoMessage THEN c
  ELSE [c EXCEPT
          !.live = @ \ {m}, !.pending = @ \ {m}, !.id[m] = m,
          !.unsent[c.id[m]] = IF m \in c.pending THEN NoMessage ELSE @,
          !.tree[c.id[m]] = NoMessage,
          !.random = [r \in RandomId |-> IF @[r] = m THEN NoMessage ELSE @[r]],
          !.temp = @ \ {m}, !.last = Unplace(c, {m})]

\* bl_do_message_delete
Delete(c, m) ==
  IF m = NoMessage THEN c
  ELSE [c EXCEPT
          !.live = @ \ {m}, !.pending = @ \ {m}, !.id[m] = m,
          !.unsent[c.id[m]] = IF m \in c.pending THEN NoMessage ELSE @,
          !.tree[c.id[m]] = NoMessage,
          !.random = [r \in RandomId |-> IF @[r] = m THEN NoMessage ELSE @[r]],
          !.temp = @ \ {m}, !.use = @ \ {m}, !.last = Unplace(c, {m})]
-----------------------------------------------------------------------------
(* The handlers, as functions of the client c; what they announce follows. *)

\* mutant: the hole is seen and nothing is asked for
GetDifferenceNever(c) == c

\* tgl_do_get_difference
GetDifference(c) == [c EXCEPT !.locked = TRUE]

\* bl_do_set_pts
SetPts(c, n) == IF c.locked \/ n <= c.pts THEN c ELSE [c EXCEPT !.pts = n]

\* tgl_check_pts_diff for an event that ends at n and takes count numbers
Check(c, n, count) ==
  CASE n < c.pts + count -> "duplicate"
    [] n > c.pts + count -> "hole"
    [] n = c.pts + count -> IF c.locked THEN "busy" ELSE "next"

\* tglu_work_update of updateNewMessage: it announces a new message only.
WorkNewMessage(c, n) ==
  CASE c.locked \/ Check(c, n, 1) = "duplicate" -> c
    [] ~c.locked /\ Check(c, n, 1) = "hole" -> GetDifference(c)
    [] ~c.locked /\ Check(c, n, 1) = "next" -> SetPts(FetchAlloc(c, {n}), n)

\* tglu_work_update of updateDeleteMessages
WorkDeletion(c, n) ==
  CASE c.locked \/ Check(c, n, 1) = "duplicate" -> c
    [] ~c.locked /\ Check(c, n, 1) = "hole" -> GetDifference(c)
    [] ~c.locked /\ Check(c, n, 1) = "next" -> SetPts(c, n)

\* tglu_work_update_short_message: bl_do_edit_message asserts that a message
\* with a to_id is being created, so one that is there already ends the
\* program.
WorkShortMessage(c, n) ==
  CASE c.locked \/ Check(c, n, 1) = "duplicate" -> c
    [] ~c.locked /\ Check(c, n, 1) = "hole" -> GetDifference(c)
    [] ~c.locked /\ Check(c, n, 1) = "next" ->
         IF ById(c, n) # NoMessage THEN [c EXCEPT !.again = TRUE]
         ELSE SetPts(FetchAlloc(c, {n}), n)

\* mutant: the message keeps its random id
WorkMessageIdKept(c, r, n) ==
  LET m == ByRandom(c, r)
  IN IF c.locked \/ m = NoMessage \/ m \notin c.pending THEN c
     ELSE [c EXCEPT !.pending = @ \ {m}, !.unsent[r] = NoMessage]

\* tglu_work_update of updateMessageID
WorkMessageId(c, r, n) ==
  LET m == ByRandom(c, r)
  IN IF c.locked \/ m = NoMessage \/ m \notin c.pending THEN c
     ELSE SetMsgId(c, {m}, [x \in {m} |-> n])

\* tglu_work_update_short_sent_message for the message m, if it is still there
\* under its random id.  When another message has the id, m was freed and is
\* read all the same: the flags are garbage and bl_do_edit_message asserts that
\* they have CREATED, or they are still there (intact) and it goes on.
WorkShortSent(c, m, n, intact) ==
  CASE c.locked \/ Check(c, n, 1) = "duplicate" -> c
    [] ~c.locked /\ Check(c, n, 1) = "hole" -> GetDifference(c)
    [] ~c.locked /\ Check(c, n, 1) = "next" ->
         IF m = NoMessage THEN c
         ELSE LET d == SetMsgId(c, {m}, [x \in {m} |-> n])
              IN IF m \in d.live \/ intact THEN SetPts(d, n)
                 ELSE [d EXCEPT !.aborted = TRUE]

\* msg_send_on_answer: the message, if it still has the random id r
Extra(c, r) ==
  LET m == ByRandom(c, r)
  IN IF m # NoMessage /\ c.id[m] = r THEN m ELSE NoMessage

\* msg_send_on_answer with a container: updateMessageID, then updateNewMessage
WorkUpdates(c, r, n) == WorkNewMessage(WorkMessageId(c, r, n), n)

\* delete_msg_on_answer: the message is looked up by the id it had when the
\* request was made.
WorkDeleted(c, k, n, count) ==
  LET d == Delete(c, ById(c, k))
  IN CASE Check(d, n, count) = "next" -> SetPts(d, n)
       [] Check(d, n, count) = "hole" -> GetDifference(d)
       [] Check(d, n, count) \in {"duplicate", "busy"} -> d

\* The events of E that brought a message which is still pending here.
Unsettled(c, E) ==
  {n \in E : /\ log[n].from # NoMessage
             /\ ByRandom(c, log[n].from) \in c.pending}

\* mutants: the ids of this client's messages are passed over; pts is not set
WorkDifferenceNoIds(c, N, upto) ==
  SetPts(FetchAlloc([c EXCEPT !.locked = FALSE], N), upto)

WorkDifferenceNoPts(c, N, upto) ==
  FetchAlloc([c EXCEPT !.locked = FALSE], N)

\* get_difference_on_answer: the lock goes, the messages are fetched, the
\* updates with the ids of this client's messages follow, then pts.
WorkDifference(c, N, upto) ==
  LET d == FetchAlloc([c EXCEPT !.locked = FALSE], N)
      ids == Unsettled(d, (c.pts + 1) .. upto)
      Of(n) == ByRandom(d, log[n].from)
      R == {Of(n) : n \in ids}
  IN SetPts(SetMsgId(d, R, [m \in R |-> CHOOSE n \in ids : Of(n) = m]), upto)
-----------------------------------------------------------------------------
Init ==
  /\ tls = EmptyStore
  /\ log = <<>> /\ requests = {} /\ answers = <<>>
  /\ loaded = {}
  /\ announced = [n \in Id |-> 0]

Running == ~tls.aborted /\ ~tls.again

(***************************************************************************)
(* The server.                                                             *)
(***************************************************************************)
Reply(k, of, at, count, news) ==
  answers' = Append(answers, [kind |-> k, of |-> of, at |-> at,
                              count |-> count, news |-> news])

Stored == {n \in 1 .. Len(log) : log[n].kind = "message" /\ ~log[n].gone}

\* Somebody writes to the account, or another device of the user's deletes.
Elsewhere ==
  /\ Len(log) < MaxId
  /\ \/ log' = Append(log, [kind |-> "message", from |-> NoMessage,
                           gone |-> FALSE])
     \/ \E n \in Stored :
          log' = Append([log EXCEPT ![n].gone = TRUE],
                        [kind |-> "deletion", from |-> NoMessage,
                         gone |-> FALSE])
  /\ UNCHANGED <<tls, requests, answers, loaded, announced>>

Accept(r) ==
  /\ Len(log) < MaxId
  /\ [kind |-> "send", of |-> r] \in requests
  /\ log' = Append(log, [kind |-> "message", from |-> r, gone |-> FALSE])
  /\ \E k \in {"sent", "updates"} : Reply(k, r, Len(log) + 1, 1, {})
  /\ requests' = requests \ {[kind |-> "send", of |-> r]}
  /\ UNCHANGED <<tls, loaded, announced>>

Refuse(r) ==
  /\ [kind |-> "send", of |-> r] \in requests
  /\ Reply("error", r, 0, 0, {})
  /\ requests' = requests \ {[kind |-> "send", of |-> r]}
  /\ UNCHANGED <<tls, log, loaded, announced>>

\* The newest messages.
AnswerHistory ==
  /\ \E q \in requests, n \in 1 .. MaxId :
       /\ q.kind = "history"
       /\ Reply("history", NoMessage, 0, 0, {k \in Stored : k >= n})
       /\ requests' = requests \ {q}
  /\ UNCHANGED <<tls, log, loaded, announced>>

\* A deletion is an event; what is not there is not deleted.
AnswerDelete ==
  /\ \E q \in requests :
       /\ q.kind = "delete"
       /\ requests' = requests \ {q}
       /\ IF q.of \in Stored
          THEN /\ Len(log) < MaxId
               /\ log' = Append([log EXCEPT ![q.of].gone = TRUE],
                                [kind |-> "deletion", from |-> NoMessage,
                                 gone |-> FALSE])
               /\ Reply("delete", q.of, Len(log) + 1, 1, {})
          ELSE log' = log /\ Reply("delete", q.of, Len(log), 0, {})
  /\ UNCHANGED <<tls, loaded, announced>>

\* The request for the difference is on its way while the client is locked.
AnswerDifference ==
  /\ tls.locked
  /\ \A i \in DOMAIN answers : answers[i].kind # "difference"
  /\ Reply("difference", NoMessage, Len(log), 0, {n \in Stored : n > tls.pts})
  /\ UNCHANGED <<tls, log, requests, loaded, announced>>

Server == Elsewhere \/ (\E r \in RandomId : Accept(r) \/ Refuse(r))
          \/ AnswerHistory \/ AnswerDelete \/ AnswerDifference

(***************************************************************************)
(* The client.                                                             *)
(***************************************************************************)
\* The ids in N are given to msg_receive (bl_do_msg_update).
Announce(N) ==
  announced' =
    [n \in Id |-> IF n \in N THEN announced[n] + 1 ELSE announced[n]]

\* tgl_do_send_message with a new random id
SendMessage ==
  /\ Running
  /\ \E r \in RandomId :
       /\ r \notin tls.live
       /\ \A n \in 1 .. Len(log) : log[n].from # r
       /\ \A q \in requests : q.of # r
       /\ \A i \in DOMAIN answers : answers[i].of # r
       /\ tls' = CreatePending(tls, r)
       /\ requests' = requests \cup {[kind |-> "send", of |-> r]}
  /\ UNCHANGED <<log, answers, loaded, announced>>

\* One request for a history and one for a deletion at a time.
Ask(k, of) ==
  /\ Running
  /\ \A q \in requests : q.kind # k
  /\ \A i \in DOMAIN answers : answers[i].kind # k
  /\ requests' = requests \cup {[kind |-> k, of |-> of]}
  /\ UNCHANGED <<tls, log, answers, loaded, announced>>

\* tgl_do_get_history
GetHistory == Ask("history", NoMessage)

\* tgl_do_delete_msg: the request names the message by the id it has now
DeleteMessage == \E m \in tls.live : Ask("delete", tls.id[m])

\* tglu_work_any_updates_buf with event n: an update of its own, a short
\* message or a deletion, whose handler is empty.  Pushes are lost, repeated
\* and late, in any order, and may come after a history with the message.
PushMessage ==
  /\ Running
  /\ \E n \in 1 .. Len(log) :
       /\ log[n].kind = "message" /\ log[n].from = NoMessage
       /\ \/ /\ tls' = WorkNewMessage(tls, n)
             /\ Announce({k \in {n} : ById(tls, k) = NoMessage
                                     /\ ById(tls', k) # NoMessage})
          \/ /\ tls' = WorkShortMessage(tls, n)
             /\ Announce({k \in {n} : tls'.pts # tls.pts})
  /\ UNCHANGED <<log, requests, answers, loaded>>

PushDeletion ==
  /\ Running
  /\ \E n \in 1 .. Len(log) : log[n].kind = "deletion"
                              /\ tls' = WorkDeletion(tls, n)
  /\ UNCHANGED <<log, requests, answers, loaded, announced>>

\* The next answer reaches the client.
First == Head(answers)
Receive(k) ==
  /\ Running
  /\ answers # <<>> /\ First.kind = k
  /\ answers' = Tail(answers)
  /\ UNCHANGED <<log, requests>>

\* msg_send_on_answer with updateShortSentMessage
HandleSent ==
  \E intact \in BOOLEAN :
    /\ Receive("sent")
    /\ tls' = WorkShortSent(tls, Extra(tls, First.of), First.at,
                            intact)
    /\ Announce({n \in {First.at} : tls'.pts # tls.pts})
    /\ UNCHANGED loaded

\* msg_send_on_answer with updateMessageID and updateNewMessage
HandleUpdates ==
  LET r == First.of
      n == First.at
  IN /\ Receive("updates")
     /\ tls' = WorkUpdates(tls, r, n)
     /\ Announce({k \in {n} : \/ WorkMessageId(tls, r, n) # tls
                             \/ /\ ById(tls, n) = NoMessage
                                /\ ById(tls', n) # NoMessage})
     /\ UNCHANGED loaded

\* msg_send_on_error
HandleError ==
  /\ Receive("error")
  /\ tls' = Delete(tls, ByRandom(tls, First.of))
  /\ UNCHANGED <<loaded, announced>>

\* get_history_on_answer: what it brings is not announced
HandleHistory ==
  /\ Receive("history")
  /\ tls' = FetchAlloc(tls, First.news)
  /\ loaded' = loaded \cup First.news
  /\ UNCHANGED announced

\* delete_msg_on_answer
HandleDeleted ==
  /\ Receive("delete")
  /\ tls' = WorkDeleted(tls, First.of, First.at, First.count)
  /\ UNCHANGED <<loaded, announced>>

\* get_difference_on_answer: a message that gets its id from the difference is
\* announced with it, and again with the new messages.
HandleDifference ==
  LET N == First.news
      late == Unsettled(tls, (tls.pts + 1) .. First.at)
  IN /\ Receive("difference")
     /\ tls' = WorkDifference(tls, N, First.at)
     /\ announced' =
          [n \in Id |-> announced[n] + (IF n \in late THEN 1 ELSE 0)
                                      + (IF n \in N THEN 1 ELSE 0)]
     /\ UNCHANGED loaded

Handle == HandleSent \/ HandleUpdates \/ HandleError \/ HandleHistory
          \/ HandleDeleted \/ HandleDifference

Next == SendMessage \/ GetHistory \/ DeleteMessage \/ PushMessage
        \/ PushDeletion \/ Handle \/ Server

Spec == Init /\ [][Next]_vars

\* The server answers what it got, and the client takes what comes.
Fairness == /\ \A r \in RandomId : WF_vars(Accept(r) \/ Refuse(r))
            /\ WF_vars(AnswerDifference) /\ WF_vars(Handle)

LiveSpec == Spec /\ Fairness
-----------------------------------------------------------------------------
\* Types.
TypeOK ==
  /\ tls \in [live : SUBSET Message, id : [Message -> Message],
              pending : SUBSET RandomId, tree : [Message -> Message \cup {0}],
              unsent : [Message -> Message \cup {0}],
              random : [RandomId -> Message \cup {0}], temp : SUBSET Message,
              use : SUBSET Message, last : SUBSET (Message \X Message),
              pts : Id \cup {0}, locked : BOOLEAN, aborted : BOOLEAN,
              again : BOOLEAN]
  /\ log \in Seq(Event) /\ Len(log) <= MaxId
  /\ requests \subseteq Request /\ answers \in Seq(Answer)
  /\ loaded \subseteq Id /\ announced \in [Id -> Nat]

\* The two trees by permanent id, the tree by random id, the tree by temporary
\* id, the list of all messages and the list of the conversation hold the same
\* messages, each under the id it has now, and none that was freed, whatever
\* order pushes, ids, deletions, histories and differences came in.  Of the
\* assertions of the store only the one of bl_do_edit_message fails, and only
\* at a short push of the very next event, whose message a history brought.
IndexesAgree ==
  /\ ~tls.aborted
  /\ tls.again => \E n \in loaded : n = tls.pts + 1 /\ ById(tls, n) # NoMessage
  /\ \A m \in tls.live : tls.tree[tls.id[m]] = m
  /\ \A k \in Message : tls.tree[k] # NoMessage =>
       tls.tree[k] \in tls.live /\ tls.id[tls.tree[k]] = k
  /\ \A m \in tls.pending : tls.unsent[tls.id[m]] = m /\ tls.random[m] = m
  /\ \A k \in Message : tls.unsent[k] # NoMessage =>
       tls.unsent[k] \in tls.pending /\ tls.id[tls.unsent[k]] = k
  /\ \A r \in RandomId : tls.random[r] \in {NoMessage} \cup (tls.live \cap {r})
  /\ tls.pending \subseteq tls.live
  /\ tls.temp = tls.live /\ tls.use = tls.live
  /\ tls.last = {<<tls.id[m], m>> : m \in tls.live}

\* A message that was sent has either its random id, and is pending, or the id
\* of the event that the server made of that very message.
GetsOwnId ==
  \A r \in RandomId \cap tls.live :
    IF r \in tls.pending THEN tls.id[r] = r
    ELSE tls.id[r] \in DOMAIN log /\ log[tls.id[r]].from = r

\* A client that has an event has no pending copy of the message the event is
\* about: pts never passes a message of its own whose id it still waits for.
SentIsSettled ==
  \A n \in DOMAIN log : n <= tls.pts => log[n].from \notin tls.pending

\* A message of somebody else is given to the program once: not again when the
\* push is repeated or a difference brings it too; and pts does not pass it
\* before, unless a history brought it or it was deleted.
AnnouncedOnce ==
  \A n \in DOMAIN log : log[n].kind = "message" /\ log[n].from = NoMessage =>
    /\ announced[n] <= 1
    /\ n <= tls.pts /\ n \notin loaded /\ ~log[n].gone => announced[n] = 1

\* A message that was sent does not stay pending, even if its answer is dropped
\* because a difference is under way.
Settles ==
  \A r \in RandomId : r \in tls.pending ~> r \notin tls.pending \/ ~Running
=============================================================================
