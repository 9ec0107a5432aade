----------------------------- MODULE SecretChat -----------------------------
(***************************************************************************)
(* A secret chat between two clients that both run this program            *)
(* (queries-encrypted.c, structures.c, binlog.c, loop.c): the exchange of  *)
(* the key, the numbers of the messages in both directions, the file that  *)
(* keeps them over a restart, and the server between the two.  Messages    *)
(* reach a client in the order of qts, as module Updates shows; chat       *)
(* updates have no number.  Keys are compared, never computed.             *)
(***************************************************************************)
EXTENDS Integers, SequencesExt

CONSTANTS
  MaxMessages, \* bound: messages that each client sends
  MaxFaults,   \* bound: kinds of faults in one behaviour
  MaxCrashes,  \* bound: restarts of the clients together
  AutoAccept,  \* requests are accepted at once (no option -E)
  Faults       \* which faults may happen

\* refuse   the server answers a request with an error and does not do it
\* reorder  it takes the requests of a client in another order
\* absent   a message comes before the update that the chat is ready, because
\*          that was lost or because both come with a difference
\* overtake the update that the chat is ready comes before the answer to the
\*          request for the chat
\* repeat   an update of the chat comes again
\* crash    a client stops and is started again
Fault == {"refuse", "reorder", "absent", "overtake", "repeat", "crash"}

Client == {"admin", "other"}
Peer(c) == IF c = "admin" THEN "other" ELSE "admin"

ASSUME SecretChatAssumption ==
  /\ MaxMessages \in [Client -> Nat]
  /\ MaxFaults \in Nat /\ MaxCrashes \in Nat
  /\ AutoAccept \in BOOLEAN /\ Faults \subseteq Fault

VARIABLES
  client,   \* the two programs, with what each has on disk
  server,   \* "none", "requested", "ok" or "discarded"
  news,     \* updates of the chat that the server has not told a client yet
  told,     \* those it has told
  mail,     \* messages for each client, numbered with qts
  answers,  \* answers on their way to each client
  crashes,
  happened  \* history: the faults so far

vars == <<client, server, news, told, mail, answers, crashes, happened>>

\* A message: the count of it at its sender, which makes it unique, the two
\* numbers packed with it, halved (the sender's own and the one it expects),
\* and the key it is encrypted with.
Key == {"none", "half", "shared", "wrong"}
Text == [id : Nat, number : Int, expects : Nat, key : Key]
Query == [kind : {"request", "accept", "discard", "message"}, text : Text]
Answer == {"waiting", "ready", "declined", "failed", "sent", "gone"}
News == {"requested", "ready", "discarded"}
NoText == [id |-> 0, number |-> 0, expects |-> 0, key |-> "none"]

\* state, key, g_key, in_seq_no, out_seq_no and last_in_seq_no of the chat;
\* deleted is TGLPF_DELETED.
NewChat ==
  [state |-> "none", key |-> "none", gkey |-> "none", deleted |-> FALSE,
   in |-> 0, out |-> 0, last |-> 0]

\* asked    requests for the DH parameters, to accept with
\* sends    requests that the server has not taken
\* count    messages made so far, over all restarts; limit is the bound
\* qts      messages worked up to here
\* busy     works on a difference: messages up to left, which go to fetched,
\*          then the updates late
\* file     secret chat file; fileqts the number in the state file
\* heard    history: the messages given to the program
NewClient(limit) ==
  [chat |-> NewChat, asked |-> 0, sends |-> <<>>, count |-> 0, limit |-> limit,
   qts |-> 0, busy |-> FALSE, left |-> 0, late |-> {}, fetched |-> <<>>,
   file |-> NewChat, fileqts |-> 0, heard |-> <<>>,
   aborted |-> FALSE]
-----------------------------------------------------------------------------
(* The handlers, as functions of the client x.                             *)

\* write_secret_chat_file: chats that are ready, without g_key and deleted
WriteChatFile(x) ==
  [x EXCEPT !.file = IF x.chat.state = "ok"
                     THEN [x.chat EXCEPT !.gkey = "none", !.deleted = FALSE]
                     ELSE NewChat]

Ask(x, kind, text) ==
  [x EXCEPT !.sends = Append(@, [kind |-> kind, text |-> text])]

\* mutant: the number expected is counted before it was heard
SendTextAhead(x) ==
  LET y == [x EXCEPT !.chat.out = @ + 1, !.count = @ + 1]
  IN Ask(y, "message", [id |-> y.count, number |-> y.chat.out - 1,
                        expects |-> y.chat.in + 1, key |-> y.chat.key])

\* bl_do_edit_message_encr with CREATE for a message that goes out, then
\* tgl_do_send_encr_msg or tgl_do_send_encr_msg_action
SendText(x) ==
  LET y == [x EXCEPT !.chat.out = @ + 1, !.count = @ + 1]
  IN Ask(y, "message", [id |-> y.count, number |-> y.chat.out - 1,
                        expects |-> y.chat.in, key |-> y.chat.key])

\* tgl_do_send_encr_chat_layer; at the bound the notification is left out
SendLayer(x) == IF x.count < x.limit THEN SendText(x) ELSE x

\* bl_do_peer_delete: the chat keeps its state
PeerDelete(x) ==
  IF x.chat.state = "none" \/ x.chat.deleted THEN x
  ELSE WriteChatFile([x EXCEPT !.chat.deleted = TRUE])

\* tgl_do_create_keys_end: the second half of the key; when it was made before,
\* something else comes out.
KeysEnd(chat) ==
  [chat EXCEPT !.key = IF @ = "half" THEN "shared" ELSE "wrong"]

\* tglf_fetch_alloc_encrypted_chat.  A chat that the client does not have is
\* made by a request only, which is accepted at once (secret_chat_update_gw)
\* unless the program was started with -E.  For a chat it has, everything but
\* "waiting" and "discarded" means ready; a request names no g_a_or_b.
FetchChat(x, magic) ==
  CASE magic = "discarded" -> PeerDelete(x)
    [] magic # "discarded" /\ x.chat.state = "none" ->
         IF magic # "requested" THEN x
         ELSE [x EXCEPT !.chat = [NewChat EXCEPT !.state = "request",
                                                 !.gkey = "half"],
                        !.asked = IF AutoAccept THEN @ + 1 ELSE @]
    [] magic = "waiting" /\ x.chat.state # "none" ->
         [x EXCEPT !.chat.state = "waiting"]
    [] magic \in {"requested", "ready"} /\ x.chat.state # "none" ->
         LET chat == [x.chat EXCEPT !.gkey = IF magic = "ready" THEN "half"
                                             ELSE "none"]
             done == IF chat.state = "waiting" THEN KeysEnd(chat) ELSE chat
             y == [x EXCEPT !.chat = [done EXCEPT !.state = "ok"]]
         IN IF x.chat.state = "ok" THEN y ELSE WriteChatFile(y)

\* tglu_work_update of updateEncryption
WorkEncryption(x, magic) ==
  LET y == FetchChat(x, magic)
  IN IF y.chat.state = "ok" THEN SendLayer(y) ELSE y

KeyMade(x) == [x EXCEPT !.chat.key = IF @ = "none" THEN "shared" ELSE "wrong"]

\* mutant: the key is made again for a chat that has one
SendAcceptAgain(x) ==
  LET y == [x EXCEPT !.asked = @ - 1]
  IN IF y.chat.gkey = "none" THEN y
     ELSE Ask(WriteChatFile([KeyMade(y) EXCEPT !.chat.state = "ok"]),
              "accept", NoText)

\* tgl_do_send_accept_encr_chat, when the DH parameters are there
SendAccept(x) ==
  LET y == [x EXCEPT !.asked = @ - 1]
  IN CASE y.chat.key # "none" -> y
       [] y.chat.key = "none" /\ y.chat.gkey = "none" ->
            [y EXCEPT !.aborted = TRUE]
       [] y.chat.key = "none" /\ y.chat.gkey # "none" ->
            Ask(WriteChatFile([y EXCEPT !.chat.key = "shared",
                                        !.chat.state = "ok"]),
                "accept", NoText)

\* mutants: the number is not checked; the peer has to know all that was sent
FitsAny(chat, m) ==
  chat.key = m.key /\ m.expects <= chat.out /\ m.expects >= chat.last
\* The checks of tglf_fetch_encrypted_message: the number is the next one, what
\* the sender expects was sent, and is not less than before.
Fits(chat, m) ==
  /\ chat.key = m.key
  /\ m.number = chat.in
  /\ m.expects <= chat.out /\ m.expects >= chat.last

\* tglf_fetch_encrypted_message: of a message that does not fit only its empty
\* shell is left. bl_do_msg_update still gets it (updates.c:353), but it has
\* neither peer nor text: it is not shown (interface.c:4299) and writes no file
\* of secret chats (interface.c:3061), so nothing of it is kept here.
FetchMessage(x, m) ==
  IF x.chat.state # "ok" \/ ~Fits(x.chat, m) THEN x
  ELSE [x EXCEPT !.chat.in = m.number + 1, !.chat.last = m.expects,
                 !.fetched = Append(@, m)]

\* bl_do_msg_update, print_message_gw: a message is shown and the file written
ShowMessage(x) ==
  IF x.fetched = <<>> THEN x
  ELSE WriteChatFile([x EXCEPT !.fetched = Tail(@),
                               !.heard = Append(@, Head(x.fetched))])
-----------------------------------------------------------------------------
Init ==
  /\ client = [c \in Client |-> NewClient(MaxMessages[c])]
  /\ server = "none"
  /\ news = [c \in Client |-> {}] /\ told = [c \in Client |-> {}]
  /\ mail = [c \in Client |-> <<>>]
  /\ answers = [c \in Client |-> {}]
  /\ crashes = 0
  /\ happened = {}

\* A client works one handler at a time.
Runs(c) == ~client[c].aborted
Idle(c) == Runs(c) /\ ~client[c].busy
Becomes(c, x) == client' = [client EXCEPT ![c] = x]
MayHappen(F) ==
  F \subseteq Faults /\ Cardinality(happened \cup F) <= MaxFaults
Needs(F) == MayHappen(F) /\ happened' = happened \cup F

(***************************************************************************)
(* The user.                                                               *)
(***************************************************************************)
\* tgl_do_send_create_encr_chat, when the DH parameters are there
CreateChat ==
  /\ Idle("admin") /\ client["admin"].chat.state = "none" /\ server = "none"
  /\ client["admin"].sends = <<>>
  /\ Becomes("admin",
             Ask([client["admin"] EXCEPT !.chat.state = "waiting",
                                         !.chat.key = "half"],
                 "request", NoText))
  /\ UNCHANGED <<server, news, told, mail, answers, crashes, happened>>

\* tgl_do_accept_encr_chat_request
AcceptChat(c) ==
  /\ Idle(c) /\ client[c].chat.state = "request" /\ client[c].asked < 2
  /\ Becomes(c, [client[c] EXCEPT !.asked = @ + 1])
  /\ UNCHANGED <<server, news, told, mail, answers, crashes, happened>>

\* tgl_do_send_message
SendMessage(c) ==
  /\ Idle(c) /\ client[c].chat.state = "ok"
  /\ client[c].count < client[c].limit
  /\ Becomes(c, SendText(client[c]))
  /\ UNCHANGED <<server, news, told, mail, answers, crashes, happened>>

\* tgl_do_discard_secret_chat
DiscardChat(c) ==
  /\ Idle(c) /\ client[c].chat.state # "none"
  /\ server \notin {"none", "discarded"}
  /\ \A d \in Client : \A i \in DOMAIN client[d].sends :
       client[d].sends[i].kind # "discard"
  /\ Becomes(c, Ask(client[c], "discard", NoText))
  /\ UNCHANGED <<server, news, told, mail, answers, crashes, happened>>

Asks(c) == AcceptChat(c) \/ SendMessage(c) \/ DiscardChat(c)

(***************************************************************************)
(* The server.                                                             *)
(***************************************************************************)
\* It does what a request q of c says, and answers.
Do(c, q, answer) ==
  CASE q.kind = "request" ->
         /\ server' = "requested" /\ answer = "waiting" /\ mail' = mail
         /\ news' = [news EXCEPT !["other"] = @ \cup {"requested"}]
    [] q.kind = "accept" /\ server = "requested" ->
         /\ server' = "ok" /\ answer = "ready" /\ mail' = mail
         /\ news' = [news EXCEPT !["admin"] = @ \cup {"ready"}]
    [] q.kind = "discard" ->
         /\ server' = "discarded" /\ answer = "gone" /\ mail' = mail
         /\ news' = [news EXCEPT ![Peer(c)] = @ \cup {"discarded"}]
    [] q.kind = "message" /\ server = "ok" ->
         /\ answer = "sent" /\ UNCHANGED <<server, news>>
         /\ mail' = [mail EXCEPT ![Peer(c)] = Append(@, q.text)]
    [] \/ q.kind = "accept" /\ server # "requested"
       \/ q.kind = "message" /\ server # "ok" ->
         answer = "declined" /\ UNCHANGED <<server, news, mail>>

\* The first request of c, or with a fault a later one, is done or refused.
Take(c) ==
  /\ \E i \in DOMAIN client[c].sends, answer \in Answer :
       /\ Becomes(c, [client[c] EXCEPT !.sends = RemoveAt(@, i)])
       /\ answers' = [answers EXCEPT ![c] = @ \cup {answer}]
       /\ \/ /\ Do(c, client[c].sends[i], answer)
             /\ Needs(IF i = 1 THEN {} ELSE {"reorder"})
          \/ /\ answer = "failed" /\ UNCHANGED <<server, news, mail>>
             /\ Needs({"refuse"})
  /\ UNCHANGED <<told, crashes>>

(***************************************************************************)
(* What reaches the client c.                                              *)
(***************************************************************************)
\* get_dh_config_on_answer for a chat to accept
ReceiveDhConfig(c) ==
  /\ Idle(c) /\ client[c].asked > 0
  /\ Becomes(c, SendAccept(client[c]))
  /\ UNCHANGED <<server, news, told, mail, answers, crashes, happened>>

\* send_encr_request_on_answer, send_encr_accept_on_answer,
\* encr_accept_on_error, msg_send_encr_on_answer, msg_send_encr_on_error,
\* send_encr_discard_on_answer.  After an error the file is written if the
\* callback is one of the command line's.
OnAnswer(x, a, written) ==
  CASE a = "waiting" -> FetchChat(x, "waiting")
    [] a = "ready" -> WorkEncryption(x, "ready")
    [] a \in {"declined", "gone"} -> PeerDelete(x)
    [] a = "failed" -> IF written THEN WriteChatFile(x) ELSE x
    [] a = "sent" -> WriteChatFile(x)

ReceiveAnswer(c) ==
  /\ Idle(c)
  /\ \E a \in answers[c], written \in BOOLEAN :
       /\ Becomes(c, OnAnswer(client[c], a, written))
       /\ answers' = [answers EXCEPT ![c] = @ \ {a}]
  /\ UNCHANGED <<server, news, told, mail, crashes, happened>>

\* The faults that it takes for the update u to reach c now
Surprise(c, u) ==
  (IF u \in told[c] THEN {"repeat"} ELSE {})
    \cup (IF u = "ready" /\ "waiting" \in answers[c] THEN {"overtake"} ELSE {})

\* tglu_work_update of updateEncryption
PushNews(c) ==
  /\ Idle(c)
  /\ \E u \in news[c] \cup told[c] :
       /\ Needs(Surprise(c, u))
       /\ Becomes(c, WorkEncryption(client[c], u))
       /\ news' = [news EXCEPT ![c] = @ \ {u}]
       /\ told' = [told EXCEPT ![c] = @ \cup {u}]
  /\ UNCHANGED <<server, mail, answers, crashes>>

\* A message before the update without which it is lost
Early(c) == IF "ready" \in news[c] THEN {"absent"} ELSE {}

\* tglu_work_update of updateNewEncryptedMessage, the next one
PushMessage(c) ==
  LET x == client[c]
  IN /\ Idle(c) /\ x.qts < Len(mail[c])
     /\ Needs(Early(c))
     /\ LET y == ShowMessage(FetchMessage(x, mail[c][x.qts + 1]))
        IN Becomes(c, [y EXCEPT !.qts = @ + 1])
     /\ UNCHANGED <<server, news, told, mail, answers, crashes>>

\* get_difference_on_answer: the messages first, then the updates in the order
\* of their dates, and at the end the messages are shown.
Before(u, v) == u # v /\ (u = "requested" \/ v = "discarded")

StartDifference(c) ==
  /\ Idle(c)
  /\ client[c].qts < Len(mail[c]) \/ news[c] # {}
  /\ Needs((IF client[c].qts < Len(mail[c]) THEN Early(c) ELSE {})
             \cup UNION {Surprise(c, u) : u \in news[c]})
  /\ Becomes(c, [client[c] EXCEPT !.busy = TRUE, !.left = Len(mail[c]),
                                  !.late = news[c]])
  /\ news' = [news EXCEPT ![c] = {}]
  /\ told' = [told EXCEPT ![c] = @ \cup news[c]]
  /\ UNCHANGED <<server, mail, answers, crashes>>

DifferenceMessage(c) ==
  LET x == client[c]
  IN /\ Runs(c) /\ x.busy /\ x.qts < x.left
     /\ Becomes(c, [FetchMessage(x, mail[c][x.qts + 1]) EXCEPT !.qts = @ + 1])
     /\ UNCHANGED <<server, news, told, mail, answers, crashes, happened>>

DifferenceNews(c) ==
  LET x == client[c]
  IN /\ Runs(c) /\ x.busy /\ x.qts = x.left
     /\ \E u \in x.late :
          /\ \A v \in x.late : ~Before(v, u)
          /\ Becomes(c, WorkEncryption([x EXCEPT !.late = @ \ {u}], u))
     /\ UNCHANGED <<server, news, told, mail, answers, crashes, happened>>

EndDifference(c) ==
  LET x == client[c]
  IN /\ Runs(c) /\ x.busy /\ x.qts = x.left /\ x.late = {}
     /\ Becomes(c, IF x.fetched = <<>> THEN [x EXCEPT !.busy = FALSE]
                   ELSE ShowMessage(x))
     /\ UNCHANGED <<server, news, told, mail, answers, crashes, happened>>

Difference(c) == DifferenceMessage(c) \/ DifferenceNews(c) \/ EndDifference(c)

\* write_state_file, once in each round of the main loop; it is of interest
\* only before a crash.
WriteStateFile(c) ==
  /\ Idle(c) /\ client[c].fileqts # client[c].qts
  /\ crashes < MaxCrashes /\ MayHappen({"crash"})
  /\ Becomes(c, [client[c] EXCEPT !.fileqts = client[c].qts])
  /\ UNCHANGED <<server, news, told, mail, answers, crashes, happened>>

\* The program stops and is started again: read_secret_chat_file,
\* read_state_file.  What it sent may still arrive; the answers do not.  It is
\* told again what came after the date in its state file.
Crash(c) ==
  LET x == client[c]
  IN /\ crashes < MaxCrashes
     /\ Needs({"crash"})
     /\ crashes' = crashes + 1
     /\ \E sends \in {<<>>, x.sends} :
          Becomes(c, [NewClient(x.limit) EXCEPT
                        !.chat = x.file, !.file = x.file, !.qts = x.fileqts,
                        !.fileqts = x.fileqts, !.sends = sends,
                        !.count = x.count, !.heard = x.heard])
     /\ answers' = [answers EXCEPT ![c] = {}]
     /\ \E U \in {{}, told[c]} :
          /\ news' = [news EXCEPT ![c] = @ \cup U]
          /\ told' = [told EXCEPT ![c] = @ \ U]
     /\ UNCHANGED <<server, mail>>

Receive(c) == ReceiveDhConfig(c) \/ ReceiveAnswer(c) \/ PushNews(c)
              \/ PushMessage(c) \/ StartDifference(c) \/ Difference(c)

Next == CreateChat \/ \E c \in Client : Asks(c) \/ Take(c) \/ Receive(c)
                                      \/ WriteStateFile(c) \/ Crash(c)

Spec == Init /\ [][Next]_vars

-----------------------------------------------------------------------------
Chat == [state : {"none", "waiting", "request", "ok"}, key : Key,
         gkey : {"none", "half"}, deleted : BOOLEAN,
         in : Nat, out : Nat, last : Nat]

Program ==
  [chat : Chat, asked : Nat, sends : Seq(Query), count : Nat, limit : Nat,
   qts : Nat, busy : BOOLEAN, left : Nat, late : SUBSET News,
   fetched : Seq(Text), file : Chat, fileqts : Nat, heard : Seq(Text),
   aborted : BOOLEAN]

\* Types.
TypeOK ==
  /\ client \in [Client -> Program]
  /\ server \in {"none", "requested", "ok", "discarded"}
  /\ news \in [Client -> SUBSET News] /\ told \in [Client -> SUBSET News]
  /\ mail \in [Client -> Seq(Text)] /\ answers \in [Client -> SUBSET Answer]
  /\ crashes \in 0 .. MaxCrashes /\ happened \subseteq Faults

\* Whatever is lost, repeated, reordered or restarted, the program is given the
\* peer's messages in the order of their numbers, and none twice; without a
\* crash, none is left out before the last.
HeardInOrder ==
  \A c \in Client : LET h == client[c].heard IN
    /\ \A j, k \in DOMAIN h :
         j < k => h[j].number < h[k].number /\ h[j].id # h[k].id
    /\ "crash" \notin happened => \A k \in DOMAIN h : h[k].number = k - 1

\* Unless updates of the chat are repeated or overtake an answer, a chat that
\* is ready has the key that both sides share, and no assertion fails.
ReadyHasKey ==
  happened \cap {"repeat", "overtake"} = {} =>
    \A c \in Client :
      /\ client[c].chat.state = "ok" => client[c].chat.key = "shared"
      /\ ~client[c].aborted

\* Unless a client restarts, no message is dropped because it expects a number
\* its receiver has not sent yet ("In seq no is bigger than our's out seq no").
NeverAhead ==
  "crash" \notin happened =>
    \A c \in Client : \A k \in client[c].qts + 1 .. Len(mail[c]) :
      mail[c][k].expects <= client[c].chat.out

=============================================================================
