# Formal models of the Telegram client and bot

This directory holds TLA+ models of the program in `src/`: a command-line
Telegram client in C (`src/tg`, with its protocol library `src/tg/tgl`) and a
group-moderation bot in Lua (`src/crystal`, `src/plugins`, `src/libs`) that the
client runs through its Lua bindings. TLC checks the models on small
instances; TLAPS proves the safety properties of most of them, and two
refinements, for every instance.

## Inventory of the system

The client is one process with one thread: a libevent loop (`loop.c`,
`net_loop`) that reads the terminal, the sockets and the timers, and runs the
Lua queue once per turn. Concurrency is between the program and what it talks
to: servers that answer late, twice, out of order or not at all, connections
that break, timers that expire in between, callbacks that run much later than
the call that left them.

| Part | State | Operations | Hard behaviour | What makes it correct |
|---|---|---|---|---|
| Query engine (`queries.c`, handlers in `mtproto-client.c`) | tree of queries by message id, timers, acknowledged flags, `active_queries`, the password lock | send, alarm, acknowledge, result, error, bad salt, bad message, new session | retries racing answers, replaced sessions, repeated answers | a request completes exactly once; nothing is forgotten; the server sees one id per session |
| Update sequencing (`updates.c`, `binlog.c`, `queries.c` get difference) | `pts`, `qts`, `seq`, `date`, per-channel `pts`, the DIFF locks | apply an update, detect a hole, get the state, get the difference | gaps, duplicates and updates that arrive while a difference is fetched | every event is applied exactly once and in order |
| Sessions and keys (`mtproto-client.c`) | authorization state, permanent and temporary key, flags 1, 2 and 4, session id, salt, pending acknowledgements | the handshake of the permanent and the temporary key, bind, get config, regenerate, save | a reconnection or a timer in the middle of a handshake | nothing is encrypted with a key that is not there |
| Connections (`tgl-net.c`, `tgl-timers.c`) | state of each connection, ping and reconnect timers, buffers | connect, write, read, ping, fail, restart | half-open connections, failure inside a callback | one timer per connection; a dead connection is replaced |
| Secret chats (`queries-encrypted.c`, `binlog.c`, `structures.c`) | chat state, key, layer, in/out sequence numbers, rekeying state | request, accept, discard, send, receive, rekey | two actors with their own counters; rekeying crossing messages | both ends hold one key; no message is accepted twice |
| Message store (`structures.c`, `binlog.c`) | messages by permanent, temporary and random id, unsent list, `last` lists of peers | create, edit, send, acknowledge (random id to server id), delete | the server's echo arriving before the answer | one message is stored once |
| Files (`queries.c`, load and send parts) | offset, part number, file descriptor | send part, load part | parts fail or are answered late | a file is complete before it is sent or used |
| Login (`queries.c`, `tgl_sign_in`) | login state, code hash, exported authorizations | code, sign in, sign up, export and import authorization, log out | several data centres sign in independently | a request for the user's data is sent after sign in |
| Paging (`queries.c` dialogs, history, search) | offset, limit, list | next page | list changes between pages | no page is asked for twice |
| Peers (`structures.c`, `binlog.c`, the tree of usernames in `interface.c`) | records of users, groups, channels and secret chats, the tree of printed names, the tree of usernames | fetch, rename, take members, mark read, restart | news that is old when it comes; two peers called alike | a name that is typed finds the one peer that is printed with it |
| Command line (`loop.c`, `main.c`, `interface.c`) | terminal and connections, the dialogue, saved files, `safe_quit` | read a line, ask for words, answer, quit | a connection closed while its commands are pending; prompts that take each other's place | handlers get what they assert; a connection lives exactly as long as it is used |
| Lua and Python bindings (`lua-tg.c`, `python-tg.c`) | queue of postponed calls, callbacks by index | postpone, run all, call back | callbacks that postpone more calls | each callback runs once |
| Bot (`crystal/monster.lua`, `crystal/utils.lua`, `plugins/*.lua`) | moderation tables in JSON files, counters and sets in redis | lock, mute, warn, ban, promote, flood control | several messages of one user between two answers of the server | only moderators change settings; a flooder is removed |
| `tl-parser`, `generate.c`, `auto/` | - | build-time code generation | - | - |
| Cryptography, JSON, `mime-types.c`, vendored Lua libraries | - | pure functions | - | - |

They interact by calls and callbacks: connections deliver packets to
`mtproto-client.c`; this updates session and keys, and hands answers to the
query engine and updates to `updates.c`; the engine's callbacks change the
message store and the files and send further queries; the store calls the
update callbacks of the command line, of Lua and of the bot; the bot's calls
are queued by `lua-tg.c` and become queries.

## Plan

The modules stand in the order in which they were written, each checked before
the next:

1. `Queries` and its contract `QueryContract`, which the later modules rely on
   ("a request is answered, or fails, once").
2. `Updates` and the abstract stream `EventStream`; `Auth`.
3. `Messages`, `SecretChat`, `Files`, `Paging`, `Peers`: what requests and
   updates do to the stores.
4. `LuaQueue`, which EXTENDS `Files`; `Commands`, `Login` and `Console`, which
   EXTENDS both.
5. `Moderation` and `Guard`: the bot.

`Queries`, `Updates`, `Auth`, `Messages`, `SecretChat` and `Moderation` have
proofs in a module `*_proofs` each, `Files`, `LuaQueue` and `Guard` together in
`Script_proofs`, `Peers`, `Paging`, `Login` and `Console` in `Client_proofs`;
no module declares a RECURSIVE operator. The `MC` modules
give the constants their values; `MCRequests` and `MCClient` put two parts that
share no state side by side in one run, so that each part's states are
explored, not their product.

What is left, in the order of its worth:

- `Net`: the buffers of a connection and the framing of packets (`tgl-net.c`):
  what is written comes out once and in order, whatever the reads and writes
  return. The states and timers of a connection are in `Auth`.
- a second conversation in `Messages`, with forwarded and edited messages and
  read marks.

## The query engine: `Queries`, `QueryContract`, `MCQueries`, `Queries_proofs`

A request is a `struct query`. `tree` is `TLS->queries_tree`, keyed by
`msg_id`; `armed` are the queries whose timer is inserted; `acked` those with
`QUERY_ACK_RECEIVED`; `session_id` is what the query noted when it was sent
(0 when nothing went on the wire); `alive` are those still allocated; `calls`
counts the calls of the callback. `current`, `configured` and `DC_working` are
what the engine sees of the data centres, `pwd`, `waiting` and `locked` the
password dialogue. Each handler is one action:

| Action | Code |
|---|---|
| `SendQuery` | `tglq_send_query_ex` |
| `Alarm` | `alarm_query_gateway`, `alarm_query`: the same id in the same session, otherwise a new one |
| `Ack`, `Result`, `UnknownAnswer` | `tglq_query_ack`, `tglq_query_result` |
| `ErrorFail`, `ErrorMigrate`, `ErrorInternal`, `ErrorBind`, `ErrorPassword` | the branches of `tglq_query_error` |
| `BadServerSalt`, `BadMsgNotification` | `tglq_query_restart`, `tglq_regen_query` |
| `NewSessionCreated` | `tglq_regen_queries_from_old_session` |
| `FailSession`, `RegenerateKey`, `SetConfigured` | `fail_session`, `tglmp_regenerate_temp_auth_key`, `mpc_on_get_config` |
| `PasswordAsked` ... `PasswordRefused` | the password dialogue up to `resend_query_cb` |
| `SafeQuit`, `Halt` | `do_safe_quit`, the test in `net_loop` |

The network and the server are the environment: `Deliver`, `Lose`, and the
conditions `Answered` and `Rejected` on what a server may say. What belongs to
a replaced session is dropped by `process_rpc_message`, so it is forgotten when
the session changes. The program is modelled as `launch.sh` starts it, without
`-v`: the line that `tglq_query_error` logs for an id it does not know, which
reads the name of the method from no query (`queries.c:317`), is evaluated only
when warnings are logged. Message ids and session ids are never compared for order
by the engine, so an id that nothing refers to any more is used again: three
ids are enough for two requests with one copy of each in two sessions. The
fields of a freed query are reset, since nothing reads them.

| Run | Instance | Shows |
|---|---|---|
| `queries_errors` | two requests, one data centre, every kind of error, repeated answers, temporary keys; 2.5 million states | `CalledAtMostOnce` |
| `queries_sessions` | two requests (one of them forced), two data centres, sessions and keys replaced, requests moved; 1.4 million states | `AckedIsRecoverable`, `NotExecutedTwice`, `NothingForgotten` |
| `queries_contract` | two requests, one data centre, a server that answers each message once, fairness; beside it the peers (below); 473 514 states | the refinement of `QueryContract` with its liveness |

Two requests are enough for the hazards listed: one request meets itself (old
copy and new copy) and one other (the tree, the count, the dialogue). One data
centre does for the errors, two for moving. The refinement needs a server that
answers once and requests that stay where they are, because the count of
active requests is wrong otherwise: `tglq_query_error` lowers it for a request
that error 303 sends to another data centre, and `safe_quit`, which is said to
wait for all queries (`README.md:198`, `interface.c:1737`), then quits while
the request is pending. No run of this project asks for that.

Fairness (`LiveSpec`): a timer that is inserted fires (the event loop runs), a
message sent again and again arrives in the end, the server answers a request
it keeps being able to answer, announces a new session, and a data centre is
configured in the end. Nothing is assumed of errors or of replaced sessions.

Proved, for any number of requests, data centres, ids and sessions
(`Queries_proofs`): `TypeCorrect`, `TimersCorrect`, `CallbackOnce`,
`WaitingParked`, `AckedRecoverable` and the action property `SameIdInSession`.
They follow from the invariant `IInv`, which adds to the types and properties
that a query with a called callback is gone, that an acknowledged query noted
the present session or an announced one is still to come, and that a query on
its way to another data centre has nothing in flight. Each action has a lemma
of its own. Three more rest on it and on an assumption each, which only the
environment can break:

- `ExecutedOnce` (`NotExecutedTwice`), for a server that answers each message
  once: the invariant adds that what the server was given and has not answered
  is the present message of a query of the tree.
- `NoneForgotten` (`NothingForgotten`), when no answer asks for the password:
  the password dialogue then never starts, and what is allocated has its timer
  running or is in the tree and acknowledged. The run that checks it,
  `queries_sessions`, has no password either, only moved requests.
- `StepsKeepContract`, the safety part of the refinement: each step is a step of
  `QueryContract` or changes nothing of it, for the errors and the server of the
  run `queries_contract`. Its liveness is left to TLC.

Known behaviour that no property asks to be otherwise: on error 420 or 500 the
timer is inserted to retry but the query is freed a few lines later
(`queries.c:401`); an error other than 400 in the password dialogue, or a
second SESSION_PASSWORD_NEEDED during it, ends in an assertion or leaves the
other requests waiting (3058, 373).

Left out: `tglq_query_delete`, which only `bind_temp_auth_key` calls (it is in
`Auth`), and `tglq_query_free_all`, which runs at the end; the contents of
requests and answers; the ten-second and six-second timeouts are "some time
later".

## The update sequencing: `Updates`, `EventStream`, `MCUpdates`, `Updates_proofs`

The server numbers events in two boxes, `pts` and `qts`, and some containers
with `seq`. `tls` is the client's `struct tgl_state`: its counters, the lock
`TGL_LOCK_DIFF` and the request made under it, plus three history fields that
only properties read (`done`, how often each event was applied; `base`, where
this process took up; `origin`, where the account was first taken up).
`answer` and `lookup` are the two requests on their way, `file` is the state
file. `events` is the server's log and `pushes` what it has pushed: a push may
arrive any number of times, late, or never, except for the kinds in `Replies`,
which come once with the answer to a request of the user's.

The handlers are functions of the client's record, with the names of the code:
`Check` (`tgl_check_pts_diff`, `tgl_check_qts_diff`), `Set` (the setters of
`binlog.c`, which do nothing under the lock), `Skip` (`do_skip_seq`),
`WorkUpdate`, `WorkShortMessage`, `WorkShortSent`, `WorkUpdates`,
`WorkAffected`, `WorkAnyUpdates`, `GetDifference`, `StateAnswered`,
`DifferenceAnswered`. The actions are the events that call them: `Deliver`,
`Start` (the end of the login), `NewSession`, `HandleAnswer`, `HandleError`,
`Lookup` and `HandleLookup` (hourly), `WriteStateFile`, `Restart`, and the
server's `PushMessage`, `PushShort`, `PushUpdates`, `PushTooLong`, `Answer`,
`AnswerLookup`.

| Run | Instance | Shows |
|---|---|---|
| `updates_order` | two pts, one qts, three seq; containers and short pushes, any of them lost; fairness | `SeqCovers`, `CatchesUp` |
| `updates_stream` | three pts, updates that take one or two numbers, single pushes and answers with pts, unknown peers, failing requests, one restart; 1.5 million states | `NothingLost`, the refinement of `EventStream` |

Three numbers are enough for a push that is a duplicate, the next, and behind a
hole at once, and for a slice that stops in the middle; two for an update that
takes two numbers to span another; one restart for a state file that is behind.
`updates_order` has no failing request, because after one `CatchesUp` does not
hold: `q_void_on_error` (`queries.c:558`) leaves `TGL_LOCK_DIFF` held, and from
then on `updates.c:138` drops every update.

Fairness (`LiveSpec`): the client asks after the login, the hourly lookup goes
on, the server answers, and answers are handled (`Queries` shows that a request
is answered). Nothing is assumed of pushes, so `CatchesUp` holds when all are
lost.

Proved, for any bounds on the numbers, any kinds of push, any failures and any
number of restarts (`Updates_proofs`): `UpdatesTypeCorrect`,
`CountersAreExact`, `EventsAppliedOnce`, `NoEventLost`, and, from the
assumption that no request fails, `LockIsRequest`. The invariant has five
parts. `Numbering`: the server's events take disjoint intervals of numbers up
to its counters; without it the next number would not mean the next event.
`Good(tls)`: the counters are exact, earlier processes cover what lies before
`base`, the state file is not ahead of what was applied, and a request under
the lock was made from counters that have not moved since. `Answered`: an
answer on its way holds exactly the events between those counters and its own.
`Pushed`: what is pushed has happened. Most lemmas say that one handler keeps
`Good`.

`ContainersCovered` (`SeqCovers`) and `StreamImplemented` (every behaviour is
one of `EventStream`) need more, `SeqInv`. `Between`: the counters of the client
and of the state file stand between two events, never inside one that takes two
numbers. `Covers`: the containers up to `seq` have all their events before those
counters. `Containers`: the server's containers are numbered without overlap and
name what has happened. `Told`: an answer names no container that its own
numbers do not cover. From there each handler takes the client from one place
between two events to a later one and applies what lies between, and that is the
step `Take` of the stream; the other actions leave the stream alone, or are a
restart. Only `CatchesUp`, which is liveness, stays with TLC.

Left out: `date`, which nothing compares; updates without a number, whose
effects overwrite; what an update does to the stores (it is counted). The server
is taken to ship, with a difference, the peers that its messages name:
`get_difference_on_answer` would dereference NULL otherwise (`queries.c:3749`).
A start without state (`pts` = 0) takes the first update as it comes. The
counter of a channel has no model: its setter compares the wrong way round
(`binlog.c:160`), so it stays 0, every update passes its check and no difference
is ever asked for.

Two behaviours of the code that the model shows and no run checks: a push with
a hole that arrives before the end of the login takes the lock, so the
difference of `tgl_started` fails and the program exits with a login error
(`queries.c:5124`, `phase` = "failed"); an update with a message of an unknown
peer stops at `assert (M)` (`updates.c:190`, `phase` = "aborted").

## The keys of a data centre: `Auth`, `MCAuth`, `Auth_proofs`

One data centre with its session and its connection. `state`, `flags`, `temp`
and `ev` are `DC->state`, the flags 1, 2 and 4 of `DC->flags` ("key", "bound",
"configured"), `DC->temp_auth_key_id` and whether `DC->ev` is inserted; `conn`
is `c->state`. `queries` are the two queries that are sent by force, before
flag 4: `auth.bindTempAuthKey` and `help.getConfig`. `first` says that a bind
query still goes by the id that it was made with: the server accepts no other,
and `temp_auth_key_bind_query_id` names no other. `wire` and `known` are the
messages of the present session under way and received; `bound` is the server's.

| Action | Code |
|---|---|
| `process_respq_answer`, `process_dh_answer` | the functions of these names |
| `AuthComplete`, `AuthCompleteTemp` | `process_auth_complete` for the permanent and the temporary key |
| `HandshakeRejected` | the early returns of the three |
| `ReadyWithoutKey`, `ReadyUnbound`, `ReadyBound` | the branches of `tc_becomes_ready`, called by `conn_try_write` |
| `ConnectionLost`, `FailAlarm`, `PingAlarm` | `fail_connection` and `restart_connection`, by an error or a timer |
| `Alarm`, `Ack`, `NewSessionCreated` | as in `Queries`, for the forced queries |
| `BindAnswered`, `BindRefused`, `ConfigAnswered` | `send_bind_temp_on_answer`, `send_bind_on_error`, `help_get_config_on_answer` |
| `FailSession`, `Regenerate` | `fail_session`, `tglmp_regenerate_temp_auth_key` |
| `Deliver` | the network |

A handshake answer either fits or is rejected: no nonce, key or digest is
computed. Ordinary requests are not kept; they wait for flag 4 (`Queries`). A
temporary key expires at any time after its timer was inserted (`ev` = "set").
A timer inserted at 0 (`ev` = "now", the start with `enable_pfs`) fires before
an answer can come from the network. Writing to a connection that waits to be
restarted uses a freed event: the program crashes, or the bytes stay in the
buffer and the next attempt is never told that it is connected, until the ping
timer gives it up (`jammed`).

| Run | Instance | Shows |
|---|---|---|
| `auth_keys` | both values of `enable_pfs`, with and without a saved key, two temporary keys, three troubles, four places; 263 000 states, fairness | `NeverAborts`, `OpenMeansBound`, `Opens` |

A trouble is a lost connection, a rejected answer, a failed session, a bind
refused for no reason, or a connection that takes longer than the six seconds
after which a bind is sent again. Two temporary keys let one be replaced, and
the replacement be disturbed; three troubles disturb a handshake, the bind
and the configuration of one run. Each connection adds at most one
configuration query, so four places hold all of those three troubles leave. A
bound on slow connections is needed: with a connection that always takes that
long the bind always goes out under an id that the server refuses, which fails
the session again.

`Prompt` says that forced queries are answered before a key expires (its life
is about a day). The code relies on it: when the connection breaks between the
answer to the bind and the answer to `help.getConfig`, `tc_becomes_ready` asks
a second time; the first answer inserts the timer of the key, and if it fires
while the second is pending, `tglmp_regenerate_temp_auth_key` starts a
handshake but leaves the query with its timer, which sends it by force and
fails `assert (DC->state == st_authorized)` (`mtproto-client.c:691`).

Fairness: the server answers what reached it and what the handshake waits for,
a connection is made in the end, and inserted timers fire (the event loop
runs). Nothing is assumed of `HandshakeRejected`, `ConnectionLost`,
`FailSession`, `Ack`, or of the expiry of a key.

Proved, from `Prompt`, for any number of keys, troubles and pending queries
(`Auth_proofs`): `AuthTypeCorrect`, `AuthNeverAborts`, `AuthOpenMeansBound`,
`AuthKeyIsRenewed`, `AuthOneBind`. The invariant says what each flag and state
stands for. `SendReady`: while a forced query is pending there is a key to send
it with, which is why a timer never meets a handshake. `FlagsMean`: flag 2
stands for a key the server accepts, and flag 4 and the configuration queries
come after it. `StateMeans`: a temporary key is asked for after the permanent
one. `BindsCurrent`: every bind query is for the key in use, and one of them at
most goes by its first id. `NewConfig`, `NewBind` and `LeftMeaning` say what the
three ways to change the queries do to it, and each action has a lemma. `Opens`
is only model-checked.

Left out: a connection that cannot be created at all (it stays NULL, and the
next query dereferences it); `help.getConfig` answered with an error (its
callbacks assert success); error 500 on a bind; the acknowledgements of
received messages (`ack_tree`), which are sent once flag 4 is set.

## The message store: `Messages`, `MCMessages`, `Messages_proofs`

One conversation. `tls` is the client: for each message that is allocated its
`permanent_id` (`id`), and the indexes of `structures.c`: `tree`
(`message_tree`), `unsent`, `random` (`random_id_tree`), `temp`, `use` (the
list of all messages) and `last` (the list of the conversation, with the id by
which a message was placed in it). `log` is the account as the server has it:
event n brings the message with id n, or deletes one. `requests` and `answers`
are what is under way in both directions.

The operators with names of the code are functions of the client:
`CreatePending` and `FetchAlloc` (the two ways through `bl_do_edit_message`),
`SetMsgId` (`bl_do_set_msg_id`), `Delete` (`bl_do_message_delete`), `Check`,
`WorkNewMessage`, `WorkMessageId`, `WorkShortSent`, `WorkDifference`. The
actions `SendMessage`, `GetHistory`, `DeleteMessage` are the client's requests,
`Accept`, `Refuse`, `AnswerHistory`, `AnswerDelete`, `AnswerDifference` the
server, `PushMessage` and `PushDeletion` its pushes, which come at any time,
again, or never, and `Handle` the callbacks.

| Run | Instance | Shows |
|---|---|---|
| `messages` | one message sent, three events (one its own), fairness | `IndexesAgree`, `GetsOwnId`, `SentIsSettled`, `AnnouncedOnce`, `Settles` |

Three events are the least with one before and one after the message sent, so
the answer, the push and the difference with its id come in every order around
the others and around a history or a deletion. `IndexesAgree` includes that no
assertion of the store fails but one: a short push of the next event, whose
message a history brought already, makes `bl_do_edit_message` (`binlog.c:285-293`)
create a message that is there, and the program ends (`again`). Answers come in
the order in which they were given, as on one connection; what a reconnect could
do to that order is not modelled. Fairness: the server answers, and what came
is handled; nothing is assumed of pushes.

Proved, for any messages and any number of events (`Messages_proofs`):
`TypeCorrect`, `StoreAgrees` (`IndexesAgree`), `OwnId` (`GetsOwnId`), `Settling`
(`SentIsSettled`) and `ToldOnce` (`AnnouncedOnce`); `Settles` is left to TLC.
The invariant is about the store and about the queue of answers. `Good`: the
indexes agree and every message has the id it should have. `Owns`: a message of
the store is one of the log, and one that was sent has the id of the event made
of it. `Settled`: no event up to `pts` is of a message that is still pending.
`Behind` and `Told`: what the store has, or was told, of the events beyond `pts`
came with a history or is its own. `Answered`: an answer under way says what is
in the log (`Honest`), still finds the client as it was when the answer was
given (`Awaited`: the id of a sent message is free), and stands in the order of
the events (`InOrder`). The store alone is not inductive: without those three a
message that was sent could find its id taken. The lemmas first say of each
operation of the store (create, set the id, delete, insert in a list) that it
keeps `Good`, then of each handler what it leaves of the queue.

Left out: other conversations, read marks, edited and forwarded messages, media,
the resending of unsent messages at a second login; the messages of channels and
secret chats. `unread_message_list` keeps pointers to messages for up to a
second, and a message deleted in that time is not taken out of it.

## Secret chats: `SecretChat`, `MCSecretChat`, `SecretChat_proofs`

Two clients that both run this program, and the server between them. `client`
holds for each the chat (`state`, `key`, `g_key`, `in_seq_no`, `out_seq_no`,
`last_in_seq_no`), what it has asked for and not got, the queue of a difference
being worked, what is on disk (the file of the chats, and `qts` in the state
file) and the history `heard`. `news` and `told` are the updates of the chat,
`mail` its messages, which reach a client in the order of qts (that is what
`Updates` shows) while chat updates have no number.

| Action | Code |
|---|---|
| `CreateChat`, `AcceptChat`, `SendMessage`, `DiscardChat` | `tgl_do_create_secret_chat`, `tgl_do_accept_encr_chat_request`, `tgl_do_send_encr_msg`, `tgl_do_discard_secret_chat` |
| `ReceiveDhConfig`, `ReceiveAnswer` | the callbacks of these |
| `PushNews`, `PushMessage` | `tglu_work_update` with an update of the chat, or an encrypted message |
| `StartDifference`, `DifferenceMessage`, `DifferenceNews`, `EndDifference` | `get_difference_on_answer`: first the messages, then the updates |
| `WriteStateFile`, `Crash` | `write_state_file`; the end of the process and `read_secret_chat_file` |
| `Take` | the server |

`Faults` names what may go wrong, and `happened` which of it did: `refuse`,
`reorder`, `absent`, `overtake`, `repeat`, `crash` (they are explained in the
module). The properties that do not hold under a fault say so by name, which
keeps them exact: `ReadyHasKey` excludes `repeat` and `overtake`, which make
the state go back, make a key twice, or meet an assertion on `g_a`
(`structures.c:473`); `NeverAhead` and the last part of `HeardInOrder` exclude
`crash`, since `out_seq_no` is raised when a message is made and the file
written when its answer comes.

| Run | Instance | Shows |
|---|---|---|
| `secret_numbers` | one message from the client that asks, two from the one that accepts (the first is the notice of its layer), any one fault, one restart | `HeardInOrder`, `ReadyHasKey`, `NeverAhead` |

Two messages in one direction are what it takes to swap them, one in the other
makes the numbers of both move. Known and not asked to be otherwise: a
difference works its messages before its updates, so those of a chat that
becomes ready in the same difference are dropped (`queries.c:3737`); a message
that the server takes too late is dropped for good; of a message that does not
fit an empty shell is kept, which is given to the scripts as an id and no more
(`updates.c:353`, `lua-tg.c:488`) and is not in `heard`; `set_ttl` has no answer and
sends 0 whatever it is given (`queries-encrypted.c:107`).

Proved, for any number of messages in each direction, any set of faults and any
number of restarts (`SecretChat_proofs`): `TypeCorrect`, `HeardOnceInOrder`
(`HeardInOrder`), `PeerNeverAhead` (`NeverAhead`) and `SharedKey`
(`ReadyHasKey`). The first three follow from `OrderInv`. `Orderly`: what a
client has heard lies in the order of the numbers and below the one that its
chat, or the file that a crash goes back to, expects next. `Numbered`: messages
with one id have one number, and ids are those their sender has counted.
`Ahead`, without a crash: a client expects no more than its peer has sent.
`Fresh`, `Accepting`, `Requesting`: a chat that is made, or made anew after a
crash, has heard nothing. `SharedKey` needs `KeyInv`, which adds the two sides:
one asks and the other accepts, and each can get only the updates and answers of
its side (`Plays`); before the server has the chat only the request is on its
way, and afterwards it is not (`Unstarted`, `Started`); and while updates come
in turn each side has just the half of the key, or the key, that its state says
(`Holds`). `InTurn` is the absence of the two faults that the property names.

Left out: rekeying, whose functions are `assert (0)`; files and actions inside a
chat, which are messages like the others; the arithmetic of the key, which is
compared, not computed; several chats, which share no state but the file.

## Files and calls of a script: `Files`, `LuaQueue`, `MCLuaQueue`, `Script_proofs`

`Files` is the part-by-part loading and sending of `queries.c`. `transfer` is
for each request its `struct download` or `struct send_file`, `disk` the parts
in each loaded file. `StartLoad` is `load_next_part` before its first request,
`ReceivePart` is `download_on_answer`, `StartSend` `tgl_do_send_document`,
`PartSaved` and `MessageSent` the callbacks of a saved part and of the sent
message, `Fail` an error at any of them. Loads of the same document run side by
side; nothing in the code keeps them apart.

`resumed` remembers the files on which a load went on from what it found.
For them `FilesAreWhole` does not hold: `load_next_part` starts at the length of
the file (`queries.c:3223`) but `download_on_answer` opens it without
`O_APPEND` and writes at its beginning (3121), after which the file has the
right length and the wrong contents, and the next load says "Already
downloaded" (3227).

`LuaQueue` is `lua-tg.c`: `words` is `lua_ptr`, `flag` the words whose flags
say that they hold a string, `held` the records with a callback. `Accept` and
`Refuse` are `parse_lua_function`, `StartTurn`, `Do`, `EndTurn` the steps of
`lua_do_all`, and `Answer` a callback from the library. A script runs for an
update or when it is called back, so it may make calls in the middle of a turn.
`doomed` are the calls whose record took a word that was still flagged from an
earlier turn: it is freed as a string, and the callback reads freed memory.
`RecordsOwed` says that nothing else goes wrong with a record: those held are
exactly those of the accepted calls that were not called back.

| Run | Instance | Shows |
|---|---|---|
| `lua_calls` | three calls of five kinds, 16 words, a document of two parts, local files of one and a half parts and of none, fairness | `RecordsOwed`, `FilesAreWhole`, `CalledBack` |

Two parts have a first and a last, and one and a half make the last one short.
Three calls are one to set a flag, one to trip over it, and one beside them. The
five kinds include the two that the switch of `lua_do_all` does not fit:
`send_document2` (shares the case of `send_document`, which reads the wrong
words) and `restore_msg` (has no case, so the program stops). Others with the
same trouble behave like them: `reply_photo2`, and `reply_audio`, which reads a
message as a peer. Fairness: the loop turns and requests are answered
(`QueryContract`).

Proved, for any documents, sources and number of requests (`Script_proofs`):
`FilesWhole`. The invariant `FilesInv` says that the parts of a file that no
load resumed are in order (`InOrder`), that a load asks for the part behind
those it has written (`LoadFits`), and that a send has saved as many parts as
its offset says (`SendFits`), from which the assertions of `send_part` follow.

Proved of the queue, for any number of calls and words: `RecordsKept`
(`RecordsOwed`), `QueueRunsFiles` (what the calls of scripts make of the files
is a behaviour of `Files`) and with it `ScriptsFilesWhole`. `QueueInv` reads the
queue call by call. `Blocks`: it is made of whole calls, each a function word
with as many arguments as `lua_do_all` takes for it. `Flagged`: a word that
holds a string has its flag. `Owed`: a call that `lua_do_all` has not come to is
neither asked nor called back. `Placed`: every call that was not called back is
asked, or transfers a file, or waits in the queue. `Copies`: the strings that
are allocated are arguments not come to yet. `Records`: a call is at one place
at a time, and its record is there until it is called back or was taken for a
string. `CalledBack` is left to TLC.

Left out: decryption, thumbnails, the counters of the prompt; what is pushed on
the Lua stack; `postpone`, whose alarm leaks its record.

## Lists page by page: `Paging`, `MCClient`, `Client_proofs`

One call of one of the operations that collect a list: `kind` says which,
`E` is the extra of the query, `got` what came, `list` the server's list.
`Answer` is the callback of a page with the request for the next one, `Error`
its failure, `Arrive` and `Delete` change the list between two pages. A list of
dialogs or channels starts at its front: the code sends the offset of the
dialogs in the place of a message's id (`queries.c:1754`), and what the server
makes of that with no peer beside it is not known.

Checked in the run `client`: `PagesJoin`, `AllThere`, `Ends`, over all limits
1..7 and (but for dialogs and channels) offsets 0, 1, 2, 4, 6 of lists of up to six items in pages of two, of
which two may arrive and one be deleted meanwhile: limits and offsets fall
inside, at and beyond the end of a page and of the list. Fairness: a page is
answered.

Proved, for any length of the list, limit, offset and page size, any number of
arrivals and of pages (`Client_proofs`): `PagesAlwaysJoin` (`PagesJoin`) and
`NothingLeftOut` (`AllThere`). Assumed is `PagingAssumption`: a limit and a page
are not empty, an offset is not negative (a command passes on any number that is
typed; what a server answers to others is not known). TLC found `PagingInv`,
below, to hold on the instance of the run before it was proved. Neither property
is inductive, for what has come is the front of the window only because the next
query asks from the right place. `PagingInv` adds what the query asks. Before
the first answer it asks from the offset, for the limit (`Opening`). After one,
`Underway`: a history or a search is anchored at the last item that came, and
what it still asks for makes up the limit, or the rest of the list, together
with what has come (`Continues`), which is what lets the end of the counting be
the end of the window; the others count what has come. The server's list falls,
and until an item is deleted it counts down to 1 without a gap, so that an
item's number says where in the list it is, whatever arrived in front of it. The
work is then in lemmas about parts of lists: a page that starts after the last
item of a front makes a longer front (`AnchoredJoins`, `JoinIs`), and how long a
page is (`CutIs`, `PageSizeIs`).

The properties are exact about what the code does not give. An item deleted
behind a page of a history or a search makes the rest be asked for for ever,
each time with an empty answer (`Ends`). A global search is not anchored, so
items that arrive make it repeat others; nor are channels and members. The
history of a channel is one page. Members ask for the full limit each time and
may give more than was asked for. A local history with an offset stops that many
items early.

## Peers and their names: `Peers`, `MCRequests`, `Client_proofs`

`peer_tree` holds the record of each peer (status, title, printed name,
username, and of a group the version of its list of members), `by_name` is
`peer_by_name_tree`, `by_username` the tree of `interface.c`. `had` says which
usernames a peer has had at one time or another; an answer may be old when it
comes and say any of them. Each way the server's words get in is an action with
the name of the function that fetches them (`tglf_fetch_alloc_user`, `_chat`,
`_chat_full`, `_channel`, `UpdateUserName`, `UpdateChatParticipants`,
`Requested`, `Unheard`, `Agreed` for secret chats); `AskRead` and
`mark_read_on_receive` are `mark_read` of a peer that is not known, `Restart`
and `read_secret_chat` the start with the file of the secret chats.
`bl_do_user`, `bl_do_chat`, `bl_do_channel`, `bl_do_encr_chat` are the operators
that change the record and both trees together. An assertion that fails is a
value of `fault`.

A key that the tree has already need not end the program: `tree_insert` asserts
only if it meets the entry, and puts the new one above it if that has the
greater random priority (`tgl/tree.h:68-71`). So `Describe` may do either, and
`above` remembers which of two entries with one username is found. `tree_delete`
takes the upper one; when a peer gives up a username under an entry of another
(`LosesAnother`), the entry of that other is freed and its own stays with a key
that is freed, which is the fault "freed".

Checked in the run `queries_contract`, beside the requests: `FoundByName`,
`FaultsAreNamed`. The instance has two users, a group, a channel and a secret
chat with one of the users; two titles, one of which prints like the name of the
secret chat; two usernames and the empty one; two numbers to tell equal names
apart; a past in which usernames stay with their owners and one in which they
were shared; two versions of a list of members. A third past is that of a
program that hears of no peers, in which the requests run. `FoundByName` says of
usernames what is true of them: each entry is that of a peer with that username,
no peer is without its entry, and where two have one username they have had one
in common and it is settled which is found. `FaultsAreNamed` gives the only
three ways to an assertion or to a freed entry: two peers that have had one
username (or two users without one that change their names, told with an empty
username), more peers of one name than there are numbers, and a peer asked for
by number that was never heard of. TLC reaches each of the four faults.

Proved, for any peers, names, usernames and pasts (`Client_proofs`):
`PeersAreFound`, `ListsGrowNewer` (`MembersNeverOlder`) and `FaultsHaveReasons`
(`FaultsAreNamed`). For names, lemma `KeyMoves` says of one tree that taking an
entry out by its key and putting it in under a free one keeps "one entry for
each, under what it is called now"; `NameMoves` uses it. For usernames
`LayerMoves` says that an entry put above those with its key keeps them ordered,
as long as the peer gives up no key under another's; `UsernameMoves` uses it.
For the faults the invariant adds
that a username in a record is one that its peer had, and that names are
finitely many: when no number is free, each number is taken by another name, so
there are more of these than numbers (`NamesUsedUp`). That the search stops at
the first free number is an argument about the least one (`LeastNumber`), not an
induction.

Left out: photos, phones, access hashes, flags and read marks, which are
replaced by what came last (the flags not always: a mask leaves the bot flag
out, and two updates keep the low 16 bits only), and `TGLPF_DELETED`, which
nothing here looks at. `user_list_version` is never set, so updates that add or
delete one member never change the list (`binlog.c:226`, `253`).

## The program: `Commands`, `Login`, `Console`, `MCClient`, `Client_proofs`

`Login` goes from the start of the process to `on_started`: keys and
configuration of the data centres (`Authorize`; how is in `Auth`), the words
that are asked for on the terminal (`TypePhone`, `TypeCode`,
`TypeRegistration`, `TypeHash`), `CodeSent`, `SignedIn`, `Migrate`, the export
and import of the authorization (`Exported`, `Imported`, `ExportRefused`), the
first difference and the first lists.

`Commands` is what a line does: `Takes` is the table of commands, `Argument` one
turn of the loop in which `interpreter_ex` turns tokens into arguments, `Read`
the loop from the start of a line, `Handle` what each handler and
the operation it calls do about an answer (answer before they return, call back
later, never, or abort). A token stands for everything it can name; among the
printed ids are those of a user and of a secret chat that the client does not
know, which the reading of a line takes like any other (`interface.c:467-492`).
The rest of a handler's work is in the modules of the stores.

`Console` puts both together with the terminal and the connections of the
socket. `link` and `refcnt` are a connection's `struct in_ev`, `ops` the
commands that are not answered, `notify_ev` who gets the updates, `dialogue` the
one question the program may be asking. `Accept`, `Overflow`, `Close` are the
callbacks of a connection, `Line` a command, `AnswerTo` its answer, `TypeFor`
the words that it asks for, `Halt` the test of `safe_quit`.

| Run | Instance | Shows |
|---|---|---|
| `client` | two data centres and one learned of late, one connection and the terminal, two commands that wait, lines of up to three tokens, with and without auth file, bot, socket and daemon; beside it `Paging`; fairness | `HandlersGetTheirArguments`, `RefsAreHeld`, `LogsInOnce`, `LetsGo`, `Starts` and those of `Paging` |

One connection is freed by the socket, by the answer to a command, or by giving
up the updates; two commands let the answer to one come before the other's.
Until the login is over one command waits at a time; a socket is listened to
only when the account is in the auth file, `daemonize` only goes with a socket,
and a data centre is learned of only during the login: these cut products of
parts that do not meet. So in the run no connection is there while the login
asks for words; what comes between them there is the commands of the terminal.
Fairness: keys are made, queries answered, and who is
asked types the right words in the end; nobody has to give a command or to
close a connection. `Room` is 6 on the instance, the arguments of the longest
row, and 1000 in the code (`interface.c:3520`).

The properties name what the code does not give. `Starts`: a data centre that is
learned of while the others are being signed is never signed (`queries.c:5117`),
and a command that asks for words takes the login's dialogue (`loop.c:246`).
`LetsGo`: a few commands are never answered (`set_ttl`, `mark_read` of a secret
chat with an error, among others), and a new phone number may be asked about for
ever. `HandlersGetTheirArguments`: `fwd` with a peer only, `broadcast` without a
text, `create_channel` with a word in quotes after its users, which is looked
for until there is no room, and a line of 1000 words abort; `TakesOnTrust` names
the commands that use a printed id without asking whether the client knows it:
the picture of a key (`queries.c:3946`), a location, and a file, where the
program ends only when all of it is with the server, and the peer of the chat
mode, whose name the prompt is to show (`interface.c:575`); and `reply_audio`,
which the table gives the handler of `send_audio` (`interface.c:1727`), so that
the id of a message is read as that of a peer. Seen besides:
`quit` in daemon mode frees the connection that is being read
(`interface.c:769`); a command before there is any key fails an assertion
(`queries.c:224`), as does an error of the export (265) or a password of more
than 128 characters; a connection that has sent 4096 bytes without an end of
line is not heard any more.

Proved of the whole program, for any data centres, connections and commands
(`Client_proofs`):

`LoginOnce` (`LogsInOnce`). The login is first proved alone, with anything
beside it that leaves its own state alone and may take the dialogue for itself
(`BesideLogin`); every other step of `Console` is one of those.
`LoginInv` says that an export is open only for data centres that are not
signed, and only while the login exports, that the count of logins says which
half of the login this is, and that the words of a person are asked for only
when the login waits for them.

`ConnectionsHeld` (`RefsAreHeld`): the count of a connection is what refers to
it, the socket, the updates, the commands that were given on it and are not
answered and those that never will be, and a connection is freed exactly when
that is nothing. With the types (`RefsInv`) this is inductive; what is proved
about it is that every command adds itself once and lets go once, in each of
the ways an operation may take: answered before it returns, later, never, or
asked for words first, or ending the program. `Wording` says beside it that an operation which takes
the dialogue says what for, so that it is a command that exists which the typed
words belong to.

`HandlersAlwaysGetTheirArguments` (`HandlersGetTheirArguments`), for lines of
any length and any `Room` above 5. What a line becomes is a recursive function
of the place of the loop (`Points`: in the row, in the line, what was read), so
first the loop is shown to end: `Left`, the room for arguments that is left and
the words of the row that are left, falls with every turn that goes on
(`TurnGoesFurther`). From that follow that the equation of `Read` has a
solution, built up to each measure by induction (`ReadingGoesOn`, `AllIsRead`,
`ReadIs`), and a rule of invariants for the loop (`ReadBecomes`): what holds at
the start of a line and is kept by every turn says what the line becomes. With
it a row in which nothing is repeated gives its handler one argument for each of
its words, and a user, chat, channel, secret chat or message id where the row
asks for one (`PlainRead`; 116 rows, `TableIsPlain`); the handlers of those rows
then find what they assert, but for what `TakesOnTrust` names
(`CommandHandled`, a lemma for each group of commands). In the other four rows the arguments repeated so far are a piece of
the line (`Gathered`, `RepeatedRead`), from which it follows which of their
lines fail. On lines longer than those of the run, the word in
quotes of `create_channel` may stand anywhere after the users.

Left out: chat mode, in which a line is sent as a message; completion; the
wording of what is printed.

## The bot's record: `Moderation`, `MCModeration`, `Moderation_proofs`

`file` is the JSON file (an entry per supergroup, and the list of groups),
`mutes` and `silenced` the sets in redis, `pending` the requests to the server
whose answers change them. A command is judged when it is given and takes effect
when its answer comes; answers come in any order. `named` is a history: who was
named for power by somebody entitled. Actions have the names of the commands of
`ar-supergoup.lua` and `ar-owners.lua` (`Add`, `Remove`, `NewLink`,
`AskPromote`, `Promoted`, `AskSetOwner`, `OwnerSet`, `KickReplied`, `LockGroup`,
`Mute`, `OwnersLock`, ...), ranks (`IsAdmin`, `IsOwner`, `IsMomod`) those of
`crystal/utils.lua`.

| Run | Instance | Shows |
|---|---|---|
| `moderation` | the bot, a sudo user, two users, two groups (symmetric), one setting of each kind, two requests under way, four commands | `GroupsHaveEntries`, `PowerIsGranted`, `KicksSpareRanks` |

`superadd`, `superrem` and `newlink` keep the file of the moment they were given
and write all of it back with the answer, so two requests and four commands are
what it takes to take a group away, name somebody, and write the old file over
it. The settings of a kind are treated alike by the code, so one stands for all.

Proved, for any users, chats, ranks and support team (`Moderation_proofs`):
`GroupsAgree` and `NoPowerUnnamed`, from the invariant `PowerInv`: the file is
good, and so is every file that a request under way has kept, where good means
that groups and entries agree and that power was named. That the kept files are
part of it is what makes it inductive, since any of them may become the file.
`RanksSpared` (`KicksSpareRanks`) is an action property: it needs no invariant,
since the ranks are those of the step that kicks, whatever was asked before.

Seen besides: `save_data` empties the file before it writes it, so a crash
between the two leaves no record (the model writes at once); a kick by text asks
no rank of who gives it, because `and` binds closer than `or`; a user id in a
command is text and sudo users are numbers, so commands by number do not spare
them; the private command that cleans the list of muted users asks no rank; the
branch that mutes a member by name is never reached (`ar-supergoup.lua:2581` is
true of every such command).

Left out: titles and names, lists that are only printed, the numbers of the
flood limit (a text here), channel titles kept by the server.

## The bot's messages: `Guard`, `MCGuard`, `Script_proofs`

What becomes of one message: `Worked` takes the turns of the plugins one after
the other. In the first half of the turns each may look at the message
(`pre_process`), in the second each runs whose pattern matches, both in the
order of `pairs(plugins)`, which nothing fixes; a failure ends the work where it
is (`crystal/monster.lua:119`). `OnMsgReceive` is one message; `NameFound`,
`MessageFound`, `LookupFails` the answers to what an order looks up; `Expire`
and `Cron` clear the counters; `Change`, `Reload`, `Restart` and `ChangeRank`
come from outside. `db` is redis, `lua` the globals of the plugins, `fate` what
became of the last message: who was kicked, what deleted, whether it was obeyed.

| Run | Instance | Shows |
|---|---|---|
| `guard` | an admin, an owner and a user; two supergroups with different settings, an old group and the private chat; plugins in two orders; floods of two, limits of 2, 1 and 2 in place of 4, 4 and 8; four messages of fourteen shapes, one look-up, one change from outside | `BansAreEarned`, `BannedIsNotObeyed`, `RanksAreSpared`, `OwnSettingWins` |

The two orders are opposite, so each plugin runs before and after each other
one. The limits are counters, and with the small ones each is reached within
four messages. The fourteen messages are one of each shape that some branch tells
apart: filtered and free text, forwarded, joining, adding, in an old group, and
orders by name, number and reply, and in the private chat. There `run` of
ar-banhammer answers with the id at once (138-142), but `ar-owners.lua` takes a
ban, an unban and a kick of the owner of a group (311-356, `OwnersOrder`), and
looks neither at a ban of the owner, since `pre_process` silences in chats and
channels only (`ar-banhammer.lua:66`), nor at the rank of who is kicked. Those
orders are the exception in `BannedIsNotObeyed` and `RanksAreSpared`.

Seen besides: the functions `banall_by_reply` and `unban_by_reply` do not exist;
the shipped file has no `GBan_log`, so the fourth kick for flooding fails after
it has banned; a forwarded message makes `run` fail, so the lock of `fwd` works
only when that plugin is ordered before it; who joins a locked group is kicked
whatever his rank.

Proved, for any users, chats, settings, limits, messages and orders of the
plugins (`Script_proofs`): `EveryBanIsEarned` (`BansAreEarned`),
`NoBannedIsObeyed` (`BannedIsNotObeyed`), `RanksAreNotKicked` (`RanksAreSpared`),
`UnlockedLosesNothing` (`OwnSettingWins`) and `GuardTypeCorrect`. The invariant
`GuardInv` says more than that bans are earned. `Earned`: redis has counted no
more additions, and of a user not yet at the limit no more kicks for flooding,
than the history; and whoever was struck in this window of `kicktable` is still
in the table, so that he is not struck twice. `Warranted`: a lookup that may ban
was ordered by somebody who might order it, which the late answer relies on.

The work on a message is a recursion over the turns. `Good` says what the work
is worth after turn i: its records are sound, whoever was kicked might be, no
filter deleted against the setting; while plugins still look, no ban was lifted
or added unless the work has ended; and once banhammer has looked, the command
of a banned user is no longer whole. One turn more keeps it (`GoodTurn`, from one
lemma for each plugin), and `WorkedGood` goes from one turn to all by the least
turn that would break it. What the order of the plugins is worth is seen here:
`NoBannedIsObeyed` needs that every `pre_process` comes before every `run`, and
nothing about the order within each.

Left out: the one-pattern filters, which are one; messages of the bot itself and
old ones; `leave_ban.lua:7-15`, which bans only with a setting that no command
writes; the kick of `arabic_lock.lua`, a filter that spares ranks like the
others; the global bans that a sudo user imports (`admin.lua`, sync_gbans) and
the deleting of ban lists (`save.lua`), which add or take bans by hand; the other
commands of `ar-owners.lua` and the kicks of `ar-supergoup.lua`, which are in
`Moderation`. The history that `BansAreEarned` compares with is never shortened:
an order stays in it when the ban is lifted, so a ban that came back without a
new order would not be seen.

## Checking

Each run is `tlc -config X.cfg M` with the module and the cfg that
`PROJECT.json` lists, each proof `tlapm M.tla`. `PROJECT.json` also names, for
every checked property, a mutant of a definition that breaks it; the mutants
stand next to the definitions they change.

Deadlock is not checked: every model has an end, because the program stops or
the bound on what the environment does is reached. That nothing waits for ever
before that is said by the liveness properties.

Properties that are proved and that no run checks any more: the type invariants,
`NoTimerOnFreed`, `WaitingIsParked`, `NewIdOnlyForNewSession`, `AppliedOnce`,
`AppliedExactly`, `LockMatches`, `KeyIsRenewed`, `OneBind`,
`MembersNeverOlder`. TLC found them to hold before they were proved.

## What is not modelled

What stays with TLC, because it cannot be proved here: liveness under fairness
and `ENABLED` (`CatchesUp`, `Opens`, `Settles`, `CalledBack`, `Ends`, `LetsGo`,
`Starts`, the liveness of `QueryContract`).
The rest of the inventory without a module, with the reason (the same as in
`PROJECT.json` under `components`):

- the buffers of a connection and the framing of packets: see the plan;
- channel updates: the counter of a channel stays 0, so nothing is sequenced;
- the Python binding: it has the structure of the Lua one, but fits an older
  version of the library (it passes numbers where pointers to message ids are
  expected, `python-tg.c:922`, 1036);
- the other plugins of the bot, which answer a message with a few lines and keep
  a flag or a word that nothing else reads;
- `tl-parser`, `generate.c` and what they generate, which run at build time;
- cryptography, JSON, tables of types and vendored libraries: no state.
