------------------------------ MODULE Queries ------------------------------
(***************************************************************************)
(* The RPC query engine of tgl (src/tg/tgl/queries.c): every request of    *)
(* the client is a struct query that lives in a tree keyed by the MTProto  *)
(* message id it was last sent with, has a timer that sends it again until *)
(* the server acknowledges it, and ends with one call of its callback.     *)
(* The handlers of mtproto-client.c that feed it (acknowledgements,        *)
(* results, errors, bad salt, bad message, new session) are its actions.   *)
(*                                                                         *)
(* The server and the network are the environment: a message transmitted   *)
(* in the present session of a data centre may be lost, delivered, and     *)
(* answered in any order; what belongs to a past session is dropped by     *)
(* process_rpc_message, so it is forgotten as soon as the session changes. *)
(***************************************************************************)
EXTENDS Naturals, Integers, FiniteSets

CONSTANTS
  Query,       \* requests the program may make, each at most once
  DC,          \* data centres
  HomeDC,      \* DC_working at start
  FirstSession, \* the session of each DC at start
  MsgId,       \* message ids; one no longer referred to may be used again
  SessionId,   \* session ids; likewise (the code draws 64 random bits)
  Forced,      \* queries sent with QUERY_FORCE_SEND (help.getConfig, bind)
  Codes,       \* kinds of answers other than a result that the server gives
  Repeats,     \* TRUE: the server may give an answer again
  Pfs,         \* TRUE: enable_pfs, so that temporary keys are regenerated
  MaxDrift,    \* bound: active_queries is not driven below -MaxDrift
  NoId, NoSession, NoQuery  \* no message id, session_id 0, no query

AllCodes == {"fail", "migrate", "password", "internal", "bind", "helper"}

ASSUME ConstantsAssumption ==
  /\ HomeDC \in DC
  /\ FirstSession \in [DC -> SessionId]
  /\ Forced \subseteq Query
  /\ NoId \notin MsgId
  /\ NoSession \notin SessionId
  /\ NoQuery \notin Query
  /\ Codes \subseteq AllCodes
  /\ Repeats \in BOOLEAN
  /\ Pfs \in BOOLEAN
  /\ MaxDrift \in Nat

VARIABLES
  issued,      \* queries handed to tglq_send_query
  alive,       \* those whose struct, data and timer are still allocated
  tree,        \* TLS->queries_tree
  armed,       \* those whose timer q->ev is inserted
  acked,       \* those with QUERY_ACK_RECEIVED
  msg_id,      \* q->msg_id, the key of q in the tree
  dc,          \* q->DC
  session_id,  \* q->session_id
  calls,       \* how often the callback of the query was called
  DC_working,  \* TLS->DC_working
  current,     \* DC->sessions[0]->session_id
  configured,  \* data centres with flag 4: requests are transmitted
  active_queries,  \* TLS->active_queries
  pwd,         \* the password dialogue: "none", "get", "typing" or "check"
  waiting,     \* the query whose resend_query_cb the dialogue will call
  locked,      \* TLS->locks & TGL_LOCK_PASSWORD
  safe_quit,   \* the flag of the command safe_quit
  process,     \* "running", "halted" or "aborted" (a failed assertion)
  inbox,       \* messages of the present session on their way to a DC
  known,       \* messages of the present session the DC may answer
  announced    \* DCs that sent new_session_created in the present session

engine == <<issued, alive, tree, armed, acked, msg_id, dc, session_id, calls>>
dialogue == <<pwd, waiting, locked>>
client == <<DC_working, current, configured>>
program == <<safe_quit, process>>
server == <<inbox, known, announced>>
vars == <<engine, dialogue, client, program, server, active_queries>>

Message == [query : Query, id : MsgId]

-----------------------------------------------------------------------------
(* Message ids and sessions.                                               *)

UsedIds == {msg_id[q] : q \in alive}
             \cup {m.id : m \in UNION {inbox[d] \cup known[d] : d \in DC}}
FreeIds == MsgId \ UsedIds
UsedSessions == {session_id[q] : q \in alive} \cup {current[d] : d \in DC}
FreeSessions == SessionId \ UsedSessions

\* generate_next_msg_id: an id unlike any that still means something.
NextMsgId == CHOOSE id \in FreeIds : TRUE
NextSession == CHOOSE s \in FreeSessions : TRUE

\* tglmp_encrypt_send_message puts nothing on the wire before flag 4 is set,
\* unless the caller forces it.
Open(q, d) == d \in configured \/ q \in Forced

\* The message of query q goes to data centre d under id.
Transmit(q, d, id) ==
  inbox' = IF Open(q, d)
           THEN [inbox EXCEPT ![d] = @ \cup {[query |-> q, id |-> id]}]
           ELSE inbox

\* The session a query notes when it is sent: 0 if nothing was transmitted.
Noted(q, d) == IF Open(q, d) THEN current[d] ELSE NoSession

\* q was transmitted in the present session of its data centre.
InSession(q) == session_id[q] # NoSession /\ session_id[q] = current[dc[q]]

\* The session of d is replaced: nothing said in the old one counts.
Replaced(d) ==
  /\ FreeSessions # {}
  /\ current' = [current EXCEPT ![d] = NextSession]
  /\ inbox' = [inbox EXCEPT ![d] = {}]
  /\ known' = [known EXCEPT ![d] = {}]
  /\ announced' = announced \ {d}

-----------------------------------------------------------------------------
Fresh ==
  /\ issued = {} /\ alive = {} /\ tree = {} /\ armed = {} /\ acked = {}
  /\ msg_id = [q \in Query |-> NoId]
  /\ dc = [q \in Query |-> HomeDC]
  /\ session_id = [q \in Query |-> NoSession]
  /\ calls = [q \in Query |-> 0]
  /\ DC_working = HomeDC
  /\ current = FirstSession
  /\ configured \in SUBSET DC
  /\ active_queries = 0
  /\ pwd = "none" /\ waiting = NoQuery /\ locked = FALSE
  /\ safe_quit = FALSE
  /\ inbox = [d \in DC |-> {}]
  /\ known = [d \in DC |-> {}]
  /\ announced = {}

Init == Fresh /\ process = "running"

-----------------------------------------------------------------------------
(* The operations of the engine, as parts of actions.                      *)

\* A message of q under a new id enters the tree: the second half of
\* alarm_query, and tglq_send_query_ex.
PutInTree(q, d) ==
  /\ FreeIds # {}
  /\ tree' = tree \cup {q}
  /\ msg_id' = [msg_id EXCEPT ![q] = NextMsgId]
  /\ session_id' = [session_id EXCEPT ![q] = Noted(q, d)]
  /\ armed' = armed \cup {q}
  /\ acked' = acked \ {q}
  /\ Transmit(q, d, NextMsgId)

\* alarm_query: within the session the same message goes out again under the
\* same id; otherwise q is sent anew.
AlarmQuery(q) ==
  IF InSession(q)
  THEN /\ armed' = armed \cup {q}
       /\ Transmit(q, dc[q], msg_id[q])
       /\ UNCHANGED <<tree, msg_id, session_id, acked>>
  ELSE PutInTree(q, dc[q])

\* q leaves the tree and its data and timer are freed; what its fields held is
\* forgotten.
Dispose(q) ==
  /\ tree' = tree \ {q}
  /\ alive' = alive \ {q}
  /\ armed' = armed \ {q}
  /\ acked' = acked \ {q}
  /\ msg_id' = [msg_id EXCEPT ![q] = NoId]
  /\ session_id' = [session_id EXCEPT ![q] = NoSession]
  /\ dc' = [dc EXCEPT ![q] = HomeDC]
  /\ UNCHANGED issued

\* The server knows the present message of q, and may answer it. It then
\* passes over later copies of the message, or answers them again.
Owned(q) == q \in tree /\ [query |-> q, id |-> msg_id[q]] \in known[dc[q]]
Answered(d, m) ==
  /\ known' = IF Repeats THEN known ELSE [known EXCEPT ![d] = @ \ {m}]
  /\ inbox' = IF Repeats THEN inbox ELSE [inbox EXCEPT ![d] = @ \ {m}]
  /\ UNCHANGED announced
\* The server names the id of a message it does not accept. Copies travel in
\* containers with ids of their own (alarm_query), so a rejected copy names no
\* query, and q is named only before a copy of it was accepted.
Rejected(q) ==
  LET m == [query |-> q, id |-> msg_id[q]]
  IN  q \in tree /\ m \in inbox[dc[q]] \ known[dc[q]]
AnswerTo(q) == Answered(dc[q], [query |-> q, id |-> msg_id[q]])

Running == process = "running"
Decrement == active_queries' = active_queries - 1

-----------------------------------------------------------------------------
(* Requests and timers.                                                    *)

\* tglq_send_query_ex; the program sends to DC_working, forced queries and
\* file parts go to the data centre they name.
SendQuery(q, d) ==
  /\ Running
  /\ q \notin issued
  /\ issued' = issued \cup {q}
  /\ alive' = alive \cup {q}
  /\ dc' = [dc EXCEPT ![q] = d]
  /\ PutInTree(q, d)
  /\ active_queries' = active_queries + 1
  /\ UNCHANGED <<calls, known, announced, dialogue, client, program>>

\* alarm_query_gateway, when the timer of q expires.
Alarm(q) ==
  /\ Running
  /\ q \in armed
  /\ AlarmQuery(q)
  /\ UNCHANGED <<issued, alive, dc, calls, known, announced, dialogue,
                 client, program, active_queries>>

-----------------------------------------------------------------------------
(* Messages of the server.                                                 *)

\* tglq_query_ack, called by work_msgs_ack.
Ack(q) ==
  /\ Running
  /\ Owned(q)
  /\ q \notin acked
  /\ acked' = acked \cup {q}
  /\ armed' = armed \ {q}
  /\ UNCHANGED <<issued, alive, tree, msg_id, dc, session_id, calls,
                 active_queries, dialogue, client, program, server>>

\* Mutant of Result: the query stays in the tree.
ResultKeepsQuery(q) ==
  /\ Running
  /\ Owned(q)
  /\ calls' = [calls EXCEPT ![q] = @ + 1]
  /\ AnswerTo(q)
  /\ Decrement
  /\ UNCHANGED <<issued, alive, tree, armed, acked, msg_id, dc, session_id,
                 dialogue, client, program>>

\* tglq_query_result of a query in the tree.
Result(q) ==
  /\ Running
  /\ Owned(q)
  /\ Dispose(q)
  /\ calls' = [calls EXCEPT ![q] = @ + 1]
  /\ AnswerTo(q)
  /\ Decrement
  /\ UNCHANGED <<dialogue, client, program>>

\* tglq_query_result (or _error) for an id that is not in the tree: nothing
\* happens, except that active_queries goes down. For an error the line of the
\* log takes a method's name from the query that is not there (queries.c:317),
\* which is evaluated only when the program is told to log warnings (-v);
\* launch.sh does not, and the model is of a program that runs silently.
UnknownAnswer(d, m) ==
  /\ Running
  /\ m \in known[d]
  /\ \A q \in tree : msg_id[q] # m.id
  /\ active_queries > - MaxDrift
  /\ Decrement
  /\ Answered(d, m)
  /\ UNCHANGED <<engine, dialogue, client, program>>

\* tglq_query_error 400, 403, 404 and 401: on_error calls the callback.
ErrorFail(q) ==
  /\ Running
  /\ "fail" \in Codes
  /\ Owned(q)
  /\ Dispose(q)
  /\ calls' = [calls EXCEPT ![q] = @ + 1]
  /\ AnswerTo(q)
  /\ Decrement
  /\ UNCHANGED <<dialogue, client, program>>

\* Mutant of ErrorMigrate: the query is moved, but its timer is not inserted.
ErrorMigrateSilent(q, d) ==
  /\ Running
  /\ "migrate" \in Codes
  /\ Owned(q)
  /\ d # dc[q]
  /\ DC_working' = d
  /\ tree' = tree \ {q}
  /\ dc' = [dc EXCEPT ![q] = d]
  /\ session_id' = [session_id EXCEPT ![q] = NoSession]
  /\ acked' = acked \ {q}
  /\ armed' = armed \ {q}
  /\ AnswerTo(q)
  /\ Decrement
  /\ UNCHANGED <<issued, alive, msg_id, calls, current, configured, dialogue,
                 program>>

\* tglq_query_error 303 to another DC: the query keeps its struct, leaves the
\* tree and is sent anew by its timer; it is no longer counted as active.
ErrorMigrate(q, d) ==
  /\ Running
  /\ "migrate" \in Codes
  /\ Owned(q)
  /\ d # dc[q]
  /\ active_queries > - MaxDrift
  /\ DC_working' = d
  /\ tree' = tree \ {q}
  /\ dc' = [dc EXCEPT ![q] = d]
  /\ session_id' = [session_id EXCEPT ![q] = NoSession]
  /\ acked' = acked \ {q}
  /\ armed' = armed \cup {q}
  /\ AnswerTo(q)
  /\ Decrement
  /\ UNCHANGED <<issued, alive, msg_id, calls, current, configured, dialogue,
                 program>>

\* tglq_query_error 420, 500 and the rest: the timer is inserted to try again,
\* then q is freed with its timer, because res is still 0.
ErrorInternal(q) ==
  /\ Running
  /\ "internal" \in Codes
  /\ Owned(q)
  /\ Dispose(q)
  /\ AnswerTo(q)
  /\ Decrement
  /\ UNCHANGED <<calls, dialogue, client, program>>

\* tglq_query_error 400 of auth.bindTempAuthKey: on_error returns -11, so
\* process_rpc_message fails the session.
ErrorBind(q) ==
  /\ Running
  /\ "bind" \in Codes
  /\ q \in Forced
  /\ Owned(q)
  /\ Dispose(q)
  /\ Decrement
  /\ Replaced(dc[q])
  /\ UNCHANGED <<calls, DC_working, configured, dialogue, program>>

\* tglq_query_error 401 SESSION_PASSWORD_NEEDED: q keeps its struct outside
\* the tree and without timer; the first one starts the password dialogue,
\* whose account.getPassword is itself counted as active.
ErrorPassword(q) ==
  /\ Running
  /\ "password" \in Codes
  /\ Owned(q)
  /\ tree' = tree \ {q}
  /\ armed' = IF q \in acked THEN armed ELSE armed \ {q}
  /\ AnswerTo(q)
  /\ IF locked
     THEN Decrement /\ UNCHANGED dialogue
     ELSE /\ locked' = TRUE
          /\ pwd' = "get"
          /\ waiting' = q
          /\ UNCHANGED active_queries
  /\ UNCHANGED <<issued, alive, acked, msg_id, dc, session_id, calls, client,
                 program>>

\* work_bad_server_salt: the message was not accepted, and
\* tglq_query_restart runs alarm_query at once.
BadServerSalt(q) ==
  /\ Running
  /\ Rejected(q)
  /\ AlarmQuery(q)
  /\ UNCHANGED <<issued, alive, dc, calls, known, announced, dialogue,
                 client, program, active_queries>>

\* work_bad_msg_notification 16, 17 or 64: tglq_regen_query, and then the
\* session fails.
BadMsgNotification(q) ==
  /\ Running
  /\ Rejected(q)
  /\ acked' = acked \ {q}
  /\ armed' = armed \cup {q}
  /\ session_id' = IF InSession(q) /\ Open(q, dc[q]) THEN session_id
                   ELSE [session_id EXCEPT ![q] = NoSession]
  /\ Replaced(dc[q])
  /\ UNCHANGED <<issued, alive, tree, msg_id, dc, calls, DC_working,
                 configured, active_queries, dialogue, program>>

\* Mutants of Stale: acknowledged queries are left alone; every query of the
\* data centre is sent anew.
StaleUnacked(d) ==
  {q \in tree \ acked : dc[q] = d /\ session_id[q] # current[d]}
StaleAll(d) == {q \in tree : dc[q] = d}

\* Queries in the tree that d knows from another session.
Stale(d) == {q \in tree : dc[q] = d /\ session_id[q] # current[d]}

\* work_new_session_created: tglq_regen_queries_from_old_session. (That it
\* also asks for the difference is the subject of the module Updates.)
NewSessionCreated(d) ==
  /\ Running
  /\ d \notin announced
  /\ d \in configured \/ inbox[d] \cup known[d] # {}
  /\ announced' = announced \cup {d}
  /\ session_id' = [q \in Query |-> IF q \in Stale(d) THEN NoSession
                                    ELSE session_id[q]]
  /\ armed' = armed \cup Stale(d)
  /\ UNCHANGED <<issued, alive, tree, acked, msg_id, dc, calls, inbox, known,
                 active_queries, dialogue, client, program>>

-----------------------------------------------------------------------------
(* Sessions and keys.                                                      *)

\* fail_session, after a message with a bad time or a negative result.
FailSession(d) ==
  /\ Running
  /\ Replaced(d)
  /\ UNCHANGED <<engine, DC_working, configured, active_queries, dialogue,
                 program>>

\* tglmp_regenerate_temp_auth_key: flags 2 and 4 go, the session id changes.
RegenerateKey(d) ==
  /\ Running
  /\ Pfs
  /\ configured' = configured \ {d}
  /\ Replaced(d)
  /\ UNCHANGED <<engine, DC_working, active_queries, dialogue, program>>

\* mpc_on_get_config and set_flag_4: the answer to the help.getConfig that
\* the module Auth sends; its query is not one of Query.
SetConfigured(d) ==
  /\ Running
  /\ d \notin configured
  /\ configured' = configured \cup {d}
  /\ UNCHANGED <<engine, DC_working, current, active_queries, dialogue,
                 program, server>>

-----------------------------------------------------------------------------
(* The password dialogue (tgl_do_check_password). Its queries are answered *)
(* by the server as a whole; they are counted as active while they run.    *)

PasswordUnchanged == UNCHANGED <<client, known, announced>>
EngineButCount == UNCHANGED <<engine, inbox, program>>

\* check_get_password_on_answer with a password set: the user is asked.
PasswordAsked ==
  /\ Running
  /\ pwd = "get"
  /\ pwd' = "typing"
  /\ Decrement
  /\ UNCHANGED <<waiting, locked>>
  /\ EngineButCount /\ PasswordUnchanged

\* check_get_password_on_answer without one: the lock goes and the waiting
\* query is left where it is.
PasswordNotSet ==
  /\ Running
  /\ pwd = "get"
  /\ pwd' = "none"
  /\ waiting' = NoQuery
  /\ locked' = FALSE
  /\ Decrement
  /\ EngineButCount /\ PasswordUnchanged

\* tgl_pwd_got: auth.checkPassword is sent.
PasswordTyped ==
  /\ Running
  /\ pwd = "typing"
  /\ pwd' = "check"
  /\ active_queries' = active_queries + 1
  /\ UNCHANGED <<waiting, locked>>
  /\ EngineButCount /\ PasswordUnchanged

\* check_password_on_error 400: bad password, from the start again.
PasswordWrong ==
  /\ Running
  /\ pwd = "check"
  /\ pwd' = "get"
  /\ UNCHANGED <<waiting, locked, active_queries>>
  /\ EngineButCount /\ PasswordUnchanged

\* check_password_on_answer and resend_query_cb: the waiting query is freed
\* and a users.getFullUser with its callback takes its place.
PasswordRight ==
  /\ Running
  /\ pwd = "check"
  /\ pwd' = "none"
  /\ waiting' = NoQuery
  /\ locked' = FALSE
  /\ PutInTree(waiting, dc[waiting])
  /\ UNCHANGED <<issued, alive, dc, calls, active_queries, program>>
  /\ PasswordUnchanged

\* check_get_password_on_error, or check_password_on_error other than 400:
\* resend_query_cb with success 0, which asserts success.
PasswordRefused ==
  /\ Running
  /\ "helper" \in Codes
  /\ pwd \in {"get", "check"}
  /\ process' = "aborted"
  /\ UNCHANGED <<engine, dialogue, safe_quit, inbox, active_queries>>
  /\ PasswordUnchanged

-----------------------------------------------------------------------------
(* Quitting, and the network.                                              *)

\* do_safe_quit.
SafeQuit ==
  /\ Running
  /\ ~safe_quit
  /\ safe_quit' = TRUE
  /\ UNCHANGED <<engine, dialogue, client, server, process, active_queries>>

\* Mutant of Halt: nothing is waited for.
HaltAtOnce ==
  /\ Running
  /\ safe_quit
  /\ process' = "halted"
  /\ UNCHANGED <<engine, dialogue, client, server, safe_quit, active_queries>>

\* net_loop: safe_quit and no active queries end the program.
Halt ==
  /\ Running
  /\ safe_quit
  /\ active_queries = 0
  /\ process' = "halted"
  /\ UNCHANGED <<engine, dialogue, client, server, safe_quit, active_queries>>

\* The server receives a message; repeated copies are one message.
Deliver(d, m) ==
  /\ Running
  /\ m \in inbox[d]
  /\ inbox' = [inbox EXCEPT ![d] = @ \ {m}]
  /\ known' = [known EXCEPT ![d] = @ \cup {m}]
  /\ UNCHANGED <<engine, dialogue, client, program, announced, active_queries>>

\* A connection breaks with a message in it.
Lose(d, m) ==
  /\ Running
  /\ m \in inbox[d]
  /\ inbox' = [inbox EXCEPT ![d] = @ \ {m}]
  /\ UNCHANGED <<engine, dialogue, client, program, known, announced,
                 active_queries>>

-----------------------------------------------------------------------------
FromServer(q) ==
  \/ Ack(q) \/ Result(q) \/ ErrorFail(q) \/ ErrorInternal(q) \/ ErrorBind(q)
  \/ ErrorPassword(q) \/ BadServerSalt(q) \/ BadMsgNotification(q)
  \/ \E d \in DC : ErrorMigrate(q, d)

Dialogue ==
  \/ PasswordAsked \/ PasswordNotSet \/ PasswordTyped \/ PasswordWrong
  \/ PasswordRight \/ PasswordRefused

OfDC(d) ==
  \/ NewSessionCreated(d) \/ FailSession(d) \/ RegenerateKey(d)
  \/ SetConfigured(d)

Wire(d) ==
  \/ \E m \in inbox[d] : Deliver(d, m) \/ Lose(d, m)
  \/ \E m \in known[d] : UnknownAnswer(d, m)

Next ==
  \/ \E q \in Query, d \in DC : SendQuery(q, d)
  \/ \E q \in Query : Alarm(q) \/ FromServer(q)
  \/ \E d \in DC : OfDC(d) \/ Wire(d)
  \/ Dialogue
  \/ SafeQuit \/ Halt

Spec == Init /\ [][Next]_vars

\* The timers run; a server reached again and again answers; the network
\* does not lose every copy; a data centre is configured in the end.
Fairness ==
  /\ \A q \in Query : WF_vars(Alarm(q)) /\ SF_vars(Result(q))
  /\ \A d \in DC : SF_vars(\E m \in inbox[d] : Deliver(d, m))
  /\ \A d \in DC : WF_vars(SetConfigured(d)) /\ SF_vars(NewSessionCreated(d))

LiveSpec == Spec /\ Fairness

-----------------------------------------------------------------------------
(* Properties.                                                             *)

\* The types of the state.
TypeOK ==
  /\ issued \subseteq Query /\ alive \subseteq issued
  /\ tree \subseteq alive /\ armed \subseteq Query /\ acked \subseteq Query
  /\ msg_id \in [Query -> MsgId \cup {NoId}]
  /\ \A q \in alive : msg_id[q] # NoId
  /\ dc \in [Query -> DC]
  /\ session_id \in [Query -> SessionId \cup {NoSession}]
  /\ calls \in [Query -> Nat]
  /\ DC_working \in DC
  /\ current \in [DC -> SessionId]
  /\ configured \subseteq DC
  /\ active_queries \in Int
  /\ pwd \in {"none", "get", "typing", "check"}
  /\ waiting \in Query \cup {NoQuery}
  /\ locked \in BOOLEAN
  /\ safe_quit \in BOOLEAN
  /\ process \in {"running", "halted", "aborted"}
  /\ inbox \in [DC -> SUBSET Message]
  /\ known \in [DC -> SUBSET Message]
  /\ announced \subseteq DC

\* A timer never fires on a freed query: alarm_query would read freed memory.
NoTimerOnFreed == armed \subseteq alive

\* A request that the server did not acknowledge has its timer running, so a
\* lost message is sent again; the tree holds no silent query.
UnackedIsArmed == tree \ acked \subseteq armed

\* The callback of a request is called at most once, although the request may
\* have been transmitted under several ids and answered several times.
CalledAtMostOnce == \A q \in Query : calls[q] <= 1

\* resend_query_cb frees a query that nothing else refers to: while the
\* password dialogue holds it, it is allocated, outside the tree, unarmed.
WaitingIsParked ==
  waiting # NoQuery =>
    waiting \in alive /\ waiting \notin tree /\ waiting \notin armed

\* An acknowledged request has no timer: its answer is still owed by the
\* present session, or the announcement that makes the client send it again
\* (new_session_created) is still to come.
AckedIsRecoverable ==
  \A q \in (tree \cap acked) \ armed :
    Owned(q) \/ dc[q] \notin announced

\* The server is never given one request under two ids in a session: it would
\* execute it twice.
NotExecutedTwice ==
  \A d \in DC : \A m, n \in inbox[d] \cup known[d] :
    m.query = n.query => m.id = n.id

\* No request is forgotten: each one has its timer running, or the server's
\* acknowledgement, or waits for the password. One that moves between data
\* centres is outside the tree for a while and has only its timer.
NothingForgotten ==
  \A q \in alive : q \in armed \/ q \in tree \cap acked \/ q = waiting

\* A query in the tree changes its id only when the session it was transmitted
\* in is over; until then every copy is the same message to the server.
NewIdOnlyForNewSession ==
  [][\A q \in tree \cap tree' : msg_id'[q] # msg_id[q] => ~InSession(q)]_vars

\* The engine implements its contract as long as the server answers each
\* request once and the request stays where it is.
Pending == {q \in issued : calls[q] = 0}
Contract == INSTANCE QueryContract WITH
  pending <- Pending,
  complete <- issued \ Pending,
  quit <- process = "halted"

ImplementsContract == Contract!Spec
=============================================================================
