-------------------------------- MODULE Auth --------------------------------
(***************************************************************************)
(* The keys of one data centre (src/tg/tgl/mtproto-client.c), above its    *)
(* connection (tgl-net.c): the Diffie-Hellman handshake for the permanent  *)
(* key, and with enable_pfs the handshake for a temporary key, its binding *)
(* to the permanent one, the configuration that opens the data centre for  *)
(* requests, and the timer that replaces the temporary key.                *)
(*                                                                         *)
(* A nonce, a key or a message is not computed: a handshake answer either  *)
(* fits the state of the client or is rejected as a whole. Of the queries  *)
(* only the two that are sent by force are kept, auth.bindTempAuthKey and  *)
(* help.getConfig; the others wait for flag 4 (module Queries).            *)
(***************************************************************************)
EXTENDS Naturals

CONSTANTS
  Slot,        \* bound: places for forced queries
  MaxKeys,     \* bound: temporary keys made in a run
  MaxTroubles, \* bound: lost connections, failed sessions, refusals
  Prompt,      \* TRUE: forced queries are answered before a key expires
  NoKey,       \* key id 0
  PermKey,     \* auth_key_id
  NoQuery      \* an empty slot

VARIABLES
  enable_pfs,  \* TLS->enable_pfs
  state,       \* DC->state
  flags,       \* DC->flags: "key" (1), "bound" (2), "configured" (4)
  temp,        \* DC->temp_auth_key_id; a temporary key is a number
  ev,          \* DC->ev, the timer that replaces the temporary key: "off",
               \* "now" (inserted at 0) or "set" (for most of its life)
  conn,        \* c->state
  jammed,      \* c->out_bytes is not 0 while write_ev is not added
  asked,       \* the server owes the answer that state waits for
  queries,     \* the forced queries in TLS->queries_tree
  wire,        \* those with a message of this session on its way
  known,       \* those with a message of this session the server received
  announced,   \* the server sent new_session_created in this session
  bound,       \* the temporary keys that the server has bound
  made,        \* temporary keys made
  troubles,    \* troubles met
  process      \* "running", "aborted" (an assertion) or "crashed"

keys == <<enable_pfs, state, flags, temp, ev, made>>
link == <<conn, jammed, asked>>
traffic == <<wire, known, announced>>
vars == <<keys, link, queries, traffic, bound, troubles, process>>

Permanent == {"reqpq_sent", "reqdh_sent", "client_dh_sent"}
Temporary == {"reqpq_sent_temp", "reqdh_sent_temp", "client_dh_sent_temp"}

\* A bind query carries the key it binds and is acceptable to the server only
\* under the message id it was first sent with, which is inside it; the DC
\* remembers that id in temp_auth_key_bind_query_id. A configuration query
\* carries its callback. armed: its timer is inserted; here: it was last sent
\* in the present session.
ForcedQuery == [kind : {"bind", "config"}, key : Nat, first : BOOLEAN,
                then : {"none", "mpc_on_get_config", "set_flag_4"},
                armed : BOOLEAN, here : BOOLEAN]
Bind(k) == [kind |-> "bind", key |-> k, first |-> TRUE, then |-> "none",
            armed |-> TRUE, here |-> TRUE]
Config(callback) == [kind |-> "config", key |-> 0, first |-> FALSE,
                     then |-> callback, armed |-> TRUE, here |-> TRUE]

ASSUME ConstantsAssumption ==
  /\ MaxKeys \in Nat \ {0} /\ MaxTroubles \in Nat
  /\ Prompt \in BOOLEAN
  /\ NoKey = 0 /\ PermKey \notin Nat
  /\ NoQuery \notin ForcedQuery

Alive == {s \in Slot : queries[s] # NoQuery}
Binds == {s \in Alive : queries[s].kind = "bind"}
Configs == {s \in Alive : queries[s].kind = "config"}

Running == process = "running"
Trouble == troubles < MaxTroubles /\ troubles' = troubles + 1

-----------------------------------------------------------------------------
\* Start of the program: a session is being connected; the permanent key may
\* have been read from the state file. With enable_pfs the timer is inserted
\* at 0.
Init ==
  /\ enable_pfs \in BOOLEAN
  /\ state = "init"
  /\ flags \in {{}, {"key"}}
  /\ temp = NoKey
  /\ ev = IF enable_pfs THEN "now" ELSE "off"
  /\ conn = "connecting" /\ jammed = FALSE /\ asked = FALSE
  /\ queries = [s \in Slot |-> NoQuery]
  /\ wire = {} /\ known = {} /\ announced = FALSE
  /\ bound = {}
  /\ made = 0 /\ troubles = 0
  /\ process = "running"

-----------------------------------------------------------------------------
(* Parts of handlers.                                                      *)

\* tglq_send_query_ex with QUERY_FORCE_SEND, on a connection that takes it.
SendForced(s, q) ==
  /\ s \notin Alive
  /\ queries' = [queries EXCEPT ![s] = q]
  /\ wire' = wire \cup {s}
  /\ UNCHANGED known

GetConfig(s, callback) == SendForced(s, Config(callback))

\* The query that temp_auth_key_bind_query_id still names.
Former == {s \in Binds : queries[s].first}

\* bind_temp_auth_key: the query found under the remembered id is deleted, and
\* a new one sent.
BindTempAuthKey(s, k) ==
  /\ s \notin Alive \ Former
  /\ queries' = [t \in Slot |-> IF t = s THEN Bind(k)
                                ELSE IF t \in Former THEN NoQuery
                                ELSE queries[t]]
  /\ wire' = (wire \ Former) \cup {s}
  /\ known' = known \ Former

\* send_req_pq_packet or send_req_pq_temp_packet on a working connection.
ReqPq(st) == state' = st /\ asked' = TRUE

\* The session is replaced, or its id: what was said in it counts no more.
NewSession ==
  /\ queries' = [s \in Slot |-> IF s \in Alive
                                THEN [queries[s] EXCEPT !.here = FALSE]
                                ELSE NoQuery]
  /\ wire' = {} /\ known' = {} /\ announced' = FALSE

-----------------------------------------------------------------------------
(* The handshake. An answer that does not parse, has another nonce, or is  *)
(* a failure is ignored: process_*_answer returns -1 and rpc_execute 0.    *)

\* A timer inserted at 0 fires before an answer can come.
Owed(states) ==
  Running /\ ev # "now" /\ conn = "ready" /\ asked /\ state \in states

process_respq_answer ==
  /\ Owed({"reqpq_sent", "reqpq_sent_temp"})
  /\ state' = IF state = "reqpq_sent" THEN "reqdh_sent" ELSE "reqdh_sent_temp"
  /\ UNCHANGED <<enable_pfs, flags, temp, ev, made, link, queries, traffic,
                 bound, troubles, process>>

process_dh_answer ==
  /\ Owed({"reqdh_sent", "reqdh_sent_temp"})
  /\ state' = IF state = "reqdh_sent" THEN "client_dh_sent"
              ELSE "client_dh_sent_temp"
  /\ UNCHANGED <<enable_pfs, flags, temp, ev, made, link, queries, traffic,
                 bound, troubles, process>>

\* The permanent key is made; the temporary one is next, or it is the same.
AuthComplete ==
  /\ Owed({"client_dh_sent"})
  /\ \/ /\ enable_pfs
        /\ flags' = flags \cup {"key"}
        /\ ReqPq("reqpq_sent_temp")
        /\ UNCHANGED <<temp, queries, wire, known>>
     \/ /\ ~enable_pfs
        /\ flags' = flags \cup {"key", "bound"}
        /\ state' = "authorized" /\ asked' = FALSE
        /\ temp' = PermKey
        /\ IF "configured" \in flags
           THEN UNCHANGED <<queries, wire, known>>
           ELSE \E s \in Slot : GetConfig(s, "mpc_on_get_config")
  /\ UNCHANGED <<enable_pfs, ev, made, conn, jammed, announced, bound,
                 troubles, process>>

\* The temporary key is made and has to be bound.
AuthCompleteTemp ==
  /\ Owed({"client_dh_sent_temp"})
  /\ made' = made + 1
  /\ temp' = made + 1
  /\ state' = "authorized" /\ asked' = FALSE
  /\ \E s \in Slot : BindTempAuthKey(s, made + 1)
  /\ UNCHANGED <<enable_pfs, flags, ev, conn, jammed, announced, bound,
                 troubles, process>>

HandshakeRejected ==
  /\ Owed(Permanent \cup Temporary)
  /\ Trouble
  /\ asked' = FALSE
  /\ UNCHANGED <<keys, conn, jammed, queries, traffic, bound, process>>

-----------------------------------------------------------------------------
(* The connection (tgl-net.c).                                             *)

\* conn_try_write on a connection being made calls tc_becomes_ready. It is not
\* called while write_ev is not added.
BecomesReady ==
  /\ Running
  /\ conn = "connecting" /\ ~jammed
  /\ conn' = "ready"
  /\ UNCHANGED <<enable_pfs, ev, made, jammed, announced, bound, troubles,
                 process>>

\* Without a permanent key the handshake starts, or starts again.
ReadyWithoutKey ==
  /\ BecomesReady
  /\ "key" \notin flags
  /\ ReqPq("reqpq_sent")
  /\ UNCHANGED <<flags, temp, queries, wire, known>>

\* With it, and with a temporary key to make or to bind.
ReadyUnbound ==
  /\ BecomesReady
  /\ "key" \in flags /\ enable_pfs /\ "bound" \notin flags
  /\ IF temp = NoKey
     THEN ReqPq("reqpq_sent_temp") /\ UNCHANGED <<queries, wire, known>>
     ELSE /\ state' = "authorized" /\ UNCHANGED asked
          /\ \E s \in Slot : BindTempAuthKey(s, temp)
  /\ UNCHANGED <<flags, temp>>

\* Mutant of ReadyBound: the handshake starts over on every connection.
ReadyBoundAnew ==
  /\ BecomesReady
  /\ "key" \in flags /\ (~enable_pfs \/ "bound" \in flags)
  /\ ReqPq("reqpq_sent")
  /\ UNCHANGED <<flags, temp, queries, wire, known>>

\* With a key for requests, which is the permanent one without enable_pfs.
ReadyBound ==
  /\ BecomesReady
  /\ "key" \in flags /\ (~enable_pfs \/ "bound" \in flags)
  /\ flags' = flags \cup {"bound"}
  /\ temp' = IF enable_pfs THEN temp ELSE PermKey
  /\ state' = "authorized" /\ UNCHANGED asked
  /\ IF "configured" \in flags
     THEN UNCHANGED <<queries, wire, known>>
     ELSE \E s \in Slot : GetConfig(s, "mpc_on_get_config")

Ready == ReadyWithoutKey \/ ReadyUnbound \/ ReadyBound

\* fail_connection drops what was buffered; restart_connection connects again
\* at once, or leaves it to a timer if that fails or was tried this second.
Restarted ==
  /\ conn' \in {"connecting", "failed"}
  /\ jammed' = FALSE /\ asked' = FALSE /\ wire' = {}
  /\ UNCHANGED <<keys, queries, known, announced, bound, process>>

\* A read or write error, or a message that process_rpc_message refuses.
ConnectionLost ==
  /\ Running
  /\ conn \in {"connecting", "ready"}
  /\ Trouble
  /\ Restarted

\* fail_alarm: restart_connection again. If something was written meanwhile
\* out_bytes is not 0, and the first byte does not add write_ev.
FailAlarm ==
  /\ Running
  /\ conn = "failed"
  /\ conn' = "connecting"
  /\ UNCHANGED <<keys, jammed, asked, queries, traffic, bound, troubles,
                 process>>

\* Mutant of PingAlarm: only a connection that was not made is given up.
PingAlarmConnecting ==
  /\ Running
  /\ conn = "connecting" /\ jammed
  /\ Restarted
  /\ IF conn' = "failed" THEN Trouble ELSE UNCHANGED troubles

\* ping_alarm: nothing was received for a minute. A ping is sent only with
\* flag 4, so a connection on which nothing is asked any more is given up.
Silent == /\ ~asked /\ wire = {} /\ known = {}
          /\ \A s \in Alive : ~queries[s].armed
PingAlarm ==
  /\ Running
  /\ \/ conn = "connecting" /\ jammed
     \/ conn = "ready" /\ "configured" \notin flags /\ Silent
  /\ Restarted
  /\ IF conn' = "failed" THEN Trouble ELSE UNCHANGED troubles

-----------------------------------------------------------------------------
(* The forced queries.                                                     *)

\* Writing to a failed connection adds its freed write_ev: undefined. Either
\* the program crashes or the bytes stay, and the next attempt is jammed.
Written ==
  IF conn = "failed"
  THEN \/ process' = "crashed" /\ UNCHANGED jammed
       \/ jammed' = TRUE /\ UNCHANGED process
  ELSE UNCHANGED <<jammed, process>>

\* init_enc_msg asserts that there is a key to encrypt with.
MaySend == state = "authorized" /\ temp # NoKey

\* A connection that takes longer than the timer of a bind query (6 seconds)
\* is a trouble: the bind goes out under an id that the server refuses, which
\* fails the session again.
InTime(s) == IF conn = "connecting" /\ ~jammed /\ s \in Binds
             THEN Trouble ELSE UNCHANGED troubles

\* alarm_query: the message again, under the same id if the session is the
\* same; otherwise anew.
Alarm(s) ==
  /\ Running
  /\ s \in Alive /\ queries[s].armed
  /\ InTime(s)
  /\ IF MaySend THEN Written ELSE process' = "aborted" /\ UNCHANGED jammed
  /\ wire' = IF conn = "failed" THEN wire ELSE wire \cup {s}
  /\ queries' = IF queries[s].here THEN queries
                ELSE [queries EXCEPT ![s].here = TRUE, ![s].first = FALSE]
  /\ UNCHANGED <<keys, conn, asked, known, announced, bound>>

\* The network brings the message to the server.
Deliver(s) ==
  /\ Running
  /\ conn = "ready" /\ s \in wire
  /\ wire' = wire \ {s} /\ known' = known \cup {s}
  /\ UNCHANGED <<keys, link, queries, announced, bound, troubles, process>>

\* rpc_execute hands a message of the server to process_rpc_message.
Received == Running /\ conn = "ready" /\ state = "authorized"

\* tglq_query_ack
Ack(s) ==
  /\ Received
  /\ s \in known
  /\ queries' = [queries EXCEPT ![s].armed = FALSE]
  /\ UNCHANGED <<keys, link, traffic, bound, troubles, process>>

\* work_new_session_created: queries not sent in this session are sent soon.
NewSessionCreated ==
  /\ Received
  /\ known # {} /\ ~announced
  /\ announced' = TRUE
  /\ queries' = [s \in Slot |-> IF s \in Alive /\ ~queries[s].here
                                THEN [queries[s] EXCEPT !.armed = TRUE]
                                ELSE queries[s]]
  /\ UNCHANGED <<keys, link, wire, known, bound, troubles, process>>

\* help_get_config_on_answer with mpc_on_get_config or set_flag_4.
ConfigAnswered(s) ==
  /\ Received
  /\ s \in known \cap Configs
  /\ flags' = flags \cup {"configured"}
  /\ ev' = IF queries[s].then = "set_flag_4" THEN "set" ELSE ev
  /\ queries' = [queries EXCEPT ![s] = NoQuery]
  /\ wire' = wire \ {s} /\ known' = known \ {s}
  /\ UNCHANGED <<enable_pfs, state, temp, made, link, announced, bound,
                 troubles, process>>

\* BindAnswered with the callback of the configuration as a parameter.
BindAnsweredThen(s, callback) ==
  /\ Received
  /\ s \in known \cap Binds /\ queries[s].first
  /\ bound' = bound \cup {queries[s].key}
  /\ flags' = flags \cup {"bound"}
  /\ \E t \in Slot :
       /\ t \notin Alive \ {s}
       /\ queries' = [u \in Slot |-> IF u = t THEN Config(callback)
                                     ELSE IF u = s THEN NoQuery
                                     ELSE queries[u]]
       /\ wire' = (wire \ {s}) \cup {t}
  /\ known' = known \ {s}
  /\ UNCHANGED <<enable_pfs, state, temp, ev, made, link, announced, troubles,
                 process>>
\* send_bind_temp_on_answer: the server binds the key of a message that has
\* the id it was made for.
BindAnswered(s) == BindAnsweredThen(s, "set_flag_4")

\* fail_session: another session and another connection.
SessionFailed(gone) ==
  /\ queries' = [s \in Slot |-> IF s \in Alive \ gone
                                THEN [queries[s] EXCEPT !.here = FALSE]
                                ELSE NoQuery]
  /\ wire' = {} /\ known' = {} /\ announced' = FALSE
  /\ conn' = "connecting" /\ jammed' = FALSE /\ asked' = FALSE
  /\ UNCHANGED <<keys, bound, process>>

\* send_bind_on_error: error 400 fails the session. The server gives it to a
\* message with another id, and may give it to any other.
BindRefused(s) ==
  /\ Received
  /\ s \in known \cap Binds
  /\ IF queries[s].first THEN Trouble ELSE UNCHANGED troubles
  /\ SessionFailed({s})

\* A message with a bad time, or bad_msg_notification.
FailSession ==
  /\ Received
  /\ Trouble
  /\ SessionFailed({})

\* Regenerate, with the flags that stay as a parameter; the mutant keeps 4.
RegenerateKeeping(kept) ==
  /\ Running
  /\ ev # "off"
  /\ made < MaxKeys
  /\ Prompt => Alive = {}
  /\ ev' = "off"
  /\ flags' = flags \cap kept
  /\ temp' = NoKey
  /\ NewSession
  /\ IF state = "authorized" /\ enable_pfs
     THEN /\ state' = "reqpq_sent_temp"
          /\ asked' = (conn # "failed")
          /\ Written
     ELSE /\ asked' = (asked /\ state # "client_dh_sent_temp")
          /\ UNCHANGED <<state, jammed, process>>
  /\ UNCHANGED <<enable_pfs, made, conn, bound, troubles>>
RegenerateOpen == RegenerateKeeping({"key", "configured"})

\* tglmp_regenerate_temp_auth_key, when ev fires: a new session id, and a new
\* key at once if the data centre is authorized. A temporary key that was
\* about to be confirmed is cleared, so that the answer will not fit it.
Regenerate == RegenerateKeeping({"key"})

-----------------------------------------------------------------------------
Handshake == process_respq_answer \/ process_dh_answer \/ AuthComplete
             \/ AuthCompleteTemp
OfQuery(s) == Deliver(s) \/ Ack(s) \/ ConfigAnswered(s) \/ BindAnswered(s)
              \/ BindRefused(s) \/ Alarm(s)

Next ==
  \/ Handshake \/ HandshakeRejected
  \/ Ready \/ ConnectionLost \/ FailAlarm \/ PingAlarm
  \/ NewSessionCreated \/ FailSession \/ Regenerate
  \/ \E s \in Slot : OfQuery(s)

\* The server answers, a connection is made in the end, timers run.
Fairness ==
  /\ WF_vars(Handshake)
  /\ WF_vars(Ready) /\ WF_vars(FailAlarm) /\ WF_vars(PingAlarm)
  /\ WF_vars(NewSessionCreated) /\ WF_vars(ev = "now" /\ Regenerate)
  /\ \A s \in Slot :
       WF_vars(Deliver(s)) /\ WF_vars(Alarm(s)) /\ WF_vars(ConfigAnswered(s))
       /\ WF_vars(BindAnswered(s) \/ BindRefused(s))

Spec == Init /\ [][Next]_vars /\ Fairness

-----------------------------------------------------------------------------
(* Properties.                                                             *)

\* The types of the state.
TypeOK ==
  /\ enable_pfs \in BOOLEAN /\ ev \in {"off", "now", "set"}
  /\ state \in {"init", "authorized"} \cup Permanent \cup Temporary
  /\ flags \subseteq {"key", "bound", "configured"}
  /\ temp \in Nat \cup {PermKey} /\ made \in Nat /\ troubles \in Nat
  /\ conn \in {"connecting", "ready", "failed"}
  /\ jammed \in BOOLEAN /\ asked \in BOOLEAN /\ announced \in BOOLEAN
  /\ queries \in [Slot -> ForcedQuery \cup {NoQuery}]
  /\ wire \subseteq Alive /\ known \subseteq Alive
  /\ bound \subseteq Nat
  /\ process \in {"running", "aborted", "crashed"}

\* No forced query is sent in a state in which the assertions of init_enc_msg
\* fail (mtproto-client.c:691): a timer of one never fires during a handshake.
NeverAborts == process # "aborted"

\* The gate for ordinary requests, flag 4, is open only while the data centre
\* is authorized with a key under which the server accepts them: the permanent
\* one, or a temporary one that the server has bound.
OpenMeansBound ==
  "configured" \in flags /\ Running =>
    /\ state = "authorized"
    /\ IF enable_pfs THEN temp \in bound ELSE temp = PermKey

\* A temporary key in use will be replaced before it expires: its timer is
\* inserted, or a configuration query is pending that inserts it.
KeyIsRenewed ==
  enable_pfs /\ "bound" \in flags =>
    ev = "set" \/ \E s \in Configs : queries[s].then = "set_flag_4"

\* However often a bind is begun again, at most one bind query is pending that
\* the server can accept, and it is for the temporary key in use.
OneBind ==
  \A s, t \in Former : s = t /\ queries[s].key = temp

\* The data centre is open for requests again and again, whatever is lost,
\* refused or replaced, unless the program crashed.
Opens == []<>("configured" \in flags \/ process = "crashed")
=============================================================================
