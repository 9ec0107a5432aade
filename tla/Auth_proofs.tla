---------------------------- MODULE Auth_proofs ----------------------------
(***************************************************************************)
(* The safety properties of Auth hold for any number of keys, troubles and *)
(* forced queries, if forced queries are answered before a key expires.    *)
(***************************************************************************)
EXTENDS Auth, TLAPS

\* A query to be sent finds a key to be sent with.
SendReady == Alive # {} => MaySend /\ "key" \in flags

\* Flag 2 says that the key in use is accepted; flag 4 and the configuration
\* queries come after it.
FlagsMean ==
  /\ "bound" \in flags =>
       /\ state = "authorized" /\ "key" \in flags /\ temp # NoKey
       /\ IF enable_pfs THEN temp \in bound ELSE temp = PermKey
  /\ "configured" \in flags => "bound" \in flags
  /\ Configs # {} => "bound" \in flags

\* A temporary key is asked for after the permanent one, and only then bound.
StateMeans ==
  /\ state \in Temporary \cup {"authorized"} => "key" \in flags
  /\ state \in Temporary => enable_pfs
  /\ enable_pfs => temp \in Nat

BindsCurrent ==
  /\ \A s \in Binds : enable_pfs /\ queries[s].key = temp
  /\ \A s, t \in Former : s = t


\* The types, those of the queries apart.
Scalars ==
  /\ enable_pfs \in BOOLEAN /\ ev \in {"off", "now", "set"}
  /\ state \in {"init", "authorized"} \cup Permanent \cup Temporary
  /\ flags \subseteq {"key", "bound", "configured"}
  /\ temp \in Nat \cup {PermKey} /\ made \in Nat /\ troubles \in Nat
  /\ conn \in {"connecting", "ready", "failed"}
  /\ jammed \in BOOLEAN /\ asked \in BOOLEAN /\ announced \in BOOLEAN
  /\ bound \subseteq Nat
  /\ process \in {"running", "crashed"}

QueryTypes ==
  /\ queries \in [Slot -> ForcedQuery \cup {NoQuery}]
  /\ wire \subseteq Alive /\ known \subseteq Alive

Meaning == /\ SendReady /\ FlagsMean /\ StateMeans
           /\ BindsCurrent /\ KeyIsRenewed

IInv == Scalars /\ QueryTypes /\ Meaning

-----------------------------------------------------------------------------
(* What one change of the queries does to the sets that the invariant      *)
(* speaks of.                                                              *)

\* Without a change of the queries the sets stay.
LEMMA SameQueries ==
  ASSUME queries' = queries
  PROVE  Alive' = Alive /\ Binds' = Binds /\ Configs' = Configs
         /\ Former' = Former
BY DEF Alive, Binds, Configs, Former

\* A record of a query, new or with other flags, is one.
LEMMA Records ==
  /\ \A k \in Nat : Bind(k) \in ForcedQuery
  /\ \A c \in {"mpc_on_get_config", "set_flag_4"} : Config(c) \in ForcedQuery
  /\ \A k : Bind(k).kind = "bind" /\ Bind(k).key = k /\ Bind(k).first = TRUE
  /\ \A c : Config(c).kind = "config" /\ Config(c).then = c
BY DEF Bind, Config, ForcedQuery

\* A configuration query is sent in a free place.
LEMMA NewConfig ==
  ASSUME QueryTypes, NEW s \in Slot,
         NEW c \in {"mpc_on_get_config", "set_flag_4"}, GetConfig(s, c)
  PROVE  /\ QueryTypes'
         /\ s \notin Alive /\ queries'[s] = Config(c)
         /\ \A t \in Alive : queries'[t] = queries[t]
         /\ Alive' = Alive \cup {s} /\ Configs' = Configs \cup {s}
         /\ Binds' = Binds /\ Former' = Former
<1>1. Config(c) \in ForcedQuery /\ Config(c) # NoQuery
      /\ Config(c).kind = "config" /\ Config(c).then = c
  BY Records, ConstantsAssumption
<1>2. /\ queries \in [Slot -> ForcedQuery \cup {NoQuery}]
      /\ queries' = [queries EXCEPT ![s] = Config(c)]
      /\ s \notin Alive /\ wire' = wire \cup {s} /\ known' = known
  BY DEF GetConfig, SendForced, QueryTypes
<1>3. /\ queries' \in [Slot -> ForcedQuery \cup {NoQuery}]
      /\ queries'[s] = Config(c)
      /\ \A t \in Slot : t # s => queries'[t] = queries[t]
  BY <1>1, <1>2
<1>4. Alive' = Alive \cup {s}
  BY <1>1, <1>2, <1>3 DEF Alive
<1>5. \A t \in Alive : t \in Slot /\ t # s
  BY <1>2 DEF Alive
<1>6. Configs' = Configs \cup {s} /\ Binds' = Binds
  BY <1>1, <1>3, <1>4, <1>5 DEF Configs, Binds
<1>7. Former' = Former
  BY <1>3, <1>5, <1>6 DEF Former, Binds
<1>8. QueryTypes'
  BY <1>2, <1>3, <1>4 DEF QueryTypes
<1>9. QED
  BY <1>2, <1>3, <1>4, <1>5, <1>6, <1>7, <1>8

\* A bind query replaces the one it follows.
LEMMA NewBind ==
  ASSUME QueryTypes, NEW s \in Slot, NEW k \in Nat, BindTempAuthKey(s, k)
  PROVE  /\ QueryTypes'
         /\ queries'[s] = Bind(k)
         /\ Alive' = (Alive \ Former) \cup {s}
         /\ Binds' = (Binds \ Former) \cup {s}
         /\ Configs' = Configs /\ Former' = {s} /\ s \notin Configs
         /\ \A t \in Alive' : t # s => t \in Alive /\ queries'[t] = queries[t]
<1>1. /\ Bind(k) \in ForcedQuery /\ Bind(k) # NoQuery
      /\ Bind(k).kind = "bind" /\ Bind(k).first = TRUE
  BY Records, ConstantsAssumption
<1>2. /\ queries \in [Slot -> ForcedQuery \cup {NoQuery}]
      /\ s \notin Alive \ Former
      /\ queries' = [t \in Slot |-> IF t = s THEN Bind(k)
                                    ELSE IF t \in Former THEN NoQuery
                                    ELSE queries[t]]
      /\ wire' = (wire \ Former) \cup {s} /\ known' = known \ Former
      /\ wire \subseteq Alive /\ known \subseteq Alive
  BY DEF BindTempAuthKey, QueryTypes
<1>3. /\ queries' \in [Slot -> ForcedQuery \cup {NoQuery}]
      /\ queries'[s] = Bind(k)
      /\ \A t \in Slot : t # s /\ t \in Former => queries'[t] = NoQuery
      /\ \A t \in Slot : t # s /\ t \notin Former => queries'[t] = queries[t]
  BY <1>1, <1>2
<1>4. Alive' = (Alive \ Former) \cup {s}
  BY <1>1, <1>3 DEF Alive
<1>5. \A t \in Alive : t \in Slot
  BY DEF Alive
<1>6. Former \subseteq Binds /\ Binds \subseteq Alive
      /\ Configs \subseteq Alive \ Binds
  BY DEF Former, Binds, Configs
<1>7. Configs' = Configs /\ Binds' = (Binds \ Former) \cup {s}
      /\ s \notin Configs
  BY <1>1, <1>2, <1>3, <1>4, <1>5, <1>6 DEF Configs, Binds
<1>8. Former' = {s}
  <2>1. s \in Former'
    BY <1>1, <1>3, <1>7 DEF Former
  <2>2. \A t \in Former' : t = s
    BY <1>3, <1>5, <1>6, <1>7 DEF Former
  <2>3. QED
    BY <2>1, <2>2
<1>9. QueryTypes'
  BY <1>2, <1>3, <1>4 DEF QueryTypes
<1>10. QED
  BY <1>3, <1>4, <1>5, <1>7, <1>8, <1>9

\* Queries that are left, perhaps with other flags.
Left == \A s \in Slot : queries'[s] # NoQuery =>
          /\ queries[s] # NoQuery
          /\ queries'[s].kind = queries[s].kind
          /\ queries'[s].key = queries[s].key
          /\ queries'[s].then = queries[s].then
          /\ queries'[s].first => queries[s].first

\* They are among the former ones, each of its kind.
LEMMA LeftSets ==
  ASSUME Left
  PROVE  /\ Alive' \subseteq Alive
         /\ Binds' = Binds \cap Alive' /\ Configs' = Configs \cap Alive'
         /\ Former' \subseteq Former
<1>1. Alive' \subseteq Alive
  BY DEF Left, Alive
<1>2. Binds' = Binds \cap Alive' /\ Configs' = Configs \cap Alive'
  BY <1>1 DEF Left, Alive, Binds, Configs
<1>3. Former' \subseteq Former
  BY <1>2 DEF Left, Alive, Binds, Former
<1>4. QED
  BY <1>1, <1>2, <1>3

\* If the keys stay and a configuration query that is needed stays, what the
\* invariant means stays.
LEMMA LeftMeaning ==
  ASSUME Meaning, Left, UNCHANGED <<enable_pfs, state, flags, temp, bound>>,
         KeyIsRenewed'
  PROVE  Meaning'
<1>1. /\ Alive' \subseteq Alive
      /\ Binds' = Binds \cap Alive' /\ Configs' = Configs \cap Alive'
      /\ Former' \subseteq Former
  BY LeftSets
<1>2. SendReady' /\ FlagsMean' /\ StateMeans'
  BY <1>1 DEF Meaning, SendReady, FlagsMean, StateMeans, MaySend, Temporary
<1>3. BindsCurrent'
  <2>1. \A s \in Binds' : s \in Binds /\ queries'[s].key = queries[s].key
    BY <1>1 DEF Left, Binds, Alive
  <2>2. QED
    BY <1>1, <2>1 DEF Meaning, BindsCurrent
<1>4. QED
  BY <1>2, <1>3 DEF Meaning
-----------------------------------------------------------------------------
(* Every action keeps the invariant: its types, then what it means.        *)

\* At the start nothing is sent and nothing is authorized.
LEMMA InitInvariant == Init => IInv
<1>1. SUFFICES ASSUME Init PROVE IInv
  OBVIOUS
<1>2. Alive = {} /\ Binds = {} /\ Configs = {} /\ Former = {}
  BY <1>1 DEF Init, Alive, Binds, Configs, Former
<1>3. Scalars /\ QueryTypes
  BY <1>1, <1>2, ConstantsAssumption DEF Init, Scalars, QueryTypes
<1>4. Meaning
  BY <1>1, <1>2, ConstantsAssumption
  DEF Init, Meaning, SendReady, FlagsMean, StateMeans, BindsCurrent,
      KeyIsRenewed, Temporary
<1>5. QED
  BY <1>3, <1>4 DEF IInv

\* A step of the handshake.
LEMMA RespqKeeps == IInv /\ process_respq_answer => IInv'
<1>1. SUFFICES ASSUME IInv, process_respq_answer PROVE IInv'
  OBVIOUS
<1>2. queries' = queries
  BY <1>1 DEF process_respq_answer, Owed, keys, link, traffic
<1>3. Alive' = Alive /\ Binds' = Binds /\ Configs' = Configs
      /\ Former' = Former
  BY <1>2, SameQueries
<1>4. Scalars'
  BY <1>1
  DEF IInv, Scalars, process_respq_answer, Owed, keys, link, traffic,
      Permanent, Temporary
<1>5. QueryTypes'
  BY <1>1, <1>2, <1>3
  DEF IInv, QueryTypes, process_respq_answer, Owed, keys, link, traffic
<1>6. Meaning'
  BY <1>1, <1>2, <1>3
  DEF IInv, Scalars, QueryTypes, Meaning, SendReady, FlagsMean, StateMeans,
      BindsCurrent, KeyIsRenewed, MaySend, Permanent, Temporary,
      process_respq_answer, Owed, keys, link, traffic
<1>7. QED
  BY <1>4, <1>5, <1>6 DEF IInv

\* A step of the handshake.
LEMMA DhKeeps == IInv /\ process_dh_answer => IInv'
<1>1. SUFFICES ASSUME IInv, process_dh_answer PROVE IInv'
  OBVIOUS
<1>2. queries' = queries
  BY <1>1 DEF process_dh_answer, Owed, keys, link, traffic
<1>3. Alive' = Alive /\ Binds' = Binds /\ Configs' = Configs
      /\ Former' = Former
  BY <1>2, SameQueries
<1>4. Scalars'
  BY <1>1
  DEF IInv, Scalars, process_dh_answer, Owed, keys, link, traffic, Permanent,
      Temporary
<1>5. QueryTypes'
  BY <1>1, <1>2, <1>3
  DEF IInv, QueryTypes, process_dh_answer, Owed, keys, link, traffic
<1>6. Meaning'
  BY <1>1, <1>2, <1>3
  DEF IInv, Scalars, QueryTypes, Meaning, SendReady, FlagsMean, StateMeans,
      BindsCurrent, KeyIsRenewed, MaySend, Permanent, Temporary,
      process_dh_answer, Owed, keys, link, traffic
<1>7. QED
  BY <1>4, <1>5, <1>6 DEF IInv

\* What happens to the connection leaves the keys and the queries alone.
LEMMA LinkKeeps ==
  ASSUME IInv, UNCHANGED <<keys, queries, known, announced, bound, process>>,
         conn' \in {"connecting", "ready", "failed"}, jammed' \in BOOLEAN,
         asked' \in BOOLEAN, wire' \subseteq wire, troubles' \in Nat
  PROVE  IInv'
<1>1. Alive' = Alive /\ Binds' = Binds /\ Configs' = Configs
      /\ Former' = Former
  BY SameQueries
<1>2. Scalars'
  BY DEF IInv, Scalars, keys
<1>3. QueryTypes'
  BY <1>1 DEF IInv, QueryTypes
<1>4. Meaning'
  BY <1>1
  DEF IInv, Meaning, SendReady, FlagsMean, StateMeans, BindsCurrent,
      KeyIsRenewed, MaySend, keys
<1>5. QED
  BY <1>2, <1>3, <1>4 DEF IInv

\* A refused answer, a lost connection, one given up, and a new attempt.
LEMMA ConnectionKeeps ==
  IInv /\ (HandshakeRejected \/ ConnectionLost \/ FailAlarm \/ PingAlarm)
    => IInv'
<1>1. SUFFICES ASSUME IInv, HandshakeRejected \/ ConnectionLost
                            \/ FailAlarm \/ PingAlarm
               PROVE  IInv'
  OBVIOUS
<1>2. troubles' \in Nat
  <2>1. troubles \in Nat
    BY <1>1 DEF IInv, Scalars
  <2>2. Trouble => troubles' \in Nat
    BY <2>1 DEF Trouble
  <2>3. QED
    BY <1>1, <2>1, <2>2
    DEF HandshakeRejected, ConnectionLost, FailAlarm, PingAlarm
<1>3. /\ conn \in {"connecting", "ready", "failed"}
      /\ jammed \in BOOLEAN /\ asked \in BOOLEAN
  BY <1>1 DEF IInv, Scalars
<1>4. CASE HandshakeRejected
  BY <1>1, <1>2, <1>3, <1>4, LinkKeeps DEF HandshakeRejected, traffic
<1>5. CASE ConnectionLost
  BY <1>1, <1>2, <1>3, <1>5, LinkKeeps DEF ConnectionLost, Restarted
<1>6. CASE FailAlarm
  BY <1>1, <1>2, <1>3, <1>6, LinkKeeps DEF FailAlarm, traffic
<1>7. CASE PingAlarm
  BY <1>1, <1>2, <1>3, <1>7, LinkKeeps DEF PingAlarm, Restarted
<1>8. QED
  BY <1>1, <1>4, <1>5, <1>6, <1>7

\* A handshake that starts over had made no key.
LEMMA ReadyWithoutKeyKeeps == IInv /\ ReadyWithoutKey => IInv'
<1>1. SUFFICES ASSUME IInv, ReadyWithoutKey PROVE IInv'
  OBVIOUS
<1>2. queries' = queries
  BY <1>1 DEF ReadyWithoutKey, BecomesReady, ReqPq, keys, link, traffic
<1>3. Alive' = Alive /\ Binds' = Binds /\ Configs' = Configs
      /\ Former' = Former
  BY <1>2, SameQueries
<1>4. Scalars'
  BY <1>1
  DEF IInv, Scalars, ReadyWithoutKey, BecomesReady, ReqPq, keys, link,
      traffic, Permanent, Temporary
<1>5. QueryTypes'
  BY <1>1, <1>2, <1>3
  DEF IInv, QueryTypes, ReadyWithoutKey, BecomesReady, ReqPq, keys, link,
      traffic
<1>6. Meaning'
  BY <1>1, <1>2, <1>3
  DEF IInv, Scalars, QueryTypes, Meaning, SendReady, FlagsMean, StateMeans,
      BindsCurrent, KeyIsRenewed, MaySend, Permanent, Temporary,
      ReadyWithoutKey, BecomesReady, ReqPq, keys, link, traffic
<1>7. QED
  BY <1>4, <1>5, <1>6 DEF IInv

\* The permanent key is made while nothing is pending and no flag is set.
LEMMA AuthCompleteKeeps == IInv /\ AuthComplete => IInv'
<1>1. SUFFICES ASSUME IInv, AuthComplete PROVE IInv'
  OBVIOUS
<1>2. Scalars'
  BY <1>1, ConstantsAssumption
  DEF IInv, Scalars, AuthComplete, ReqPq, Permanent, Temporary
<1>3. /\ state = "client_dh_sent" /\ Alive = {}
      /\ "bound" \notin flags /\ "configured" \notin flags
  BY <1>1 DEF IInv, Meaning, SendReady, FlagsMean, MaySend, AuthComplete, Owed
<1>4. Configs = {} /\ Binds = {} /\ Former = {}
  BY <1>3 DEF Configs, Binds, Former
<1>5. CASE enable_pfs
  <2>1. /\ queries' = queries /\ UNCHANGED <<enable_pfs, temp, wire, known>>
        /\ flags' = flags \cup {"key"} /\ state' = "reqpq_sent_temp"
    BY <1>1, <1>5 DEF AuthComplete, ReqPq
  <2>2. Alive' = {} /\ Configs' = {} /\ Binds' = {} /\ Former' = {}
    BY <1>3, <1>4, <2>1, SameQueries
  <2>3. QueryTypes'
    BY <1>1, <1>3, <2>1, <2>2 DEF IInv, QueryTypes
  <2>4. Meaning'
    BY <1>1, <1>3, <1>5, <2>1, <2>2
    DEF IInv, Meaning, SendReady, FlagsMean, StateMeans, BindsCurrent,
        KeyIsRenewed, Temporary
  <2>5. QED
    BY <1>2, <2>3, <2>4 DEF IInv
<1>6. CASE ~enable_pfs
  <2>1. /\ flags' = flags \cup {"key", "bound"} /\ enable_pfs' = enable_pfs
        /\ state' = "authorized" /\ temp' = PermKey
    BY <1>1, <1>6 DEF AuthComplete
  <2>2. PICK s \in Slot : GetConfig(s, "mpc_on_get_config")
    BY <1>1, <1>3, <1>6 DEF AuthComplete
  <2>3. /\ QueryTypes' /\ Alive' = Alive \cup {s}
        /\ Configs' = Configs \cup {s} /\ Binds' = Binds /\ Former' = Former
    BY <1>1, <2>2, NewConfig DEF IInv
  <2>4. Meaning'
    BY <1>3, <1>4, <1>6, <2>1, <2>3, ConstantsAssumption
    DEF Meaning, SendReady, FlagsMean, StateMeans, BindsCurrent,
        KeyIsRenewed, MaySend, Temporary
  <2>5. QED
    BY <1>2, <2>3, <2>4 DEF IInv
<1>7. QED
  BY <1>5, <1>6

\* A new temporary key comes with the one query that binds it.
LEMMA AuthCompleteTempKeeps == IInv /\ AuthCompleteTemp => IInv'
<1>1. SUFFICES ASSUME IInv, AuthCompleteTemp PROVE IInv'
  OBVIOUS
<1>2. made \in Nat /\ made + 1 \in Nat /\ made + 1 # NoKey
  BY <1>1, ConstantsAssumption DEF IInv, Scalars
<1>3. /\ state = "client_dh_sent_temp" /\ enable_pfs /\ "key" \in flags
      /\ Alive = {} /\ "bound" \notin flags /\ "configured" \notin flags
  BY <1>1
  DEF IInv, Meaning, SendReady, FlagsMean, StateMeans, MaySend, Temporary,
      AuthCompleteTemp, Owed
<1>4. /\ UNCHANGED <<enable_pfs, flags>>
      /\ state' = "authorized" /\ temp' = made + 1
  BY <1>1 DEF AuthCompleteTemp
<1>5. PICK s \in Slot : BindTempAuthKey(s, made + 1)
  BY <1>1 DEF AuthCompleteTemp
<1>6. Configs = {} /\ Binds = {} /\ Former = {}
  BY <1>3 DEF Configs, Binds, Former
<1>7. /\ QueryTypes' /\ queries'[s] = Bind(made + 1)
      /\ Alive' = (Alive \ Former) \cup {s}
      /\ Binds' = (Binds \ Former) \cup {s}
      /\ Configs' = Configs /\ Former' = {s}
  BY <1>1, <1>2, <1>5, NewBind DEF IInv
<1>8. Alive' = {s} /\ Binds' = {s} /\ Configs' = {}
      /\ queries'[s].key = made + 1
  BY <1>2, <1>3, <1>6, <1>7, Records
<1>9. Scalars'
  BY <1>1, <1>2, <1>4
  DEF IInv, Scalars, AuthCompleteTemp, Permanent, Temporary
<1>10. SendReady' /\ FlagsMean' /\ StateMeans' /\ KeyIsRenewed'
  BY <1>2, <1>3, <1>4, <1>8
  DEF SendReady, FlagsMean, StateMeans, KeyIsRenewed, MaySend
<1>11. BindsCurrent'
  BY <1>3, <1>4, <1>7, <1>8 DEF BindsCurrent
<1>12. QED
  BY <1>7, <1>9, <1>10, <1>11 DEF IInv, Meaning

\* A connection is made while a temporary key is still to be made or bound.
LEMMA ReadyUnboundKeeps == IInv /\ ReadyUnbound => IInv'
<1>1. SUFFICES ASSUME IInv, ReadyUnbound PROVE IInv'
  OBVIOUS
<1>2. /\ enable_pfs /\ "key" \in flags /\ "bound" \notin flags
      /\ UNCHANGED <<enable_pfs, flags, temp>>
  BY <1>1 DEF ReadyUnbound, BecomesReady
<1>3. "configured" \notin flags /\ Configs = {} /\ temp \in Nat
  BY <1>1, <1>2 DEF IInv, Meaning, FlagsMean, StateMeans
<1>4. Scalars'
  BY <1>1
  DEF IInv, Scalars, ReadyUnbound, BecomesReady, ReqPq, Permanent, Temporary
<1>5. CASE temp = NoKey
  <2>1. queries' = queries /\ UNCHANGED <<wire, known>>
        /\ state' = "reqpq_sent_temp"
    BY <1>1, <1>5 DEF ReadyUnbound, ReqPq
  <2>2. Alive = {}
    BY <1>1, <1>5 DEF IInv, Meaning, SendReady, MaySend
  <2>3. Alive' = {} /\ Configs' = {} /\ Binds' = {} /\ Former' = {}
    BY <2>1, <2>2, SameQueries DEF Configs, Binds, Former
  <2>4. QueryTypes'
    BY <1>1, <2>1, <2>2, <2>3 DEF IInv, QueryTypes
  <2>5. Meaning'
    BY <1>2, <1>3, <2>1, <2>3
    DEF Meaning, SendReady, FlagsMean, StateMeans, BindsCurrent,
        KeyIsRenewed, Temporary
  <2>6. QED
    BY <1>4, <2>4, <2>5 DEF IInv
<1>6. CASE temp # NoKey
  <2>1. PICK s \in Slot : BindTempAuthKey(s, temp)
    BY <1>1, <1>6 DEF ReadyUnbound
  <2>2. state' = "authorized"
    BY <1>1, <1>6 DEF ReadyUnbound
  <2>3. /\ QueryTypes' /\ queries'[s] = Bind(temp)
        /\ Alive' = (Alive \ Former) \cup {s}
        /\ Binds' = (Binds \ Former) \cup {s}
        /\ Configs' = Configs /\ Former' = {s}
        /\ \A t \in Alive' : t # s => t \in Alive /\ queries'[t] = queries[t]
    BY <1>1, <1>3, <2>1, NewBind DEF IInv
  <2>4. SendReady' /\ FlagsMean' /\ StateMeans' /\ KeyIsRenewed'
    BY <1>2, <1>3, <1>6, <2>2, <2>3
    DEF SendReady, FlagsMean, StateMeans, KeyIsRenewed, MaySend
  <2>5. BindsCurrent'
    <3>1. queries'[s].key = temp
      BY <1>3, <2>3, Records
    <3>2. \A t \in Binds' : t # s => t \in Binds /\ queries'[t] = queries[t]
      BY <2>3 DEF Binds
    <3>3. QED
      BY <1>1, <1>2, <2>3, <3>1, <3>2 DEF IInv, Meaning, BindsCurrent
  <2>6. QED
    BY <1>4, <2>3, <2>4, <2>5 DEF IInv, Meaning
<1>7. QED
  BY <1>5, <1>6

\* A connection is made with a key that the server accepts.
LEMMA ReadyBoundKeeps == IInv /\ ReadyBound => IInv'
<1>1. SUFFICES ASSUME IInv, ReadyBound PROVE IInv'
  OBVIOUS
<1>2. /\ "key" \in flags /\ (~enable_pfs \/ "bound" \in flags)
      /\ enable_pfs' = enable_pfs /\ bound' = bound /\ ev' = ev
      /\ flags' = flags \cup {"bound"} /\ state' = "authorized"
      /\ temp' = IF enable_pfs THEN temp ELSE PermKey
  BY <1>1 DEF ReadyBound, BecomesReady
<1>3. Scalars'
  BY <1>1, ConstantsAssumption
  DEF IInv, Scalars, ReadyBound, BecomesReady, Permanent, Temporary
<1>4. StateMeans'
  BY <1>1, <1>2 DEF IInv, Meaning, StateMeans, Temporary
<1>5. FlagsMean'
  BY <1>1, <1>2, ConstantsAssumption DEF IInv, Meaning, FlagsMean
<1>6. SendReady'
  BY <1>1, <1>2, ConstantsAssumption
  DEF IInv, Meaning, FlagsMean, SendReady, MaySend
<1>7. QueryTypes' /\ BindsCurrent' /\ KeyIsRenewed'
  <2>1. CASE "configured" \in flags
    <3>1. queries' = queries /\ wire' = wire /\ known' = known
      BY <1>1, <2>1 DEF ReadyBound
    <3>2. Alive' = Alive /\ Binds' = Binds /\ Configs' = Configs
          /\ Former' = Former
      BY <3>1, SameQueries
    <3>3. QueryTypes'
      BY <1>1, <3>1, <3>2 DEF IInv, QueryTypes
    <3>4. BindsCurrent' /\ KeyIsRenewed'
      BY <1>1, <1>2, <3>1, <3>2
      DEF IInv, Meaning, BindsCurrent, KeyIsRenewed
    <3>5. QED
      BY <3>3, <3>4
  <2>2. CASE "configured" \notin flags
    <3>1. PICK s \in Slot : GetConfig(s, "mpc_on_get_config")
      BY <1>1, <2>2 DEF ReadyBound
    <3>2. /\ QueryTypes' /\ s \notin Alive
          /\ \A t \in Alive : queries'[t] = queries[t]
          /\ Configs' = Configs \cup {s} /\ Binds' = Binds
          /\ Former' = Former
      BY <1>1, <3>1, NewConfig DEF IInv
    <3>3. Binds \subseteq Alive /\ Configs \subseteq Alive
      BY DEF Binds, Configs
    <3>4. BindsCurrent'
      BY <1>1, <1>2, <3>2, <3>3 DEF IInv, Meaning, BindsCurrent
    <3>5. KeyIsRenewed'
      BY <1>1, <1>2, <3>2, <3>3 DEF IInv, Meaning, KeyIsRenewed
    <3>6. QED
      BY <3>2, <3>4, <3>5
  <2>3. QED
    BY <2>1, <2>2
<1>8. QED
  BY <1>3, <1>4, <1>5, <1>6, <1>7 DEF IInv, Meaning

\* A query with other flags is one, of the same kind.
LEMMA Reflagged ==
  ASSUME NEW q \in ForcedQuery, NEW r,
         \/ r = [q EXCEPT !.here = TRUE, !.first = FALSE]
         \/ r = [q EXCEPT !.here = FALSE]
         \/ r = [q EXCEPT !.armed = TRUE]
         \/ r = [q EXCEPT !.armed = FALSE]
  PROVE  /\ r \in ForcedQuery /\ r.kind = q.kind /\ r.key = q.key
         /\ r.then = q.then /\ (r.first => q.first)
BY DEF ForcedQuery

\* If queries only change flags, or some leave that insert no timer, and the
\* keys stay, the invariant stays.
LEMMA LeavingKeeps ==
  ASSUME IInv, Left, UNCHANGED <<keys, bound>>,
         queries' \in [Slot -> ForcedQuery \cup {NoQuery}],
         \A t \in Configs : queries'[t] # NoQuery,
         wire' \subseteq Alive', known' \subseteq Alive',
         conn' \in {"connecting", "ready", "failed"}, jammed' \in BOOLEAN,
         asked' \in BOOLEAN, announced' \in BOOLEAN, troubles' \in Nat,
         process' \in {"running", "crashed"}
  PROVE  IInv'
<1>1. Scalars'
  BY DEF IInv, Scalars, keys
<1>2. QueryTypes'
  BY DEF QueryTypes
<1>3. KeyIsRenewed'
  <2>1. Configs' = Configs
    BY LeftSets DEF Configs, Alive
  <2>2. \A t \in Configs : queries'[t].then = queries[t].then
    BY DEF Left, Configs, Alive
  <2>3. QED
    BY <2>1, <2>2 DEF IInv, Meaning, KeyIsRenewed, keys
<1>4. Meaning'
  BY <1>3, LeftMeaning DEF IInv, keys
<1>5. QED
  BY <1>1, <1>2, <1>4 DEF IInv

\* A timer fires only when there is a key; it changes flags of one query.
LEMMA AlarmKeeps == ASSUME NEW s \in Slot PROVE IInv /\ Alarm(s) => IInv'
<1>1. SUFFICES ASSUME IInv, Alarm(s) PROVE IInv'
  OBVIOUS
<1>2. s \in Alive /\ MaySend /\ Running
  BY <1>1 DEF IInv, Meaning, SendReady, Alarm
<1>3. /\ UNCHANGED <<keys, conn, asked, known, announced, bound>>
      /\ Written
      /\ wire' = IF conn = "failed" THEN wire ELSE wire \cup {s}
  BY <1>1, <1>2 DEF Alarm
<1>4. jammed' \in BOOLEAN /\ process' \in {"running", "crashed"}
  BY <1>1, <1>2, <1>3 DEF Written, IInv, Scalars, Running
<1>5. troubles' \in Nat
  <2>1. troubles \in Nat
    BY <1>1 DEF IInv, Scalars
  <2>2. Trouble \/ troubles' = troubles
    BY <1>1 DEF Alarm, InTime
  <2>3. QED
    BY <2>1, <2>2 DEF Trouble
<1>6. \/ queries' = queries
      \/ queries' = [queries EXCEPT ![s] = [queries[s] EXCEPT
                       !.here = TRUE, !.first = FALSE]]
  BY <1>1 DEF Alarm
<1>7. /\ queries \in [Slot -> ForcedQuery \cup {NoQuery}]
      /\ queries[s] \in ForcedQuery
  BY <1>1, <1>2 DEF IInv, QueryTypes, Alive
<1>8. /\ queries' \in [Slot -> ForcedQuery \cup {NoQuery}] /\ Left
      /\ Alive' = Alive
  <2>1. CASE queries' = queries
    BY <1>7, <2>1 DEF Left, Alive
  <2>2. CASE queries' # queries
    <3>1. PICK r : r = [queries[s] EXCEPT !.here = TRUE, !.first = FALSE]
      OBVIOUS
    <3>2. /\ r \in ForcedQuery /\ r.kind = queries[s].kind
          /\ r.key = queries[s].key /\ r.then = queries[s].then
          /\ (r.first => queries[s].first)
      BY <1>7, <3>1, Reflagged
    <3>3. queries' = [queries EXCEPT ![s] = r] /\ r # NoQuery
      BY <1>6, <2>2, <3>1, <3>2, ConstantsAssumption
    <3>4. QED
      BY <1>2, <1>7, <3>2, <3>3 DEF Left, Alive
  <2>3. QED
    BY <2>1, <2>2
<1>9. wire' \subseteq Alive' /\ known' \subseteq Alive'
  BY <1>1, <1>2, <1>3, <1>8 DEF IInv, QueryTypes
<1>10. \A t \in Configs : queries'[t] # NoQuery
  BY <1>8 DEF Configs, Alive
<1>11. UNCHANGED <<keys, bound>> /\ conn' \in {"connecting", "ready", "failed"}
       /\ asked' \in BOOLEAN /\ announced' \in BOOLEAN
  BY <1>1, <1>3 DEF IInv, Scalars
<1>12. QED
  BY <1>1, <1>4, <1>5, <1>8, <1>9, <1>10, <1>11, LeavingKeeps

\* A message that arrives is still one of a pending query.
LEMMA DeliverKeeps == ASSUME NEW s \in Slot PROVE IInv /\ Deliver(s) => IInv'
<1>1. SUFFICES ASSUME IInv, Deliver(s) PROVE IInv'
  OBVIOUS
<1>2. /\ UNCHANGED <<keys, link, queries, announced, bound, troubles,
                     process>>
      /\ s \in wire /\ wire' = wire \ {s} /\ known' = known \cup {s}
  BY <1>1 DEF Deliver
<1>3. Alive' = Alive /\ Binds' = Binds /\ Configs' = Configs
      /\ Former' = Former
  BY <1>2, SameQueries
<1>4. Scalars'
  BY <1>1, <1>2 DEF IInv, Scalars, keys, link
<1>5. QueryTypes'
  BY <1>1, <1>2, <1>3 DEF IInv, QueryTypes
<1>6. Meaning'
  BY <1>1, <1>2, <1>3
  DEF IInv, Meaning, SendReady, FlagsMean, StateMeans, BindsCurrent,
      KeyIsRenewed, MaySend, keys
<1>7. QED
  BY <1>4, <1>5, <1>6 DEF IInv

\* An acknowledgement takes the timer of a query away.
LEMMA AckKeeps == ASSUME NEW s \in Slot PROVE IInv /\ Ack(s) => IInv'
<1>1. SUFFICES ASSUME IInv, Ack(s) PROVE IInv'
  OBVIOUS
<1>2. /\ s \in Alive /\ UNCHANGED <<keys, link, traffic, bound, troubles,
                                    process>>
      /\ queries' = [queries EXCEPT ![s] = [queries[s] EXCEPT !.armed = FALSE]]
      /\ queries \in [Slot -> ForcedQuery \cup {NoQuery}]
  BY <1>1 DEF Ack, IInv, QueryTypes
<1>3. PICK r : r = [queries[s] EXCEPT !.armed = FALSE]
  OBVIOUS
<1>4. queries[s] \in ForcedQuery
  BY <1>2 DEF Alive
<1>5. /\ r \in ForcedQuery /\ r.kind = queries[s].kind
      /\ r.key = queries[s].key /\ r.then = queries[s].then
      /\ (r.first => queries[s].first)
  BY <1>3, <1>4, Reflagged
<1>6. queries' = [queries EXCEPT ![s] = r] /\ r # NoQuery
  BY <1>2, <1>3, <1>5, ConstantsAssumption
<1>7. /\ queries' \in [Slot -> ForcedQuery \cup {NoQuery}] /\ Left
      /\ Alive' = Alive
  BY <1>2, <1>5, <1>6 DEF Left, Alive
<1>8. wire' \subseteq Alive' /\ known' \subseteq Alive'
  BY <1>1, <1>2, <1>7 DEF IInv, QueryTypes, traffic
<1>9. \A t \in Configs : queries'[t] # NoQuery
  BY <1>7 DEF Configs, Alive
<1>10. /\ UNCHANGED <<keys, bound>>
       /\ conn' \in {"connecting", "ready", "failed"} /\ jammed' \in BOOLEAN
       /\ asked' \in BOOLEAN /\ announced' \in BOOLEAN /\ troubles' \in Nat
       /\ process' \in {"running", "crashed"}
  BY <1>1, <1>2 DEF IInv, Scalars, link, traffic
<1>11. QED
  BY <1>1, <1>7, <1>8, <1>9, <1>10, LeavingKeeps

\* The notice of a new session inserts timers.
LEMMA NewSessionKeeps == IInv /\ NewSessionCreated => IInv'
<1>1. SUFFICES ASSUME IInv, NewSessionCreated PROVE IInv'
  OBVIOUS
<1>2. /\ UNCHANGED <<keys, link, wire, known, bound, troubles, process>>
      /\ announced' = TRUE
      /\ queries \in [Slot -> ForcedQuery \cup {NoQuery}]
  BY <1>1 DEF NewSessionCreated, IInv, QueryTypes
<1>3. ASSUME NEW t \in Slot
      PROVE  /\ queries'[t] \in ForcedQuery \cup {NoQuery}
             /\ queries'[t] = NoQuery <=> queries[t] = NoQuery
             /\ queries'[t] # NoQuery =>
                  /\ queries'[t].kind = queries[t].kind
                  /\ queries'[t].key = queries[t].key
                  /\ queries'[t].then = queries[t].then
                  /\ (queries'[t].first => queries[t].first)
  <2>1. \/ queries'[t] = queries[t]
        \/ /\ queries[t] \in ForcedQuery
           /\ queries'[t] = [queries[t] EXCEPT !.armed = TRUE]
    BY <1>1, <1>2 DEF NewSessionCreated, Alive
  <2>2. CASE queries'[t] = queries[t]
    BY <1>2, <2>2
  <2>3. CASE queries'[t] # queries[t]
    <3>1. queries[t] \in ForcedQuery
          /\ queries'[t] = [queries[t] EXCEPT !.armed = TRUE]
      BY <2>1, <2>3
    <3>2. QED
      BY <3>1, Reflagged, ConstantsAssumption
  <2>4. QED
    BY <2>2, <2>3
<1>4. queries' = [t \in Slot |-> queries'[t]]
  BY <1>1 DEF NewSessionCreated
<1>5. /\ queries' \in [Slot -> ForcedQuery \cup {NoQuery}] /\ Left
      /\ Alive' = Alive
  BY <1>3, <1>4 DEF Left, Alive
<1>6. wire' \subseteq Alive' /\ known' \subseteq Alive'
  BY <1>1, <1>2, <1>5 DEF IInv, QueryTypes
<1>7. \A t \in Configs : queries'[t] # NoQuery
  BY <1>5 DEF Configs, Alive
<1>8. /\ conn' \in {"connecting", "ready", "failed"} /\ jammed' \in BOOLEAN
      /\ asked' \in BOOLEAN /\ announced' \in BOOLEAN /\ troubles' \in Nat
      /\ process' \in {"running", "crashed"}
  BY <1>1, <1>2 DEF IInv, Scalars, link
<1>9. QED
  BY <1>1, <1>2, <1>5, <1>6, <1>7, <1>8, LeavingKeeps

\* A session that fails, perhaps with a bind query that is answered by that.
LEMMA SessionFailedKeeps ==
  ASSUME IInv, NEW gone \in SUBSET Binds, SessionFailed(gone),
         troubles' \in Nat
  PROVE  IInv'
<1>1. queries \in [Slot -> ForcedQuery \cup {NoQuery}]
  BY DEF IInv, QueryTypes
<1>2. ASSUME NEW t \in Slot
      PROVE  /\ queries'[t] \in ForcedQuery \cup {NoQuery}
             /\ queries'[t] # NoQuery =>
                  /\ queries[t] # NoQuery
                  /\ queries'[t].kind = queries[t].kind
                  /\ queries'[t].key = queries[t].key
                  /\ queries'[t].then = queries[t].then
                  /\ (queries'[t].first => queries[t].first)
             /\ t \in Alive \ gone => queries'[t] # NoQuery
  <2>1. CASE t \in Alive \ gone
    <3>1. queries[t] \in ForcedQuery
          /\ queries'[t] = [queries[t] EXCEPT !.here = FALSE]
      BY <1>1, <2>1 DEF SessionFailed, Alive
    <3>2. QED
      BY <3>1, Reflagged, ConstantsAssumption
  <2>2. CASE t \notin Alive \ gone
    BY <2>2 DEF SessionFailed
  <2>3. QED
    BY <2>1, <2>2
<1>3. queries' = [t \in Slot |-> queries'[t]]
  BY DEF SessionFailed
<1>4. queries' \in [Slot -> ForcedQuery \cup {NoQuery}] /\ Left
  BY <1>2, <1>3, ConstantsAssumption DEF Left
<1>5. Configs \subseteq Slot /\ Configs \subseteq Alive \ Binds
  BY DEF Configs, Binds, Alive
<1>6. \A t \in Configs : queries'[t] # NoQuery
  BY <1>2, <1>5
<1>7. /\ UNCHANGED <<keys, bound>>
      /\ conn' \in {"connecting", "ready", "failed"}
      /\ wire' \subseteq Alive' /\ known' \subseteq Alive'
      /\ jammed' \in BOOLEAN /\ asked' \in BOOLEAN /\ announced' \in BOOLEAN
      /\ process' \in {"running", "crashed"}
  BY DEF SessionFailed, IInv, Scalars
<1>8. QED
  BY <1>4, <1>6, <1>7, LeavingKeeps

\* A refused bind and a refused session fail the session.
LEMMA FailSessionKeeps ==
  IInv /\ (FailSession \/ \E s \in Slot : BindRefused(s)) => IInv'
<1>1. SUFFICES ASSUME IInv, FailSession \/ \E s \in Slot : BindRefused(s)
               PROVE  IInv'
  OBVIOUS
<1>2. PICK gone \in SUBSET Binds :
        SessionFailed(gone) /\ (Trouble \/ troubles' = troubles)
  <2>1. CASE FailSession
    BY <2>1 DEF FailSession
  <2>2. CASE \E s \in Slot : BindRefused(s)
    <3>1. PICK s \in Slot : BindRefused(s)
      BY <2>2
    <3>2. s \in Binds /\ SessionFailed({s})
          /\ (Trouble \/ troubles' = troubles)
      BY <3>1 DEF BindRefused
    <3>3. QED
      BY <3>2
  <2>3. QED
    BY <1>1, <2>1, <2>2
<1>3. troubles' \in Nat
  BY <1>1, <1>2 DEF IInv, Scalars, Trouble
<1>4. QED
  BY <1>1, <1>2, <1>3, SessionFailedKeeps

\* The answer of a configuration query opens the data centre and, after a
\* bind, inserts the timer.
LEMMA ConfigAnsweredKeeps ==
  ASSUME NEW s \in Slot PROVE IInv /\ ConfigAnswered(s) => IInv'
<1>1. SUFFICES ASSUME IInv, ConfigAnswered(s) PROVE IInv'
  OBVIOUS
<1>2. /\ s \in Configs /\ UNCHANGED <<enable_pfs, state, temp, bound>>
      /\ flags' = flags \cup {"configured"}
      /\ queries' = [queries EXCEPT ![s] = NoQuery]
      /\ wire' = wire \ {s} /\ known' = known \ {s}
      /\ ev' = IF queries[s].then = "set_flag_4" THEN "set" ELSE ev
  BY <1>1 DEF ConfigAnswered
<1>3. Scalars'
  BY <1>1 DEF IInv, Scalars, ConfigAnswered, link
<1>4. /\ queries' \in [Slot -> ForcedQuery \cup {NoQuery}]
      /\ \A t \in Slot : queries'[t] = IF t = s THEN NoQuery ELSE queries[t]
  BY <1>1, <1>2 DEF IInv, QueryTypes
<1>5. Alive' = Alive \ {s} /\ Left
  BY <1>4 DEF Alive, Left
<1>6. /\ Binds' = Binds \cap Alive' /\ Configs' = Configs \cap Alive'
      /\ Former' \subseteq Former
  BY <1>5, LeftSets
<1>7. QueryTypes'
  BY <1>1, <1>2, <1>4, <1>5 DEF IInv, QueryTypes
<1>8. SendReady' /\ FlagsMean' /\ StateMeans'
  BY <1>1, <1>2, <1>5, <1>6
  DEF IInv, Meaning, SendReady, FlagsMean, StateMeans, MaySend
<1>9. BindsCurrent'
  <2>1. \A t \in Binds' : t \in Binds /\ queries'[t].key = queries[t].key
    BY <1>5, <1>6 DEF Left, Binds, Alive
  <2>2. QED
    BY <1>1, <1>2, <1>6, <2>1 DEF IInv, Meaning, BindsCurrent
<1>10. KeyIsRenewed'
  <2>1. CASE queries[s].then = "set_flag_4"
    BY <1>2, <2>1 DEF KeyIsRenewed
  <2>2. CASE queries[s].then # "set_flag_4"
    <3>1. \A t \in Configs : t # s => t \in Configs'
                                      /\ queries'[t] = queries[t]
      BY <1>4, <1>5, <1>6 DEF Configs, Alive
    <3>2. QED
      BY <1>1, <1>2, <2>2, <3>1 DEF IInv, Meaning, KeyIsRenewed
  <2>3. QED
    BY <2>1, <2>2
<1>11. QED
  BY <1>3, <1>7, <1>8, <1>9, <1>10 DEF IInv, Meaning

\* The answer of the bind query is about the key in use, and asks for the
\* configuration that inserts the timer.
LEMMA BindAnsweredKeeps ==
  ASSUME NEW s \in Slot PROVE IInv /\ BindAnswered(s) => IInv'
<1>1. SUFFICES ASSUME IInv, BindAnswered(s) PROVE IInv'
  OBVIOUS
<1>2. /\ s \in Former /\ s \in Binds /\ s \in Alive
      /\ UNCHANGED <<enable_pfs, state, temp, ev>>
      /\ flags' = flags \cup {"bound"}
      /\ bound' = bound \cup {queries[s].key}
      /\ known' = known \ {s}
  BY <1>1 DEF BindAnswered, BindAnsweredThen, Former, Binds
<1>3. PICK t \in Slot :
        /\ t \notin Alive \ {s}
        /\ queries' = [u \in Slot |-> IF u = t THEN Config("set_flag_4")
                                      ELSE IF u = s THEN NoQuery
                                      ELSE queries[u]]
        /\ wire' = (wire \ {s}) \cup {t}
  BY <1>1 DEF BindAnswered, BindAnsweredThen
<1>4. /\ Config("set_flag_4") \in ForcedQuery
      /\ Config("set_flag_4") # NoQuery
      /\ Config("set_flag_4").kind = "config"
      /\ Config("set_flag_4").then = "set_flag_4"
  BY Records, ConstantsAssumption
<1>5. queries[s] \in ForcedQuery
  BY <1>1, <1>2 DEF IInv, QueryTypes, Alive
<1>6. queries[s].key = temp /\ queries[s].key \in Nat
  BY <1>1, <1>2, <1>5 DEF IInv, Meaning, BindsCurrent, ForcedQuery
<1>7. /\ queries' \in [Slot -> ForcedQuery \cup {NoQuery}]
      /\ queries'[t] = Config("set_flag_4")
      /\ s # t => queries'[s] = NoQuery
      /\ \A u \in Slot : u # t /\ u # s => queries'[u] = queries[u]
  BY <1>1, <1>2, <1>3, <1>4 DEF IInv, QueryTypes, Alive
<1>8. Alive' = (Alive \ {s}) \cup {t}
  BY <1>3, <1>4, <1>7 DEF Alive
<1>9. \A u \in Alive : u \in Slot
  BY DEF Alive
<1>10. Configs' = Configs \cup {t} /\ Binds' = Binds \ {s}
  <2>1. s \notin Configs
    BY <1>2 DEF Configs, Binds
  <2>2. QED
    BY <1>2, <1>3, <1>4, <1>7, <1>8, <1>9, <2>1 DEF Configs, Binds
<1>11. \A u \in Binds' : u \in Binds /\ queries'[u] = queries[u]
  BY <1>3, <1>7, <1>9, <1>10 DEF Binds
<1>12. Scalars'
  BY <1>1, <1>2, <1>6
  DEF IInv, Scalars, BindAnswered, BindAnsweredThen, link
<1>13. QueryTypes'
  BY <1>1, <1>2, <1>3, <1>7, <1>8 DEF IInv, QueryTypes
<1>14. SendReady' /\ FlagsMean' /\ StateMeans'
  <2>1. enable_pfs /\ MaySend /\ "key" \in flags
    BY <1>1, <1>2 DEF IInv, Meaning, SendReady, BindsCurrent
  <2>2. QED
    BY <1>1, <1>2, <1>6, <2>1
    DEF IInv, Meaning, SendReady, FlagsMean, StateMeans, MaySend
<1>15. BindsCurrent'
  BY <1>1, <1>2, <1>11 DEF IInv, Meaning, BindsCurrent, Former
<1>16. KeyIsRenewed'
  BY <1>4, <1>7, <1>10 DEF KeyIsRenewed
<1>17. QED
  BY <1>12, <1>13, <1>14, <1>15, <1>16 DEF IInv, Meaning

\* Without a pending forced query, an expired key leaves a data centre that
\* has nothing to send.
LEMMA RegenerateKeeps == ASSUME Prompt PROVE IInv /\ Regenerate => IInv'
<1>1. SUFFICES ASSUME IInv, Regenerate PROVE IInv'
  OBVIOUS
<1>2. /\ Alive = {} /\ enable_pfs' = enable_pfs /\ temp' = NoKey
      /\ ev' = "off" /\ bound' = bound
      /\ flags' = flags \cap {"key"} /\ wire' = {} /\ known' = {}
  BY <1>1 DEF Regenerate, RegenerateKeeping, NewSession
<1>3. queries' = [s \in Slot |-> NoQuery]
  BY <1>1, <1>2 DEF Regenerate, RegenerateKeeping, NewSession
<1>4. Alive' = {} /\ Binds' = {} /\ Configs' = {} /\ Former' = {}
  BY <1>3 DEF Alive, Binds, Configs, Former
<1>5. Scalars'
  <2>1. jammed' \in BOOLEAN /\ process' \in {"running", "crashed"}
    BY <1>1 DEF IInv, Scalars, Regenerate, RegenerateKeeping, Written
  <2>2. /\ state' \in {"init", "authorized"} \cup Permanent \cup Temporary
        /\ asked' \in BOOLEAN
    BY <1>1 DEF IInv, Scalars, Regenerate, RegenerateKeeping, Temporary
  <2>3. UNCHANGED <<made, conn, troubles>> /\ announced' = FALSE
    BY <1>1 DEF Regenerate, RegenerateKeeping, NewSession
  <2>4. QED
    BY <1>1, <1>2, <2>1, <2>2, <2>3, ConstantsAssumption DEF IInv, Scalars
<1>6. QueryTypes'
  BY <1>2, <1>3 DEF QueryTypes
<1>7. StateMeans'
  <2>1. \/ state' = state
        \/ state = "authorized" /\ enable_pfs /\ state' = "reqpq_sent_temp"
    BY <1>1 DEF Regenerate, RegenerateKeeping
  <2>2. QED
    BY <1>1, <1>2, <2>1, ConstantsAssumption
    DEF IInv, Meaning, StateMeans, Temporary
<1>8. SendReady' /\ FlagsMean' /\ BindsCurrent' /\ KeyIsRenewed'
  BY <1>2, <1>4 DEF SendReady, FlagsMean, BindsCurrent, KeyIsRenewed
<1>9. QED
  BY <1>5, <1>6, <1>7, <1>8 DEF IInv, Meaning

-----------------------------------------------------------------------------
\* The invariant is inductive.
LEMMA Inductive == ASSUME Prompt PROVE IInv /\ [Next]_vars => IInv'
<1>1. SUFFICES ASSUME IInv, [Next]_vars PROVE IInv'
  OBVIOUS
<1>2. CASE Handshake
  BY <1>1, <1>2, RespqKeeps, DhKeeps, AuthCompleteKeeps,
     AuthCompleteTempKeeps DEF Handshake
<1>3. CASE HandshakeRejected \/ ConnectionLost \/ FailAlarm \/ PingAlarm
  BY <1>1, <1>3, ConnectionKeeps
<1>4. CASE Ready
  BY <1>1, <1>4, ReadyWithoutKeyKeeps, ReadyUnboundKeeps, ReadyBoundKeeps
  DEF Ready
<1>5. CASE NewSessionCreated
  BY <1>1, <1>5, NewSessionKeeps
<1>6. CASE FailSession
  BY <1>1, <1>6, FailSessionKeeps
<1>7. CASE Regenerate
  BY <1>1, <1>7, RegenerateKeeps
<1>8. ASSUME NEW s \in Slot, OfQuery(s) PROVE IInv'
  BY <1>1, <1>8, DeliverKeeps, AckKeeps, ConfigAnsweredKeeps,
     BindAnsweredKeeps, FailSessionKeeps, AlarmKeeps DEF OfQuery
<1>9. CASE UNCHANGED vars
  <2>1. UNCHANGED <<keys, queries, known, wire, announced, bound, process,
                    conn, jammed, asked, troubles>>
    BY <1>9 DEF vars, link, traffic
  <2>2. /\ conn \in {"connecting", "ready", "failed"} /\ jammed \in BOOLEAN
        /\ asked \in BOOLEAN /\ troubles \in Nat
    BY <1>1 DEF IInv, Scalars
  <2>3. QED
    BY <1>1, <2>1, <2>2, LinkKeeps
<1>10. QED
  BY <1>1, <1>2, <1>3, <1>4, <1>5, <1>6, <1>7, <1>8, <1>9 DEF Next

\* It holds in every state of every behaviour.
LEMMA Invariant == ASSUME Prompt PROVE Spec => []IInv
BY InitInvariant, Inductive, PTL DEF Spec

\* The state keeps its types (a view of the structures of mtproto-client.h).
THEOREM AuthTypeCorrect == ASSUME Prompt PROVE Spec => []TypeOK
<1>1. IInv => TypeOK
  BY DEF IInv, Scalars, QueryTypes, TypeOK
<1>2. QED
  BY <1>1, Invariant, PTL

\* The assertions of init_enc_msg hold whenever it is called for a forced
\* query, by whatever timer, callback or new connection.
THEOREM AuthNeverAborts == ASSUME Prompt PROVE Spec => []NeverAborts
<1>1. IInv => NeverAborts
  BY DEF IInv, Scalars, NeverAborts
<1>2. QED
  BY <1>1, Invariant, PTL

\* While flag 4 is set, the key in use is one that the server accepts.
THEOREM AuthOpenMeansBound == ASSUME Prompt PROVE Spec => []OpenMeansBound
<1>1. IInv => OpenMeansBound
  BY DEF IInv, Meaning, FlagsMean, OpenMeansBound
<1>2. QED
  BY <1>1, Invariant, PTL

\* Every temporary key in use has its timer, or a query that inserts it.
THEOREM AuthKeyIsRenewed == ASSUME Prompt PROVE Spec => []KeyIsRenewed
<1>1. IInv => KeyIsRenewed
  BY DEF IInv, Meaning
<1>2. QED
  BY <1>1, Invariant, PTL

\* At most one bind query that the server can accept is pending.
THEOREM AuthOneBind == ASSUME Prompt PROVE Spec => []OneBind
<1>1. IInv => OneBind
  BY DEF IInv, Meaning, BindsCurrent, OneBind, Former
<1>2. QED
  BY <1>1, Invariant, PTL
=============================================================================
