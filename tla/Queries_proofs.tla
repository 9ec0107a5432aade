--------------------------- MODULE Queries_proofs ---------------------------
(***************************************************************************)
(* Proofs about the query engine, for any number of requests, data centres *)
(* and sessions, and for every server that Codes and Repeats allow.        *)
(***************************************************************************)
EXTENDS Queries, FiniteSetTheorems, TLAPS

\* A callback is called only for a request that is gone, and then once.
CalledOnceAndGone ==
  \A q \in Query : calls[q] # 0 => calls[q] = 1 /\ q \in issued \ alive

\* The password dialogue holds a query exactly while it runs.
Parked ==
  /\ pwd # "none" => waiting # NoQuery
  /\ waiting # NoQuery => waiting \in alive \ (tree \cup armed)

\* The message of query q under its present id.
Present(q) == [query |-> q, id |-> msg_id[q]]

\* What the server has of a query of the tree belongs to the session the
\* query notes.
SentInSession ==
  \A q \in tree : Present(q) \in inbox[dc[q]] \cup known[dc[q]]
                    => session_id[q] = current[dc[q]]

\* An acknowledged query is known to the session it notes; if it is armed it
\* notes none, and if it is not, that session is the present one or the
\* announcement of the present one is still to come.
AckedInSession ==
  \A q \in acked \cap tree :
    /\ session_id[q] = current[dc[q]] => Present(q) \in known[dc[q]]
    /\ q \in armed => session_id[q] = NoSession
    /\ q \notin armed => session_id[q] = current[dc[q]] \/ dc[q] \notin announced

\* A query that moves between data centres notes no session.
MovingHasNone == \A q \in armed \ tree : session_id[q] = NoSession

IInv ==
  /\ TypeOK
  /\ NoTimerOnFreed
  /\ UnackedIsArmed
  /\ CalledOnceAndGone
  /\ Parked
  /\ SentInSession
  /\ AckedInSession
  /\ MovingHasNone

-----------------------------------------------------------------------------
\* NextMsgId is a message id that nothing refers to, NextSession likewise.
LEMMA NewIdsAreUnused ==
  /\ FreeIds # {} => NextMsgId \in MsgId \ UsedIds
  /\ FreeSessions # {} => NextSession \in SessionId \ UsedSessions
  BY DEF FreeIds, FreeSessions, NextMsgId, NextSession

\* The invariant holds at the start.
LEMMA InitIInv == Init => IInv
<1>. SUFFICES ASSUME Init PROVE IInv
  OBVIOUS
<1>1. TypeOK
  <2>1. /\ msg_id \in [Query -> MsgId \cup {NoId}]
        /\ session_id \in [Query -> SessionId \cup {NoSession}]
        /\ calls \in [Query -> Nat]
    BY DEF Init, Fresh
  <2>4. dc \in [Query -> DC]
    <3>1. HomeDC \in DC
      BY ConstantsAssumption
    <3>. QED
      BY <3>1 DEF Init, Fresh
  <2>2. inbox \in [DC -> SUBSET Message] /\ known \in [DC -> SUBSET Message]
    BY DEF Init, Fresh
  <2>3. current \in [DC -> SessionId] /\ DC_working \in DC
    BY ConstantsAssumption DEF Init, Fresh
  <2>5. locked \in BOOLEAN /\ safe_quit \in BOOLEAN
    BY DEF Init, Fresh
  <2>. QED
    BY <2>1, <2>2, <2>3, <2>4, <2>5 DEF Init, Fresh, TypeOK
<1>2. NoTimerOnFreed /\ UnackedIsArmed /\ CalledOnceAndGone /\ Parked
  BY DEF Init, Fresh, NoTimerOnFreed, UnackedIsArmed, CalledOnceAndGone, Parked
<1>3. SentInSession /\ AckedInSession /\ MovingHasNone
  BY DEF Init, Fresh, SentInSession, AckedInSession, MovingHasNone
<1>. QED
  BY <1>1, <1>2, <1>3 DEF IInv

\* The types, after a query is sent.
LEMMA PutInTreeType ==
  ASSUME TypeOK, NEW q \in Query, NEW d \in DC, PutInTree(q, d)
  PROVE  /\ tree' = tree \cup {q}
         /\ armed' \subseteq Query /\ acked' \subseteq Query
         /\ msg_id' \in [Query -> MsgId \cup {NoId}]
         /\ msg_id'[q] # NoId
         /\ \A p \in Query \ {q} : msg_id'[p] = msg_id[p]
         /\ session_id' \in [Query -> SessionId \cup {NoSession}]
         /\ inbox' \in [DC -> SUBSET Message]
<1>. USE DEF PutInTree, TypeOK
<1>1. NextMsgId \in MsgId /\ NextMsgId # NoId
  BY NewIdsAreUnused, ConstantsAssumption
<1>2. session_id' \in [Query -> SessionId \cup {NoSession}]
  BY DEF Noted
<1>3. inbox' \in [DC -> SUBSET Message]
  BY <1>1 DEF Transmit, Message
<1>. QED
  BY <1>1, <1>2, <1>3

\* A timer that fires keeps the types of the engine (alarm_query).
LEMMA AlarmQueryType ==
  ASSUME TypeOK, NEW q \in alive, AlarmQuery(q),
         UNCHANGED <<issued, alive, dc, calls, known, announced, dialogue,
                     client, program>>,
         active_queries' = active_queries
  PROVE  TypeOK'
<1>. USE DEF TypeOK, dialogue, client, program
<1>1. CASE InSession(q)
  <2>1. inbox' \in [DC -> SUBSET Message]
    BY <1>1 DEF AlarmQuery, Transmit, Message
  <2>. QED
    BY <1>1, <2>1 DEF AlarmQuery
<1>2. CASE ~InSession(q)
  <2>1. PutInTree(q, dc[q]) /\ q \in Query /\ dc[q] \in DC
    BY <1>2 DEF AlarmQuery
  <2>. QED
    BY <2>1, PutInTreeType
<1>. QED
  BY <1>1, <1>2

\* Sending a query for the first time, by its timer or after the password: its
\* new id is unknown to the server, or is sent in the present session.
LEMMA PutInTreeStep ==
  ASSUME IInv, NEW q \in Query, NEW d \in DC, PutInTree(q, d), calls[q] = 0,
         issued' = issued \cup {q}, alive' = alive \cup {q},
         dc' = [dc EXCEPT ![q] = d],
         UNCHANGED <<calls, known, announced, current>>,
         Parked', TypeOK'
  PROVE  IInv'
<1>. USE DEF IInv, PutInTree
<1>1. NextMsgId \in MsgId \ UsedIds
  BY NewIdsAreUnused
<1>2. (NoTimerOnFreed /\ UnackedIsArmed /\ CalledOnceAndGone /\ MovingHasNone)'
  BY DEF NoTimerOnFreed, UnackedIsArmed, CalledOnceAndGone, MovingHasNone, TypeOK
<1>3. SentInSession'
  <2>. SUFFICES ASSUME NEW p \in tree',
                       Present(p)' \in inbox'[dc'[p]] \cup known[dc'[p]]
                PROVE  session_id'[p] = current[dc'[p]]
    BY DEF SentInSession
  <2>1. CASE p = q
    <3>1. msg_id'[q] = NextMsgId /\ dc'[q] = d
      BY <1>1 DEF TypeOK
    <3>2. [query |-> q, id |-> NextMsgId] \notin inbox[d] \cup known[d]
      BY <1>1 DEF UsedIds, TypeOK
    <3>3. Open(q, d)
      BY <2>1, <3>1, <3>2 DEF Transmit, Present
    <3>. QED
      BY <2>1, <3>1, <3>3 DEF Noted, TypeOK
  <2>2. CASE p # q
    <3>1. /\ p \in tree /\ dc'[p] = dc[p]
          /\ msg_id'[p] = msg_id[p] /\ session_id'[p] = session_id[p]
      BY <2>2 DEF TypeOK
    <3>2. Present(p) \in inbox[dc[p]] \cup known[dc[p]]
      BY <2>2, <3>1 DEF Transmit, Present, TypeOK
    <3>. QED
      BY <3>1, <3>2 DEF SentInSession
  <2>. QED
    BY <2>1, <2>2
<1>4. AckedInSession'
  <2>. SUFFICES ASSUME NEW p \in acked' \cap tree'
                PROVE  /\ p \in acked \cap tree /\ p # q
                       /\ msg_id'[p] = msg_id[p] /\ dc'[p] = dc[p]
                       /\ session_id'[p] = session_id[p]
                       /\ p \in armed' <=> p \in armed
    BY DEF AckedInSession, Present
  <2>. QED
    BY DEF TypeOK
<1>. QED
  BY <1>2, <1>3, <1>4

\* alarm_query, whoever calls it: a query whose message the server has
\* acknowledged in the present session is never its argument.
LEMMA AlarmQueryStep ==
  ASSUME IInv, NEW q \in alive, AlarmQuery(q), TypeOK',
         InSession(q) => q \in tree \ acked,
         waiting # q,
         UNCHANGED <<issued, alive, dc, calls, known, announced, current,
                     pwd, waiting>>
  PROVE  IInv'
<1>1. q \in Query /\ waiting' = waiting
  BY DEF IInv, TypeOK
<1>2. Parked'
  BY <1>1 DEF IInv, Parked, AlarmQuery, PutInTree
<1>3. CASE InSession(q)
  <2>. USE <1>3 DEF AlarmQuery, IInv
  <2>1. (NoTimerOnFreed /\ UnackedIsArmed /\ CalledOnceAndGone /\ MovingHasNone)'
    BY DEF NoTimerOnFreed, UnackedIsArmed, CalledOnceAndGone, MovingHasNone, TypeOK
  <2>2. SentInSession'
    BY <1>1 DEF SentInSession, Transmit, Present, InSession, TypeOK
  <2>3. AckedInSession'
    BY <1>1 DEF AckedInSession, Present, TypeOK
  <2>. QED
    BY <1>2, <2>1, <2>2, <2>3
<1>4. CASE ~InSession(q)
  <2>1. PutInTree(q, dc[q]) /\ dc[q] \in DC /\ calls[q] = 0
    BY <1>1, <1>4 DEF AlarmQuery, IInv, TypeOK, CalledOnceAndGone
  <2>2. /\ issued' = issued \cup {q} /\ alive' = alive \cup {q}
        /\ dc' = [dc EXCEPT ![q] = dc[q]]
    BY DEF IInv, TypeOK
  <2>. QED
    BY <1>1, <1>2, <2>1, <2>2, PutInTreeStep
<1>. QED
  BY <1>3, <1>4

\* Sending a new query keeps the invariant (tglq_send_query_ex).
LEMMA StepSendQuery ==
  ASSUME IInv, NEW q \in Query, NEW d \in DC, SendQuery(q, d)
  PROVE  IInv'
<1>. USE DEF SendQuery, IInv, dialogue, client, program
<1>1. calls[q] = 0 /\ q \notin alive /\ PutInTree(q, d)
  BY DEF TypeOK, CalledOnceAndGone
<1>2. TypeOK'
  BY <1>1, PutInTreeType DEF TypeOK
<1>3. Parked'
  BY <1>1 DEF Parked, PutInTree
<1>. QED
  BY <1>1, <1>2, <1>3, PutInTreeStep

\* A timer that fires keeps the invariant (alarm_query_gateway).
LEMMA StepAlarm ==
  ASSUME IInv, NEW q \in Query, Alarm(q)
  PROVE  IInv'
<1>. USE DEF Alarm, IInv, dialogue, client, program
<1>1. /\ q \in alive /\ waiting # q
      /\ InSession(q) => q \in tree \ acked
  BY ConstantsAssumption
  DEF Parked, NoTimerOnFreed, AckedInSession, MovingHasNone, InSession
<1>2. TypeOK'
  BY <1>1, AlarmQueryType
<1>. QED
  BY <1>1, <1>2, AlarmQueryStep

\* The server rejects a message only before it has acknowledged it.
LEMMA StepBadServerSalt ==
  ASSUME IInv, NEW q \in Query, BadServerSalt(q)
  PROVE  IInv'
<1>. USE DEF BadServerSalt, IInv, dialogue, client, program
<1>1. /\ q \in alive /\ waiting # q
      /\ InSession(q) => q \in tree \ acked
  BY ConstantsAssumption
  DEF Parked, AckedInSession, InSession, Rejected, Present, TypeOK
<1>2. TypeOK'
  BY <1>1, AlarmQueryType
<1>. QED
  BY <1>1, <1>2, AlarmQueryStep

\* The query that waited is outside the tree, so it may enter it again.
LEMMA StepPasswordRight ==
  ASSUME IInv, PasswordRight
  PROVE  IInv'
<1>. USE DEF PasswordRight, PasswordUnchanged, IInv, client, program
<1>1. /\ waiting \in Query /\ waiting \in alive /\ dc[waiting] \in DC
      /\ calls[waiting] = 0
  BY ConstantsAssumption DEF Parked, TypeOK, CalledOnceAndGone
<1>2. /\ issued' = issued \cup {waiting} /\ alive' = alive \cup {waiting}
      /\ dc' = [dc EXCEPT ![waiting] = dc[waiting]]
  BY <1>1 DEF TypeOK
<1>3. TypeOK'
  <2>1. PutInTree(waiting, dc[waiting])
    OBVIOUS
  <2>. QED
    BY <1>1, <2>1, PutInTreeType DEF TypeOK
<1>4. Parked'
  BY ConstantsAssumption DEF Parked
<1>. QED
  BY <1>1, <1>2, <1>3, <1>4, PutInTreeStep

\* The query that is parked has no timer: the server answers only what it was
\* sent in the present session, and an acknowledged query of that is unarmed.
LEMMA StepErrorPassword ==
  ASSUME IInv, NEW q \in Query, ErrorPassword(q)
  PROVE  IInv'
<1>. USE DEF ErrorPassword, IInv, client, program
<1>1. q \in tree /\ session_id[q] = current[dc[q]] /\ q \notin armed'
  BY ConstantsAssumption DEF Owned, SentInSession, AckedInSession, Present, TypeOK
<1>2. TypeOK'
  <2>1. /\ known' \in [DC -> SUBSET Message] /\ inbox' \in [DC -> SUBSET Message]
        /\ announced' = announced
    BY DEF AnswerTo, Answered, TypeOK
  <2>2. /\ locked' \in BOOLEAN /\ pwd' \in {"none", "get", "typing", "check"}
        /\ waiting' \in Query \cup {NoQuery}
        /\ active_queries' \in Int
    <3>1. CASE locked
      BY <3>1 DEF TypeOK, dialogue, Decrement
    <3>2. CASE ~locked
      BY <3>2 DEF TypeOK
    <3>. QED
      BY <3>1, <3>2
  <2>. QED
    BY <2>1, <2>2 DEF TypeOK
<1>3. Parked'
  <2>1. CASE locked
    BY <1>1, <2>1 DEF Parked, dialogue, TypeOK
  <2>2. CASE ~locked
    BY <1>1, <2>2, ConstantsAssumption DEF Parked, TypeOK
  <2>. QED
    BY <2>1, <2>2
<1>4. (NoTimerOnFreed /\ UnackedIsArmed /\ CalledOnceAndGone /\ MovingHasNone)'
  BY <1>1 DEF NoTimerOnFreed, UnackedIsArmed, CalledOnceAndGone, MovingHasNone
<1>5. SentInSession' /\ AckedInSession'
  BY DEF SentInSession, AckedInSession, Present, AnswerTo, Answered, TypeOK
<1>. QED
  BY <1>2, <1>3, <1>4, <1>5

-----------------------------------------------------------------------------
\* Every step keeps the invariant: a lemma above for the actions that send or
\* park a query, the definitions for the others.
LEMMA NextIInv == IInv /\ [Next]_vars => IInv'
<1>. SUFFICES ASSUME IInv, [Next]_vars PROVE IInv'
  OBVIOUS
<1>. USE DEF IInv, TypeOK, NoTimerOnFreed, UnackedIsArmed, CalledOnceAndGone,
             Parked, SentInSession, AckedInSession, MovingHasNone, Present,
             Message, engine, dialogue, client, program, server
<1>1. ASSUME NEW q \in Query, NEW d \in DC, SendQuery(q, d) PROVE IInv'
  BY <1>1, StepSendQuery
<1>2. ASSUME NEW q \in Query, Alarm(q) PROVE IInv'
  BY <1>2, StepAlarm
<1>3. ASSUME NEW q \in Query, FromServer(q) PROVE IInv'
  <2>. USE DEF Owned, AnswerTo, Answered, Dispose, Decrement
  <2>1. CASE Ack(q)
    BY <2>1 DEF Ack
  <2>2. CASE Result(q)
    BY <2>2, ConstantsAssumption DEF Result
  <2>3. CASE ErrorFail(q)
    BY <2>3, ConstantsAssumption DEF ErrorFail
  <2>4. CASE ErrorInternal(q)
    BY <2>4, ConstantsAssumption DEF ErrorInternal
  <2>5. CASE ErrorBind(q)
    BY <2>5, ConstantsAssumption, NewIdsAreUnused DEF ErrorBind, Replaced, UsedSessions
  <2>6. CASE ErrorPassword(q)
    BY <2>6, StepErrorPassword
  <2>7. CASE BadServerSalt(q)
    BY <2>7, StepBadServerSalt
  <2>8. CASE BadMsgNotification(q)
    BY <2>8, ConstantsAssumption, NewIdsAreUnused
    DEF BadMsgNotification, Rejected, Replaced, UsedSessions, InSession, Open
  <2>9. ASSUME NEW d \in DC, ErrorMigrate(q, d) PROVE IInv'
    BY <2>9 DEF ErrorMigrate
  <2>. QED
    BY <1>3, <2>1, <2>2, <2>3, <2>4, <2>5, <2>6, <2>7, <2>8, <2>9
    DEF FromServer
<1>4. ASSUME NEW d \in DC, OfDC(d) PROVE IInv'
  <2>. USE NewIdsAreUnused DEF Replaced, UsedSessions
  <2>1. CASE NewSessionCreated(d)
    <3>1. \A q \in Query :
            session_id'[q] = IF q \in Stale(d) THEN NoSession ELSE session_id[q]
      BY <2>1 DEF NewSessionCreated
    <3>. USE <2>1 DEF NewSessionCreated, Stale
    <3>2. TypeOK'
      OBVIOUS
    <3>3. SentInSession'
      BY <3>1
    <3>4. AckedInSession'
      BY <3>1, ConstantsAssumption
    <3>5. MovingHasNone'
      OBVIOUS
    <3>6. Parked'
      OBVIOUS
    <3>. QED
      BY <3>2, <3>3, <3>4, <3>5, <3>6
  <2>2. CASE FailSession(d)
    BY <2>2 DEF FailSession
  <2>3. CASE RegenerateKey(d)
    BY <2>3 DEF RegenerateKey
  <2>4. CASE SetConfigured(d)
    BY <2>4 DEF SetConfigured
  <2>. QED
    BY <1>4, <2>1, <2>2, <2>3, <2>4 DEF OfDC
<1>5. ASSUME NEW d \in DC, Wire(d) PROVE IInv'
  <2>1. ASSUME NEW m \in inbox[d], Deliver(d, m) PROVE IInv'
    BY <2>1 DEF Deliver
  <2>2. ASSUME NEW m \in inbox[d], Lose(d, m) PROVE IInv'
    BY <2>2 DEF Lose
  <2>3. ASSUME NEW m \in known[d], UnknownAnswer(d, m) PROVE IInv'
    BY <2>3 DEF UnknownAnswer, Answered, Decrement
  <2>. QED
    BY <1>5, <2>1, <2>2, <2>3 DEF Wire
<1>6. ASSUME Dialogue PROVE IInv'
  <2>. USE DEF PasswordUnchanged, EngineButCount, Decrement
  <2>1. CASE PasswordAsked
    BY <2>1 DEF PasswordAsked
  <2>2. CASE PasswordNotSet
    <3>1. pwd' \in {"none", "get", "typing", "check"} /\ locked' \in BOOLEAN
      BY <2>2 DEF PasswordNotSet
    <3>2. TypeOK'
      BY <2>2, <3>1 DEF PasswordNotSet
    <3>3. Parked'
      BY <2>2 DEF PasswordNotSet
    <3>. QED
      BY <2>2, <3>2, <3>3 DEF PasswordNotSet
  <2>3. CASE PasswordTyped
    BY <2>3 DEF PasswordTyped
  <2>4. CASE PasswordWrong
    BY <2>4 DEF PasswordWrong
  <2>5. CASE PasswordRight
    BY <2>5, StepPasswordRight
  <2>6. CASE PasswordRefused
    BY <2>6 DEF PasswordRefused
  <2>. QED
    BY <1>6, <2>1, <2>2, <2>3, <2>4, <2>5, <2>6 DEF Dialogue
<1>7. CASE SafeQuit
  BY <1>7 DEF SafeQuit
<1>8. CASE Halt
  BY <1>8 DEF Halt
<1>9. CASE UNCHANGED vars
  BY <1>9 DEF vars
<1>. HIDE DEF IInv
<1>. QED
  BY <1>1, <1>2, <1>3, <1>4, <1>5, <1>6, <1>7, <1>8, <1>9 DEF Next

\* The invariant holds in every reachable state.
THEOREM Invariance == Spec => []IInv
  BY InitIInv, NextIInv, PTL DEF Spec

\* The types are respected.
THEOREM TypeCorrect == Spec => []TypeOK
  BY Invariance, PTL DEF IInv

\* No timer ever fires on a freed query, and a request the server has not
\* acknowledged always has its timer running.
THEOREM TimersCorrect == Spec => [](NoTimerOnFreed /\ UnackedIsArmed)
  BY Invariance, PTL DEF IInv

\* The callback of a request is called at most once.
THEOREM CallbackOnce == Spec => []CalledAtMostOnce
<1>1. IInv => CalledAtMostOnce
  BY DEF IInv, TypeOK, CalledOnceAndGone, CalledAtMostOnce
<1>. QED
  BY <1>1, Invariance, PTL

\* The query that waits for the password is allocated, outside the tree and
\* unarmed, so resend_query_cb frees a query that nothing else refers to.
THEOREM WaitingParked == Spec => []WaitingIsParked
<1>1. IInv => WaitingIsParked
  BY DEF IInv, Parked, WaitingIsParked
<1>. QED
  BY <1>1, Invariance, PTL

\* An acknowledged request without timer is owed its answer by the present
\* session, or will be sent again when that session is announced.
THEOREM AckedRecoverable == Spec => []AckedIsRecoverable
<1>1. IInv => AckedIsRecoverable
  BY DEF IInv, AckedInSession, AckedIsRecoverable, Owned, Present
<1>. QED
  BY <1>1, Invariance, PTL

\* A query in the tree changes its id only when its session is over.
THEOREM SameIdInSession == Spec => NewIdOnlyForNewSession
<1>1. IInv /\ [Next]_vars =>
        [\A q \in tree \cap tree' : msg_id'[q] # msg_id[q] => ~InSession(q)]_vars
  <2>. SUFFICES ASSUME IInv, Next, NEW q \in tree \cap tree',
                       msg_id'[q] # msg_id[q]
                PROVE  ~InSession(q)
    BY DEF vars
  <2>1. q \in Query /\ q \in issued /\ waiting # q
    BY ConstantsAssumption DEF IInv, TypeOK, Parked
  <2>. USE DEF IInv, TypeOK, AlarmQuery, PutInTree, Dispose, engine
  <2>2. \A p \in Query, d \in DC : ~SendQuery(p, d) \/ p # q
    BY <2>1 DEF SendQuery
  <2>3. ASSUME NEW p \in Query, FromServer(p) PROVE p = q /\ ~InSession(q)
    BY <2>1, <2>3 DEF FromServer, Ack, Result, ErrorFail, ErrorInternal,
       ErrorBind, ErrorPassword, BadServerSalt, BadMsgNotification, ErrorMigrate
  <2>4. ASSUME NEW p \in Query, Alarm(p) PROVE ~InSession(q)
    BY <2>1, <2>4 DEF Alarm
  <2>5. ASSUME NEW p \in Query, NEW d \in DC, SendQuery(p, d) PROVE FALSE
    BY <2>1, <2>2, <2>5 DEF SendQuery
  <2>6. ASSUME NEW d \in DC, OfDC(d) \/ Wire(d) PROVE FALSE
    BY <2>6 DEF OfDC, Wire, NewSessionCreated, FailSession, RegenerateKey,
       SetConfigured, Deliver, Lose, UnknownAnswer
  <2>7. ~Dialogue
    BY <2>1 DEF Dialogue, PasswordAsked, PasswordNotSet, PasswordTyped,
       PasswordWrong, PasswordRight, PasswordRefused, EngineButCount
  <2>8. ~SafeQuit /\ ~Halt
    BY DEF SafeQuit, Halt
  <2>. QED
    BY <2>3, <2>4, <2>5, <2>6, <2>7, <2>8 DEF Next
<1>. QED
  BY <1>1, Invariance, PTL DEF Spec, NewIdOnlyForNewSession
-----------------------------------------------------------------------------
(* What the server is given, when it answers each message once.             *)

\* Whatever is on its way to a data centre, or may be answered by it, is the
\* present message of a query of the tree that belongs there.
MessagesArePresent ==
  \A d \in DC : \A m \in inbox[d] \cup known[d] :
    m.query \in tree /\ dc[m.query] = d /\ m = Present(m.query)

\* A new message of a query of which the data centres have nothing.
LEMMA PutInTreePresent ==
  ASSUME IInv, MessagesArePresent, NEW q \in Query, NEW d \in DC,
         PutInTree(q, d), dc' = [dc EXCEPT ![q] = d], known' = known,
         \A e \in DC : \A m \in inbox[e] \cup known[e] : m.query # q
  PROVE  MessagesArePresent'
<1>. SUFFICES ASSUME NEW e \in DC, NEW m \in inbox'[e] \cup known'[e]
              PROVE  m.query \in tree' /\ dc'[m.query] = e
                     /\ m = [query |-> m.query, id |-> msg_id'[m.query]]
  BY DEF MessagesArePresent, Present
<1>. USE DEF IInv, TypeOK, PutInTree
<1>1. CASE m \in inbox[e] \cup known[e]
  BY <1>1 DEF MessagesArePresent, Present
<1>2. CASE m \notin inbox[e] \cup known[e]
  BY <1>2 DEF Transmit
<1>. QED
  BY <1>1, <1>2

\* A timer, or a rejected message, of a query that is not acknowledged: out
\* of the session nothing is left of it, within it the same message goes.
LEMMA AlarmQueryPresent ==
  ASSUME IInv, MessagesArePresent, NEW q \in alive, AlarmQuery(q),
         InSession(q) => q \in tree,
         dc' = dc, known' = known
  PROVE  MessagesArePresent'
<1>1. q \in Query /\ dc[q] \in DC
  BY DEF IInv, TypeOK
<1>2. CASE InSession(q)
  <2>. SUFFICES ASSUME NEW e \in DC, NEW m \in inbox'[e] \cup known[e]
                PROVE  m.query \in tree /\ dc[m.query] = e
                       /\ m = [query |-> m.query, id |-> msg_id[m.query]]
    BY <1>2 DEF MessagesArePresent, Present, AlarmQuery
  <2>. QED
    BY <1>1, <1>2 DEF MessagesArePresent, Present, AlarmQuery, Transmit,
       IInv, TypeOK
<1>3. CASE ~InSession(q)
  <2>1. PutInTree(q, dc[q]) /\ dc' = [dc EXCEPT ![q] = dc[q]]
    BY <1>1, <1>3 DEF AlarmQuery, IInv, TypeOK
  <2>2. ASSUME NEW e \in DC, NEW m \in inbox[e] \cup known[e], m.query = q
        PROVE  FALSE
    <3>1. q \in tree /\ dc[q] = e /\ m = Present(q)
      BY <2>2 DEF MessagesArePresent
    <3>2. session_id[q] = current[dc[q]] /\ current[dc[q]] \in SessionId
      BY <1>1, <3>1 DEF IInv, SentInSession, TypeOK
    <3>. QED
      BY <1>3, <3>2, ConstantsAssumption DEF InSession
  <2>. QED
    BY <1>1, <2>1, <2>2, PutInTreePresent
<1>. QED
  BY <1>2, <1>3

\* The query of an answer leaves the tree, and its message with it.
LEMMA AnsweredPresent ==
  ASSUME Repeats = FALSE, IInv, MessagesArePresent, NEW q \in Query, Owned(q),
         AnswerTo(q), tree' = tree \ {q},
         \A p \in Query \ {q} : dc'[p] = dc[p] /\ msg_id'[p] = msg_id[p]
  PROVE  MessagesArePresent'
<1>. SUFFICES ASSUME NEW e \in DC, NEW m \in inbox'[e] \cup known'[e]
              PROVE  m.query \in tree' /\ dc'[m.query] = e
                     /\ m = [query |-> m.query, id |-> msg_id'[m.query]]
  BY DEF MessagesArePresent, Present
<1>1. dc[q] \in DC /\ inbox \in [DC -> SUBSET Message]
      /\ known \in [DC -> SUBSET Message] /\ tree \subseteq Query
  BY DEF IInv, TypeOK
<1>2. m \in inbox[e] \cup known[e] /\ (e = dc[q] => m # Present(q))
  BY <1>1 DEF AnswerTo, Answered, Present
<1>3. m.query \in tree /\ dc[m.query] = e /\ m = Present(m.query)
  BY <1>2 DEF MessagesArePresent
<1>4. m.query # q
  BY <1>2, <1>3
<1>. QED
  BY <1>1, <1>3, <1>4 DEF Present

\* Of a data centre whose session is replaced nothing is left.
LEMMA ReplacedPresent ==
  ASSUME IInv, MessagesArePresent, NEW d \in DC, Replaced(d),
         \A p \in tree : dc[p] # d => p \in tree' /\ dc'[p] = dc[p]
                                      /\ msg_id'[p] = msg_id[p]
  PROVE  MessagesArePresent'
<1>. SUFFICES ASSUME NEW e \in DC, NEW m \in inbox'[e] \cup known'[e]
              PROVE  m.query \in tree' /\ dc'[m.query] = e
                     /\ m = [query |-> m.query, id |-> msg_id'[m.query]]
  BY DEF MessagesArePresent, Present
<1>1. e # d /\ m \in inbox[e] \cup known[e]
  BY DEF Replaced, IInv, TypeOK
<1>. QED
  BY <1>1 DEF MessagesArePresent, Present

\* Every step keeps it: one case per action.
LEMMA NextPresent ==
  ASSUME Repeats = FALSE, IInv, MessagesArePresent, [Next]_vars
  PROVE  MessagesArePresent'
<1>. USE DEF engine, dialogue, client, program, server
<1>1. ASSUME NEW q \in Query, NEW d \in DC, SendQuery(q, d)
      PROVE  MessagesArePresent'
  <2>1. \A e \in DC : \A m \in inbox[e] \cup known[e] : m.query # q
    BY <1>1 DEF SendQuery, MessagesArePresent, IInv, TypeOK
  <2>. QED
    BY <1>1, <2>1, PutInTreePresent DEF SendQuery
<1>2. ASSUME NEW q \in Query, Alarm(q) PROVE MessagesArePresent'
  <2>1. q \in alive /\ (InSession(q) => q \in tree)
    BY <1>2, ConstantsAssumption
    DEF Alarm, IInv, NoTimerOnFreed, MovingHasNone, InSession
  <2>. QED
    BY <1>2, <2>1, AlarmQueryPresent DEF Alarm
<1>3. ASSUME NEW q \in Query, FromServer(q) PROVE MessagesArePresent'
  <2>1. CASE Ack(q)
    BY <2>1 DEF Ack, MessagesArePresent, Present
  <2>2. CASE Result(q) \/ ErrorFail(q) \/ ErrorInternal(q)
    BY <2>2, AnsweredPresent
    DEF Result, ErrorFail, ErrorInternal, Dispose, IInv, TypeOK
  <2>3. CASE ErrorBind(q)
    BY <2>3, ReplacedPresent DEF ErrorBind, Dispose, IInv, TypeOK
  <2>4. CASE ErrorPassword(q)
    BY <2>4, AnsweredPresent DEF ErrorPassword
  <2>5. CASE BadServerSalt(q)
    <3>1. q \in alive /\ q \in tree
      BY <2>5 DEF BadServerSalt, Rejected, IInv, TypeOK
    <3>. QED
      BY <2>5, <3>1, AlarmQueryPresent DEF BadServerSalt
  <2>6. CASE BadMsgNotification(q)
    BY <2>6, ReplacedPresent DEF BadMsgNotification, IInv, TypeOK
  <2>7. ASSUME NEW d \in DC, ErrorMigrate(q, d) PROVE MessagesArePresent'
    BY <2>7, AnsweredPresent DEF ErrorMigrate, IInv, TypeOK
  <2>. QED
    BY <1>3, <2>1, <2>2, <2>3, <2>4, <2>5, <2>6, <2>7 DEF FromServer
<1>4. ASSUME NEW d \in DC, OfDC(d) PROVE MessagesArePresent'
  <2>1. CASE NewSessionCreated(d) \/ SetConfigured(d)
    BY <2>1 DEF NewSessionCreated, SetConfigured, MessagesArePresent, Present
  <2>2. CASE FailSession(d) \/ RegenerateKey(d)
    BY <2>2, ReplacedPresent DEF FailSession, RegenerateKey
  <2>. QED
    BY <1>4, <2>1, <2>2 DEF OfDC
<1>5. ASSUME NEW d \in DC, Wire(d) PROVE MessagesArePresent'
  <2>1. ASSUME NEW m \in inbox[d], Deliver(d, m) \/ Lose(d, m)
        PROVE  MessagesArePresent'
    BY <2>1 DEF Deliver, Lose, MessagesArePresent, Present, IInv, TypeOK
  <2>2. ASSUME NEW m \in known[d], UnknownAnswer(d, m)
        PROVE  MessagesArePresent'
    BY <2>2 DEF UnknownAnswer, MessagesArePresent, Present
  <2>. QED
    BY <1>5, <2>1, <2>2 DEF Wire
<1>6. CASE Dialogue
  <2>1. CASE PasswordRight
    <3>1. waiting \in Query /\ dc[waiting] \in DC /\ waiting \notin tree
          /\ dc' = [dc EXCEPT ![waiting] = dc[waiting]]
      BY <2>1, ConstantsAssumption DEF PasswordRight, IInv, Parked, TypeOK
    <3>2. \A e \in DC : \A m \in inbox[e] \cup known[e] : m.query # waiting
      BY <3>1 DEF MessagesArePresent
    <3>. QED
      BY <2>1, <3>1, <3>2, PutInTreePresent
      DEF PasswordRight, PasswordUnchanged
  <2>2. CASE ~PasswordRight
    BY <1>6, <2>2
    DEF Dialogue, PasswordAsked, PasswordNotSet, PasswordTyped,
        PasswordWrong, PasswordRefused, PasswordUnchanged, EngineButCount,
        MessagesArePresent, Present
  <2>. QED
    BY <2>1, <2>2
<1>7. CASE SafeQuit \/ Halt \/ UNCHANGED vars
  BY <1>7 DEF SafeQuit, Halt, vars, MessagesArePresent, Present
<1>. QED
  BY <1>1, <1>2, <1>3, <1>4, <1>5, <1>6, <1>7 DEF Next

\* If the server answers each message once, all it was given and has not
\* answered is the present message of a query of the tree.
LEMMA PresentInvariant ==
  ASSUME Repeats = FALSE PROVE Spec => []MessagesArePresent
<1>1. Init => MessagesArePresent
  BY DEF Init, Fresh, MessagesArePresent
<1>2. IInv /\ MessagesArePresent /\ [Next]_vars => MessagesArePresent'
  BY NextPresent
<1>. QED
  BY <1>1, <1>2, Invariance, PTL DEF Spec

\* A server that answers each message once is never given one request under
\* two ids in a session, so it executes none twice, whatever the network
\* loses, however often timers fire and sessions are replaced.
THEOREM ExecutedOnce == ASSUME Repeats = FALSE
                        PROVE  Spec => []NotExecutedTwice
<1>1. MessagesArePresent => NotExecutedTwice
  BY DEF MessagesArePresent, NotExecutedTwice, Present
<1>. QED
  BY <1>1, PresentInvariant, PTL
-----------------------------------------------------------------------------
(* No request is forgotten, while the server asks for no password.          *)

\* What is allocated has its timer running or an acknowledgement, and the
\* password dialogue never starts.
Remembered ==
  /\ pwd = "none" /\ waiting = NoQuery
  /\ \A q \in alive : q \in armed \/ q \in tree \cap acked

\* A query that goes out again, by its timer or rejected, is armed.
LEMMA AlarmQueryRemembers ==
  ASSUME IInv, Remembered, NEW q \in alive, AlarmQuery(q),
         alive' = alive, pwd' = pwd, waiting' = waiting
  PROVE  Remembered'
BY DEF AlarmQuery, PutInTree, Remembered

\* Every step keeps it: one case per action.
LEMMA NextRemembers ==
  ASSUME "password" \notin Codes, IInv, Remembered, [Next]_vars
  PROVE  Remembered'
<1>. USE DEF engine, dialogue, client, program, server
<1>1. ASSUME NEW q \in Query, NEW d \in DC, SendQuery(q, d)
      PROVE  Remembered'
  BY <1>1 DEF SendQuery, PutInTree, Remembered
<1>2. ASSUME NEW q \in Query, Alarm(q) PROVE Remembered'
  BY <1>2, AlarmQueryRemembers DEF Alarm, IInv, NoTimerOnFreed
<1>3. ASSUME NEW q \in Query, FromServer(q) PROVE Remembered'
  <2>1. CASE Ack(q)
    BY <2>1 DEF Ack, Owned, Remembered
  <2>2. CASE Result(q) \/ ErrorFail(q) \/ ErrorInternal(q) \/ ErrorBind(q)
    BY <2>2 DEF Result, ErrorFail, ErrorInternal, ErrorBind, Dispose,
       Remembered
  <2>3. ~ErrorPassword(q)
    BY DEF ErrorPassword
  <2>4. CASE BadServerSalt(q)
    BY <2>4, AlarmQueryRemembers DEF BadServerSalt, Rejected, IInv, TypeOK
  <2>5. CASE BadMsgNotification(q)
    BY <2>5 DEF BadMsgNotification, Remembered
  <2>6. ASSUME NEW d \in DC, ErrorMigrate(q, d) PROVE Remembered'
    BY <2>6 DEF ErrorMigrate, Remembered
  <2>. QED
    BY <1>3, <2>1, <2>2, <2>3, <2>4, <2>5, <2>6 DEF FromServer
<1>4. ASSUME NEW d \in DC, OfDC(d) \/ Wire(d) PROVE Remembered'
  BY <1>4 DEF OfDC, NewSessionCreated, FailSession, RegenerateKey,
     SetConfigured, Wire, Deliver, Lose, UnknownAnswer, Remembered
<1>5. ~Dialogue
  BY DEF Dialogue, PasswordAsked, PasswordNotSet, PasswordTyped,
     PasswordWrong, PasswordRight, PasswordRefused, Remembered
<1>6. CASE SafeQuit \/ Halt \/ UNCHANGED vars
  BY <1>6 DEF SafeQuit, Halt, vars, Remembered
<1>. QED
  BY <1>1, <1>2, <1>3, <1>4, <1>5, <1>6 DEF Next

\* No request is forgotten: as long as no answer asks for the password, each
\* has its timer running or the server's acknowledgement, through lost
\* messages, replaced sessions and moves between data centres.
THEOREM NoneForgotten == ASSUME "password" \notin Codes
                         PROVE  Spec => []NothingForgotten
<1>1. Init => Remembered
  BY DEF Init, Fresh, Remembered
<1>2. IInv /\ Remembered /\ [Next]_vars => Remembered'
  BY NextRemembers
<1>3. Remembered => NothingForgotten
  BY DEF Remembered, NothingForgotten
<1>. QED
  BY <1>1, <1>2, <1>3, Invariance, PTL DEF Spec

-----------------------------------------------------------------------------
(* The engine does what QueryContract promises.                             *)

\* The requests in progress are those whose callback was not called, and
\* active_queries is their number.
Counted ==
  /\ alive = Pending
  /\ IsFiniteSet(alive)
  /\ active_queries = Cardinality(alive)
  /\ process # "aborted"

\* Neither a request made nor a request completed.
LEMMA SameCount ==
  ASSUME Counted, UNCHANGED <<alive, issued, calls, active_queries>>,
         process' # "aborted"
  PROVE  Counted' /\ UNCHANGED <<Pending, issued \ Pending>>
BY DEF Counted, Pending

\* A request made: SendQuery is Request of the contract.
LEMMA SendQueryCounts ==
  ASSUME IInv, Counted, NEW q \in Query, NEW d \in DC, SendQuery(q, d)
  PROVE  Counted' /\ Contract!Request(q)
<1>1. /\ q \notin issued /\ q \notin alive /\ calls[q] = 0
      /\ issued' = issued \cup {q} /\ alive' = alive \cup {q}
      /\ calls' = calls /\ process' = process /\ process = "running"
      /\ active_queries' = active_queries + 1
  BY DEF SendQuery, IInv, TypeOK, CalledOnceAndGone, program, Running
<1>2. Pending' = Pending \cup {q} /\ q \notin Pending
  BY <1>1 DEF Pending
<1>3. issued' \ Pending' = issued \ Pending /\ q \notin issued \ Pending
  BY <1>1, <1>2
<1>4. IsFiniteSet(alive') /\ Cardinality(alive') = Cardinality(alive) + 1
  BY <1>1, FS_AddElement DEF Counted
<1>5. Counted'
  BY <1>1, <1>2, <1>4 DEF Counted
<1>. QED
  BY <1>1, <1>2, <1>3, <1>5 DEF Contract!Request

\* A request completed: an answer, or an error of which the caller hears.
LEMMA DoneCounts ==
  ASSUME IInv, Counted, NEW q \in Query, Result(q) \/ ErrorFail(q)
  PROVE  Counted' /\ Contract!Complete(q)
<1>1. /\ q \in alive /\ calls[q] = 0 /\ q \in issued
      /\ issued' = issued /\ alive' = alive \ {q}
      /\ calls' = [calls EXCEPT ![q] = 1]
      /\ process' = process /\ process = "running"
      /\ active_queries' = active_queries - 1
  BY DEF Result, ErrorFail, Owned, Dispose, Decrement, IInv, TypeOK,
     CalledOnceAndGone, program, Running
<1>2. Pending' = Pending \ {q} /\ q \in Pending
  BY <1>1 DEF Pending, IInv, TypeOK
<1>3. issued' \ Pending' = (issued \ Pending) \cup {q}
  BY <1>1, <1>2
<1>4. IsFiniteSet(alive') /\ Cardinality(alive') = Cardinality(alive) - 1
  BY <1>1, FS_RemoveElement DEF Counted
<1>5. Counted'
  BY <1>1, <1>2, <1>4 DEF Counted
<1>. QED
  BY <1>1, <1>2, <1>3, <1>5 DEF Contract!Complete

\* The program halts when nothing is pending: Halt is Quit of the contract.
LEMMA HaltCounts ==
  ASSUME IInv, Counted, Halt
  PROVE  Counted' /\ Contract!Quit
<1>1. /\ process' = "halted" /\ process = "running" /\ active_queries = 0
      /\ UNCHANGED <<alive, issued, calls, active_queries>>
  BY DEF Halt, engine, Running
<1>2. alive = {}
  BY <1>1, FS_EmptySet DEF Counted
<1>3. Pending = {}
  BY <1>2 DEF Counted
<1>. QED
  BY <1>1, <1>3, SameCount DEF Contract!Quit

\* Every step is a step of the contract, or changes nothing that it speaks of.
LEMMA NextImplements ==
  ASSUME Codes \subseteq {"fail"}, IInv, MessagesArePresent, Remembered,
         Counted, [Next]_vars
  PROVE  Counted' /\ [Contract!Next]_(Contract!cvars)
<1>. USE DEF engine, dialogue, client, program, server
<1> DEFINE Same == UNCHANGED <<alive, issued, calls, active_queries, process>>
<1>1. ASSUME NEW q \in Query, NEW d \in DC, SendQuery(q, d)
      PROVE  Counted' /\ Contract!Next
  BY <1>1, SendQueryCounts DEF Contract!Next
<1>2. ASSUME NEW q \in Query, Alarm(q) PROVE Same
  BY <1>2 DEF Alarm
<1>3. ASSUME NEW q \in Query, FromServer(q)
      PROVE  Same \/ (Counted' /\ Contract!Next)
  <2>1. CASE Ack(q) \/ BadServerSalt(q) \/ BadMsgNotification(q)
    BY <2>1 DEF Ack, BadServerSalt, BadMsgNotification
  <2>2. CASE Result(q) \/ ErrorFail(q)
    BY <2>2, DoneCounts DEF Contract!Next
  <2>3. /\ ~ErrorInternal(q) /\ ~ErrorBind(q) /\ ~ErrorPassword(q)
        /\ \A d \in DC : ~ErrorMigrate(q, d)
    BY DEF ErrorInternal, ErrorBind, ErrorPassword, ErrorMigrate
  <2>. QED
    BY <1>3, <2>1, <2>2, <2>3 DEF FromServer
<1>4. ASSUME NEW d \in DC, OfDC(d) \/ Wire(d) PROVE Same
  <2>1. \A m \in known[d] : ~UnknownAnswer(d, m)
    BY DEF UnknownAnswer, MessagesArePresent, Present
  <2>. QED
    BY <1>4, <2>1 DEF OfDC, NewSessionCreated, FailSession, RegenerateKey,
       SetConfigured, Wire, Deliver, Lose
<1>5. ~Dialogue
  BY DEF Dialogue, PasswordAsked, PasswordNotSet, PasswordTyped,
     PasswordWrong, PasswordRight, PasswordRefused, Remembered
<1>6. CASE SafeQuit \/ UNCHANGED vars
  <2>1. Same
    BY <1>6 DEF SafeQuit, vars
  <2>. QED
    BY <2>1, SameCount DEF Contract!cvars, Counted
<1>7. CASE Halt
  BY <1>7, HaltCounts DEF Contract!Next
<1>8. Same => Counted' /\ UNCHANGED Contract!cvars
  BY SameCount DEF Contract!cvars, Counted
<1> HIDE DEF Same
<1>. QED
  BY <1>1, <1>2, <1>3, <1>4, <1>5, <1>6, <1>7, <1>8 DEF Next

\* With a server that answers each request once, with a result or an error
\* that ends it, every step of the engine is a step that QueryContract
\* allows: a callback is called once, for a request that was made, and a
\* program told to quit safely stops only when every request is complete.
THEOREM StepsKeepContract ==
  ASSUME Codes \subseteq {"fail"}, Repeats = FALSE
  PROVE  Spec => Contract!Init /\ [][Contract!Next]_(Contract!cvars)
<1>1. Init => Contract!Init /\ Counted /\ Remembered
  <2>. SUFFICES ASSUME Init PROVE Contract!Init /\ Counted /\ Remembered
    OBVIOUS
  <2>1. alive = {} /\ issued = {} /\ process = "running" /\ active_queries = 0
    BY DEF Init, Fresh
  <2>2. Pending = {} /\ IsFiniteSet(alive) /\ Cardinality(alive) = 0
    BY <2>1, FS_EmptySet DEF Pending
  <2>. QED
    BY <2>1, <2>2 DEF Contract!Init, Counted, Remembered, Init, Fresh
<1>2. IInv /\ MessagesArePresent /\ Remembered /\ Counted /\ [Next]_vars
        => Counted' /\ Remembered' /\ [Contract!Next]_(Contract!cvars)
  BY NextImplements, NextRemembers
<1>. QED
  BY <1>1, <1>2, Invariance, PresentInvariant, PTL DEF Spec
=============================================================================
