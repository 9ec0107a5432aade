--------------------------- MODULE Messages_proofs --------------------------
(* The store of messages stays consistent, messages that were sent take their *)
(* own ids, pts waits for them and others' messages are announced once, for   *)
(* any number of events, messages, requests and answers under way.            *)
EXTENDS Messages, TLAPS

\* What a store is: the type of tls.
Store ==
  [live : SUBSET Message, id : [Message -> Message],
   pending : SUBSET RandomId, tree : [Message -> Message \cup {0}],
   unsent : [Message -> Message \cup {0}],
   random : [RandomId -> Message \cup {0}], temp : SUBSET Message,
   use : SUBSET Message, last : SUBSET (Message \X Message),
   pts : Id \cup {0}, locked : BOOLEAN, aborted : BOOLEAN, again : BOOLEAN]

\* IndexesAgree, of any client c, but for what the failed assertion was about.
Agrees(c) ==
  /\ ~c.aborted
  /\ \A m \in c.live : c.tree[c.id[m]] = m
  /\ \A k \in Message : c.tree[k] # NoMessage =>
       c.tree[k] \in c.live /\ c.id[c.tree[k]] = k
  /\ \A m \in c.pending : c.unsent[c.id[m]] = m /\ c.random[m] = m
  /\ \A k \in Message : c.unsent[k] # NoMessage =>
       c.unsent[k] \in c.pending /\ c.id[c.unsent[k]] = k
  /\ \A r \in RandomId : c.random[r] \in {NoMessage} \cup (c.live \cap {r})
  /\ c.pending \subseteq c.live
  /\ c.temp = c.live /\ c.use = c.live
  /\ c.last = {<<c.id[m], m>> : m \in c.live}

\* A message that was fetched has the id it was fetched for.  One that was
\* sent has its random id while it is pending, and a permanent one after that.
Named(c) ==
  /\ \A m \in c.live \cap Id : c.id[m] = m
  /\ \A m \in c.live \cap RandomId :
       IF m \in c.pending THEN c.id[m] = m ELSE c.id[m] \in Id

\* A store whose indexes agree and whose messages are rightly named.
Good(c) == c \in Store /\ Agrees(c) /\ Named(c)

\* Random ids and permanent ids are different numbers, and neither is NULL.
LEMMA Numbers ==
  /\ Id \subseteq Int /\ RandomId \subseteq Int /\ NoMessage \notin Message
  /\ RandomId \cap Id = {} /\ Message = RandomId \cup Id
BY MessagesAssumption DEF Id, Message, NoMessage

\* A store with another value of its type in a field is a store.
LEMMA StoreFields ==
  ASSUME NEW c \in Store
  PROVE  /\ \A x \in SUBSET Message : [c EXCEPT !.live = x] \in Store
         /\ \A x \in [Message -> Message] : [c EXCEPT !.id = x] \in Store
         /\ \A x \in SUBSET RandomId : [c EXCEPT !.pending = x] \in Store
         /\ \A x \in [Message -> Message \cup {0}] :
              /\ [c EXCEPT !.tree = x] \in Store
              /\ [c EXCEPT !.unsent = x] \in Store
         /\ \A x \in [RandomId -> Message \cup {0}] :
              [c EXCEPT !.random = x] \in Store
         /\ \A x \in SUBSET Message :
              [c EXCEPT !.temp = x] \in Store /\ [c EXCEPT !.use = x] \in Store
         /\ \A x \in SUBSET (Message \X Message) :
              [c EXCEPT !.last = x] \in Store
         /\ \A x \in BOOLEAN : [c EXCEPT !.locked = x] \in Store
                               /\ [c EXCEPT !.aborted = x] \in Store
                               /\ [c EXCEPT !.again = x] \in Store
         /\ \A x \in Id \cup {0} : [c EXCEPT !.pts = x] \in Store
<1>1. \A x \in SUBSET Message : [c EXCEPT !.live = x] \in Store
                                /\ [c EXCEPT !.temp = x] \in Store
                                /\ [c EXCEPT !.use = x] \in Store
  BY DEF Store
<1>2. \A x \in [Message -> Message] : [c EXCEPT !.id = x] \in Store
  BY DEF Store
<1>3. \A x \in SUBSET RandomId : [c EXCEPT !.pending = x] \in Store
  BY DEF Store
<1>4. \A x \in [Message -> Message \cup {0}] :
        [c EXCEPT !.tree = x] \in Store /\ [c EXCEPT !.unsent = x] \in Store
  BY DEF Store
<1>5. \A x \in [RandomId -> Message \cup {0}] :
        [c EXCEPT !.random = x] \in Store
  BY DEF Store
<1>6. \A x \in SUBSET (Message \X Message) : [c EXCEPT !.last = x] \in Store
  BY DEF Store
<1>7. \A x \in BOOLEAN : [c EXCEPT !.locked = x] \in Store
                         /\ [c EXCEPT !.aborted = x] \in Store
                         /\ [c EXCEPT !.again = x] \in Store
  BY DEF Store
<1>8. \A x \in Id \cup {0} : [c EXCEPT !.pts = x] \in Store
  BY DEF Store
<1> QED BY <1>1, <1>2, <1>3, <1>4, <1>5, <1>6, <1>7, <1>8

\* tglf_fetch_alloc_message, field by field: only messages the tree does not
\* have are allocated.
LEMMA FetchingIs ==
  ASSUME NEW c \in Store, NEW N \in SUBSET Id
  PROVE  LET d == FetchAlloc(c, N)
             new == {n \in N : c.tree[n] = NoMessage}
         IN /\ d \in Store
            /\ d.live = c.live \cup new /\ d.pending = c.pending
            /\ d.id = [m \in Message |-> IF m \in new THEN m ELSE c.id[m]]
            /\ d.tree = [k \in Message |-> IF k \in new THEN k ELSE c.tree[k]]
            /\ d.unsent = c.unsent /\ d.random = c.random
            /\ d.temp = c.temp \cup new /\ d.use = c.use \cup new
            /\ d.last = c.last \cup {<<n, n>> : n \in new}
            /\ d.pts = c.pts /\ d.locked = c.locked
            /\ d.aborted = (c.aborted \/ Placed(c, new))
<1> DEFINE new == {n \in N : c.tree[n] = NoMessage}
           I == [m \in Message |-> IF m \in new THEN m ELSE c.id[m]]
           T == [k \in Message |-> IF k \in new THEN k ELSE c.tree[k]]
           L == c.last \cup {<<n, n>> : n \in new}
           A == c.aborted \/ Placed(c, new)
<1>0. new \subseteq Message
  BY Numbers
<1>1. /\ I \in [Message -> Message]
      /\ T \in [Message -> Message \cup {0}]
      /\ A \in BOOLEAN
  BY <1>0 DEF Store, Placed
<1>a. L \in SUBSET (Message \X Message)
  BY <1>0 DEF Store
<1>2. FetchAlloc(c, N) =
        [c EXCEPT !.live = @ \cup new, !.id = I, !.tree = T,
                  !.temp = @ \cup new, !.use = @ \cup new, !.last = L,
                  !.aborted = A]
  BY DEF FetchAlloc, ById, Store
<1> HIDE DEF new, I, T, L, A
<1>3. /\ FetchAlloc(c, N).live = c.live \cup new
      /\ FetchAlloc(c, N).pending = c.pending
      /\ FetchAlloc(c, N).id = I /\ FetchAlloc(c, N).tree = T
      /\ FetchAlloc(c, N).unsent = c.unsent
      /\ FetchAlloc(c, N).random = c.random
      /\ FetchAlloc(c, N).temp = c.temp \cup new
      /\ FetchAlloc(c, N).use = c.use \cup new
      /\ FetchAlloc(c, N).last = L /\ FetchAlloc(c, N).pts = c.pts
      /\ FetchAlloc(c, N).locked = c.locked
      /\ FetchAlloc(c, N).aborted = A
  BY <1>2 DEF Store
<1>4. FetchAlloc(c, N) \in Store
  <2>1. c.live \cup new \subseteq Message /\ c.temp \cup new \subseteq Message
        /\ c.use \cup new \subseteq Message
    BY <1>0 DEF Store
  <2> DEFINE d1 == [c EXCEPT !.live = c.live \cup new]
             d2 == [d1 EXCEPT !.id = I]
             d3 == [d2 EXCEPT !.tree = T]
             d4 == [d3 EXCEPT !.temp = c.temp \cup new]
             d5 == [d4 EXCEPT !.use = c.use \cup new]
             d6 == [d5 EXCEPT !.last = L]
             d7 == [d6 EXCEPT !.aborted = A]
  <2>2. d1 \in Store
    BY <2>1, StoreFields
  <2>3. d2 \in Store
    BY <2>2, <1>1, StoreFields
  <2>4. d3 \in Store
    BY <2>3, <1>1, StoreFields
  <2>5. d4 \in Store
    BY <2>4, <2>1, StoreFields
  <2>6. d5 \in Store
    BY <2>5, <2>1, StoreFields
  <2>7. d6 \in Store
    BY <2>6, <1>a, StoreFields
  <2>8. d7 \in Store
    BY <2>7, <1>1, StoreFields
  <2>9. FetchAlloc(c, N) = d7
    BY <1>2, Zenon
  <2> QED BY <2>8, <2>9
<1> QED BY <1>3, <1>4 DEF new, I, T, L, A

\* tglf_fetch_alloc_message keeps a good store good: no id is placed twice.
LEMMA Fetching ==
  ASSUME NEW c, Good(c), NEW N \in SUBSET Id
  PROVE  Good(FetchAlloc(c, N))
<1> DEFINE d == FetchAlloc(c, N)
           new == {n \in N : c.tree[n] = NoMessage}
<1>0. c \in Store /\ Agrees(c) /\ Named(c)
  BY DEF Good
<1>1. /\ d \in Store
      /\ d.live = c.live \cup new /\ d.pending = c.pending
      /\ d.id = [m \in Message |-> IF m \in new THEN m ELSE c.id[m]]
      /\ d.tree = [k \in Message |-> IF k \in new THEN k ELSE c.tree[k]]
      /\ d.unsent = c.unsent /\ d.random = c.random
      /\ d.temp = c.temp \cup new /\ d.use = c.use \cup new
      /\ d.last = c.last \cup {<<n, n>> : n \in new}
      /\ d.pts = c.pts /\ d.locked = c.locked
      /\ d.aborted = (c.aborted \/ Placed(c, new))
  BY <1>0, FetchingIs
<1>a. /\ new \subseteq Id /\ new \subseteq Message
      /\ \A n \in new : c.tree[n] = NoMessage
  BY Numbers
<1>b. /\ c.live \subseteq Message /\ c.pending \subseteq RandomId
      /\ \A m \in Message : c.id[m] \in Message
  BY <1>0 DEF Store
<1> HIDE DEF d, new
<1>c. ASSUME NEW m \in c.live
      PROVE  c.id[m] \notin new /\ m \in Message
  <2>1. m \in Message /\ m # NoMessage /\ c.tree[c.id[m]] = m
    BY <1>0, <1>b, Numbers DEF Agrees
  <2> QED BY <2>1, <1>a
<1>d. c.live \cap new = {}
  BY <1>0, <1>a, <1>b, <1>c DEF Named
<1>2. /\ new \subseteq Id /\ new \subseteq Message
      /\ \A n \in new : c.tree[n] = NoMessage
      /\ c.live \subseteq Message /\ c.pending \subseteq RandomId
      /\ \A m \in Message : c.id[m] \in Message
      /\ c.live \cap new = {}
      /\ \A m \in c.live : c.id[m] \notin new /\ m \in Message
  BY <1>a, <1>b, <1>c, <1>d
<1>3. ~Placed(c, new)
  BY <1>0, <1>2 DEF Placed, Agrees
<1>4. ~d.aborted
  BY <1>0, <1>1, <1>3 DEF Agrees
<1>5. \A m \in d.live : d.tree[d.id[m]] = m
  BY <1>0, <1>1, <1>2 DEF Agrees
<1>6. \A k \in Message : d.tree[k] # NoMessage =>
        d.tree[k] \in d.live /\ d.id[d.tree[k]] = k
  BY <1>0, <1>1, <1>2 DEF Agrees
<1>7. /\ \A m \in d.pending : d.unsent[d.id[m]] = m /\ d.random[m] = m
      /\ \A k \in Message : d.unsent[k] # NoMessage =>
           d.unsent[k] \in d.pending /\ d.id[d.unsent[k]] = k
      /\ \A r \in RandomId : d.random[r] \in {NoMessage} \cup (d.live \cap {r})
      /\ d.pending \subseteq d.live
  BY <1>0, <1>1, <1>2, Numbers DEF Agrees
<1>8. d.temp = d.live /\ d.use = d.live
  BY <1>0, <1>1 DEF Agrees
<1>9. d.last = {<<d.id[m], m>> : m \in d.live}
  BY <1>0, <1>1, <1>2 DEF Agrees
<1>10. Named(d)
  BY <1>0, <1>1, <1>2, Numbers DEF Named
<1> QED BY <1>1, <1>4, <1>5, <1>6, <1>7, <1>8, <1>9, <1>10 DEF Good, Agrees, d

\* The messages of R that bl_do_set_msg_id frees: another one has the id.
Freed(c, R, at) == {m \in R : c.tree[at[m]] # NoMessage}

\* bl_do_set_msg_id for the pending messages R, field by field.
LEMMA RenamingIs ==
  ASSUME NEW c \in Store, Agrees(c), NEW R \in SUBSET c.pending,
         NEW at \in [R -> Id], \A m, n \in R : at[m] = at[n] => m = n
  PROVE  LET d == SetMsgId(c, R, at)
             freed == Freed(c, R, at)
             moved == R \ freed
             old == {c.id[m] : m \in R}
         IN /\ d \in Store
            /\ d.live = c.live \ freed /\ d.pending = c.pending \ R
            /\ \A m \in Message :
                 d.id[m] = IF m \in moved THEN at[m]
                           ELSE IF m \in freed THEN m ELSE c.id[m]
            /\ \A k \in Message :
                 d.unsent[k] = IF k \in old THEN NoMessage ELSE c.unsent[k]
            /\ \A m \in moved : d.tree[at[m]] = m
            /\ \A k \in Message : (\A m \in moved : at[m] # k) =>
                 d.tree[k] = IF k \in old THEN NoMessage ELSE c.tree[k]
            /\ \A r \in RandomId :
                 d.random[r] = IF c.random[r] \in freed THEN NoMessage
                               ELSE c.random[r]
            /\ d.temp = c.temp \ freed /\ d.use = c.use \ freed
            /\ d.last = Unplace(c, R) \cup {<<at[m], m>> : m \in moved}
            /\ d.pts = c.pts /\ d.locked = c.locked
            /\ d.aborted = (c.aborted \/ \E l \in Unplace(c, R), m \in moved :
                                           c.id[l[2]] = at[m])
<1> DEFINE freed == Freed(c, R, at)
           moved == R \ freed
           old == {c.id[m] : m \in R}
           To(k) == {m \in moved : at[m] = k}
           I == [m \in Message |-> IF m \in moved THEN at[m]
                                   ELSE IF m \in freed THEN m ELSE c.id[m]]
           U == [k \in Message |-> IF k \in old THEN NoMessage ELSE c.unsent[k]]
           T == [k \in Message |->
                   IF To(k) # {} THEN CHOOSE m \in To(k) : TRUE
                   ELSE IF k \in old THEN NoMessage ELSE c.tree[k]]
           X == [r \in RandomId |->
                   IF c.random[r] \in freed THEN NoMessage ELSE c.random[r]]
           L == Unplace(c, R) \cup {<<at[m], m>> : m \in moved}
           A == c.aborted \/ \E l \in Unplace(c, R), m \in moved :
                               c.id[l[2]] = at[m]
<1>0. /\ R \subseteq Message /\ freed \subseteq R /\ moved \subseteq R
      /\ c.pending \ R \subseteq RandomId
      /\ c.live \ freed \subseteq Message /\ c.temp \ freed \subseteq Message
      /\ c.use \ freed \subseteq Message
  BY Numbers DEF Store, Freed
<1>1. I \in [Message -> Message]
  BY <1>0, Numbers DEF Store
<1>2. U \in [Message -> Message \cup {0}]
  BY DEF Store, NoMessage
<1>3. \A m \in moved : To(at[m]) = {m}
  BY <1>0
<1>4. \A k \in Message : To(k) # {} => (CHOOSE m \in To(k) : TRUE) \in R
  BY <1>0
<1>5. T \in [Message -> Message \cup {0}]
  <2>1. ASSUME NEW k \in Message PROVE T[k] \in Message \cup {0}
    <3>1. CASE To(k) # {}
      BY <3>1, <1>4, <1>0
    <3>2. CASE To(k) = {}
      BY <3>2 DEF Store, NoMessage
    <3> QED BY <3>1, <3>2
  <2> QED BY <2>1
<1>6. X \in [RandomId -> Message \cup {0}]
  BY DEF Store, NoMessage
<1>7. L \in SUBSET (Message \X Message)
  <2>1. {<<at[m], m>> : m \in moved} \subseteq Message \X Message
    <3>1. \A m \in moved : m \in Message /\ at[m] \in Message
      BY <1>0, Numbers
    <3> HIDE DEF moved
    <3> QED BY <3>1
  <2>2. Unplace(c, R) \subseteq Message \X Message
    BY DEF Unplace, Store
  <2> QED BY <2>1, <2>2
<1>8. A \in BOOLEAN
  BY DEF Store
<1>9. \A m \in moved : T[at[m]] = m
  <2> TAKE m \in moved
  <2>1. To(at[m]) = {m} /\ at[m] \in Message
    BY <1>3, <1>0, Numbers
  <2>2. T[at[m]] = CHOOSE n \in {m} : TRUE
    BY <2>1
  <2> QED BY <2>2
<1>10. \A k \in Message : (\A m \in moved : at[m] # k) =>
         T[k] = IF k \in old THEN NoMessage ELSE c.tree[k]
  OBVIOUS
<1>11. SetMsgId(c, R, at) =
         [c EXCEPT !.live = @ \ freed, !.pending = @ \ R, !.id = I,
                   !.unsent = U, !.tree = T, !.random = X,
                   !.temp = @ \ freed, !.use = @ \ freed, !.last = L,
                   !.aborted = A]
  BY DEF SetMsgId, ById, Store, Freed
<1>12. /\ I = [m \in Message |-> IF m \in moved THEN at[m]
                                 ELSE IF m \in freed THEN m ELSE c.id[m]]
       /\ U = [k \in Message |-> IF k \in old THEN NoMessage
                                 ELSE c.unsent[k]]
       /\ X = [r \in RandomId |->
                 IF c.random[r] \in freed THEN NoMessage ELSE c.random[r]]
       /\ L = Unplace(c, R) \cup {<<at[m], m>> : m \in moved}
       /\ A = (c.aborted \/ \E l \in Unplace(c, R), m \in moved :
                               c.id[l[2]] = at[m])
  OBVIOUS
<1> DEFINE d == SetMsgId(c, R, at)
<1> HIDE DEF freed, moved, old, To, I, U, T, X, L, A
<1>13. /\ d.live = c.live \ freed /\ d.pending = c.pending \ R
       /\ d.id = I /\ d.unsent = U /\ d.tree = T /\ d.random = X
       /\ d.temp = c.temp \ freed /\ d.use = c.use \ freed
       /\ d.last = L /\ d.pts = c.pts /\ d.locked = c.locked
       /\ d.aborted = A
  BY <1>11 DEF Store
<1>14. d \in Store
  <2> DEFINE d1 == [c EXCEPT !.live = c.live \ freed]
             d2 == [d1 EXCEPT !.pending = c.pending \ R]
             d3 == [d2 EXCEPT !.id = I]
             d4 == [d3 EXCEPT !.unsent = U]
             d5 == [d4 EXCEPT !.tree = T]
             d6 == [d5 EXCEPT !.random = X]
             d7 == [d6 EXCEPT !.temp = c.temp \ freed]
             d8 == [d7 EXCEPT !.use = c.use \ freed]
             d9 == [d8 EXCEPT !.last = L]
             d10 == [d9 EXCEPT !.aborted = A]
  <2>1. d1 \in Store
    BY <1>0, StoreFields
  <2>2. d2 \in Store
    BY <1>0, <2>1, StoreFields
  <2>3. d3 \in Store
    BY <1>1, <2>2, StoreFields
  <2>4. d4 \in Store
    BY <1>2, <2>3, StoreFields
  <2>5. d5 \in Store
    BY <1>5, <2>4, StoreFields
  <2>6. d6 \in Store
    BY <1>6, <2>5, StoreFields
  <2>7. d7 \in Store
    BY <1>0, <2>6, StoreFields
  <2>8. d8 \in Store
    BY <1>0, <2>7, StoreFields
  <2>9. d9 \in Store
    BY <1>7, <2>8, StoreFields
  <2>10. d10 \in Store
    BY <1>8, <2>9, StoreFields
  <2>11. d = d10
    BY <1>11, Zenon
  <2> QED BY <2>10, <2>11
<1> QED BY <1>9, <1>10, <1>12, <1>13, <1>14 DEF freed, moved, old

\* What bl_do_set_msg_id promises: the store stays good, R is pending no more,
\* and every id of at is found, whoever had it.
Renamed(c, d, R, at) ==
  /\ Good(d)
  /\ d.live = c.live \ Freed(c, R, at) /\ d.pending = c.pending \ R
  /\ \A m \in d.live : d.id[m] = IF m \in R \ Freed(c, R, at) THEN at[m]
                                 ELSE c.id[m]
  /\ \A k \in Id : d.tree[k] # NoMessage =>
       c.tree[k] # NoMessage \/ \E m \in R : k = at[m]
  /\ \A k \in Id : c.tree[k] # NoMessage => d.tree[k] # NoMessage
  /\ \A m \in R : d.tree[at[m]] # NoMessage
  /\ d.pts = c.pts /\ d.locked = c.locked

\* bl_do_set_msg_id keeps its promise when no two messages get one id.
LEMMA Renaming ==
  ASSUME NEW c, Good(c), NEW R \in SUBSET c.pending,
         NEW at \in [R -> Id], \A m, n \in R : at[m] = at[n] => m = n
  PROVE  Renamed(c, SetMsgId(c, R, at), R, at)
<1> DEFINE d == SetMsgId(c, R, at)
           freed == Freed(c, R, at)
           moved == R \ freed
           old == {c.id[m] : m \in R}
           gone == Unplace(c, R)
<1>0. c \in Store /\ Agrees(c) /\ Named(c)
  BY DEF Good
<1>1. /\ d \in Store
      /\ d.live = c.live \ freed /\ d.pending = c.pending \ R
      /\ \A m \in Message :
           d.id[m] = IF m \in moved THEN at[m]
                     ELSE IF m \in freed THEN m ELSE c.id[m]
      /\ \A k \in Message :
           d.unsent[k] = IF k \in old THEN NoMessage ELSE c.unsent[k]
      /\ \A m \in moved : d.tree[at[m]] = m
      /\ \A k \in Message : (\A m \in moved : at[m] # k) =>
           d.tree[k] = IF k \in old THEN NoMessage ELSE c.tree[k]
      /\ \A r \in RandomId :
           d.random[r] = IF c.random[r] \in freed THEN NoMessage
                         ELSE c.random[r]
      /\ d.temp = c.temp \ freed /\ d.use = c.use \ freed
      /\ d.last = gone \cup {<<at[m], m>> : m \in moved}
      /\ d.pts = c.pts /\ d.locked = c.locked
      /\ d.aborted = (c.aborted \/ \E l \in gone, m \in moved :
                                     c.id[l[2]] = at[m])
  BY <1>0, RenamingIs
<1>2. /\ c.live \subseteq Message /\ c.pending \subseteq RandomId
      /\ c.pending \subseteq c.live /\ R \subseteq c.live
      /\ freed \subseteq R /\ moved \subseteq R /\ freed \cap moved = {}
      /\ R = freed \cup moved
  BY <1>0 DEF Store, Agrees, Freed
<1>a. R \subseteq RandomId /\ \A m \in R : at[m] \in Id
  BY <1>2
<1>b. \A m \in R : c.id[m] = m
  BY <1>0, <1>2, <1>a DEF Named
<1>c. \A m \in R : at[m] \notin R
  BY <1>a, Numbers
<1>3. /\ \A m \in R : c.id[m] = m /\ at[m] \in Id /\ at[m] \notin R
      /\ \A m \in moved : c.tree[at[m]] = NoMessage
      /\ \A m \in freed : c.tree[at[m]] # NoMessage
      /\ \A m \in c.live : c.id[m] \in Message
  BY <1>0, <1>a, <1>b, <1>c DEF Freed, Store
<1>4. old = R
  BY <1>3
<1>5. gone = {<<c.id[m], m>> : m \in c.live \ R}
  BY <1>0 DEF Unplace, Agrees
<1> HIDE DEF d, freed, moved, old, gone
<1>6. ASSUME NEW m \in c.live, NEW n \in moved PROVE c.id[m] # at[n]
  <2>1. c.tree[c.id[m]] = m /\ m # NoMessage
    BY <1>0, <1>2, Numbers DEF Agrees
  <2>2. c.tree[at[n]] = NoMessage
    BY <1>3
  <2> QED BY <2>1, <2>2
<1>7. ~d.aborted
  <2>1. ~c.aborted
    BY <1>0 DEF Agrees
  <2>2. ASSUME NEW l \in gone PROVE \A n \in moved : c.id[l[2]] # at[n]
    <3>1. PICK m \in c.live \ R : l = <<c.id[m], m>>
      BY <1>5
    <3> QED BY <3>1, <1>6
  <2> QED BY <2>1, <2>2, <1>1
<1>8. \A m \in d.live \ moved : d.id[m] = c.id[m] /\ m \notin R
  BY <1>1, <1>2
<1>9. \A m \in moved : d.id[m] = at[m]
  BY <1>1, <1>2
<1>10. \A m \in c.live : c.id[m] \in R => m \in R
  <2> SUFFICES ASSUME NEW m \in c.live, c.id[m] \in R PROVE m \in R
    OBVIOUS
  <2>1. c.tree[c.id[m]] = m /\ c.tree[c.id[c.id[m]]] = c.id[m]
    BY <1>0, <1>2 DEF Agrees
  <2> QED BY <2>1, <1>3
<1>11. \A m \in d.live : d.tree[d.id[m]] = m
  <2> TAKE m \in d.live
  <2>1. CASE m \in moved
    BY <2>1, <1>1, <1>9
  <2>2. CASE m \notin moved
    <3>1. m \in c.live /\ m \notin R /\ d.id[m] = c.id[m]
      BY <2>2, <1>1, <1>8
    <3>2. c.id[m] \in Message /\ c.id[m] \notin R
      BY <3>1, <1>3, <1>10
    <3>3. d.tree[c.id[m]] = c.tree[c.id[m]]
      BY <3>1, <3>2, <1>1, <1>4, <1>6
    <3> QED BY <3>1, <3>3, <1>0 DEF Agrees
  <2> QED BY <2>1, <2>2
<1>12. \A k \in Message : d.tree[k] # NoMessage =>
         d.tree[k] \in d.live /\ d.id[d.tree[k]] = k
  <2> SUFFICES ASSUME NEW k \in Message, d.tree[k] # NoMessage
               PROVE  d.tree[k] \in d.live /\ d.id[d.tree[k]] = k
    OBVIOUS
  <2>1. CASE \E m \in moved : at[m] = k
    BY <2>1, <1>1, <1>2, <1>9
  <2>2. CASE \A m \in moved : at[m] # k
    <3>1. k \notin R /\ d.tree[k] = c.tree[k]
      BY <2>2, <1>1, <1>4
    <3>2. c.tree[k] \in c.live /\ c.id[c.tree[k]] = k
      BY <3>1, <1>0 DEF Agrees
    <3>3. c.tree[k] \notin R
      BY <3>1, <3>2, <1>3
    <3> QED BY <3>1, <3>2, <3>3, <1>1, <1>2
  <2> QED BY <2>1, <2>2
<1>13. \A m \in d.pending : d.unsent[d.id[m]] = m /\ d.random[m] = m
  <2> TAKE m \in d.pending
  <2>1. m \in c.pending /\ m \notin R /\ m \in c.live /\ m \in RandomId
        /\ m \in Message
    BY <1>1, <1>2
  <2>2. d.id[m] = c.id[m] /\ c.id[m] = m
    BY <2>1, <1>0, <1>1, <1>2 DEF Named
  <2>3. c.unsent[c.id[m]] = m /\ c.random[m] = m
    BY <2>1, <1>0 DEF Agrees
  <2> QED BY <2>1, <2>2, <2>3, <1>1, <1>2, <1>4
<1>14. \A k \in Message : d.unsent[k] # NoMessage =>
         d.unsent[k] \in d.pending /\ d.id[d.unsent[k]] = k
  <2> SUFFICES ASSUME NEW k \in Message, d.unsent[k] # NoMessage
               PROVE  d.unsent[k] \in d.pending /\ d.id[d.unsent[k]] = k
    OBVIOUS
  <2>1. k \notin R /\ d.unsent[k] = c.unsent[k]
    BY <1>1, <1>4
  <2>2. c.unsent[k] \in c.pending /\ c.id[c.unsent[k]] = k
    BY <2>1, <1>0 DEF Agrees
  <2>3. c.unsent[k] \notin R
    BY <2>1, <2>2, <1>3
  <2> QED BY <2>1, <2>2, <2>3, <1>1, <1>2
<1>15. \A r \in RandomId : d.random[r] \in {NoMessage} \cup (d.live \cap {r})
  BY <1>0, <1>1 DEF Agrees
<1>16. d.pending \subseteq d.live
  BY <1>1, <1>2
<1>17. d.temp = d.live /\ d.use = d.live
  BY <1>0, <1>1 DEF Agrees
<1>18. d.last = {<<d.id[m], m>> : m \in d.live}
  <2>1. d.live = (c.live \ R) \cup moved
    BY <1>1, <1>2
  <2>2. \A m \in c.live \ R : d.id[m] = c.id[m]
    BY <2>1, <1>8, <1>2
  <2>3. d.last = {<<c.id[m], m>> : m \in c.live \ R}
                   \cup {<<at[m], m>> : m \in moved}
    BY <1>1, <1>5
  <2>4. {<<d.id[m], m>> : m \in d.live} =
          {<<d.id[m], m>> : m \in c.live \ R}
          \cup {<<d.id[m], m>> : m \in moved}
    BY <2>1
  <2> QED BY <2>2, <2>3, <2>4, <1>9
<1>19. Named(d)
  <2>1. \A m \in d.live \cap Id : d.id[m] = m
    BY <1>0, <1>1, <1>2, <1>8, Numbers DEF Named
  <2>2. ASSUME NEW m \in d.live \cap RandomId
        PROVE  IF m \in d.pending THEN d.id[m] = m ELSE d.id[m] \in Id
    <3>1. CASE m \in moved
      BY <3>1, <1>1, <1>2, <1>3, <1>9
    <3>2. CASE m \notin moved
      BY <3>2, <1>0, <1>1, <1>2, <1>8 DEF Named
    <3> QED BY <3>1, <3>2
  <2> QED BY <2>1, <2>2 DEF Named
<1>20. Agrees(d)
  BY <1>7, <1>11, <1>12, <1>13, <1>14, <1>15, <1>16, <1>17, <1>18 DEF Agrees
<1>21. \A m \in d.live : d.id[m] = IF m \in moved THEN at[m] ELSE c.id[m]
  BY <1>8, <1>9
<1>22. \A k \in Id : k \in Message /\ k \notin R
  BY <1>a, Numbers
<1>23. \A k \in Id : d.tree[k] # NoMessage =>
         c.tree[k] # NoMessage \/ \E m \in R : k = at[m]
  BY <1>1, <1>2, <1>4, <1>22
<1>24. \A k \in Id : c.tree[k] # NoMessage => d.tree[k] # NoMessage
  BY <1>1, <1>3, <1>4, <1>22
<1>25. ASSUME NEW m \in R PROVE d.tree[at[m]] # NoMessage
  <2>1. CASE m \in moved
    <3>1. d.tree[at[m]] = m /\ m \in Message
      BY <2>1, <1>1, <1>2
    <3> QED BY <3>1, Numbers
  <2>2. CASE m \in freed
    BY <2>2, <1>3, <1>24
  <2> QED BY <2>1, <2>2, <1>2
<1> QED BY <1>1, <1>19, <1>20, <1>21, <1>23, <1>24, <1>25
        DEF Good, Renamed, d, freed, moved

\* bl_do_message_delete, field by field.
LEMMA DeletingIs ==
  ASSUME NEW c \in Store, NEW m \in c.live, Agrees(c)
  PROVE  LET d == Delete(c, m)
         IN /\ d \in Store
            /\ d.live = c.live \ {m} /\ d.pending = c.pending \ {m}
            /\ d.id = [c.id EXCEPT ![m] = m]
            /\ d.unsent = [c.unsent EXCEPT ![c.id[m]] =
                             IF m \in c.pending THEN NoMessage ELSE @]
            /\ d.tree = [c.tree EXCEPT ![c.id[m]] = NoMessage]
            /\ d.random = [r \in RandomId |-> IF c.random[r] = m THEN NoMessage
                                              ELSE c.random[r]]
            /\ d.temp = c.temp \ {m} /\ d.use = c.use \ {m}
            /\ d.last = Unplace(c, {m})
            /\ d.pts = c.pts /\ d.locked = c.locked
            /\ d.aborted = c.aborted
<1> DEFINE d == Delete(c, m)
           I == [c.id EXCEPT ![m] = m]
           U == [c.unsent EXCEPT ![c.id[m]] =
                   IF m \in c.pending THEN NoMessage ELSE @]
           T == [c.tree EXCEPT ![c.id[m]] = NoMessage]
           X == [r \in RandomId |-> IF c.random[r] = m THEN NoMessage
                                    ELSE c.random[r]]
           L == Unplace(c, {m})
<1>1. /\ m \in Message /\ m # NoMessage /\ c.id[m] \in Message
      /\ c.pending \ {m} \subseteq RandomId
      /\ c.live \ {m} \subseteq Message /\ c.temp \ {m} \subseteq Message
      /\ c.use \ {m} \subseteq Message
  BY Numbers DEF Store
<1>2. I \in [Message -> Message]
  BY <1>1 DEF Store
<1>3. U \in [Message -> Message \cup {0}] /\ T \in [Message -> Message \cup {0}]
  BY <1>1 DEF Store, NoMessage
<1>4. X \in [RandomId -> Message \cup {0}]
  BY DEF Store, NoMessage
<1>5. L \in SUBSET (Message \X Message)
  BY DEF Unplace, Store
<1>6. d = [c EXCEPT !.live = @ \ {m}, !.pending = @ \ {m}, !.id = I,
                    !.unsent = U, !.tree = T, !.random = X,
                    !.temp = @ \ {m}, !.use = @ \ {m}, !.last = L]
  BY <1>1 DEF Delete, Store
<1>7. /\ I = [c.id EXCEPT ![m] = m]
      /\ U = [c.unsent EXCEPT ![c.id[m]] =
                IF m \in c.pending THEN NoMessage ELSE @]
      /\ T = [c.tree EXCEPT ![c.id[m]] = NoMessage]
      /\ X = [r \in RandomId |-> IF c.random[r] = m THEN NoMessage
                                 ELSE c.random[r]]
      /\ L = Unplace(c, {m})
  OBVIOUS
<1> HIDE DEF d, I, U, T, X, L
<1>8. /\ d.live = c.live \ {m} /\ d.pending = c.pending \ {m}
      /\ d.id = I /\ d.unsent = U /\ d.tree = T /\ d.random = X
      /\ d.temp = c.temp \ {m} /\ d.use = c.use \ {m}
      /\ d.last = L /\ d.pts = c.pts /\ d.locked = c.locked
      /\ d.aborted = c.aborted
  BY <1>6 DEF Store
<1>9. d \in Store
  <2> DEFINE d1 == [c EXCEPT !.live = c.live \ {m}]
             d2 == [d1 EXCEPT !.pending = c.pending \ {m}]
             d3 == [d2 EXCEPT !.id = I]
             d4 == [d3 EXCEPT !.unsent = U]
             d5 == [d4 EXCEPT !.tree = T]
             d6 == [d5 EXCEPT !.random = X]
             d7 == [d6 EXCEPT !.temp = c.temp \ {m}]
             d8 == [d7 EXCEPT !.use = c.use \ {m}]
             d9 == [d8 EXCEPT !.last = L]
  <2>1. d1 \in Store
    BY <1>1, StoreFields
  <2>2. d2 \in Store
    BY <1>1, <2>1, StoreFields
  <2>3. d3 \in Store
    BY <1>2, <2>2, StoreFields
  <2>4. d4 \in Store
    BY <1>3, <2>3, StoreFields
  <2>5. d5 \in Store
    BY <1>3, <2>4, StoreFields
  <2>6. d6 \in Store
    BY <1>4, <2>5, StoreFields
  <2>7. d7 \in Store
    BY <1>1, <2>6, StoreFields
  <2>8. d8 \in Store
    BY <1>1, <2>7, StoreFields
  <2>9. d9 \in Store
    BY <1>5, <2>8, StoreFields
  <2>10. d = d9
    BY <1>6, Zenon
  <2> QED BY <2>9, <2>10
<1> QED BY <1>7, <1>8, <1>9 DEF d

\* bl_do_message_delete takes a message out of every index, and no other.
LEMMA Deleting ==
  ASSUME NEW c, Good(c), NEW m \in c.live
  PROVE  LET d == Delete(c, m)
         IN /\ Good(d)
            /\ d.live = c.live \ {m} /\ d.pending = c.pending \ {m}
            /\ \A x \in d.live : d.id[x] = c.id[x]
            /\ \A k \in Message : d.tree[k] \in {NoMessage, c.tree[k]}
            /\ d.pts = c.pts /\ d.locked = c.locked
<1> DEFINE d == Delete(c, m)
           was == c.id[m]
<1>0. c \in Store /\ Agrees(c) /\ Named(c)
  BY DEF Good
<1>1. /\ d \in Store
      /\ d.live = c.live \ {m} /\ d.pending = c.pending \ {m}
      /\ d.id = [c.id EXCEPT ![m] = m]
      /\ d.unsent = [c.unsent EXCEPT ![was] =
                       IF m \in c.pending THEN NoMessage ELSE @]
      /\ d.tree = [c.tree EXCEPT ![was] = NoMessage]
      /\ d.random = [r \in RandomId |-> IF c.random[r] = m THEN NoMessage
                                        ELSE c.random[r]]
      /\ d.temp = c.temp \ {m} /\ d.use = c.use \ {m}
      /\ d.last = Unplace(c, {m})
      /\ d.pts = c.pts /\ d.locked = c.locked
      /\ d.aborted = c.aborted
  BY <1>0, DeletingIs
<1>2. /\ c.live \subseteq Message /\ c.pending \subseteq RandomId
      /\ c.pending \subseteq c.live
      /\ c.id \in [Message -> Message]
      /\ c.tree \in [Message -> Message \cup {0}]
      /\ c.unsent \in [Message -> Message \cup {0}]
      /\ c.random \in [RandomId -> Message \cup {0}]
      /\ was \in Message /\ c.tree[was] = m
      /\ \A x \in c.live : c.tree[c.id[x]] = x
  BY <1>0 DEF Store, Agrees
<1> HIDE DEF d, was
<1>3. \A x \in d.live : d.id[x] = c.id[x] /\ x \in c.live /\ x # m
  BY <1>1, <1>2
<1>4. ASSUME NEW x \in d.live PROVE c.id[x] # was
  BY <1>2, <1>3
<1>5. \A x \in d.live : d.tree[d.id[x]] = x
  BY <1>1, <1>2, <1>3, <1>4
<1>6. \A k \in Message : /\ d.tree[k] = IF k = was THEN NoMessage ELSE c.tree[k]
                         /\ d.tree[k] \in {NoMessage, c.tree[k]}
  BY <1>1, <1>2
<1>7. \A k \in Message : d.tree[k] # NoMessage =>
        d.tree[k] \in d.live /\ d.id[d.tree[k]] = k
  <2> SUFFICES ASSUME NEW k \in Message, d.tree[k] # NoMessage
               PROVE  d.tree[k] \in d.live /\ d.id[d.tree[k]] = k
    OBVIOUS
  <2>1. k # was /\ d.tree[k] = c.tree[k]
    BY <1>6
  <2>2. c.tree[k] \in c.live /\ c.id[c.tree[k]] = k
    BY <2>1, <1>0 DEF Agrees
  <2>3. c.tree[k] # m
    BY <2>1, <2>2 DEF was
  <2> QED BY <2>1, <2>2, <2>3, <1>1, <1>3
<1>8. ASSUME NEW x \in d.pending
      PROVE  d.unsent[d.id[x]] = x /\ d.random[x] = x
  <2>1. x \in c.pending /\ x # m /\ x \in d.live /\ x \in RandomId
        /\ d.id[x] = c.id[x] /\ c.id[x] \in Message /\ c.id[x] # was
    BY <1>1, <1>2, <1>3, <1>4
  <2>2. c.unsent[c.id[x]] = x /\ c.random[x] = x
    BY <2>1, <1>0 DEF Agrees
  <2> QED BY <2>1, <2>2, <1>1, <1>2
<1>9. \A k \in Message : d.unsent[k] # NoMessage =>
        d.unsent[k] \in d.pending /\ d.id[d.unsent[k]] = k
  <2> SUFFICES ASSUME NEW k \in Message, d.unsent[k] # NoMessage
               PROVE  d.unsent[k] \in d.pending /\ d.id[d.unsent[k]] = k
    OBVIOUS
  <2>1. d.unsent[k] = c.unsent[k] /\ (k = was => m \notin c.pending)
    BY <1>1, <1>2
  <2>2. c.unsent[k] \in c.pending /\ c.id[c.unsent[k]] = k
    BY <2>1, <1>0 DEF Agrees
  <2>3. c.unsent[k] # m
    BY <2>1, <2>2 DEF was
  <2> QED BY <2>1, <2>2, <2>3, <1>1, <1>2, <1>3
<1>10. \A r \in RandomId : d.random[r] \in {NoMessage} \cup (d.live \cap {r})
  BY <1>0, <1>1 DEF Agrees
<1>11. d.pending \subseteq d.live /\ d.temp = d.live /\ d.use = d.live
       /\ ~d.aborted
  BY <1>0, <1>1 DEF Agrees
<1>12. d.last = {<<d.id[x], x>> : x \in d.live}
  <2>1. d.last = {<<c.id[x], x>> : x \in c.live \ {m}}
    BY <1>0, <1>1 DEF Unplace, Agrees
  <2> QED BY <2>1, <1>1, <1>3
<1>13. Named(d)
  BY <1>0, <1>1, <1>3 DEF Named
<1>14. Agrees(d)
  BY <1>5, <1>7, <1>8, <1>9, <1>10, <1>11, <1>12 DEF Agrees
<1> QED BY <1>1, <1>3, <1>6, <1>13, <1>14 DEF Good, d

\* bl_do_edit_message with CREATE for a message to send, field by field.
LEMMA CreatingIs ==
  ASSUME NEW c \in Store, NEW r \in RandomId
  PROVE  LET d == CreatePending(c, r)
         IN /\ d \in Store
            /\ d.live = c.live \cup {r} /\ d.pending = c.pending \cup {r}
            /\ d.id = [c.id EXCEPT ![r] = r]
            /\ d.unsent = [c.unsent EXCEPT ![r] = r]
            /\ d.tree = [c.tree EXCEPT ![r] = r]
            /\ d.random = [c.random EXCEPT ![r] = r]
            /\ d.temp = c.temp \cup {r} /\ d.use = c.use \cup {r}
            /\ d.last = c.last \cup {<<r, r>>}
            /\ d.pts = c.pts /\ d.locked = c.locked
            /\ d.aborted = (\/ c.aborted \/ c.tree[r] # NoMessage
                            \/ Placed(c, {r}))
<1> DEFINE d == CreatePending(c, r)
           I == [c.id EXCEPT ![r] = r]
           U == [c.unsent EXCEPT ![r] = r]
           T == [c.tree EXCEPT ![r] = r]
           X == [c.random EXCEPT ![r] = r]
           L == c.last \cup {<<r, r>>}
           A == c.aborted \/ c.tree[r] # NoMessage \/ Placed(c, {r})
<1>1. /\ r \in Message
      /\ c.pending \cup {r} \subseteq RandomId
      /\ c.live \cup {r} \subseteq Message /\ c.temp \cup {r} \subseteq Message
      /\ c.use \cup {r} \subseteq Message
  BY Numbers DEF Store
<1>2. I \in [Message -> Message]
  BY <1>1 DEF Store
<1>3. U \in [Message -> Message \cup {0}] /\ T \in [Message -> Message \cup {0}]
  BY <1>1 DEF Store
<1>4. X \in [RandomId -> Message \cup {0}]
  BY <1>1 DEF Store
<1>5. L \in SUBSET (Message \X Message)
  BY <1>1 DEF Store
<1>6. A \in BOOLEAN
  BY DEF Store
<1>7. d = [c EXCEPT !.live = @ \cup {r}, !.id = I, !.pending = @ \cup {r},
                    !.tree = T, !.unsent = U, !.random = X,
                    !.temp = @ \cup {r}, !.use = @ \cup {r}, !.last = L,
                    !.aborted = A]
  BY <1>1 DEF CreatePending, Store
<1>8. /\ I = [c.id EXCEPT ![r] = r] /\ U = [c.unsent EXCEPT ![r] = r]
      /\ T = [c.tree EXCEPT ![r] = r] /\ X = [c.random EXCEPT ![r] = r]
      /\ L = c.last \cup {<<r, r>>}
      /\ A = (c.aborted \/ c.tree[r] # NoMessage \/ Placed(c, {r}))
  OBVIOUS
<1> HIDE DEF d, I, U, T, X, L, A
<1>9. /\ d.live = c.live \cup {r} /\ d.pending = c.pending \cup {r}
      /\ d.id = I /\ d.unsent = U /\ d.tree = T /\ d.random = X
      /\ d.temp = c.temp \cup {r} /\ d.use = c.use \cup {r}
      /\ d.last = L /\ d.pts = c.pts /\ d.locked = c.locked
      /\ d.aborted = A
  BY <1>7 DEF Store
<1>10. d \in Store
  <2> DEFINE d1 == [c EXCEPT !.live = c.live \cup {r}]
             d2 == [d1 EXCEPT !.id = I]
             d3 == [d2 EXCEPT !.pending = c.pending \cup {r}]
             d4 == [d3 EXCEPT !.tree = T]
             d5 == [d4 EXCEPT !.unsent = U]
             d6 == [d5 EXCEPT !.random = X]
             d7 == [d6 EXCEPT !.temp = c.temp \cup {r}]
             d8 == [d7 EXCEPT !.use = c.use \cup {r}]
             d9 == [d8 EXCEPT !.last = L]
             d10 == [d9 EXCEPT !.aborted = A]
  <2>1. d1 \in Store
    BY <1>1, StoreFields
  <2>2. d2 \in Store
    BY <1>2, <2>1, StoreFields
  <2>3. d3 \in Store
    BY <1>1, <2>2, StoreFields
  <2>4. d4 \in Store
    BY <1>3, <2>3, StoreFields
  <2>5. d5 \in Store
    BY <1>3, <2>4, StoreFields
  <2>6. d6 \in Store
    BY <1>4, <2>5, StoreFields
  <2>7. d7 \in Store
    BY <1>1, <2>6, StoreFields
  <2>8. d8 \in Store
    BY <1>1, <2>7, StoreFields
  <2>9. d9 \in Store
    BY <1>5, <2>8, StoreFields
  <2>10. d10 \in Store
    BY <1>6, <2>9, StoreFields
  <2>11. d = d10
    BY <1>7, Zenon
  <2> QED BY <2>10, <2>11
<1> QED BY <1>8, <1>9, <1>10 DEF d

\* A message with an unused random id enters every index.
LEMMA Creating ==
  ASSUME NEW c, Good(c), NEW r \in RandomId \ c.live
  PROVE  LET d == CreatePending(c, r)
         IN /\ Good(d)
            /\ d.live = c.live \cup {r} /\ d.pending = c.pending \cup {r}
            /\ \A x \in c.live : d.id[x] = c.id[x]
            /\ \A k \in Id : d.tree[k] = c.tree[k]
            /\ d.pts = c.pts /\ d.locked = c.locked
<1> DEFINE d == CreatePending(c, r)
<1>0. c \in Store /\ Agrees(c) /\ Named(c)
  BY DEF Good
<1>1. /\ d \in Store
      /\ d.live = c.live \cup {r} /\ d.pending = c.pending \cup {r}
      /\ d.id = [c.id EXCEPT ![r] = r]
      /\ d.unsent = [c.unsent EXCEPT ![r] = r]
      /\ d.tree = [c.tree EXCEPT ![r] = r]
      /\ d.random = [c.random EXCEPT ![r] = r]
      /\ d.temp = c.temp \cup {r} /\ d.use = c.use \cup {r}
      /\ d.last = c.last \cup {<<r, r>>}
      /\ d.pts = c.pts /\ d.locked = c.locked
      /\ d.aborted = (\/ c.aborted \/ c.tree[r] # NoMessage
                      \/ Placed(c, {r}))
  BY <1>0, CreatingIs
<1>2. /\ c.live \subseteq Message /\ c.pending \subseteq RandomId
      /\ c.pending \subseteq c.live
      /\ c.id \in [Message -> Message]
      /\ c.tree \in [Message -> Message \cup {0}]
      /\ c.unsent \in [Message -> Message \cup {0}]
      /\ c.random \in [RandomId -> Message \cup {0}]
      /\ \A x \in c.live : c.tree[c.id[x]] = x
  BY <1>0 DEF Store, Agrees
<1>3. r \in Message /\ r \notin Id /\ r \notin c.live /\ r # NoMessage
  BY Numbers
<1> HIDE DEF d
<1>4. ASSUME NEW x \in c.live PROVE c.id[x] # r
  <2>1. x \in Id \/ x \in RandomId
    BY <1>2, Numbers
  <2> QED BY <2>1, <1>0, <1>3 DEF Named
<1>5. c.tree[r] = NoMessage
  BY <1>0, <1>3, <1>4 DEF Agrees
<1>6. ~Placed(c, {r})
  <2>1. ASSUME NEW l \in c.last PROVE c.id[l[2]] # r
    <3>1. PICK x \in c.live : l = <<c.id[x], x>>
      BY <1>0 DEF Agrees
    <3> QED BY <3>1, <1>4
  <2> QED BY <2>1 DEF Placed
<1>7. ~d.aborted
  BY <1>0, <1>1, <1>5, <1>6 DEF Agrees
<1>8. \A x \in c.live : d.id[x] = c.id[x] /\ x # r
  BY <1>1, <1>2, <1>3
<1>9. d.id[r] = r
  BY <1>1, <1>2, <1>3
<1>10. /\ d.tree[r] = r /\ d.unsent[r] = r /\ d.random[r] = r
       /\ \A k \in Message \ {r} : /\ d.tree[k] = c.tree[k]
                                   /\ d.unsent[k] = c.unsent[k]
       /\ \A k \in RandomId \ {r} : d.random[k] = c.random[k]
  BY <1>1, <1>2, <1>3
<1>11. ASSUME NEW x \in d.live PROVE d.tree[d.id[x]] = x
  <2>1. CASE x = r
    BY <2>1, <1>9, <1>10
  <2>2. CASE x # r
    <3>1. x \in c.live /\ d.id[x] = c.id[x] /\ c.id[x] \in Message \ {r}
      BY <2>2, <1>1, <1>2, <1>4, <1>8
    <3> QED BY <3>1, <1>2, <1>10
  <2> QED BY <2>1, <2>2
<1>12. \A k \in Message : d.tree[k] # NoMessage =>
         d.tree[k] \in d.live /\ d.id[d.tree[k]] = k
  <2> SUFFICES ASSUME NEW k \in Message, d.tree[k] # NoMessage
               PROVE  d.tree[k] \in d.live /\ d.id[d.tree[k]] = k
    OBVIOUS
  <2>1. CASE k = r
    BY <2>1, <1>1, <1>9, <1>10
  <2>2. CASE k # r
    <3>1. d.tree[k] = c.tree[k]
      BY <2>2, <1>10
    <3>2. c.tree[k] \in c.live /\ c.id[c.tree[k]] = k
      BY <3>1, <1>0 DEF Agrees
    <3> QED BY <3>1, <3>2, <1>1, <1>8
  <2> QED BY <2>1, <2>2
<1>13. ASSUME NEW x \in d.pending
       PROVE  d.unsent[d.id[x]] = x /\ d.random[x] = x
  <2>1. CASE x = r
    BY <2>1, <1>9, <1>10
  <2>2. CASE x # r
    <3>1. x \in c.pending /\ x \in c.live /\ x \in RandomId
          /\ d.id[x] = c.id[x] /\ c.id[x] \in Message \ {r}
      BY <2>2, <1>1, <1>2, <1>4, <1>8
    <3>2. c.unsent[c.id[x]] = x /\ c.random[x] = x
      BY <3>1, <1>0 DEF Agrees
    <3> QED BY <2>2, <3>1, <3>2, <1>10
  <2> QED BY <2>1, <2>2
<1>14. \A k \in Message : d.unsent[k] # NoMessage =>
         d.unsent[k] \in d.pending /\ d.id[d.unsent[k]] = k
  <2> SUFFICES ASSUME NEW k \in Message, d.unsent[k] # NoMessage
               PROVE  d.unsent[k] \in d.pending /\ d.id[d.unsent[k]] = k
    OBVIOUS
  <2>1. CASE k = r
    BY <2>1, <1>1, <1>9, <1>10
  <2>2. CASE k # r
    <3>1. d.unsent[k] = c.unsent[k]
      BY <2>2, <1>10
    <3>2. c.unsent[k] \in c.pending /\ c.id[c.unsent[k]] = k
      BY <3>1, <1>0 DEF Agrees
    <3> QED BY <3>1, <3>2, <1>1, <1>2, <1>8
  <2> QED BY <2>1, <2>2
<1>15. ASSUME NEW k \in RandomId
       PROVE  d.random[k] \in {NoMessage} \cup (d.live \cap {k})
  <2>1. c.random[k] \in {NoMessage} \cup (c.live \cap {k})
    BY <1>0 DEF Agrees
  <2> QED BY <2>1, <1>1, <1>10
<1>16. d.pending \subseteq d.live /\ d.temp = d.live /\ d.use = d.live
  BY <1>0, <1>1 DEF Agrees
<1>17. d.last = {<<d.id[x], x>> : x \in d.live}
  <2>1. d.last = {<<c.id[x], x>> : x \in c.live} \cup {<<r, r>>}
    BY <1>0, <1>1 DEF Agrees
  <2> QED BY <2>1, <1>1, <1>8, <1>9
<1>18. Named(d)
  BY <1>0, <1>1, <1>3, <1>8, <1>9 DEF Named
<1>19. Agrees(d)
  BY <1>7, <1>11, <1>12, <1>13, <1>14, <1>15, <1>16, <1>17 DEF Agrees
<1>20. \A k \in Id : d.tree[k] = c.tree[k]
  BY <1>3, <1>10, Numbers
<1> QED BY <1>1, <1>8, <1>18, <1>19, <1>20 DEF Good, d

\* c and d have the same messages under the same ids.
Same(c, d) ==
  /\ d.live = c.live /\ d.id = c.id /\ d.pending = c.pending
  /\ d.tree = c.tree

\* bl_do_set_pts changes pts, never backwards and not under the lock.
LEMMA SettingPts ==
  ASSUME NEW c, Good(c), NEW n \in Id \cup {0}
  PROVE  LET d == SetPts(c, n)
         IN /\ Good(d) /\ Same(c, d) /\ d.locked = c.locked
            /\ d.pts = IF c.locked \/ n <= c.pts THEN c.pts ELSE n
<1>1. c \in Store
  BY DEF Good
<1>2. CASE c.locked \/ n <= c.pts
  BY <1>2 DEF SetPts, Same
<1>3. CASE ~(c.locked \/ n <= c.pts)
  <2> DEFINE d == [c EXCEPT !.pts = n]
  <2>1. SetPts(c, n) = d
    BY <1>3 DEF SetPts
  <2>2. d \in Store
    BY <1>1, StoreFields
  <2>3. /\ d.live = c.live /\ d.id = c.id /\ d.pending = c.pending
        /\ d.tree = c.tree /\ d.unsent = c.unsent /\ d.random = c.random
        /\ d.temp = c.temp /\ d.use = c.use /\ d.last = c.last
        /\ d.aborted = c.aborted /\ d.locked = c.locked /\ d.pts = n
    BY <1>1 DEF Store
  <2> HIDE DEF d
  <2>4. Agrees(d) /\ Named(d)
    BY <2>3 DEF Good, Agrees, Named
  <2> QED BY <1>3, <2>1, <2>2, <2>3, <2>4 DEF Good, Same
<1> QED BY <1>2, <1>3

\* The lock of tgl_do_get_difference is no part of the store.
LEMMA Locking ==
  ASSUME NEW c, Good(c), NEW b \in BOOLEAN
  PROVE  LET d == [c EXCEPT !.locked = b]
         IN Good(d) /\ Same(c, d) /\ d.pts = c.pts /\ d.locked = b
<1> DEFINE d == [c EXCEPT !.locked = b]
<1>1. c \in Store
  BY DEF Good
<1>2. d \in Store
  BY <1>1, StoreFields
<1>3. /\ d.live = c.live /\ d.id = c.id /\ d.pending = c.pending
      /\ d.tree = c.tree /\ d.unsent = c.unsent /\ d.random = c.random
      /\ d.temp = c.temp /\ d.use = c.use /\ d.last = c.last
      /\ d.aborted = c.aborted /\ d.locked = b /\ d.pts = c.pts
  BY <1>1 DEF Store
<1> HIDE DEF d
<1>4. Agrees(d) /\ Named(d)
  BY <1>3 DEF Good, Agrees, Named
<1> QED BY <1>2, <1>3, <1>4 DEF Good, Same, d

\* A failed assertion of bl_do_edit_message leaves the store as it was.
LEMMA Ending ==
  ASSUME NEW c, Good(c)
  PROVE  LET d == [c EXCEPT !.again = TRUE]
         IN Good(d) /\ Same(c, d) /\ d.pts = c.pts /\ d.locked = c.locked
<1> DEFINE d == [c EXCEPT !.again = TRUE]
<1>1. c \in Store
  BY DEF Good
<1>2. d \in Store
  BY <1>1, StoreFields
<1>3. /\ d.live = c.live /\ d.id = c.id /\ d.pending = c.pending
      /\ d.tree = c.tree /\ d.unsent = c.unsent /\ d.random = c.random
      /\ d.temp = c.temp /\ d.use = c.use /\ d.last = c.last
      /\ d.aborted = c.aborted /\ d.locked = c.locked /\ d.pts = c.pts
  BY <1>1 DEF Store
<1> HIDE DEF d
<1>4. Agrees(d) /\ Named(d)
  BY <1>3 DEF Good, Agrees, Named
<1> QED BY <1>2, <1>3, <1>4 DEF Good, Same, d

\* The tree by random id finds the message with that id, if it is pending.
LEMMA Finding ==
  ASSUME NEW c, Good(c), NEW r \in RandomId
  PROVE  /\ ByRandom(c, r) \in {NoMessage} \cup (c.live \cap {r})
         /\ r \in c.pending => ByRandom(c, r) = r
<1>1. c.random[r] \in {NoMessage} \cup (c.live \cap {r})
  BY DEF Good, Agrees
<1>2. r # NoMessage
  BY Numbers
<1>3. c.random[r] = r => r \in c.live /\ c.tree[c.id[r]] = r
  BY <1>1, <1>2 DEF Good, Agrees
<1>4. r \in c.pending => c.random[r] = r
  BY DEF Good, Agrees
<1> QED BY <1>1, <1>2, <1>3, <1>4 DEF ByRandom

\* The log is typed.
LogOK == log \in Seq(Event) /\ Len(log) <= MaxId

\* A message in the store is one of the log; one that was sent has the id of
\* the event made of that very message.
Owns(c) ==
  /\ \A m \in c.live \cap Id : m \in DOMAIN log
  /\ \A r \in (c.live \cap RandomId) \ c.pending :
       c.id[r] \in DOMAIN log /\ log[c.id[r]].from = r

\* A handler made d of c: good and owned, no message became pending, and only
\* the events of N came into the tree.
Works(c, d, N) ==
  /\ Good(d) /\ Owns(d)
  /\ d.pending \subseteq c.pending
  /\ \A k \in Id : d.tree[k] # NoMessage => c.tree[k] # NoMessage \/ k \in N

\* No id is lost from the tree.
Keeps(c, d) == \A k \in Id : c.tree[k] # NoMessage => d.tree[k] # NoMessage

\* The events of the log are numbered by ids.
LEMMA LogNumbers ==
  ASSUME LogOK
  PROVE  /\ Len(log) \in Nat /\ DOMAIN log = 1 .. Len(log)
         /\ DOMAIN log \subseteq Id /\ MaxId \in Nat
         /\ \A n \in DOMAIN log : log[n] \in Event
  BY MessagesAssumption DEF LogOK, Id

\* A handler that leaves the messages alone works.
LEMMA SameWorks ==
  ASSUME NEW c, NEW d, Good(d), Owns(c), Same(c, d)
  PROVE  Works(c, d, {}) /\ Keeps(c, d)
  BY DEF Works, Owns, Same, Keeps

\* Two steps of a handler, one after the other.
LEMMA WorksTwice ==
  ASSUME NEW c, NEW d, NEW e, NEW M, NEW N, Works(c, d, M), Works(d, e, N)
  PROVE  Works(c, e, M \cup N)
  BY DEF Works

\* Fetching events of the log works: they are in the tree afterwards.
LEMMA FetchWorks ==
  ASSUME LogOK, NEW c, Good(c), Owns(c), NEW N \in SUBSET DOMAIN log
  PROVE  LET d == FetchAlloc(c, N)
         IN /\ Works(c, d, N) /\ Keeps(c, d)
            /\ d.pending = c.pending
            /\ \A n \in N : d.tree[n] # NoMessage
            /\ d.pts = c.pts /\ d.locked = c.locked
<1> DEFINE d == FetchAlloc(c, N)
           new == {n \in N : c.tree[n] = NoMessage}
<1>1. c \in Store /\ N \subseteq Id /\ N \in SUBSET Id
  BY LogNumbers DEF Good
<1>2. Good(d)
  BY <1>1, Fetching
<1>3. /\ d.live = c.live \cup new /\ d.pending = c.pending
      /\ d.id = [m \in Message |-> IF m \in new THEN m ELSE c.id[m]]
      /\ d.tree = [k \in Message |-> IF k \in new THEN k ELSE c.tree[k]]
      /\ d.pts = c.pts /\ d.locked = c.locked
  BY <1>1, FetchingIs
<1>4. /\ new \subseteq N /\ new \subseteq Id
      /\ \A n \in N \ new : c.tree[n] # NoMessage
      /\ c.live \subseteq Message
  BY <1>1 DEF Store
<1> HIDE DEF d, new
<1>5. Owns(d)
  <2>1. \A m \in d.live \cap Id : m \in DOMAIN log
    BY <1>3, <1>4 DEF Owns
  <2>2. ASSUME NEW r \in (d.live \cap RandomId) \ d.pending
        PROVE  d.id[r] \in DOMAIN log /\ log[d.id[r]].from = r
    <3>1. /\ r \notin new /\ r \in Message
          /\ r \in (c.live \cap RandomId) \ c.pending
      BY <1>3, <1>4, Numbers
    <3>2. d.id[r] = c.id[r]
      BY <3>1, <1>3
    <3> QED BY <3>1, <3>2 DEF Owns
  <2> QED BY <2>1, <2>2 DEF Owns
<1>6. \A k \in Id : d.tree[k] = IF k \in new THEN k ELSE c.tree[k]
  BY <1>3, Numbers
<1>7. \A k \in Id : d.tree[k] # NoMessage => c.tree[k] # NoMessage \/ k \in N
  BY <1>4, <1>6
<1>8. Keeps(c, d)
  BY <1>6, Numbers DEF Keeps
<1>9. \A n \in N : d.tree[n] # NoMessage
  BY <1>1, <1>4, <1>6, Numbers
<1> QED BY <1>2, <1>3, <1>5, <1>7, <1>8, <1>9 DEF Works, d

\* bl_do_set_msg_id as a step of a handler.
RenamedWell(c, d, R, at) ==
  /\ Works(c, d, {at[m] : m \in R}) /\ Keeps(c, d)
  /\ d.live = c.live \ Freed(c, R, at) /\ d.pending = c.pending \ R
  /\ \A m \in R : d.tree[at[m]] # NoMessage
  /\ d.pts = c.pts /\ d.locked = c.locked

\* Naming pending messages after the events made of them works.  Two of them
\* never get one id, since an event is made of one message.
LEMMA RenameWorks ==
  ASSUME LogOK, NEW c, Good(c), Owns(c), NEW R \in SUBSET c.pending,
         NEW at \in [R -> DOMAIN log], \A m \in R : log[at[m]].from = m
  PROVE  RenamedWell(c, SetMsgId(c, R, at), R, at)
<1> DEFINE d == SetMsgId(c, R, at)
           freed == Freed(c, R, at)
           moved == R \ freed
<1>1. at \in [R -> Id]
  BY LogNumbers
<1>2. \A m, n \in R : at[m] = at[n] => m = n
  OBVIOUS
<1> HIDE DEF d, freed
<1>a. Renamed(c, d, R, at)
  BY <1>1, <1>2, Renaming DEF d
<1>3. /\ Good(d)
      /\ d.live = c.live \ freed /\ d.pending = c.pending \ R
      /\ \A m \in d.live : d.id[m] = IF m \in moved THEN at[m] ELSE c.id[m]
      /\ \A k \in Id : d.tree[k] # NoMessage =>
           c.tree[k] # NoMessage \/ \E m \in R : k = at[m]
      /\ \A k \in Id : c.tree[k] # NoMessage => d.tree[k] # NoMessage
      /\ \A m \in R : d.tree[at[m]] # NoMessage
      /\ d.pts = c.pts /\ d.locked = c.locked
  BY <1>a DEF Renamed, freed
<1>4. R \subseteq c.live /\ freed \subseteq R
  BY DEF Good, Agrees, Freed, freed
<1>5. Owns(d)
  <2>1. \A m \in d.live \cap Id : m \in DOMAIN log
    BY <1>3 DEF Owns
  <2>2. ASSUME NEW r \in (d.live \cap RandomId) \ d.pending
        PROVE  d.id[r] \in DOMAIN log /\ log[d.id[r]].from = r
    <3>1. CASE r \in moved
      BY <3>1, <1>3
    <3>2. CASE r \notin moved
      <4>1. r \in (c.live \cap RandomId) \ c.pending /\ d.id[r] = c.id[r]
        BY <3>2, <1>3
      <4> QED BY <4>1 DEF Owns
    <3> QED BY <3>1, <3>2
  <2> QED BY <2>1, <2>2 DEF Owns
<1> QED BY <1>3, <1>5 DEF RenamedWell, Works, Keeps, d, freed

\* Deleting a message, or none, works.
LEMMA DeleteWorks ==
  ASSUME NEW c, Good(c), Owns(c), NEW m \in c.live \cup {NoMessage}
  PROVE  LET d == Delete(c, m)
         IN Works(c, d, {}) /\ d.pts = c.pts /\ d.locked = c.locked
<1>1. CASE m = NoMessage
  BY <1>1, SameWorks DEF Delete, Same, Works
<1>2. CASE m \in c.live
  <2> DEFINE d == Delete(c, m)
  <2>1. /\ Good(d)
        /\ d.live = c.live \ {m} /\ d.pending = c.pending \ {m}
        /\ \A x \in d.live : d.id[x] = c.id[x]
        /\ \A k \in Message : d.tree[k] \in {NoMessage, c.tree[k]}
        /\ d.pts = c.pts /\ d.locked = c.locked
    BY <1>2, Deleting
  <2> HIDE DEF d
  <2>2. Owns(d)
    BY <2>1 DEF Owns
  <2>3. \A k \in Id : d.tree[k] # NoMessage => c.tree[k] # NoMessage
    BY <2>1, Numbers
  <2> QED BY <2>1, <2>2, <2>3 DEF Works, d
<1> QED BY <1>1, <1>2

\* bl_do_set_pts works.
LEMMA PtsWorks ==
  ASSUME NEW c, Good(c), Owns(c), NEW n \in Id \cup {0}
  PROVE  LET d == SetPts(c, n)
         IN /\ Works(c, d, {}) /\ Keeps(c, d) /\ Same(c, d)
            /\ d.locked = c.locked
            /\ d.pts = IF c.locked \/ n <= c.pts THEN c.pts ELSE n
  BY SettingPts, SameWorks

\* Taking or dropping the lock works.
LEMMA LockWorks ==
  ASSUME NEW c, Good(c), Owns(c), NEW b \in BOOLEAN
  PROVE  LET d == [c EXCEPT !.locked = b]
         IN /\ Works(c, d, {}) /\ Keeps(c, d) /\ Same(c, d)
            /\ d.pts = c.pts /\ d.locked = b
  BY Locking, SameWorks

\* Nothing happened but that the lock may have been taken.
Hole(c, d) == Same(c, d) /\ d.pts = c.pts /\ (c.locked => d.locked)

\* The event n was the next one, and pts moved to it.
Advances(c, d, n) ==
  /\ ~c.locked /\ ~d.locked /\ n = c.pts + 1 /\ d.pts = n

\* updateNewMessage: a hole, or the next event, whose message is there.
LEMMA NewMessageWorks ==
  ASSUME LogOK, NEW c, Good(c), Owns(c), NEW n \in DOMAIN log
  PROVE  LET d == WorkNewMessage(c, n)
         IN /\ Works(c, d, {n}) /\ Keeps(c, d) /\ d.pending = c.pending
            /\ Hole(c, d) \/ (Advances(c, d, n) /\ d.tree[n] # NoMessage)
<1> DEFINE d == WorkNewMessage(c, n)
<1>a. c \in Store /\ c.pts \in Id \cup {0}
  BY DEF Good, Store
<1>b. n \in Id /\ Id \subseteq Int
  BY LogNumbers, Numbers
<1>0. c \in Store /\ c.pts \in Id \cup {0} /\ n \in Id /\ c.pts \in Int
      /\ n \in Int
  BY <1>a, <1>b
<1>1. CASE c.locked \/ n < c.pts + 1
  <2>1. d = c
    BY <1>0, <1>1 DEF WorkNewMessage, Check
  <2>2. Same(c, c) /\ Hole(c, c)
    BY DEF Same, Hole
  <2> HIDE DEF d
  <2> QED BY <2>1, <2>2, SameWorks DEF Works, d
<1>2. CASE ~c.locked /\ n > c.pts + 1
  <2>1. d = [c EXCEPT !.locked = TRUE]
    BY <1>0, <1>2 DEF WorkNewMessage, Check, GetDifference
  <2>2. /\ Works(c, d, {}) /\ Keeps(c, d) /\ Same(c, d)
        /\ d.pts = c.pts /\ d.locked
    BY <2>1, LockWorks
  <2> HIDE DEF d
  <2> QED BY <2>2 DEF Works, Hole, Same, d
<1>3. CASE ~c.locked /\ n = c.pts + 1
  <2> DEFINE e == FetchAlloc(c, {n})
  <2>1. d = SetPts(e, n)
    BY <1>0, <1>3 DEF WorkNewMessage, Check
  <2>2. /\ Works(c, e, {n}) /\ Keeps(c, e) /\ e.pending = c.pending
        /\ e.tree[n] # NoMessage /\ e.pts = c.pts /\ e.locked = c.locked
    BY FetchWorks
  <2> HIDE DEF d, e
  <2>3. Good(e) /\ Owns(e)
    BY <2>2 DEF Works
  <2>4. /\ Works(e, d, {}) /\ Keeps(e, d) /\ Same(e, d)
        /\ d.locked = e.locked
        /\ d.pts = IF e.locked \/ n <= e.pts THEN e.pts ELSE n
    BY <1>0, <2>1, <2>3, PtsWorks
  <2>5. Works(c, d, {n})
    BY <2>2, <2>4 DEF Works
  <2> QED BY <1>0, <1>3, <2>2, <2>4, <2>5 DEF Keeps, Same, Advances, d
<1> QED BY <1>0, <1>1, <1>2, <1>3

\* updateDeleteMessages: a hole, or the next event.
LEMMA DeletionWorks ==
  ASSUME LogOK, NEW c, Good(c), Owns(c), NEW n \in DOMAIN log
  PROVE  LET d == WorkDeletion(c, n)
         IN Works(c, d, {}) /\ d.pending = c.pending
            /\ (Hole(c, d) \/ Advances(c, d, n))
<1> DEFINE d == WorkDeletion(c, n)
<1>a. c \in Store /\ c.pts \in Id \cup {0}
  BY DEF Good, Store
<1>b. n \in Id /\ Id \subseteq Int
  BY LogNumbers, Numbers
<1>0. c \in Store /\ c.pts \in Id \cup {0} /\ n \in Id /\ c.pts \in Int
      /\ n \in Int
  BY <1>a, <1>b
<1>1. CASE c.locked \/ n < c.pts + 1
  <2>1. d = c
    BY <1>0, <1>1 DEF WorkDeletion, Check
  <2>2. Same(c, c) /\ Hole(c, c)
    BY DEF Same, Hole
  <2> HIDE DEF d
  <2> QED BY <2>1, <2>2, SameWorks DEF d
<1>2. CASE ~c.locked /\ n > c.pts + 1
  <2>1. d = [c EXCEPT !.locked = TRUE]
    BY <1>0, <1>2 DEF WorkDeletion, Check, GetDifference
  <2>2. /\ Works(c, d, {}) /\ Keeps(c, d) /\ Same(c, d)
        /\ d.pts = c.pts /\ d.locked
    BY <2>1, LockWorks
  <2> HIDE DEF d
  <2> QED BY <2>2 DEF Hole, Same, d
<1>3. CASE ~c.locked /\ n = c.pts + 1
  <2>1. d = SetPts(c, n)
    BY <1>0, <1>3 DEF WorkDeletion, Check
  <2>2. /\ Works(c, d, {}) /\ Same(c, d)
        /\ d.locked = c.locked
        /\ d.pts = IF c.locked \/ n <= c.pts THEN c.pts ELSE n
    BY <1>0, <2>1, PtsWorks
  <2> HIDE DEF d
  <2> QED BY <1>0, <1>3, <2>2 DEF Same, Advances, d
<1> QED BY <1>0, <1>1, <1>2, <1>3

\* A short message works when the next event is not in the tree yet: the
\* assertion of bl_do_edit_message does not fail.
LEMMA ShortMessageWorks ==
  ASSUME LogOK, NEW c, Good(c), Owns(c), NEW n \in DOMAIN log
  PROVE  LET d == WorkShortMessage(c, n)
         IN /\ Works(c, d, {n}) /\ d.pending = c.pending
            /\ Hole(c, d) \/ Advances(c, d, n)
<1> DEFINE d == WorkShortMessage(c, n)
<1>a. c \in Store /\ c.pts \in Id \cup {0}
  BY DEF Good, Store
<1>b. n \in Id /\ Id \subseteq Int
  BY LogNumbers, Numbers
<1>0. c.pts \in Int /\ n \in Int
  BY <1>a, <1>b
<1>1. CASE c.locked \/ n < c.pts + 1
  <2>1. d = c
    BY <1>0, <1>1 DEF WorkShortMessage, Check
  <2>2. Same(c, c) /\ Hole(c, c)
    BY DEF Same, Hole
  <2> HIDE DEF d
  <2> QED BY <2>1, <2>2, SameWorks DEF Works, d
<1>2. CASE ~c.locked /\ n > c.pts + 1
  <2>1. d = [c EXCEPT !.locked = TRUE]
    BY <1>0, <1>2 DEF WorkShortMessage, Check, GetDifference
  <2>2. /\ Works(c, d, {}) /\ Keeps(c, d) /\ Same(c, d)
        /\ d.pts = c.pts /\ d.locked
    BY <2>1, LockWorks
  <2> HIDE DEF d
  <2> QED BY <2>2 DEF Works, Hole, Same, d
<1>3. CASE ~c.locked /\ n = c.pts + 1 /\ c.tree[n] = NoMessage
  <2>1. WorkShortMessage(c, n) = WorkNewMessage(c, n)
    BY <1>0, <1>3 DEF WorkShortMessage, WorkNewMessage, Check, ById
  <2> QED BY <2>1, NewMessageWorks
<1>4. CASE ~c.locked /\ n = c.pts + 1 /\ c.tree[n] # NoMessage
  <2>1. d = [c EXCEPT !.again = TRUE]
    BY <1>0, <1>4 DEF WorkShortMessage, Check, ById
  <2>2. Good(d) /\ Same(c, d) /\ d.pts = c.pts /\ d.locked = c.locked
    BY <2>1, Ending
  <2> HIDE DEF d
  <2>3. Works(c, d, {})
    BY <2>2, SameWorks
  <2> QED BY <2>2, <2>3 DEF Works, Hole, Same, d
<1> QED BY <1>0, <1>1, <1>2, <1>3, <1>4

\* updateMessageID: the message is no longer pending, unless a difference is
\* under way; then the update is dropped.
LEMMA MessageIdWorks ==
  ASSUME LogOK, NEW c, Good(c), Owns(c), NEW r \in RandomId,
         NEW n \in DOMAIN log, log[n].from = r
  PROVE  LET d == WorkMessageId(c, r, n)
         IN /\ Works(c, d, {n}) /\ Keeps(c, d)
            /\ d.pts = c.pts /\ d.locked = c.locked
            /\ d.pending = IF c.locked THEN c.pending ELSE c.pending \ {r}
<1> DEFINE d == WorkMessageId(c, r, n)
           m == ByRandom(c, r)
<1>1. m \in {NoMessage} \cup (c.live \cap {r}) /\ (r \in c.pending => m = r)
  BY Finding
<1> HIDE DEF m
<1>2. CASE c.locked \/ m = NoMessage \/ m \notin c.pending
  <2>1. d = c
    BY <1>2 DEF WorkMessageId, m
  <2>2. r \in c.pending => c.locked
    BY <1>1, <1>2, Numbers
  <2>3. Works(c, c, {}) /\ Keeps(c, c)
    BY SameWorks DEF Same
  <2> HIDE DEF d
  <2> QED BY <2>1, <2>2, <2>3 DEF Works, d
<1>3. CASE ~(c.locked \/ m = NoMessage \/ m \notin c.pending)
  <2> DEFINE at == [x \in {m} |-> n]
  <2>1. d = SetMsgId(c, {m}, at)
    BY <1>3 DEF WorkMessageId, m
  <2>2. m = r /\ {m} \in SUBSET c.pending /\ at \in [{m} -> DOMAIN log]
        /\ \A x \in {m} : log[at[x]].from = x
    BY <1>1, <1>3
  <2>3. {at[x] : x \in {m}} = {n}
    OBVIOUS
  <2> HIDE DEF at, d
  <2>a. RenamedWell(c, d, {m}, at)
    BY <2>1, <2>2, RenameWorks
  <2>4. /\ Works(c, d, {at[x] : x \in {m}}) /\ Keeps(c, d)
        /\ d.pending = c.pending \ {m}
        /\ d.pts = c.pts /\ d.locked = c.locked
    BY <2>a DEF RenamedWell
  <2> QED BY <1>3, <2>2, <2>3, <2>4 DEF d
<1> QED BY <1>2, <1>3

\* updateMessageID and updateNewMessage: pts does not pass a pending message.
LEMMA UpdatesWork ==
  ASSUME LogOK, NEW c, Good(c), Owns(c), NEW r \in RandomId,
         NEW n \in DOMAIN log, log[n].from = r
  PROVE  LET d == WorkUpdates(c, r, n)
         IN /\ Works(c, d, {n})
            /\ c.locked => d.locked
            /\ \/ d.pts = c.pts
               \/ ~c.locked /\ n = c.pts + 1 /\ d.pts = n /\ r \notin d.pending
<1> DEFINE d == WorkMessageId(c, r, n)
           e == WorkNewMessage(d, n)
<1>1. WorkUpdates(c, r, n) = e
  BY DEF WorkUpdates
<1> HIDE DEF d
<1>2. /\ Works(c, d, {n})
      /\ d.pts = c.pts /\ d.locked = c.locked
      /\ d.pending = IF c.locked THEN c.pending ELSE c.pending \ {r}
  BY MessageIdWorks DEF d
<1>3. Good(d) /\ Owns(d)
  BY <1>2 DEF Works
<1> HIDE DEF e
<1>4. /\ Works(d, e, {n}) /\ e.pending = d.pending
      /\ Hole(d, e) \/ (Advances(d, e, n) /\ e.tree[n] # NoMessage)
  BY <1>3, NewMessageWorks DEF e
<1>5. Works(c, e, {n})
  BY <1>2, <1>4 DEF Works
<1> QED BY <1>1, <1>2, <1>4, <1>5 DEF Hole, Advances

\* What the answer to a message that was sent promises.
OwnWorks(c, d, n, r) ==
  /\ Works(c, d, {n})
  /\ c.locked => d.locked
  /\ \/ d.pts = c.pts
     \/ ~c.locked /\ n = c.pts + 1 /\ d.pts = n /\ r \notin d.pending

\* updateShortSentMessage: nobody has the id yet, so that the message is not
\* freed under the handler; and pts does not pass it while it is pending.
LEMMA ShortSentWorks ==
  ASSUME LogOK, NEW c, Good(c), Owns(c), NEW r \in RandomId,
         NEW n \in DOMAIN log, log[n].from = r, c.tree[n] = NoMessage,
         NEW intact \in BOOLEAN
  PROVE  OwnWorks(c, WorkShortSent(c, Extra(c, r), n, intact), n, r)
<1> DEFINE m == Extra(c, r)
           d == WorkShortSent(c, m, n, intact)
<1>a. c \in Store /\ c.pts \in Id \cup {0}
  BY DEF Good, Store
<1>b. n \in Id /\ Id \subseteq Int
  BY LogNumbers, Numbers
<1>0. c.pts \in Int /\ n \in Int
  BY <1>a, <1>b
<1>1. m = NoMessage \/ (m = r /\ r \in c.live /\ c.id[r] = r)
  BY Finding DEF Extra
<1>2. m = NoMessage \/ (m = r /\ r \in c.pending)
  BY <1>1, Numbers DEF Good, Named
<1> HIDE DEF m
<1>3. CASE c.locked \/ n < c.pts + 1 \/ (n = c.pts + 1 /\ m = NoMessage)
  <2>1. d = c
    BY <1>0, <1>3 DEF WorkShortSent, Check
  <2>2. Works(c, c, {}) /\ Keeps(c, c)
    BY SameWorks DEF Same
  <2> HIDE DEF d
  <2> QED BY <2>1, <2>2 DEF Works, OwnWorks, d, m
<1>4. CASE ~c.locked /\ n > c.pts + 1
  <2>1. d = [c EXCEPT !.locked = TRUE]
    BY <1>0, <1>4 DEF WorkShortSent, Check, GetDifference
  <2>2. /\ Works(c, d, {}) /\ d.pts = c.pts /\ d.locked
    BY <2>1, LockWorks
  <2> HIDE DEF d
  <2> QED BY <2>2 DEF Works, OwnWorks, d, m
<1>5. CASE ~c.locked /\ n = c.pts + 1 /\ m # NoMessage
  <2> DEFINE at == [x \in {m} |-> n]
             e == SetMsgId(c, {m}, at)
  <2>1. m = r /\ {m} \in SUBSET c.pending /\ at \in [{m} -> DOMAIN log]
        /\ \A x \in {m} : log[at[x]].from = x
    BY <1>2, <1>5
  <2>2. {at[x] : x \in {m}} = {n} /\ Freed(c, {m}, at) = {}
    BY DEF Freed
  <2>3. m \in c.live
    BY <1>1, <1>5
  <2>4. e = SetMsgId(c, {m}, at)
    OBVIOUS
  <2>5. d = IF m \in e.live \/ intact THEN SetPts(e, n)
            ELSE [e EXCEPT !.aborted = TRUE]
    BY <1>0, <1>5 DEF WorkShortSent, Check
  <2> HIDE DEF at, e, d
  <2>a. RenamedWell(c, e, {m}, at)
    BY <2>1, <2>4, RenameWorks
  <2>6. /\ Works(c, e, {at[x] : x \in {m}})
        /\ e.live = c.live \ Freed(c, {m}, at) /\ e.pending = c.pending \ {m}
        /\ e.pts = c.pts /\ e.locked = c.locked
    BY <2>a DEF RenamedWell
  <2>7. d = SetPts(e, n) /\ Good(e) /\ Owns(e) /\ Works(c, e, {n})
    BY <2>2, <2>3, <2>5, <2>6 DEF Works
  <2>8. /\ Works(e, d, {}) /\ Same(e, d)
        /\ d.pts = IF e.locked \/ n <= e.pts THEN e.pts ELSE n
    BY <1>b, <2>7, PtsWorks
  <2>9. Works(c, d, {n})
    BY <2>7, <2>8 DEF Works
  <2>10. d.pts = n /\ r \notin d.pending
    BY <1>0, <1>5, <2>1, <2>6, <2>8 DEF Same
  <2> QED BY <1>5, <2>9, <2>10 DEF OwnWorks, d, m
<1> QED BY <1>0, <1>3, <1>4, <1>5

\* delete_msg_on_answer: pts moves by the one event that was counted, or not.
LEMMA DeletedWorks ==
  ASSUME LogOK, NEW c, Good(c), Owns(c), NEW k \in Message,
         NEW n \in 0 .. Len(log), NEW count \in {0, 1}
  PROVE  LET d == WorkDeleted(c, k, n, count)
         IN /\ Works(c, d, {})
            /\ c.locked => d.locked
            /\ \/ d.pts = c.pts
               \/ ~c.locked /\ count = 1 /\ n = c.pts + 1 /\ d.pts = n
<1> DEFINE m == ById(c, k)
           d == Delete(c, m)
           e == WorkDeleted(c, k, n, count)
<1>0. m \in c.live \cup {NoMessage}
  BY DEF Good, Agrees, ById
<1> HIDE DEF m
<1>1. Works(c, d, {}) /\ d.pts = c.pts /\ d.locked = c.locked
  BY <1>0, DeleteWorks
<1>2. e = CASE Check(d, n, count) = "next" -> SetPts(d, n)
            [] Check(d, n, count) = "hole" -> GetDifference(d)
            [] Check(d, n, count) \in {"duplicate", "busy"} -> d
  BY DEF WorkDeleted, m
<1> HIDE DEF d, e
<1>3. Good(d) /\ Owns(d)
  BY <1>1 DEF Works
<1>a. d \in Store /\ d.pts \in Id \cup {0}
  BY <1>3 DEF Good, Store
<1>b. Id \subseteq Int /\ n \in Int /\ n \in Id \cup {0}
  BY LogNumbers, Numbers DEF LogOK, Id
<1>e. Id \cup {0} \subseteq Int
  BY <1>b
<1>c. d.pts \in Int
  BY <1>a, <1>e, Zenon
<1>d. count = 0 \/ count = 1
  OBVIOUS
<1>4. d.pts \in Int /\ n \in Int /\ count \in Int
  BY <1>b, <1>c, <1>d
<1>5. CASE n = d.pts + count /\ ~d.locked
  <2>1. e = SetPts(d, n)
    BY <1>2, <1>4, <1>5 DEF Check
  <2>2. /\ Works(d, e, {}) /\ e.locked = d.locked
        /\ e.pts = IF d.locked \/ n <= d.pts THEN d.pts ELSE n
    BY <1>3, <1>b, <2>1, PtsWorks
  <2>3. Works(c, e, {})
    BY <1>1, <2>2 DEF Works
  <2> QED BY <1>1, <1>4, <1>5, <2>2, <2>3 DEF e
<1>6. CASE n > d.pts + count
  <2>1. e = [d EXCEPT !.locked = TRUE]
    BY <1>2, <1>4, <1>6 DEF Check, GetDifference
  <2>2. Works(d, e, {}) /\ e.pts = d.pts /\ e.locked
    BY <1>3, <2>1, LockWorks
  <2>3. Works(c, e, {})
    BY <1>1, <2>2 DEF Works
  <2> QED BY <1>1, <2>2, <2>3 DEF e
<1>7. CASE n < d.pts + count \/ (n = d.pts + count /\ d.locked)
  <2>1. e = d
    BY <1>2, <1>4, <1>7 DEF Check
  <2> QED BY <1>1, <2>1 DEF e
<1> QED BY <1>4, <1>5, <1>6, <1>7

\* get_difference_on_answer: pts moves to where the difference ends, and none
\* of this client's messages up to there is pending.
LEMMA DifferenceWorks ==
  ASSUME LogOK, NEW c, Good(c), Owns(c), NEW upto \in 0 .. Len(log),
         c.pts <= upto, NEW N \in SUBSET ((c.pts + 1) .. upto)
  PROVE  LET d == WorkDifference(c, N, upto)
         IN /\ Works(c, d, (c.pts + 1) .. upto)
            /\ d.pts = upto
            /\ \A n \in (c.pts + 1) .. upto : log[n].from \notin d.pending
<1> DEFINE E == (c.pts + 1) .. upto
           b == [c EXCEPT !.locked = FALSE]
           d == FetchAlloc(b, N)
           ids == Unsettled(d, E)
           Of(n) == ByRandom(d, log[n].from)
           R == {Of(n) : n \in ids}
           at == [m \in R |-> CHOOSE n \in ids : Of(n) = m]
           e == SetMsgId(d, R, at)
           f == SetPts(e, upto)
<1>a. c \in Store /\ c.pts \in Id \cup {0}
  BY DEF Good, Store
<1>b. Id \subseteq Int /\ upto \in Int /\ upto \in Id \cup {0}
  BY LogNumbers, Numbers DEF LogOK, Id
<1>c. c.pts \in Nat /\ upto \in Nat
  BY <1>a, LogNumbers DEF Id
<1>d. E \subseteq DOMAIN log /\ N \subseteq DOMAIN log /\ N \subseteq E
  BY <1>c, LogNumbers
<1>1. WorkDifference(c, N, upto) = f
  BY DEF WorkDifference
<1>2. \A n \in ids : /\ n \in E /\ log[n].from # NoMessage
                     /\ Of(n) \in d.pending
  BY DEF Unsettled
<1>3. \A n \in E : log[n].from # NoMessage /\ Of(n) \in d.pending => n \in ids
  BY DEF Unsettled
<1> HIDE DEF ids, E, b, d
<1>4. /\ Works(c, b, {}) /\ Same(c, b) /\ b.pts = c.pts /\ b.locked = FALSE
  BY LockWorks DEF b
<1>5. Good(b) /\ Owns(b)
  BY <1>4 DEF Works
<1>6. /\ Works(b, d, N) /\ d.pts = b.pts /\ d.locked = b.locked
  BY <1>5, <1>d, FetchWorks DEF d
<1>7. Good(d) /\ Owns(d)
  BY <1>6 DEF Works
<1>8. \A n \in E : log[n].from \in RandomId \cup {NoMessage}
  BY <1>d, LogNumbers DEF Event
<1>9. d.pending \subseteq RandomId /\ NoMessage \notin RandomId
  BY <1>7, Numbers DEF Good, Store, Message
<1>10. \A n \in ids : Of(n) = log[n].from
  BY <1>2, <1>7, <1>8, <1>9, Finding
<1>11. \A n \in E : log[n].from \in d.pending => n \in ids
  BY <1>3, <1>7, <1>8, <1>9, Finding
<1>12. R \in SUBSET d.pending
  BY <1>2
<1>13. \A m \in R : at[m] \in ids /\ Of(at[m]) = m
  OBVIOUS
<1>14. /\ at \in [R -> DOMAIN log]
       /\ \A m \in R : at[m] \in E /\ log[at[m]].from = m
  <2>1. \A m \in R : at[m] \in E /\ log[at[m]].from = m
    BY <1>2, <1>10, <1>13
  <2>2. \A m \in R : at[m] \in DOMAIN log
    BY <2>1, <1>d
  <2> QED BY <2>1, <2>2
<1>15. \A n \in E : log[n].from \in d.pending => log[n].from \in R
  BY <1>10, <1>11
<1> HIDE DEF R, at
<1>16. RenamedWell(d, e, R, at)
  BY <1>7, <1>12, <1>14, RenameWorks
<1> HIDE DEF e
<1>17. /\ Works(d, e, {at[m] : m \in R}) /\ e.pending = d.pending \ R
       /\ e.pts = d.pts /\ e.locked = d.locked
  BY <1>16 DEF RenamedWell
<1>18. Good(e) /\ Owns(e)
  BY <1>17 DEF Works
<1> HIDE DEF f
<1>19. /\ Works(e, f, {}) /\ Same(e, f)
       /\ f.pts = IF e.locked \/ upto <= e.pts THEN e.pts ELSE upto
  BY <1>18, <1>b, PtsWorks DEF f
<1>20. f.pts = upto
  BY <1>c, <1>4, <1>6, <1>17, <1>19
<1>21. \A n \in E : log[n].from \notin f.pending
  BY <1>15, <1>17, <1>19 DEF Same
<1>22. Works(c, f, E)
  <2>1. Works(d, e, E)
    BY <1>14, <1>17 DEF Works
  <2>2. Works(b, d, E)
    BY <1>d, <1>6 DEF Works
  <2> QED BY <2>1, <2>2, <1>4, <1>19 DEF Works
<1> QED BY <1>1, <1>20, <1>21, <1>22 DEF E, f

\* SentIsSettled, of any client c.
Settled(c) ==
  \A n \in DOMAIN log : n <= c.pts => log[n].from \notin c.pending

\* pts is an event of the log, and what the tree has beyond pts came with a
\* history or is this client's own.
Behind(c) ==
  /\ c.pts <= Len(log)
  /\ \A n \in DOMAIN log : c.tree[n] # NoMessage /\ n > c.pts =>
       n \in loaded \/ log[n].from # NoMessage

\* Nothing is announced that is not in the log; nothing of somebody else's
\* beyond pts.
Told ==
  /\ loaded \subseteq DOMAIN log
  /\ \A n \in Id \ DOMAIN log : announced[n] = 0
  /\ \A n \in DOMAIN log :
       n > tls.pts /\ log[n].from = NoMessage => announced[n] = 0

\* An answer says what is in the log.
Honest(a) ==
  /\ a.at \in 0 .. Len(log) /\ a.news \subseteq DOMAIN log
  /\ a.kind \in {"error", "sent", "updates"} => a.of \in RandomId
  /\ a.kind \in {"sent", "updates"} =>
       a.at \in DOMAIN log /\ log[a.at].from = a.of
  /\ a.kind = "delete" => a.of \in Message
  /\ a.kind = "delete" /\ a.count = 1 =>
       a.at \in DOMAIN log /\ log[a.at].kind = "deletion"

\* An answer still finds the client as it was when the answer was made: the
\* event of a message that was sent is beyond pts and not in the tree, and a
\* difference, which the lock waits for, has all that is missing from pts on.
Awaited(c, a) ==
  /\ a.kind \in {"sent", "updates"} =>
       a.at > c.pts /\ c.tree[a.at] = NoMessage
  /\ a.kind = "difference" =>
       /\ c.locked /\ c.pts <= a.at
       /\ a.news \subseteq (c.pts + 1) .. a.at
       /\ \A n \in (c.pts + 1) .. a.at :
            log[n].kind = "message" /\ ~log[n].gone => n \in a.news

\* Of the answers under way, a comes before b: the server answered in the order
\* of the events, so nothing before b brings the event of b's message, and
\* there is one difference at most.
InOrder(a, b) ==
  /\ b.kind \in {"sent", "updates"} =>
       /\ b.at \notin a.news
       /\ a.kind \in {"sent", "updates", "difference"} => a.at < b.at
  /\ ~(a.kind = "difference" /\ b.kind = "difference")

\* The answers under way are honest, awaited and in order.
Answered ==
  \A i \in DOMAIN answers :
    /\ Honest(answers[i]) /\ Awaited(tls, answers[i])
    /\ \A j \in 1 .. i - 1 : InOrder(answers[j], answers[i])

\* A deletion is asked for by an id that is one.
Asked == \A q \in requests : q.kind = "delete" => q.of \in Message

\* An event that deletes was made of no message.
Deletions ==
  \A n \in DOMAIN log : log[n].kind = "deletion" => log[n].from = NoMessage

\* The inductive invariant.  The store alone does not do: that a message
\* that was sent finds its id free rests on what the answers under way say,
\* and on their order.
IInv ==
  /\ Deletions
  /\ TypeOK /\ Good(tls) /\ Owns(tls) /\ Settled(tls) /\ Behind(tls)
  /\ Told /\ AnnouncedOnce /\ Answered /\ Asked

\* What TypeOK says of the store and the log.
LEMMA StoreTyped == ASSUME TypeOK PROVE LogOK /\ tls \in Store
  BY DEF TypeOK, LogOK, Store

(* What a step of the client has to show. *)

\* An answer that stays under way is awaited after events N were handled.
Remains(a, N) ==
  /\ a.kind \in {"sent", "updates"} => a.at \notin N /\ a.at > tls'.pts
  /\ a.kind = "difference" => tls'.locked /\ tls'.pts = tls.pts

\* The announcements keep up with pts: events that pts passes are announced
\* once unless a history brought them or they are gone, others not.
Heard ==
  /\ announced' \in [Id -> Nat]
  /\ \A n \in Id \ DOMAIN log : announced'[n] = announced[n]
  /\ \A n \in DOMAIN log : log[n].from = NoMessage =>
       /\ n > tls'.pts \/ n <= tls.pts => announced'[n] = announced[n]
       /\ n > tls.pts /\ n <= tls'.pts /\ log[n].kind = "message" =>
            /\ announced'[n] <= 1
            /\ n \notin loaded' /\ ~log[n].gone => announced'[n] = 1

\* A step of the client keeps the invariant if the handler works, pts does not
\* pass a pending message, the other answers stay awaited and the
\* announcements keep up.
LEMMA ClientStep ==
  ASSUME IInv, log' = log, requests' = requests,
         NEW N \in SUBSET DOMAIN log,
         Works(tls, tls', N), tls.pts <= tls'.pts, tls'.pts <= Len(log),
         loaded \subseteq loaded', loaded' \subseteq DOMAIN log,
         \A n \in DOMAIN log : n > tls.pts /\ n <= tls'.pts =>
           log[n].from \notin tls'.pending,
         \A n \in N : n > tls'.pts =>
           n \in loaded' \/ log[n].from # NoMessage,
         \/ answers' = answers /\ \A i \in DOMAIN answers :
                                    Remains(answers[i], N)
         \/ /\ answers # <<>> /\ answers' = Tail(answers)
            /\ \A i \in DOMAIN answers : i # 1 => Remains(answers[i], N),
         Heard
  PROVE  IInv'
<1>1. LogOK /\ tls \in Store /\ Good(tls) /\ Owns(tls) /\ TypeOK
  BY StoreTyped DEF IInv
<1>2. Good(tls') /\ Owns(tls') /\ tls' \in Store
  BY DEF Works, Good
<1>3. /\ Good(tls)' /\ Owns(tls)'
  BY <1>2 DEF Good, Owns, Agrees, Named, Store
<1>4. tls.pts \in Id \cup {0} /\ tls'.pts \in Id \cup {0}
  BY <1>1, <1>2 DEF Store
<1>5. /\ Id \subseteq Int /\ DOMAIN log \subseteq Id
      /\ tls.pts \in Int /\ tls'.pts \in Int /\ Len(log) \in Nat
  BY <1>1, <1>4, LogNumbers, Numbers
<1>6. Settled(tls)'
  <2>1. ASSUME NEW n \in DOMAIN log, n <= tls'.pts
        PROVE  log[n].from \notin tls'.pending
    <3>1. n \in Int
      BY <1>5
    <3>2. CASE n <= tls.pts
      BY <3>2 DEF IInv, Settled, Works
    <3>3. CASE n > tls.pts
      BY <2>1, <3>3
    <3> QED BY <1>5, <3>1, <3>2, <3>3
  <2> QED BY <2>1 DEF Settled
<1>7. Behind(tls)'
  <2>1. ASSUME NEW n \in DOMAIN log, tls'.tree[n] # NoMessage, n > tls'.pts
        PROVE  n \in loaded' \/ log[n].from # NoMessage
    <3>1. n \in Int /\ n \in Id /\ n > tls.pts
      BY <1>5, <2>1
    <3>2. tls.tree[n] # NoMessage \/ n \in N
      BY <2>1, <3>1 DEF Works
    <3> QED BY <2>1, <3>1, <3>2 DEF IInv, Behind
  <2> QED BY <2>1 DEF Behind
<1>8. ASSUME NEW a, Honest(a) PROVE Honest(a)'
  BY <1>8 DEF Honest
<1>9. ASSUME NEW a, Honest(a), Awaited(tls, a), Remains(a, N)
      PROVE  Awaited(tls, a)'
  <2>1. ASSUME a.kind \in {"sent", "updates"}
        PROVE  a.at > tls'.pts /\ tls'.tree[a.at] = NoMessage
    <3>1. a.at \in Id
      BY <1>5, <1>9, <2>1 DEF Honest
    <3> QED BY <1>9, <2>1, <3>1 DEF Awaited, Remains, Works
  <2>2. ASSUME a.kind = "difference"
        PROVE  /\ tls'.locked /\ tls'.pts <= a.at
               /\ a.news \subseteq (tls'.pts + 1) .. a.at
               /\ \A n \in (tls'.pts + 1) .. a.at :
                    log[n].kind = "message" /\ ~log[n].gone => n \in a.news
    BY <1>9, <2>2 DEF Awaited, Remains
  <2> QED BY <2>1, <2>2 DEF Awaited
<1>10. answers \in Seq(Answer)
  BY <1>1 DEF TypeOK
<1>11. answers' \in Seq(Answer)
  BY <1>10
<1>12. \E s \in {0, 1} : \A i \in DOMAIN answers' :
         /\ i \in Nat /\ i + s \in DOMAIN answers
         /\ answers'[i] = answers[i + s] /\ Remains(answers[i + s], N)
  <2>1. CASE answers' = answers /\ \A i \in DOMAIN answers :
                                     Remains(answers[i], N)
    <3>1. \A i \in DOMAIN answers : i \in Nat /\ i + 0 = i
      BY <1>10
    <3> QED BY <2>1, <3>1
  <2>2. CASE /\ answers # <<>> /\ answers' = Tail(answers)
             /\ \A i \in DOMAIN answers : i # 1 => Remains(answers[i], N)
    <3>1. \A i \in DOMAIN answers' :
            /\ i \in Nat /\ i + 1 \in DOMAIN answers /\ i + 1 # 1
            /\ answers'[i] = answers[i + 1]
      BY <1>10, <2>2
    <3> QED BY <2>2, <3>1
  <2> QED BY <2>1, <2>2
<1>13. PICK s \in {0, 1} : \A i \in DOMAIN answers' :
         /\ i \in Nat /\ i + s \in DOMAIN answers
         /\ answers'[i] = answers[i + s] /\ Remains(answers[i + s], N)
  BY <1>12
<1>14. \A i \in DOMAIN answers :
         /\ Honest(answers[i]) /\ Awaited(tls, answers[i])
         /\ \A j \in 1 .. i - 1 : InOrder(answers[j], answers[i])
  BY DEF IInv, Answered
<1>15. Answered'
  <2>1. ASSUME NEW i \in DOMAIN answers'
        PROVE  /\ Honest(answers[i])' /\ Awaited(tls, answers[i])'
               /\ \A j \in 1 .. i - 1 : InOrder(answers'[j], answers'[i])
    <3>1. PICK a : a = answers'[i]
      OBVIOUS
    <3>2. Honest(a) /\ Awaited(tls, a) /\ Remains(a, N)
      BY <3>1, <1>13, <1>14
    <3>3. Honest(a)' /\ Awaited(tls, a)'
      BY <3>2, <1>8, <1>9
    <3>4. Honest(answers[i])' /\ Awaited(tls, answers[i])'
      BY <3>1, <3>3 DEF Honest, Awaited
    <3>5. ASSUME NEW j \in 1 .. i - 1
          PROVE  InOrder(answers'[j], answers'[i])
      <4>1. i \in Nat /\ s \in Int /\ j \in DOMAIN answers'
            /\ j + s \in 1 .. (i + s) - 1
        BY <1>11, <1>13
      <4> QED BY <4>1, <1>13, <1>14
    <3> QED BY <3>4, <3>5
  <2>2. ASSUME NEW i \in DOMAIN answers', NEW j \in 1 .. i - 1
        PROVE  InOrder(answers[j], answers[i])'
    <3>1. InOrder(answers'[j], answers'[i])
      BY <2>1
    <3> QED BY <3>1 DEF InOrder
  <2> QED BY <2>1, <2>2 DEF Answered
<1>16. Told'
  <2>1. loaded' \subseteq DOMAIN log /\ \A n \in Id \ DOMAIN log :
          announced'[n] = 0
    BY DEF IInv, Told, Heard
  <2>2. ASSUME NEW n \in DOMAIN log, n > tls'.pts, log[n].from = NoMessage
        PROVE  announced'[n] = 0
    <3>1. n > tls.pts
      BY <1>5, <2>2
    <3> QED BY <2>2, <3>1 DEF IInv, Told, Heard
  <2> QED BY <2>1, <2>2 DEF Told
<1>17. AnnouncedOnce'
  <2>1. ASSUME NEW n \in DOMAIN log, log[n].kind = "message",
               log[n].from = NoMessage
        PROVE  /\ announced'[n] <= 1
               /\ n <= tls'.pts /\ n \notin loaded' /\ ~log[n].gone =>
                    announced'[n] = 1
    <3>1. n \in Int /\ n \in Id
      BY <1>5
    <3>2. CASE n <= tls.pts
      BY <2>1, <3>2 DEF IInv, AnnouncedOnce, Heard
    <3>3. CASE n > tls.pts /\ n <= tls'.pts
      BY <2>1, <3>3 DEF Heard
    <3>4. CASE n > tls'.pts
      <4>1. announced'[n] = announced[n] /\ announced[n] <= 1
        BY <2>1, <3>4 DEF IInv, AnnouncedOnce, Heard
      <4> QED BY <3>1, <3>4, <4>1, <1>5
    <3> QED BY <1>5, <3>1, <3>2, <3>3, <3>4
  <2> QED BY <2>1 DEF AnnouncedOnce
<1>18. Asked'
  BY DEF IInv, Asked
<1>19. TypeOK'
  <2>1. /\ log' \in Seq(Event) /\ Len(log') <= MaxId
        /\ requests' \subseteq Request
    BY <1>1 DEF TypeOK
  <2>2. loaded' \subseteq Id /\ announced' \in [Id -> Nat]
    BY <1>5 DEF Heard
  <2> QED BY <1>2, <1>11, <2>1, <2>2 DEF TypeOK, Store
<1>20. Deletions'
  BY DEF IInv, Deletions
<1> QED
  BY <1>3, <1>6, <1>7, <1>15, <1>16, <1>17, <1>18, <1>19, <1>20 DEF IInv

\* The log grows, and an event stays what it is, except that it may be deleted.
LogGrows ==
  /\ log' \in Seq(Event) /\ Len(log) <= Len(log') /\ Len(log') <= MaxId
  /\ \A n \in DOMAIN log : /\ log'[n].kind = log[n].kind
                           /\ log'[n].from = log[n].from
                           /\ log[n].gone => log'[n].gone

\* A step of the server keeps the invariant if the log grows, and the answer it
\* adds is honest, awaited and in order.
LEMMA ServerStep ==
  ASSUME IInv, LogGrows, UNCHANGED <<tls, loaded, announced>>,
         requests' \subseteq Request, Asked', Deletions',
         \/ answers' = answers
         \/ \E a \in Answer : /\ answers' = Append(answers, a)
                              /\ Honest(a)' /\ Awaited(tls, a)'
                              /\ \A i \in DOMAIN answers :
                                   InOrder(answers[i], a)
  PROVE  IInv'
<1>1. LogOK /\ tls \in Store /\ Good(tls) /\ Owns(tls) /\ TypeOK
  BY StoreTyped DEF IInv
<1>2. /\ Id \subseteq Int /\ DOMAIN log \subseteq Id
      /\ DOMAIN log = 1 .. Len(log) /\ Len(log) \in Nat
  BY <1>1, LogNumbers, Numbers
<1>3. /\ DOMAIN log' = 1 .. Len(log') /\ Len(log') \in Nat
      /\ DOMAIN log' \subseteq Id /\ DOMAIN log \subseteq DOMAIN log'
      /\ MaxId \in Nat
  BY <1>2, MessagesAssumption DEF LogGrows, Id
<1>4. tls.pts \in Int /\ tls.pts <= Len(log)
  <2>1. tls.pts \in Id \cup {0}
    BY <1>1 DEF Store
  <2>2. Id \cup {0} \subseteq Int
    BY <1>2
  <2>3. tls.pts \in Int
    BY <2>1, <2>2, Zenon
  <2> QED BY <2>3 DEF IInv, Behind
<1>5. Good(tls)'
  BY <1>1 DEF Good, Agrees, Named, Store
<1>6. Owns(tls)'
  <2>1. \A m \in tls.live \cap Id : m \in DOMAIN log'
    BY <1>1, <1>3 DEF Owns
  <2>2. \A r \in (tls.live \cap RandomId) \ tls.pending :
          tls.id[r] \in DOMAIN log' /\ log'[tls.id[r]].from = r
    BY <1>1, <1>3 DEF Owns, LogGrows
  <2> QED BY <2>1, <2>2 DEF Owns
<1>7. \A n \in DOMAIN log' : n \in DOMAIN log \/ n > tls.pts
  BY <1>2, <1>3, <1>4
<1>8. Settled(tls)'
  <2>1. ASSUME NEW n \in DOMAIN log', n <= tls.pts
        PROVE  log'[n].from \notin tls.pending
    <3>1. n \in DOMAIN log
      BY <2>1, <1>2, <1>3, <1>4
    <3> QED BY <2>1, <3>1 DEF LogGrows, IInv, Settled
  <2> QED BY <2>1 DEF Settled
<1>9. \A n \in Id : tls.tree[n] # NoMessage => n \in DOMAIN log
  <2> SUFFICES ASSUME NEW n \in Id, tls.tree[n] # NoMessage
               PROVE  n \in DOMAIN log
    OBVIOUS
  <2> DEFINE m == tls.tree[n]
  <2>1. m \in tls.live /\ tls.id[m] = n /\ m \in Message
    BY <1>1, Numbers DEF Good, Agrees, Store
  <2>2. CASE m \in Id
    BY <1>1, <2>1, <2>2 DEF Good, Named, Owns
  <2>3. CASE m \in RandomId
    <3>1. m \notin tls.pending
      BY <1>1, <2>1, <2>3, Numbers DEF Good, Named
    <3> QED BY <1>1, <2>1, <2>3, <3>1 DEF Owns
  <2> QED BY <2>1, <2>2, <2>3, Numbers
<1>10. Behind(tls)'
  <2>1. ASSUME NEW n \in DOMAIN log', tls.tree[n] # NoMessage, n > tls.pts
        PROVE  n \in loaded \/ log'[n].from # NoMessage
    <3>1. n \in DOMAIN log
      BY <1>3, <1>9, <2>1
    <3> QED BY <2>1, <3>1 DEF IInv, Behind, LogGrows
  <2>2. tls.pts <= Len(log')
    BY <1>2, <1>3, <1>4 DEF LogGrows
  <2> QED BY <2>1, <2>2 DEF Behind
<1>11. Told'
  <2>1. loaded \subseteq DOMAIN log'
    BY <1>3 DEF IInv, Told
  <2>2. \A n \in Id \ DOMAIN log' : announced[n] = 0
    BY <1>3 DEF IInv, Told
  <2>3. ASSUME NEW n \in DOMAIN log', n > tls.pts, log'[n].from = NoMessage
        PROVE  announced[n] = 0
    <3>1. CASE n \in DOMAIN log
      BY <2>3, <3>1 DEF IInv, Told, LogGrows
    <3>2. CASE n \notin DOMAIN log
      BY <1>3, <3>2 DEF IInv, Told
    <3> QED BY <3>1, <3>2
  <2> QED BY <2>1, <2>2, <2>3 DEF Told
<1>12. AnnouncedOnce'
  <2>1. ASSUME NEW n \in DOMAIN log', log'[n].kind = "message",
               log'[n].from = NoMessage
        PROVE  /\ announced[n] <= 1
               /\ n <= tls.pts /\ n \notin loaded /\ ~log'[n].gone =>
                    announced[n] = 1
    <3>1. CASE n \in DOMAIN log
      BY <2>1, <3>1 DEF IInv, AnnouncedOnce, LogGrows
    <3>2. CASE n \notin DOMAIN log
      <4>1. announced[n] = 0 /\ ~(n <= tls.pts)
        BY <1>2, <1>3, <1>4, <3>2 DEF IInv, Told
      <4> QED BY <4>1
    <3> QED BY <3>1, <3>2
  <2> QED BY <2>1 DEF AnnouncedOnce
<1>13. ASSUME NEW a, Honest(a) PROVE Honest(a)'
  <2>1. a.at \in 0 .. Len(log') /\ a.news \subseteq DOMAIN log'
    BY <1>2, <1>3, <1>13 DEF Honest, LogGrows
  <2> QED BY <1>3, <1>13, <2>1 DEF Honest, LogGrows
<1>14. ASSUME NEW a, Honest(a), Awaited(tls, a) PROVE Awaited(tls, a)'
  <2>1. ASSUME a.kind = "difference", NEW n \in (tls.pts + 1) .. a.at,
               log'[n].kind = "message", ~log'[n].gone
        PROVE  n \in a.news
    <3>1. n \in 1 .. Len(log) \/ n <= 0
      BY <1>2, <1>4, <1>14, <2>1 DEF Honest
    <3>2. tls.pts >= 0
      <4>1. tls.pts \in Id \cup {0}
        BY <1>1 DEF Store
      <4> QED BY <4>1 DEF Id
    <3>3. n \in DOMAIN log
      BY <1>2, <1>4, <3>1, <3>2
    <3> QED BY <1>14, <2>1, <3>3 DEF Awaited, LogGrows
  <2> QED BY <1>14, <2>1 DEF Awaited
<1>15. answers \in Seq(Answer)
  BY <1>1 DEF TypeOK
<1>16. \A i \in DOMAIN answers :
         /\ Honest(answers[i]) /\ Awaited(tls, answers[i])
         /\ \A j \in 1 .. i - 1 : InOrder(answers[j], answers[i])
  BY DEF IInv, Answered
<1>17. answers' \in Seq(Answer) /\ Answered'
  <2>1. CASE answers' = answers
    <3>1. ASSUME NEW i \in DOMAIN answers
          PROVE  /\ Honest(answers[i])' /\ Awaited(tls, answers[i])'
                 /\ \A j \in 1 .. i - 1 : InOrder(answers[j], answers[i])'
      <4>1. PICK a : a = answers[i]
        OBVIOUS
      <4>2. Honest(a)' /\ Awaited(tls, a)'
        BY <4>1, <1>13, <1>14, <1>16
      <4>3. Honest(answers[i])' /\ Awaited(tls, answers[i])'
        BY <2>1, <4>1, <4>2 DEF Honest, Awaited
      <4> QED BY <2>1, <4>3, <1>16 DEF InOrder
    <3> QED BY <1>15, <2>1, <3>1 DEF Answered
  <2>2. CASE \E a \in Answer : /\ answers' = Append(answers, a)
                               /\ Honest(a)' /\ Awaited(tls, a)'
                               /\ \A i \in DOMAIN answers :
                                    InOrder(answers[i], a)
    <3>1. PICK b \in Answer : /\ answers' = Append(answers, b)
                              /\ Honest(b)' /\ Awaited(tls, b)'
                              /\ \A i \in DOMAIN answers :
                                   InOrder(answers[i], b)
      BY <2>2
    <3>2. /\ answers' \in Seq(Answer)
          /\ DOMAIN answers = 1 .. Len(answers) /\ Len(answers) \in Nat
          /\ DOMAIN answers' = 1 .. Len(answers) + 1
          /\ \A i \in DOMAIN answers : answers'[i] = answers[i]
          /\ answers'[Len(answers) + 1] = b
      BY <1>15, <3>1
    <3>3. ASSUME NEW i \in DOMAIN answers'
          PROVE  /\ Honest(answers[i])' /\ Awaited(tls, answers[i])'
                 /\ \A j \in 1 .. i - 1 : InOrder(answers'[j], answers'[i])
      <4>1. PICK a : a = answers'[i]
        OBVIOUS
      <4>2. CASE i \in DOMAIN answers
        <5>1. Honest(a)' /\ Awaited(tls, a)'
          BY <4>1, <4>2, <3>2, <1>13, <1>14, <1>16
        <5>2. \A j \in 1 .. i - 1 : j \in DOMAIN answers
          BY <3>2, <4>2
        <5>3. \A j \in 1 .. i - 1 : InOrder(answers'[j], answers'[i])
          BY <5>2, <4>2, <3>2, <1>16
        <5> QED BY <4>1, <5>1, <5>3 DEF Honest, Awaited
      <4>3. CASE i = Len(answers) + 1
        <5>1. a = b /\ \A j \in 1 .. i - 1 : j \in DOMAIN answers
          BY <4>1, <4>3, <3>2
        <5>2. Honest(a)' /\ Awaited(tls, a)'
          BY <5>1, <3>1
        <5>3. \A j \in 1 .. i - 1 : InOrder(answers'[j], answers'[i])
          BY <5>1, <4>1, <3>1, <3>2
        <5> QED BY <4>1, <5>2, <5>3 DEF Honest, Awaited
      <4> QED BY <3>2, <4>2, <4>3
    <3>4. \A i \in DOMAIN answers' : \A j \in 1 .. i - 1 :
            InOrder(answers[j], answers[i])'
      BY <3>3 DEF InOrder
    <3> QED BY <3>2, <3>3, <3>4 DEF Answered
  <2> QED BY <2>1, <2>2
<1>18. TypeOK'
  BY <1>1, <1>17 DEF TypeOK, LogGrows
<1> QED
  BY <1>5, <1>6, <1>8, <1>10, <1>11, <1>12, <1>17, <1>18 DEF IInv

\* The empty store and the empty log.
LEMMA InitOK == Init => IInv
<1> SUFFICES ASSUME Init PROVE IInv
  OBVIOUS
<1>1. tls = EmptyStore /\ log = <<>> /\ requests = {} /\ answers = <<>>
      /\ loaded = {} /\ announced = [n \in Id |-> 0]
  BY DEF Init
<1>2. /\ tls.live = {} /\ tls.id = [m \in Message |-> m] /\ tls.pending = {}
      /\ tls.tree = [k \in Message |-> NoMessage]
      /\ tls.unsent = [k \in Message |-> NoMessage]
      /\ tls.random = [r \in RandomId |-> NoMessage]
      /\ tls.temp = {} /\ tls.use = {} /\ tls.last = {} /\ tls.pts = 0
      /\ tls.locked = FALSE /\ tls.aborted = FALSE /\ tls.again = FALSE
  BY <1>1 DEF EmptyStore
<1>3. tls \in Store
  BY <1>1 DEF EmptyStore, Store, NoMessage
<1>4. Good(tls)
  BY <1>2, <1>3, Numbers DEF Good, Agrees, Named
<1>5. TypeOK
  <2>1. log \in Seq(Event) /\ Len(log) <= MaxId
    BY <1>1, MessagesAssumption
  <2>2. requests \subseteq Request /\ answers \in Seq(Answer)
    BY <1>1
  <2>3. loaded \subseteq Id /\ announced \in [Id -> Nat]
    BY <1>1
  <2> QED BY <1>3, <2>1, <2>2, <2>3 DEF TypeOK, Store
<1>6. Owns(tls) /\ Settled(tls)
  BY <1>1, <1>2 DEF Owns, Settled
<1>7. Behind(tls) /\ Told /\ AnnouncedOnce
  BY <1>1, <1>2 DEF Behind, Told, AnnouncedOnce
<1>8. Answered /\ Asked
  BY <1>1 DEF Answered, Asked
<1>9. Deletions
  BY <1>1 DEF Deletions
<1> QED BY <1>9, <1>4, <1>5, <1>6, <1>7, <1>8 DEF IInv

\* A log that does not change grows.
LEMMA LogStays ==
  ASSUME IInv, log' = log
  PROVE  LogGrows
<1>1. LogOK
  BY StoreTyped DEF IInv
<1> QED BY <1>1 DEF LogGrows, LogOK

\* tgl_do_get_history and tgl_do_delete_msg put a request on its way.
LEMMA AskOK ==
  ASSUME IInv, GetHistory \/ DeleteMessage
  PROVE  IInv'
<1>1. UNCHANGED <<tls, log, answers, loaded, announced>>
  BY DEF GetHistory, DeleteMessage, Ask
<1>2. \E q \in Request : /\ requests' = requests \cup {q}
                         /\ q.kind = "delete" => q.of \in Message
  <2>1. CASE GetHistory
    <3> DEFINE q == [kind |-> "history", of |-> NoMessage]
    <3>1. q \in Request
      BY DEF Request
    <3> QED BY <2>1, <3>1 DEF GetHistory, Ask
  <2>2. CASE DeleteMessage
    <3>1. PICK m \in tls.live : Ask("delete", tls.id[m])
      BY <2>2 DEF DeleteMessage
    <3>2. tls.id[m] \in Message
      BY DEF IInv, Good, Store
    <3> DEFINE q == [kind |-> "delete", of |-> tls.id[m]]
    <3>3. q \in Request
      BY <3>2 DEF Request
    <3> QED BY <3>1, <3>2, <3>3 DEF Ask
  <2> QED BY <2>1, <2>2
<1>3. requests' \subseteq Request /\ Asked'
  BY <1>2 DEF IInv, TypeOK, Asked
<1>4. LogGrows /\ Deletions'
  BY <1>1, LogStays DEF IInv, Deletions
<1> QED BY <1>1, <1>3, <1>4, ServerStep

\* tgl_do_send_message: the random id is new to every index and to the server.
LEMMA SendOK ==
  ASSUME IInv, SendMessage
  PROVE  IInv'
<1>1. PICK r \in RandomId :
        /\ r \notin tls.live
        /\ \A n \in 1 .. Len(log) : log[n].from # r
        /\ tls' = CreatePending(tls, r)
        /\ requests' = requests \cup {[kind |-> "send", of |-> r]}
  BY DEF SendMessage
<1>2. UNCHANGED <<log, answers, loaded, announced>>
  BY DEF SendMessage
<1>3. /\ Good(tls')
      /\ tls'.live = tls.live \cup {r} /\ tls'.pending = tls.pending \cup {r}
      /\ \A x \in tls.live : tls'.id[x] = tls.id[x]
      /\ \A k \in Id : tls'.tree[k] = tls.tree[k]
      /\ tls'.pts = tls.pts /\ tls'.locked = tls.locked
  BY <1>1, Creating DEF IInv
<1>4. DOMAIN log \subseteq Id /\ DOMAIN log = 1 .. Len(log)
  BY StoreTyped, LogNumbers DEF IInv
<1>5. Good(tls)'
  BY <1>3 DEF Good, Agrees, Named, Store
<1>6. Owns(tls)'
  BY <1>2, <1>3, Numbers DEF IInv, Owns
<1>7. Settled(tls)'
  BY <1>1, <1>2, <1>3, <1>4 DEF IInv, Settled
<1>8. Behind(tls)'
  BY <1>2, <1>3, <1>4 DEF IInv, Behind
<1>9. Told' /\ AnnouncedOnce'
  BY <1>2, <1>3 DEF IInv, Told, AnnouncedOnce
<1>10. ASSUME NEW a, Honest(a), Awaited(tls, a)
       PROVE  Honest(a)' /\ Awaited(tls, a)'
  <2>1. Honest(a)'
    BY <1>2, <1>10 DEF Honest
  <2>2. a.kind \in {"sent", "updates"} => a.at \in Id
    BY <1>4, <1>10 DEF Honest
  <2> QED BY <1>2, <1>3, <1>10, <2>1, <2>2 DEF Awaited
<1>11. Answered'
  <2>1. ASSUME NEW i \in DOMAIN answers
        PROVE  Honest(answers[i])' /\ Awaited(tls, answers[i])'
    <3>1. PICK a : a = answers[i]
      OBVIOUS
    <3>2. Honest(a)' /\ Awaited(tls, a)'
      BY <3>1, <1>10 DEF IInv, Answered
    <3> QED BY <1>2, <3>1, <3>2 DEF Honest, Awaited
  <2> QED BY <1>2, <2>1 DEF IInv, Answered, InOrder
<1>12. Asked'
  BY <1>1 DEF IInv, Asked
<1>13. requests' \subseteq Request
  BY <1>1, Numbers DEF IInv, TypeOK, Request, Message
<1>14. TypeOK'
  BY <1>2, <1>3, <1>13 DEF IInv, TypeOK, Good, Store
<1>15. Deletions'
  BY <1>2 DEF IInv, Deletions
<1> QED
  BY <1>5, <1>6, <1>7, <1>8, <1>9, <1>11, <1>12, <1>14, <1>15 DEF IInv

\* The first answer has all the others behind it.
LEMMA FirstIs ==
  ASSUME IInv, answers # <<>>
  PROVE  /\ First \in Answer /\ Honest(First) /\ Awaited(tls, First)
         /\ \A i \in DOMAIN answers :
              /\ Honest(answers[i]) /\ Awaited(tls, answers[i])
              /\ i # 1 => InOrder(First, answers[i])
<1>1. answers \in Seq(Answer) /\ Len(answers) \in Nat /\ 1 \in DOMAIN answers
      /\ DOMAIN answers = 1 .. Len(answers) /\ First = answers[1]
  BY DEF IInv, TypeOK, First
<1>2. \A i \in DOMAIN answers :
        /\ Honest(answers[i]) /\ Awaited(tls, answers[i])
        /\ i # 1 => InOrder(First, answers[i])
  BY <1>1 DEF IInv, Answered
<1> QED BY <1>1, <1>2

\* The parts of the invariant that nearly every step needs.
LEMMA Basics ==
  ASSUME IInv
  PROVE  /\ LogOK /\ tls \in Store /\ Good(tls) /\ Owns(tls)
         /\ Id \subseteq Int /\ DOMAIN log \subseteq Id
         /\ DOMAIN log = 1 .. Len(log) /\ Len(log) \in Nat
         /\ tls.pts \in Nat /\ tls.pts <= Len(log)
         /\ loaded \subseteq DOMAIN log /\ announced \in [Id -> Nat]
         /\ NoMessage \notin RandomId /\ NoMessage \notin tls.pending
         /\ \A n \in DOMAIN log : log[n] \in Event
<1>1. LogOK /\ tls \in Store /\ Good(tls) /\ Owns(tls) /\ TypeOK
  BY StoreTyped DEF IInv
<1>2. /\ Id \subseteq Int /\ DOMAIN log \subseteq Id
      /\ DOMAIN log = 1 .. Len(log) /\ Len(log) \in Nat
      /\ \A n \in DOMAIN log : log[n] \in Event
  BY <1>1, LogNumbers, Numbers
<1>3. tls.pts \in Nat
  <2>1. tls.pts \in Id \cup {0}
    BY <1>1 DEF Store
  <2>2. Id \cup {0} \subseteq Nat
    BY DEF Id
  <2> QED BY <2>1, <2>2, Zenon
<1>4. NoMessage \notin RandomId /\ tls.pending \subseteq RandomId
  BY <1>1, Numbers DEF Store
<1> QED BY <1>1, <1>2, <1>3, <1>4 DEF IInv, Behind, Told, TypeOK

\* pts stays and nothing is announced.
LEMMA NothingHeard ==
  ASSUME IInv, announced' = announced, tls'.pts = tls.pts
  PROVE  Heard
  BY Basics DEF Heard

\* A step at which the client at most takes the lock.
LEMMA HoleStep ==
  ASSUME IInv, log' = log, requests' = requests, loaded' = loaded,
         announced' = announced, Good(tls'), Hole(tls, tls'),
         answers' = answers \/ (answers # <<>> /\ answers' = Tail(answers))
  PROVE  IInv'
<1>1. Works(tls, tls', {}) /\ tls'.pts = tls.pts
      /\ (tls.locked => tls'.locked)
  BY SameWorks, Basics DEF Hole
<1>2. Heard
  BY <1>1, NothingHeard
<1>3. tls.pts <= tls'.pts /\ tls'.pts <= Len(log)
      /\ \A n \in DOMAIN log : ~(n > tls.pts /\ n <= tls'.pts)
  BY <1>1, Basics
<1>4. \A i \in DOMAIN answers : Remains(answers[i], {})
  BY <1>1 DEF IInv, Answered, Awaited, Remains
<1>5. loaded' \subseteq DOMAIN log /\ loaded \subseteq loaded'
  BY Basics
<1>6. {} \in SUBSET DOMAIN log
  OBVIOUS
<1> QED BY <1>1, <1>2, <1>3, <1>4, <1>5, <1>6, ClientStep

\* Which answers remain awaited when the event n is handled: those that are not
\* about n, since only the next event moves pts, and not under the lock.
LEMMA Waits ==
  ASSUME IInv, NEW n \in DOMAIN log, NEW a, Honest(a), Awaited(tls, a),
         \/ tls'.pts = tls.pts /\ (tls.locked => tls'.locked)
         \/ ~tls.locked /\ n = tls.pts + 1 /\ tls'.pts = n,
         a.kind \in {"sent", "updates"} => a.at # n
  PROVE  Remains(a, {n})
<1>1. ASSUME a.kind \in {"sent", "updates"}
      PROVE  a.at \notin {n} /\ a.at > tls'.pts
  <2>1. a.at \in DOMAIN log /\ a.at > tls.pts /\ a.at # n
    BY <1>1 DEF Honest, Awaited
  <2>2. a.at \in Int /\ n \in Int /\ tls.pts \in Int
    BY <2>1, Basics
  <2> QED BY <2>1, <2>2
<1>2. a.kind = "difference" => tls'.locked /\ tls'.pts = tls.pts
  BY DEF Awaited
<1> QED BY <1>1, <1>2 DEF Remains

\* A pushed message: the next one is announced, unless it is in the tree: then a
\* history brought it, and a short push of it fails the assertion.
LEMMA PushMessageOK ==
  ASSUME IInv, PushMessage
  PROVE  IInv'
<1> USE Basics
<1>1. PICK n \in 1 .. Len(log) :
        /\ log[n].kind = "message" /\ log[n].from = NoMessage
        /\ \/ /\ tls' = WorkNewMessage(tls, n)
              /\ Announce({k \in {n} : ById(tls, k) = NoMessage
                                       /\ ById(tls', k) # NoMessage})
           \/ /\ tls' = WorkShortMessage(tls, n)
              /\ Announce({k \in {n} : tls'.pts # tls.pts})
  BY DEF PushMessage
<1>2. UNCHANGED <<log, requests, answers, loaded>>
  BY DEF PushMessage
<1>3. n \in DOMAIN log /\ n \in Id /\ n \in Int
  OBVIOUS
<1>4. n > tls.pts /\ tls.tree[n] # NoMessage => n \in loaded
  BY <1>1, <1>3 DEF IInv, Behind
<1>5. /\ Works(tls, tls', {n}) /\ tls'.pending = tls.pending
      /\ Hole(tls, tls') \/ Advances(tls, tls', n)
      /\ \/ /\ Advances(tls, tls', n) => tls'.tree[n] # NoMessage
            /\ Announce({k \in {n} : ById(tls, k) = NoMessage
                                     /\ ById(tls', k) # NoMessage})
         \/ Announce({k \in {n} : tls'.pts # tls.pts})
  <2>1. CASE /\ tls' = WorkNewMessage(tls, n)
             /\ Announce({k \in {n} : ById(tls, k) = NoMessage
                                      /\ ById(tls', k) # NoMessage})
    <3>1. /\ Works(tls, tls', {n}) /\ tls'.pending = tls.pending
          /\ Hole(tls, tls')
             \/ (Advances(tls, tls', n) /\ tls'.tree[n] # NoMessage)
      BY <2>1, <1>3, NewMessageWorks
    <3>2. Hole(tls, tls') => ~Advances(tls, tls', n)
      BY DEF Hole, Advances
    <3> QED BY <2>1, <3>1, <3>2
  <2>2. CASE /\ tls' = WorkShortMessage(tls, n)
             /\ Announce({k \in {n} : tls'.pts # tls.pts})
    <3>1. /\ Works(tls, tls', {n}) /\ tls'.pending = tls.pending
          /\ Hole(tls, tls') \/ Advances(tls, tls', n)
      BY <2>2, <1>3, ShortMessageWorks
    <3> QED BY <2>2, <3>1
  <2> QED BY <1>1, <2>1, <2>2
<1>6. CASE Hole(tls, tls')
  <2>1. announced' = announced
    <3>1. tls'.pts = tls.pts /\ tls'.tree = tls.tree
          /\ ~Advances(tls, tls', n)
      BY <1>6 DEF Hole, Same, Advances
    <3>2. Announce({})
      <4>1. {k \in {n} : tls'.pts # tls.pts} = {}
            /\ {k \in {n} : ById(tls, k) = NoMessage
                            /\ ById(tls', k) # NoMessage} = {}
        BY <3>1 DEF ById
      <4> QED BY <1>5, <4>1
    <3> QED BY <3>2 DEF Announce
  <2>2. Good(tls')
    BY <1>5 DEF Works
  <2> QED BY <1>2, <1>6, <2>1, <2>2, HoleStep
<1>7. CASE Advances(tls, tls', n)
  <2>1. n > tls.pts /\ n = tls.pts + 1 /\ tls'.pts = n /\ ~tls.locked
    BY <1>7 DEF Advances
  <2>2. Announce({n}) \/ (n \in loaded /\ Announce({}))
    <3>1. tls'.pts # tls.pts
      BY <2>1
    <3>2. {k \in {n} : tls'.pts # tls.pts} = {n}
      BY <3>1
    <3>3. CASE tls.tree[n] = NoMessage
      <4>1. tls'.tree[n] # NoMessage =>
              {k \in {n} : ById(tls, k) = NoMessage
                           /\ ById(tls', k) # NoMessage} = {n}
        BY <3>3 DEF ById
      <4> QED BY <1>5, <1>7, <3>2, <4>1
    <3>4. CASE tls.tree[n] # NoMessage
      <4>1. {k \in {n} : ById(tls, k) = NoMessage
                         /\ ById(tls', k) # NoMessage} = {}
        BY <3>4 DEF ById
      <4>2. n \in loaded
        BY <1>4, <2>1, <3>4
      <4> QED BY <1>5, <1>7, <3>2, <4>1, <4>2
    <3> QED BY <3>3, <3>4
  <2>3. announced[n] = 0
    BY <1>1, <1>3, <2>1 DEF IInv, Told
  <2>4. /\ announced' \in [Id -> Nat] /\ announced'[n] \in {0, 1}
        /\ n \in loaded \/ announced'[n] = 1
        /\ \A k \in Id : k # n => announced'[k] = announced[k]
    BY <1>3, <2>2, <2>3 DEF Announce
  <2>5. Heard
    <3>1. ASSUME NEW k \in DOMAIN log
          PROVE  /\ k > tls'.pts \/ k <= tls.pts => announced'[k] = announced[k]
                 /\ k > tls.pts /\ k <= tls'.pts => k = n
      <4>1. k \in Int /\ k \in Id
        OBVIOUS
      <4> QED BY <2>1, <2>4, <4>1
    <3>2. \A k \in Id \ DOMAIN log : announced'[k] = announced[k]
      BY <1>3, <2>4
    <3>3. announced'[n] <= 1 /\ (n \notin loaded' => announced'[n] = 1)
      BY <1>2, <2>4
    <3> QED BY <2>4, <3>1, <3>2, <3>3 DEF Heard
  <2>6. \A i \in DOMAIN answers : Remains(answers[i], {n})
    <3> TAKE i \in DOMAIN answers
    <3>1. Honest(answers[i]) /\ Awaited(tls, answers[i])
      BY DEF IInv, Answered
    <3>2. answers[i].kind \in {"sent", "updates"} => answers[i].at # n
      BY <1>1, <3>1 DEF Honest
    <3> QED BY <1>3, <2>1, <3>1, <3>2, Waits
  <2>7. tls.pts <= tls'.pts /\ tls'.pts <= Len(log)
    BY <1>3, <2>1
  <2>8. \A k \in DOMAIN log : k > tls.pts /\ k <= tls'.pts =>
          log[k].from \notin tls'.pending
    <3> TAKE k \in DOMAIN log
    <3>1. k \in Int
      OBVIOUS
    <3>2. k > tls.pts /\ k <= tls'.pts => k = n
      BY <2>1, <3>1
    <3> QED BY <1>1, <1>5, <3>2
  <2>9. \A k \in {n} : ~(k > tls'.pts)
    BY <1>3, <2>1
  <2>10. loaded \subseteq loaded' /\ loaded' \subseteq DOMAIN log
         /\ {n} \in SUBSET DOMAIN log
    BY <1>2, <1>3
  <2>11. Works(tls, tls', {n}) /\ log' = log /\ requests' = requests
         /\ answers' = answers
    BY <1>2, <1>5
  <2> QED
    BY ONLY IInv, <2>5, <2>6, <2>7, <2>8, <2>9, <2>10, <2>11, ClientStep
<1> QED BY <1>5, <1>6, <1>7

\* A step at which pts passes a deletion at most.
LEMMA DeletionStep ==
  ASSUME IInv, log' = log, requests' = requests, loaded' = loaded,
         announced' = announced, Works(tls, tls', {}),
         answers' = answers \/ (answers # <<>> /\ answers' = Tail(answers)),
         \/ tls'.pts = tls.pts /\ (tls.locked => tls'.locked)
         \/ \E n \in DOMAIN log : /\ log[n].kind = "deletion" /\ ~tls.locked
                                  /\ n = tls.pts + 1 /\ tls'.pts = n
  PROVE  IInv'
<1> USE Basics
<1>1. CASE tls'.pts = tls.pts /\ (tls.locked => tls'.locked)
  <2>1. Heard
    BY <1>1, NothingHeard
  <2>2. tls.pts <= tls'.pts /\ tls'.pts <= Len(log)
        /\ \A n \in DOMAIN log : ~(n > tls.pts /\ n <= tls'.pts)
    BY <1>1
  <2>3. \A i \in DOMAIN answers : Remains(answers[i], {})
    BY <1>1 DEF IInv, Answered, Awaited, Remains
  <2>4. loaded' \subseteq DOMAIN log /\ loaded \subseteq loaded'
        /\ {} \in SUBSET DOMAIN log
    OBVIOUS
  <2> QED BY <1>1, <2>1, <2>2, <2>3, <2>4, ClientStep
<1>2. CASE \E n \in DOMAIN log : /\ log[n].kind = "deletion" /\ ~tls.locked
                                 /\ n = tls.pts + 1 /\ tls'.pts = n
  <2>1. PICK n \in DOMAIN log : /\ log[n].kind = "deletion" /\ ~tls.locked
                                /\ n = tls.pts + 1 /\ tls'.pts = n
    BY <1>2
  <2>2. n \in Int /\ n <= Len(log) /\ log[n].from = NoMessage
    BY <2>1 DEF IInv, Deletions
  <2>3. ASSUME NEW k \in DOMAIN log
        PROVE  k > tls.pts /\ k <= tls'.pts => k = n
    <3>1. k \in Int
      OBVIOUS
    <3> QED BY <2>1, <3>1
  <2>4. Heard
    BY <2>1, <2>3 DEF Heard
  <2>5. \A k \in DOMAIN log : k > tls.pts /\ k <= tls'.pts =>
          log[k].from \notin tls'.pending
    BY <2>2, <2>3 DEF Works
  <2>6. \A i \in DOMAIN answers : Remains(answers[i], {})
    <3> TAKE i \in DOMAIN answers
    <3>1. Honest(answers[i]) /\ Awaited(tls, answers[i])
      BY DEF IInv, Answered
    <3>2. answers[i].kind \in {"sent", "updates"} => answers[i].at # n
      BY <2>2, <3>1 DEF Honest
    <3>3. Remains(answers[i], {n})
      BY <2>1, <3>1, <3>2, Waits
    <3> QED BY <3>3 DEF Remains
  <2>7. tls.pts <= tls'.pts /\ tls'.pts <= Len(log)
    BY <2>1, <2>2
  <2>8. loaded' \subseteq DOMAIN log /\ loaded \subseteq loaded'
        /\ {} \in SUBSET DOMAIN log
    OBVIOUS
  <2> QED BY <2>4, <2>5, <2>6, <2>7, <2>8, ClientStep
<1> QED BY <1>1, <1>2

\* A pushed deletion.
LEMMA PushDeletionOK ==
  ASSUME IInv, PushDeletion
  PROVE  IInv'
<1> USE Basics
<1>1. PICK n \in 1 .. Len(log) : log[n].kind = "deletion"
                                 /\ tls' = WorkDeletion(tls, n)
  BY DEF PushDeletion
<1>2. UNCHANGED <<log, requests, answers, loaded, announced>>
  BY DEF PushDeletion
<1>3. n \in DOMAIN log /\ n \in Id /\ n \in Int
  OBVIOUS
<1>4. Works(tls, tls', {}) /\ tls'.pending = tls.pending
      /\ (Hole(tls, tls') \/ Advances(tls, tls', n))
  BY <1>1, <1>3, DeletionWorks
<1>5. CASE Hole(tls, tls')
  BY <1>2, <1>4, <1>5, DeletionStep DEF Hole
<1>6. CASE Advances(tls, tls', n)
  BY <1>1, <1>2, <1>3, <1>4, <1>6, DeletionStep DEF Advances
<1> QED BY <1>4, <1>5, <1>6

\* The answer to a message that was sent: its event is the only one handled.
LEMMA OwnStep ==
  ASSUME IInv, answers # <<>>, answers' = Tail(answers), log' = log,
         requests' = requests, loaded' = loaded,
         First.kind \in {"sent", "updates"},
         Works(tls, tls', {First.at}), tls.locked => tls'.locked,
         \/ tls'.pts = tls.pts
         \/ /\ ~tls.locked /\ First.at = tls.pts + 1 /\ tls'.pts = First.at
            /\ First.of \notin tls'.pending,
         announced' \in [Id -> Nat],
         \A k \in Id : k # First.at => announced'[k] = announced[k]
  PROVE  IInv'
<1> USE Basics
<1> DEFINE n == First.at
<1>1. n \in DOMAIN log /\ log[n].from = First.of /\ First.of \in RandomId
      /\ log[n].from # NoMessage /\ n \in Int /\ n <= Len(log)
  BY FirstIs DEF Honest
<1> HIDE DEF n
<1>2. ASSUME NEW k \in DOMAIN log
      PROVE  /\ k > tls.pts /\ k <= tls'.pts => k = n /\ tls'.pts # tls.pts
             /\ k \in Int
  <2>1. k \in Int
    OBVIOUS
  <2> QED BY <1>1, <2>1 DEF n
<1>3. Heard
  BY <1>1, <1>2 DEF Heard, n
<1>4. \A k \in DOMAIN log : k > tls.pts /\ k <= tls'.pts =>
        log[k].from \notin tls'.pending
  BY <1>1, <1>2
<1>5. \A i \in DOMAIN answers : i # 1 => Remains(answers[i], {n})
  <2> SUFFICES ASSUME NEW i \in DOMAIN answers, i # 1
               PROVE  Remains(answers[i], {n})
    OBVIOUS
  <2>1. Honest(answers[i]) /\ Awaited(tls, answers[i])
        /\ InOrder(First, answers[i])
    BY FirstIs
  <2>2. answers[i].kind \in {"sent", "updates"} => answers[i].at # n
    <3>1. answers[i].kind \in {"sent", "updates"} => n < answers[i].at
      BY <2>1 DEF InOrder, n
    <3> QED BY <1>1, <3>1
  <2> QED BY <1>1, <2>1, <2>2, Waits DEF n
<1>6. tls.pts <= tls'.pts /\ tls'.pts <= Len(log)
  BY <1>1 DEF n
<1>7. \A k \in {n} : k \in loaded' \/ log[k].from # NoMessage
  BY <1>1
<1>8. loaded' \subseteq DOMAIN log /\ loaded \subseteq loaded'
      /\ {n} \in SUBSET DOMAIN log /\ Works(tls, tls', {n})
  BY <1>1 DEF n
<1> QED
  BY <1>3, <1>4, <1>5, <1>6, <1>7, <1>8, ClientStep

\* msg_send_on_answer with updateShortSentMessage.
LEMMA SentOK ==
  ASSUME IInv, HandleSent
  PROVE  IInv'
<1> USE Basics
<1>1. PICK intact \in BOOLEAN :
        /\ Receive("sent")
        /\ tls' = WorkShortSent(tls, Extra(tls, First.of), First.at, intact)
        /\ Announce({n \in {First.at} : tls'.pts # tls.pts})
        /\ UNCHANGED loaded
  BY DEF HandleSent
<1>2. answers # <<>> /\ First.kind = "sent" /\ answers' = Tail(answers)
      /\ UNCHANGED <<log, requests>>
  BY <1>1 DEF Receive
<1> DEFINE n == First.at
           r == First.of
<1>3. n \in DOMAIN log /\ log[n].from = r /\ r \in RandomId
      /\ tls.tree[n] = NoMessage
  BY <1>2, FirstIs DEF Honest, Awaited
<1> HIDE DEF n, r
<1>4. /\ Works(tls, tls', {n})
      /\ tls.locked => tls'.locked
      /\ \/ tls'.pts = tls.pts
         \/ ~tls.locked /\ n = tls.pts + 1 /\ tls'.pts = n
            /\ r \notin tls'.pending
  <2>1. tls' = WorkShortSent(tls, Extra(tls, r), n, intact)
    BY <1>1 DEF n, r
  <2>2. LogOK /\ Good(tls) /\ Owns(tls)
    OBVIOUS
  <2>3. OwnWorks(tls, WorkShortSent(tls, Extra(tls, r), n, intact), n, r)
    BY ONLY <2>2, <1>3, ShortSentWorks, intact \in BOOLEAN
  <2> QED BY <2>1, <2>3 DEF OwnWorks
<1>5. /\ announced' \in [Id -> Nat]
      /\ \A k \in Id : k # n => announced'[k] = announced[k]
  BY <1>1 DEF Announce, n
<1> QED BY <1>1, <1>2, <1>4, <1>5, OwnStep DEF n, r

\* msg_send_on_answer with updateMessageID and updateNewMessage.
LEMMA UpdatesOK ==
  ASSUME IInv, HandleUpdates
  PROVE  IInv'
<1> USE Basics
<1> DEFINE n == First.at
           r == First.of
<1>1. /\ Receive("updates")
      /\ tls' = WorkUpdates(tls, r, n)
      /\ Announce({k \in {n} : \/ WorkMessageId(tls, r, n) # tls
                              \/ /\ ById(tls, n) = NoMessage
                                 /\ ById(tls', n) # NoMessage})
      /\ UNCHANGED loaded
  BY DEF HandleUpdates
<1>2. answers # <<>> /\ First.kind = "updates" /\ answers' = Tail(answers)
      /\ UNCHANGED <<log, requests>>
  BY <1>1 DEF Receive
<1>3. n \in DOMAIN log /\ log[n].from = r /\ r \in RandomId
  BY <1>2, FirstIs DEF Honest
<1> HIDE DEF n, r
<1>4. /\ Works(tls, tls', {n})
      /\ tls.locked => tls'.locked
      /\ \/ tls'.pts = tls.pts
         \/ ~tls.locked /\ n = tls.pts + 1 /\ tls'.pts = n
            /\ r \notin tls'.pending
  BY <1>1, <1>3, UpdatesWork
<1>5. /\ announced' \in [Id -> Nat]
      /\ \A k \in Id : k # n => announced'[k] = announced[k]
  BY <1>1 DEF Announce
<1> QED BY <1>1, <1>2, <1>4, <1>5, OwnStep DEF n, r

\* msg_send_on_error: the message is deleted.
LEMMA ErrorOK ==
  ASSUME IInv, HandleError
  PROVE  IInv'
<1> USE Basics
<1>1. /\ Receive("error")
      /\ tls' = Delete(tls, ByRandom(tls, First.of))
      /\ UNCHANGED <<loaded, announced>>
  BY DEF HandleError
<1>2. answers # <<>> /\ First.kind = "error" /\ answers' = Tail(answers)
      /\ UNCHANGED <<log, requests>>
  BY <1>1 DEF Receive
<1>3. First.of \in RandomId
  BY <1>2, FirstIs DEF Honest
<1>4. ByRandom(tls, First.of) \in tls.live \cup {NoMessage}
  BY <1>3, Finding
<1>5. Works(tls, tls', {}) /\ tls'.pts = tls.pts /\ tls'.locked = tls.locked
  BY <1>1, <1>4, DeleteWorks
<1> QED BY <1>1, <1>2, <1>5, DeletionStep

\* delete_msg_on_answer.
LEMMA DeletedOK ==
  ASSUME IInv, HandleDeleted
  PROVE  IInv'
<1> USE Basics
<1>1. /\ Receive("delete")
      /\ tls' = WorkDeleted(tls, First.of, First.at, First.count)
      /\ UNCHANGED <<loaded, announced>>
  BY DEF HandleDeleted
<1>2. answers # <<>> /\ First.kind = "delete" /\ answers' = Tail(answers)
      /\ UNCHANGED <<log, requests>>
  BY <1>1 DEF Receive
<1>3. First \in Answer /\ Honest(First)
  BY <1>2, FirstIs
<1>4. /\ First.of \in Message /\ First.at \in 0 .. Len(log)
      /\ First.count \in {0, 1}
      /\ First.count = 1 => First.at \in DOMAIN log
                            /\ log[First.at].kind = "deletion"
  BY <1>2, <1>3 DEF Honest, Answer
<1>5. /\ Works(tls, tls', {})
      /\ tls.locked => tls'.locked
      /\ \/ tls'.pts = tls.pts
         \/ ~tls.locked /\ First.count = 1 /\ First.at = tls.pts + 1
            /\ tls'.pts = First.at
  BY <1>1, <1>4, DeletedWorks
<1> QED BY <1>1, <1>2, <1>4, <1>5, DeletionStep

\* get_history_on_answer: what it brings lies behind every answer about a
\* message that was sent.
LEMMA HistoryOK ==
  ASSUME IInv, HandleHistory
  PROVE  IInv'
<1> USE Basics
<1>1. /\ Receive("history")
      /\ tls' = FetchAlloc(tls, First.news)
      /\ loaded' = loaded \cup First.news
      /\ UNCHANGED announced
  BY DEF HandleHistory
<1>2. answers # <<>> /\ First.kind = "history" /\ answers' = Tail(answers)
      /\ UNCHANGED <<log, requests>>
  BY <1>1 DEF Receive
<1> DEFINE N == First.news
<1>3. N \in SUBSET DOMAIN log
  BY <1>2, FirstIs DEF Honest
<1> HIDE DEF N
<1>4. Works(tls, tls', N) /\ tls'.pts = tls.pts /\ tls'.locked = tls.locked
  BY <1>1, <1>3, FetchWorks DEF N
<1>5. Heard
  BY <1>1, <1>4, NothingHeard
<1>6. \A i \in DOMAIN answers : i # 1 => Remains(answers[i], N)
  <2> SUFFICES ASSUME NEW i \in DOMAIN answers, i # 1
               PROVE  Remains(answers[i], N)
    OBVIOUS
  <2>1. Awaited(tls, answers[i]) /\ InOrder(First, answers[i])
    BY <1>2, FirstIs
  <2> QED BY <2>1, <1>4 DEF Awaited, InOrder, Remains, N
<1>7. tls.pts <= tls'.pts /\ tls'.pts <= Len(log)
      /\ \A n \in DOMAIN log : ~(n > tls.pts /\ n <= tls'.pts)
  BY <1>4
<1>8. loaded' \subseteq DOMAIN log /\ loaded \subseteq loaded'
      /\ N \subseteq loaded'
  BY <1>1, <1>3 DEF N
<1> QED BY <1>2, <1>3, <1>4, <1>5, <1>6, <1>7, <1>8, ClientStep

\* get_difference_on_answer: everything from the old pts to the new one is
\* handled in one step.
LEMMA DifferenceOK ==
  ASSUME IInv, HandleDifference
  PROVE  IInv'
<1> USE Basics
<1> DEFINE N == First.news
           upto == First.at
           late == Unsettled(tls, (tls.pts + 1) .. First.at)
           E == (tls.pts + 1) .. upto
<1>1. /\ Receive("difference")
      /\ tls' = WorkDifference(tls, N, upto)
      /\ announced' =
           [n \in Id |-> announced[n] + (IF n \in late THEN 1 ELSE 0)
                                      + (IF n \in N THEN 1 ELSE 0)]
      /\ UNCHANGED loaded
  BY DEF HandleDifference
<1>2. answers # <<>> /\ First.kind = "difference"
      /\ answers' = Tail(answers) /\ UNCHANGED <<log, requests>>
  BY <1>1 DEF Receive
<1>3. Honest(First) /\ Awaited(tls, First)
  BY <1>2, FirstIs
<1>4. /\ upto \in 0 .. Len(log) /\ tls.pts <= upto /\ N \in SUBSET E
      /\ \A n \in E : log[n].kind = "message" /\ ~log[n].gone => n \in N
  BY <1>2, <1>3 DEF Honest, Awaited
<1>5. \A n \in late : log[n].from # NoMessage
  BY DEF Unsettled
<1>6. E \in SUBSET DOMAIN log /\ \A n \in DOMAIN log :
        n \in E <=> (n > tls.pts /\ n <= upto)
  BY <1>4
<1> HIDE DEF late
<1>7. /\ Works(tls, tls', E) /\ tls'.pts = upto
      /\ \A n \in E : log[n].from \notin tls'.pending
  BY <1>1, <1>4, DifferenceWorks
<1> HIDE DEF N, upto, E
<1>8. announced' \in [Id -> Nat]
  BY <1>1
<1>9. ASSUME NEW n \in Id, log[n].from = NoMessage
      PROVE  announced'[n] = announced[n] + (IF n \in N THEN 1 ELSE 0)
  BY <1>1, <1>5, <1>9
<1>10. Heard
  <2>1. ASSUME NEW n \in Id \ DOMAIN log PROVE announced'[n] = announced[n]
    <3>1. n \notin N /\ n \notin late
      <4>1. late \subseteq E
        BY DEF late, Unsettled, E, upto
      <4> QED BY <1>4, <1>6, <4>1
    <3> QED BY <1>1, <3>1
  <2>2. ASSUME NEW n \in DOMAIN log, log[n].from = NoMessage,
               n > tls'.pts \/ n <= tls.pts
        PROVE  announced'[n] = announced[n]
    <3>1. n \in Int /\ n \in Id /\ upto \in Int
      BY <1>4
    <3>2. n \notin N
      BY <1>4, <1>6, <1>7, <2>2, <3>1
    <3> QED BY <1>9, <2>2, <3>1, <3>2
  <2>3. ASSUME NEW n \in DOMAIN log, log[n].from = NoMessage, n > tls.pts,
               n <= tls'.pts, log[n].kind = "message"
        PROVE  /\ announced'[n] <= 1
               /\ n \notin loaded' /\ ~log[n].gone => announced'[n] = 1
    <3>1. announced[n] = 0 /\ n \in E
      BY <1>6, <1>7, <2>3 DEF IInv, Told
    <3>2. n \in Id
      OBVIOUS
    <3> QED BY <1>4, <1>9, <2>3, <3>1, <3>2
  <2> QED BY <1>8, <2>1, <2>2, <2>3 DEF Heard
<1>11. \A i \in DOMAIN answers : i # 1 => Remains(answers[i], E)
  <2> SUFFICES ASSUME NEW i \in DOMAIN answers, i # 1
               PROVE  Remains(answers[i], E)
    OBVIOUS
  <2>1. Honest(answers[i]) /\ InOrder(First, answers[i])
    BY <1>2, FirstIs
  <2>2. ASSUME answers[i].kind \in {"sent", "updates"}
        PROVE  answers[i].at \notin E /\ answers[i].at > tls'.pts
    <3>1. answers[i].at \in DOMAIN log /\ upto < answers[i].at
      BY <1>2, <2>1, <2>2 DEF Honest, InOrder, upto
    <3>2. answers[i].at \in Int /\ upto \in Int
      BY <1>4, <3>1
    <3> QED BY <1>6, <1>7, <3>1, <3>2
  <2> QED BY <1>2, <2>1, <2>2 DEF InOrder, Remains
<1>12. tls.pts <= tls'.pts /\ tls'.pts <= Len(log)
       /\ \A n \in DOMAIN log : n > tls.pts /\ n <= tls'.pts =>
            log[n].from \notin tls'.pending
  BY <1>4, <1>6, <1>7
<1>13. \A n \in E : ~(n > tls'.pts)
  BY <1>4, <1>7 DEF E
<1>14. loaded' \subseteq DOMAIN log /\ loaded \subseteq loaded'
  BY <1>1
<1> QED
  BY <1>2, <1>6, <1>7, <1>10, <1>11, <1>12, <1>13, <1>14, ClientStep

\* A permanent id in the tree is an event of the log.
LEMMA InTheLog ==
  ASSUME IInv, NEW n \in Id, tls.tree[n] # NoMessage
  PROVE  n \in DOMAIN log
<1> DEFINE m == tls.tree[n]
<1>1. m \in tls.live /\ tls.id[m] = n /\ m \in Message
  BY Basics, Numbers DEF Good, Agrees, Store
<1>2. CASE m \in Id
  BY Basics, <1>1, <1>2 DEF Good, Named, Owns
<1>3. CASE m \in RandomId
  <2>1. m \notin tls.pending
    BY Basics, <1>1, <1>3, Numbers DEF Good, Named
  <2> QED BY Basics, <1>1, <1>3, <2>1 DEF Owns
<1> QED BY <1>1, <1>2, <1>3, Numbers

\* A log in which some events are marked as deleted.
Marked(l) ==
  /\ l \in Seq(Event) /\ Len(l) = Len(log)
  /\ \A n \in DOMAIN log : /\ l[n].kind = log[n].kind
                           /\ l[n].from = log[n].from
                           /\ log[n].gone => l[n].gone

\* Marking one message as deleted.
LEMMA Marking ==
  ASSUME IInv, NEW n \in Stored
  PROVE  Marked([log EXCEPT ![n].gone = TRUE])
<1> DEFINE e == [log[n] EXCEPT !.gone = TRUE]
           l == [log EXCEPT ![n] = e]
<1>1. n \in DOMAIN log /\ log \in Seq(Event) /\ log[n] \in Event
  BY Basics DEF Stored, LogOK
<1>2. e \in Event /\ e.kind = log[n].kind /\ e.from = log[n].from /\ e.gone
  BY <1>1 DEF Event
<1>3. [log EXCEPT ![n].gone = TRUE] = l
  OBVIOUS
<1> HIDE DEF e
<1>4. l \in Seq(Event) /\ Len(l) = Len(log)
      /\ \A k \in DOMAIN log : l[k] = IF k = n THEN e ELSE log[k]
  BY <1>1, <1>2
<1> QED BY <1>2, <1>3, <1>4 DEF Marked

\* An event at the end of the log.
LEMMA Appending ==
  ASSUME IInv, NEW l, Marked(l) \/ l = log, NEW e \in Event,
         e.kind = "deletion" => e.from = NoMessage,
         Len(log) < MaxId, log' = Append(l, e)
  PROVE  /\ LogGrows /\ Deletions'
         /\ Len(log') = Len(log) + 1 /\ log'[Len(log) + 1] = e
         /\ Len(log) + 1 \in DOMAIN log' /\ Len(log) + 1 \in Id
<1>1. log \in Seq(Event) /\ MaxId \in Nat
  BY Basics, LogNumbers DEF LogOK
<1>2. Marked(l)
  BY <1>1 DEF Marked
<1>3. l \in Seq(Event) /\ Len(l) = Len(log) /\ Len(log) \in Nat
      /\ DOMAIN log = 1 .. Len(log)
  BY <1>1, <1>2 DEF Marked
<1>4. /\ log' \in Seq(Event) /\ Len(log') = Len(log) + 1
      /\ DOMAIN log' = 1 .. Len(log) + 1
      /\ \A n \in DOMAIN log : log'[n] = l[n]
      /\ log'[Len(log) + 1] = e
  BY <1>3
<1>5. LogGrows
  BY <1>1, <1>2, <1>3, <1>4 DEF LogGrows, Marked
<1>6. Deletions'
  <2>1. \A n \in DOMAIN log' : n \in DOMAIN log \/ n = Len(log) + 1
    BY <1>3, <1>4
  <2> QED BY <2>1, <1>2, <1>4 DEF IInv, Deletions, Marked
<1> QED BY <1>1, <1>3, <1>4, <1>5, <1>6 DEF Id

\* Somebody else writes, or another device deletes.
LEMMA ElsewhereOK ==
  ASSUME IInv, Elsewhere
  PROVE  IInv'
<1>1. /\ Len(log) < MaxId
      /\ UNCHANGED <<tls, requests, answers, loaded, announced>>
  BY DEF Elsewhere
<1>2. LogGrows /\ Deletions'
  <2>1. CASE log' = Append(log, [kind |-> "message", from |-> NoMessage,
                                 gone |-> FALSE])
    <3> DEFINE e == [kind |-> "message", from |-> NoMessage, gone |-> FALSE]
    <3>1. e \in Event /\ e.kind # "deletion"
      BY DEF Event
    <3> HIDE DEF e
    <3> QED BY <1>1, <2>1, <3>1, Appending DEF e
  <2>2. CASE \E n \in Stored :
               log' = Append([log EXCEPT ![n].gone = TRUE],
                             [kind |-> "deletion", from |-> NoMessage,
                              gone |-> FALSE])
    <3> DEFINE e == [kind |-> "deletion", from |-> NoMessage, gone |-> FALSE]
    <3>1. PICK n \in Stored : log' = Append([log EXCEPT ![n].gone = TRUE], e)
      BY <2>2
    <3>2. e \in Event /\ e.from = NoMessage
      BY DEF Event
    <3>3. Marked([log EXCEPT ![n].gone = TRUE])
      BY Marking
    <3> HIDE DEF e
    <3> QED BY <1>1, <3>1, <3>2, <3>3, Appending
  <2> QED BY <2>1, <2>2 DEF Elsewhere
<1>3. requests' \subseteq Request /\ Asked'
  BY <1>1 DEF IInv, TypeOK, Asked
<1> QED BY <1>1, <1>2, <1>3, ServerStep

\* The server accepts a message: its event is the last of the log, so that no
\* index has it and no answer before brings it.
LEMMA AcceptOK ==
  ASSUME IInv, NEW r \in RandomId, Accept(r)
  PROVE  IInv'
<1> USE Basics
<1> DEFINE e == [kind |-> "message", from |-> r, gone |-> FALSE]
<1>a. PICK n : n = Len(log) + 1
  OBVIOUS
<1>1. /\ Len(log) < MaxId /\ log' = Append(log, e)
      /\ requests' \subseteq requests
      /\ UNCHANGED <<tls, loaded, announced>>
  BY DEF Accept
<1>2. PICK k \in {"sent", "updates"} : Reply(k, r, n, 1, {})
  BY <1>a DEF Accept
<1>3. e \in Event /\ e.kind # "deletion" /\ e.from = r
  BY DEF Event
<1> HIDE DEF e
<1>4. /\ LogGrows /\ Deletions'
      /\ Len(log') = n /\ log'[n] = e /\ n \in DOMAIN log' /\ n \in Id
  BY <1>a, <1>1, <1>3, Appending
<1>5. requests' \subseteq Request /\ Asked'
  BY <1>1 DEF IInv, TypeOK, Asked
<1>b. PICK a :
        a = [kind |-> k, of |-> r, at |-> n, count |-> 1, news |-> {}]
  OBVIOUS
<1>6. a \in Answer
  BY <1>b, <1>4, Numbers DEF Answer
<1>7. a.kind = k /\ a.of = r /\ a.at = n /\ a.news = {} /\ a.count = 1
  BY <1>b
<1>c. answers' = Append(answers, a)
  BY <1>b, <1>2 DEF Reply
<1>8. n > tls.pts /\ n \notin DOMAIN log /\ n \in Nat
  BY <1>a
<1>9. tls.tree[n] = NoMessage
  BY <1>4, <1>8, InTheLog
<1>10. Honest(a)'
  BY <1>3, <1>4, <1>7, <1>8 DEF Honest
<1>11. Awaited(tls, a)'
  BY <1>1, <1>7, <1>8, <1>9 DEF Awaited
<1>12. \A i \in DOMAIN answers : InOrder(answers[i], a)
  <2> TAKE i \in DOMAIN answers
  <2>1. answers[i].at \in 0 .. Len(log) /\ answers[i].news \subseteq DOMAIN log
    BY DEF IInv, Answered, Honest
  <2> QED BY <1>a, <1>7, <1>8, <2>1 DEF InOrder
<1> QED BY <1>1, <1>4, <1>5, <1>6, <1>c, <1>10, <1>11, <1>12, ServerStep

\* An answer that no other answer and no pts has to wait for.
LEMMA ReplyStep ==
  ASSUME IInv, NEW a \in Answer, answers' = Append(answers, a),
         LogGrows, Deletions', UNCHANGED <<tls, loaded, announced>>,
         requests' \subseteq requests,
         a.kind \in {"error", "history", "delete"}, Honest(a)'
  PROVE  IInv'
<1>1. requests' \subseteq Request /\ Asked'
  BY DEF IInv, TypeOK, Asked
<1>2. Awaited(tls, a)' /\ \A i \in DOMAIN answers : InOrder(answers[i], a)
  BY DEF Awaited, InOrder
<1> QED BY <1>1, <1>2, ServerStep

\* The server refuses a message.
LEMMA RefuseOK ==
  ASSUME IInv, NEW r \in RandomId, Refuse(r)
  PROVE  IInv'
<1> USE Basics
<1> DEFINE a == [kind |-> "error", of |-> r, at |-> 0, count |-> 0,
                 news |-> {}]
<1>1. /\ requests' \subseteq requests /\ answers' = Append(answers, a)
      /\ UNCHANGED <<tls, log, loaded, announced>>
  BY DEF Refuse, Reply
<1>2. a \in Answer
  BY Numbers DEF Answer
<1>3. a.kind = "error" /\ a.of = r /\ a.at = 0 /\ a.news = {}
  OBVIOUS
<1> HIDE DEF a
<1>4. Honest(a)'
  BY <1>1, <1>3 DEF Honest
<1>5. LogGrows /\ Deletions'
  BY <1>1, LogStays DEF IInv, Deletions
<1> QED BY <1>1, <1>2, <1>3, <1>4, <1>5, ReplyStep

\* The server answers with a part of the history.
LEMMA AnswerHistoryOK ==
  ASSUME IInv, AnswerHistory
  PROVE  IInv'
<1> USE Basics
<1>1. PICK q \in requests, n \in 1 .. MaxId :
        /\ Reply("history", NoMessage, 0, 0, {k \in Stored : k >= n})
        /\ requests' = requests \ {q}
  BY DEF AnswerHistory
<1>2. UNCHANGED <<tls, log, loaded, announced>>
  BY DEF AnswerHistory
<1>a. PICK N : N = {k \in Stored : k >= n}
  OBVIOUS
<1>b. PICK a : a = [kind |-> "history", of |-> NoMessage, at |-> 0,
                    count |-> 0, news |-> N]
  OBVIOUS
<1>3. N \subseteq DOMAIN log
  BY <1>a DEF Stored
<1>4. a \in Answer
  BY <1>b, <1>3 DEF Answer
<1>5. a.kind = "history" /\ a.at = 0 /\ a.news = N
  BY <1>b
<1>c. answers' = Append(answers, a)
  BY <1>a, <1>b, <1>1 DEF Reply
<1>6. Honest(a)'
  BY <1>2, <1>3, <1>5 DEF Honest
<1>7. LogGrows /\ Deletions'
  BY <1>2, LogStays DEF IInv, Deletions
<1>8. requests' \subseteq requests
  BY <1>1
<1> QED BY <1>2, <1>4, <1>5, <1>c, <1>6, <1>7, <1>8, ReplyStep

\* The server deletes, or finds nothing to delete.
LEMMA AnswerDeleteOK ==
  ASSUME IInv, AnswerDelete
  PROVE  IInv'
<1> USE Basics
<1>1. PICK q \in requests :
        /\ q.kind = "delete"
        /\ requests' = requests \ {q}
        /\ IF q.of \in Stored
           THEN /\ Len(log) < MaxId
                /\ log' = Append([log EXCEPT ![q.of].gone = TRUE],
                                 [kind |-> "deletion", from |-> NoMessage,
                                  gone |-> FALSE])
                /\ Reply("delete", q.of, Len(log) + 1, 1, {})
           ELSE log' = log /\ Reply("delete", q.of, Len(log), 0, {})
  BY DEF AnswerDelete
<1>2. UNCHANGED <<tls, loaded, announced>> /\ requests' \subseteq requests
  BY <1>1 DEF AnswerDelete
<1>3. q.of \in Message
  BY <1>1 DEF IInv, Asked
<1>4. CASE q.of \in Stored
  <2> DEFINE e == [kind |-> "deletion", from |-> NoMessage, gone |-> FALSE]
  <2>a. PICK n : n = Len(log) + 1
    OBVIOUS
  <2>b. PICK a : a = [kind |-> "delete", of |-> q.of, at |-> n, count |-> 1,
                      news |-> {}]
    OBVIOUS
  <2>1. e \in Event /\ e.from = NoMessage /\ e.kind = "deletion"
    BY DEF Event
  <2>2. Marked([log EXCEPT ![q.of].gone = TRUE])
    BY <1>4, Marking
  <2>3. Len(log) < MaxId /\ log' = Append([log EXCEPT ![q.of].gone = TRUE], e)
    BY <1>1, <1>4
  <2> HIDE DEF e
  <2>4. /\ LogGrows /\ Deletions'
        /\ Len(log') = n /\ log'[n] = e /\ n \in DOMAIN log' /\ n \in Id
    BY <2>a, <2>1, <2>2, <2>3, Appending
  <2>5. a \in Answer
    BY <2>b, <1>3, <2>4 DEF Answer
  <2>6. a.kind = "delete" /\ a.of = q.of /\ a.at = n /\ a.news = {}
    BY <2>b
  <2>c. answers' = Append(answers, a)
    BY <2>a, <2>b, <1>1, <1>4 DEF Reply
  <2>7. Honest(a)'
    BY <1>3, <2>1, <2>4, <2>6 DEF Honest
  <2> QED BY <1>2, <2>4, <2>5, <2>6, <2>c, <2>7, ReplyStep
<1>5. CASE q.of \notin Stored
  <2>a. PICK a : a = [kind |-> "delete", of |-> q.of, at |-> Len(log),
                      count |-> 0, news |-> {}]
    OBVIOUS
  <2>1. Len(log) \in Id \cup {0}
    BY DEF LogOK, Id
  <2>2. a \in Answer
    BY <2>a, <1>3, <2>1 DEF Answer
  <2>3. a.kind = "delete" /\ a.of = q.of /\ a.at = Len(log) /\ a.news = {}
        /\ a.count = 0
    BY <2>a
  <2>b. answers' = Append(answers, a) /\ log' = log
    BY <2>a, <1>1, <1>5 DEF Reply
  <2>4. Honest(a)'
    BY <1>3, <2>3, <2>b DEF Honest
  <2>5. LogGrows /\ Deletions'
    BY <2>b, LogStays DEF IInv, Deletions
  <2> QED BY <1>2, <2>2, <2>3, <2>b, <2>4, <2>5, ReplyStep
<1> QED BY <1>4, <1>5

\* The server answers with all from the client's pts on: the lock holds
\* pts until the answer is there.
LEMMA AnswerDifferenceOK ==
  ASSUME IInv, AnswerDifference
  PROVE  IInv'
<1> USE Basics
<1>a. PICK N : N = {n \in Stored : n > tls.pts}
  OBVIOUS
<1>b. PICK a : a = [kind |-> "difference", of |-> NoMessage, at |-> Len(log),
                    count |-> 0, news |-> N]
  OBVIOUS
<1>1. /\ tls.locked
      /\ \A i \in DOMAIN answers : answers[i].kind # "difference"
      /\ answers' = Append(answers, a)
      /\ UNCHANGED <<tls, log, requests, loaded, announced>>
  BY <1>a, <1>b DEF AnswerDifference, Reply
<1>2. /\ N \subseteq DOMAIN log /\ N \subseteq (tls.pts + 1) .. Len(log)
      /\ \A n \in (tls.pts + 1) .. Len(log) :
           log[n].kind = "message" /\ ~log[n].gone => n \in N
  BY <1>a DEF Stored
<1>3. Len(log) \in Id \cup {0}
  BY DEF LogOK, Id
<1>4. a \in Answer
  BY <1>b, <1>2, <1>3 DEF Answer
<1>5. a.kind = "difference" /\ a.at = Len(log) /\ a.news = N
  BY <1>b
<1>6. Honest(a)'
  BY <1>1, <1>2, <1>5 DEF Honest
<1>7. Awaited(tls, a)'
  BY <1>1, <1>2, <1>5 DEF Awaited
<1>8. \A i \in DOMAIN answers : InOrder(answers[i], a)
  BY <1>1, <1>5 DEF InOrder
<1>9. LogGrows /\ Deletions'
  BY <1>1, LogStays DEF IInv, Deletions
<1>10. requests' \subseteq Request /\ Asked'
  BY <1>1 DEF IInv, TypeOK, Asked
<1> QED BY <1>1, <1>4, <1>6, <1>7, <1>8, <1>9, <1>10, ServerStep

\* A step of something else.
LEMMA StutterOK ==
  ASSUME IInv, UNCHANGED vars
  PROVE  IInv'
<1>1. LogGrows /\ Deletions' /\ requests' \subseteq Request /\ Asked'
  BY LogStays DEF vars, IInv, Deletions, TypeOK, Asked
<1> QED BY <1>1, ServerStep DEF vars

\* Every reachable state satisfies the inductive invariant.
THEOREM Invariance == Spec => []IInv
<1>1. IInv /\ [Next]_vars => IInv'
  <2> SUFFICES ASSUME IInv, [Next]_vars PROVE IInv'
    OBVIOUS
  <2>1. CASE UNCHANGED vars
    BY <2>1, StutterOK
  <2>2. CASE SendMessage
    BY <2>2, SendOK
  <2>3. CASE GetHistory \/ DeleteMessage
    BY <2>3, AskOK
  <2>4. CASE PushMessage \/ PushDeletion
    BY <2>4, PushMessageOK, PushDeletionOK
  <2>5. CASE Handle
    BY <2>5, SentOK, UpdatesOK, ErrorOK, HistoryOK, DeletedOK, DifferenceOK
       DEF Handle
  <2>6. CASE Server
    BY <2>6, ElsewhereOK, AcceptOK, RefuseOK, AnswerHistoryOK,
       AnswerDeleteOK, AnswerDifferenceOK DEF Server
  <2> QED BY <2>1, <2>2, <2>3, <2>4, <2>5, <2>6 DEF Next
<1> QED BY InitOK, <1>1, PTL DEF Spec

\* The state keeps its type: numbers of events stay within the bound, and the
\* indexes hold messages.
THEOREM TypeCorrect == Spec => []TypeOK
BY Invariance, PTL DEF IInv

\* The assertion of bl_do_edit_message failed in the client d if it did in c.
SameEnd(c, d) ==
  /\ "again" \in DOMAIN d /\ d.again = c.again
  /\ "pts" \in DOMAIN d /\ d.pts \in Int

\* What a handler does to the store leaves `again' alone.
LEMMA EndStays ==
  ASSUME NEW b, NEW c, SameEnd(b, c)
  PROVE  /\ \A x : SameEnd(b, [c EXCEPT !.locked = x])
         /\ \A n \in Int : SameEnd(b, SetPts(c, n))
         /\ \A N : SameEnd(b, FetchAlloc(c, N))
         /\ \A R, at : SameEnd(b, SetMsgId(c, R, at))
         /\ \A m : SameEnd(b, Delete(c, m))
         /\ \A r : SameEnd(b, CreatePending(c, r))
<1>1. \A x : SameEnd(b, [c EXCEPT !.locked = x])
  BY DEF SameEnd
<1>2. \A n \in Int : SameEnd(b, SetPts(c, n))
  BY DEF SameEnd, SetPts
<1>3. \A N : SameEnd(b, FetchAlloc(c, N))
  BY DEF SameEnd, FetchAlloc
<1>4. ASSUME NEW R, NEW at
      PROVE  SameEnd(b, SetMsgId(c, R, at))
  <2> DEFINE freed == {m \in R : ById(c, at[m]) # NoMessage}
             moved == R \ freed
             old == {c.id[m] : m \in R}
             To(k) == {m \in moved : at[m] = k}
             I == [m \in Message |-> IF m \in moved THEN at[m]
                                     ELSE IF m \in freed THEN m ELSE c.id[m]]
             U == [k \in Message |-> IF k \in old THEN NoMessage
                                     ELSE c.unsent[k]]
             T == [k \in Message |->
                     IF To(k) # {} THEN CHOOSE m \in To(k) : TRUE
                     ELSE IF k \in old THEN NoMessage ELSE c.tree[k]]
             X == [r \in RandomId |->
                     IF c.random[r] \in freed THEN NoMessage ELSE c.random[r]]
             L == Unplace(c, R) \cup {<<at[m], m>> : m \in moved}
             A == c.aborted \/ \E l \in Unplace(c, R), m \in moved :
                                 c.id[l[2]] = at[m]
  <2>1. SetMsgId(c, R, at) =
          [c EXCEPT !.live = @ \ freed, !.pending = @ \ R, !.id = I,
                    !.unsent = U, !.tree = T, !.random = X,
                    !.temp = @ \ freed, !.use = @ \ freed, !.last = L,
                    !.aborted = A]
    BY Zenon DEF SetMsgId
  <2> HIDE DEF freed, moved, old, To, I, U, T, X, L, A
  <2> QED BY <2>1 DEF SameEnd
<1>5. ASSUME NEW m
      PROVE  SameEnd(b, Delete(c, m))
  <2>1. CASE m = NoMessage
    BY <2>1 DEF Delete
  <2>2. CASE m # NoMessage
    BY <2>2, Zenon DEF SameEnd, Delete
  <2> QED BY <2>1, <2>2
<1>6. \A r : SameEnd(b, CreatePending(c, r))
  BY DEF SameEnd, CreatePending
<1> QED BY <1>1, <1>2, <1>3, <1>4, <1>5, <1>6

\* Nor does any handler but the one of a short push.
LEMMA EndOfHandlers ==
  ASSUME NEW c, SameEnd(c, c)
  PROVE  /\ \A n \in Int : SameEnd(c, WorkNewMessage(c, n))
         /\ \A n \in Int : SameEnd(c, WorkDeletion(c, n))
         /\ \A r : \A n \in Int : SameEnd(c, WorkUpdates(c, r, n))
         /\ \A k : \A n, t \in Int : SameEnd(c, WorkDeleted(c, k, n, t))
         /\ \A N : \A n \in Int : SameEnd(c, WorkDifference(c, N, n))
<1>1. ASSUME NEW d, SameEnd(c, d), NEW n \in Int
      PROVE  SameEnd(c, WorkNewMessage(d, n))
  <2>1. SameEnd(c, GetDifference(d))
    BY <1>1, EndStays DEF GetDifference
  <2>2. SameEnd(c, SetPts(FetchAlloc(d, {n}), n))
    <3>1. SameEnd(c, FetchAlloc(d, {n}))
      BY <1>1, EndStays
    <3> QED BY <3>1, EndStays
  <2> QED BY <1>1, <2>1, <2>2 DEF WorkNewMessage, Check, SameEnd
<1>2. ASSUME NEW n \in Int
      PROVE  SameEnd(c, WorkDeletion(c, n))
  <2>1. SameEnd(c, GetDifference(c)) /\ SameEnd(c, SetPts(c, n))
    BY EndStays DEF GetDifference
  <2> QED BY <2>1 DEF WorkDeletion, Check, SameEnd
<1>3. ASSUME NEW r, NEW n \in Int
      PROVE  SameEnd(c, WorkUpdates(c, r, n))
  <2> DEFINE m == ByRandom(c, r)
  <2>1. SameEnd(c, SetMsgId(c, {m}, [x \in {m} |-> n]))
    BY EndStays
  <2> HIDE DEF m
  <2>2. SameEnd(c, WorkMessageId(c, r, n))
    BY <2>1 DEF WorkMessageId, m
  <2> QED BY <1>1, <2>2 DEF WorkUpdates
<1>4. ASSUME NEW k, NEW n \in Int, NEW t \in Int
      PROVE  SameEnd(c, WorkDeleted(c, k, n, t))
  <2> DEFINE d == Delete(c, ById(c, k))
  <2>1. SameEnd(c, d)
    BY EndStays
  <2>2. WorkDeleted(c, k, n, t) =
          CASE Check(d, n, t) = "next" -> SetPts(d, n)
            [] Check(d, n, t) = "hole" -> GetDifference(d)
            [] Check(d, n, t) \in {"duplicate", "busy"} -> d
    BY DEF WorkDeleted
  <2> HIDE DEF d
  <2>3. SameEnd(c, SetPts(d, n)) /\ SameEnd(c, GetDifference(d))
    BY <2>1, EndStays DEF GetDifference
  <2> QED BY <2>1, <2>2, <2>3 DEF Check, SameEnd
<1>5. ASSUME NEW N, NEW n \in Int
      PROVE  SameEnd(c, WorkDifference(c, N, n))
  <2> DEFINE b == [c EXCEPT !.locked = FALSE]
             d == FetchAlloc(b, N)
             ids == Unsettled(d, (c.pts + 1) .. n)
             Of(k) == ByRandom(d, log[k].from)
             R == {Of(k) : k \in ids}
             at == [m \in R |-> CHOOSE k \in ids : Of(k) = m]
             e == SetMsgId(d, R, at)
  <2>1. WorkDifference(c, N, n) = SetPts(e, n)
    BY DEF WorkDifference
  <2>2. SameEnd(c, b)
    BY EndStays
  <2> HIDE DEF b
  <2>3. SameEnd(c, d)
    BY <2>2, EndStays
  <2> HIDE DEF d
  <2> HIDE DEF at
  <2>4. SameEnd(c, e)
    BY <2>3, EndStays
  <2> HIDE DEF e
  <2> QED BY <2>1, <2>4, EndStays
<1> QED BY <1>1, <1>2, <1>3, <1>4, <1>5

\* The handler of the answer to a sent message does not either.
LEMMA EndOfSent ==
  ASSUME NEW c, SameEnd(c, c), NEW m, NEW n \in Int, NEW i
  PROVE  SameEnd(c, WorkShortSent(c, m, n, i))
<1> DEFINE d == SetMsgId(c, {m}, [x \in {m} |-> n])
<1>1. SameEnd(c, d)
  BY EndStays
<1>2. SameEnd(c, GetDifference(c))
  BY EndStays DEF GetDifference
<1> HIDE DEF d
<1>3. SameEnd(c, SetPts(d, n)) /\ SameEnd(c, [d EXCEPT !.aborted = TRUE])
  BY <1>1, EndStays DEF SameEnd
<1> QED BY <1>1, <1>2, <1>3 DEF WorkShortSent, Check, SameEnd, d

\* The assertion of bl_do_edit_message failed, if it did, for the very next
\* event, whose message a history brought.
AgainExplained ==
  tls.again => \E n \in loaded : n = tls.pts + 1 /\ ById(tls, n) # NoMessage

\* Every step keeps the explanation; a short push that fails the assertion
\* leaves the rest of the store alone.
LEMMA AgainStep ==
  ASSUME IInv, AgainExplained, [Next]_vars
  PROVE  AgainExplained'
<1>0. tls \in Store /\ SameEnd(tls, tls)
  <2>1. tls \in Store /\ tls.pts \in Int
    BY Basics
  <2> QED BY <2>1 DEF Store, SameEnd
<1>1. CASE UNCHANGED <<tls, loaded>>
  BY <1>1 DEF AgainExplained
<1>2. CASE Running /\ SameEnd(tls, tls')
  BY <1>2, <1>0 DEF SameEnd, Running, AgainExplained, Store
<1>3. CASE PushMessage
  <2> USE Basics
  <2>1. PICK n \in 1 .. Len(log) :
          /\ log[n].kind = "message" /\ log[n].from = NoMessage
          /\ tls' = WorkNewMessage(tls, n) \/ tls' = WorkShortMessage(tls, n)
    BY <1>3 DEF PushMessage
  <2>2. Running /\ loaded' = loaded
    BY <1>3 DEF PushMessage
  <2>3. CASE tls' = WorkNewMessage(tls, n)
    BY <1>0, <1>2, <2>2, <2>3, EndOfHandlers
  <2>4. CASE tls' = WorkShortMessage(tls, n)
    <3>1. CASE tls.locked \/ n # tls.pts + 1 \/ tls.tree[n] = NoMessage
      <4>1. tls' = WorkNewMessage(tls, n)
        BY <2>4, <3>1 DEF WorkShortMessage, WorkNewMessage, Check, ById
      <4> QED BY <2>3, <4>1
    <3>2. CASE ~tls.locked /\ n = tls.pts + 1 /\ tls.tree[n] # NoMessage
      <4>1. tls' = [tls EXCEPT !.again = TRUE]
        BY <2>4, <3>2 DEF WorkShortMessage, Check, ById
      <4>2. tls'.pts = tls.pts /\ tls'.tree = tls.tree
        BY <1>0, <4>1 DEF Store
      <4>3. n > tls.pts /\ n \in DOMAIN log
        BY <3>2
      <4>4. n \in loaded
        BY <2>1, <3>2, <4>3 DEF IInv, Behind
      <4> QED BY <2>2, <3>2, <4>2, <4>4 DEF AgainExplained, ById
    <3> QED BY <3>1, <3>2
  <2> QED BY <2>1, <2>3, <2>4
<1>4. CASE SendMessage
  BY <1>0, <1>2, <1>4, EndStays DEF SendMessage
<1>5. CASE GetHistory \/ DeleteMessage
  BY <1>1, <1>5 DEF GetHistory, DeleteMessage, Ask
<1>6. CASE PushDeletion
  BY <1>0, <1>2, <1>6, EndOfHandlers DEF PushDeletion
<1>7. CASE Handle
  <2>0. answers # <<>> => First.at \in Int /\ First.count \in Int
    <3>1. answers # <<>> => First \in Answer
      BY FirstIs
    <3>2. Id \cup {0} \subseteq Int /\ {0, 1} \subseteq Int
      BY Basics
    <3> QED BY <3>1, <3>2 DEF Answer
  <2>1. CASE HandleSent
    BY <1>0, <1>2, <2>1, <2>0, EndOfSent DEF HandleSent, Receive
  <2>2. CASE HandleUpdates
    BY <1>0, <1>2, <2>2, <2>0, EndOfHandlers DEF HandleUpdates, Receive
  <2>3. CASE HandleError
    BY <1>0, <1>2, <2>3, EndStays DEF HandleError, Receive
  <2>4. CASE HandleHistory
    BY <1>0, <1>2, <2>4, EndStays DEF HandleHistory, Receive
  <2>5. CASE HandleDeleted
    BY <1>0, <1>2, <2>5, <2>0, EndOfHandlers DEF HandleDeleted, Receive
  <2>6. CASE HandleDifference
    BY <1>0, <1>2, <2>6, <2>0, EndOfHandlers DEF HandleDifference, Receive
  <2> QED BY <1>7, <2>1, <2>2, <2>3, <2>4, <2>5, <2>6 DEF Handle
<1>8. CASE Server
  BY <1>1, <1>8 DEF Server, Elsewhere, Accept, Refuse, AnswerHistory,
     AnswerDelete, AnswerDifference
<1>9. CASE UNCHANGED vars
  BY <1>1, <1>9 DEF vars
<1> QED BY <1>3, <1>4, <1>5, <1>6, <1>7, <1>8, <1>9 DEF Next

\* All the indexes of the store (trees by id, unsent, random and temporary
\* id, the two lists) hold the same messages under the ids they have now, in
\* whatever order pushes come between the answers, and pushes, answers and
\* differences name, delete and bring messages.  Of the assertions of
\* structures.c and binlog.c only the one of bl_do_edit_message fails, and only
\* at a short push of the next event whose message a history brought.
THEOREM StoreAgrees == Spec => []IndexesAgree
<1>1. Init => AgainExplained
  BY DEF Init, EmptyStore, AgainExplained
<1>2. IInv /\ AgainExplained => IndexesAgree
  BY DEF IInv, Good, Agrees, IndexesAgree, AgainExplained
<1>3. IInv /\ AgainExplained /\ [Next]_vars => AgainExplained'
  BY AgainStep
<1> QED BY Invariance, <1>1, <1>2, <1>3, PTL DEF Spec

\* A message that was sent never takes the id of another message's event,
\* whichever of the answer, the push and the difference names it.
THEOREM OwnId == Spec => []GetsOwnId
<1>1. IInv => GetsOwnId
  BY DEF IInv, Good, Named, Owns, GetsOwnId
<1> QED BY Invariance, <1>1, PTL

\* pts never passes the event of a message that is still pending here.
THEOREM Settling == Spec => []SentIsSettled
<1>1. IInv => SentIsSettled
  BY DEF IInv, Settled, SentIsSettled
<1> QED BY Invariance, <1>1, PTL

\* A message of somebody else is announced at most once, and before pts passes
\* it, unless a history brought it or it was deleted.
THEOREM ToldOnce == Spec => []AnnouncedOnce
<1>1. IInv => AnnouncedOnce
  BY DEF IInv
<1> QED BY Invariance, <1>1, PTL
=============================================================================
