------------------------------ MODULE Updates ------------------------------
(***************************************************************************)
(* How the client keeps up with the server's events (tgl/updates.c and the *)
(* "Get difference" part of tgl/queries.c).                                *)
(*                                                                         *)
(* The server numbers what happens to the account in two boxes, pts        *)
(* (messages, reads, deletions) and qts (secret chats), and numbers some   *)
(* of the containers it pushes with seq.  Pushes get lost, overtake each   *)
(* other and arrive twice.  The client applies a pushed event when its     *)
(* number is the next one; when it sees a hole it locks itself             *)
(* (TGL_LOCK_DIFF) and asks for the difference; an hourly lookup finds     *)
(* out about events whose pushes were all lost.  The counters are saved in *)
(* a state file that the next process starts from.                         *)
(*                                                                         *)
(* The answer to a request is taken as delivered once: that is what        *)
(* Queries and QueryContract establish.  Leaving out: date, which no       *)
(* decision here reads; channel pts, which never leave 0; updates with     *)
(* pts_count = 0, which are applied again whenever they come again.        *)
(***************************************************************************)
EXTENDS Integers

CONSTANTS
  MaxPts, MaxQts, MaxSeq,  \* the numbers the server may reach
  MaxCount,                \* the most numbers one update takes (pts_count)
  MaxRestarts,             \* how often the program may end and start again
  Kinds,                   \* the kinds of push the server uses
  Strangers,               \* the kinds that may name a peer, or a message sent,
                           \* that the client lacks
  Errors                   \* may the request for a difference fail?

PushKinds == {"message", "short", "updates", "combined", "too_long",
              "sent", "affected"}

\* These come only in the answer to a request.
Replies == {"sent", "affected", "combined"}

ASSUME BoundsAssumption ==
  /\ {MaxPts, MaxQts, MaxSeq, MaxRestarts} \subseteq Nat
  /\ MaxCount \in Nat \ {0}
  /\ Kinds \subseteq PushKinds
  /\ Strangers \subseteq {"message", "short", "sent"}
  /\ Errors \in BOOLEAN

VARIABLES
  tls,       \* struct tgl_state, with what is known of the events applied
  answer,    \* the answer to tls.query on its way
  lookup,    \* the request of the hourly lookup, or its answer on its way
  file,      \* the state file
  restarts,
  srv,       \* the server's counters
  events,    \* the numbered updates that happened, ever
  pushes,    \* the pushes that may still arrive, again or for the first time
  earlier    \* the events that processes before this one have applied

vars == <<tls, answer, lookup, file, restarts, srv, events, pushes, earlier>>

Box == {"pts", "qts"}
Limit == [pts |-> MaxPts, qts |-> MaxQts]

\* An update inside a push: the number it ends at, the numbers it takes, and
\* whether the client has the peers it names.  A "none" update is not
\* numbered (typing, status).
Update == [box : Box, at : Nat, count : Nat, known : BOOLEAN]
None == [box |-> "none", at |-> 0, count |-> 0, known |-> TRUE]

NoQuery == [kind |-> "none", pts |-> 0, qts |-> 0, start |-> FALSE]
NoAnswer == [kind |-> "none", pts |-> 0, qts |-> 0, seq |-> 0, news |-> {}]
NoLookup == [kind |-> "none", pts |-> 0, qts |-> 0, seq |-> 0]

Counters == [pts : Nat, qts : Nat, seq : Nat]
Number == 1 .. MaxPts + MaxQts
Nothing == [b \in Box |-> [n \in Number |-> 0]]

\* A process that starts with the counters c (read_state_file).
\*   done[b][n]  how often this process applied the event that ends at n
\*   base[b]     the number after which this process has to apply every event
\*   origin[b]   the number at which the account was taken up: get_state skips
\*               the past, and so does the first update while pts is 0
Fresh(c, o) ==
  [pts |-> c.pts, qts |-> c.qts, seq |-> c.seq, locked |-> FALSE,
   query |-> NoQuery, phase |-> "login", done |-> Nothing,
   base |-> [b \in Box |-> c[b]], origin |-> o]

Alive == tls.phase \in {"login", "started"}
-----------------------------------------------------------------------------
(* The pieces of the handlers, as functions of the client's state s.       *)

\* bl_do_set_pts, bl_do_set_qts, bl_do_set_seq
Set(s, counter, v) ==
  IF s.locked \/ v <= s[counter] THEN s ELSE [s EXCEPT ![counter] = v]

\* The effects of the updates u in E, whatever they are: each is counted.
Counted(d, E) ==
  [b \in Box |-> [n \in Number |->
     IF \E u \in E : u.box = b /\ u.at = n THEN d[b][n] + 1 ELSE d[b][n]]]

Apply(s, E) == [s EXCEPT !.done = Counted(s.done, E)]

\* tgl_do_get_difference; start says that the callback is tgl_started_cb,
\* which is told of a failure when the lock is taken.
GetDifference(s, start) ==
  IF s.locked
  THEN [s EXCEPT !.phase = IF start THEN "failed" ELSE @]
  ELSE [s EXCEPT !.locked = TRUE,
                 !.query = [kind |-> IF s.pts > 0 THEN "difference" ELSE "state",
                            pts |-> s.pts, qts |-> s.qts, start |-> start]]

\* As below, taking what comes after a hole.
CheckNoHole(s, u) ==
  IF u.at < s[u.box] + u.count THEN "duplicate"
  ELSE IF s.locked THEN "busy" ELSE "next"

\* tgl_check_pts_diff and tgl_check_qts_diff: only pts takes any first value.
Check(s, u) ==
  IF u.box = "pts" /\ s.pts = 0 THEN "next"
  ELSE CASE u.at < s[u.box] + u.count -> "duplicate"
         [] u.at > s[u.box] + u.count -> "hole"
         [] u.at = s[u.box] + u.count -> IF s.locked THEN "busy" ELSE "next"

\* The first update while pts is 0 is where the account is taken up.
TakeUp(s, u) ==
  IF u.box = "pts" /\ s.pts = 0
  THEN [s EXCEPT !.base["pts"] = u.at - u.count,
                 !.origin["pts"] = u.at - u.count]
  ELSE s

\* What follows a successful check: the switch of the handler, then the
\* counter.
Advance(s, u) == Set(Apply(TakeUp(s, u), {u}), u.box, u.at)

\* tglu_work_update with check_only = 0.  tglf_fetch_alloc_message answers
\* NULL for a message of an unknown peer, after asking for the difference, and
\* assert (M) ends the program.
WorkUpdate(s, u) ==
  IF s.locked \/ u.box = "none" THEN s
  ELSE CASE Check(s, u) = "duplicate" -> s
         [] Check(s, u) = "hole" -> GetDifference(s, FALSE)
         [] Check(s, u) = "next" ->
              IF u.known THEN Advance(s, u)
              ELSE [GetDifference(s, FALSE) EXCEPT !.phase = "aborted"]

\* tglu_work_update_short_message and tglu_work_update_short_chat_message
WorkShortMessage(s, u) ==
  CASE Check(s, u) = "duplicate" -> s
    [] Check(s, u) = "hole" -> GetDifference(s, FALSE)
    [] Check(s, u) = "next" ->
         IF u.known THEN Advance(s, u) ELSE GetDifference(s, FALSE)

\* tglu_work_update_short_sent_message, u.known: is the message still pending?
WorkShortSent(s, u) ==
  CASE Check(s, u) = "duplicate" -> s
    [] Check(s, u) = "hole" -> GetDifference(s, FALSE)
    [] Check(s, u) = "next" -> IF u.known THEN Advance(s, u) ELSE s

\* As below, taking what comes after a hole.
SkipNoHole(s, seq) ==
  IF seq # 0 /\ (s.seq = 0 \/ seq <= s.seq) THEN "drop" ELSE "take"

\* do_skip_seq
Skip(s, seq) ==
  IF seq = 0 THEN "take"
  ELSE CASE s.seq = 0 \/ seq <= s.seq -> "drop"
         [] s.seq # 0 /\ seq > s.seq + 1 -> "hole"
         [] s.seq # 0 /\ seq = s.seq + 1 -> "take"

\* tglu_work_updates and tglu_work_updates_combined (seq_start is seq in the
\* first).
WorkUpdates(s, p) ==
  CASE Skip(s, p.seq_start) = "drop" -> s
    [] Skip(s, p.seq_start) = "hole" -> GetDifference(s, FALSE)
    [] Skip(s, p.seq_start) = "take" ->
         Set(WorkUpdate(WorkUpdate(s, p.first), p.second), "seq", p.seq)

\* mark_read_on_receive and delete_msg_on_answer: what was affected changes in
\* any case; the number counts when it is the next, and setting it does nothing
\* under the lock.
WorkAffected(s, u) ==
  CASE Check(s, u) = "next" -> IF s.locked THEN s ELSE Advance(s, u)
    [] Check(s, u) = "hole" -> GetDifference(s, FALSE)
    [] Check(s, u) \in {"duplicate", "busy"} -> s

\* tglu_work_any_updates (the call with check_only = 1 returns at once)
WorkAnyUpdates(s, p) ==
  IF p.kind = "affected" THEN WorkAffected(s, p.first)
  ELSE IF s.locked THEN s
  ELSE CASE p.kind = "message" -> WorkShortMessage(s, p.first)
         [] p.kind = "short" -> WorkUpdate(s, p.first)
         [] p.kind = "sent" -> WorkShortSent(s, p.first)
         [] p.kind = "too_long" -> GetDifference(s, FALSE)
         [] p.kind \in {"updates", "combined"} -> WorkUpdates(s, p)

\* get_state_on_answer: the past is not fetched.
StateAnswered(s, a) ==
  LET u == [s EXCEPT !.locked = FALSE, !.query = NoQuery]
      t == Set(Set(Set(u, "pts", a.pts), "qts", a.qts), "seq", a.seq)
  IN [t EXCEPT !.base = [b \in Box |-> t[b]],
               !.origin = [b \in Box |-> t[b]],
               !.phase = IF s.query.start THEN "started" ELSE @]

\* get_difference_on_answer: the lock goes first, then the updates are applied
\* unchecked, then the counters move; a slice asks for the rest.
DifferenceAnswered(s, a) ==
  LET u == [s EXCEPT !.locked = FALSE, !.query = NoQuery]
      t == Set(Set(Apply(u, a.news), "pts", a.pts), "qts", a.qts)
      Started(r) == [r EXCEPT !.phase = IF s.query.start THEN "started" ELSE @]
  IN CASE a.kind = "empty" -> Started(Set(u, "seq", a.seq))
       [] a.kind = "full"  -> Started(Set(t, "seq", a.seq))
       [] a.kind = "slice" -> GetDifference(t, s.query.start)
-----------------------------------------------------------------------------
Zero == [pts |-> 0, qts |-> 0, seq |-> 0]

Init ==
  /\ tls = Fresh(Zero, [b \in Box |-> 0])
  /\ answer = NoAnswer
  /\ lookup = NoLookup
  /\ file = Zero
  /\ restarts = 0
  /\ srv = Zero
  /\ events = {}
  /\ pushes = {}
  /\ earlier = {}

(***************************************************************************)
(* The server.                                                             *)
(***************************************************************************)
\* The updates that may come next in a box after the counters c, in a push of
\* kind k.
NextIn(b, c, k) ==
  { u \in [box : {b}, at : c[b] + 1 .. Limit[b], count : 1 .. MaxCount,
           known : {TRUE} \cup {x \in {FALSE} : k \in Strangers}] :
    /\ u.at = c[b] + u.count
    /\ b = "qts" => u.count = 1 /\ u.known }

Moved(c, u) == IF u.box = "none" THEN c ELSE [c EXCEPT ![u.box] = u.at]

\* The server pushes the updates u and v; ends and starts are seq numbers.
Push(k, starts, ends, u, v) ==
  /\ k \in Kinds
  /\ srv' = [Moved(Moved(srv, u), v) EXCEPT !.seq = IF ends = 0 THEN @ ELSE ends]
  /\ events' = events \cup ({u, v} \ {None})
  /\ pushes' = pushes \cup
       {[kind |-> k, seq_start |-> starts, seq |-> ends, first |-> u, second |-> v]}
  /\ UNCHANGED <<tls, answer, lookup, file, restarts, earlier>>

PushMessage ==
  \E k \in {"message", "sent", "affected"} : \E u \in NextIn("pts", srv, k) :
    Push(k, 0, 0, u, None)

PushShort ==
  \E b \in Box : \E u \in NextIn(b, srv, "short") : Push("short", 0, 0, u, None)

PushUpdates ==
  \E b \in Box : \E u \in NextIn(b, srv, "updates") :
  \E v \in {None} \cup UNION {NextIn(c, Moved(srv, u), "updates") : c \in Box} :
    \/ Push("updates", 0, 0, u, v)
    \/ /\ srv.seq + 1 <= MaxSeq
       /\ Push("updates", srv.seq + 1, srv.seq + 1, u, v)
    \/ /\ srv.seq + 2 <= MaxSeq
       /\ v # None
       /\ Push("combined", srv.seq + 1, srv.seq + 2, u, v)

PushTooLong ==
  /\ \A p \in pushes : p.kind # "too_long"
  /\ Push("too_long", 0, 0, None, None)

\* What happened after the request's counters, up to the numbers p and q.
News(p, q) ==
  { e \in events : \/ e.box = "pts" /\ tls.query.pts < e.at /\ e.at <= p
                   \/ e.box = "qts" /\ tls.query.qts < e.at /\ e.at <= q }

\* The server answers the request for the difference or the state from what it
\* knows now: all, or a first slice of it.
Answer ==
  /\ tls.query # NoQuery /\ answer = NoAnswer
  /\ \/ /\ tls.query.kind = "state"
        /\ answer' = [kind |-> "state", pts |-> srv.pts, qts |-> srv.qts,
                      seq |-> srv.seq, news |-> {}]
     \/ /\ tls.query.kind = "difference"
        /\ LET news == News(srv.pts, srv.qts)
           IN answer' = [kind |-> IF news = {} THEN "empty" ELSE "full",
                         pts |-> srv.pts, qts |-> srv.qts, seq |-> srv.seq,
                         news |-> news]
     \/ /\ tls.query.kind = "difference"
        /\ \E p \in {tls.query.pts} \cup {e.at : e \in {x \in events : x.box = "pts"}},
              q \in {tls.query.qts} \cup {e.at : e \in {x \in events : x.box = "qts"}} :
             /\ p >= tls.query.pts /\ q >= tls.query.qts
             /\ News(p, q) # {} /\ News(p, q) # News(srv.pts, srv.qts)
             /\ answer' = [kind |-> "slice", pts |-> p, qts |-> q, seq |-> 0,
                           news |-> News(p, q)]
  /\ UNCHANGED <<tls, lookup, file, restarts, srv, events, pushes, earlier>>

AnswerLookup ==
  /\ lookup.kind = "asked"
  /\ lookup' = [kind |-> "answered", pts |-> srv.pts, qts |-> srv.qts,
                seq |-> srv.seq]
  /\ UNCHANGED <<tls, answer, file, restarts, srv, events, pushes, earlier>>

Server == PushMessage \/ PushShort \/ PushUpdates \/ PushTooLong
          \/ Answer \/ AnswerLookup

(***************************************************************************)
(* The client.                                                             *)
(***************************************************************************)
\* A push arrives, not for the last time, or the answer to a request of the
\* user's, once (rpc_execute_answer knows no pushed updates_combined).
Deliver ==
  /\ Alive
  /\ \E p \in pushes :
       /\ tls' = WorkAnyUpdates(tls, p)
       /\ pushes' = IF p.kind \in Replies THEN pushes \ {p} ELSE pushes
  /\ UNCHANGED <<answer, lookup, file, restarts, srv, events, earlier>>

\* tgl_started: the end of the login asks for the difference.
Start ==
  /\ tls.phase = "login" /\ ~tls.query.start
  /\ tls' = GetDifference(tls, TRUE)
  /\ UNCHANGED <<answer, lookup, file, restarts, srv, events, pushes, earlier>>

\* work_new_session_created
NewSession ==
  /\ tls.phase = "started" /\ ~tls.locked
  /\ tls' = GetDifference(tls, FALSE)
  /\ UNCHANGED <<answer, lookup, file, restarts, srv, events, pushes, earlier>>

HandleAnswer ==
  /\ Alive /\ answer # NoAnswer
  /\ tls' = IF answer.kind = "state" THEN StateAnswered(tls, answer)
            ELSE DifferenceAnswered(tls, answer)
  /\ answer' = NoAnswer
  /\ UNCHANGED <<lookup, file, restarts, srv, events, pushes, earlier>>

\* q_void_on_error: the callback is told and nothing else happens.
HandleError ==
  /\ Errors
  /\ Alive /\ tls.query # NoQuery
  /\ tls' = [tls EXCEPT !.query = NoQuery,
                        !.phase = IF tls.query.start THEN "failed" ELSE @]
  /\ answer' = NoAnswer
  /\ UNCHANGED <<lookup, file, restarts, srv, events, pushes, earlier>>

\* tgl_do_lookup_state, once an hour
Lookup ==
  /\ Alive /\ ~tls.locked /\ lookup = NoLookup
  /\ lookup' = [NoLookup EXCEPT !.kind = "asked"]
  /\ UNCHANGED <<tls, answer, file, restarts, srv, events, pushes, earlier>>

\* As below, comparing seq alone.
HandleLookupSeq ==
  /\ Alive /\ lookup.kind = "answered"
  /\ tls' = IF lookup.seq > tls.seq THEN GetDifference(tls, FALSE) ELSE tls
  /\ lookup' = NoLookup
  /\ UNCHANGED <<answer, file, restarts, srv, events, pushes, earlier>>

\* lookup_state_on_answer
HandleLookup ==
  /\ Alive /\ lookup.kind = "answered"
  /\ tls' = IF \E c \in {"pts", "qts", "seq"} : lookup[c] > tls[c]
            THEN GetDifference(tls, FALSE) ELSE tls
  /\ lookup' = NoLookup
  /\ UNCHANGED <<answer, file, restarts, srv, events, pushes, earlier>>

\* As below, with pts and qts swapped.
WriteStateFileSwapped ==
  /\ Alive
  /\ \E c \in {"pts", "qts", "seq"} : file[c] < tls[c]
  /\ file' = [pts |-> tls.qts, qts |-> tls.pts, seq |-> tls.seq]
  /\ UNCHANGED <<tls, answer, lookup, restarts, srv, events, pushes, earlier>>

\* write_state_file, between two rounds of the event loop
WriteStateFile ==
  /\ Alive
  /\ \E c \in {"pts", "qts", "seq"} : file[c] < tls[c]
  /\ file' = [pts |-> tls.pts, qts |-> tls.qts, seq |-> tls.seq]
  /\ UNCHANGED <<tls, answer, lookup, restarts, srv, events, pushes, earlier>>

\* The program ends, at any moment, and starts again (read_state_file).
Restart ==
  /\ restarts < MaxRestarts
  /\ restarts' = restarts + 1
  /\ tls' = Fresh(file, tls.origin)
  /\ earlier' = earlier \cup {e \in events : tls.done[e.box][e.at] > 0}
  /\ answer' = NoAnswer /\ lookup' = NoLookup
  /\ pushes' = {p \in pushes : p.kind \notin Replies}
  /\ UNCHANGED <<file, srv, events>>

Next == \/ Server \/ Deliver \/ Start \/ NewSession \/ HandleAnswer
        \/ HandleError \/ Lookup \/ HandleLookup \/ WriteStateFile \/ Restart

Spec == Init /\ [][Next]_vars

\* The requests for the difference and the hourly lookup go on, and the server
\* answers them; nothing is assumed of the pushes.
Fairness ==
  /\ WF_vars(Start) /\ WF_vars(Answer) /\ WF_vars(HandleAnswer)
  /\ WF_vars(Lookup) /\ WF_vars(AnswerLookup) /\ WF_vars(HandleLookup)

LiveSpec == Spec /\ Fairness
-----------------------------------------------------------------------------
Push_ == [kind : PushKinds, seq_start : Nat, seq : Nat,
          first : Update \cup {None}, second : Update \cup {None}]

\* The types of all variables; the process's record holds the client's
\* counters, its lock and its outstanding request.
TypeOK ==
  /\ tls \in [pts : 0 .. MaxPts, qts : 0 .. MaxQts, seq : 0 .. MaxSeq, locked : BOOLEAN,
              query : [kind : {"none", "state", "difference"}, pts : Nat,
                       qts : Nat, start : BOOLEAN],
              phase : {"login", "started", "failed", "aborted"},
              done : [Box -> [Number -> Nat]],
              base : [Box -> Nat], origin : [Box -> Nat]]
  /\ answer \in [kind : {"none", "state", "empty", "full", "slice"}, pts : Nat,
                 qts : Nat, seq : Nat, news : SUBSET Update]
  /\ lookup \in [kind : {"none", "asked", "answered"}, pts : Nat, qts : Nat,
                 seq : Nat]
  /\ file \in Counters /\ srv \in Counters
  /\ restarts \in 0 .. MaxRestarts
  /\ events \subseteq Update /\ earlier \subseteq events
  /\ pushes \subseteq Push_

\* What a process has applied is exactly what its counters say: every event
\* after the number it started from and up to pts (or qts), none beyond, in
\* whatever order pushes and differences arrived.
AppliedExactly ==
  \A e \in events : e.at > tls.base[e.box] =>
    (tls.done[e.box][e.at] > 0 <=> e.at <= tls[e.box])

\* No process applies an event twice: not the copy of a push, not a push that
\* overtook the difference which holds its event, not a second slice.
AppliedOnce ==
  \A b \in Box : \A n \in Number : tls.done[b][n] <= 1

\* Over the restarts no event is skipped: each one up to the counters was
\* applied by this process or by an earlier one, because the state file is
\* never ahead of what was applied.
NothingLost ==
  \A e \in events :
    tls.origin[e.box] < e.at /\ e.at <= tls[e.box] =>
      tls.done[e.box][e.at] > 0 \/ e \in earlier

\* seq never runs ahead of pts and qts: a container whose seq counts as seen
\* has no event that is still missing, although its updates are checked one by
\* one and may be dropped in the middle of it.
SeqCovers ==
  \A p \in pushes : p.seq # 0 /\ p.seq <= tls.seq =>
    \A u \in {p.first, p.second} \ {None} : u.at <= tls[u.box]

\* Updates are dropped "during get_difference", so the lock is held exactly
\* while a difference (or the state) is asked for.
LockMatches == Alive => (tls.locked <=> tls.query # NoQuery)

\* Every event reaches the program, even when all its pushes are lost, unless
\* the program ended.
CatchesUp ==
  \A b \in Box : \A n \in 1 .. Limit[b] :
    srv[b] = n ~> (tls[b] >= n \/ ~Alive)

\* The abstract stream: the counters are its positions, the state file holds
\* the saved one, and what was applied is what was taken.
Stream == INSTANCE EventStream
  WITH MaxNumber <- MaxPts + MaxQts,
       upto <- [b \in Box |-> tls[b]],
       saved <- [b \in Box |-> file[b]],
       seen <- {e \in events : tls.done[e.box][e.at] > 0}

\* The handlers, the lock, the differences and the state file implement the
\* reading of a numbered stream.
StreamSpec == Stream!Spec
=============================================================================
