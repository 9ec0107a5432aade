--------------------------- MODULE Updates_proofs ---------------------------
(***************************************************************************)
(* Proofs about the update sequencing, for any bounds on the numbers, any  *)
(* kinds of push and any number of restarts.                               *)
(***************************************************************************)
EXTENDS Updates, TLAPS

Query == [kind : {"none", "state", "difference"}, pts : Nat, qts : Nat,
          start : BOOLEAN]

Counter == {"pts", "qts", "seq"}

Client == [pts : 0 .. MaxPts, qts : 0 .. MaxQts, seq : 0 .. MaxSeq,
           locked : BOOLEAN, query : Query,
           phase : {"login", "started", "failed", "aborted"},
           done : [Box -> [Number -> Nat]],
           base : [Box -> Nat], origin : [Box -> Nat]]

\* The events are numbered by the server, without overlap.
Numbered(E, c) ==
  /\ \A e \in E : /\ e \in Update
                  /\ e.at \in Number
                  /\ e.count >= 1 /\ e.count <= e.at
                  /\ e.at <= c[e.box]
  /\ \A e, f \in E : e.box = f.box /\ e # f =>
       e.at <= f.at - f.count \/ f.at <= e.at - e.count

Numbering ==
  /\ srv \in Counters /\ file \in Counters
  /\ srv.pts <= MaxPts /\ srv.qts <= MaxQts /\ srv.seq <= MaxSeq
  /\ Numbered(events, srv)

\* The counters of the client s tell what it has applied.
Exact(s, E) ==
  /\ \A b \in Box : \A n \in Number :
       /\ s.done[b][n] <= 1
       /\ s.done[b][n] > 0 => n <= s[b]
  /\ \A b \in Box : s.base[b] <= s[b]
  /\ \A e \in E : s.base[e.box] < e.at /\ e.at <= s[e.box] => s.done[e.box][e.at] > 0

\* What a process need not apply, earlier ones have.
Covered(s, E, A) ==
  \A e \in E : e.at <= s.base[e.box] => e.at <= s.origin[e.box] \/ e \in A

\* The state file f is behind the client, and ahead of nothing unapplied.
Saved(s, E, A, f) ==
  /\ \A c \in Counter : f[c] <= s[c]
  /\ \A e \in E : e.at <= f[e.box] =>
       e.at <= s.origin[e.box] \/ s.done[e.box][e.at] > 0 \/ e \in A

\* A request was made under the lock, from the counters as they still are.
Asked(s) ==
  /\ s.query # NoQuery => s.locked
  /\ s.query.kind = "none" => s.query = NoQuery
  /\ s.query.kind = "difference" => s.query.pts = s.pts /\ s.query.qts = s.qts
  /\ s.query.kind = "state" => s.pts = 0

Held(s) == ~Errors /\ s.locked => s.query # NoQuery

Good(s) ==
  /\ s \in Client
  /\ \A c \in Counter : s[c] <= srv[c]
  /\ Exact(s, events)
  /\ Covered(s, events, earlier)
  /\ Saved(s, events, earlier, file)
  /\ Asked(s)
  /\ Held(s)

\* An answer belongs to the request, and holds what happened after it.
Answered ==
  /\ answer # NoAnswer => answer.kind # "none" /\ tls.query # NoQuery
  /\ answer.kind = "state" => tls.query.kind = "state"
  /\ answer.kind \in {"empty", "full", "slice"} => tls.query.kind = "difference"
  /\ answer.pts <= srv.pts /\ answer.qts <= srv.qts /\ answer.seq <= srv.seq
  /\ answer.kind \in {"full", "slice"} => answer.news = News(answer.pts, answer.qts)
  /\ answer.news \subseteq events

Pushed ==
  \A p \in pushes :
    /\ p.seq <= srv.seq
    /\ {p.first, p.second} \subseteq events \cup {None}
    /\ p.kind \in {"message", "sent", "affected"} => p.first \in events

IInv ==
  /\ TypeOK
  /\ Numbering
  /\ Good(tls)
  /\ Answered
  /\ Pushed
-----------------------------------------------------------------------------
\* What the operators on the client's record do, field by field.
LEMMA CountedType ==
  ASSUME NEW d \in [Box -> [Number -> Nat]], NEW E
  PROVE  Counted(d, E) \in [Box -> [Number -> Nat]]
<1>1. ASSUME NEW b \in Box, NEW n \in Number
      PROVE  d[b][n] + 1 \in Nat /\ d[b][n] \in Nat
  OBVIOUS
<1>. QED
  BY <1>1 DEF Counted

\* Only the events in E are counted, each once.
LEMMA CountedIs ==
  ASSUME NEW d \in [Box -> [Number -> Nat]], NEW E, NEW b \in Box, NEW n \in Number
  PROVE  /\ (\E u \in E : u.box = b /\ u.at = n) => Counted(d, E)[b][n] = d[b][n] + 1
         /\ ~(\E u \in E : u.box = b /\ u.at = n) => Counted(d, E)[b][n] = d[b][n]
  BY Zenon DEF Counted

\* Applying events changes what is done and nothing else.
LEMMA ApplyIs ==
  ASSUME NEW s \in Client, NEW E
  PROVE  /\ Apply(s, E) \in Client
         /\ Apply(s, E).done = Counted(s.done, E)
         /\ \A c \in Counter : Apply(s, E)[c] = s[c]
         /\ Apply(s, E).locked = s.locked /\ Apply(s, E).query = s.query
         /\ Apply(s, E).phase = s.phase
         /\ Apply(s, E).base = s.base /\ Apply(s, E).origin = s.origin
  BY CountedType DEF Client, Counter, Apply

\* A setter changes one counter, upwards, and not under the lock.
LEMMA SetIs ==
  ASSUME NEW s \in Client, NEW c \in Counter, NEW v \in Nat,
         c = "pts" => v <= MaxPts, c = "qts" => v <= MaxQts, c = "seq" => v <= MaxSeq
  PROVE  /\ Set(s, c, v) \in Client
         /\ Set(s, c, v)[c] = IF s.locked \/ v <= s[c] THEN s[c] ELSE v
         /\ \A d \in Counter \ {c} : Set(s, c, v)[d] = s[d]
         /\ Set(s, c, v).done = s.done
         /\ Set(s, c, v).locked = s.locked /\ Set(s, c, v).query = s.query
         /\ Set(s, c, v).phase = s.phase
         /\ Set(s, c, v).base = s.base /\ Set(s, c, v).origin = s.origin
<1>1. CASE s.locked \/ v <= s[c]
  BY <1>1 DEF Set
<1>2. CASE ~(s.locked \/ v <= s[c])
  <2>1. Set(s, c, v) = [s EXCEPT ![c] = v]
    BY <1>2 DEF Set
  <2>2. [s EXCEPT ![c] = v] \in Client
    BY BoundsAssumption DEF Client, Counter
  <2>. QED
    BY <1>2, <2>1, <2>2 DEF Client, Counter
<1>. QED
  BY <1>1, <1>2

\* Asking for the difference takes the lock and keeps the counters.
LEMMA GetDifferenceIs ==
  ASSUME NEW s \in Client, NEW st \in BOOLEAN
  PROVE  LET r == GetDifference(s, st)
         IN /\ r \in Client
            /\ r.locked
            /\ r.query = IF s.locked THEN s.query
                         ELSE [kind |-> IF s.pts > 0 THEN "difference" ELSE "state",
                               pts |-> s.pts, qts |-> s.qts, start |-> st]
            /\ \A c \in Counter : r[c] = s[c]
            /\ r.done = s.done /\ r.base = s.base /\ r.origin = s.origin
<1>. DEFINE r == GetDifference(s, st)
<1>1. CASE s.locked
  BY <1>1 DEF Client, Counter, GetDifference
<1>2. CASE ~s.locked
  <2>. DEFINE q == [kind |-> IF s.pts > 0 THEN "difference" ELSE "state",
                    pts |-> s.pts, qts |-> s.qts, start |-> st]
  <2>1. q \in Query
    BY BoundsAssumption DEF Client, Query
  <2>2. r = [s EXCEPT !.locked = TRUE, !.query = q]
    BY <1>2 DEF GetDifference
  <2>. HIDE DEF q
  <2>3. r \in Client /\ r.locked /\ r.query = q
    BY <2>1, <2>2 DEF Client
  <2>4. /\ \A c \in Counter : r[c] = s[c]
        /\ r.done = s.done /\ r.base = s.base /\ r.origin = s.origin
    BY <2>2 DEF Client, Counter
  <2>. QED
    BY <1>2, <2>3, <2>4 DEF q
<1>. QED
  BY <1>1, <1>2

\* Only the first update in pts moves the place where the account is taken up.
LEMMA TakeUpIs ==
  ASSUME NEW s \in Client, NEW u \in Update, u.count <= u.at
  PROVE  LET r == TakeUp(s, u)
         IN /\ r \in Client
            /\ r.locked = s.locked /\ r.query = s.query /\ r.phase = s.phase
            /\ \A c \in Counter : r[c] = s[c]
            /\ r.done = s.done
            /\ r.base["qts"] = s.base["qts"] /\ r.origin["qts"] = s.origin["qts"]
            /\ u.box = "pts" /\ s.pts = 0 =>
                 r.base["pts"] = u.at - u.count /\ r.origin["pts"] = u.at - u.count
            /\ ~(u.box = "pts" /\ s.pts = 0) => r = s
<1>. DEFINE r == TakeUp(s, u)
            n == u.at - u.count
<1>1. CASE ~(u.box = "pts" /\ s.pts = 0)
  BY <1>1 DEF TakeUp
<1>2. CASE u.box = "pts" /\ s.pts = 0
  <2>1. n \in Nat
    BY DEF Update
  <2>2. r = [s EXCEPT !.base["pts"] = n, !.origin["pts"] = n]
    BY <1>2 DEF TakeUp
  <2>. HIDE DEF n
  <2>3. /\ [s.base EXCEPT !["pts"] = n] \in [Box -> Nat]
        /\ [s.origin EXCEPT !["pts"] = n] \in [Box -> Nat]
    BY <2>1 DEF Client, Box
  <2>4. r = [s EXCEPT !.base = [s.base EXCEPT !["pts"] = n],
                      !.origin = [s.origin EXCEPT !["pts"] = n]]
    BY <2>2 DEF Client
  <2>5. r \in Client
    BY <2>3, <2>4 DEF Client
  <2>6. /\ r.locked = s.locked /\ r.query = s.query /\ r.phase = s.phase
        /\ \A c \in Counter : r[c] = s[c]
        /\ r.done = s.done
    BY <2>4 DEF Client, Counter
  <2>7. /\ r.base = [s.base EXCEPT !["pts"] = n]
        /\ r.origin = [s.origin EXCEPT !["pts"] = n]
    BY <2>4 DEF Client
  <2>8. r.base["pts"] = n /\ r.origin["pts"] = n
    BY <2>7 DEF Client, Box
  <2>9. r.base["qts"] = s.base["qts"] /\ r.origin["qts"] = s.origin["qts"]
    BY <2>7 DEF Client, Box
  <2>. QED
    BY <1>2, <2>5, <2>6, <2>8, <2>9 DEF n
<1>. QED
  BY <1>1, <1>2
-----------------------------------------------------------------------------
\* Good does not depend on the phase, nor on the request beyond Asked and Held.
LEMMA SameGood ==
  ASSUME Numbering, NEW s, Good(s), NEW r \in Client,
         \A c \in Counter : r[c] = s[c],
         r.done = s.done, r.base = s.base, r.origin = s.origin,
         Asked(r), Held(r)
  PROVE  Good(r)
<1>1. \A e \in events : e.box \in Box /\ e.box \in Counter
  BY DEF Numbering, Numbered, Update, Box, Counter
<1>2. \A b \in Box : b \in Counter
  BY DEF Box, Counter
<1>3. Exact(r, events)
  BY <1>1, <1>2 DEF Good, Exact
<1>4. Covered(r, events, earlier)
  BY <1>1 DEF Good, Covered
<1>5. Saved(r, events, earlier, file)
  BY <1>1 DEF Good, Saved
<1>. QED
  BY <1>3, <1>4, <1>5 DEF Good

\* Asking for the difference keeps the client good.
LEMMA GetDifferenceGood ==
  ASSUME Numbering, NEW s, Good(s), NEW st \in BOOLEAN
  PROVE  Good(GetDifference(s, st))
<1>. DEFINE r == GetDifference(s, st)
<1>1. s \in Client
  BY DEF Good
<1>2. /\ r \in Client /\ r.locked
      /\ r.query = IF s.locked THEN s.query
                   ELSE [kind |-> IF s.pts > 0 THEN "difference" ELSE "state",
                         pts |-> s.pts, qts |-> s.qts, start |-> st]
      /\ \A c \in Counter : r[c] = s[c]
      /\ r.done = s.done /\ r.base = s.base /\ r.origin = s.origin
  BY <1>1, GetDifferenceIs
<1>. HIDE DEF r
<1>3. r.query # NoQuery \/ s.locked
  BY <1>2 DEF NoQuery
<1>4. Asked(r)
  <2>1. CASE s.locked
    BY <2>1, <1>2 DEF Good, Asked, Counter
  <2>2. CASE ~s.locked
    BY <2>2, <1>1, <1>2 DEF Asked, Counter, Client
  <2>. QED
    BY <2>1, <2>2
<1>5. Held(r)
  BY <1>2, <1>3 DEF Good, Held
<1>. QED
  BY <1>2, <1>4, <1>5, SameGood DEF r

\* Applying the next event counts it and moves its counter to it.
LEMMA AdvanceIs ==
  ASSUME Numbering, NEW s, Good(s), ~s.locked, NEW u \in events,
         Check(s, u) = "next"
  PROVE  LET r == Advance(s, u)
             t == TakeUp(s, u)
         IN /\ r \in Client /\ r[u.box] = u.at /\ u.at > s[u.box]
            /\ \A c \in Counter \ {u.box} : r[c] = s[c]
            /\ ~r.locked /\ r.query = s.query
            /\ r.base = t.base /\ r.origin = t.origin
            /\ \A b \in Box : \A n \in Number :
                 /\ b = u.box /\ n = u.at => r.done[b][n] = s.done[b][n] + 1
                 /\ ~(b = u.box /\ n = u.at) => r.done[b][n] = s.done[b][n]
                 /\ s.done[b][n] \in Nat
            /\ ~(u.box = "pts" /\ s.pts = 0) => u.at = s[u.box] + u.count
<1>. DEFINE t == TakeUp(s, u)
            a == Apply(t, {u})
            r == Set(a, u.box, u.at)
            first == u.box = "pts" /\ s.pts = 0
<1>1. s \in Client
  BY DEF Good
<1>2. /\ u \in Update /\ u.box \in Box /\ u.box \in Counter
      /\ u.at \in Nat /\ u.count \in Nat /\ u.at \in Number
      /\ u.count >= 1 /\ u.count <= u.at /\ u.at <= srv[u.box]
  BY DEF Numbering, Numbered, Update, Box, Counter
<1>3. /\ u.box = "pts" => u.at <= MaxPts
      /\ u.box = "qts" => u.at <= MaxQts
      /\ u.box # "seq"
  BY <1>2, BoundsAssumption DEF Numbering, Counters, Box
<1>4. \A c \in Counter : s[c] \in Nat
  BY <1>1, BoundsAssumption DEF Client, Counter
<1>5. ~first => u.at = s[u.box] + u.count
  BY <1>2, <1>4 DEF Check
<1>6. u.at > s[u.box]
  BY <1>2, <1>4, <1>5
<1>7. /\ t \in Client /\ ~t.locked /\ t.query = s.query /\ t.phase = s.phase
      /\ \A c \in Counter : t[c] = s[c]
      /\ t.done = s.done
      /\ t.base["qts"] = s.base["qts"] /\ t.origin["qts"] = s.origin["qts"]
      /\ first => t.base["pts"] = u.at - u.count /\ t.origin["pts"] = u.at - u.count
      /\ ~first => t = s
  BY <1>1, <1>2, TakeUpIs
<1>. HIDE DEF t
<1>8. /\ a \in Client /\ a.done = Counted(s.done, {u})
      /\ \A c \in Counter : a[c] = s[c]
      /\ ~a.locked /\ a.query = s.query
      /\ a.base = t.base /\ a.origin = t.origin
  BY <1>7, ApplyIs
<1>. HIDE DEF a
<1>9. /\ r \in Client /\ r[u.box] = u.at
      /\ \A c \in Counter \ {u.box} : r[c] = s[c]
      /\ r.done = Counted(s.done, {u})
      /\ ~r.locked /\ r.query = s.query
      /\ r.base = t.base /\ r.origin = t.origin
  <2>1. /\ u.box \in Counter /\ u.at \in Nat
        /\ u.box = "pts" => u.at <= MaxPts
        /\ u.box = "qts" => u.at <= MaxQts
        /\ u.box = "seq" => u.at <= MaxSeq
    BY <1>2, <1>3
  <2>2. /\ r \in Client
        /\ r[u.box] = IF a.locked \/ u.at <= a[u.box] THEN a[u.box] ELSE u.at
        /\ \A d \in Counter \ {u.box} : r[d] = a[d]
        /\ r.done = a.done
        /\ r.locked = a.locked /\ r.query = a.query
        /\ r.base = a.base /\ r.origin = a.origin
    BY <2>1, <1>8, SetIs
  <2>3. a[u.box] < u.at /\ a[u.box] \in Nat
    BY <2>1, <1>4, <1>6, <1>8
  <2>4. r[u.box] = u.at
    BY <2>1, <2>2, <2>3, <1>8
  <2>. QED
    BY <2>2, <2>4, <1>8
<1>. HIDE DEF r
<1>10. s.done \in [Box -> [Number -> Nat]] /\ s.base \in [Box -> Nat]
       /\ s.origin \in [Box -> Nat]
  BY <1>1 DEF Client
<1>11. ASSUME NEW b \in Box, NEW n \in Number
       PROVE  /\ b = u.box /\ n = u.at => r.done[b][n] = s.done[b][n] + 1
              /\ ~(b = u.box /\ n = u.at) => r.done[b][n] = s.done[b][n]
              /\ s.done[b][n] \in Nat
  <2>1. (\E v \in {u} : v.box = b /\ v.at = n) <=> b = u.box /\ n = u.at
    OBVIOUS
  <2>2. s.done[b][n] \in Nat
    BY <1>10
  <2>3. /\ (\E v \in {u} : v.box = b /\ v.at = n) =>
             Counted(s.done, {u})[b][n] = s.done[b][n] + 1
        /\ ~(\E v \in {u} : v.box = b /\ v.at = n) =>
             Counted(s.done, {u})[b][n] = s.done[b][n]
    BY <1>10, CountedIs, Zenon
  <2>. QED
    BY <2>1, <2>2, <2>3, <1>9
<1>12. Advance(s, u) = r /\ t = TakeUp(s, u)
  BY DEF Advance, r, a, t
<1>. QED
  BY <1>5, <1>6, <1>9, <1>11, <1>12

\* Applying the next event keeps the client good, and unlocked.
LEMMA AdvanceGood ==
  ASSUME Numbering, NEW s, Good(s), ~s.locked, NEW u \in events,
         Check(s, u) = "next"
  PROVE  Good(Advance(s, u)) /\ ~Advance(s, u).locked
<1>. DEFINE t == TakeUp(s, u)
            r == Advance(s, u)
            first == u.box = "pts" /\ s.pts = 0
<1>1. s \in Client
  BY DEF Good
<1>2. /\ u \in Update /\ u.box \in Box /\ u.box \in Counter
      /\ u.at \in Nat /\ u.count \in Nat /\ u.at \in Number
      /\ u.count >= 1 /\ u.count <= u.at /\ u.at <= srv[u.box]
  BY DEF Numbering, Numbered, Update, Box, Counter
<1>4. \A c \in Counter : s[c] \in Nat
  BY <1>1, BoundsAssumption DEF Client, Counter
<1>3. /\ r \in Client /\ r[u.box] = u.at /\ u.at > s[u.box]
      /\ \A c \in Counter \ {u.box} : r[c] = s[c]
      /\ ~r.locked /\ r.query = s.query
      /\ r.base = t.base /\ r.origin = t.origin
      /\ \A b \in Box : \A n \in Number :
           /\ b = u.box /\ n = u.at => r.done[b][n] = s.done[b][n] + 1
           /\ ~(b = u.box /\ n = u.at) => r.done[b][n] = s.done[b][n]
           /\ s.done[b][n] \in Nat
      /\ ~first => u.at = s[u.box] + u.count
  BY AdvanceIs
<1>7. /\ t.base["qts"] = s.base["qts"] /\ t.origin["qts"] = s.origin["qts"]
      /\ first => t.base["pts"] = u.at - u.count /\ t.origin["pts"] = u.at - u.count
      /\ ~first => t = s
  BY <1>1, <1>2, TakeUpIs
<1>. HIDE DEF t, r
<1>5. ~first => u.at = s[u.box] + u.count
  BY <1>3
<1>6. u.at > s[u.box]
  BY <1>3
<1>9. /\ r \in Client /\ r[u.box] = u.at
      /\ \A c \in Counter \ {u.box} : r[c] = s[c]
      /\ ~r.locked /\ r.query = s.query
      /\ r.base = t.base /\ r.origin = t.origin
  BY <1>3
<1>10. s.done \in [Box -> [Number -> Nat]] /\ s.base \in [Box -> Nat]
       /\ s.origin \in [Box -> Nat]
  BY <1>1 DEF Client
<1>11. ASSUME NEW b \in Box, NEW n \in Number
       PROVE  /\ b = u.box /\ n = u.at => r.done[b][n] = s.done[b][n] + 1
              /\ ~(b = u.box /\ n = u.at) => r.done[b][n] = s.done[b][n]
              /\ s.done[b][n] \in Nat
  BY <1>3
<1>12. \A b \in Box : s[b] \in Nat /\ r[b] \in Nat /\ s[b] <= r[b]
  BY <1>2, <1>4, <1>6, <1>9 DEF Box, Counter
<1>13. \A b \in Box : \A n \in Number :
         /\ r.done[b][n] <= 1
         /\ r.done[b][n] > 0 => n <= r[b]
  <2>. SUFFICES ASSUME NEW b \in Box, NEW n \in Number
                PROVE  r.done[b][n] <= 1 /\ (r.done[b][n] > 0 => n <= r[b])
    OBVIOUS
  <2>1. s.done[b][n] <= 1 /\ (s.done[b][n] > 0 => n <= s[b])
    BY DEF Good, Exact
  <2>. QED
    BY <2>1, <1>2, <1>6, <1>9, <1>11, <1>12 DEF Number
<1>14. \A b \in Box : /\ b # "pts" \/ ~first => r.base[b] = s.base[b] /\ r.origin[b] = s.origin[b]
                      /\ first => r.base["pts"] = u.at - u.count
                      /\ first => r.origin["pts"] = u.at - u.count
  BY <1>7, <1>9 DEF Box
<1>15. \A b \in Box : s.base[b] <= s[b] /\ s.base[b] \in Nat
  BY <1>10 DEF Good, Exact
<1>16. \A b \in Box : r.base[b] <= r[b]
  <2>. SUFFICES ASSUME NEW b \in Box PROVE r.base[b] <= r[b]
    OBVIOUS
  <2>1. CASE b = "pts" /\ first
    BY <2>1, <1>2, <1>9, <1>14
  <2>2. CASE ~(b = "pts" /\ first)
    BY <2>2, <1>12, <1>14, <1>15
  <2>. QED
    BY <2>1, <2>2
<1>17. ASSUME NEW e \in events
       PROVE  /\ e \in Update /\ e.box \in Box /\ e.at \in Number /\ e.at \in Nat
              /\ e.count \in Nat /\ e.count >= 1
              /\ e.box = u.box /\ e # u /\ e.at <= u.at => e.at <= u.at - u.count
  <2>1. /\ e \in Update /\ e.box \in Box /\ e.at \in Number /\ e.at \in Nat
        /\ e.count \in Nat /\ e.count >= 1
    BY DEF Numbering, Numbered, Update
  <2>2. e.box = u.box /\ e # u => e.at <= u.at - u.count \/ u.at <= e.at - e.count
    BY DEF Numbering, Numbered
  <2>. QED
    BY <1>2, <2>1, <2>2
<1>18. ASSUME NEW e \in events, r.base[e.box] < e.at, e.at <= r[e.box]
       PROVE  r.done[e.box][e.at] > 0
  <2>1. s.base[e.box] < e.at /\ e.at <= s[e.box] => s.done[e.box][e.at] > 0
    BY DEF Good, Exact
  <2>2. CASE e = u
    BY <2>2, <1>2, <1>11
  <2>3. CASE e # u /\ e.box # u.box
    <3>1. e.box # "pts" \/ ~first
      BY <2>3
    <3>2. r[e.box] = s[e.box] /\ r.base[e.box] = s.base[e.box]
      BY <2>3, <3>1, <1>9, <1>14, <1>17 DEF Box, Counter
    <3>. QED
      BY <3>2, <2>1, <2>3, <1>11, <1>17, <1>18
  <2>4. CASE e # u /\ e.box = u.box
    <3>1. e.at <= u.at - u.count
      BY <2>4, <1>9, <1>17, <1>18
    <3>2. ~first
      BY <3>1, <2>4, <1>2, <1>14, <1>17, <1>18
    <3>3. e.at <= s[e.box] /\ s.base[e.box] < e.at
      BY <3>1, <3>2, <2>4, <1>2, <1>5, <1>12, <1>14, <1>17, <1>18
    <3>. QED
      BY <3>3, <2>1, <2>4, <1>11, <1>17
  <2>. QED
    BY <2>2, <2>3, <2>4
<1>19. Exact(r, events)
  BY <1>13, <1>16, <1>18 DEF Exact
<1>20. Covered(r, events, earlier)
  <2>. SUFFICES ASSUME NEW e \in events, e.at <= r.base[e.box]
                PROVE  e.at <= r.origin[e.box] \/ e \in earlier
    BY DEF Covered
  <2>1. CASE e.box = "pts" /\ first
    <3>1. r.base["pts"] = r.origin["pts"]
      BY <2>1, <1>14 DEF Box
    <3>. QED
      BY <2>1, <3>1
  <2>2. CASE ~(e.box = "pts" /\ first)
    <3>1. r.base[e.box] = s.base[e.box] /\ r.origin[e.box] = s.origin[e.box]
      BY <2>2, <1>14, <1>17
    <3>. QED
      BY <3>1 DEF Good, Covered
  <2>. QED
    BY <2>1, <2>2
<1>21. Saved(r, events, earlier, file)
  <2>1. \A c \in Counter : file[c] <= s[c] /\ file[c] \in Nat
    BY DEF Good, Saved, Numbering, Counters, Counter
  <2>2. \A c \in Counter : file[c] <= r[c]
    BY <2>1, <1>2, <1>4, <1>6, <1>9
  <2>3. ASSUME NEW e \in events, e.at <= file[e.box]
        PROVE  e.at <= r.origin[e.box] \/ r.done[e.box][e.at] > 0 \/ e \in earlier
    <3>1. e.at <= s.origin[e.box] \/ s.done[e.box][e.at] > 0 \/ e \in earlier
      BY <2>3 DEF Good, Saved
    <3>2. CASE e.box = "pts" /\ first
      <4>1. file["pts"] <= 0
        BY <3>2, <2>1 DEF Counter
      <4>. QED
        BY <4>1, <3>2, <2>3, <2>1, <1>17 DEF Number, Counter
    <3>3. CASE ~(e.box = "pts" /\ first)
      <4>1. r.origin[e.box] = s.origin[e.box]
        BY <3>3, <1>14, <1>17
      <4>2. s.done[e.box][e.at] > 0 => r.done[e.box][e.at] > 0
        BY <1>11, <1>17
      <4>. QED
        BY <3>1, <4>1, <4>2
    <3>. QED
      BY <3>2, <3>3
  <2>. QED
    BY <2>2, <2>3 DEF Saved
<1>22. Asked(r) /\ Held(r)
  <2>1. s.query = NoQuery
    BY DEF Good, Asked
  <2>. QED
    BY <2>1, <1>9 DEF Asked, Held, NoQuery
<1>23. \A c \in Counter : r[c] <= srv[c]
  BY <1>2, <1>9 DEF Good
<1>. QED
  BY <1>9, <1>19, <1>20, <1>21, <1>22, <1>23 DEF Good, r

\* The results of the check.
LEMMA CheckRange ==
  ASSUME Numbering, NEW s, Good(s), NEW u \in events
  PROVE  /\ Check(s, u) \in {"next", "duplicate", "hole", "busy"}
         /\ ~s.locked => Check(s, u) # "busy"
         /\ u.box \in Box /\ u.box # "none"
<1>1. s.pts \in Nat /\ s.qts \in Nat
  BY BoundsAssumption DEF Good, Client
<1>2. u.box \in Box /\ u.at \in Nat /\ u.count \in Nat
  BY DEF Numbering, Numbered, Update
<1>3. s[u.box] \in Nat
  BY <1>1, <1>2 DEF Box
<1>4. \/ u.at < s[u.box] + u.count
      \/ u.at > s[u.box] + u.count
      \/ u.at = s[u.box] + u.count
  BY <1>2, <1>3
<1>. QED
  BY <1>2, <1>3, <1>4 DEF Check, Box

\* The end of the process, and of the login, are changes of the phase.
LEMMA PhaseGood ==
  ASSUME Numbering, NEW s, Good(s),
         NEW x \in {"login", "started", "failed", "aborted"}
  PROVE  Good([s EXCEPT !.phase = x])
<1>1. s \in Client
  BY DEF Good
<1>. DEFINE r == [s EXCEPT !.phase = x]
<1>2. /\ r \in Client
      /\ \A c \in Counter : r[c] = s[c]
      /\ r.done = s.done /\ r.base = s.base /\ r.origin = s.origin
      /\ r.locked = s.locked /\ r.query = s.query
  BY <1>1 DEF Client, Counter
<1>. HIDE DEF r
<1>3. r.pts = s.pts /\ r.qts = s.qts
  BY <1>2 DEF Counter
<1>4. Asked(r) /\ Held(r)
  BY <1>2, <1>3 DEF Good, Asked, Held
<1>. QED
  BY <1>2, <1>4, SameGood DEF r

\* seq may take any value the server has reached.
LEMMA SeqGood ==
  ASSUME Numbering, NEW s, Good(s), NEW v \in Nat, v <= srv.seq
  PROVE  Good(Set(s, "seq", v))
<1>. DEFINE r == Set(s, "seq", v)
<1>1. s \in Client
  BY DEF Good
<1>2. v <= MaxSeq
  BY BoundsAssumption DEF Numbering, Counters
<1>3. /\ r \in Client
      /\ r["seq"] = IF s.locked \/ v <= s["seq"] THEN s["seq"] ELSE v
      /\ \A d \in Counter \ {"seq"} : r[d] = s[d]
      /\ r.done = s.done /\ r.locked = s.locked /\ r.query = s.query
      /\ r.base = s.base /\ r.origin = s.origin
  BY <1>1, <1>2, SetIs DEF Counter
<1>. HIDE DEF r
<1>4. s.seq \in Nat
  BY <1>1, BoundsAssumption DEF Client
<1>5. r.pts = s.pts /\ r.qts = s.qts /\ s.seq <= r.seq /\ (r.seq = s.seq \/ r.seq = v)
  BY <1>3, <1>4 DEF Counter
<1>6. \A b \in Box : r[b] = s[b]
  BY <1>5 DEF Box
<1>7. \A c \in Counter : r[c] <= srv[c]
  BY <1>5 DEF Good, Counter
<1>8. \A e \in events : e.box \in Box
  BY DEF Numbering, Numbered, Update
<1>9. Exact(r, events)
  BY <1>3, <1>6, <1>8 DEF Good, Exact
<1>10. Covered(r, events, earlier)
  BY <1>3 DEF Good, Covered
<1>11. Saved(r, events, earlier, file)
  <2>1. \A c \in Counter : file[c] <= s[c] /\ file[c] \in Nat
    BY DEF Good, Saved, Numbering, Counters, Counter
  <2>2. file.seq <= r.seq
    BY <2>1, <1>1, <1>4, <1>5, <1>2, <1>3 DEF Counter
  <2>3. \A c \in Counter : file[c] <= r[c]
    BY <2>1, <2>2, <1>5 DEF Counter
  <2>. QED
    BY <2>3, <1>3 DEF Good, Saved
<1>12. Asked(r) /\ Held(r)
  BY <1>3, <1>5 DEF Good, Asked, Held
<1>. QED
  BY <1>3, <1>7, <1>9, <1>10, <1>11, <1>12 DEF Good, r
-----------------------------------------------------------------------------
\* Every handler of a push keeps the client good.
LEMMA WorkUpdateGood ==
  ASSUME Numbering, NEW s, Good(s), NEW u \in events \cup {None}
  PROVE  Good(WorkUpdate(s, u))
<1>1. CASE s.locked \/ u.box = "none"
  BY <1>1 DEF WorkUpdate
<1>2. CASE ~(s.locked \/ u.box = "none")
  <2>1. u \in events
    BY <1>2 DEF None
  <2>2. Check(s, u) \in {"next", "duplicate", "hole"}
    BY <1>2, <2>1, CheckRange
  <2>3. CASE Check(s, u) = "duplicate"
    BY <1>2, <2>3 DEF WorkUpdate
  <2>4. CASE Check(s, u) = "hole"
    <3>1. WorkUpdate(s, u) = GetDifference(s, FALSE)
      BY <1>2, <2>4 DEF WorkUpdate
    <3>. QED
      BY <3>1, GetDifferenceGood
  <2>5. CASE Check(s, u) = "next"
    <3>1. CASE u.known
      <4>1. WorkUpdate(s, u) = Advance(s, u)
        BY <1>2, <2>5, <3>1 DEF WorkUpdate
      <4>. QED
        BY <4>1, <1>2, <2>1, <2>5, AdvanceGood
    <3>2. CASE ~u.known
      <4>. DEFINE g == GetDifference(s, FALSE)
      <4>1. WorkUpdate(s, u) = [g EXCEPT !.phase = "aborted"]
        BY <1>2, <2>5, <3>2 DEF WorkUpdate
      <4>2. Good(g)
        BY GetDifferenceGood
      <4>. HIDE DEF g
      <4>. QED
        BY <4>1, <4>2, PhaseGood
    <3>. QED
      BY <3>1, <3>2
  <2>. QED
    BY <2>2, <2>3, <2>4, <2>5
<1>. QED
  BY <1>1, <1>2

\* The handlers of a single message keep the client good.
LEMMA WorkShortGood ==
  ASSUME Numbering, NEW s, Good(s), ~s.locked, NEW u \in events
  PROVE  Good(WorkShortMessage(s, u)) /\ Good(WorkShortSent(s, u))
<1>1. Check(s, u) \in {"next", "duplicate", "hole"}
  BY CheckRange
<1>2. Good(GetDifference(s, FALSE))
  BY GetDifferenceGood
<1>3. Check(s, u) = "next" => Good(Advance(s, u))
  BY AdvanceGood
<1>. QED
  BY <1>1, <1>2, <1>3 DEF WorkShortMessage, WorkShortSent

\* So does the answer to a request that affected messages.
LEMMA WorkAffectedGood ==
  ASSUME Numbering, NEW s, Good(s), NEW u \in events
  PROVE  Good(WorkAffected(s, u))
<1>1. Check(s, u) \in {"next", "duplicate", "hole", "busy"}
  BY CheckRange
<1>2. Good(GetDifference(s, FALSE))
  BY GetDifferenceGood
<1>3. Check(s, u) = "next" /\ ~s.locked => Good(Advance(s, u))
  BY AdvanceGood
<1>. QED
  BY <1>1, <1>2, <1>3 DEF WorkAffected

\* So does a container, whose seq moves last.
LEMMA WorkUpdatesGood ==
  ASSUME Numbering, NEW s, Good(s), NEW p,
         {p.first, p.second} \subseteq events \cup {None},
         p.seq \in Nat, p.seq_start \in Nat, p.seq <= srv.seq
  PROVE  Good(WorkUpdates(s, p))
<1>. DEFINE t == WorkUpdate(s, p.first)
            r == WorkUpdate(t, p.second)
<1>1. Good(t)
  BY WorkUpdateGood
<1>2. Good(r)
  <2>. HIDE DEF t
  <2>. QED
    BY <1>1, WorkUpdateGood
<1>3. Good(Set(r, "seq", p.seq))
  <2>. HIDE DEF r
  <2>. QED
    BY <1>2, SeqGood
<1>4. Good(GetDifference(s, FALSE))
  BY GetDifferenceGood
<1>5. Skip(s, p.seq_start) \in {"take", "drop", "hole"}
  <2>1. s.seq \in Nat
    BY BoundsAssumption DEF Good, Client
  <2>2. p.seq_start = 0 \/ s.seq = 0 \/ p.seq_start <= s.seq
        \/ p.seq_start > s.seq + 1 \/ p.seq_start = s.seq + 1
    BY <2>1
  <2>. QED
    BY <2>1, <2>2 DEF Skip
<1>. QED
  BY <1>3, <1>4, <1>5 DEF WorkUpdates, r, t

-----------------------------------------------------------------------------
\* The lock and the request are dropped when the answer is handled.
Unlocked(s) == [s EXCEPT !.locked = FALSE, !.query = NoQuery]

\* Dropping the lock and the request changes no counter.
LEMMA UnlockedIs ==
  ASSUME NEW s \in Client
  PROVE  LET r == Unlocked(s)
         IN /\ r \in Client /\ ~r.locked /\ r.query = NoQuery
            /\ r.phase = s.phase
            /\ \A c \in Counter : r[c] = s[c]
            /\ r.done = s.done /\ r.base = s.base /\ r.origin = s.origin
<1>1. NoQuery \in Query
  BY DEF NoQuery, Query
<1>. QED
  BY <1>1 DEF Unlocked, Client, Counter

\* Dropping them keeps the client good.
LEMMA UnlockedGood ==
  ASSUME Numbering, NEW s, Good(s)
  PROVE  Good(Unlocked(s))
<1>. DEFINE r == Unlocked(s)
<1>1. s \in Client
  BY DEF Good
<1>2. /\ r \in Client /\ ~r.locked /\ r.query = NoQuery
      /\ \A c \in Counter : r[c] = s[c]
      /\ r.done = s.done /\ r.base = s.base /\ r.origin = s.origin
  BY <1>1, UnlockedIs
<1>. HIDE DEF r
<1>3. Asked(r) /\ Held(r)
  BY <1>2 DEF Asked, Held, NoQuery
<1>. QED
  BY <1>2, <1>3, SameGood DEF r

\* The counters after an answer, when they may only grow.
LEMMA SetTwice ==
  ASSUME Numbering, NEW s \in Client, ~s.locked, NEW p \in Nat, NEW q \in Nat,
         p <= srv.pts, q <= srv.qts
  PROVE  LET r == Set(Set(s, "pts", p), "qts", q)
         IN /\ r \in Client /\ ~r.locked /\ r.query = s.query /\ r.phase = s.phase
            /\ r.pts = IF p <= s.pts THEN s.pts ELSE p
            /\ r.qts = IF q <= s.qts THEN s.qts ELSE q
            /\ r.seq = s.seq
            /\ r.done = s.done /\ r.base = s.base /\ r.origin = s.origin
<1>. DEFINE t == Set(s, "pts", p)
            r == Set(t, "qts", q)
<1>1. p <= MaxPts /\ q <= MaxQts
  BY BoundsAssumption DEF Numbering, Counters
<1>2. /\ t \in Client
      /\ t["pts"] = IF s.locked \/ p <= s["pts"] THEN s["pts"] ELSE p
      /\ \A d \in Counter \ {"pts"} : t[d] = s[d]
      /\ t.done = s.done
      /\ t.locked = s.locked /\ t.query = s.query /\ t.phase = s.phase
      /\ t.base = s.base /\ t.origin = s.origin
  BY <1>1, SetIs DEF Counter
<1>. HIDE DEF t
<1>3. /\ r \in Client
      /\ r["qts"] = IF t.locked \/ q <= t["qts"] THEN t["qts"] ELSE q
      /\ \A d \in Counter \ {"qts"} : r[d] = t[d]
      /\ r.done = t.done
      /\ r.locked = t.locked /\ r.query = t.query /\ r.phase = t.phase
      /\ r.base = t.base /\ r.origin = t.origin
  BY <1>1, <1>2, SetIs DEF Counter
<1>. HIDE DEF r
<1>4. t.qts = s.qts /\ t.seq = s.seq /\ r.pts = t.pts /\ r.seq = t.seq
  BY <1>2, <1>3 DEF Counter
<1>. QED
  BY <1>2, <1>3, <1>4 DEF r, t

\* Applying all that happened after the request and moving to the numbers of
\* the answer, as get_difference_on_answer does.
LEMMA NewsGood ==
  ASSUME Numbering, NEW s, Good(s), ~s.locked, s.query = NoQuery,
         NEW p \in Nat, NEW q \in Nat, p <= srv.pts, q <= srv.qts,
         NEW news,
         news = {e \in events : \/ e.box = "pts" /\ s.pts < e.at /\ e.at <= p
                                \/ e.box = "qts" /\ s.qts < e.at /\ e.at <= q}
  PROVE  Good(Set(Set(Apply(s, news), "pts", p), "qts", q))
<1>. DEFINE a == Apply(s, news)
            r == Set(Set(a, "pts", p), "qts", q)
<1>1. s \in Client
  BY DEF Good
<1>2. /\ a \in Client
      /\ a.done = Counted(s.done, news)
      /\ \A c \in Counter : a[c] = s[c]
      /\ a.locked = s.locked /\ a.query = s.query
      /\ a.base = s.base /\ a.origin = s.origin
  BY <1>1, ApplyIs
<1>. HIDE DEF a
<1>3. a.pts = s.pts /\ a.qts = s.qts /\ a.seq = s.seq
  BY <1>2 DEF Counter
<1>4. /\ r \in Client /\ ~r.locked /\ r.query = NoQuery
      /\ r.pts = IF p <= s.pts THEN s.pts ELSE p
      /\ r.qts = IF q <= s.qts THEN s.qts ELSE q
      /\ r.seq = s.seq
      /\ r.done = Counted(s.done, news) /\ r.base = s.base /\ r.origin = s.origin
  BY <1>2, <1>3, SetTwice
<1>. HIDE DEF r
<1>5. s.pts \in Nat /\ s.qts \in Nat /\ s.done \in [Box -> [Number -> Nat]]
  BY <1>1, BoundsAssumption DEF Client
<1>6. /\ \A b \in Box : s[b] \in Nat /\ r[b] \in Nat /\ s[b] <= r[b]
      /\ \A c \in Counter : s[c] <= r[c]
      /\ \A c \in Counter : r[c] <= srv[c]
  <2>1. s.pts <= r.pts /\ s.qts <= r.qts /\ s.seq <= r.seq
        /\ r.pts <= srv.pts /\ r.qts <= srv.qts /\ r.seq <= srv.seq
    BY <1>1, <1>4, <1>5, BoundsAssumption DEF Good, Counter, Client
  <2>. QED
    BY <2>1, <1>4, <1>5 DEF Box, Counter
<1>7. ASSUME NEW e \in events
      PROVE  e.box \in Box /\ e.at \in Number /\ e.at \in Nat
  BY DEF Numbering, Numbered, Update
<1>8. ASSUME NEW b \in Box, NEW n \in Number
      PROVE  /\ (\E e \in news : e.box = b /\ e.at = n) =>
                  r.done[b][n] = s.done[b][n] + 1
             /\ ~(\E e \in news : e.box = b /\ e.at = n) =>
                  r.done[b][n] = s.done[b][n]
             /\ s.done[b][n] \in Nat
             /\ s.done[b][n] <= 1 /\ (s.done[b][n] > 0 => n <= s[b])
  <2>1. s.done[b][n] \in Nat
    BY <1>5
  <2>2. s.done[b][n] <= 1 /\ (s.done[b][n] > 0 => n <= s[b])
    BY DEF Good, Exact
  <2>3. /\ (\E u \in news : u.box = b /\ u.at = n) =>
             Counted(s.done, news)[b][n] = s.done[b][n] + 1
        /\ ~(\E u \in news : u.box = b /\ u.at = n) =>
             Counted(s.done, news)[b][n] = s.done[b][n]
    BY <1>5, CountedIs, Zenon
  <2>. QED
    BY <2>1, <2>2, <2>3, <1>4
<1>9. ASSUME NEW e \in news
      PROVE  e \in events /\ s[e.box] < e.at /\ e.at <= r[e.box]
  BY <1>4, <1>5, <1>7
<1>10. ASSUME NEW b \in Box, NEW n \in Number
       PROVE  r.done[b][n] <= 1 /\ (r.done[b][n] > 0 => n <= r[b])
  <2>1. CASE \E e \in news : e.box = b /\ e.at = n
    <3>1. s[b] < n /\ n <= r[b]
      BY <2>1, <1>9
    <3>2. s.done[b][n] = 0
      BY <3>1, <1>6, <1>8 DEF Number
    <3>. QED
      BY <2>1, <3>1, <3>2, <1>8
  <2>2. CASE ~(\E e \in news : e.box = b /\ e.at = n)
    BY <2>2, <1>6, <1>8 DEF Number
  <2>. QED
    BY <2>1, <2>2
<1>11. \A e \in events : s.done[e.box][e.at] > 0 => r.done[e.box][e.at] > 0
  BY <1>7, <1>8
<1>12. ASSUME NEW e \in events, r.base[e.box] < e.at, e.at <= r[e.box]
       PROVE  r.done[e.box][e.at] > 0
  <2>1. CASE e.at <= s[e.box]
    BY <2>1, <1>4, <1>11, <1>12 DEF Good, Exact
  <2>2. CASE ~(e.at <= s[e.box])
    <3>1. e \in news
      BY <2>2, <1>4, <1>5, <1>7, <1>12 DEF Box
    <3>. QED
      BY <3>1, <1>7, <1>8
  <2>. QED
    BY <2>1, <2>2
<1>13. \A b \in Box : r.base[b] <= r[b]
  <2>1. \A b \in Box : s.base[b] <= s[b] /\ s.base[b] \in Nat
    BY <1>1 DEF Good, Exact, Client
  <2>. QED
    BY <2>1, <1>4, <1>6
<1>14. Exact(r, events)
  BY <1>10, <1>12, <1>13 DEF Exact
<1>15. Covered(r, events, earlier)
  BY <1>4 DEF Good, Covered
<1>16. Saved(r, events, earlier, file)
  <2>1. \A c \in Counter : file[c] <= s[c] /\ file[c] \in Nat
    BY DEF Good, Saved, Numbering, Counters, Counter
  <2>2. \A c \in Counter : s[c] \in Nat /\ r[c] \in Nat
    BY <1>1, <1>4, BoundsAssumption DEF Client, Counter
  <2>3. \A c \in Counter : file[c] <= r[c]
    BY <2>1, <2>2, <1>6
  <2>. QED
    BY <2>3, <1>4, <1>11 DEF Good, Saved
<1>17. Asked(r) /\ Held(r)
  BY <1>4 DEF Asked, Held, NoQuery
<1>. QED
  BY <1>4, <1>6, <1>14, <1>15, <1>16, <1>17 DEF Good, r, a

\* get_state_on_answer, field by field.
LEMMA StateIs ==
  ASSUME Numbering, NEW s, Good(s), NEW a, a.pts \in Nat, a.qts \in Nat,
         a.seq \in Nat, a.pts <= srv.pts, a.qts <= srv.qts, a.seq <= srv.seq
  PROVE  LET r == StateAnswered(s, a)
         IN /\ r \in Client /\ r.done = s.done
            /\ ~r.locked /\ r.query = NoQuery
            /\ r.pts = IF a.pts <= s.pts THEN s.pts ELSE a.pts
            /\ r.qts = IF a.qts <= s.qts THEN s.qts ELSE a.qts
            /\ r.seq = IF a.seq <= s.seq THEN s.seq ELSE a.seq
            /\ \A b \in Box : r.base[b] = r[b] /\ r.origin[b] = r[b]
<1>. DEFINE u == Unlocked(s)
            w == Set(Set(u, "pts", a.pts), "qts", a.qts)
            t == Set(w, "seq", a.seq)
            position == [b \in Box |-> t[b]]
            phase == IF s.query.start THEN "started" ELSE t.phase
            r == [t EXCEPT !.base = position, !.origin = position, !.phase = phase]
<1>1. s \in Client
  BY DEF Good
<1>2. /\ u \in Client /\ ~u.locked /\ u.query = NoQuery
      /\ \A c \in Counter : u[c] = s[c]
      /\ u.done = s.done
  BY <1>1, UnlockedIs
<1>3. StateAnswered(s, a) = r
  BY DEF StateAnswered, Unlocked
<1>. HIDE DEF u
<1>4. u.pts = s.pts /\ u.qts = s.qts /\ u.seq = s.seq
  BY <1>2 DEF Counter
<1>5. /\ w \in Client /\ ~w.locked /\ w.query = NoQuery
      /\ w.pts = IF a.pts <= s.pts THEN s.pts ELSE a.pts
      /\ w.qts = IF a.qts <= s.qts THEN s.qts ELSE a.qts
      /\ w.seq = s.seq
      /\ w.done = s.done
  BY <1>2, <1>4, SetTwice
<1>. HIDE DEF w
<1>6. a.seq <= MaxSeq
  BY BoundsAssumption DEF Numbering, Counters
<1>7. /\ t \in Client
      /\ t["seq"] = IF w.locked \/ a.seq <= w["seq"] THEN w["seq"] ELSE a.seq
      /\ \A d \in Counter \ {"seq"} : t[d] = w[d]
      /\ t.done = w.done /\ t.locked = w.locked /\ t.query = w.query
  BY <1>5, <1>6, SetIs DEF Counter
<1>. HIDE DEF t
<1>8. s.pts \in Nat /\ s.qts \in Nat /\ s.seq \in Nat
  BY <1>1, BoundsAssumption DEF Client
<1>9. /\ t.pts = w.pts /\ t.qts = w.qts
      /\ s.pts <= t.pts /\ s.qts <= t.qts /\ s.seq <= t.seq
      /\ t.pts <= srv.pts /\ t.qts <= srv.qts /\ t.seq <= srv.seq
  BY <1>5, <1>7, <1>8 DEF Good, Counter
<1>10. \A b \in Box : t[b] \in Nat /\ s[b] \in Nat /\ s[b] <= t[b]
  BY <1>5, <1>8, <1>9, <1>7, BoundsAssumption DEF Box, Client
<1>11. position \in [Box -> Nat] /\ \A b \in Box : position[b] = t[b]
  BY <1>10
<1>12. phase \in {"login", "started", "failed", "aborted"}
  BY <1>7 DEF Client
<1>. HIDE DEF position, phase
<1>13. /\ r \in Client /\ r.base = position /\ r.origin = position
       /\ \A c \in Counter : r[c] = t[c]
       /\ r.done = s.done /\ ~r.locked /\ r.query = NoQuery
  BY <1>5, <1>7, <1>11, <1>12 DEF Client, Counter
<1>. HIDE DEF r
<1>14. \A b \in Box : r[b] = t[b] /\ r[b] \in Nat
  BY <1>10, <1>13 DEF Box, Counter
<1>15. r.pts = w.pts /\ r.qts = w.qts /\ r.seq = t.seq
  BY <1>9, <1>13 DEF Counter
<1>16. t.seq = IF a.seq <= s.seq THEN s.seq ELSE a.seq
  BY <1>5, <1>7
<1>17. \A b \in Box : r.base[b] = r[b] /\ r.origin[b] = r[b]
  BY <1>11, <1>13, <1>14
<1>. QED
  BY <1>3, <1>5, <1>13, <1>15, <1>16, <1>17

\* The state of the server is taken over: what happened before is nobody's.
LEMMA StateGood ==
  ASSUME Numbering, NEW s, Good(s), NEW a, a.pts \in Nat, a.qts \in Nat,
         a.seq \in Nat, a.pts <= srv.pts, a.qts <= srv.qts, a.seq <= srv.seq
  PROVE  Good(StateAnswered(s, a))
<1>. DEFINE r == StateAnswered(s, a)
<1>1. s \in Client /\ s.pts \in Nat /\ s.qts \in Nat /\ s.seq \in Nat
  BY BoundsAssumption DEF Good, Client
<1>13. /\ r \in Client /\ r.done = s.done
       /\ ~r.locked /\ r.query = NoQuery
       /\ r.pts = IF a.pts <= s.pts THEN s.pts ELSE a.pts
       /\ r.qts = IF a.qts <= s.qts THEN s.qts ELSE a.qts
       /\ r.seq = IF a.seq <= s.seq THEN s.seq ELSE a.seq
       /\ \A b \in Box : r.base[b] = r[b] /\ r.origin[b] = r[b]
  BY StateIs
<1>. HIDE DEF r
<1>9. /\ s.pts <= r.pts /\ s.qts <= r.qts /\ s.seq <= r.seq
      /\ r.pts <= srv.pts /\ r.qts <= srv.qts /\ r.seq <= srv.seq
      /\ r.pts \in Nat /\ r.qts \in Nat /\ r.seq \in Nat
  BY <1>1, <1>13 DEF Good, Counter
<1>14. \A b \in Box : r[b] \in Nat /\ s[b] \in Nat /\ s[b] <= r[b]
  BY <1>1, <1>9 DEF Box
<1>15. ASSUME NEW e \in events
       PROVE  e.box \in Box /\ e.at \in Nat
  BY DEF Numbering, Numbered, Update
<1>16. Exact(r, events)
  <2>1. \A b \in Box : \A n \in Number : r.done[b][n] <= 1 /\ (r.done[b][n] > 0 => n <= r[b])
    <3>. SUFFICES ASSUME NEW b \in Box, NEW n \in Number
                  PROVE  r.done[b][n] <= 1 /\ (r.done[b][n] > 0 => n <= r[b])
      OBVIOUS
    <3>1. s.done[b][n] <= 1 /\ (s.done[b][n] > 0 => n <= s[b])
      BY DEF Good, Exact
    <3>. QED
      BY <3>1, <1>13, <1>14 DEF Number
  <2>2. \A b \in Box : r.base[b] <= r[b]
    BY <1>13, <1>14
  <2>3. \A e \in events : ~(r.base[e.box] < e.at /\ e.at <= r[e.box])
    BY <1>13, <1>14, <1>15
  <2>. QED
    BY <2>1, <2>2, <2>3 DEF Exact
<1>17. Covered(r, events, earlier)
  <2>1. \A e \in events : r.base[e.box] = r.origin[e.box]
    BY <1>13, <1>15
  <2>. QED BY <2>1 DEF Covered
<1>18. Saved(r, events, earlier, file)
  <2>1. \A c \in Counter : file[c] <= s[c] /\ file[c] \in Nat /\ s[c] \in Nat
    BY <1>1 DEF Good, Saved, Numbering, Counters, Counter
  <2>2. \A c \in Counter : s[c] <= r[c] /\ r[c] \in Nat
    BY <1>9 DEF Counter
  <2>3. \A c \in Counter : file[c] <= r[c]
    BY <2>1, <2>2
  <2>4. \A e \in events : e.at <= file[e.box] => e.at <= r.origin[e.box]
    <3>. SUFFICES ASSUME NEW e \in events, e.at <= file[e.box]
                  PROVE  e.at <= r.origin[e.box]
      OBVIOUS
    <3>1. e.box \in Counter
      BY <1>15 DEF Box, Counter
    <3>. QED
      BY <3>1, <2>1, <2>3, <1>13, <1>14, <1>15
  <2>. QED
    BY <2>3, <2>4 DEF Saved
<1>19. Asked(r) /\ Held(r)
  BY <1>13 DEF Asked, Held, NoQuery
<1>20. \A c \in Counter : r[c] <= srv[c]
  BY <1>9 DEF Counter
<1>21. Good(r)
  BY <1>13, <1>16, <1>17, <1>18, <1>19, <1>20 DEF Good
<1>. QED
  BY <1>21 DEF r

\* The answer with the difference.
LEMMA DifferenceGood ==
  ASSUME IInv, answer.kind \in {"empty", "full", "slice"}
  PROVE  Good(DifferenceAnswered(tls, answer))
<1>. DEFINE u == Unlocked(tls)
            t == Set(Set(Apply(u, answer.news), "pts", answer.pts), "qts", answer.qts)
            Phase(r) == IF tls.query.start THEN "started" ELSE r.phase
            Started(r) == [r EXCEPT !.phase = Phase(r)]
<1>1. Numbering /\ Good(tls) /\ tls \in Client
  BY DEF IInv, Good
<1>2. /\ u \in Client /\ ~u.locked /\ u.query = NoQuery /\ Good(u)
      /\ u.pts = tls.pts /\ u.qts = tls.qts
  BY <1>1, UnlockedIs, UnlockedGood DEF Counter
<1>3. tls.query.pts = tls.pts /\ tls.query.qts = tls.qts /\ tls.query.start \in BOOLEAN
  BY <1>1 DEF IInv, Answered, Good, Asked, Client, Query
<1>4. /\ answer.pts \in Nat /\ answer.qts \in Nat /\ answer.seq \in Nat
      /\ answer.pts <= srv.pts /\ answer.qts <= srv.qts /\ answer.seq <= srv.seq
  BY DEF IInv, TypeOK, Answered
<1>5. ASSUME answer.kind \in {"full", "slice"}
      PROVE  Good(t)
  <2>1. answer.news = {e \in events :
           \/ e.box = "pts" /\ u.pts < e.at /\ e.at <= answer.pts
           \/ e.box = "qts" /\ u.qts < e.at /\ e.at <= answer.qts}
    BY <1>2, <1>3, <1>5 DEF IInv, Answered, News
  <2>. HIDE DEF u
  <2>. QED
    BY <2>1, <1>1, <1>2, <1>4, NewsGood
<1>6. ASSUME NEW r, Good(r)
      PROVE  Good(Started(Set(r, "seq", answer.seq)))
  <2>. DEFINE w == Set(r, "seq", answer.seq)
  <2>1. Good(w)
    BY <1>1, <1>4, <1>6, SeqGood
  <2>. HIDE DEF w
  <2>2. Phase(w) \in {"login", "started", "failed", "aborted"}
    BY <2>1 DEF Good, Client
  <2>3. Good([w EXCEPT !.phase = Phase(w)])
    <3>. HIDE DEF Phase
    <3>. QED
      BY <1>1, <2>1, <2>2, PhaseGood
  <2>. QED
    BY <2>3 DEF w
<1>7. CASE answer.kind = "empty"
  <2>1. DifferenceAnswered(tls, answer) = Started(Set(u, "seq", answer.seq))
    BY <1>7 DEF DifferenceAnswered, Unlocked
  <2>. QED
    BY <2>1, <1>2, <1>6
<1>8. CASE answer.kind = "full"
  <2>1. DifferenceAnswered(tls, answer) = Started(Set(t, "seq", answer.seq))
    BY <1>8 DEF DifferenceAnswered, Unlocked
  <2>2. Good(t)
    BY <1>5, <1>8
  <2>. QED
    BY <2>1, <2>2, <1>6
<1>9. CASE answer.kind = "slice"
  <2>1. DifferenceAnswered(tls, answer) = GetDifference(t, tls.query.start)
    BY <1>9 DEF DifferenceAnswered, Unlocked
  <2>2. Good(t)
    BY <1>5, <1>9
  <2>. HIDE DEF t
  <2>. QED
    BY <2>1, <2>2, <1>1, <1>3, GetDifferenceGood
<1>. QED
  BY <1>7, <1>8, <1>9

-----------------------------------------------------------------------------
\* A push leaves the client good, and the request under the lock as it was.
LEMMA WorkAnyUpdatesGood ==
  ASSUME IInv, NEW p \in pushes
  PROVE  /\ Good(WorkAnyUpdates(tls, p))
         /\ tls.locked => WorkAnyUpdates(tls, p).query = tls.query
<1>. DEFINE r == WorkAnyUpdates(tls, p)
            g == GetDifference(tls, FALSE)
<1>1. /\ Numbering /\ Good(tls) /\ tls \in Client
      /\ p.seq <= srv.seq
      /\ {p.first, p.second} \subseteq events \cup {None}
      /\ p.kind \in {"message", "sent", "affected"} => p.first \in events
      /\ p.kind \in PushKinds /\ p.seq \in Nat /\ p.seq_start \in Nat
  BY DEF IInv, Pushed, TypeOK, Push_, Good
<1>2. Good(g) /\ (tls.locked => g.query = tls.query)
  <2>1. Good(g)
    BY <1>1, GetDifferenceGood
  <2>2. tls.locked => g.query = tls.query
    BY <1>1, GetDifferenceIs
  <2>. QED
    BY <2>1, <2>2
<1>. HIDE DEF g
<1>3. CASE p.kind = "affected"
  <2>1. r = WorkAffected(tls, p.first) /\ p.first \in events
    BY <1>1, <1>3 DEF WorkAnyUpdates
  <2>2. Good(r)
    BY <1>1, <2>1, WorkAffectedGood
  <2>3. Check(tls, p.first) \in {"next", "duplicate", "hole", "busy"}
    BY <1>1, <2>1, CheckRange
  <2>4. tls.locked => r = tls \/ r = g
    BY <2>1, <2>3 DEF WorkAffected, g
  <2>. QED
    BY <1>2, <2>2, <2>4
<1>4. CASE p.kind # "affected" /\ tls.locked
  BY <1>1, <1>4 DEF WorkAnyUpdates
<1>5. CASE p.kind # "affected" /\ ~tls.locked
  <2>1. CASE p.kind \in {"message", "sent"}
    <3>1. p.first \in events
      BY <1>1, <2>1
    <3>2. Good(WorkShortMessage(tls, p.first)) /\ Good(WorkShortSent(tls, p.first))
      BY <1>1, <1>5, <3>1, WorkShortGood
    <3>. QED
      BY <1>5, <2>1, <3>2 DEF WorkAnyUpdates
  <2>2. CASE p.kind = "short"
    <3>1. Good(WorkUpdate(tls, p.first))
      BY <1>1, WorkUpdateGood
    <3>. QED
      BY <1>5, <2>2, <3>1 DEF WorkAnyUpdates
  <2>3. CASE p.kind = "too_long"
    BY <1>2, <1>5, <2>3 DEF WorkAnyUpdates, g
  <2>4. CASE p.kind \in {"updates", "combined"}
    <3>1. Good(WorkUpdates(tls, p))
      BY <1>1, WorkUpdatesGood
    <3>. QED
      BY <1>5, <2>4, <3>1 DEF WorkAnyUpdates
  <2>. QED
    BY <1>1, <1>5, <2>1, <2>2, <2>3, <2>4 DEF PushKinds
<1>. QED
  BY <1>3, <1>4, <1>5

\* A step of the client alone: it is enough that it stays good and keeps the
\* request it has under the lock.
LEMMA ClientStep ==
  ASSUME IInv, Good(tls'), tls.locked => tls'.query = tls.query,
         UNCHANGED <<answer, file, restarts, srv, events, earlier>>,
         pushes' \subseteq pushes,
         lookup' \in [kind : {"none", "asked", "answered"}, pts : Nat, qts : Nat,
                      seq : Nat]
  PROVE  IInv'
<1>1. TypeOK'
  BY DEF IInv, TypeOK, Good, Client, Query
<1>2. Numbering'
  BY DEF IInv, Numbering, Numbered
<1>3. Good(tls)'
  BY DEF Good, Exact, Covered, Saved, Asked, Held
<1>4. Answered'
  <2>1. tls.query # NoQuery => tls'.query = tls.query
    BY DEF IInv, Good, Asked
  <2>2. tls.query.kind # "none" => tls'.query = tls.query
    BY <2>1 DEF NoQuery
  <2>. QED
    BY <2>1, <2>2 DEF IInv, Answered, News
<1>5. Pushed'
  BY DEF IInv, Pushed
<1>. QED
  BY <1>1, <1>2, <1>3, <1>4, <1>5 DEF IInv

-----------------------------------------------------------------------------
\* An update that the server may produce after the counters c.
After(c, u) ==
  /\ u \in Update /\ u.at \in Number
  /\ u.count >= 1 /\ u.at = c[u.box] + u.count
  /\ u.box = "pts" => u.at <= MaxPts
  /\ u.box = "qts" => u.at <= MaxQts

\* The updates of NextIn are such, whatever the kind of push.
LEMMA NextInAfter ==
  ASSUME NEW c \in Counters, NEW b \in Box, NEW k, NEW u \in NextIn(b, c, k)
  PROVE  After(c, u) /\ u # None
<1>1. /\ u \in [box : {b}, at : c[b] + 1 .. Limit[b], count : 1 .. MaxCount,
                known : {TRUE} \cup {x \in {FALSE} : k \in Strangers}]
      /\ u.at = c[b] + u.count
  BY DEF NextIn
<1>2. c[b] \in Nat
  BY DEF Counters, Box
<1>3. Limit[b] \in Nat /\ Limit[b] <= MaxPts + MaxQts
      /\ (b = "pts" => Limit[b] = MaxPts) /\ (b = "qts" => Limit[b] = MaxQts)
  BY BoundsAssumption DEF Limit, Box
<1>4. /\ u.box = b /\ u.at \in c[b] + 1 .. Limit[b] /\ u.count \in 1 .. MaxCount
      /\ u.known \in BOOLEAN
  BY <1>1
<1>5. u.at \in Number /\ u.at \in Nat /\ u.count \in Nat
  BY <1>2, <1>3, <1>4, BoundsAssumption DEF Number
<1>6. u \in Update
  BY <1>1, <1>4, <1>5 DEF Update
<1>7. u # None
  BY <1>4 DEF None, Box
<1>. QED
  BY <1>1, <1>3, <1>4, <1>5, <1>6, <1>7 DEF After

\* The numbering stays one when such an update happens.
LEMMA NumberedMoved ==
  ASSUME NEW c \in Counters, c.pts <= MaxPts, c.qts <= MaxQts,
         NEW E, Numbered(E, c), NEW u, After(c, u)
  PROVE  /\ Moved(c, u) \in Counters
         /\ Moved(c, u).pts <= MaxPts /\ Moved(c, u).qts <= MaxQts
         /\ Moved(c, u).seq = c.seq
         /\ \A b \in Counter : c[b] <= Moved(c, u)[b]
         /\ Numbered(E \cup {u}, Moved(c, u))
         /\ u.at > c[u.box]
<1>. DEFINE m == Moved(c, u)
<1>1. /\ u \in Update /\ u.box \in Box /\ u.at \in Nat /\ u.count \in Nat
      /\ u.at \in Number /\ u.count >= 1 /\ u.at = c[u.box] + u.count
  BY DEF After, Update
<1>2. c.pts \in Nat /\ c.qts \in Nat /\ c.seq \in Nat
  BY DEF Counters
<1>3. \A b \in Counter : c[b] \in Nat
  BY <1>2 DEF Counter
<1>4. u.box \in Counter /\ u.box # "none" /\ u.box # "seq" /\ c[u.box] \in Nat
  BY <1>1, <1>3 DEF Box, Counter
<1>5. m = [c EXCEPT ![u.box] = u.at]
  BY <1>4 DEF Moved
<1>6. m \in Counters
  BY <1>1, <1>5 DEF Counters
<1>7. /\ m[u.box] = u.at
      /\ \A b \in Counter \ {u.box} : m[b] = c[b]
  BY <1>4, <1>5 DEF Counters, Counter
<1>8. m.seq = c.seq
  BY <1>4, <1>7 DEF Counter
<1>9. \A b \in Counter : c[b] <= m[b] /\ m[b] \in Nat
  BY <1>1, <1>3, <1>4, <1>7
<1>10. m.pts <= MaxPts /\ m.qts <= MaxQts
  BY <1>1, <1>7 DEF After, Counter, Box
<1>11. u.at > c[u.box]
  BY <1>1, <1>4
<1>. HIDE DEF m
<1>12. ASSUME NEW e \in E
       PROVE  /\ e \in Update /\ e.at \in Number /\ e.at \in Nat
              /\ e.count \in Nat /\ e.count >= 1 /\ e.count <= e.at
              /\ e.at <= c[e.box] /\ e.box \in Counter
  BY DEF Numbered, Update, Box, Counter
<1>13. ASSUME NEW e \in E
       PROVE  e.at <= m[e.box]
  BY <1>3, <1>9, <1>12
<1>14. ASSUME NEW e \in E, e.box = u.box
       PROVE  e.at <= u.at - u.count
  BY <1>1, <1>4, <1>12, <1>14
<1>15. u.count <= u.at /\ u.at <= m[u.box]
  BY <1>1, <1>4, <1>7
<1>16. \A e \in E \cup {u} : /\ e \in Update /\ e.at \in Number
                             /\ e.count >= 1 /\ e.count <= e.at
                             /\ e.at <= m[e.box]
  BY <1>1, <1>12, <1>13, <1>15
<1>17. \A e, f \in E \cup {u} : e.box = f.box /\ e # f =>
         e.at <= f.at - f.count \/ f.at <= e.at - e.count
  BY <1>14 DEF Numbered
<1>. QED
  BY <1>6, <1>8, <1>9, <1>10, <1>11, <1>16, <1>17 DEF Numbered, m

\* The server's step: events that are new come after all counters, so the
\* client remains good and an answer that is on its way remains an answer.
LEMMA EventsGrow ==
  ASSUME IInv, srv' \in Counters, events \subseteq events',
         \A c \in Counter : srv[c] <= srv'[c],
         srv'.pts <= MaxPts, srv'.qts <= MaxQts, srv'.seq <= MaxSeq,
         Numbered(events', srv'),
         \A e \in events' \ events : e.at > srv[e.box],
         UNCHANGED <<tls, answer, lookup, file, restarts, earlier>>,
         pushes' \subseteq Push_,
         Pushed'
  PROVE  IInv'
<1>1. Numbering'
  BY DEF IInv, Numbering
<1>2. /\ tls \in Client /\ Good(tls)
      /\ \A c \in Counter : /\ tls[c] \in Nat /\ srv[c] \in Nat /\ srv'[c] \in Nat
                            /\ file[c] \in Nat /\ tls[c] <= srv[c] /\ file[c] <= tls[c]
  BY BoundsAssumption DEF IInv, Good, Saved, Client, Numbering, Counters, Counter
<1>3. ASSUME NEW e \in events' \ events
      PROVE  /\ e.box \in Box /\ e.box \in Counter /\ e.at \in Nat
             /\ e.at > tls[e.box] /\ e.at > file[e.box] /\ e.at > tls.base[e.box]
  <2>1. e.box \in Box /\ e.box \in Counter /\ e.at \in Nat
    BY DEF Numbered, Update, Box, Counter
  <2>2. tls.base[e.box] <= tls[e.box] /\ tls.base[e.box] \in Nat
    BY <1>2, <2>1 DEF Good, Exact, Client
  <2>. QED
    BY <1>2, <2>1, <2>2
<1>4. Good(tls)'
  <2>1. \A c \in Counter : tls[c] <= srv'[c]
    BY <1>2
  <2>2. Exact(tls, events')
    <3>1. \A e \in events' : tls.base[e.box] < e.at /\ e.at <= tls[e.box] => e \in events
      BY <1>2, <1>3
    <3>. QED
      BY <1>2, <3>1 DEF Good, Exact
  <2>3. Covered(tls, events', earlier)
    <3>1. \A b \in Box : tls.base[b] \in Nat
      BY <1>2 DEF Client
    <3>2. \A e \in events' : e.at <= tls.base[e.box] => e \in events
      BY <1>3, <3>1
    <3>. QED
      BY <1>2, <3>2 DEF Good, Covered
  <2>4. Saved(tls, events', earlier, file)
    <3>1. \A e \in events' : e.at <= file[e.box] => e \in events
      BY <1>2, <1>3
    <3>. QED
      BY <1>2, <3>1 DEF Good, Saved
  <2>. QED
    BY <1>2, <2>1, <2>2, <2>3, <2>4 DEF Good, Exact, Covered, Saved, Asked, Held
<1>5. Answered'
  <2>1. /\ answer.pts \in Nat /\ answer.qts \in Nat /\ answer.seq \in Nat
        /\ answer.pts <= srv.pts /\ answer.qts <= srv.qts /\ answer.seq <= srv.seq
    BY DEF IInv, TypeOK, Answered
  <2>2. answer.pts <= srv'.pts /\ answer.qts <= srv'.qts /\ answer.seq <= srv'.seq
    BY <1>2, <2>1 DEF Counter
  <2>3. \A e \in events' \ events : ~(e.box = "pts" /\ e.at <= answer.pts)
                                    /\ ~(e.box = "qts" /\ e.at <= answer.qts)
    BY <1>2, <1>3, <2>1 DEF Counter
  <2>4. News(answer.pts, answer.qts)' = News(answer.pts, answer.qts)
    BY <2>3 DEF News
  <2>. QED
    BY <2>2, <2>4 DEF IInv, Answered
<1>6. TypeOK'
  <2>1. events' \subseteq Update
    BY DEF Numbered
  <2>. QED
    BY <2>1 DEF IInv, TypeOK
<1>. QED
  BY <1>1, <1>4, <1>5, <1>6 DEF IInv

\* A push of one or two updates.
LEMMA PushGood ==
  ASSUME IInv, NEW k, NEW starts \in Nat, NEW ends \in Nat, NEW u, NEW v,
         Push(k, starts, ends, u, v),
         u = None \/ (After(srv, u) /\ u # None),
         v = None \/ (After(Moved(srv, u), v) /\ v # None),
         k \in {"message", "sent", "affected"} => u # None,
         ends # 0 => srv.seq <= ends /\ ends <= MaxSeq
  PROVE  IInv'
<1>. DEFINE m == Moved(srv, u)
            n == Moved(m, v)
            E == events \cup ({u} \ {None})
            F == E \cup ({v} \ {None})
<1>1. /\ srv \in Counters /\ srv.pts <= MaxPts /\ srv.qts <= MaxQts
      /\ srv.seq <= MaxSeq /\ Numbered(events, srv)
  BY DEF IInv, Numbering
<1>2. /\ m \in Counters /\ m.pts <= MaxPts /\ m.qts <= MaxQts /\ m.seq = srv.seq
      /\ \A b \in Counter : srv[b] <= m[b]
      /\ Numbered(E, m)
      /\ u # None => u.at > srv[u.box]
  <2>1. CASE u = None
    <3>1. m = srv /\ E = events
      BY <2>1 DEF Moved, None
    <3>2. \A b \in Counter : srv[b] <= srv[b]
      BY <1>1 DEF Counters, Counter
    <3>. QED
      BY <1>1, <2>1, <3>1, <3>2
  <2>2. CASE u # None
    <3>1. E = events \cup {u} /\ After(srv, u)
      BY <2>2
    <3>. QED
      BY <1>1, <3>1, NumberedMoved
  <2>. QED
    BY <2>1, <2>2
<1>3. /\ n \in Counters /\ n.pts <= MaxPts /\ n.qts <= MaxQts /\ n.seq = srv.seq
      /\ \A b \in Counter : m[b] <= n[b]
      /\ Numbered(F, n)
      /\ v # None => v.at > m[v.box]
  <2>1. CASE v = None
    <3>1. n = m /\ F = E
      BY <2>1 DEF Moved, None
    <3>2. \A b \in Counter : m[b] <= m[b]
      BY <1>2 DEF Counters, Counter
    <3>. QED
      BY <1>2, <2>1, <3>1, <3>2
  <2>2. CASE v # None
    <3>1. F = E \cup {v} /\ After(m, v)
      BY <2>2
    <3>. HIDE DEF m, E
    <3>. QED
      BY <1>2, <3>1, NumberedMoved DEF n
  <2>. QED
    BY <2>1, <2>2
<1>4. /\ srv' = [n EXCEPT !.seq = IF ends = 0 THEN n.seq ELSE ends]
      /\ events' = F
      /\ pushes' = pushes \cup {[kind |-> k, seq_start |-> starts, seq |-> ends,
                                 first |-> u, second |-> v]}
      /\ k \in PushKinds
      /\ UNCHANGED <<tls, answer, lookup, file, restarts, earlier>>
  BY BoundsAssumption DEF Push
<1>. HIDE DEF m, n, E
<1>5. /\ \A b \in Counter : srv[b] \in Nat /\ m[b] \in Nat /\ n[b] \in Nat
      /\ \A b \in Box : b \in Counter
  BY <1>1, <1>2, <1>3 DEF Counters, Counter, Box
<1>6. srv' \in Counters /\ srv'.pts = n.pts /\ srv'.qts = n.qts
  BY <1>3, <1>4 DEF Counters
<1>7. srv'.seq = IF ends = 0 THEN n.seq ELSE ends
  BY <1>3, <1>4 DEF Counters
<1>8. srv.seq <= srv'.seq /\ srv'.seq <= MaxSeq /\ ends <= srv'.seq
  BY <1>1, <1>3, <1>5, <1>7, BoundsAssumption DEF Counter
<1>9. \A c \in Counter : srv[c] <= srv'[c]
  <2>1. srv.pts <= n.pts /\ srv.qts <= n.qts
    BY <1>2, <1>3, <1>5 DEF Counter
  <2>. QED
    BY <1>6, <1>8, <2>1 DEF Counter
<1>10. Numbered(events', srv')
  <2>1. \A e \in F : e.box \in Box
    BY <1>3 DEF Numbered, Update
  <2>2. \A b \in Box : srv'[b] = n[b]
    BY <1>6 DEF Box
  <2>. QED
    BY <1>3, <1>4, <2>1, <2>2 DEF Numbered
<1>11. \A e \in events' \ events : e.at > srv[e.box]
  <2>1. v # None => v.at > srv[v.box]
    <3>. SUFFICES ASSUME v # None PROVE v.at > srv[v.box]
      OBVIOUS
    <3>1. v \in F
      BY DEF F
    <3>2. v.box \in Box /\ v.at \in Nat
      BY <1>3, <3>1 DEF Numbered, Update
    <3>. QED
      BY <1>2, <1>3, <1>5, <3>2
  <2>. QED
    BY <1>2, <1>4, <2>1 DEF F, E
<1>12. pushes' \subseteq Push_
  <2>1. {u, v} \subseteq Update \cup {None}
    BY <1>3 DEF F, E, Numbered
  <2>. QED
    BY <1>4, <2>1 DEF IInv, TypeOK, Push_
<1>13. Pushed'
  <2>1. ASSUME NEW p \in pushes
        PROVE  /\ p.seq <= srv'.seq
               /\ {p.first, p.second} \subseteq events' \cup {None}
               /\ p.kind \in {"message", "sent", "affected"} => p.first \in events'
    <3>1. p.seq \in Nat /\ p.seq <= srv.seq
      BY DEF IInv, TypeOK, Push_, Pushed
    <3>2. srv.seq \in Nat /\ srv'.seq \in Nat
      BY <1>5, <1>6 DEF Counters, Counter
    <3>3. events \subseteq events'
      BY <1>4 DEF F, E
    <3>. QED
      BY <1>8, <3>1, <3>2, <3>3 DEF IInv, Pushed
  <2>2. {u, v} \subseteq events' \cup {None}
    BY <1>4 DEF F, E
  <2>3. u # None => u \in events'
    BY <1>4 DEF F, E
  <2>4. ASSUME NEW p \in pushes' \ pushes
        PROVE  /\ p.seq = ends /\ p.first = u /\ p.second = v /\ p.kind = k
    BY <1>4
  <2>. QED
    BY <1>8, <2>1, <2>2, <2>3, <2>4 DEF Pushed
<1>14. events \subseteq events'
  BY <1>4 DEF F, E
<1>. QED
  BY <1>3, <1>4, <1>6, <1>8, <1>9, <1>10, <1>11, <1>12, <1>13, <1>14, EventsGrow

-----------------------------------------------------------------------------
\* The initial state satisfies the invariant.
LEMMA InitIInv == Init => IInv
<1>. SUFFICES ASSUME Init PROVE IInv
  OBVIOUS
<1>1. /\ tls = Fresh(Zero, [b \in Box |-> 0]) /\ answer = NoAnswer
      /\ lookup = NoLookup /\ file = Zero /\ restarts = 0 /\ srv = Zero
      /\ events = {} /\ pushes = {} /\ earlier = {}
  BY DEF Init
<1>2. Nothing \in [Box -> [Number -> Nat]]
      /\ \A b \in Box : \A n \in Number : Nothing[b][n] = 0
  BY DEF Nothing
<1>3. /\ [b \in Box |-> Zero[b]] \in [Box -> Nat]
      /\ [b \in Box |-> 0] \in [Box -> Nat]
  BY DEF Zero, Box
<1>4. NoQuery \in Query
  BY DEF NoQuery, Query
<1>5. tls \in Client
  BY <1>1, <1>2, <1>3, <1>4, BoundsAssumption DEF Fresh, Zero, Client
<1>6. /\ tls.pts = 0 /\ tls.qts = 0 /\ tls.seq = 0 /\ ~tls.locked
      /\ tls.query = NoQuery /\ tls.done = Nothing
      /\ tls.base = [b \in Box |-> Zero[b]]
  BY <1>1 DEF Fresh, Zero
<1>7. Numbering
  BY <1>1, BoundsAssumption DEF Numbering, Numbered, Counters, Zero
<1>8. Good(tls)
  <2>1. \A c \in Counter : tls[c] <= srv[c] /\ file[c] <= tls[c]
    BY <1>1, <1>6 DEF Counter, Zero
  <2>2. Exact(tls, events)
    BY <1>1, <1>2, <1>6 DEF Exact, Box, Zero
  <2>3. Covered(tls, events, earlier) /\ Saved(tls, events, earlier, file)
    BY <1>1, <2>1 DEF Covered, Saved
  <2>4. Asked(tls) /\ Held(tls)
    BY <1>6 DEF Asked, Held, NoQuery
  <2>. QED
    BY <1>5, <2>1, <2>2, <2>3, <2>4 DEF Good
<1>9. Answered
  BY <1>1 DEF Answered, NoAnswer, Zero
<1>10. Pushed
  BY <1>1 DEF Pushed
<1>11. TypeOK
  <2>1. answer \in [kind : {"none", "state", "empty", "full", "slice"}, pts : Nat,
                    qts : Nat, seq : Nat, news : SUBSET Update]
    BY <1>1 DEF NoAnswer
  <2>2. lookup \in [kind : {"none", "asked", "answered"}, pts : Nat, qts : Nat,
                    seq : Nat]
    BY <1>1 DEF NoLookup
  <2>. QED
    BY <1>1, <1>5, <1>7, <2>1, <2>2, BoundsAssumption DEF TypeOK, Client, Query, Numbering
<1>. QED
  BY <1>7, <1>8, <1>9, <1>10, <1>11 DEF IInv

\* When the answer is gone, nothing is claimed of it.
LEMMA NoAnswerAnswered ==
  ASSUME srv \in Counters, answer = NoAnswer
  PROVE  Answered
  BY DEF Answered, NoAnswer, Counters

\* An update that is next after the counters c, or none.
IsNext(c, u) == u = None \/ (After(c, u) /\ u # None)

\* A push of the updates u and v, which are the next ones, in the next
\* container or in none.
Pushing(k, starts, ends, u, v) ==
  /\ Push(k, starts, ends, u, v)
  /\ IsNext(srv, u) /\ IsNext(Moved(srv, u), v)
  /\ k \in {"message", "sent", "affected"} => u # None
  /\ \/ starts = 0 /\ ends = 0
     \/ starts = srv.seq + 1 /\ starts <= ends /\ ends <= MaxSeq

\* The server's pushes are such.
LEMMA PushesAre ==
  ASSUME IInv, PushMessage \/ PushShort \/ PushUpdates \/ PushTooLong
  PROVE  \E k, u, v : \E starts, ends \in Nat : Pushing(k, starts, ends, u, v)
<1>1. srv \in Counters /\ srv.seq \in Nat
  BY DEF IInv, Numbering, Counters
<1>2. \A c \in Counters, b \in Box, k \in PushKinds :
        \A u \in NextIn(b, c, k) : IsNext(c, u) /\ u # None
  BY NextInAfter DEF IsNext
<1>3. CASE PushMessage
  <2>1. PICK k \in {"message", "sent", "affected"} :
          \E u \in NextIn("pts", srv, k) : Push(k, 0, 0, u, None)
    BY <1>3 DEF PushMessage
  <2>2. PICK u \in NextIn("pts", srv, k) : Push(k, 0, 0, u, None)
    BY <2>1
  <2>3. IsNext(srv, u) /\ u # None
    BY <1>1, <1>2, <2>2 DEF Box, PushKinds
  <2>. QED
    BY <2>2, <2>3 DEF Pushing, IsNext
<1>4. CASE PushShort
  <2>1. PICK b \in Box : \E u \in NextIn(b, srv, "short") : Push("short", 0, 0, u, None)
    BY <1>4 DEF PushShort
  <2>2. PICK u \in NextIn(b, srv, "short") : Push("short", 0, 0, u, None)
    BY <2>1
  <2>3. IsNext(srv, u)
    BY <1>1, <1>2, <2>2 DEF PushKinds
  <2>. QED
    BY <2>2, <2>3 DEF Pushing, IsNext
<1>5. CASE PushUpdates
  <2>1. PICK b \in Box : \E u \in NextIn(b, srv, "updates") :
          \E v \in {None} \cup UNION {NextIn(c, Moved(srv, u), "updates") : c \in Box} :
            \/ Push("updates", 0, 0, u, v)
            \/ /\ srv.seq + 1 <= MaxSeq
               /\ Push("updates", srv.seq + 1, srv.seq + 1, u, v)
            \/ /\ srv.seq + 2 <= MaxSeq
               /\ v # None
               /\ Push("combined", srv.seq + 1, srv.seq + 2, u, v)
    BY <1>5 DEF PushUpdates
  <2>2. PICK u \in NextIn(b, srv, "updates") :
          \E v \in {None} \cup UNION {NextIn(c, Moved(srv, u), "updates") : c \in Box} :
            \/ Push("updates", 0, 0, u, v)
            \/ /\ srv.seq + 1 <= MaxSeq
               /\ Push("updates", srv.seq + 1, srv.seq + 1, u, v)
            \/ /\ srv.seq + 2 <= MaxSeq
               /\ v # None
               /\ Push("combined", srv.seq + 1, srv.seq + 2, u, v)
    BY <2>1
  <2>3. PICK v \in {None} \cup UNION {NextIn(c, Moved(srv, u), "updates") : c \in Box} :
            \/ Push("updates", 0, 0, u, v)
            \/ /\ srv.seq + 1 <= MaxSeq
               /\ Push("updates", srv.seq + 1, srv.seq + 1, u, v)
            \/ /\ srv.seq + 2 <= MaxSeq
               /\ v # None
               /\ Push("combined", srv.seq + 1, srv.seq + 2, u, v)
    BY <2>2
  <2>4. IsNext(srv, u) /\ u # None
    BY <1>1, <1>2, <2>2 DEF PushKinds
  <2>5. Moved(srv, u) \in Counters
    BY <1>1, <2>4, NumberedMoved DEF IInv, Numbering, IsNext
  <2>6. IsNext(Moved(srv, u), v)
    <3>1. v = None \/ \E c \in Box : v \in NextIn(c, Moved(srv, u), "updates")
      BY <2>3
    <3>. QED
      BY <1>2, <2>5, <3>1 DEF PushKinds, IsNext
  <2>7. srv.seq + 1 \in Nat /\ srv.seq + 2 \in Nat
        /\ srv.seq <= srv.seq + 1 /\ srv.seq <= srv.seq + 2
    BY <1>1
  <2>8. CASE Push("updates", 0, 0, u, v)
    BY <2>4, <2>6, <2>8 DEF Pushing
  <2>9. CASE srv.seq + 1 <= MaxSeq /\ Push("updates", srv.seq + 1, srv.seq + 1, u, v)
    BY <1>1, <2>4, <2>6, <2>7, <2>9 DEF Pushing
  <2>10. CASE srv.seq + 2 <= MaxSeq /\ Push("combined", srv.seq + 1, srv.seq + 2, u, v)
    BY <1>1, <2>4, <2>6, <2>7, <2>10 DEF Pushing
  <2>. QED
    BY <2>3, <2>8, <2>9, <2>10
<1>6. CASE PushTooLong
  <2>1. Push("too_long", 0, 0, None, None)
    BY <1>6 DEF PushTooLong
  <2>. QED
    BY <2>1 DEF Pushing, IsNext, Moved, None
<1>. QED
  BY <1>3, <1>4, <1>5, <1>6

\* The server pushes.
LEMMA PushesGood ==
  ASSUME IInv, PushMessage \/ PushShort \/ PushUpdates \/ PushTooLong
  PROVE  IInv'
<1>1. PICK k, u, v : \E starts, ends \in Nat : Pushing(k, starts, ends, u, v)
  BY PushesAre
<1>2. PICK starts \in Nat, ends \in Nat : Pushing(k, starts, ends, u, v)
  BY <1>1
<1>3. ends # 0 => srv.seq <= ends /\ ends <= MaxSeq
  BY <1>2 DEF Pushing, IInv, Numbering, Counters
<1>. QED
  BY <1>2, <1>3, PushGood DEF Pushing, IsNext

\* The server answers the request under the lock.
LEMMA AnswerGood ==
  ASSUME IInv, Answer
  PROVE  IInv'
<1>1. /\ tls.query # NoQuery /\ tls.query \in Query
      /\ UNCHANGED <<tls, lookup, file, restarts, srv, events, pushes, earlier>>
      /\ Numbering /\ Good(tls) /\ srv \in Counters
  BY DEF Answer, IInv, TypeOK, Query, Numbering
<1>2. Numbering' /\ Good(tls)' /\ Pushed'
  BY <1>1 DEF IInv, Numbering, Numbered, Good, Exact, Covered, Saved, Asked, Held, Pushed
<1>3. ASSUME NEW p, NEW q PROVE News(p, q) \subseteq events /\ News(p, q)' = News(p, q)
  BY <1>1 DEF News
<1>4. events \subseteq Update
  BY DEF IInv, TypeOK
<1>5. /\ srv.pts \in Nat /\ srv.qts \in Nat /\ srv.seq \in Nat
  BY <1>1 DEF Counters
<1>. DEFINE Sound(a) ==
       /\ a \in [kind : {"none", "state", "empty", "full", "slice"}, pts : Nat,
                 qts : Nat, seq : Nat, news : SUBSET Update]
       /\ a.kind # "none"
       /\ a.kind = "state" => tls.query.kind = "state"
       /\ a.kind \in {"empty", "full", "slice"} => tls.query.kind = "difference"
       /\ a.pts <= srv.pts /\ a.qts <= srv.qts /\ a.seq <= srv.seq
       /\ a.kind \in {"full", "slice"} => a.news = News(a.pts, a.qts)
       /\ a.news \subseteq events
<1>6. Sound(answer')
  <2>1. CASE /\ tls.query.kind = "state"
             /\ answer' = [kind |-> "state", pts |-> srv.pts, qts |-> srv.qts,
                           seq |-> srv.seq, news |-> {}]
    BY <1>5, <2>1
  <2>2. CASE /\ tls.query.kind = "difference"
             /\ LET news == News(srv.pts, srv.qts)
                IN answer' = [kind |-> IF news = {} THEN "empty" ELSE "full",
                              pts |-> srv.pts, qts |-> srv.qts, seq |-> srv.seq,
                              news |-> news]
    BY <1>3, <1>4, <1>5, <2>2
  <2>3. ASSUME tls.query.kind = "difference",
               NEW p \in {tls.query.pts} \cup {e.at : e \in {x \in events : x.box = "pts"}},
               NEW q \in {tls.query.qts} \cup {e.at : e \in {x \in events : x.box = "qts"}},
               answer' = [kind |-> "slice", pts |-> p, qts |-> q, seq |-> 0,
                          news |-> News(p, q)]
        PROVE  Sound(answer')
    <3>1. \A e \in events : /\ e.at \in Nat
                            /\ e.box = "pts" => e.at <= srv.pts
                            /\ e.box = "qts" => e.at <= srv.qts
      BY <1>1 DEF Numbering, Numbered, Update
    <3>2. tls.query.pts = tls.pts /\ tls.query.qts = tls.qts
      BY <1>1, <2>3 DEF Good, Asked
    <3>3. /\ tls.pts \in Nat /\ tls.pts <= srv.pts
          /\ tls.qts \in Nat /\ tls.qts <= srv.qts
      BY <1>1, BoundsAssumption DEF Good, Client, Counter
    <3>4. p \in Nat /\ p <= srv.pts /\ q \in Nat /\ q <= srv.qts
      BY <3>1, <3>2, <3>3
    <3>. QED
      BY <1>3, <1>4, <1>5, <2>3, <3>4
  <2>. HIDE DEF Sound
  <2>. QED
    BY <2>1, <2>2, <2>3 DEF Answer
<1>7. Answered'
  BY <1>1, <1>3, <1>6 DEF Answered
<1>8. TypeOK'
  BY <1>1, <1>6 DEF IInv, TypeOK
<1>. QED
  BY <1>2, <1>7, <1>8 DEF IInv

\* The client handles the answer.
LEMMA HandleAnswerGood ==
  ASSUME IInv, HandleAnswer
  PROVE  IInv'
<1>1. /\ answer # NoAnswer /\ answer' = NoAnswer
      /\ UNCHANGED <<lookup, file, restarts, srv, events, pushes, earlier>>
      /\ tls' = IF answer.kind = "state" THEN StateAnswered(tls, answer)
                ELSE DifferenceAnswered(tls, answer)
  BY DEF HandleAnswer
<1>2. /\ Numbering /\ Good(tls)
      /\ answer.kind \in {"state", "empty", "full", "slice"}
      /\ answer.pts \in Nat /\ answer.qts \in Nat /\ answer.seq \in Nat
      /\ answer.pts <= srv.pts /\ answer.qts <= srv.qts /\ answer.seq <= srv.seq
  BY <1>1 DEF IInv, Answered, TypeOK
<1>3. Good(tls')
  <2>1. CASE answer.kind = "state"
    <3>1. Good(StateAnswered(tls, answer))
      BY <1>2, StateGood
    <3>. QED
      BY <1>1, <2>1, <3>1
  <2>2. CASE answer.kind # "state"
    <3>1. Good(DifferenceAnswered(tls, answer))
      BY <1>2, <2>2, DifferenceGood
    <3>. QED
      BY <1>1, <2>2, <3>1
  <2>. QED
    BY <2>1, <2>2
<1>4. Good(tls)'
  BY <1>1, <1>3 DEF Good, Exact, Covered, Saved, Asked, Held
<1>5. Numbering' /\ Pushed'
  BY <1>1 DEF IInv, Numbering, Numbered, Pushed
<1>6. Answered'
  BY <1>1, <1>5, NoAnswerAnswered DEF Answered, NoAnswer, Numbering, Counters
<1>7. TypeOK'
  <2>1. tls' \in Client
    BY <1>3 DEF Good
  <2>2. answer' \in [kind : {"none", "state", "empty", "full", "slice"}, pts : Nat,
                    qts : Nat, seq : Nat, news : SUBSET Update]
    BY <1>1 DEF NoAnswer
  <2>. QED
    BY <1>1, <2>1, <2>2 DEF IInv, TypeOK, Client, Query
<1>. QED
  BY <1>4, <1>5, <1>6, <1>7 DEF IInv

\* The request fails: what is lost is the request, and the lock stays.
LEMMA HandleErrorGood ==
  ASSUME IInv, HandleError
  PROVE  IInv'
<1>. DEFINE phase == IF tls.query.start THEN "failed" ELSE tls.phase
<1>1. /\ Errors /\ answer' = NoAnswer
      /\ UNCHANGED <<lookup, file, restarts, srv, events, pushes, earlier>>
      /\ tls' = [tls EXCEPT !.query = NoQuery, !.phase = phase]
  BY DEF HandleError
<1>2. Numbering /\ Good(tls) /\ tls \in Client
  BY DEF IInv, Good
<1>3. NoQuery \in Query /\ phase \in {"login", "started", "failed", "aborted"}
  BY <1>2 DEF NoQuery, Query, Client
<1>. HIDE DEF phase
<1>4. /\ tls' \in Client /\ tls'.query = NoQuery
      /\ \A c \in Counter : tls'[c] = tls[c]
      /\ tls'.done = tls.done /\ tls'.base = tls.base /\ tls'.origin = tls.origin
  BY <1>1, <1>2, <1>3 DEF Client, Counter
<1>5. Asked(tls') /\ Held(tls')
  BY <1>1, <1>4 DEF Asked, Held, NoQuery
<1>6. Good(tls')
  BY <1>2, <1>4, <1>5, SameGood
<1>7. Good(tls)'
  BY <1>1, <1>6 DEF Good, Exact, Covered, Saved, Asked, Held
<1>8. Numbering' /\ Pushed'
  BY <1>1 DEF IInv, Numbering, Numbered, Pushed
<1>9. Answered'
  BY <1>1, <1>8 DEF Answered, NoAnswer, Numbering, Counters
<1>10. TypeOK'
  <2>1. answer' \in [kind : {"none", "state", "empty", "full", "slice"}, pts : Nat,
                    qts : Nat, seq : Nat, news : SUBSET Update]
    BY <1>1 DEF NoAnswer
  <2>. QED
    BY <1>1, <1>4, <2>1 DEF IInv, TypeOK, Client, Query
<1>. QED
  BY <1>7, <1>8, <1>9, <1>10 DEF IInv

\* The state file is overtaken by what the client has applied.
LEMMA WriteStateFileGood ==
  ASSUME IInv, WriteStateFile
  PROVE  IInv'
<1>1. /\ file' = [pts |-> tls.pts, qts |-> tls.qts, seq |-> tls.seq]
      /\ UNCHANGED <<tls, answer, lookup, restarts, srv, events, pushes, earlier>>
      /\ Numbering /\ Good(tls) /\ tls \in Client
  BY DEF WriteStateFile, IInv, Good
<1>2. /\ tls.pts \in Nat /\ tls.qts \in Nat /\ tls.seq \in Nat
  BY <1>1, BoundsAssumption DEF Client
<1>3. /\ file' \in Counters
      /\ \A c \in Counter : file'[c] = tls[c] /\ tls[c] <= tls[c]
  BY <1>1, <1>2 DEF Counters, Counter
<1>4. Saved(tls, events, earlier, file')
  <2>. SUFFICES ASSUME NEW e \in events, e.at <= file'[e.box]
                PROVE  e.at <= tls.origin[e.box] \/ tls.done[e.box][e.at] > 0 \/ e \in earlier
    BY <1>3 DEF Saved
  <2>1. e.box \in Box /\ e.box \in Counter /\ e.at \in Nat
    BY <1>1 DEF Numbering, Numbered, Update, Box, Counter
  <2>2. e.at <= tls[e.box] /\ tls.base[e.box] \in Nat
    BY <1>1, <1>3, <2>1 DEF Client
  <2>3. CASE e.at <= tls.base[e.box]
    BY <1>1, <2>3 DEF Good, Covered
  <2>4. CASE tls.base[e.box] < e.at
    BY <1>1, <2>2, <2>4 DEF Good, Exact
  <2>. QED
    BY <2>1, <2>2, <2>3, <2>4
<1>5. Good(tls)'
  BY <1>1, <1>4 DEF Good, Exact, Covered, Saved, Asked, Held
<1>6. Numbering' /\ Answered' /\ Pushed'
  BY <1>1, <1>3 DEF IInv, Numbering, Numbered, Answered, News, Pushed
<1>7. TypeOK'
  BY <1>1, <1>3 DEF IInv, TypeOK
<1>. QED
  BY <1>5, <1>6, <1>7 DEF IInv

\* A new process, from the state file of the one before it.
LEMMA RestartGood ==
  ASSUME IInv, Restart
  PROVE  IInv'
<1>1. /\ restarts' \in 0 .. MaxRestarts
      /\ tls' = Fresh(file, tls.origin)
      /\ earlier' = earlier \cup {e \in events : tls.done[e.box][e.at] > 0}
      /\ answer' = NoAnswer /\ lookup' = NoLookup
      /\ pushes' \subseteq pushes
      /\ UNCHANGED <<file, srv, events>>
      /\ Numbering /\ Good(tls) /\ tls \in Client
  BY BoundsAssumption DEF Restart, IInv, TypeOK, Good
<1>2. /\ file.pts \in Nat /\ file.qts \in Nat /\ file.seq \in Nat
      /\ file.pts <= MaxPts /\ file.qts <= MaxQts /\ file.seq <= MaxSeq
      /\ \A c \in Counter : file[c] \in Nat /\ file[c] <= srv[c] /\ file[c] <= file[c]
  <2>1. file.pts \in Nat /\ file.qts \in Nat /\ file.seq \in Nat
    BY <1>1 DEF Numbering, Counters
  <2>2. \A c \in Counter : /\ file[c] \in Nat /\ tls[c] \in Nat /\ srv[c] \in Nat
                           /\ file[c] <= tls[c] /\ tls[c] <= srv[c]
    BY <1>1, BoundsAssumption DEF Good, Saved, Client, Numbering, Counters, Counter
  <2>3. srv.pts <= MaxPts /\ srv.qts <= MaxQts /\ srv.seq <= MaxSeq
    BY <1>1 DEF Numbering
  <2>4. file.pts <= MaxPts /\ file.qts <= MaxQts /\ file.seq <= MaxSeq
    BY <2>2, <2>3, BoundsAssumption DEF Counter
  <2>. QED
    BY <2>1, <2>2, <2>4
<1>3. /\ Nothing \in [Box -> [Number -> Nat]]
      /\ \A b \in Box : \A n \in Number : Nothing[b][n] = 0
  BY DEF Nothing
<1>4. NoQuery \in Query
  BY DEF NoQuery, Query
<1>. DEFINE start == [b \in Box |-> file[b]]
<1>5. start \in [Box -> Nat] /\ \A b \in Box : start[b] = file[b]
  BY <1>2 DEF Box, Counter
<1>6. tls.origin \in [Box -> Nat]
  BY <1>1 DEF Client
<1>7. tls' = [pts |-> file.pts, qts |-> file.qts, seq |-> file.seq, locked |-> FALSE,
              query |-> NoQuery, phase |-> "login", done |-> Nothing,
              base |-> start, origin |-> tls.origin]
  BY <1>1 DEF Fresh
<1>. HIDE DEF start
<1>8. tls' \in Client
  BY <1>2, <1>3, <1>4, <1>5, <1>6, <1>7, BoundsAssumption DEF Client
<1>9. /\ \A c \in Counter : tls'[c] = file[c]
      /\ ~tls'.locked /\ tls'.query = NoQuery /\ tls'.done = Nothing
      /\ tls'.base = start /\ tls'.origin = tls.origin
  BY <1>7 DEF Counter
<1>10. ASSUME NEW e \in events
       PROVE  e.box \in Box /\ e.box \in Counter /\ e.at \in Nat /\ e.at \in Number
  BY <1>1 DEF Numbering, Numbered, Update, Box, Counter
<1>11. \A b \in Box : tls'[b] = file[b] /\ file[b] \in Nat /\ file[b] <= file[b]
  BY <1>2, <1>9 DEF Box, Counter
<1>12. Exact(tls', events)
  <2>1. \A b \in Box : \A n \in Number :
          tls'.done[b][n] <= 1 /\ (tls'.done[b][n] > 0 => n <= tls'[b])
    BY <1>3, <1>9
  <2>2. \A b \in Box : tls'.base[b] <= tls'[b]
    BY <1>5, <1>9, <1>11
  <2>3. \A e \in events : ~(tls'.base[e.box] < e.at /\ e.at <= tls'[e.box])
    BY <1>5, <1>9, <1>10, <1>11
  <2>. QED
    BY <2>1, <2>2, <2>3 DEF Exact
<1>13. ASSUME NEW e \in events, e.at <= file[e.box]
       PROVE  e.at <= tls'.origin[e.box] \/ e \in earlier'
  BY <1>1, <1>9, <1>13 DEF Good, Saved
<1>14. Covered(tls', events, earlier')
  BY <1>5, <1>9, <1>10, <1>13 DEF Covered
<1>15. Saved(tls', events, earlier', file)
  BY <1>2, <1>9, <1>13 DEF Saved
<1>16. Asked(tls') /\ Held(tls')
  BY <1>9 DEF Asked, Held, NoQuery
<1>17. Good(tls)'
  <2>1. \A c \in Counter : tls'[c] <= srv[c]
    BY <1>2, <1>9
  <2>. QED
    BY <1>1, <1>8, <1>12, <1>14, <1>15, <1>16, <2>1
    DEF Good, Exact, Covered, Saved, Asked, Held
<1>18. Numbering' /\ Pushed'
  BY <1>1 DEF IInv, Numbering, Numbered, Pushed
<1>19. Answered'
  BY <1>1, <1>18 DEF Answered, NoAnswer, Numbering, Counters
<1>20. TypeOK'
  <2>1. answer' \in [kind : {"none", "state", "empty", "full", "slice"}, pts : Nat,
                    qts : Nat, seq : Nat, news : SUBSET Update]
    BY <1>1 DEF NoAnswer
  <2>2. lookup' \in [kind : {"none", "asked", "answered"}, pts : Nat, qts : Nat,
                     seq : Nat]
    BY <1>1 DEF NoLookup
  <2>3. pushes' \subseteq Push_ /\ events' \subseteq Update /\ earlier' \subseteq events'
    BY <1>1 DEF IInv, TypeOK
  <2>. QED
    BY <1>1, <1>8, <1>18, <2>1, <2>2, <2>3 DEF TypeOK, Client, Query, Numbering
<1>. QED
  BY <1>17, <1>18, <1>19, <1>20 DEF IInv

\* Every step keeps the invariant.
LEMMA NextIInv == IInv /\ [Next]_vars => IInv'
<1>. SUFFICES ASSUME IInv, [Next]_vars PROVE IInv'
  OBVIOUS
<1>1. Numbering /\ Good(tls) /\ tls \in Client
  BY DEF IInv, Good
<1>2. lookup \in [kind : {"none", "asked", "answered"}, pts : Nat, qts : Nat, seq : Nat]
  BY DEF IInv, TypeOK
<1>3. ASSUME NEW st \in BOOLEAN
      PROVE  /\ Good(GetDifference(tls, st))
             /\ tls.locked => GetDifference(tls, st).query = tls.query
  <2>1. Good(GetDifference(tls, st))
    BY <1>1, GetDifferenceGood
  <2>2. tls.locked => GetDifference(tls, st).query = tls.query
    BY <1>1, GetDifferenceIs
  <2>. QED
    BY <2>1, <2>2
<1>4. CASE PushMessage \/ PushShort \/ PushUpdates \/ PushTooLong
  BY <1>4, PushesGood
<1>5. CASE Answer
  BY <1>5, AnswerGood
<1>6. CASE AnswerLookup
  <2>1. lookup' \in [kind : {"none", "asked", "answered"}, pts : Nat, qts : Nat,
                     seq : Nat]
    BY <1>1, <1>6 DEF AnswerLookup, Numbering, Counters
  <2>. QED
    BY <1>1, <1>6, <2>1, ClientStep DEF AnswerLookup
<1>7. CASE Deliver
  <2>1. PICK p \in pushes : tls' = WorkAnyUpdates(tls, p)
    BY <1>7 DEF Deliver
  <2>2. Good(tls') /\ (tls.locked => tls'.query = tls.query)
    BY <2>1, WorkAnyUpdatesGood
  <2>3. pushes' \subseteq pushes
    BY <1>7 DEF Deliver
  <2>. QED
    BY <1>2, <1>7, <2>2, <2>3, ClientStep DEF Deliver
<1>8. CASE Start
  BY <1>2, <1>3, <1>8, ClientStep DEF Start
<1>9. CASE NewSession
  BY <1>2, <1>3, <1>9, ClientStep DEF NewSession
<1>10. CASE HandleAnswer
  BY <1>10, HandleAnswerGood
<1>11. CASE HandleError
  BY <1>11, HandleErrorGood
<1>12. CASE Lookup
  <2>1. lookup' \in [kind : {"none", "asked", "answered"}, pts : Nat, qts : Nat,
                     seq : Nat]
    BY <1>12 DEF Lookup, NoLookup
  <2>. QED
    BY <1>1, <1>12, <2>1, ClientStep DEF Lookup
<1>13. CASE HandleLookup
  <2>1. lookup' \in [kind : {"none", "asked", "answered"}, pts : Nat, qts : Nat,
                     seq : Nat]
    BY <1>13 DEF HandleLookup, NoLookup
  <2>2. Good(tls') /\ (tls.locked => tls'.query = tls.query)
    BY <1>1, <1>3, <1>13 DEF HandleLookup
  <2>. QED
    BY <1>13, <2>1, <2>2, ClientStep DEF HandleLookup
<1>14. CASE WriteStateFile
  BY <1>14, WriteStateFileGood
<1>15. CASE Restart
  BY <1>15, RestartGood
<1>16. CASE UNCHANGED vars
  BY <1>1, <1>2, <1>16, ClientStep DEF vars
<1>. QED
  BY <1>4, <1>5, <1>6, <1>7, <1>8, <1>9, <1>10, <1>11, <1>12, <1>13, <1>14, <1>15,
     <1>16 DEF Next, Server

\* The invariant holds in every behaviour, whatever the bounds, the kinds of
\* push, the failures and the restarts.
THEOREM UpdatesInvariance == Spec => []IInv
  BY InitIInv, NextIInv, PTL DEF Spec

\* The types are respected.
THEOREM UpdatesTypeCorrect == Spec => []TypeOK
  BY UpdatesInvariance, PTL DEF IInv

\* The counters of a process say exactly which events it has applied, in
\* whatever order pushes, differences and slices reach it (tgl_check_pts_diff,
\* get_difference_on_answer).
THEOREM CountersAreExact == Spec => []AppliedExactly
<1>1. IInv => AppliedExactly
  <2>. SUFFICES ASSUME IInv, NEW e \in events, e.at > tls.base[e.box]
                PROVE  tls.done[e.box][e.at] > 0 <=> e.at <= tls[e.box]
    BY DEF AppliedExactly
  <2>1. /\ e.box \in Box /\ e.at \in Number /\ e.at \in Nat
        /\ tls.base[e.box] \in Nat
    BY DEF IInv, Good, Client, Numbering, Numbered, Update
  <2>. QED
    BY <2>1 DEF IInv, Good, Exact
<1>. QED
  BY <1>1, UpdatesInvariance, PTL

\* No process applies an event twice.
THEOREM EventsAppliedOnce == Spec => []AppliedOnce
<1>1. IInv => AppliedOnce
  BY DEF IInv, Good, Exact, AppliedOnce
<1>. QED
  BY <1>1, UpdatesInvariance, PTL

\* No event is skipped over a restart, wherever the process ends between
\* applying an event and write_state_file.
THEOREM NoEventLost == Spec => []NothingLost
<1>1. IInv => NothingLost
  <2>. SUFFICES ASSUME IInv, NEW e \in events,
                       tls.origin[e.box] < e.at, e.at <= tls[e.box]
                PROVE  tls.done[e.box][e.at] > 0 \/ e \in earlier
    BY DEF NothingLost
  <2>1. /\ e.box \in Box /\ e.at \in Nat
        /\ tls.base[e.box] \in Nat /\ tls.origin[e.box] \in Nat
    BY DEF IInv, Good, Client, Numbering, Numbered, Update
  <2>. QED
    BY <2>1 DEF IInv, Good, Exact, Covered
<1>. QED
  BY <1>1, UpdatesInvariance, PTL

\* While no request fails, the lock is held exactly while a request for the
\* difference is under way (tgl_do_get_difference).
THEOREM LockIsRequest == ASSUME ~Errors PROVE Spec => []LockMatches
<1>1. IInv => LockMatches
  BY DEF IInv, Good, Asked, Held, LockMatches
<1>. QED
  BY <1>1, UpdatesInvariance, PTL
-----------------------------------------------------------------------------
(* The containers, and the abstract stream.                                *)

\* The counters c stand between two events, not inside one.
Between(c) ==
  \A e \in events : e.at <= c[e.box] \/ c[e.box] <= e.at - e.count

\* The containers up to the seq of c hold no event beyond c.
Covers(c) ==
  \A p \in pushes : p.seq # 0 /\ p.seq <= c.seq =>
    \A u \in {p.first, p.second} \ {None} : u.at <= c[u.box]

\* The server numbers the containers without overlap.
Containers ==
  /\ \A p \in pushes : /\ p.seq # 0 => p.seq_start # 0 /\ p.seq_start <= p.seq
                       /\ p.seq = 0 => p.seq_start = 0
  /\ \A p, q \in pushes : p # q /\ p.seq # 0 /\ q.seq # 0 =>
       p.seq < q.seq_start \/ q.seq < p.seq_start

\* An answer tells of the containers that its numbers cover.
Told ==
  /\ answer.kind # "none" => Between(answer)
  /\ answer.kind \in {"state", "empty", "full"} => Covers(answer)
  /\ answer.kind = "empty" => News(answer.pts, answer.qts) = {}

\* SeqCovers alone is not inductive: seq comes from an answer or from the state
\* file too, and a duplicate is behind the counters only if these are between
\* two events.
SeqInv ==
  /\ IInv /\ Containers /\ Told
  /\ Between(tls) /\ Covers(tls) /\ Between(file) /\ Covers(file)

\* From s to r the client has read on in both boxes; while it has no pts it
\* may have skipped up to k.
Reads(s, r) ==
  /\ s.pts <= r.pts /\ s.qts <= r.qts
  /\ \E k \in Nat :
       /\ s.pts <= k /\ k <= r.pts /\ (s.pts # 0 => k = s.pts)
       /\ \A e \in events :
            r.done[e.box][e.at] > 0 <=>
              \/ s.done[e.box][e.at] > 0
              \/ e.box = "pts" /\ k < e.at /\ e.at <= r.pts
              \/ e.box = "qts" /\ s.qts < e.at /\ e.at <= r.qts

\* From s to r the client reads on, to a place between two events.
Moves(s, r) == r \in Client /\ Between(r) /\ Reads(s, r)

\* The types of events.
LEMMA EventIs ==
  ASSUME Numbering, NEW e \in events
  PROVE  /\ e \in Update /\ e.box \in Box /\ e.box \in Counter
         /\ e.box = "pts" \/ e.box = "qts"
         /\ e.at \in Nat /\ e.at \in Number /\ e.count \in Nat
         /\ e.count >= 1 /\ e.count <= e.at /\ e.at <= srv[e.box]
         /\ e # None
BY DEF Numbering, Numbered, Update, Box, Counter, None

\* The counters of a client are numbers.
LEMMA CountersAre ==
  ASSUME NEW s \in Client
  PROVE  s.pts \in Nat /\ s.qts \in Nat /\ s.seq \in Nat
BY BoundsAssumption DEF Client

\* A client that stands still has read nothing.
LEMMA Unmoved ==
  ASSUME Numbering, NEW s \in Client, Between(s), NEW r \in Client,
         r.pts = s.pts, r.qts = s.qts, r.done = s.done
  PROVE  Moves(s, r)
<1>1. s.pts \in Nat /\ s.qts \in Nat
  BY CountersAre
<1>2. Between(r)
  BY EventIs DEF Between
<1>3. \A e \in events :
        /\ ~(e.box = "pts" /\ s.pts < e.at /\ e.at <= r.pts)
        /\ ~(e.box = "qts" /\ s.qts < e.at /\ e.at <= r.qts)
  BY <1>1, EventIs
<1>4. Reads(s, r)
  BY <1>1, <1>3 DEF Reads
<1>. QED
  BY <1>2, <1>4 DEF Moves

\* Reading on twice is reading on.
LEMMA MovesTwice ==
  ASSUME Numbering, NEW s \in Client, NEW t, Moves(s, t), NEW r, Moves(t, r)
  PROVE  Moves(s, r)
<1>1. /\ s.pts \in Nat /\ s.qts \in Nat /\ t.pts \in Nat /\ t.qts \in Nat
      /\ r.pts \in Nat /\ r.qts \in Nat
  BY CountersAre DEF Moves
<1>2. PICK k \in Nat :
       /\ s.pts <= k /\ k <= t.pts /\ (s.pts # 0 => k = s.pts)
       /\ \A e \in events :
            t.done[e.box][e.at] > 0 <=>
              \/ s.done[e.box][e.at] > 0
              \/ e.box = "pts" /\ k < e.at /\ e.at <= t.pts
              \/ e.box = "qts" /\ s.qts < e.at /\ e.at <= t.qts
  BY DEF Moves, Reads
<1>3. PICK l \in Nat :
       /\ t.pts <= l /\ l <= r.pts /\ (t.pts # 0 => l = t.pts)
       /\ \A e \in events :
            r.done[e.box][e.at] > 0 <=>
              \/ t.done[e.box][e.at] > 0
              \/ e.box = "pts" /\ l < e.at /\ e.at <= r.pts
              \/ e.box = "qts" /\ t.qts < e.at /\ e.at <= r.qts
  BY DEF Moves, Reads
<1>4. /\ s.pts <= t.pts /\ s.qts <= t.qts /\ t.pts <= r.pts /\ t.qts <= r.qts
  BY DEF Moves, Reads
<1>5. s.pts <= r.pts /\ s.qts <= r.qts
  BY <1>1, <1>4
<1>. DEFINE m == IF t.pts = 0 THEN l ELSE k
<1>6. m \in Nat /\ s.pts <= m /\ m <= r.pts /\ (s.pts # 0 => m = s.pts)
  BY <1>1, <1>2, <1>3, <1>4
<1>7. ASSUME NEW e \in events
      PROVE  r.done[e.box][e.at] > 0 <=>
               \/ s.done[e.box][e.at] > 0
               \/ e.box = "pts" /\ m < e.at /\ e.at <= r.pts
               \/ e.box = "qts" /\ s.qts < e.at /\ e.at <= r.qts
  <2>1. e.at \in Nat /\ e.at >= 1 /\ (e.box = "pts" \/ e.box = "qts")
    BY EventIs DEF Number
  <2>2. CASE e.box = "pts"
    <3>1. (k < e.at /\ e.at <= t.pts) \/ (l < e.at /\ e.at <= r.pts)
          <=> (m < e.at /\ e.at <= r.pts)
      BY <1>1, <1>2, <1>3, <1>4, <2>1
    <3>. QED BY <1>2, <1>3, <2>2, <3>1
  <2>3. CASE e.box = "qts"
    <3>1. (s.qts < e.at /\ e.at <= t.qts) \/ (t.qts < e.at /\ e.at <= r.qts)
          <=> (s.qts < e.at /\ e.at <= r.qts)
      BY <1>1, <1>4, <2>1
    <3>. QED BY <1>2, <1>3, <2>3, <3>1
  <2>. QED BY <2>1, <2>2, <2>3
<1>. HIDE DEF m
<1>8. Reads(s, r)
  BY <1>5, <1>6, <1>7 DEF Reads
<1>. QED
  BY <1>8 DEF Moves

\* A client that has moved and not raised seq covers what it covered.
LEMMA MovesCovers ==
  ASSUME IInv, NEW s \in Client, Covers(s), NEW r, Moves(s, r), r.seq = s.seq
  PROVE  Covers(r)
<1>. SUFFICES ASSUME NEW p \in pushes, p.seq # 0, p.seq <= s.seq,
                     NEW u \in {p.first, p.second} \ {None}
              PROVE  u.at <= r[u.box]
  BY DEF Covers
<1>1. u \in events /\ u.at <= s[u.box]
  BY DEF IInv, Pushed, Covers
<1>2. u.at \in Nat /\ (u.box = "pts" \/ u.box = "qts")
  BY <1>1, EventIs DEF IInv
<1>3. /\ s.pts \in Nat /\ s.qts \in Nat /\ r.pts \in Nat /\ r.qts \in Nat
      /\ s.pts <= r.pts /\ s.qts <= r.qts
  BY CountersAre DEF Moves, Reads
<1>. QED
  BY <1>1, <1>2, <1>3

\* Asking for the difference moves nothing.
LEMMA GetDifferenceMoves ==
  ASSUME Numbering, NEW s \in Client, Between(s), NEW st \in BOOLEAN
  PROVE  LET r == GetDifference(s, st)
         IN Moves(s, r) /\ r.seq = s.seq /\ r.locked
<1>. DEFINE r == GetDifference(s, st)
<1>1. /\ r \in Client /\ r.locked
      /\ r.query = IF s.locked THEN s.query
                   ELSE [kind |-> IF s.pts > 0 THEN "difference" ELSE "state",
                         pts |-> s.pts, qts |-> s.qts, start |-> st]
      /\ \A c \in Counter : r[c] = s[c]
      /\ r.done = s.done /\ r.base = s.base /\ r.origin = s.origin
  BY GetDifferenceIs
<1>. HIDE DEF r
<1>2. r.pts = s.pts /\ r.qts = s.qts /\ r.seq = s.seq
  BY <1>1 DEF Counter
<1>3. Moves(s, r)
  BY <1>1, <1>2, Unmoved
<1>. QED
  BY <1>1, <1>2, <1>3 DEF r

\* Applying the next event moves to it.
LEMMA AdvanceMoves ==
  ASSUME Numbering, NEW s, Good(s), Between(s), ~s.locked, NEW u \in events,
         Check(s, u) = "next"
  PROVE  LET r == Advance(s, u)
         IN Moves(s, r) /\ r.seq = s.seq /\ ~r.locked /\ u.at = r[u.box]
<1>. DEFINE r == Advance(s, u)
            first == u.box = "pts" /\ s.pts = 0
<1>1. s \in Client /\ s.pts \in Nat /\ s.qts \in Nat
  BY CountersAre DEF Good
<1>2. /\ u.box = "pts" \/ u.box = "qts"
      /\ u.at \in Nat /\ u.at \in Number /\ u.count \in Nat
      /\ u.count >= 1 /\ u.count <= u.at
  BY EventIs
<1>3. /\ r \in Client /\ r[u.box] = u.at /\ u.at > s[u.box] /\ ~r.locked
      /\ \A c \in Counter \ {u.box} : r[c] = s[c]
      /\ \A b \in Box : \A n \in Number :
           /\ b = u.box /\ n = u.at => r.done[b][n] = s.done[b][n] + 1
           /\ ~(b = u.box /\ n = u.at) => r.done[b][n] = s.done[b][n]
           /\ s.done[b][n] \in Nat
      /\ ~first => u.at = s[u.box] + u.count
  BY AdvanceIs
<1>. HIDE DEF r
<1>4. /\ r.pts = IF u.box = "pts" THEN u.at ELSE s.pts
      /\ r.qts = IF u.box = "qts" THEN u.at ELSE s.qts
      /\ r.seq = s.seq /\ r.pts \in Nat /\ r.qts \in Nat
      /\ s.pts <= r.pts /\ s.qts <= r.qts
  BY <1>1, <1>2, <1>3 DEF Counter
<1>5. ASSUME NEW e \in events
      PROVE  /\ e.box = "pts" \/ e.box = "qts"
             /\ e.box \in Box /\ e.at \in Number /\ e.at \in Nat /\ e.at >= 1
             /\ e.count \in Nat /\ e.count >= 1
             /\ e # u /\ e.box = u.box =>
                  e.at <= u.at - u.count \/ u.at <= e.at - e.count
  BY EventIs DEF Numbering, Numbered, Number
<1>6. Between(r)
  <2>. SUFFICES ASSUME NEW e \in events
                PROVE  e.at <= r[e.box] \/ r[e.box] <= e.at - e.count
    BY DEF Between
  <2>1. e.at <= s[e.box] \/ s[e.box] <= e.at - e.count
    BY DEF Between
  <2>2. CASE e.box = u.box
    <3>1. r[e.box] = u.at
      BY <1>3, <2>2
    <3>2. CASE e = u
      BY <1>2, <3>1, <3>2
    <3>3. CASE e # u
      BY <1>2, <1>5, <2>2, <3>1, <3>3
    <3>. QED BY <3>2, <3>3
  <2>3. CASE e.box # u.box
    BY <1>2, <1>4, <1>5, <2>1, <2>3
  <2>. QED BY <2>2, <2>3
<1>. DEFINE k == IF first THEN u.at - u.count ELSE s.pts
<1>7. /\ k \in Nat /\ s.pts <= k /\ k <= r.pts /\ (s.pts # 0 => k = s.pts)
  BY <1>1, <1>2, <1>4
<1>8. ASSUME NEW e \in events
      PROVE  r.done[e.box][e.at] > 0 <=>
               \/ s.done[e.box][e.at] > 0
               \/ e.box = "pts" /\ k < e.at /\ e.at <= r.pts
               \/ e.box = "qts" /\ s.qts < e.at /\ e.at <= r.qts
  <2>1. CASE e.box # u.box
    <3>1. r.done[e.box][e.at] = s.done[e.box][e.at]
      BY <1>3, <1>5, <2>1
    <3>2. /\ ~(e.box = "pts" /\ k < e.at /\ e.at <= r.pts)
          /\ ~(e.box = "qts" /\ s.qts < e.at /\ e.at <= r.qts)
      BY <1>1, <1>2, <1>4, <1>5, <2>1
    <3>. QED BY <3>1, <3>2
  <2>2. CASE e.box = u.box /\ e.at = u.at
    <3>1. r.done[e.box][e.at] > 0
      BY <1>3, <1>5, <2>2
    <3>2. e.box = "pts" => k < e.at /\ e.at <= r.pts
      BY <1>1, <1>2, <1>3, <1>4, <2>2
    <3>3. e.box = "qts" => s.qts < e.at /\ e.at <= r.qts
      BY <1>1, <1>2, <1>3, <1>4, <2>2
    <3>. QED BY <1>5, <3>1, <3>2, <3>3
  <2>3. CASE e.box = u.box /\ e.at # u.at
    <3>1. r.done[e.box][e.at] = s.done[e.box][e.at]
      BY <1>3, <1>5, <2>3
    <3>2. e.at <= u.at - u.count \/ u.at <= e.at - e.count
      BY <1>5, <2>3
    <3>3. ~(e.box = "pts" /\ k < e.at /\ e.at <= r.pts)
      BY <1>1, <1>2, <1>3, <1>4, <1>5, <2>3, <3>2
    <3>4. ~(e.box = "qts" /\ s.qts < e.at /\ e.at <= r.qts)
      BY <1>1, <1>2, <1>3, <1>4, <1>5, <2>3, <3>2
    <3>. QED BY <3>1, <3>3, <3>4
  <2>. QED BY <2>1, <2>2, <2>3
<1>. HIDE DEF k
<1>9. Reads(s, r)
  BY <1>4, <1>7, <1>8 DEF Reads
<1>. QED
  BY <1>3, <1>4, <1>6, <1>9 DEF Moves, r

\* A handler that has worked the update u, or dropped it and taken the lock.
Worked(s, r, u) ==
  /\ Moves(s, r) /\ r.seq = s.seq
  /\ ~r.locked => ~s.locked /\ (u # None => u.at <= r[u.box])

\* tglu_work_update.
LEMMA WorkUpdateMoves ==
  ASSUME Numbering, NEW s, Good(s), Between(s), NEW u \in events \cup {None}
  PROVE  Worked(s, WorkUpdate(s, u), u)
<1>. DEFINE r == WorkUpdate(s, u)
            g == GetDifference(s, FALSE)
<1>1. s \in Client /\ s.pts \in Nat /\ s.qts \in Nat
  BY CountersAre DEF Good
<1>2. Moves(s, s)
  BY <1>1, Unmoved
<1>3. Moves(s, g) /\ g.seq = s.seq /\ g.locked
  BY <1>1, GetDifferenceMoves
<1>4. CASE s.locked \/ u.box = "none"
  <2>1. r = s
    BY <1>4 DEF WorkUpdate
  <2>2. u.box = "none" => u = None
    BY EventIs
  <2>. QED BY <1>2, <1>4, <2>1, <2>2 DEF Worked
<1>5. CASE ~(s.locked \/ u.box = "none")
  <2>1. u \in events
    BY <1>5 DEF None
  <2>2. Check(s, u) \in {"next", "duplicate", "hole"}
    BY <1>5, <2>1, CheckRange
  <2>3. CASE Check(s, u) = "duplicate"
    <3>1. r = s
      BY <1>5, <2>3 DEF WorkUpdate
    <3>2. u.at < s[u.box] + u.count
      BY <1>1, <2>1, <2>3, EventIs DEF Check
    <3>3. u.at <= s[u.box] \/ s[u.box] <= u.at - u.count
      BY <2>1 DEF Between
    <3>4. u.at <= s[u.box]
      BY <1>1, <2>1, <3>2, <3>3, EventIs
    <3>. QED BY <1>2, <1>5, <3>1, <3>4 DEF Worked
  <2>4. CASE Check(s, u) = "hole"
    <3>1. r = g
      BY <1>5, <2>4 DEF WorkUpdate
    <3>. HIDE DEF g
    <3>. QED BY <1>3, <3>1 DEF Worked
  <2>5. CASE Check(s, u) = "next" /\ u.known
    <3>1. r = Advance(s, u)
      BY <1>5, <2>5 DEF WorkUpdate
    <3>2. Moves(s, r) /\ r.seq = s.seq /\ ~r.locked /\ u.at = r[u.box]
      BY <1>5, <2>1, <2>5, <3>1, AdvanceMoves
    <3>3. u.at <= r[u.box]
      BY <2>1, <3>2, EventIs
    <3>. HIDE DEF r
    <3>. QED BY <1>5, <3>2, <3>3 DEF Worked, r
  <2>6. CASE Check(s, u) = "next" /\ ~u.known
    <3>1. r = [g EXCEPT !.phase = "aborted"]
      BY <1>5, <2>6 DEF WorkUpdate
    <3>. HIDE DEF g, r
    <3>2. g \in Client
      BY <1>3 DEF Moves
    <3>3. /\ r \in Client /\ r.pts = g.pts /\ r.qts = g.qts /\ r.seq = g.seq
          /\ r.done = g.done /\ r.locked
      BY <1>3, <3>1, <3>2 DEF Client
    <3>4. Moves(g, r)
      BY <1>3, <3>2, <3>3, Unmoved DEF Moves
    <3>5. Moves(s, r)
      BY <1>1, <1>3, <3>4, MovesTwice
    <3>. QED BY <1>3, <3>3, <3>5 DEF Worked, r
  <2>. QED BY <2>2, <2>3, <2>4, <2>5, <2>6
<1>. QED BY <1>4, <1>5

\* tglu_work_update_short_message, tglu_work_update_short_sent_message and the
\* answer to a request that affected messages.
LEMMA SingleMoves ==
  ASSUME Numbering, NEW s, Good(s), Between(s), NEW u \in events,
         NEW r \in {s, GetDifference(s, FALSE)}
                     \cup {x \in {Advance(s, u)} :
                             Check(s, u) = "next" /\ ~s.locked}
  PROVE  Moves(s, r) /\ r.seq = s.seq
<1>1. s \in Client
  BY DEF Good
<1>2. Moves(s, s)
  BY <1>1, Unmoved
<1>3. Moves(s, GetDifference(s, FALSE)) /\ GetDifference(s, FALSE).seq = s.seq
  BY <1>1, GetDifferenceMoves
<1>4. ASSUME Check(s, u) = "next", ~s.locked
      PROVE  Moves(s, Advance(s, u)) /\ Advance(s, u).seq = s.seq
  BY <1>4, AdvanceMoves
<1>. QED
  BY <1>2, <1>3, <1>4

\* seq moves alone.
LEMMA SeqMoves ==
  ASSUME Numbering, NEW s, Good(s), Between(s), NEW v \in Nat, v <= srv.seq
  PROVE  LET r == Set(s, "seq", v)
         IN /\ Moves(s, r) /\ r.pts = s.pts /\ r.qts = s.qts
            /\ r.seq = IF s.locked \/ v <= s.seq THEN s.seq ELSE v
<1>. DEFINE r == Set(s, "seq", v)
<1>1. s \in Client
  BY DEF Good
<1>2. v <= MaxSeq
  BY BoundsAssumption DEF Numbering, Counters
<1>3. /\ r \in Client
      /\ r["seq"] = IF s.locked \/ v <= s["seq"] THEN s["seq"] ELSE v
      /\ \A d \in Counter \ {"seq"} : r[d] = s[d]
      /\ r.done = s.done /\ r.locked = s.locked /\ r.query = s.query
      /\ r.phase = s.phase
      /\ r.base = s.base /\ r.origin = s.origin
  BY <1>1, <1>2, SetIs DEF Counter
<1>. HIDE DEF r
<1>4. r.pts = s.pts /\ r.qts = s.qts
  BY <1>3 DEF Counter
<1>5. Moves(s, r)
  BY <1>1, <1>3, <1>4, Unmoved
<1>. QED
  BY <1>3, <1>4, <1>5 DEF r

\* The containers that r covers: those s covered, and those a tells of when r
\* is not behind a.
LEMMA CoversMore ==
  ASSUME IInv, NEW s \in Client, Covers(s), NEW r \in Client,
         s.pts <= r.pts, s.qts <= r.qts, NEW a, Covers(a),
         \/ r.seq <= s.seq
         \/ /\ r.seq = a.seq
            /\ \A e \in events : e.at <= a[e.box] => e.at <= r[e.box]
  PROVE  Covers(r)
<1>. SUFFICES ASSUME NEW p \in pushes, p.seq # 0, p.seq <= r.seq,
                     NEW u \in {p.first, p.second} \ {None}
              PROVE  u.at <= r[u.box]
  BY DEF Covers
<1>1. u \in events /\ p.seq \in Nat
  BY DEF IInv, Pushed, TypeOK, Push_
<1>2. u.at \in Nat /\ (u.box = "pts" \/ u.box = "qts")
  BY <1>1, EventIs DEF IInv
<1>3. /\ s.pts \in Nat /\ s.qts \in Nat /\ r.pts \in Nat /\ r.qts \in Nat
      /\ s.seq \in Nat /\ r.seq \in Nat
  BY CountersAre
<1>4. CASE p.seq <= s.seq
  <2>1. u.at <= s[u.box]
    BY <1>4 DEF Covers
  <2>. QED BY <1>2, <1>3, <2>1
<1>5. CASE ~(p.seq <= s.seq)
  <2>1. r.seq = a.seq /\ \A e \in events : e.at <= a[e.box] => e.at <= r[e.box]
    BY <1>1, <1>3, <1>5
  <2>2. u.at <= a[u.box]
    BY <2>1 DEF Covers
  <2>. QED BY <1>1, <2>1, <2>2
<1>. QED
  BY <1>4, <1>5

\* tglu_work_updates and tglu_work_updates_combined: when seq moves, both
\* updates were worked, and the container is the next one.
LEMMA WorkUpdatesMoves ==
  ASSUME SeqInv, ~tls.locked, NEW p \in pushes
  PROVE  LET r == WorkUpdates(tls, p)
         IN Moves(tls, r) /\ Covers(r)
<1>. DEFINE t == WorkUpdate(tls, p.first)
            w == WorkUpdate(t, p.second)
            r == Set(w, "seq", p.seq)
            g == GetDifference(tls, FALSE)
<1>1. /\ IInv /\ Numbering /\ Good(tls) /\ tls \in Client
      /\ Between(tls) /\ Covers(tls) /\ Containers
      /\ p.first \in events \cup {None} /\ p.second \in events \cup {None}
      /\ p.seq \in Nat /\ p.seq_start \in Nat /\ p.seq <= srv.seq
  BY DEF SeqInv, IInv, Good, Pushed, TypeOK, Push_
<1>2. Worked(tls, t, p.first) /\ Good(t)
  BY <1>1, WorkUpdateMoves, WorkUpdateGood
<1>. HIDE DEF t
<1>3. Worked(t, w, p.second) /\ Good(w)
  BY <1>1, <1>2, WorkUpdateMoves, WorkUpdateGood DEF Worked, Moves
<1>. HIDE DEF w
<1>4. Moves(tls, w) /\ w.seq = tls.seq
  BY <1>1, <1>2, <1>3, MovesTwice DEF Worked
<1>5. /\ Moves(w, r) /\ r.pts = w.pts /\ r.qts = w.qts
      /\ r.seq = IF w.locked \/ p.seq <= w.seq THEN w.seq ELSE p.seq
  BY <1>1, <1>3, <1>4, SeqMoves DEF Moves
<1>6. Moves(tls, r)
  BY <1>1, <1>4, <1>5, MovesTwice
<1>7. /\ tls.seq \in Nat /\ tls.pts \in Nat /\ tls.qts \in Nat
      /\ t.pts \in Nat /\ t.qts \in Nat /\ w.pts \in Nat /\ w.qts \in Nat
      /\ t.pts <= w.pts /\ t.qts <= w.qts
      /\ tls.pts <= r.pts /\ tls.qts <= r.qts
  BY <1>1, <1>2, <1>3, <1>6, CountersAre DEF Worked, Moves, Reads
<1>8. ASSUME Skip(tls, p.seq_start) = "take"
      PROVE  Covers(r)
  <2>. SUFFICES ASSUME NEW q \in pushes, q.seq # 0, q.seq <= r.seq,
                       NEW u \in {q.first, q.second} \ {None}
                PROVE  u.at <= r[u.box]
    BY DEF Covers
  <2>1. /\ u \in events /\ q.seq \in Nat /\ q.seq_start \in Nat
        /\ q.seq_start <= q.seq
    BY <1>1 DEF IInv, Pushed, TypeOK, Push_, Containers
  <2>2. u.at \in Nat /\ (u.box = "pts" \/ u.box = "qts")
    BY <1>1, <2>1, EventIs
  <2>3. CASE q.seq <= tls.seq
    <3>1. u.at <= tls[u.box]
      BY <1>1, <2>3 DEF Covers
    <3>. QED BY <1>5, <1>7, <2>2, <3>1
  <2>4. CASE ~(q.seq <= tls.seq)
    <3>1. /\ r.seq = p.seq /\ ~w.locked /\ q.seq <= p.seq /\ tls.seq < q.seq
          /\ p.seq # 0
      BY <1>1, <1>4, <1>5, <1>7, <2>1, <2>4
    <3>2. p.seq_start # 0
      BY <1>1, <3>1 DEF Containers
    <3>3. p.seq_start = tls.seq + 1
      BY <1>1, <1>7, <1>8, <3>2 DEF Skip
    <3>4. q = p
      <4>. SUFFICES ASSUME q # p PROVE FALSE
        OBVIOUS
      <4>1. p.seq < q.seq_start \/ q.seq < p.seq_start
        BY <1>1, <3>1 DEF Containers
      <4>. QED BY <1>1, <1>7, <2>1, <3>1, <3>3, <4>1
    <3>5. /\ p.second # None => p.second.at <= w[p.second.box]
          /\ p.first # None => p.first.at <= t[p.first.box]
      BY <1>2, <1>3, <3>1 DEF Worked
    <3>6. u = p.second \/ u = p.first
      BY <3>4
    <3>7. u.at <= t[u.box] \/ u.at <= w[u.box]
      BY <3>5, <3>6
    <3>. QED BY <1>5, <1>7, <2>2, <3>7
  <2>. QED BY <2>3, <2>4
<1>9. Moves(tls, g) /\ g.seq = tls.seq /\ Covers(g)
  <2>1. Moves(tls, g) /\ g.seq = tls.seq
    BY <1>1, GetDifferenceMoves
  <2>. HIDE DEF g
  <2>. QED BY <1>1, <2>1, MovesCovers
<1>10. Skip(tls, p.seq_start) \in {"take", "drop", "hole"}
  <2>1. p.seq_start = 0 \/ tls.seq = 0 \/ p.seq_start <= tls.seq
        \/ p.seq_start > tls.seq + 1 \/ p.seq_start = tls.seq + 1
    BY <1>1, <1>7
  <2>. QED
    BY <1>7, <2>1 DEF Skip
<1>11. Moves(tls, tls)
  BY <1>1, Unmoved
<1>12. CASE Skip(tls, p.seq_start) = "take"
  <2>1. WorkUpdates(tls, p) = r
    BY <1>12 DEF WorkUpdates, w, t
  <2>. HIDE DEF r
  <2>. QED BY <1>6, <1>8, <1>12, <2>1
<1>13. CASE Skip(tls, p.seq_start) = "drop"
  BY <1>1, <1>11, <1>13 DEF WorkUpdates
<1>14. CASE Skip(tls, p.seq_start) = "hole"
  BY <1>9, <1>14 DEF WorkUpdates
<1>. QED
  BY <1>10, <1>12, <1>13, <1>14

\* Every push.
LEMMA WorkAnyUpdatesMoves ==
  ASSUME SeqInv, NEW p \in pushes
  PROVE  LET r == WorkAnyUpdates(tls, p)
         IN Moves(tls, r) /\ Covers(r)
<1>. DEFINE r == WorkAnyUpdates(tls, p)
            u == p.first
<1>1. /\ IInv /\ Numbering /\ Good(tls) /\ tls \in Client
      /\ Between(tls) /\ Covers(tls)
      /\ p.first \in events \cup {None}
      /\ p.kind \in {"message", "sent", "affected"} => p.first \in events
      /\ p.kind \in PushKinds
  BY DEF SeqInv, IInv, Good, Pushed, TypeOK, Push_
<1>2. ASSUME Moves(tls, r), r.seq = tls.seq
      PROVE  Covers(r)
  <2>. HIDE DEF r
  <2>. QED BY <1>1, <1>2, MovesCovers
<1>3. CASE p.kind \in {"affected", "message", "sent"}
  <2>1. u \in events
    BY <1>1, <1>3
  <2>2. Check(tls, u) \in {"next", "duplicate", "hole", "busy"}
        /\ (~tls.locked => Check(tls, u) # "busy")
    BY <1>1, <2>1, CheckRange
  <2>3. r \in {tls, GetDifference(tls, FALSE)}
                 \cup {x \in {Advance(tls, u)} :
                         Check(tls, u) = "next" /\ ~tls.locked}
    <3>1. CASE p.kind = "affected"
      BY <2>2, <3>1 DEF WorkAnyUpdates, WorkAffected
    <3>2. CASE p.kind # "affected" /\ tls.locked
      BY <3>2 DEF WorkAnyUpdates
    <3>3. CASE p.kind = "message" /\ ~tls.locked
      BY <2>2, <3>3 DEF WorkAnyUpdates, WorkShortMessage
    <3>4. CASE p.kind = "sent" /\ ~tls.locked
      BY <2>2, <3>4 DEF WorkAnyUpdates, WorkShortSent
    <3>. QED BY <1>3, <3>1, <3>2, <3>3, <3>4
  <2>. HIDE DEF r, u
  <2>4. Moves(tls, r) /\ r.seq = tls.seq
    BY <1>1, <2>1, <2>3, SingleMoves
  <2>. QED BY <1>2, <2>4 DEF r
<1>4. CASE tls.locked /\ p.kind \notin {"affected", "message", "sent"}
  <2>1. r = tls
    BY <1>4 DEF WorkAnyUpdates
  <2>2. Moves(tls, tls)
    BY <1>1, Unmoved
  <2>. QED BY <1>1, <2>1, <2>2
<1>5. CASE ~tls.locked /\ p.kind = "short"
  <2>1. r = WorkUpdate(tls, u)
    BY <1>5 DEF WorkAnyUpdates
  <2>2. Worked(tls, r, u)
    BY <1>1, <2>1, WorkUpdateMoves
  <2>3. Moves(tls, r) /\ r.seq = tls.seq
    BY <2>2 DEF Worked
  <2>. QED BY <1>2, <2>3
<1>6. CASE ~tls.locked /\ p.kind = "too_long"
  <2>1. r = GetDifference(tls, FALSE)
    BY <1>6 DEF WorkAnyUpdates
  <2>2. Moves(tls, r) /\ r.seq = tls.seq
    BY <1>1, <2>1, GetDifferenceMoves
  <2>. QED BY <1>2, <2>2
<1>7. CASE ~tls.locked /\ p.kind \in {"updates", "combined"}
  <2>1. r = WorkUpdates(tls, p)
    BY <1>7 DEF WorkAnyUpdates
  <2>. QED BY <1>7, <2>1, WorkUpdatesMoves
<1>. QED
  BY <1>1, <1>3, <1>4, <1>5, <1>6, <1>7 DEF PushKinds

\* get_difference_on_answer applies what is between the counters and those of
\* the answer.
LEMMA NewsMoves ==
  ASSUME Numbering, NEW s, Good(s), Between(s), ~s.locked, NEW a,
         a.pts \in Nat, a.qts \in Nat, a.pts <= srv.pts, a.qts <= srv.qts,
         Between(a), NEW news,
         news = {e \in events : \/ e.box = "pts" /\ s.pts < e.at /\ e.at <= a.pts
                                \/ e.box = "qts" /\ s.qts < e.at /\ e.at <= a.qts}
  PROVE  LET r == Set(Set(Apply(s, news), "pts", a.pts), "qts", a.qts)
         IN /\ Moves(s, r) /\ r.seq = s.seq
            /\ a.pts <= r.pts /\ a.qts <= r.qts
<1>. DEFINE t == Apply(s, news)
            r == Set(Set(t, "pts", a.pts), "qts", a.qts)
<1>1. s \in Client /\ s.pts \in Nat /\ s.qts \in Nat
  BY CountersAre DEF Good
<1>2. /\ t \in Client
      /\ t.done = Counted(s.done, news)
      /\ \A c \in Counter : t[c] = s[c]
      /\ t.locked = s.locked
  BY <1>1, ApplyIs
<1>. HIDE DEF t
<1>3. t.pts = s.pts /\ t.qts = s.qts /\ t.seq = s.seq
  BY <1>2 DEF Counter
<1>4. /\ r \in Client
      /\ r.pts = IF a.pts <= s.pts THEN s.pts ELSE a.pts
      /\ r.qts = IF a.qts <= s.qts THEN s.qts ELSE a.qts
      /\ r.seq = s.seq /\ r.done = Counted(s.done, news)
  <2>1. /\ r \in Client /\ ~r.locked /\ r.query = t.query /\ r.phase = t.phase
        /\ r.pts = IF a.pts <= t.pts THEN t.pts ELSE a.pts
        /\ r.qts = IF a.qts <= t.qts THEN t.qts ELSE a.qts
        /\ r.seq = t.seq
        /\ r.done = t.done /\ r.base = t.base /\ r.origin = t.origin
    BY <1>2, SetTwice
  <2>. QED BY <1>2, <1>3, <2>1
<1>. HIDE DEF r
<1>5. s.done \in [Box -> [Number -> Nat]]
  BY <1>1 DEF Client
<1>6. ASSUME NEW E, NEW b \in Box, NEW n \in Number
       PROVE  /\ (\E f \in E : f.box = b /\ f.at = n) =>
                   Counted(s.done, E)[b][n] = s.done[b][n] + 1
              /\ ~(\E f \in E : f.box = b /\ f.at = n) =>
                   Counted(s.done, E)[b][n] = s.done[b][n]
  BY <1>5, CountedIs, Zenon
<1>7. /\ s.pts <= r.pts /\ s.qts <= r.qts /\ a.pts <= r.pts /\ a.qts <= r.qts
  BY <1>1, <1>4
<1>8. ASSUME NEW e \in events
      PROVE  r.done[e.box][e.at] > 0 <=>
               \/ s.done[e.box][e.at] > 0
               \/ e.box = "pts" /\ s.pts < e.at /\ e.at <= r.pts
               \/ e.box = "qts" /\ s.qts < e.at /\ e.at <= r.qts
  <2>1. e.box \in Box /\ e.at \in Number
    BY EventIs
  <2>2. /\ e.box \in Box /\ e.at \in Number /\ e.at \in Nat
        /\ e.box = "pts" \/ e.box = "qts"
    BY EventIs
  <2>3. /\ (\E f \in news : f.box = e.box /\ f.at = e.at) =>
             Counted(s.done, news)[e.box][e.at] = s.done[e.box][e.at] + 1
        /\ ~(\E f \in news : f.box = e.box /\ f.at = e.at) =>
             Counted(s.done, news)[e.box][e.at] = s.done[e.box][e.at]
    BY <2>1, <1>6, Zenon
  <2>4. s.done[e.box][e.at] \in Nat
    BY <1>5, <2>2
  <2>5. (\E f \in news : f.box = e.box /\ f.at = e.at) <=>
          \/ e.box = "pts" /\ s.pts < e.at /\ e.at <= a.pts
          \/ e.box = "qts" /\ s.qts < e.at /\ e.at <= a.qts
    OBVIOUS
  <2>6. (s.pts < e.at /\ e.at <= a.pts) <=> (s.pts < e.at /\ e.at <= r.pts)
    BY <1>1, <1>4, <2>2
  <2>7. (s.qts < e.at /\ e.at <= a.qts) <=> (s.qts < e.at /\ e.at <= r.qts)
    BY <1>1, <1>4, <2>2
  <2>. QED BY <1>4, <2>3, <2>4, <2>5, <2>6, <2>7
<1>9. Reads(s, r)
  <2>1. s.pts <= s.pts
    BY <1>1
  <2>. QED BY <1>1, <1>7, <1>8, <2>1 DEF Reads
<1>10. Between(r)
  <2>. SUFFICES ASSUME NEW e \in events
                PROVE  e.at <= r[e.box] \/ r[e.box] <= e.at - e.count
    BY DEF Between
  <2>1. /\ e.at <= s[e.box] \/ s[e.box] <= e.at - e.count
        /\ e.at <= a[e.box] \/ a[e.box] <= e.at - e.count
    BY DEF Between
  <2>2. e.box = "pts" \/ e.box = "qts"
    BY EventIs
  <2>3. r[e.box] = s[e.box] \/ r[e.box] = a[e.box]
    BY <1>4, <2>2
  <2>. QED BY <2>1, <2>3
<1>. QED
  BY <1>4, <1>7, <1>9, <1>10 DEF Moves, r, t

\* The answer with the difference.
LEMMA DifferenceMoves ==
  ASSUME SeqInv, answer.kind \in {"empty", "full", "slice"}
  PROVE  LET r == DifferenceAnswered(tls, answer)
         IN Moves(tls, r) /\ Covers(r)
<1>. DEFINE u == Unlocked(tls)
            t == Set(Set(Apply(u, answer.news), "pts", answer.pts), "qts",
                     answer.qts)
            Phase(x) == IF tls.query.start THEN "started" ELSE x.phase
            Started(x) == [x EXCEPT !.phase = Phase(x)]
            r == DifferenceAnswered(tls, answer)
<1>1. /\ IInv /\ Numbering /\ Good(tls) /\ tls \in Client
      /\ Between(tls) /\ Covers(tls)
      /\ tls.pts \in Nat /\ tls.qts \in Nat /\ tls.seq \in Nat
  BY CountersAre DEF SeqInv, IInv, Good
<1>2. /\ u \in Client /\ ~u.locked /\ u.query = NoQuery /\ Good(u)
      /\ u.pts = tls.pts /\ u.qts = tls.qts /\ u.seq = tls.seq
      /\ u.done = tls.done
  BY <1>1, UnlockedIs, UnlockedGood DEF Counter
<1>. HIDE DEF u
<1>3. Moves(tls, u)
  BY <1>1, <1>2, Unmoved
<1>4. tls.query.pts = tls.pts /\ tls.query.qts = tls.qts /\ tls.query.start \in BOOLEAN
  BY <1>1 DEF IInv, Answered, Good, Asked, Client, Query
<1>5. /\ answer.pts \in Nat /\ answer.qts \in Nat /\ answer.seq \in Nat
      /\ answer.pts <= srv.pts /\ answer.qts <= srv.qts /\ answer.seq <= srv.seq
      /\ Between(answer)
      /\ answer.kind \in {"empty", "full"} => Covers(answer)
  BY DEF SeqInv, IInv, TypeOK, Answered, Told
<1>6. ASSUME answer.kind \in {"full", "slice"}
      PROVE  /\ Good(t) /\ Moves(tls, t) /\ t.seq = tls.seq
             /\ answer.pts <= t.pts /\ answer.qts <= t.qts
  <2>1. answer.news = {e \in events :
           \/ e.box = "pts" /\ u.pts < e.at /\ e.at <= answer.pts
           \/ e.box = "qts" /\ u.qts < e.at /\ e.at <= answer.qts}
    BY <1>1, <1>2, <1>4, <1>6 DEF IInv, Answered, News
  <2>2. Good(t)
    BY <2>1, <1>1, <1>2, <1>5, NewsGood
  <2>3. Between(u)
    BY <1>3 DEF Moves
  <2>4. /\ Moves(u, t) /\ t.seq = u.seq
        /\ answer.pts <= t.pts /\ answer.qts <= t.qts
    BY <2>1, <2>3, <1>1, <1>2, <1>5, NewsMoves
  <2>. HIDE DEF t
  <2>5. Moves(tls, t)
    BY <1>1, <1>3, <2>4, MovesTwice
  <2>. QED BY <1>2, <2>2, <2>4, <2>5
<1>7. ASSUME NEW x, Good(x), Moves(tls, x)
      PROVE  LET y == Started(Set(x, "seq", answer.seq))
             IN /\ Moves(tls, y) /\ y.pts = x.pts /\ y.qts = x.qts
                /\ y.seq = x.seq \/ y.seq = answer.seq
  <2>. DEFINE w == Set(x, "seq", answer.seq)
              y == Started(w)
  <2>1. x \in Client /\ Between(x)
    BY <1>7 DEF Moves
  <2>2. /\ Moves(x, w) /\ w.pts = x.pts /\ w.qts = x.qts
        /\ w.seq = x.seq \/ w.seq = answer.seq
    BY <1>1, <1>5, <1>7, <2>1, SeqMoves
  <2>. HIDE DEF w
  <2>3. w \in Client /\ Between(w)
    BY <2>2 DEF Moves
  <2>4. Phase(w) \in {"login", "started", "failed", "aborted"}
    BY <2>3 DEF Client
  <2>5. /\ y \in Client /\ y.pts = w.pts /\ y.qts = w.qts /\ y.seq = w.seq
        /\ y.done = w.done
    <3>. HIDE DEF Phase
    <3>. QED BY <2>3, <2>4 DEF Client
  <2>. HIDE DEF y
  <2>6. Moves(w, y)
    BY <1>1, <2>3, <2>5, Unmoved
  <2>7. Moves(tls, y)
    BY <1>1, <1>7, <2>1, <2>2, <2>6, MovesTwice
  <2>. QED BY <2>2, <2>5, <2>7 DEF y, w
<1>8. ASSUME NEW y, Moves(tls, y), y.seq = tls.seq \/ y.seq = answer.seq,
             Covers(answer),
             \A e \in events : e.at <= answer[e.box] => e.at <= y[e.box]
      PROVE  Covers(y)
  <2>1. y \in Client /\ tls.pts <= y.pts /\ tls.qts <= y.qts
    BY <1>8 DEF Moves, Reads
  <2>2. y.seq = tls.seq => y.seq <= tls.seq
    BY <1>1
  <2>. QED BY <1>1, <1>8, <2>1, <2>2, CoversMore
<1>9. CASE answer.kind = "empty"
  <2>1. r = Started(Set(u, "seq", answer.seq))
    BY <1>9 DEF DifferenceAnswered, Unlocked, u
  <2>. HIDE DEF Started, r
  <2>2. /\ Moves(tls, r) /\ r.pts = u.pts /\ r.qts = u.qts
        /\ r.seq = u.seq \/ r.seq = answer.seq
    BY <1>2, <1>3, <1>7, <2>1
  <2>3. ASSUME NEW e \in events, e.at <= answer[e.box]
        PROVE  e.at <= r[e.box]
    <3>1. e \notin News(answer.pts, answer.qts)
      BY <1>9 DEF SeqInv, Told
    <3>2. e.at \in Nat /\ (e.box = "pts" \/ e.box = "qts")
      BY <1>1, EventIs
    <3>3. e.at <= tls[e.box]
      BY <1>1, <1>4, <1>5, <2>3, <3>1, <3>2 DEF News
    <3>. QED BY <1>2, <2>2, <3>2, <3>3
  <2>4. Covers(r)
    BY <1>2, <1>5, <1>8, <1>9, <2>2, <2>3
  <2>. QED BY <2>2, <2>4 DEF r
<1>10. CASE answer.kind = "full"
  <2>1. r = Started(Set(t, "seq", answer.seq))
    BY <1>10 DEF DifferenceAnswered, Unlocked, u
  <2>2. /\ Good(t) /\ Moves(tls, t) /\ t.seq = tls.seq
        /\ answer.pts <= t.pts /\ answer.qts <= t.qts
    BY <1>6, <1>10
  <2>. HIDE DEF Started, r, t
  <2>3. /\ Moves(tls, r) /\ r.pts = t.pts /\ r.qts = t.qts
        /\ r.seq = t.seq \/ r.seq = answer.seq
    BY <1>7, <2>1, <2>2
  <2>4. ASSUME NEW e \in events, e.at <= answer[e.box]
        PROVE  e.at <= r[e.box]
    <3>1. e.at \in Nat /\ (e.box = "pts" \/ e.box = "qts")
      BY <1>1, EventIs
    <3>2. r.pts \in Nat /\ r.qts \in Nat
      BY <2>3, CountersAre DEF Moves
    <3>. QED BY <1>5, <2>2, <2>3, <2>4, <3>1, <3>2
  <2>5. Covers(r)
    BY <1>5, <1>8, <1>10, <2>2, <2>3, <2>4
  <2>. QED BY <2>3, <2>5 DEF r
<1>11. CASE answer.kind = "slice"
  <2>1. r = GetDifference(t, tls.query.start)
    BY <1>11 DEF DifferenceAnswered, Unlocked, u
  <2>2. Moves(tls, t) /\ t.seq = tls.seq
    BY <1>6, <1>11
  <2>. HIDE DEF t
  <2>3. Moves(t, r) /\ r.seq = t.seq
    BY <1>1, <1>4, <2>1, <2>2, GetDifferenceMoves DEF Moves
  <2>. HIDE DEF r
  <2>4. Moves(tls, r)
    BY <1>1, <2>2, <2>3, MovesTwice
  <2>5. Covers(r)
    BY <1>1, <2>2, <2>3, <2>4, MovesCovers
  <2>. QED BY <2>4, <2>5 DEF r
<1>. QED
  BY <1>9, <1>10, <1>11

\* The answer with the state.
LEMMA StateCovers ==
  ASSUME SeqInv, answer.kind = "state"
  PROVE  LET r == StateAnswered(tls, answer)
         IN /\ Between(r) /\ Covers(r) /\ r \in Client /\ r.done = tls.done
            /\ tls.pts = 0 /\ tls.pts <= r.pts /\ tls.qts <= r.qts
<1>. DEFINE r == StateAnswered(tls, answer)
<1>1. /\ IInv /\ Numbering /\ Good(tls) /\ tls \in Client
      /\ Between(tls) /\ Covers(tls)
      /\ tls.pts \in Nat /\ tls.qts \in Nat /\ tls.seq \in Nat
  BY CountersAre DEF SeqInv, IInv, Good
<1>2. /\ answer.pts \in Nat /\ answer.qts \in Nat /\ answer.seq \in Nat
      /\ answer.pts <= srv.pts /\ answer.qts <= srv.qts /\ answer.seq <= srv.seq
      /\ Between(answer) /\ Covers(answer)
  BY DEF SeqInv, IInv, TypeOK, Answered, Told
<1>3. tls.pts = 0
  BY <1>1 DEF IInv, Answered, Good, Asked
<1>4. /\ r \in Client /\ r.done = tls.done
      /\ ~r.locked /\ r.query = NoQuery
      /\ r.pts = IF answer.pts <= tls.pts THEN tls.pts ELSE answer.pts
      /\ r.qts = IF answer.qts <= tls.qts THEN tls.qts ELSE answer.qts
      /\ r.seq = IF answer.seq <= tls.seq THEN tls.seq ELSE answer.seq
      /\ \A b \in Box : r.base[b] = r[b] /\ r.origin[b] = r[b]
  BY <1>1, <1>2, StateIs
<1>. HIDE DEF r
<1>5. /\ tls.pts <= r.pts /\ tls.qts <= r.qts
      /\ answer.pts <= r.pts /\ answer.qts <= r.qts
      /\ r.pts \in Nat /\ r.qts \in Nat
      /\ r.seq = answer.seq \/ r.seq <= tls.seq
  BY <1>1, <1>2, <1>4
<1>6. Between(r)
  <2>. SUFFICES ASSUME NEW e \in events
                PROVE  e.at <= r[e.box] \/ r[e.box] <= e.at - e.count
    BY DEF Between
  <2>1. /\ e.at <= tls[e.box] \/ tls[e.box] <= e.at - e.count
        /\ e.at <= answer[e.box] \/ answer[e.box] <= e.at - e.count
    BY <1>1, <1>2 DEF Between
  <2>2. e.box = "pts" \/ e.box = "qts"
    BY <1>1, EventIs
  <2>3. r[e.box] = tls[e.box] \/ r[e.box] = answer[e.box]
    BY <1>4, <2>2
  <2>. QED BY <2>1, <2>3
<1>7. \A e \in events : e.at <= answer[e.box] => e.at <= r[e.box]
  <2>. SUFFICES ASSUME NEW e \in events, e.at <= answer[e.box]
                PROVE  e.at <= r[e.box]
    OBVIOUS
  <2>1. e.at \in Nat /\ (e.box = "pts" \/ e.box = "qts")
    BY <1>1, EventIs
  <2>. QED BY <1>2, <1>5, <2>1
<1>8. Covers(r)
  BY <1>1, <1>2, <1>4, <1>5, <1>7, CoversMore
<1>. QED
  BY <1>3, <1>4, <1>5, <1>6, <1>8 DEF r

\* While an answer is on its way the lock is held.
LEMMA AnswerLocked ==
  ASSUME IInv, answer # NoAnswer
  PROVE  tls.locked
BY DEF IInv, Answered, Good, Asked

\* A step of the client that reads on, or stands still: pushes, the requests
\* for the difference, its answers and failures, and the hourly lookup.
Reading ==
  \/ Deliver \/ Start \/ NewSession \/ HandleError
  \/ HandleAnswer /\ answer.kind # "state"
  \/ AnswerLookup \/ Lookup \/ HandleLookup \/ UNCHANGED vars

\* Such a step moves between events, and seq stays covered.
LEMMA ReadingMoves ==
  ASSUME SeqInv, Reading
  PROVE  /\ Moves(tls, tls') /\ Covers(tls')
         /\ UNCHANGED <<file, srv, events>> /\ pushes' \subseteq pushes
         /\ \/ answer' = NoAnswer
            \/ /\ answer' = answer
               /\ answer # NoAnswer => tls'.query = tls.query
<1>1. /\ IInv /\ Numbering /\ Good(tls) /\ tls \in Client
      /\ Between(tls) /\ Covers(tls)
  BY DEF SeqInv, IInv, Good
<1>2. Moves(tls, tls)
  BY <1>1, Unmoved
<1>3. answer # NoAnswer => tls.locked
  BY <1>1, AnswerLocked
<1>4. ASSUME NEW st \in BOOLEAN
      PROVE  LET g == GetDifference(tls, st)
             IN /\ Moves(tls, g) /\ Covers(g)
                /\ tls.locked => g.query = tls.query
  <2>. DEFINE g == GetDifference(tls, st)
  <2>1. Moves(tls, g) /\ g.seq = tls.seq
    BY <1>1, GetDifferenceMoves
  <2>2. tls.locked => g.query = tls.query
    BY <1>1, GetDifferenceIs
  <2>. HIDE DEF g
  <2>3. Covers(g)
    BY <1>1, <2>1, MovesCovers
  <2>. QED BY <2>1, <2>2, <2>3 DEF g
<1>5. CASE Deliver
  <2>1. PICK p \in pushes : tls' = WorkAnyUpdates(tls, p)
    BY <1>5 DEF Deliver
  <2>2. Moves(tls, tls') /\ Covers(tls')
    BY <2>1, WorkAnyUpdatesMoves
  <2>3. tls.locked => tls'.query = tls.query
    BY <1>1, <2>1, WorkAnyUpdatesGood
  <2>. QED BY <1>3, <1>5, <2>2, <2>3 DEF Deliver
<1>6. CASE Start
  BY <1>3, <1>4, <1>6 DEF Start
<1>7. CASE NewSession
  BY <1>3, <1>4, <1>7 DEF NewSession
<1>8. CASE HandleLookup
  BY <1>1, <1>2, <1>3, <1>4, <1>8 DEF HandleLookup
<1>9. CASE HandleError
  <2>. DEFINE phase == IF tls.query.start THEN "failed" ELSE tls.phase
  <2>1. /\ answer' = NoAnswer /\ UNCHANGED <<file, srv, events, pushes>>
        /\ tls' = [tls EXCEPT !.query = NoQuery, !.phase = phase]
    BY <1>9 DEF HandleError
  <2>2. NoQuery \in Query
        /\ phase \in {"login", "started", "failed", "aborted"}
    BY <1>1 DEF NoQuery, Query, Client
  <2>. HIDE DEF phase
  <2>3. /\ tls' \in Client /\ tls'.pts = tls.pts /\ tls'.qts = tls.qts
        /\ tls'.seq = tls.seq /\ tls'.done = tls.done
    BY <1>1, <2>1, <2>2 DEF Client
  <2>4. Moves(tls, tls')
    BY <1>1, <2>3, Unmoved
  <2>5. Covers(tls')
    BY <1>1, <2>3, <2>4, MovesCovers
  <2>. QED BY <2>1, <2>4, <2>5
<1>10. CASE HandleAnswer /\ answer.kind # "state"
  <2>1. /\ tls' = DifferenceAnswered(tls, answer) /\ answer' = NoAnswer
        /\ UNCHANGED <<file, srv, events, pushes>>
        /\ answer.kind \in {"empty", "full", "slice"}
    BY <1>1, <1>10 DEF HandleAnswer, IInv, TypeOK, Answered
  <2>2. Moves(tls, tls') /\ Covers(tls')
    BY <2>1, DifferenceMoves
  <2>. QED BY <2>1, <2>2
<1>11. CASE AnswerLookup
  BY <1>1, <1>2, <1>11 DEF AnswerLookup
<1>12. CASE Lookup
  BY <1>1, <1>2, <1>12 DEF Lookup
<1>13. CASE UNCHANGED vars
  BY <1>1, <1>2, <1>13 DEF vars
<1>. QED
  BY <1>5, <1>6, <1>7, <1>8, <1>9, <1>10, <1>11, <1>12, <1>13 DEF Reading

\* What is left to show when the server does nothing.
LEMMA ClientSeq ==
  ASSUME SeqInv, IInv', Between(tls'), Covers(tls'),
         UNCHANGED <<file, srv, events>>, pushes' \subseteq pushes,
         \/ answer' = NoAnswer
         \/ /\ answer' = answer
            /\ answer # NoAnswer => tls'.query = tls.query
  PROVE  SeqInv'
<1>1. Containers'
  BY DEF SeqInv, Containers
<1>2. Between(tls)' /\ Covers(tls)'
  BY DEF Between, Covers
<1>3. Between(file)' /\ Covers(file)'
  BY DEF SeqInv, Between, Covers
<1>4. Told'
  <2>1. CASE answer' = NoAnswer
    BY <2>1 DEF Told, NoAnswer
  <2>2. CASE answer' # NoAnswer
    <3>1. answer' = answer /\ tls'.query = tls.query
      BY <2>2
    <3>2. News(answer.pts, answer.qts)' = News(answer.pts, answer.qts)
      BY <3>1 DEF News
    <3>3. Told
      BY DEF SeqInv
    <3>. QED BY <3>1, <3>2, <3>3 DEF Told, Between, Covers
  <2>. QED BY <2>1, <2>2
<1>. QED
  BY <1>1, <1>2, <1>3, <1>4 DEF SeqInv

\* An update that is next lies behind the counters.
LEMMA NextBehind ==
  ASSUME NEW c \in Counters, NEW u, IsNext(c, u)
  PROVE  /\ Moved(c, u) \in Counters
         /\ \A b \in Box : c[b] <= Moved(c, u)[b]
         /\ u # None => /\ u.box \in Box /\ u.at \in Nat /\ u.count \in Nat
                        /\ u.count >= 1 /\ c[u.box] <= u.at - u.count
<1>1. c.pts \in Nat /\ c.qts \in Nat /\ c.seq \in Nat
  BY DEF Counters
<1>2. CASE u = None
  BY <1>1, <1>2 DEF Moved, None, Box
<1>3. CASE u # None
  <2>1. /\ u.box \in Box /\ u.at \in Nat /\ u.count \in Nat
        /\ u.count >= 1 /\ u.at = c[u.box] + u.count
    BY <1>3 DEF IsNext, After, Update
  <2>2. Moved(c, u) = [c EXCEPT ![u.box] = u.at]
    BY <2>1 DEF Moved, Box
  <2>3. Moved(c, u) \in Counters
    BY <2>1, <2>2 DEF Counters, Box
  <2>4. c[u.box] \in Nat /\ c[u.box] <= u.at - u.count /\ c[u.box] <= u.at
    BY <1>1, <2>1 DEF Box
  <2>5. ASSUME NEW b \in Box
        PROVE  c[b] <= Moved(c, u)[b]
    <3>1. CASE b = u.box
      BY <2>1, <2>2, <2>4, <3>1 DEF Counters, Box
    <3>2. CASE b # u.box
      BY <1>1, <2>1, <2>2, <3>2 DEF Counters, Box
    <3>. QED BY <3>1, <3>2
  <2>. QED BY <2>1, <2>3, <2>4, <2>5
<1>. QED
  BY <1>2, <1>3

\* What the server pushes lies behind all counters.
LEMMA PushesBehind ==
  ASSUME IInv, NEW k, NEW u, NEW v, NEW starts \in Nat, NEW ends \in Nat,
         Pushing(k, starts, ends, u, v)
  PROVE  /\ UNCHANGED <<tls, answer, file>>
         /\ events \subseteq events'
         /\ pushes' = pushes \cup {[kind |-> k, seq_start |-> starts,
                                    seq |-> ends, first |-> u, second |-> v]}
         /\ \A e \in events' \ events :
              /\ e.box \in Box /\ e.at \in Nat /\ e.count \in Nat
              /\ e.count >= 1 /\ srv[e.box] <= e.at - e.count
<1>. DEFINE m == Moved(srv, u)
<1>1. srv \in Counters
  BY DEF IInv, Numbering
<1>2. /\ UNCHANGED <<tls, answer, file>>
      /\ events' = events \cup ({u, v} \ {None})
      /\ pushes' = pushes \cup {[kind |-> k, seq_start |-> starts,
                                 seq |-> ends, first |-> u, second |-> v]}
      /\ IsNext(srv, u) /\ IsNext(m, v)
  BY DEF Pushing, Push
<1>3. /\ m \in Counters /\ \A b \in Box : srv[b] <= m[b]
      /\ u # None => /\ u.box \in Box /\ u.at \in Nat /\ u.count \in Nat
                     /\ u.count >= 1 /\ srv[u.box] <= u.at - u.count
  BY <1>1, <1>2, NextBehind
<1>. HIDE DEF m
<1>4. v # None => /\ v.box \in Box /\ v.at \in Nat /\ v.count \in Nat
                  /\ v.count >= 1 /\ m[v.box] <= v.at - v.count
  BY <1>2, <1>3, NextBehind
<1>5. v # None => srv[v.box] <= v.at - v.count
  <2>1. \A b \in Box : srv[b] \in Nat /\ m[b] \in Nat
    BY <1>1, <1>3 DEF Counters, Box
  <2>. QED BY <1>3, <1>4, <2>1
<1>. QED
  BY <1>2, <1>3, <1>4, <1>5

\* The server pushes: what it says is new to every counter.
LEMMA PushesSeq ==
  ASSUME SeqInv, PushMessage \/ PushShort \/ PushUpdates \/ PushTooLong
  PROVE  SeqInv'
<1>1. IInv /\ IInv' /\ srv \in Counters
  BY PushesGood DEF SeqInv, IInv, Numbering
<1>2. PICK k, u, v : \E starts, ends \in Nat : Pushing(k, starts, ends, u, v)
  BY <1>1, PushesAre
<1>3. PICK starts \in Nat, ends \in Nat : Pushing(k, starts, ends, u, v)
  BY <1>2
<1>. DEFINE new == [kind |-> k, seq_start |-> starts, seq |-> ends,
                    first |-> u, second |-> v]
<1>4. /\ UNCHANGED <<tls, answer, file>>
      /\ events \subseteq events'
      /\ pushes' = pushes \cup {new}
      /\ \A e \in events' \ events :
           /\ e.box \in Box /\ e.at \in Nat /\ e.count \in Nat
           /\ e.count >= 1 /\ srv[e.box] <= e.at - e.count
  BY <1>1, <1>3, PushesBehind
<1>5. /\ new.seq = ends /\ new.seq_start = starts
      /\ srv.seq \in Nat
      /\ \/ starts = 0 /\ ends = 0
         \/ starts = srv.seq + 1 /\ starts <= ends
  BY <1>1, <1>3 DEF Pushing, Counters
<1>. HIDE DEF new
<1>6. ASSUME NEW c, c.pts \in Nat, c.qts \in Nat,
             c.pts <= srv.pts, c.qts <= srv.qts
      PROVE  \A e \in events' \ events :
               c[e.box] <= e.at - e.count /\ ~(e.at <= c[e.box])
  BY <1>1, <1>4, <1>6 DEF Counters, Box
<1>7. ASSUME NEW c, c.seq \in Nat, c.seq <= srv.seq, Covers(c)
      PROVE  \A p \in pushes' : p.seq # 0 /\ p.seq <= c.seq =>
               \A w \in {p.first, p.second} \ {None} : w.at <= c[w.box]
  <2>1. ~(new.seq # 0 /\ new.seq <= c.seq)
    BY <1>5, <1>7
  <2>. QED BY <1>4, <1>7, <2>1 DEF Covers
<1>8. /\ tls.pts \in Nat /\ tls.qts \in Nat /\ tls.seq \in Nat
      /\ tls.pts <= srv.pts /\ tls.qts <= srv.qts /\ tls.seq <= srv.seq
  BY <1>1, CountersAre DEF IInv, Good, Counter
<1>9. /\ file.pts \in Nat /\ file.qts \in Nat /\ file.seq \in Nat
      /\ file.pts <= srv.pts /\ file.qts <= srv.qts /\ file.seq <= srv.seq
  <2>1. file.pts \in Nat /\ file.qts \in Nat /\ file.seq \in Nat
    BY <1>1 DEF IInv, Numbering, Counters
  <2>2. file.pts <= tls.pts /\ file.qts <= tls.qts /\ file.seq <= tls.seq
    BY <1>1 DEF IInv, Good, Saved, Counter
  <2>. QED BY <1>1, <1>8, <2>1, <2>2 DEF Counters
<1>10. /\ answer.pts \in Nat /\ answer.qts \in Nat /\ answer.seq \in Nat
       /\ answer.pts <= srv.pts /\ answer.qts <= srv.qts
       /\ answer.seq <= srv.seq
  BY <1>1 DEF IInv, TypeOK, Answered
<1>11. Between(tls)' /\ Covers(tls)'
  <2>1. \A e \in events' \ events : tls[e.box] <= e.at - e.count
    BY <1>6, <1>8
  <2>2. \A p \in pushes' : p.seq # 0 /\ p.seq <= tls.seq =>
          \A w \in {p.first, p.second} \ {None} : w.at <= tls[w.box]
    BY <1>7, <1>8 DEF SeqInv
  <2>. QED BY <1>4, <2>1, <2>2 DEF SeqInv, Between, Covers
<1>12. Between(file)' /\ Covers(file)'
  <2>1. \A e \in events' \ events : file[e.box] <= e.at - e.count
    BY <1>6, <1>9
  <2>2. \A p \in pushes' : p.seq # 0 /\ p.seq <= file.seq =>
          \A w \in {p.first, p.second} \ {None} : w.at <= file[w.box]
    BY <1>7, <1>9 DEF SeqInv
  <2>. QED BY <1>4, <2>1, <2>2 DEF SeqInv, Between, Covers
<1>13. Told'
  <2>1. \A e \in events' \ events : /\ answer[e.box] <= e.at - e.count
                                    /\ ~(e.at <= answer[e.box])
    BY <1>6, <1>10
  <2>2. answer.kind # "none" => Between(answer)'
    BY <1>4, <2>1 DEF SeqInv, Told, Between
  <2>3. answer.kind \in {"state", "empty", "full"} => Covers(answer)'
    <3>. SUFFICES ASSUME answer.kind \in {"state", "empty", "full"}
                  PROVE  Covers(answer)'
      OBVIOUS
    <3>1. Covers(answer)
      BY DEF SeqInv, Told
    <3>2. \A p \in pushes' : p.seq # 0 /\ p.seq <= answer.seq =>
            \A w \in {p.first, p.second} \ {None} : w.at <= answer[w.box]
      BY <1>7, <1>10, <3>1
    <3>. QED BY <1>4, <3>2 DEF Covers
  <2>4. answer.kind = "empty" => News(answer.pts, answer.qts)' = {}
    <3>. SUFFICES ASSUME answer.kind = "empty"
                  PROVE  News(answer.pts, answer.qts)' = {}
      OBVIOUS
    <3>1. News(answer.pts, answer.qts) = {}
      BY DEF SeqInv, Told
    <3>2. \A e \in events' \ events : /\ ~(e.box = "pts" /\ e.at <= answer.pts)
                                      /\ ~(e.box = "qts" /\ e.at <= answer.qts)
      BY <2>1
    <3>. QED BY <1>4, <3>1, <3>2 DEF News
  <2>. QED BY <1>4, <2>2, <2>3, <2>4 DEF Told
<1>14. Containers'
  <2>1. ASSUME NEW p \in pushes
        PROVE  /\ p.seq # 0 => p.seq_start # 0 /\ p.seq_start <= p.seq
               /\ p.seq = 0 => p.seq_start = 0
               /\ p.seq \in Nat /\ p.seq <= srv.seq
    BY <1>1 DEF SeqInv, Containers, IInv, TypeOK, Push_, Pushed
  <2>2. /\ new.seq # 0 => new.seq_start # 0 /\ new.seq_start <= new.seq
        /\ new.seq = 0 => new.seq_start = 0
    BY <1>5
  <2>3. \A p \in pushes : new.seq # 0 => p.seq < new.seq_start
    BY <1>5, <2>1
  <2>4. \A p, q \in pushes : p # q /\ p.seq # 0 /\ q.seq # 0 =>
          p.seq < q.seq_start \/ q.seq < p.seq_start
    BY DEF SeqInv, Containers
  <2>5. \A p \in pushes' : /\ p.seq # 0 => p.seq_start # 0 /\ p.seq_start <= p.seq
                           /\ p.seq = 0 => p.seq_start = 0
    BY <1>4, <2>1, <2>2
  <2>6. \A p, q \in pushes' : p # q /\ p.seq # 0 /\ q.seq # 0 =>
          p.seq < q.seq_start \/ q.seq < p.seq_start
    BY <1>4, <2>3, <2>4
  <2>. QED BY <2>5, <2>6 DEF Containers
<1>. QED
  BY <1>1, <1>11, <1>12, <1>13, <1>14 DEF SeqInv

\* The server answers the request: with all it has, or up to some event.
LEMMA AnswerSeq ==
  ASSUME SeqInv, Answer
  PROVE  SeqInv'
<1>1. /\ IInv /\ IInv' /\ Numbering /\ srv \in Counters
      /\ UNCHANGED <<tls, file, srv, events, pushes>>
      /\ tls.query # NoQuery
  BY AnswerGood DEF SeqInv, IInv, Numbering, Answer
<1>2. Containers' /\ (Between(tls) /\ Covers(tls))'
      /\ (Between(file) /\ Covers(file))'
  BY <1>1 DEF SeqInv, Containers, Between, Covers
<1>3. ASSUME NEW e \in events
      PROVE  /\ e.box = "pts" \/ e.box = "qts"
             /\ e.at \in Nat /\ e.count \in Nat /\ e.count >= 1
             /\ e.at <= srv[e.box]
  BY <1>1, EventIs
<1>4. ASSUME NEW a, a.pts = srv.pts, a.qts = srv.qts, a.seq = srv.seq
      PROVE  Between(a) /\ Covers(a)
  <2>1. \A e \in events : e.at <= a[e.box]
    BY <1>3, <1>4
  <2>2. \A p \in pushes : {p.first, p.second} \ {None} \subseteq events
    BY <1>1 DEF IInv, Pushed
  <2>. QED BY <2>1, <2>2 DEF Between, Covers
<1>5. Told'
  <2>. DEFINE Honest(a) ==
         /\ Between(a)
         /\ a.kind \in {"state", "empty", "full"} => Covers(a)
         /\ a.kind = "empty" => News(a.pts, a.qts) = {}
  <2>1. CASE answer' = [kind |-> "state", pts |-> srv.pts, qts |-> srv.qts,
                        seq |-> srv.seq, news |-> {}]
    <3>1. answer'.kind = "state"
      BY <2>1
    <3>2. Between(answer') /\ Covers(answer')
      BY <1>4, <2>1
    <3>. QED BY <1>1, <3>1, <3>2 DEF Told, Between, Covers
  <2>2. CASE LET news == News(srv.pts, srv.qts)
             IN answer' = [kind |-> IF news = {} THEN "empty" ELSE "full",
                           pts |-> srv.pts, qts |-> srv.qts,
                           seq |-> srv.seq, news |-> news]
    <3>1. /\ answer'.pts = srv.pts /\ answer'.qts = srv.qts
          /\ answer'.seq = srv.seq
          /\ answer'.kind = "empty" => News(srv.pts, srv.qts) = {}
      BY <2>2
    <3>2. Between(answer') /\ Covers(answer')
      BY <1>4, <3>1
    <3>3. Between(answer)' /\ Covers(answer)'
      BY <1>1, <3>2 DEF Between, Covers
    <3>4. answer'.kind = "empty" => News(answer.pts, answer.qts)' = {}
      BY <1>1, <3>1 DEF News
    <3>. QED BY <3>3, <3>4 DEF Told
  <2>3. ASSUME tls.query.kind = "difference",
               NEW p \in {tls.query.pts}
                     \cup {e.at : e \in {x \in events : x.box = "pts"}},
               NEW q \in {tls.query.qts}
                     \cup {e.at : e \in {x \in events : x.box = "qts"}},
               answer' = [kind |-> "slice", pts |-> p, qts |-> q, seq |-> 0,
                          news |-> News(p, q)]
        PROVE  Told'
    <3>1. tls.query.pts = tls.pts /\ tls.query.qts = tls.qts
      BY <1>1, <2>3 DEF IInv, Good, Asked
    <3>2. ASSUME NEW e \in events, NEW x \in events, e.box = x.box
          PROVE  e.at <= x.at \/ x.at <= e.at - e.count
      <4>1. e # x => e.at <= x.at - x.count \/ x.at <= e.at - e.count
        BY <1>1, <3>2 DEF Numbering, Numbered
      <4>. QED BY <1>3, <4>1
    <3>3. Between(tls)
      BY DEF SeqInv
    <3>4. ASSUME NEW e \in events
          PROVE  /\ e.box = "pts" => e.at <= p \/ p <= e.at - e.count
                 /\ e.box = "qts" => e.at <= q \/ q <= e.at - e.count
      <4>1. e.at <= tls[e.box] \/ tls[e.box] <= e.at - e.count
        BY <3>3 DEF Between
      <4>2. CASE e.box = "pts"
        <5>1. p = tls.pts \/ \E x \in events : x.box = "pts" /\ p = x.at
          BY <3>1
        <5>. QED BY <3>2, <4>1, <4>2, <5>1
      <4>3. CASE e.box = "qts"
        <5>1. q = tls.qts \/ \E x \in events : x.box = "qts" /\ q = x.at
          BY <3>1
        <5>. QED BY <3>2, <4>1, <4>3, <5>1
      <4>. QED BY <1>3, <4>2, <4>3
    <3>5. answer'.kind = "slice" /\ answer'.pts = p /\ answer'.qts = q
      BY <2>3
    <3>6. Between(answer)'
      BY <1>1, <1>3, <3>4, <3>5 DEF Between
    <3>. QED BY <3>5, <3>6 DEF Told
  <2>. QED BY <2>1, <2>2, <2>3 DEF Answer
<1>. QED
  BY <1>1, <1>2, <1>5 DEF SeqInv

\* The state file takes the place of the client's counters.
LEMMA WriteStateFileSeq ==
  ASSUME SeqInv, WriteStateFile
  PROVE  SeqInv'
<1>1. /\ IInv' /\ IInv /\ UNCHANGED <<tls, answer, srv, events, pushes>>
      /\ file'.pts = tls.pts /\ file'.qts = tls.qts /\ file'.seq = tls.seq
  BY WriteStateFileGood DEF SeqInv, WriteStateFile
<1>2. Containers' /\ (Between(tls) /\ Covers(tls))' /\ Told'
  BY <1>1 DEF SeqInv, Containers, Between, Covers, Told, News
<1>3. \A e \in events : e.box = "pts" \/ e.box = "qts"
  BY <1>1, EventIs DEF IInv
<1>4. \A e \in events : file'[e.box] = tls[e.box]
  BY <1>1, <1>3
<1>5. \A p \in pushes : {p.first, p.second} \ {None} \subseteq events
  BY <1>1 DEF IInv, Pushed
<1>6. Between(file)'
  BY <1>1, <1>4 DEF SeqInv, Between
<1>7. Covers(file)'
  BY <1>1, <1>4, <1>5 DEF SeqInv, Covers
<1>. QED
  BY <1>1, <1>2, <1>6, <1>7 DEF SeqInv

\* A new process stands where the state file does.
LEMMA RestartSeq ==
  ASSUME SeqInv, Restart
  PROVE  /\ SeqInv'
         /\ tls'.pts = file.pts /\ tls'.qts = file.qts /\ tls'.done = Nothing
<1>1. /\ IInv' /\ IInv /\ UNCHANGED <<file, srv, events>>
      /\ pushes' \subseteq pushes /\ answer' = NoAnswer
      /\ tls'.pts = file.pts /\ tls'.qts = file.qts /\ tls'.seq = file.seq
      /\ tls'.done = Nothing
  BY RestartGood DEF SeqInv, Restart, Fresh
<1>2. \A e \in events : e.box = "pts" \/ e.box = "qts"
  BY <1>1, EventIs DEF IInv
<1>3. \A e \in events : tls'[e.box] = file[e.box]
  BY <1>1, <1>2
<1>4. \A p \in pushes : {p.first, p.second} \ {None} \subseteq events
  BY <1>1 DEF IInv, Pushed
<1>5. Between(tls')
  BY <1>3 DEF SeqInv, Between
<1>6. Covers(tls')
  BY <1>1, <1>3, <1>4 DEF SeqInv, Covers
<1>. QED
  BY <1>1, <1>5, <1>6, ClientSeq

\* The initial state satisfies the invariant.
LEMMA InitSeq == Init => SeqInv
<1>. SUFFICES ASSUME Init PROVE SeqInv
  OBVIOUS
<1>1. events = {} /\ pushes = {} /\ answer = NoAnswer
  BY DEF Init
<1>2. Told
  BY <1>1 DEF Told, NoAnswer
<1>. QED
  BY <1>1, <1>2, InitIInv DEF SeqInv, Containers, Between, Covers

\* Every step reads, takes up the state, saves, restarts or is the server's.
LEMMA NextSeq == SeqInv /\ [Next]_vars => SeqInv'
<1>. SUFFICES ASSUME SeqInv, [Next]_vars PROVE SeqInv'
  OBVIOUS
<1>1. IInv'
  BY NextIInv DEF SeqInv
<1>2. CASE PushMessage \/ PushShort \/ PushUpdates \/ PushTooLong
  BY <1>2, PushesSeq
<1>3. CASE Answer
  BY <1>3, AnswerSeq
<1>4. CASE Reading
  <2>1. /\ Moves(tls, tls') /\ Covers(tls')
        /\ UNCHANGED <<file, srv, events>> /\ pushes' \subseteq pushes
        /\ \/ answer' = NoAnswer
           \/ /\ answer' = answer
              /\ answer # NoAnswer => tls'.query = tls.query
    BY <1>4, ReadingMoves
  <2>2. Between(tls')
    BY <2>1 DEF Moves
  <2>. QED BY <1>1, <2>1, <2>2, ClientSeq
<1>5. CASE HandleAnswer /\ answer.kind = "state"
  <2>1. /\ tls' = StateAnswered(tls, answer) /\ answer' = NoAnswer
        /\ UNCHANGED <<file, srv, events, pushes>>
    BY <1>5 DEF HandleAnswer
  <2>2. Between(tls') /\ Covers(tls')
    BY <1>5, <2>1, StateCovers
  <2>. QED BY <1>1, <2>1, <2>2, ClientSeq
<1>6. CASE WriteStateFile
  BY <1>6, WriteStateFileSeq
<1>7. CASE Restart
  BY <1>7, RestartSeq
<1>. QED
  BY <1>2, <1>3, <1>4, <1>5, <1>6, <1>7 DEF Next, Server, Reading

\* The counters stand between events and seq covers its containers, always.
THEOREM SeqInvariance == Spec => []SeqInv
  BY InitSeq, NextSeq, PTL DEF Spec

\* seq never runs ahead of pts and qts: no container counts as seen while an
\* event of it is missing (tglu_work_updates, tglu_work_updates_combined,
\* do_skip_seq, bl_do_set_seq).
THEOREM ContainersCovered == Spec => []SeqCovers
<1>1. SeqInv => SeqCovers
  BY DEF SeqInv, Covers, SeqCovers
<1>. QED
  BY <1>1, SeqInvariance, PTL

\* The streams are empty at first.
LEMMA InitStream == Init => Stream!Init
<1>. SUFFICES ASSUME Init PROVE Stream!Init
  OBVIOUS
<1>1. events = {} /\ file = Zero /\ tls = Fresh(Zero, [b \in Box |-> 0])
  BY DEF Init
<1>2. \A b \in Box : tls[b] = 0 /\ file[b] = 0
  BY <1>1 DEF Fresh, Zero, Box
<1>3. /\ [b \in Box |-> tls[b]] = [b \in Box |-> 0]
      /\ [b \in Box |-> file[b]] = [b \in Box |-> tls[b]]
      /\ {e \in events : tls.done[e.box][e.at] > 0} = {}
  BY <1>1, <1>2
<1>. QED
  BY <1>1, <1>3 DEF Stream!Init

\* Moving is taking what comes next, of both streams at once.
LEMMA MovesTake ==
  ASSUME SeqInv, Moves(tls, tls'), UNCHANGED <<file, events>>
  PROVE  Stream!Take
<1>1. Numbering /\ tls \in Client /\ tls' \in Client
  BY DEF SeqInv, IInv, Good, Moves
<1>2. /\ tls.pts \in Nat /\ tls.qts \in Nat /\ tls'.pts \in Nat
      /\ tls'.qts \in Nat /\ tls'.pts <= MaxPts /\ tls'.qts <= MaxQts
      /\ tls.pts <= tls'.pts /\ tls.qts <= tls'.qts
  BY <1>1, BoundsAssumption DEF Client, Moves, Reads
<1>3. PICK k \in Nat :
        /\ tls.pts <= k /\ k <= tls'.pts /\ (tls.pts # 0 => k = tls.pts)
        /\ \A e \in events :
             tls'.done[e.box][e.at] > 0 <=>
               \/ tls.done[e.box][e.at] > 0
               \/ e.box = "pts" /\ k < e.at /\ e.at <= tls'.pts
               \/ e.box = "qts" /\ tls.qts < e.at /\ e.at <= tls'.qts
  BY DEF Moves, Reads
<1>. DEFINE from == [b \in Box |-> IF b = "pts" THEN k ELSE tls.qts]
            upto == [b \in Box |-> tls[b]]
            next == [b \in Box |-> tls'[b]]
<1>4. /\ from["pts"] = k /\ from["qts"] = tls.qts
      /\ upto["pts"] = tls.pts /\ upto["qts"] = tls.qts
      /\ next["pts"] = tls'.pts /\ next["qts"] = tls'.qts
  BY DEF Box
<1>5. from \in [Box -> 0 .. MaxPts + MaxQts]
  <2>1. k \in 0 .. MaxPts + MaxQts /\ tls.qts \in 0 .. MaxPts + MaxQts
    BY <1>2, <1>3, BoundsAssumption
  <2>. QED BY <2>1
<1>6. tls.pts # 0 => from = upto
  BY <1>3 DEF Box
<1>. HIDE DEF from, upto, next
<1>7. \A b \in Box : upto[b] <= from[b] /\ from[b] <= next[b]
  BY <1>2, <1>3, <1>4 DEF Box
<1>8. {e \in events : tls'.done[e.box][e.at] > 0} =
        {e \in events : tls.done[e.box][e.at] > 0} \cup
        {e \in events : from[e.box] < e.at /\ e.at <= next[e.box]}
  <2>1. ASSUME NEW e \in events
        PROVE  tls'.done[e.box][e.at] > 0 <=>
                 \/ tls.done[e.box][e.at] > 0
                 \/ from[e.box] < e.at /\ e.at <= next[e.box]
    <3>1. e.box = "pts" \/ e.box = "qts"
      BY <1>1, EventIs
    <3>2. CASE e.box = "pts"
      BY <1>3, <1>4, <3>2
    <3>3. CASE e.box = "qts"
      BY <1>3, <1>4, <3>3
    <3>. QED BY <3>1, <3>2, <3>3
  <2>. QED BY <2>1
<1>9. upto["pts"] # 0 => from = upto
  BY <1>4, <1>6
<1>. QED
  BY <1>5, <1>7, <1>8, <1>9 DEF Stream!Take, upto, next

\* The state of the server says where to go on: all before it is skipped.
LEMMA StateTakes ==
  ASSUME SeqInv, HandleAnswer, answer.kind = "state"
  PROVE  Stream!Take
<1>. DEFINE next == [b \in Box |-> tls'[b]]
<1>1. Numbering /\ tls \in Client
  BY DEF SeqInv, IInv, Good
<1>2. /\ tls' = StateAnswered(tls, answer)
      /\ UNCHANGED <<file, events>>
  BY DEF HandleAnswer
<1>3. /\ tls' \in Client /\ tls'.done = tls.done
      /\ tls.pts = 0 /\ tls.pts <= tls'.pts /\ tls.qts <= tls'.qts
  BY <1>2, StateCovers
<1>4. /\ tls.qts \in Nat /\ tls'.pts \in 0 .. MaxPts /\ tls'.qts \in 0 .. MaxQts
  BY <1>1, <1>3, BoundsAssumption DEF Client
<1>5. /\ next["pts"] = tls'.pts /\ next["qts"] = tls'.qts
      /\ next \in [Box -> 0 .. MaxPts + MaxQts]
  BY <1>4, BoundsAssumption DEF Box
<1>6. \A b \in Box : tls[b] <= next[b] /\ next[b] <= next[b]
  BY <1>3, <1>4, <1>5 DEF Box
<1>7. [b \in Box |-> tls[b]]["pts"] = 0
  BY <1>3 DEF Box
<1>8. {e \in events : next[e.box] < e.at /\ e.at <= next[e.box]} = {}
  <2>1. \A e \in events : e.at \in Nat /\ next[e.box] \in Nat
    BY <1>1, <1>4, <1>5, EventIs
  <2>. QED BY <2>1
<1>9. \A b \in Box : [c \in Box |-> tls[c]][b] <= next[b]
  BY <1>6
<1>. HIDE DEF next
<1>10. {e \in events : tls'.done[e.box][e.at] > 0} =
         {e \in events : tls.done[e.box][e.at] > 0} \cup
         {e \in events : next[e.box] < e.at /\ e.at <= next[e.box]}
  BY <1>3, <1>8
<1>. QED
  BY <1>2, <1>5, <1>6, <1>7, <1>9, <1>10 DEF Stream!Take, next

\* What the server pushes is published beyond every position.
LEMMA PushesPublish ==
  ASSUME SeqInv, PushMessage \/ PushShort \/ PushUpdates \/ PushTooLong
  PROVE  Stream!Publish
<1>1. IInv /\ IInv' /\ srv \in Counters /\ tls \in Client /\ Numbering
  BY PushesGood DEF SeqInv, IInv, Good, Numbering
<1>2. PICK k, u, v : \E starts, ends \in Nat : Pushing(k, starts, ends, u, v)
  BY <1>1, PushesAre
<1>3. PICK starts \in Nat, ends \in Nat : Pushing(k, starts, ends, u, v)
  BY <1>2
<1>4. /\ UNCHANGED <<tls, file>> /\ events \subseteq events'
      /\ \A e \in events' \ events :
           /\ e.box \in Box /\ e.at \in Nat /\ e.count \in Nat
           /\ e.count >= 1 /\ srv[e.box] <= e.at - e.count
  BY <1>1, <1>3, PushesBehind
<1>5. \A b \in Box : /\ tls[b] \in Nat /\ file[b] \in Nat /\ srv[b] \in Nat
                     /\ tls[b] <= srv[b] /\ file[b] <= tls[b]
  BY <1>1, CountersAre
  DEF IInv, Good, Saved, Numbering, Counters, Counter, Box
<1>6. \A e \in events' \ events :
        e.at > [b \in Box |-> tls[b]][e.box] /\ e.at > [b \in Box |-> file[b]][e.box]
  BY <1>4, <1>5
<1>7. ASSUME NEW e \in events' \ events
      PROVE  ~(tls.done[e.box][e.at] > 0)
  <2>1. e.box \in Box /\ e.at \in Number
    BY <1>1 DEF IInv, Numbering, Numbered, Update
  <2>2. tls.done[e.box][e.at] > 0 => e.at <= tls[e.box]
    BY <1>1, <2>1 DEF IInv, Good, Exact
  <2>. QED BY <1>4, <1>5, <2>2
<1>8. {e \in events' : tls'.done[e.box][e.at] > 0} =
        {e \in events : tls.done[e.box][e.at] > 0}
  BY <1>4, <1>7
<1>. QED
  BY <1>4, <1>6, <1>8 DEF Stream!Publish

\* Every step of the client, the server and the file is one of the stream.
LEMMA NextStream == SeqInv /\ [Next]_vars => [Stream!Next]_(Stream!vars)
<1>. SUFFICES ASSUME SeqInv, [Next]_vars
              PROVE  Stream!Next \/ UNCHANGED Stream!vars
  OBVIOUS
<1>1. CASE PushMessage \/ PushShort \/ PushUpdates \/ PushTooLong
  BY <1>1, PushesPublish DEF Stream!Next
<1>2. CASE Answer
  BY <1>2 DEF Answer, Stream!vars
<1>3. CASE Reading
  <2>1. Moves(tls, tls') /\ UNCHANGED <<file, srv, events>>
    BY <1>3, ReadingMoves
  <2>2. Stream!Take
    BY <2>1, MovesTake
  <2>. QED BY <2>2 DEF Stream!Next
<1>4. CASE HandleAnswer /\ answer.kind = "state"
  BY <1>4, StateTakes DEF Stream!Next
<1>5. CASE WriteStateFile
  <2>1. /\ UNCHANGED <<tls, events>>
        /\ file' = [pts |-> tls.pts, qts |-> tls.qts, seq |-> tls.seq]
    BY <1>5 DEF WriteStateFile
  <2>2. \A b \in Box : file'[b] = tls[b]
    BY <2>1 DEF Box
  <2>3. [b \in Box |-> file'[b]] = [b \in Box |-> tls[b]]
    BY <2>2
  <2>4. Stream!Save
    BY <2>1, <2>3 DEF Stream!Save
  <2>. QED BY <2>4 DEF Stream!Next
<1>6. CASE Restart
  <2>1. /\ UNCHANGED <<file, events>> /\ tls'.done = Nothing
        /\ tls'.pts = file.pts /\ tls'.qts = file.qts
    BY <1>6, RestartSeq DEF Restart
  <2>2. \A b \in Box : tls'[b] = file[b]
    BY <2>1 DEF Box
  <2>3. [b \in Box |-> tls'[b]] = [b \in Box |-> file[b]]
    BY <2>2
  <2>4. \A e \in events : e.box \in Box /\ e.at \in Number
    BY EventIs DEF SeqInv, IInv
  <2>5. {e \in events : tls'.done[e.box][e.at] > 0} = {}
    BY <2>1, <2>4 DEF Nothing
  <2>6. Stream!Again
    BY <2>1, <2>3, <2>5 DEF Stream!Again
  <2>. QED BY <2>6 DEF Stream!Next
<1>. QED
  BY <1>1, <1>2, <1>3, <1>4, <1>5, <1>6 DEF Next, Server, Reading

\* What keeping up with the server promises: two numbered streams, read front
\* to back by pushes, differences and slices in whatever order they come, from
\* the saved position on (updates.c, "Get difference" in queries.c, and
\* read_state_file and write_state_file).
THEOREM StreamImplemented == Spec => StreamSpec
  BY InitStream, NextStream, SeqInvariance, PTL DEF Spec, StreamSpec, Stream!Spec
=============================================================================
