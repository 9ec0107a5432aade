-------------------------- MODULE Moderation_proofs --------------------------
(* The list of groups agrees with the entries, and power is only held by who *)
(* was named for it, for any number of groups, users and requests under way. *)
EXTENDS Moderation, TLAPS

\* What holds of the file holds of every copy that a request keeps, with the
\* names of today: names are never taken back.
GoodFile(f, nm) ==
  /\ f.groups = {c \in Chat : f.entry[c] # NoEntry}
  /\ \A c \in Chat, u \in User : HasPower(f, c, u) => <<c, u>> \in nm

Naming == {"setadmin", "setowner", "promote"}

GoodRequest(r, nm) ==
  /\ r \in Request
  /\ r.cmd \in Stale => r.view \in File /\ GoodFile(r.view, nm)
  /\ r.cmd \in Naming => <<r.chat, r.target>> \in nm

PowerInv ==
  /\ TypeOK
  /\ GoodFile(file, named)
  /\ \A i \in 1 .. Len(pending) : GoodRequest(pending[i], named)

\* An entry whose powers are all named may be written into a registered group.
LEMMA WriteGood ==
  ASSUME NEW f \in File, NEW nm, GoodFile(f, nm),
         NEW c \in Chat, f.entry[c] # NoEntry, NEW e \in Entry,
         \A u \in User : u \in e.moderators \/ (e.byName /\ e.owner = u)
                           => <<c, u>> \in nm
  PROVE  /\ [f EXCEPT !.entry[c] = e] \in File
         /\ GoodFile([f EXCEPT !.entry[c] = e], nm)
<1> DEFINE g == [f EXCEPT !.entry[c] = e]
<1>1. f.entry \in [Chat -> Entry \cup {NoEntry}] /\ f.groups \in SUBSET Chat
  BY DEF File
<1>2. f = [entry |-> f.entry, groups |-> f.groups]
  BY DEF File
<1>3. g = [entry |-> [f.entry EXCEPT ![c] = e], groups |-> f.groups]
  BY <1>2
<1>4. g \in File
  BY <1>1, <1>3 DEF File
<1>5. e # NoEntry
  BY Absent
<1>6. \A d \in Chat : g.entry[d] = IF d = c THEN e ELSE f.entry[d]
  BY <1>1, <1>3
<1>7. g.groups = f.groups
  BY <1>3
<1> HIDE DEF g
<1>8. g.groups = {d \in Chat : g.entry[d] # NoEntry}
  BY <1>5, <1>6, <1>7 DEF GoodFile
<1>9. \A d \in Chat, u \in User : HasPower(g, d, u) => <<d, u>> \in nm
  BY <1>6 DEF GoodFile, HasPower
<1>10. g \in File /\ GoodFile(g, nm)
  BY <1>4, <1>8, <1>9 DEF GoodFile
<1> QED BY <1>10 DEF g

\* A group added to any good file, with an owner by number.
LEMMA AddGood ==
  ASSUME NEW f \in File, NEW nm, GoodFile(f, nm), NEW c \in Chat,
         NEW u \in User
  PROVE  LET g == [entry |-> [f.entry EXCEPT ![c] = FreshEntry(u)],
                   groups |-> f.groups \cup {c}]
         IN  g \in File /\ GoodFile(g, nm)
<1> DEFINE g == [entry |-> [f.entry EXCEPT ![c] = FreshEntry(u)],
                 groups |-> f.groups \cup {c}]
<1>1. f.entry \in [Chat -> Entry \cup {NoEntry}] /\ f.groups \in SUBSET Chat
  BY DEF File
<1>2. FreshEntry(u) \in Entry
  BY DEF FreshEntry, Entry, Wish
<1>3. FreshEntry(u) # NoEntry
  BY <1>2, Absent
<1>4. g \in File
  BY <1>1, <1>2 DEF File
<1>5. \A d \in Chat : g.entry[d] = IF d = c THEN FreshEntry(u) ELSE f.entry[d]
  BY <1>1
<1>6. g.groups = f.groups \cup {c}
  OBVIOUS
<1>7. \A v \in User : ~(v \in FreshEntry(u).moderators)
                      /\ ~FreshEntry(u).byName
  BY DEF FreshEntry
<1> HIDE DEF g
<1>8. g.groups = {d \in Chat : g.entry[d] # NoEntry}
  BY <1>3, <1>5, <1>6 DEF GoodFile
<1>9. \A d \in Chat, v \in User : HasPower(g, d, v) => <<d, v>> \in nm
  BY <1>5, <1>7 DEF GoodFile, HasPower
<1>10. g \in File /\ GoodFile(g, nm)
  BY <1>4, <1>8, <1>9 DEF GoodFile
<1> QED BY <1>10 DEF g

\* A group taken out of any good file.
LEMMA RemoveGood ==
  ASSUME NEW f \in File, NEW nm, GoodFile(f, nm), NEW c \in Chat
  PROVE  LET g == [entry |-> [f.entry EXCEPT ![c] = NoEntry],
                   groups |-> f.groups \ {c}]
         IN  g \in File /\ GoodFile(g, nm)
<1> DEFINE g == [entry |-> [f.entry EXCEPT ![c] = NoEntry],
                 groups |-> f.groups \ {c}]
<1>1. f.entry \in [Chat -> Entry \cup {NoEntry}] /\ f.groups \in SUBSET Chat
  BY DEF File
<1>2. g \in File
  BY <1>1 DEF File
<1>3. \A d \in Chat : g.entry[d] = IF d = c THEN NoEntry ELSE f.entry[d]
  BY <1>1
<1>4. g.groups = f.groups \ {c}
  OBVIOUS
<1> HIDE DEF g
<1>5. g.groups = {d \in Chat : g.entry[d] # NoEntry}
  BY <1>3, <1>4 DEF GoodFile
<1>6. \A d \in Chat, v \in User : HasPower(g, d, v) => <<d, v>> \in nm
  BY <1>3 DEF GoodFile, HasPower
<1>7. g \in File /\ GoodFile(g, nm)
  BY <1>2, <1>5, <1>6 DEF GoodFile
<1> QED BY <1>7 DEF g

\* Naming somebody more spoils neither a file nor a request.
LEMMA Monotone ==
  ASSUME NEW nm, NEW nm2, nm \subseteq nm2
  PROVE  /\ \A f : GoodFile(f, nm) => GoodFile(f, nm2)
         /\ \A r : GoodRequest(r, nm) => GoodRequest(r, nm2)
<1>1. \A f : GoodFile(f, nm) => GoodFile(f, nm2)
  BY DEF GoodFile
<1> QED BY <1>1 DEF GoodRequest

\* The requests left after one is answered are requests that were there.
LEMMA WithoutGood ==
  ASSUME NEW s, NEW i \in 1 .. Len(s), s \in Seq(Request)
  PROVE  /\ Without(s, i) \in Seq(Request)
         /\ Len(Without(s, i)) = Len(s) - 1
         /\ \A j \in 1 .. Len(Without(s, i)) :
              \E k \in 1 .. Len(s) : Without(s, i)[j] = s[k]
<1>1. Len(s) \in Nat /\ Len(s) >= 1
  OBVIOUS
<1>2. \A j \in 1 .. Len(s) - 1 : j \in 1 .. Len(s) /\ j + 1 \in 1 .. Len(s)
  BY <1>1
<1>3. \A k \in 1 .. Len(s) : s[k] \in Request
  OBVIOUS
<1>4. Len(s) - 1 \in Nat
  BY <1>1
<1>5. Without(s, i) \in [1 .. Len(s) - 1 -> Request]
  BY <1>2, <1>3 DEF Without
<1>6. Without(s, i) \in Seq(Request) /\ Len(Without(s, i)) = Len(s) - 1
  BY <1>4, <1>5
<1>7. \A j \in 1 .. Len(s) - 1 :
        \E k \in 1 .. Len(s) : Without(s, i)[j] = s[k]
  BY <1>2 DEF Without
<1> QED BY <1>6, <1>7

\* What a step must keep for the invariant to hold after it.
LEMMA Keeps ==
  ASSUME PowerInv,
         named \subseteq named', named' \subseteq Chat \X User,
         file' \in File, GoodFile(file', named'),
         mutes' \in [Chat -> SUBSET (Kind \X Mark)],
         silenced' \in [Chat -> SUBSET User],
         kicked' \in Kick \cup {NoKick},
         commands' \in 0 .. MaxCommands,
         pending' \in Seq(Request), Len(pending') <= MaxRequests,
         \A j \in 1 .. Len(pending') :
            \/ GoodRequest(pending'[j], named')
            \/ \E k \in 1 .. Len(pending) : pending'[j] = pending[k]
  PROVE  PowerInv'
<1>1. \A k \in 1 .. Len(pending) : GoodRequest(pending[k], named')
  BY Monotone DEF PowerInv
<1>2. \A j \in 1 .. Len(pending') : GoodRequest(pending'[j], named')
  BY <1>1
<1>3. TypeOK'
  BY DEF TypeOK
<1> QED BY <1>2, <1>3 DEF PowerInv

\* A question that is a good request may be asked.
LEMMA AskKeeps ==
  ASSUME PowerInv, NEW r, Ask(r), GoodRequest(r, named'),
         named \subseteq named', named' \subseteq Chat \X User,
         file' = file, silenced' = silenced,
         mutes' \in [Chat -> SUBSET (Kind \X Mark)]
  PROVE  PowerInv'
<1>1. TypeOK
  BY DEF PowerInv
<1>2. pending \in Seq(Request) /\ Len(pending) \in Nat /\ r \in Request
  BY <1>1 DEF TypeOK, GoodRequest
<1>3. pending' = Append(pending, r) /\ Len(pending) < MaxRequests
  BY DEF Ask
<1>4. /\ pending' \in Seq(Request) /\ Len(pending') = Len(pending) + 1
      /\ \A j \in 1 .. Len(pending) : pending'[j] = pending[j]
      /\ pending'[Len(pending) + 1] = r
  BY <1>2, <1>3
<1>5. \A j \in 1 .. Len(pending') :
        j \in 1 .. Len(pending) \/ j = Len(pending) + 1
  BY <1>2, <1>4
<1>6. Len(pending') <= MaxRequests
  BY <1>2, <1>3, <1>4, Bounds
<1>7. kicked' = NoKick /\ commands' \in 0 .. MaxCommands
  BY <1>1, Bounds DEF Ask, Quiet, Command, TypeOK
<1>8. file' \in File /\ GoodFile(file', named')
  BY <1>1, Monotone DEF PowerInv, TypeOK
<1>9. silenced' \in [Chat -> SUBSET User] /\ kicked' \in Kick \cup {NoKick}
  BY <1>1, <1>7 DEF TypeOK
<1>10. \A j \in 1 .. Len(pending') :
         \/ GoodRequest(pending'[j], named')
         \/ \E k \in 1 .. Len(pending) : pending'[j] = pending[k]
  BY <1>4, <1>5
<1> QED BY <1>4, <1>6, <1>7, <1>8, <1>9, <1>10, Keeps

\* An answer may write any good file.
LEMMA AnswerKeeps ==
  ASSUME PowerInv, NEW i, NEW cmds, Take(i, cmds),
         file' \in File, GoodFile(file', named),
         mutes' \in [Chat -> SUBSET (Kind \X Mark)],
         silenced' \in [Chat -> SUBSET User],
         kicked' \in Kick \cup {NoKick}
  PROVE  PowerInv'
<1>1. TypeOK
  BY DEF PowerInv
<1>2. pending \in Seq(Request) /\ i \in 1 .. Len(pending)
  BY <1>1 DEF TypeOK, Take
<1>3. pending' = Without(pending, i) /\ named' = named /\ commands' = commands
  BY DEF Take
<1>4. /\ pending' \in Seq(Request) /\ Len(pending') = Len(pending) - 1
      /\ \A j \in 1 .. Len(pending') :
           \E k \in 1 .. Len(pending) : pending'[j] = pending[k]
  BY <1>2, <1>3, WithoutGood
<1>5. Len(pending') <= MaxRequests
  BY <1>1, <1>2, <1>4, Bounds DEF TypeOK
<1>6. named \subseteq named' /\ named' \subseteq Chat \X User
      /\ commands' \in 0 .. MaxCommands /\ GoodFile(file', named')
  BY <1>1, <1>3 DEF TypeOK
<1> QED BY <1>4, <1>5, <1>6, Keeps

\* A command that takes effect at once may write any good file too.
LEMMA NowKeeps ==
  ASSUME PowerInv, Command, pending' = pending, named' = named,
         file' \in File, GoodFile(file', named),
         mutes' \in [Chat -> SUBSET (Kind \X Mark)],
         silenced' \in [Chat -> SUBSET User],
         kicked' \in Kick \cup {NoKick}
  PROVE  PowerInv'
<1>1. TypeOK
  BY DEF PowerInv
<1>2. commands' \in 0 .. MaxCommands
  BY <1>1, Bounds DEF TypeOK, Command
<1>3. pending' \in Seq(Request) /\ Len(pending') <= MaxRequests
      /\ named \subseteq named' /\ named' \subseteq Chat \X User
  BY <1>1 DEF TypeOK
<1>4. \A j \in 1 .. Len(pending') :
        \E k \in 1 .. Len(pending) : pending'[j] = pending[k]
  OBVIOUS
<1>5. GoodFile(file', named')
  OBVIOUS
<1> QED BY <1>2, <1>3, <1>4, <1>5, Keeps

\* A request without a copy of the file, that names nobody or somebody named.
LEMMA PlainGood ==
  ASSUME NEW cmd \in Plain, NEW u \in User, NEW c \in Chat, NEW t \in User,
         NEW nm, cmd \in Naming => <<c, t>> \in nm
  PROVE  GoodRequest(Question(cmd, u, c, t, NoView), nm)
BY DEF GoodRequest, Question, Request, Plain, Stale

\* A request that keeps the file of this moment.
LEMMA StaleGood ==
  ASSUME NEW cmd \in Stale, NEW u \in User, NEW c \in Chat, NEW nm,
         file \in File, GoodFile(file, nm)
  PROVE  GoodRequest(Question(cmd, u, c, u, file), nm)
BY DEF GoodRequest, Question, Request, Naming, Stale

\* A command that names nobody leaves one good request more.
LEMMA EnquireKeeps ==
  ASSUME PowerInv, NEW cmd \in Plain \ Naming, NEW u \in User,
         NEW c \in Chat, NEW t \in User, Enquire(cmd, u, c, t)
  PROVE  PowerInv'
<1>1. GoodRequest(Question(cmd, u, c, t, NoView), named')
  BY PlainGood
<1>2. /\ file' = file /\ mutes' = mutes /\ silenced' = silenced
      /\ named' = named /\ Ask(Question(cmd, u, c, t, NoView))
  BY DEF Enquire
<1>3. named' \subseteq Chat \X User
      /\ mutes' \in [Chat -> SUBSET (Kind \X Mark)]
  BY <1>2 DEF PowerInv, TypeOK
<1> QED BY <1>1, <1>2, <1>3, AskKeeps

\* A command that names somebody is given by one entitled to name.
LEMMA NamingKeeps ==
  ASSUME PowerInv, NEW cmd \in Naming, NEW u \in User,
         NEW c \in Chat, NEW t \in User, IsOwner(u, c),
         EnquireNaming(cmd, u, c, t)
  PROVE  PowerInv'
<1>1. named' = named \cup {<<c, t>>}
  BY DEF EnquireNaming, Name
<1>2. cmd \in Plain
  BY DEF Naming, Plain
<1>3. GoodRequest(Question(cmd, u, c, t, NoView), named')
  <2>1. <<c, t>> \in named'
    BY <1>1
  <2> QED BY <1>2, <2>1, PlainGood
<1>4. /\ file' = file /\ mutes' = mutes /\ silenced' = silenced
      /\ Ask(Question(cmd, u, c, t, NoView))
  BY DEF EnquireNaming
<1>5. named \subseteq named' /\ named' \subseteq Chat \X User
      /\ mutes' \in [Chat -> SUBSET (Kind \X Mark)]
  BY <1>1, <1>4 DEF PowerInv, TypeOK
<1> QED BY <1>3, <1>4, <1>5, AskKeeps

\* Whatever command a user gives that waits for an answer.
LEMMA AskOneKeeps ==
  ASSUME PowerInv, NEW u \in User, NEW c \in Chat, AskOne(u, c)
  PROVE  PowerInv'
<1> USE DEF Plain, Naming
<1>1. file \in File /\ GoodFile(file, named)
  BY DEF PowerInv, TypeOK
<1>2. mutes \in [Chat -> SUBSET (Kind \X Mark)] /\ named \subseteq Chat \X User
  BY DEF PowerInv, TypeOK
<1>3. CASE Add(u, c)
  <2>1. GoodRequest(Question("add", u, c, u, file), named)
    BY <1>1, StaleGood DEF Stale
  <2>2. mutes' \in [Chat -> SUBSET (Kind \X Mark)]
    BY <1>2, <1>3 DEF Add, Mark
  <2> QED BY <1>2, <1>3, <2>1, <2>2, AskKeeps DEF Add
<1>4. CASE Remove(u, c)
  <2>1. GoodRequest(Question("remove", u, c, u, file), named)
    BY <1>1, StaleGood DEF Stale
  <2>2. mutes' \in [Chat -> SUBSET (Kind \X Mark)]
    BY <1>2, <1>4 DEF Remove
  <2> QED BY <1>2, <1>4, <2>1, <2>2, AskKeeps DEF Remove
<1>5. CASE NewLink(u, c)
  <2>1. GoodRequest(Question("link", u, c, u, file), named)
    BY <1>1, StaleGood DEF Stale
  <2> QED BY <1>2, <1>5, <2>1, AskKeeps DEF NewLink
<1>6. CASE SendPhoto(u, c)
  BY <1>6, EnquireKeeps DEF SendPhoto
<1>7. ASSUME NEW t \in User, NEW cmd \in {"block", "blockJoin", "blockList"},
             AskKick(cmd, u, c, t)
      PROVE  PowerInv'
  BY <1>7, EnquireKeeps DEF AskKick
<1>8. ASSUME NEW t \in User, AskMute(u, c, t) PROVE PowerInv'
  BY <1>8, EnquireKeeps DEF AskMute
<1>9. ASSUME NEW t \in User, AskSetAdmin(u, c, t) PROVE PowerInv'
  BY <1>9, NamingKeeps DEF AskSetAdmin
<1>10. ASSUME NEW t \in User, AskDemoteAdmin(u, c, t) PROVE PowerInv'
  BY <1>10, EnquireKeeps DEF AskDemoteAdmin
<1>11. ASSUME NEW t \in User, AskSetOwner(u, c, t) PROVE PowerInv'
  BY <1>11, NamingKeeps DEF AskSetOwner
<1>12. ASSUME NEW t \in User, AskPromote(u, c, t) PROVE PowerInv'
  BY <1>12, NamingKeeps DEF AskPromote
<1>13. ASSUME NEW t \in User, AskDemote(u, c, t) PROVE PowerInv'
  BY <1>13, EnquireKeeps DEF AskDemote
<1> QED BY <1>3, <1>4, <1>5, <1>6, <1>7, <1>8, <1>9, <1>10, <1>11, <1>12,
           <1>13 DEF AskOne

\* What a kick leaves behind is a kick or none.
LEMMA KickTyped ==
  ASSUME NEW u \in User, NEW c \in Chat, NEW by \in User,
         NEW how \in {"rank", "join", "self", "owners"},
         NEW safe, KickUser(u, c, by, how, safe)
  PROVE  kicked' \in Kick \cup {NoKick}
BY DEF KickUser, Kick

\* A kick that the rank allowed is a kick or none.
LEMMA JudgedTyped ==
  ASSUME NEW r \in Request, NEW u \in User, KickJudged(r, u)
  PROVE  kicked' \in Kick \cup {NoKick}
<1>1. r.chat \in Chat /\ r.from \in User
  BY DEF Request
<1> QED BY <1>1, KickTyped DEF KickJudged, Quiet

\* One field of the entry of c, written into the file of this moment.
LEMMA FieldGood ==
  ASSUME PowerInv, NEW c \in Chat, Registered(c), NEW e \in Entry,
         \A u \in User : u \in e.moderators \/ (e.byName /\ e.owner = u)
                           => <<c, u>> \in named,
         Write(c, e)
  PROVE  file' \in File /\ GoodFile(file', named)
<1>1. file \in File /\ GoodFile(file, named) /\ file.entry[c] # NoEntry
  BY DEF PowerInv, TypeOK, Registered
<1> QED BY <1>1, WriteGood DEF Write

\* The entry of a registered group, and that its powers are named.
LEMMA EntryGood ==
  ASSUME PowerInv, NEW c \in Chat, Registered(c)
  PROVE  /\ file.entry[c] \in Entry
         /\ \A u \in User :
              u \in file.entry[c].moderators
                \/ (file.entry[c].byName /\ file.entry[c].owner = u)
              => <<c, u>> \in named
<1>1. file \in File /\ GoodFile(file, named) /\ file.entry[c] # NoEntry
  BY DEF PowerInv, TypeOK, Registered
<1>2. file.entry[c] \in Entry
  BY <1>1 DEF File
<1> QED BY <1>1, <1>2 DEF GoodFile, HasPower

\* promote2 of somebody named adds no power that is not named.
LEMMA PromoteGood ==
  ASSUME PowerInv, NEW c \in Chat, NEW u \in User, <<c, u>> \in named,
         Promote2(c, u)
  PROVE  file' \in File /\ GoodFile(file', named)
<1>1. CASE Registered(c) /\ u \notin file.entry[c].moderators
  <2> DEFINE e == [file.entry[c] EXCEPT !["moderators"] =
                                            file.entry[c].moderators \cup {u}]
  <2>1. file.entry[c] \in Entry
    BY <1>1, EntryGood
  <2>2. e \in Entry /\ e.moderators = file.entry[c].moderators \cup {u}
        /\ e.byName = file.entry[c].byName /\ e.owner = file.entry[c].owner
    BY <2>1 DEF Entry
  <2>3. Write(c, e)
    BY <1>1 DEF Promote2, WriteField
  <2> HIDE DEF e
  <2> QED BY <1>1, <2>2, <2>3, EntryGood, FieldGood
<1>2. CASE ~(Registered(c) /\ u \notin file.entry[c].moderators)
  BY <1>2 DEF Promote2, PowerInv, TypeOK
<1> QED BY <1>1, <1>2

\* demote2 takes power away.
LEMMA DemoteGood ==
  ASSUME PowerInv, NEW c \in Chat, NEW u \in User, Demote2(c, u)
  PROVE  file' \in File /\ GoodFile(file', named)
<1>1. CASE Registered(c) /\ u \in file.entry[c].moderators
  <2> DEFINE e == [file.entry[c] EXCEPT !["moderators"] =
                                            file.entry[c].moderators \ {u}]
  <2>1. file.entry[c] \in Entry
    BY <1>1, EntryGood
  <2>2. e \in Entry /\ e.moderators = file.entry[c].moderators \ {u}
        /\ e.byName = file.entry[c].byName /\ e.owner = file.entry[c].owner
    BY <2>1 DEF Entry
  <2>3. Write(c, e)
    BY <1>1 DEF Demote2, WriteField
  <2> HIDE DEF e
  <2> QED BY <1>1, <2>2, <2>3, EntryGood, FieldGood
<1>2. CASE ~(Registered(c) /\ u \in file.entry[c].moderators)
  BY <1>2 DEF Demote2, PowerInv, TypeOK
<1> QED BY <1>1, <1>2

\* An owner who was named may be written into the entry.
LEMMA OwnerGood ==
  ASSUME PowerInv, NEW c \in Chat, NEW u \in User, <<c, u>> \in named,
         SetOwner(c, u)
  PROVE  file' \in File /\ GoodFile(file', named)
<1>1. CASE Registered(c)
  <2> DEFINE e == [file.entry[c] EXCEPT !.owner = u, !.byName = TRUE]
  <2>1. file.entry[c] \in Entry
    BY <1>1, EntryGood
  <2>2. e \in Entry /\ e.moderators = file.entry[c].moderators
        /\ e.byName = TRUE /\ e.owner = u
    BY <2>1 DEF Entry
  <2>3. Write(c, e)
    BY <1>1 DEF SetOwner
  <2> HIDE DEF e
  <2> QED BY <1>1, <2>2, <2>3, EntryGood, FieldGood
<1>2. CASE ~Registered(c)
  BY <1>2 DEF SetOwner, PowerInv, TypeOK
<1> QED BY <1>1, <1>2

\* A setting that is no power.
LEMMA SettingGood ==
  ASSUME PowerInv, NEW c \in Chat, Registered(c), NEW field, NEW value,
         WriteField(c, field, value),
         \/ field = "on" /\ value \in SUBSET Lock
         \/ field \in {"link", "photo"} /\ value \in Wish
         \/ field = "text" /\ value \in SUBSET Text
         \/ field = "moderators" /\ value = {}
  PROVE  file' \in File /\ GoodFile(file', named)
<1> DEFINE e == [file.entry[c] EXCEPT ![field] = value]
<1>1. file.entry[c] \in Entry
  BY EntryGood
<1>2. /\ e \in Entry
      /\ e.moderators = file.entry[c].moderators \/ e.moderators = {}
      /\ e.byName = file.entry[c].byName /\ e.owner = file.entry[c].owner
  BY <1>1 DEF Entry
<1>3. Write(c, e)
  BY DEF WriteField
<1> HIDE DEF e
<1> QED BY <1>2, <1>3, EntryGood, FieldGood

\* The request that is answered: a good request of known users and groups.
LEMMA TakenGood ==
  ASSUME PowerInv, NEW i, NEW cmds, Take(i, cmds)
  PROVE  /\ pending[i] \in Request /\ GoodRequest(pending[i], named)
         /\ pending[i].cmd \in cmds
         /\ pending[i].chat \in Chat /\ pending[i].target \in User
         /\ pending[i].from \in User
<1>1. i \in 1 .. Len(pending) /\ pending[i].cmd \in cmds
  BY DEF Take
<1>2. GoodRequest(pending[i], named)
  BY <1>1 DEF PowerInv
<1> QED BY <1>1, <1>2 DEF GoodRequest, Request

\* An answer that writes a good file and touches nothing else.
LEMMA FileKeeps ==
  ASSUME PowerInv, NEW i, NEW cmds, Take(i, cmds),
         file' \in File, GoodFile(file', named), Quiet, OnlyFile
  PROVE  PowerInv'
<1>1. /\ mutes' \in [Chat -> SUBSET (Kind \X Mark)]
      /\ silenced' \in [Chat -> SUBSET User]
      /\ kicked' \in Kick \cup {NoKick}
  BY DEF OnlyFile, Quiet, PowerInv, TypeOK
<1> QED BY <1>1, AnswerKeeps

\* An answer that kicks, or not, and touches nothing else.
LEMMA KickKeeps ==
  ASSUME PowerInv, NEW i, NEW cmds, Take(i, cmds),
         kicked' \in Kick \cup {NoKick}, UNCHANGED <<file, mutes, silenced>>
  PROVE  PowerInv'
<1>1. /\ mutes' \in [Chat -> SUBSET (Kind \X Mark)]
      /\ silenced' \in [Chat -> SUBSET User]
      /\ file' \in File /\ GoodFile(file', named)
  BY DEF PowerInv, TypeOK
<1> QED BY <1>1, AnswerKeeps

\* Whichever request is answered, and however.
LEMMA AnswerOneKeeps ==
  ASSUME PowerInv, NEW i \in 1 .. MaxRequests, Answer(i)
  PROVE  PowerInv'
<1>1. file \in File /\ GoodFile(file, named)
      /\ mutes \in [Chat -> SUBSET (Kind \X Mark)]
      /\ silenced \in [Chat -> SUBSET User]
  BY DEF PowerInv, TypeOK
<1>2. CASE Fails(i)
  BY <1>2, <1>1, KickKeeps DEF Fails, Quiet
<1>3. CASE Removed(i)
  <2>1. Take(i, {"remove"}) /\ Quiet /\ OnlyFile
    BY <1>3 DEF Removed
  <2>2. pending[i].view \in File /\ GoodFile(pending[i].view, named)
        /\ pending[i].chat \in Chat
    BY <2>1, TakenGood DEF GoodRequest, Stale
  <2>3. file' \in File /\ GoodFile(file', named)
    BY <1>3, <2>2, RemoveGood DEF Removed, CheckMemberSuperrem
  <2> QED BY <2>1, <2>3, FileKeeps
<1>4. CASE KickReplied(i)
  <2>1. Take(i, {"block"}) /\ UNCHANGED <<file, mutes, silenced>>
    BY <1>4 DEF KickReplied
  <2>2. kicked' \in Kick \cup {NoKick}
    BY <1>4, <2>1, TakenGood, JudgedTyped DEF KickReplied
  <2> QED BY <2>1, <2>2, KickKeeps
<1>5. CASE KickJoined(i)
  <2>1. Take(i, {"blockJoin"}) /\ UNCHANGED <<file, mutes, silenced>>
    BY <1>5 DEF KickJoined
  <2>2. kicked' \in Kick \cup {NoKick}
    BY <1>5, <2>1, TakenGood, KickTyped DEF KickJoined
  <2> QED BY <2>1, <2>2, KickKeeps
<1>6. CASE OwnerSet(i)
  <2>1. Take(i, {"setowner"}) /\ Quiet /\ OnlyFile
    BY <1>6 DEF OwnerSet
  <2>2. <<pending[i].chat, pending[i].target>> \in named
        /\ pending[i].chat \in Chat /\ pending[i].target \in User
    BY <2>1, TakenGood DEF GoodRequest, Naming
  <2>3. file' \in File /\ GoodFile(file', named)
    BY <1>6, <2>2, OwnerGood DEF OwnerSet
  <2> QED BY <2>1, <2>3, FileKeeps
<1>7. CASE Promoted(i)
  <2>1. Take(i, {"promote"}) /\ Quiet /\ OnlyFile
    BY <1>7 DEF Promoted
  <2>2. <<pending[i].chat, pending[i].target>> \in named
        /\ pending[i].chat \in Chat /\ pending[i].target \in User
    BY <2>1, TakenGood DEF GoodRequest, Naming
  <2>3. file' \in File /\ GoodFile(file', named)
    BY <1>7, <2>2, PromoteGood DEF Promoted
  <2> QED BY <2>1, <2>3, FileKeeps
<1>8. CASE Demoted(i)
  <2>1. Take(i, {"demote"}) /\ Quiet /\ OnlyFile
    BY <1>8 DEF Demoted
  <2>2. file' \in File /\ GoodFile(file', named)
    BY <1>8, <2>1, TakenGood, DemoteGood DEF Demoted
  <2> QED BY <2>1, <2>2, FileKeeps
<1>9. CASE AdminDemoted(i)
  <2>1. Take(i, {"demoteadmin"}) /\ Quiet /\ OnlyFile
    BY <1>9 DEF AdminDemoted
  <2>2. file' \in File /\ GoodFile(file', named)
    BY <1>1, <1>9, <2>1, TakenGood, DemoteGood DEF AdminDemoted
  <2> QED BY <2>1, <2>2, FileKeeps
<1>10. CASE MuteToggled(i)
  <2>1. Take(i, {"mute"}) /\ Quiet /\ UNCHANGED <<file, mutes>>
    BY <1>10 DEF MuteToggled
  <2>2. pending[i].chat \in Chat /\ pending[i].target \in User
    BY <2>1, TakenGood
  <2>3. silenced' \in [Chat -> SUBSET User]
    BY <1>1, <1>10, <2>2 DEF MuteToggled
  <2>4. kicked' \in Kick \cup {NoKick}
    BY <2>1 DEF Quiet
  <2> QED BY <1>1, <2>1, <2>3, <2>4, AnswerKeeps
<1>11. ASSUME NEW success \in BOOLEAN, Linked(i, success) PROVE PowerInv'
  <2>1. Take(i, {"link"}) /\ Quiet /\ OnlyFile
    BY <1>11 DEF Linked
  <2> DEFINE v == pending[i].view
             c == pending[i].chat
             e == [v.entry[c] EXCEPT !.link =
                                        IF success THEN "set" ELSE "none"]
  <2>2. v \in File /\ GoodFile(v, named) /\ c \in Chat
    BY <2>1, TakenGood DEF GoodRequest, Stale
  <2>3. IF v.entry[c] = NoEntry THEN file' = file
        ELSE file' = [v EXCEPT !.entry[c] = e]
    BY <1>11 DEF Linked, CallbackLink
  <2> HIDE DEF v, c
  <2>4. CASE v.entry[c] # NoEntry
    <3>1. v.entry[c] \in Entry
      BY <2>2, <2>4 DEF File
    <3>2. e \in Entry /\ e.moderators = v.entry[c].moderators
          /\ e.byName = v.entry[c].byName /\ e.owner = v.entry[c].owner
      BY <3>1 DEF Entry, Wish
    <3>3. \A u \in User : u \in v.entry[c].moderators
                  \/ (v.entry[c].byName /\ v.entry[c].owner = u)
                            => <<c, u>> \in named
      BY <2>2, <2>4 DEF GoodFile, HasPower
    <3> HIDE DEF e
    <3>4. file' \in File /\ GoodFile(file', named)
      BY <2>2, <2>3, <2>4, <3>2, <3>3, WriteGood
    <3> QED BY <2>1, <3>4, FileKeeps
  <2>5. CASE v.entry[c] = NoEntry
    BY <1>1, <2>1, <2>3, <2>5, FileKeeps
  <2> QED BY <2>4, <2>5
<1>12. ASSUME NEW success \in BOOLEAN, PhotoLoaded(i, success)
       PROVE  PowerInv'
  <2>1. Take(i, {"photo"}) /\ Quiet /\ OnlyFile
    BY <1>12 DEF PhotoLoaded
  <2>2. pending[i].chat \in Chat
    BY <2>1, TakenGood
  <2>3. file' \in File /\ GoodFile(file', named)
    BY <1>1, <1>12, <2>2, SettingGood
       DEF PhotoLoaded, SetSupergroupPhoto, Wish
  <2> QED BY <2>1, <2>3, FileKeeps
<1>13. ASSUME NEW u \in User, Added(i, u) PROVE PowerInv'
  <2>1. Take(i, {"add"}) /\ Quiet /\ OnlyFile
    BY <1>13 DEF Added
  <2>2. pending[i].view \in File /\ GoodFile(pending[i].view, named)
        /\ pending[i].chat \in Chat
    BY <2>1, TakenGood DEF GoodRequest, Stale
  <2>3. file' \in File /\ GoodFile(file', named)
    BY <1>13, <2>2, AddGood DEF Added, CheckMemberSuper
  <2> QED BY <2>1, <2>3, FileKeeps
<1>14. ASSUME NEW u \in User, KickListed(i, u) PROVE PowerInv'
  <2>1. Take(i, {"blockList"}) /\ UNCHANGED <<file, mutes, silenced>>
    BY <1>14 DEF KickListed
  <2>2. kicked' \in Kick \cup {NoKick}
    BY <1>14, <2>1, TakenGood, JudgedTyped DEF KickListed
  <2> QED BY <2>1, <2>2, KickKeeps
<1>15. ASSUME NEW u \in User, AdminSet(i, u) PROVE PowerInv'
  <2>1. Take(i, {"setadmin"}) /\ Quiet /\ OnlyFile
    BY <1>15 DEF AdminSet
  <2>2. <<pending[i].chat, pending[i].target>> \in named
        /\ pending[i].chat \in Chat
    BY <2>1, TakenGood DEF GoodRequest, Naming
  <2>3. file' \in File /\ GoodFile(file', named)
    BY <1>1, <1>15, <2>2, PromoteGood DEF AdminSet
  <2> QED BY <2>1, <2>3, FileKeeps
<1> QED BY <1>2, <1>3, <1>4, <1>5, <1>6, <1>7, <1>8, <1>9, <1>10, <1>11,
           <1>12, <1>13, <1>14, <1>15 DEF Answer

\* A setting written at once.
LEMMA SetNowKeeps ==
  ASSUME PowerInv, NEW u \in User, NEW c \in Chat, NEW needed, NEW field,
         NEW value, SetNow(u, c, needed, field, value),
         \/ field = "on" /\ value \in SUBSET Lock
         \/ field \in {"link", "photo"} /\ value \in Wish
         \/ field = "text" /\ value \in SUBSET Text
         \/ field = "moderators" /\ value = {}
  PROVE  PowerInv'
<1>1. file' \in File /\ GoodFile(file', named)
  BY SettingGood DEF SetNow
<1>2. /\ mutes' \in [Chat -> SUBSET (Kind \X Mark)]
      /\ silenced' \in [Chat -> SUBSET User]
      /\ kicked' \in Kick \cup {NoKick}
  BY DEF SetNow, OnlyFile, Quiet, PowerInv, TypeOK
<1> QED BY <1>1, <1>2, NowKeeps DEF SetNow

\* Whatever setting a user changes at once.
LEMMA SetOneKeeps ==
  ASSUME PowerInv, NEW u \in User, NEW c \in Chat,
         SetOne(u, c) \/ OwnersOne(u, c)
  PROVE  PowerInv'
<1>1. Registered(c) => file.entry[c].on \in SUBSET Lock
                       /\ file.entry[c].text \in SUBSET Text
  BY EntryGood DEF Entry
<1>2. ASSUME NEW k \in Lock,
             \/ LockGroup(u, c, k) \/ UnlockGroup(u, c, k)
             \/ OwnersLock(u, c, k) \/ OwnersUnlock(u, c, k)
      PROVE  PowerInv'
  BY <1>1, <1>2, SetNowKeeps
     DEF LockGroup, UnlockGroup, OwnersLock, OwnersUnlock
<1>3. CASE WaitForLink(u, c) \/ LinkArrives(u, c) \/ WaitForPhoto(u, c)
  BY <1>3, SetNowKeeps DEF WaitForLink, LinkArrives, WaitForPhoto, Wish
<1>4. ASSUME NEW k \in Text,
             \/ SetText(u, c, k) \/ CleanText(u, c, k)
             \/ OwnersSetText(u, c, k) \/ OwnersCleanText(u, c, k)
      PROVE  PowerInv'
  BY <1>1, <1>4, SetNowKeeps
     DEF SetText, CleanText, OwnersSetText, OwnersCleanText
<1>5. CASE CleanModlist(u, c) \/ OwnersClean(u, c)
  BY <1>5, SetNowKeeps DEF CleanModlist, OwnersClean
<1>6. file \in File /\ GoodFile(file, named)
      /\ mutes \in [Chat -> SUBSET (Kind \X Mark)]
      /\ silenced \in [Chat -> SUBSET User]
  BY DEF PowerInv, TypeOK
<1>7. CASE Leave(u, c)
  <2>1. kicked' \in Kick
    BY <1>7 DEF Leave, Kick
  <2> QED BY <1>6, <1>7, <2>1, NowKeeps DEF Leave
<1>8. CASE OwnersCleanMutelist(c)
  <2>1. silenced' \in [Chat -> SUBSET User]
    BY <1>6, <1>8 DEF OwnersCleanMutelist
  <2> QED BY <1>6, <1>8, <2>1, NowKeeps DEF OwnersCleanMutelist, Quiet
<1>9. ASSUME NEW t \in User, OwnersKick(u, c, t) PROVE PowerInv'
  <2>1. kicked' \in Kick \cup {NoKick}
    BY <1>9, KickTyped DEF OwnersKick
  <2> QED BY <1>6, <1>9, <2>1, NowKeeps DEF OwnersKick
<1> QED BY <1>2, <1>3, <1>4, <1>5, <1>7, <1>8, <1>9 DEF SetOne, OwnersOne

\* Muting touches the redis sets alone.
LEMMA MuteOneKeeps ==
  ASSUME PowerInv, NEW u \in User, NEW c \in Chat, MuteOne(u, c)
  PROVE  PowerInv'
<1>1. file \in File /\ GoodFile(file, named)
      /\ mutes \in [Chat -> SUBSET (Kind \X Mark)]
      /\ silenced \in [Chat -> SUBSET User]
  BY DEF PowerInv, TypeOK
<1>2. ASSUME NEW needed, NEW marks \in SUBSET (Kind \X Mark),
             MuteNow(c, needed, marks)
      PROVE  PowerInv'
  <2>1. mutes' \in [Chat -> SUBSET (Kind \X Mark)]
    BY <1>1, <1>2 DEF MuteNow
  <2> QED BY <1>1, <1>2, <2>1, NowKeeps DEF MuteNow, Quiet
<1>3. ASSUME NEW needed, NEW users \in SUBSET User,
             SilenceNow(c, needed, users)
      PROVE  PowerInv'
  <2>1. silenced' \in [Chat -> SUBSET User]
    BY <1>1, <1>3 DEF SilenceNow
  <2> QED BY <1>1, <1>3, <2>1, NowKeeps DEF SilenceNow, Quiet
<1>4. mutes[c] \in SUBSET (Kind \X Mark) /\ silenced[c] \in SUBSET User
  BY <1>1
<1>5. ASSUME NEW k \in Kind, Mute(u, c, k) PROVE PowerInv'
  <2>1. (mutes[c] \ {<<k, "no">>}) \cup {<<k, "yes">>}
          \in SUBSET (Kind \X Mark)
    BY <1>4 DEF Mark
  <2> QED BY <1>2, <1>5, <2>1 DEF Mute
<1>6. ASSUME NEW k \in Kind, Unmute(u, c, k) PROVE PowerInv'
  <2>1. (mutes[c] \ {<<k, "yes">>}) \cup {<<k, "no">>}
          \in SUBSET (Kind \X Mark)
    BY <1>4 DEF Mark
  <2> QED BY <1>2, <1>6, <2>1 DEF Unmute
<1>7. CASE ListMutes(u, c)
  <2>1. mutes[c] \cup (Kind \X {"no"}) \in SUBSET (Kind \X Mark)
    BY <1>4 DEF Mark
  <2> QED BY <1>2, <1>7, <2>1 DEF ListMutes
<1>8. CASE CleanMutelist(u, c)
  BY <1>3, <1>8 DEF CleanMutelist
<1>9. ASSUME NEW t \in User, MuteUser(u, c, t) PROVE PowerInv'
  <2>0. silenced[c] \ {t} \in SUBSET User
    BY <1>4
  <2>1. silenced[c] \cup {t} \in SUBSET User
    BY <1>4
  <2> QED BY <1>3, <1>9, <2>0, <2>1 DEF MuteUser
<1> QED BY <1>5, <1>6, <1>7, <1>8, <1>9 DEF MuteOne

\* The invariant holds from the empty file on, in every step.
LEMMA PowerInductive == Spec => []PowerInv
<1>1. Init => PowerInv
  <2> SUFFICES ASSUME Init PROVE PowerInv
    OBVIOUS
  <2>1. file \in File /\ \A c \in Chat : file.entry[c] = NoEntry
    BY DEF Init, File
  <2>2. GoodFile(file, named)
    BY <2>1 DEF Init, GoodFile, HasPower
  <2>3. pending \in Seq(Request) /\ Len(pending) = 0
    BY DEF Init
  <2>4. TypeOK
    BY <2>1, <2>3, Bounds DEF Init, TypeOK
  <2> QED BY <2>2, <2>3, <2>4 DEF PowerInv
<1>2. PowerInv /\ [Next]_vars => PowerInv'
  <2> SUFFICES ASSUME PowerInv, [Next]_vars PROVE PowerInv'
    OBVIOUS
  <2>1. ASSUME NEW u \in User \ {Us}, NEW c \in Chat,
               \/ AskOne(u, c) \/ SetOne(u, c)
               \/ MuteOne(u, c) \/ OwnersOne(u, c)
        PROVE  PowerInv'
    BY <2>1, AskOneKeeps, SetOneKeeps, MuteOneKeeps
  <2>2. ASSUME NEW i \in 1 .. MaxRequests, Answer(i) PROVE PowerInv'
    BY <2>2, AnswerOneKeeps
  <2>3. CASE Restart
    <3>1. pending' = <<>> /\ Len(pending') = 0 /\ pending' \in Seq(Request)
      BY <2>3 DEF Restart
    <3>2. /\ named' = named /\ file' = file /\ mutes' = mutes
          /\ silenced' = silenced /\ commands' = commands /\ kicked' = NoKick
      BY <2>3 DEF Restart, Quiet
    <3> QED BY <3>1, <3>2, Bounds, Keeps DEF PowerInv, TypeOK
  <2>4. CASE UNCHANGED vars
    BY <2>4 DEF vars, PowerInv, TypeOK, GoodFile, HasPower, GoodRequest
  <2> QED BY <2>1, <2>2, <2>3, <2>4 DEF Next
<1> QED BY <1>1, <1>2, PTL DEF Spec

\* The list of groups and the entries name the same chats, however old the
\* file that an answer writes back (TypeOK and GroupsHaveEntries).
THEOREM GroupsAgree == Spec => [](TypeOK /\ GroupsHaveEntries)
<1>1. PowerInv => TypeOK /\ GroupsHaveEntries
  BY DEF PowerInv, GoodFile, GroupsHaveEntries
<1> QED BY <1>1, PowerInductive, PTL

\* Nobody but staff has power in a group for which nobody entitled named him:
\* neither a late answer nor an old file written back gives it.
THEOREM NoPowerUnnamed == Spec => []PowerIsGranted
<1>1. PowerInv => PowerIsGranted
  BY DEF PowerInv, GoodFile, PowerIsGranted
<1> QED BY <1>1, PowerInductive, PTL

\* What a step that judges ranks may kick.
Spared ==
  kicked'.how = "rank" =>
    /\ kicked'.user \notin Admin \cup {Us, kicked'.by}
    /\ IsMomod(kicked'.user, kicked'.chat) => IsAdmin(kicked'.by)

\* A kick that is judged spares the ranks of the moment of the answer.
LEMMA JudgedSpares ==
  ASSUME NEW r, NEW u, KickJudged(r, u) PROVE Spared
<1>1. CASE MayKick(r, u) /\ u # Us /\ u \notin Admin
  <2>1. kicked' = [user |-> u, chat |-> r.chat, by |-> r.from, how |-> "rank"]
    BY <1>1 DEF KickJudged, KickUser
  <2>2. /\ kicked'.user = u /\ kicked'.chat = r.chat
        /\ kicked'.by = r.from
    BY <2>1
  <2> QED BY <1>1, <2>2 DEF MayKick, Spared
<1>2. CASE ~(MayKick(r, u) /\ u # Us /\ u \notin Admin)
  BY <1>2 DEF KickJudged, KickUser, Quiet, NoKick, Spared
<1> QED BY <1>1, <1>2

\* A kick for another reason, or none, is not one that ranks decide.
LEMMA OthersSpare ==
  ASSUME \/ Quiet
         \/ \E u, c, by, safe : \E how \in {"join", "owners"} :
              KickUser(u, c, by, how, safe)
  PROVE  Spared
BY DEF Quiet, KickUser, NoKick, Spared

\* Whatever the answers and whatever was asked before, a kick that ranks
\* decide never hits the bot, an admin or who asked for it, and hits a
\* moderator or the owner of the group only for an admin (KicksSpareRanks).
THEOREM RanksSpared == Spec => KicksSpareRanks
<1>1. Next => Spared
  <2> SUFFICES ASSUME Next PROVE Spared
    OBVIOUS
  <2>1. ASSUME NEW u \in User, NEW c \in Chat, AskOne(u, c) PROVE Spared
    BY <2>1, OthersSpare
    DEF AskOne, Add, Remove, NewLink, SendPhoto, AskKick, AskMute,
        AskSetAdmin, AskDemoteAdmin, AskSetOwner, AskPromote, AskDemote,
        Enquire, EnquireNaming, Ask
  <2>2. ASSUME NEW u \in User, NEW c \in Chat, SetOne(u, c) PROVE Spared
    <3>1. CASE Leave(u, c)
      BY <3>1 DEF Leave, Spared
    <3> QED
      BY <2>2, <3>1, OthersSpare
      DEF SetOne, LockGroup, UnlockGroup, WaitForLink, LinkArrives,
          WaitForPhoto, SetText, CleanText, CleanModlist, SetNow
  <2>3. ASSUME NEW u \in User, NEW c \in Chat, MuteOne(u, c) PROVE Spared
    BY <2>3, OthersSpare
    DEF MuteOne, Mute, Unmute, ListMutes, CleanMutelist, MuteUser, MuteNow,
        SilenceNow
  <2>4. ASSUME NEW u \in User, NEW c \in Chat, OwnersOne(u, c) PROVE Spared
    BY <2>4, OthersSpare
    DEF OwnersOne, OwnersLock, OwnersUnlock, OwnersClean, OwnersSetText,
        OwnersCleanText, OwnersCleanMutelist, OwnersKick, SetNow
  <2>5. ASSUME NEW i, Answer(i) PROVE Spared
    BY <2>5, JudgedSpares, OthersSpare
    DEF Answer, Fails, Removed, KickReplied, KickJoined, OwnerSet, Promoted,
        Demoted, AdminDemoted, MuteToggled, Linked, PhotoLoaded, Added,
        KickListed, AdminSet
  <2>6. CASE Restart
    BY <2>6, OthersSpare DEF Restart
  <2> QED BY <2>1, <2>2, <2>3, <2>4, <2>5, <2>6 DEF Next
<1>2. [Next]_vars => [Spared]_vars
  BY <1>1
<1> QED BY <1>2, PTL DEF Spec, KicksSpareRanks, Spared
=============================================================================
