-------------------------------- MODULE Guard -------------------------------
(***************************************************************************)
(* What the bot does with a message of a group.  Every enabled plugin may  *)
(* look at it first (pre_process), change it, drop it or fail; then every  *)
(* plugin whose pattern matches its text runs.  Both go over the table of  *)
(* plugins with pairs(), in an order that nothing fixes and that changes   *)
(* when the plugins are loaded again.  A failure ends the work on the      *)
(* message where it is: what earlier plugins did stays.                    *)
(*                                                                         *)
(* Settings and ranks are the subject of Moderation; here the settings are *)
(* given and the ranks change at any moment.  Messages of the bot itself   *)
(* and old ones are refused before the plugins (msg_valid) and left out.   *)
(***************************************************************************)
EXTENDS Integers, Sequences, FiniteSets, SequencesExt

CONSTANTS
  User, Support,     \* users other than the bot; the support team
  Admin, Sudo,       \* admins, and those of them that only config.lua names
  Owners,            \* the owner of each chat, as a set of at most one
  Whitelisted,       \* redis set "whitelist"
  Botlike,           \* users whose name ends in "bot"
  Chat, Basic, Pm,   \* chats; the old groups among them; the private chat
  Registered,        \* chats with an entry in the file
  Settings,          \* settings of the chats: [Chat -> [Lock -> Mark]]
  FloodMax,          \* flood_msg_max of a chat, or the default
  Silenced,          \* muted users: pairs <<chat, user>>
  Orders,            \* orders of the plugins
  Messages,          \* the messages that come in
  GbanAfter,         \* kicks for flooding up to the global ban: 4
  KickAfter,         \* banned users added up to the kick of who adds them: 4
  BanAfter,          \* and up to the ban: 8
  MaxMessages,       \* bound: messages
  MaxLookups,        \* bound: names and messages being looked up
  MaxChanges         \* bound: changes of rank, reloads, restarts

Plugin == {"anti_spam", "banhammer", "msg_checks", "fwd", "run", "filter",
           "join", "owners"}

\* The settings; "filter" stands for lock_ads, tag, username, english and
\* media, "mate" for the redis key of fwd, and the last seven for the muted
\* kinds.
Lock == {"flood", "lock_bots", "lock_member", "lock_tgservice", "lock_link",
         "lock_arabic", "lock_rtl", "lock_spam", "lock_sticker",
         "lock_contacts", "strict", "join", "filter", "mate",
         "All", "Text", "Photo", "Gifs", "Audio", "Video", "Documents"}
Mark == {"unset", "no", "yes"}

Service == {"join", "add"}
Order == {"kick", "ban", "unban", "banall", "unbanall"}
Lookup == [cmd : Order \cup {"banReply"}, from : User, chat : Chat,
           whom : User]

\* What a message may hold, and the lock each piece falls under; "rtl" and
\* "long" may be in the name of who comes in, too.
TextTrait == {"link", "arabic", "rtl", "spam", "control", "ad"}
MediaTrait == {"title", "description", "caption", "sticker", "contact",
               "photo", "gif", "audio", "video", "document", "says photo"}

\* Besides the orders given in a chat there are those that the owner of a group
\* gives in the private chat ("/owners <group> ban <user>").
Message ==
  [from : User, chat : Chat, kind : {"text", "media", "forward"} \cup Service,
   trait : TextTrait \cup MediaTrait \cup {"plain", "long"}, whom : User]
  \cup [from : User, chat : Chat, kind : {"command"}, trait : Order,
        by : {"number", "name", "reply"}, whom : User]
  \cup [from : User, chat : {Pm}, kind : {"owners"}, group : Chat,
        trait : {"kick", "ban", "unban"}, whom : User]

\* The chat that a message is about.
Group(m) == IF m.kind = "owners" THEN m.group ELSE m.chat

ASSUME Chats == Basic \subseteq Chat /\ Pm \in Chat \ Basic
                /\ Registered \subseteq Chat \ (Basic \cup {Pm})
ASSUME People == Admin \subseteq User /\ Sudo \subseteq Admin
                 /\ Support \subseteq User /\ Whitelisted \subseteq User
                 /\ Botlike \subseteq User /\ Silenced \subseteq Chat \X User
                 /\ Owners \in [Chat -> SUBSET User]
ASSUME Given == Settings \subseteq [Chat -> [Lock -> Mark]]
                /\ FloodMax \in [Chat -> Nat] /\ Messages \subseteq Message
ASSUME OrdersAreWhole == \A o \in Orders : /\ o \in Seq(Plugin)
                                         /\ ToSet(o) = Plugin
                                         /\ Len(o) = Cardinality(Plugin)
ASSUME Limits == {GbanAfter, KickAfter, BanAfter} \subseteq Nat \ {0}
                 /\ {MaxMessages, MaxLookups, MaxChanges} \subseteq Nat

VARIABLES
  order,      \* the order of pairs(plugins)
  setting,    \* settings of the chats
  mods,       \* moderators of the chats
  db,         \* redis
  lua,        \* globals of the plugins
  lookups,    \* orders that wait for a name or a message to be looked up
  fate,       \* what became of the last message
  past,       \* history: orders given, windows in which a user was kicked
  count       \* messages, and changes from outside

guardVars == <<order, setting, mods, db, lua, lookups, fate, past, count>>

---------------------------------------------------------------------------
(* Ranks and records                                                       *)

IsOwner(u, c) == u \in Owners[c] \cup Support \cup Admin
IsMomod(u, c) == u \in mods[c] \/ IsOwner(u, c)

\* A number typed in a command is text, which is never equal to the number of
\* a sudo user.
IsMomodText(u, c) ==
  u \in mods[c] \cup Owners[c] \cup Support \cup (Admin \ Sudo)

\* is_banned or is_gbanned
IsBanned(d, u, c) == <<c, u>> \in d.banned \/ u \in d.gbanned

Has(c, lock) == setting[c][lock] = "yes"

\* The work on a message: s.message is "whole", "empty" when its text was
\* taken, "dropped" (nil) or "failed"; asked are the lookups begun.
Work == [db |-> db, lua |-> lua, past |-> past, message |-> "whole",
         kicked |-> {}, deleted |-> {}, obeyed |-> FALSE, asked |-> {}]

Goes(s) == s.message \in {"whole", "empty"}
Drop(s) == [s EXCEPT !.message = "dropped"]
Fails(s) == [s EXCEPT !.message = "failed"]
Delete(s, why) == [s EXCEPT !.deleted = @ \cup {why}]

\* kick_user, ban_user and banall_user do nothing to the admins in safe.
KickUser(s, u, safe) ==
  IF u \in safe THEN s ELSE [s EXCEPT !.kicked = @ \cup {u}]

BanUser(s, u, c, safe) ==
  IF u \in safe THEN s
  ELSE KickUser([s EXCEPT !.db.banned = @ \cup {<<c, u>>}], u, safe)

BanallUser(s, u, safe) ==
  IF u \in safe THEN s ELSE [s EXCEPT !.db.gbanned = @ \cup {u}]

---------------------------------------------------------------------------
(* anti_spam                                                               *)

\* The message counts for two seconds more (setex).
CountMessage(s, u) == [s EXCEPT !.db.msgs[u] = @ + 1]

\* The history counts the first kick of a user between two clearings of
\* kicktable.
Strike(s, u) ==
  IF u \in s.past.window THEN s
  ELSE [s EXCEPT !.past.window = @ \cup {u}, !.past.strikes[u] = @ + 1]

\* mutant: the global ban after any kick for flooding
GlobalBanAtOnce(s, m) ==
  IF IsOwner(m.from, m.chat) THEN s
  ELSE BanallUser([s EXCEPT !.db.spams[m.from] = 0], m.from, Admin)

\* The kick that reaches the limit bans everywhere.  It is announced to the
\* log groups; without one the plugin fails there.
GlobalBan(s, m) ==
  IF s.db.spams[m.from] # GbanAfter \/ IsOwner(m.from, m.chat) THEN s
  ELSE LET t == BanallUser([s EXCEPT !.db.spams[m.from] = 0], m.from, Admin)
       IN IF s.db.log THEN t ELSE Fails(t)

\* Too many messages of a plain user who was not kicked a moment ago.
Flooded(s, m) ==
  LET u == m.from
      t == Strike(KickUser(Delete(s, "flood"), u, Admin), u)
      v == GlobalBan([t EXCEPT !.db.spams[u] = @ + 1], m)
  IN IF ~Goes(v) THEN v
     ELSE Drop(CountMessage([v EXCEPT !.lua.kicktable = @ \cup {u}], u))

AntiSpam(s, m) ==
  LET u == m.from
  IN IF \/ m.kind \in Service
        \/ m.chat \in Registered /\ setting[m.chat]["flood"] = "no"
     THEN s
     ELSE IF s.db.msgs[u] <= FloodMax[m.chat] THEN CountMessage(s, u)
     ELSE IF IsMomod(u, m.chat) \/ u \in Whitelisted THEN s
     ELSE IF u \in s.lua.kicktable THEN Drop(s)
     ELSE Flooded(s, m)

---------------------------------------------------------------------------
(* banhammer, before the commands                                          *)

\* Who adds banned users is kicked and then banned himself.
AddedBanned(s, m) ==
  LET key == <<m.chat, m.from>>
      n == s.db.added[key] + 1
      t == KickUser([s EXCEPT !.db.added[key] = n, !.past.adds[key] = @ + 1],
                    m.whom, Admin)
      v == IF n >= KickAfter THEN KickUser(t, m.from, Admin) ELSE t
  IN IF IsOwner(m.from, m.chat) THEN t
     ELSE IF n < BanAfter THEN v
     ELSE [BanUser(v, m.from, m.chat, Admin) EXCEPT !.db.added[key] = 0]

\* lock_bots of this chat, or of the last one that had it set
BotsProtection(s, m) ==
  IF setting[m.chat]["lock_bots"] = "unset" THEN s
  ELSE [s EXCEPT !.lua.bots = setting[m.chat]["lock_bots"]]

AddedSomebody(s, m) ==
  LET t == IF \/ /\ <<m.chat, m.whom>> \in s.db.banned
                 /\ ~IsMomod(m.from, m.chat)
              \/ m.whom \in s.db.gbanned /\ m.from \notin Admin
           THEN AddedBanned(s, m) ELSE s
      v == BotsProtection(t, m)
  IN IF m.whom \in Botlike /\ ~IsMomod(m.from, m.chat) /\ v.lua.bots = "yes"
     THEN KickUser(v, m.whom, Admin) ELSE v

\* mutant: only the bans of this chat silence
BannedTalkingHere(s, m) ==
  IF m.chat # Pm /\ <<m.chat, m.from>> \in s.db.banned
  THEN KickUser([s EXCEPT !.message = "empty"], m.from, Admin)
  ELSE s

BannedTalking(s, m) ==
  IF m.chat # Pm /\ IsBanned(s.db, m.from, m.chat)
  THEN KickUser([s EXCEPT !.message = "empty"], m.from, Admin)
  ELSE s

Banhammer(s, m) ==
  CASE m.kind = "join" -> IF IsBanned(s.db, m.from, m.chat)
                          THEN KickUser(s, m.from, Admin) ELSE s
    [] m.kind = "add" -> AddedSomebody(s, m)
    [] OTHER -> BannedTalking(s, m)

---------------------------------------------------------------------------
(* msg_checks                                                              *)

\* Most offences are punished with a kick too where it is strict.
Punish(s, m) ==
  LET t == Delete(s, "checks")
  IN IF Has(m.chat, "strict") THEN KickUser(t, m.from, Admin) ELSE t

TextLock == [link |-> "lock_link", arabic |-> "lock_arabic",
             rtl |-> "lock_rtl", spam |-> "lock_spam"]

MediaLock ==
  [title |-> {"lock_link", "lock_arabic"},
   description |-> {"lock_link", "lock_arabic"},
   caption |-> {"lock_link", "lock_arabic"},
   sticker |-> {"lock_sticker"}, contact |-> {"lock_contacts"},
   audio |-> {"Audio"}, video |-> {"Video"}, document |-> {"Documents"},
   photo |-> {"Photo"}, gif |-> {"Gifs"}]

\* Silenced users, and chats where all are
CheckMuted(s, m) ==
  IF m.kind \notin Service /\ (Has(m.chat, "All")
                               \/ <<m.chat, m.from>> \in Silenced)
  THEN Delete(s, "checks") ELSE s

CheckText(s, m) ==
  LET offends == /\ m.kind # "add"
                 /\ m.trait = "rtl" \/ s.message # "empty"
                 /\ \/ m.trait = "control"
                    \/ /\ m.trait \in DOMAIN TextLock
                       /\ Has(m.chat, TextLock[m.trait])
      t == IF offends THEN Punish(s, m) ELSE s
  IN IF m.kind \notin Service \cup {"media"} /\ Has(m.chat, "Text")
     THEN Delete(t, "checks") ELSE t

\* Photos and animations are deleted without a kick, and so is anything whose
\* caption says "photo", whatever the lock.
CheckMedia(s, m) ==
  IF m.trait = "says photo" THEN Delete(s, "checks")
  ELSE IF m.trait \in MediaTrait
     /\ \E lock \in MediaLock[m.trait] : Has(m.chat, lock)
  THEN IF m.trait \in {"photo", "gif"} THEN Delete(s, "checks")
       ELSE Punish(s, m)
  ELSE s

\* Forwarded from a silenced user
CheckForward(s, m) ==
  IF m.kind = "forward" /\ <<m.chat, m.whom>> \in Silenced
  THEN Delete(s, "checks") ELSE s

\* The name of who comes in is looked at, too.  Of somebody who is added only
\* a global that nothing sets would make the length matter.
CheckService(s, m) ==
  IF m.kind \notin Service THEN s
  ELSE LET new == IF m.kind = "join" THEN m.from ELSE m.whom
           t == IF Has(m.chat, "lock_tgservice") THEN Delete(s, "checks")
                ELSE s
           v == IF m.kind = "join" /\ m.trait = "long" THEN Punish(t, m) ELSE t
           w == IF m.trait = "rtl" /\ Has(m.chat, "lock_rtl")
                THEN KickUser(v, new, Admin) ELSE v
       IN IF Has(m.chat, "lock_member")
          THEN KickUser(Delete(w, "checks"), new, Admin) ELSE w

\* Plain users only.  A group of the old kind is not in the file: the message
\* is dropped.
MsgChecks(s, m) ==
  IF \/ m.chat \notin Basic \cup Registered
     \/ IsMomod(m.from, m.chat) \/ m.from \in Whitelisted
  THEN s
  ELSE IF m.chat \notin Registered THEN Drop(s)
  ELSE CheckService(CheckForward(CheckMedia(CheckText(CheckMuted(s, m), m),
                                            m), m), m)

---------------------------------------------------------------------------
(* fwd, and the plugins that start a script on every forwarded message     *)

\* The answer is a text, which every other plugin fails on.
ForwardLock(s, m) ==
  IF m.kind = "forward" /\ Has(m.chat, "mate") /\ ~IsMomod(m.from, m.chat)
  THEN Fails(Delete(s, "fwd")) ELSE s

\* os.execute answers TRUE, on which :read fails
RunPre(s, m) == IF m.kind = "forward" THEN Fails(s) ELSE s

PreProcess(s, m, plugin) ==
  IF ~Goes(s) THEN s
  ELSE CASE plugin = "anti_spam" -> AntiSpam(s, m)
         [] plugin = "banhammer" -> Banhammer(s, m)
         [] plugin = "msg_checks" -> MsgChecks(s, m)
         [] plugin = "fwd" -> ForwardLock(s, m)
         [] plugin = "run" -> RunPre(s, m)
         [] OTHER -> s

---------------------------------------------------------------------------
(* The plugins whose pattern matches the text                              *)

\* ads, tag, username, english, media: the setting of this chat, or of the
\* last one that had it set
\* mutant: an unlocked chat does not overwrite the global
JudgedLocked(s, m) ==
  IF setting[m.chat]["filter"] # "yes" THEN s.lua.filter ELSE "yes"

Judged(s, m) ==
  IF setting[m.chat]["filter"] = "unset" THEN s.lua.filter
  ELSE setting[m.chat]["filter"]

Filter(s, m) ==
  IF m.trait # "ad" \/ IsMomod(m.from, m.chat) THEN s
  ELSE LET t == [s EXCEPT !.lua.filter = Judged(s, m)]
       IN IF t.lua.filter = "yes" THEN Delete(t, "filter") ELSE t

\* Whoever comes by the link is kicked, whatever his rank.
JoinLock(s, m) ==
  IF m.kind = "join" /\ Has(m.chat, "join")
  THEN KickUser(s, m.from, Admin) ELSE s

\* Without the lock of fwd the script is started for each service message.
RunScript(s, m) ==
  IF m.kind \in Service /\ ~Has(m.chat, "mate") THEN Fails(s) ELSE s

\* A user named by number: judged and done at once.
ByNumber(s, m) ==
  LET safe == Admin \ Sudo
      refused == \/ m.from \notin Admin /\ IsMomodText(m.whom, m.chat)
                 \/ m.whom = m.from
  IN CASE m.trait = "ban" /\ ~refused ->
            BanUser(s, m.whom, m.chat, safe)
       [] m.trait = "kick" /\ ~refused -> KickUser(s, m.whom, safe)
       [] m.trait = "unban" ->
            [s EXCEPT !.db.banned = @ \ {<<m.chat, m.whom>>}]
       [] m.trait = "banall" -> BanallUser(s, m.whom, safe)
       [] m.trait = "unbanall" -> [s EXCEPT !.db.gbanned = @ \ {m.whom}]
       [] OTHER -> s

Ask(s, m, cmd) ==
  [s EXCEPT !.asked = {[cmd |-> cmd, from |-> m.from, chat |-> m.chat,
                        whom |-> m.whom]}]

\* A reply: of the callbacks only ban_by_reply_admins reads the type where the
\* answer has it; to lift a ban the plugin goes on with a name that is not
\* there, and fails.
ByReply(s, m) ==
  IF m.trait \in {"unban", "banall", "unbanall"} THEN Fails(s)
  ELSE IF m.trait = "ban" /\ m.from \in Admin THEN Ask(s, m, "banReply")
  ELSE s

MayOrder(m) ==
  /\ IsMomod(m.from, m.chat)
  /\ m.trait = "banall" => m.from \in Admin
  /\ m.trait = "unbanall" => m.from \in Admin \cup Support

\* The history remembers who was to be banned.
Noted(s, m) ==
  [s EXCEPT !.obeyed = TRUE,
            !.past.ordered = IF m.trait = "ban"
                             THEN @ \cup {<<Group(m), m.whom>>} ELSE @,
            !.past.condemned = IF m.trait = "banall" THEN @ \cup {m.whom}
                               ELSE @]

\* In a private chat run of banhammer answers with the id at once.
Obey(s, m) ==
  LET t == Noted(s, m)
  IN IF m.kind # "command" \/ m.chat = Pm \/ ~MayOrder(m) THEN s
     ELSE CASE m.by = "number" -> ByNumber(t, m)
            [] m.by = "name" -> Ask(t, m, m.trait)
            [] m.by = "reply" -> ByReply(t, m)

\* ar-owners: no look at a ban of the owner, nor at the rank of the other.
OwnersOrder(s, m) ==
  LET safe == Admin \ Sudo
      t == Noted(s, m)
  IN IF m.kind # "owners" \/ ~IsOwner(m.from, m.group) \/ m.whom = m.from
     THEN s
     ELSE CASE m.trait = "ban" -> BanUser(t, m.whom, m.group, safe)
            [] m.trait = "kick" -> KickUser(t, m.whom, safe)
            [] m.trait = "unban" ->
                 [t EXCEPT !.db.banned = @ \ {<<m.group, m.whom>>}]

RunPlugin(s, m, plugin) ==
  IF s.message # "whole" THEN s
  ELSE CASE plugin = "banhammer" -> Obey(s, m)
         [] plugin = "filter" -> Filter(s, m)
         [] plugin = "join" -> JoinLock(s, m)
         [] plugin = "run" -> RunScript(s, m)
         [] plugin = "owners" -> OwnersOrder(s, m)
         [] OTHER -> s

\* The turns of the plugins: first to look at the message (pre_process_msg),
\* then to run (match_plugins), both in the order of pairs(plugins).
Turn(s, m, i) ==
  IF i <= Len(order) THEN PreProcess(s, m, order[i])
  ELSE RunPlugin(s, m, order[i - Len(order)])

Worked(m) ==
  LET after[i \in 0 .. 2 * Len(order)] ==
        IF i = 0 THEN Work ELSE Turn(after[i - 1], m, i)
  IN after[2 * Len(order)]

---------------------------------------------------------------------------
(* Steps                                                                   *)

NoFate == [from |-> "none", chat |-> "none", kind |-> "none", kicked |-> {},
           deleted |-> {}, obeyed |-> FALSE]

FateOf(s, from, chat, kind) ==
  [from |-> from, chat |-> chat, kind |-> kind, kicked |-> s.kicked,
   deleted |-> s.deleted, obeyed |-> s.obeyed]

GuardInit ==
  /\ order \in Orders
  /\ setting \in Settings
  /\ mods = [c \in Chat |-> {}]
  /\ db \in [banned : {{}}, gbanned : {{}}, log : BOOLEAN,
             spams : {[u \in User |-> 0]}, msgs : {[u \in User |-> 0]},
             added : {[k \in Chat \X User |-> 0]}]
  /\ lua = [kicktable |-> {}, bots |-> "unset", filter |-> "unset"]
  /\ lookups = {}
  /\ fate = NoFate
  /\ past = [ordered |-> {}, condemned |-> {}, window |-> {},
             strikes |-> [u \in User |-> 0],
             adds |-> [k \in Chat \X User |-> 0]]
  /\ count = [messages |-> 0, changes |-> 0]

\* on_msg_receive
OnMsgReceive(m) ==
  LET s == Worked(m)
  IN /\ count.messages < MaxMessages
     /\ Cardinality(lookups \cup s.asked) <= MaxLookups
     /\ count' = [count EXCEPT !.messages = @ + 1]
     /\ db' = s.db /\ lua' = s.lua /\ past' = s.past
     /\ lookups' = lookups \cup s.asked
     /\ fate' = FateOf(s, m.from, Group(m), m.kind)
     /\ UNCHANGED <<order, setting, mods>>

\* An answer works on the records of its own moment.
Settle(l, s) ==
  /\ l \in lookups
  /\ lookups' = lookups \ {l}
  /\ db' = s.db
  /\ fate' = FateOf(s, l.from, l.chat, "answer")
  /\ UNCHANGED <<order, setting, mods, lua, past, count>>

\* mutant: the rank was looked at when the order was given
FoundUnjudged(l) ==
  CASE l.cmd = "ban" -> BanUser(Work, l.whom, l.chat, Admin)
    [] OTHER -> Work

\* kick_ban_res: the global sender is never set, so that nobody counts as an
\* admin here.
Found(l) ==
  CASE l.cmd = "kick" /\ l.whom # l.from /\ ~IsMomod(l.whom, l.chat) ->
         KickUser(Work, l.whom, Admin)
    [] l.cmd = "ban" /\ ~IsMomod(l.whom, l.chat) ->
         BanUser(Work, l.whom, l.chat, Admin)
    [] l.cmd = "unban" ->
         [Work EXCEPT !.db.banned = @ \ {<<l.chat, l.whom>>}]
    [] l.cmd = "banall" -> BanallUser(Work, l.whom, Admin)
    [] l.cmd = "unbanall" -> [Work EXCEPT !.db.gbanned = @ \ {l.whom}]
    [] OTHER -> Work

NameFound(l) == l.cmd # "banReply" /\ Settle(l, Found(l))

\* ban_by_reply_admins
MessageFound(l) ==
  /\ l.cmd = "banReply"
  /\ Settle(l, BanUser(Work, l.whom, l.chat, Admin))

LookupFails(l) == Settle(l, Work)

\* Two seconds without a counted message
Expire(u) ==
  /\ db.msgs[u] > 0
  /\ db' = [db EXCEPT !.msgs[u] = 0]
  /\ fate' = NoFate
  /\ UNCHANGED <<order, setting, mods, lua, lookups, past, count>>

\* cron_plugins
Cron ==
  /\ lua.kicktable # {}
  /\ lua' = [lua EXCEPT !.kicktable = {}]
  /\ past' = [past EXCEPT !.window = {}]
  /\ fate' = NoFate
  /\ UNCHANGED <<order, setting, mods, db, lookups, count>>

Change ==
  /\ count.changes < MaxChanges
  /\ count' = [count EXCEPT !.changes = @ + 1]
  /\ fate' = NoFate

\* load_plugins: the files run again, and the table may have another order.
Reload(o) ==
  /\ Change
  /\ order' = o
  /\ lua' = [lua EXCEPT !.kicktable = {}]
  /\ past' = [past EXCEPT !.window = {}]
  /\ UNCHANGED <<setting, mods, db, lookups>>

\* Globals and callbacks are gone, redis stays.
Restart(o) ==
  /\ Change
  /\ order' = o
  /\ lua' = [kicktable |-> {}, bots |-> "unset", filter |-> "unset"]
  /\ lookups' = {}
  /\ past' = [past EXCEPT !.window = {}]
  /\ UNCHANGED <<setting, mods, db>>

\* Somebody is promoted or demoted (Moderation).
ChangeRank(u, c) ==
  /\ Change
  /\ mods' = [mods EXCEPT ![c] = IF u \in @ THEN @ \ {u} ELSE @ \cup {u}]
  /\ UNCHANGED <<order, setting, db, lua, lookups, past>>

GuardNext ==
  \/ \E m \in Messages : OnMsgReceive(m)
  \/ \E l \in lookups : NameFound(l) \/ MessageFound(l) \/ LookupFails(l)
  \/ \E u \in User : Expire(u)
  \/ Cron
  \/ \E o \in Orders : Reload(o) \/ Restart(o)
  \/ \E u \in User, c \in Registered : ChangeRank(u, c)

GuardSpec == GuardInit /\ [][GuardNext]_guardVars

---------------------------------------------------------------------------
(* Properties                                                              *)

GuardTypeOK ==
  /\ order \in Orders /\ setting \in Settings
  /\ mods \in [Chat -> SUBSET User]
  /\ db.banned \subseteq Chat \X User /\ db.gbanned \subseteq User
  /\ db.log \in BOOLEAN
  /\ db.spams \in [User -> 0 .. GbanAfter]
  /\ db.msgs \in [User -> Nat] /\ db.added \in [Chat \X User -> Nat]
  /\ lua \in [kicktable : SUBSET User, bots : Mark, filter : Mark]
  /\ lookups \subseteq Lookup

\* Whatever the order of the plugins, whatever fails and whatever was looked
\* up late: a ban was at some time ordered by somebody who might order it, in
\* the group or in private, or its victim has added banned users often enough;
\* a global ban was ordered by an admin, or its victim was kicked for flooding
\* between so many different clearings of kicktable.
BansAreEarned ==
  /\ \A k \in db.banned : k \in past.ordered \/ past.adds[k] >= BanAfter
  /\ \A u \in db.gbanned :
       u \in past.condemned \/ past.strikes[u] >= GbanAfter

\* A banned user is not obeyed, whatever his rank and in whatever order the
\* plugins see his message, but for the owner of a group who gives his orders
\* in the private chat.
BannedIsNotObeyed ==
  [][fate'.obeyed =>
       \/ ~IsBanned(db, fate'.from, fate'.chat)
       \/ fate'.kind = "owners" /\ IsOwner(fate'.from, fate'.chat)]_guardVars

\* Nobody with a rank in the group is kicked, by any of these plugins or a late
\* answer, even if he got the rank after the order was given: unless an admin
\* ordered it, or the owner in the private chat, or he was banned before, or
\* for joining or adding somebody.  (The sudo users are known by number only,
\* which a command does not give.  Who floods the private chat is "kicked"
\* from there, whatever group he writes of.)
RanksAreSpared ==
  [][\A u \in fate'.kicked :
       IsMomodText(u, fate'.chat) =>
         \/ fate'.from \in Admin \/ fate'.kind \in Service
         \/ IsBanned(db, u, fate'.chat)
         \/ /\ fate'.kind = "owners"
            /\ u = fate'.from \/ IsOwner(fate'.from, fate'.chat)]_guardVars

\* A chat that has unlocked a filter loses no message to it, whatever the
\* chat before it had locked.
OwnSettingWins ==
  [][\A c \in Chat : fate'.chat = c /\ "filter" \in fate'.deleted
                     => setting[c]["filter"] # "no"]_guardVars
=============================================================================
