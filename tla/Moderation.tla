----------------------------- MODULE Moderation -----------------------------
(***************************************************************************)
(* The moderation record of the bot: one JSON file with an entry per       *)
(* supergroup, two kinds of redis sets (muted kinds of message, muted      *)
(* users), and the requests whose answers change them later.  A command is *)
(* judged when it is given; its effect comes with the answer, and the      *)
(* requests under way are answered in any order.  Every command reads the  *)
(* file again, except three that keep the file of the moment they were     *)
(* asked and write all of it back when they are answered.                  *)
(*                                                                         *)
(* Titles inside the Telegram channel (channel_set_admin, channel_demote)  *)
(* are kept by the server and are left out.                                *)
(***************************************************************************)
EXTENDS Integers, Sequences, FiniteSets

CONSTANTS
  User, Us,          \* users, and the account of the bot
  Admin, Support,    \* admins and sudo users; the support team
  Sudo,              \* the admins that only config.lua names
  Nameless,          \* users without a username
  Chat,              \* supergroups
  Lock,              \* the yes/no settings
  Text,              \* the settings that hold a text or a number
  Kind,              \* kinds of message that can be muted
  NoEntry, NoView,
  MaxRequests,       \* bound: requests under way
  MaxCommands        \* bound: commands given

ASSUME Users == Us \in User /\ Admin \subseteq User \ {Us}
                /\ Sudo \subseteq Admin
                /\ Support \subseteq User \ {Us} /\ Nameless \subseteq User
ASSUME Bounds == MaxRequests \in Nat /\ MaxCommands \in Nat

\* The settings that lock_group_* and unlock_group_* set, in the order of the
\* source.  "all" has functions but no command that reaches them.
TextLocks == {"lock_ads", "leave", "operator", "reply", "username"}
ContentLocks == {"media", "fosh", "join", "fwd", "english", "emoji", "tag"}
FloodLocks == {"lock_spam", "flood", "lock_arabic", "lock_member"}
JoinLocks == {"lock_rtl", "lock_tgservice", "lock_sticker", "lock_bots",
              "lock_contacts", "strict"}

\* ar-owners has functions of its own, which do not ask for a rank
OwnersLocks == {"lock_name", "lock_member", "lock_arabic", "lock_link",
                "lock_spam", "lock_sticker"}

TextSettings == {"rules", "description", "flood_msg_max"}

ASSUME Texts == Text \subseteq TextSettings
ASSUME Locks == Lock \subseteq TextLocks \cup ContentLocks \cup FloodLocks
                                \cup JoinLocks \cup OwnersLocks

VARIABLES
  file,        \* the JSON file: [entry, groups]
  mutes,       \* "mute:<chat>": strings "<kind>: yes" and "<kind>: no"
  silenced,    \* "mute_user:<chat>"
  pending,     \* requests under way, in the order of asking
  kicked,      \* the kick of the last step
  commands,    \* commands given so far
  named        \* who was ever named for power by somebody entitled

vars == <<file, mutes, silenced, pending, kicked, commands, named>>

Mark == {"no", "yes"}
Wish == {"none", "waiting", "set"}

\* set_owner is a number after the group is added, and text after somebody
\* was named: only the text is ever equal to tostring(user).
Entry == [owner : User, byName : BOOLEAN, moderators : SUBSET User,
          on : SUBSET Lock, link : Wish, photo : Wish, text : SUBSET Text]

ASSUME Absent == NoEntry \notin Entry

File == [entry : [Chat -> Entry \cup {NoEntry}], groups : SUBSET Chat]

Plain == {"block", "blockJoin", "blockList", "setadmin", "setowner",
          "promote", "demote", "demoteadmin", "mute", "photo"}
Stale == {"add", "remove", "link"}

Request == [cmd : Plain \cup Stale, from : User, chat : Chat,
            target : User, view : File \cup {NoView}]

Kick == [user : User, chat : Chat, by : User, how : {"rank", "join", "self",
                                                     "owners"}]
NoKick == [user |-> Us, how |-> "none"]

---------------------------------------------------------------------------
(* Ranks                                                                   *)

Registered(c) == file.entry[c] # NoEntry

IsAdmin(u) == u \in Admin

IsOwner(u, c) ==
  \/ Registered(c) /\ file.entry[c].byName /\ file.entry[c].owner = u
  \/ u \in Support \cup Admin

IsMomod(u, c) ==
  \/ Registered(c) /\ u \in file.entry[c].moderators
  \/ IsOwner(u, c)

\* kick_user, channel_kick: the bot and the admins are never kicked, if they
\* are recognised (safe): a number typed in a command is text, which is never
\* equal to the number of a sudo user.
KickUser(u, c, by, how, safe) ==
  kicked' = IF u = Us \/ u \in safe THEN NoKick
            ELSE [user |-> u, chat |-> c, by |-> by, how |-> how]

---------------------------------------------------------------------------
(* Writing the file                                                        *)

\* mutant: the owner of a new group is stored as text
FreshEntryAsText(u) ==
  [owner |-> u, byName |-> TRUE, moderators |-> {},
   on |-> {}, link |-> "none", photo |-> "none", text |-> {}]

FreshEntry(u) ==
  [owner |-> u, byName |-> FALSE, moderators |-> {},
   on |-> Lock \cap {"flood", "lock_spam", "lock_tgservice"},
   link |-> "none", photo |-> "none", text |-> {}]

\* load_data, one change to the entry of c, save_data
Write(c, e) == file' = [file EXCEPT !.entry[c] = e]

WriteField(c, field, value) ==
  Write(c, [file.entry[c] EXCEPT ![field] = value])

\* check_member_super: the first of the members, whoever that is
CheckMemberSuper(view, c, first) ==
  file' = [entry |-> [view.entry EXCEPT ![c] = FreshEntry(first)],
           groups |-> view.groups \cup {c}]

\* mutant: the group stays in the list
CheckMemberSuperremHalf(view, c) ==
  file' = [view EXCEPT !.entry[c] = NoEntry]

CheckMemberSuperrem(view, c) ==
  file' = [entry |-> [view.entry EXCEPT ![c] = NoEntry],
           groups |-> view.groups \ {c}]

\* callback_link, callback_superlink: failing forgets the link
CallbackLink(view, c, success) ==
  IF view.entry[c] = NoEntry
  THEN file' = file
  ELSE file' = [view EXCEPT !.entry[c] =
                  [@ EXCEPT !.link = IF success THEN "set" ELSE "none"]]

Promote2(c, u) ==
  IF Registered(c) /\ u \notin file.entry[c].moderators
  THEN WriteField(c, "moderators", file.entry[c].moderators \cup {u})
  ELSE UNCHANGED file

Demote2(c, u) ==
  IF Registered(c) /\ u \in file.entry[c].moderators
  THEN WriteField(c, "moderators", file.entry[c].moderators \ {u})
  ELSE UNCHANGED file

SetOwner(c, u) ==
  IF Registered(c)
  THEN Write(c, [file.entry[c] EXCEPT !.owner = u, !.byName = TRUE])
  ELSE UNCHANGED file

SetSupergroupPhoto(c, success) ==
  IF Registered(c) /\ success
  THEN WriteField(c, "photo", "set")
  ELSE UNCHANGED file

---------------------------------------------------------------------------
(* Asking                                                                  *)

Quiet == kicked' = NoKick

Command == commands < MaxCommands /\ commands' = commands + 1

Question(cmd, u, c, t, view) ==
  [cmd |-> cmd, from |-> u, chat |-> c, target |-> t, view |-> view]

Ask(r) ==
  /\ Command /\ Quiet
  /\ Len(pending) < MaxRequests
  /\ pending' = Append(pending, r)

\* Who is named for power, and by whom: owners may make moderators and owners,
\* support staff and owners may make admins of the channel.
Name(u, c, t) ==
  named' = IF IsOwner(u, c) THEN named \cup {<<c, t>>} ELSE named

\* superadd: anyone may become the first member of the answer; the muted
\* kinds are written at once
Add(u, c) ==
  /\ IsAdmin(u) \/ u \in Support
  /\ c \notin file.groups
  /\ Ask(Question("add", u, c, u, file))
  /\ mutes' = [mutes EXCEPT ![c] = @ \cup (Kind \X {"no"})]
  /\ UNCHANGED <<file, silenced, named>>

Remove(u, c) ==
  /\ IsAdmin(u) /\ c \in file.groups
  /\ Ask(Question("remove", u, c, u, file))
  /\ mutes' = [mutes EXCEPT ![c] = {}]
  /\ UNCHANGED <<file, silenced, named>>

NewLink(u, c) ==
  /\ Registered(c) /\ IsMomod(u, c)
  /\ Ask(Question("link", u, c, u, file))
  /\ UNCHANGED <<file, mutes, silenced, named>>

\* a command of a registered group whose answer names nobody
Enquire(cmd, u, c, t) ==
  /\ Registered(c)
  /\ Ask(Question(cmd, u, c, t, NoView))
  /\ UNCHANGED <<file, mutes, silenced, named>>

\* The rank is only asked for in the second half of
\* "kick or kick and is_momod": anybody may kick, the callback judges.
AskKick(cmd, u, c, t) == Enquire(cmd, u, c, t)

AskMute(u, c, t) == Enquire("mute", u, c, t)

\* a command whose answer gives power to t
EnquireNaming(cmd, u, c, t) ==
  /\ Registered(c)
  /\ Ask(Question(cmd, u, c, t, NoView))
  /\ Name(u, c, t)
  /\ UNCHANGED <<file, mutes, silenced>>

AskSetAdmin(u, c, t) ==
  IsOwner(u, c) /\ EnquireNaming("setadmin", u, c, t)

AskDemoteAdmin(u, c, t) == IsOwner(u, c) /\ Enquire("demoteadmin", u, c, t)

AskSetOwner(u, c, t) ==
  IsOwner(u, c) /\ EnquireNaming("setowner", u, c, t)

AskPromote(u, c, t) ==
  IsMomod(u, c) /\ IsOwner(u, c) /\ EnquireNaming("promote", u, c, t)

AskDemote(u, c, t) ==
  IsMomod(u, c) /\ IsOwner(u, c) /\ Enquire("demote", u, c, t)

\* a photo while "waiting" stands
SendPhoto(u, c) ==
  /\ Registered(c) /\ file.entry[c].photo = "waiting" /\ IsMomod(u, c)
  /\ Enquire("photo", u, c, u)

---------------------------------------------------------------------------
(* Answers                                                                 *)

Without(s, i) == [j \in 1 .. Len(s) - 1 |-> IF j < i THEN s[j] ELSE s[j + 1]]

Take(i, cmds) ==
  /\ i \in 1 .. Len(pending) /\ pending[i].cmd \in cmds
  /\ pending' = Without(pending, i)
  /\ UNCHANGED <<commands, named>>

OnlyFile == UNCHANGED <<mutes, silenced>>

\* the answer is an error: pairs(false) or result.from raises, nothing is saved
Fails(i) ==
  /\ Take(i, (Plain \cup Stale) \ {"link"})
  /\ Quiet /\ UNCHANGED <<file, mutes, silenced>>

Added(i, first) ==
  /\ Take(i, {"add"}) /\ first # Us
  /\ CheckMemberSuper(pending[i].view, pending[i].chat, first)
  /\ Quiet /\ OnlyFile

Removed(i) ==
  /\ Take(i, {"remove"})
  /\ CheckMemberSuperrem(pending[i].view, pending[i].chat)
  /\ Quiet /\ OnlyFile

Linked(i, success) ==
  /\ Take(i, {"link"})
  /\ CallbackLink(pending[i].view, pending[i].chat, success)
  /\ Quiet /\ OnlyFile

\* mutant: moderators are not spared
MayKickMomods(r, u) == u # r.from /\ ~IsAdmin(u)

\* channel_block: the ranks are those of the moment of the answer
MayKick(r, u) ==
  /\ u # r.from /\ ~IsAdmin(u)
  /\ ~IsMomod(u, r.chat) \/ IsAdmin(r.from)

KickJudged(r, u) ==
  IF MayKick(r, u) THEN KickUser(u, r.chat, r.from, "rank", Admin) ELSE Quiet

\* By reply the sender of that message is judged.  By text the members of the
\* channel are read in turn, and "vusername == member" holds of the first who
\* has no username, because member is nil then.
KickReplied(i) ==
  /\ Take(i, {"block"})
  /\ KickJudged(pending[i], pending[i].target)
  /\ UNCHANGED <<file, mutes, silenced>>

KickListed(i, u) ==
  /\ Take(i, {"blockList"}) /\ u \in {pending[i].target} \cup Nameless
  /\ KickJudged(pending[i], u)
  /\ UNCHANGED <<file, mutes, silenced>>

\* a reply to "X was added": the ranks of nobody (member_id is nil) are asked
KickJoined(i) ==
  /\ Take(i, {"blockJoin"})
  /\ KickUser(pending[i].target, pending[i].chat, pending[i].from, "join",
              Admin)
  /\ UNCHANGED <<file, mutes, silenced>>

\* setadmin by name stops at the first member; by reply it changes no record
AdminSet(i, first) ==
  /\ Take(i, {"setadmin"})
  /\ IF first = pending[i].target THEN Promote2(pending[i].chat, first)
                                  ELSE UNCHANGED file
  /\ Quiet /\ OnlyFile

OwnerSet(i) ==
  /\ Take(i, {"setowner"})
  /\ SetOwner(pending[i].chat, pending[i].target)
  /\ Quiet /\ OnlyFile

Promoted(i) ==
  /\ Take(i, {"promote"})
  /\ Promote2(pending[i].chat, pending[i].target)
  /\ Quiet /\ OnlyFile

Demoted(i) ==
  /\ Take(i, {"demote"})
  /\ Demote2(pending[i].chat, pending[i].target)
  /\ Quiet /\ OnlyFile

AdminDemoted(i) ==
  /\ Take(i, {"demoteadmin"})
  /\ IF IsAdmin(pending[i].target)
     THEN UNCHANGED file
     ELSE Demote2(pending[i].chat, pending[i].target)
  /\ Quiet /\ OnlyFile

\* By reply: who is muted is unmuted for anybody; only an admin mutes. That an
\* owner mutes by name (callbackres, ar-supergoup.lua:1390-1400) is never
\* reached: the test before it, "mute or mute and a number" (2581), is true of
\* every such command, so a name goes the way of MuteUser.
MuteToggled(i) ==
  /\ Take(i, {"mute"})
  /\ LET c == pending[i].chat
         t == pending[i].target
     IN silenced' = IF t \in silenced[c]
                    THEN [silenced EXCEPT ![c] = @ \ {t}]
                    ELSE IF IsAdmin(pending[i].from)
                         THEN [silenced EXCEPT ![c] = @ \cup {t}]
                         ELSE silenced
  /\ Quiet /\ UNCHANGED <<file, mutes>>

PhotoLoaded(i, success) ==
  /\ Take(i, {"photo"})
  /\ SetSupergroupPhoto(pending[i].chat, success)
  /\ Quiet /\ OnlyFile

\* the process starts again: what was asked is forgotten
Restart ==
  /\ pending # <<>>
  /\ pending' = <<>>
  /\ Quiet /\ UNCHANGED <<file, mutes, silenced, commands, named>>

---------------------------------------------------------------------------
(* Commands that take effect at once                                       *)

SetNow(u, c, needed, field, value) ==
  /\ Command /\ Quiet
  /\ Registered(c) /\ needed
  /\ WriteField(c, field, value)
  /\ OnlyFile /\ UNCHANGED <<pending, named>>

\* set only what is not yet set
LockGroup(u, c, k) ==
  /\ Registered(c) /\ k \notin file.entry[c].on
  /\ SetNow(u, c, IsMomod(u, c) /\ (k = "lock_spam" => IsOwner(u, c)),
            "on", file.entry[c].on \cup {k})

UnlockGroup(u, c, k) ==
  /\ Registered(c) /\ k \in file.entry[c].on
  /\ SetNow(u, c, IsMomod(u, c), "on", file.entry[c].on \ {k})

WaitForLink(u, c) == SetNow(u, c, IsOwner(u, c), "link", "waiting")

LinkArrives(u, c) ==
  /\ Registered(c) /\ file.entry[c].link = "waiting"
  /\ SetNow(u, c, IsOwner(u, c), "link", "set")

WaitForPhoto(u, c) == SetNow(u, c, IsMomod(u, c), "photo", "waiting")

\* the bounds of the number of messages are left out with the number
SetText(u, c, k) ==
  /\ Registered(c)
  /\ SetNow(u, c, IsMomod(u, c), "text", file.entry[c].text \cup {k})

CleanText(u, c, k) ==
  /\ Registered(c) /\ k \in file.entry[c].text \ {"flood_msg_max"}
  /\ SetNow(u, c, IsMomod(u, c), "text", file.entry[c].text \ {k})

CleanModlist(u, c) ==
  /\ Registered(c) /\ file.entry[c].moderators # {}
  /\ SetNow(u, c, IsMomod(u, c), "moderators", {})

\* kickme asks nothing of anybody
Leave(u, c) ==
  /\ Command /\ Registered(c) /\ u # Us
  /\ kicked' = [user |-> u, chat |-> c, by |-> u, how |-> "self"]
  /\ UNCHANGED <<file, mutes, silenced, pending, named>>

---------------------------------------------------------------------------
(* Muted kinds and muted users                                             *)

MuteNow(c, entitled, marks) ==
  /\ Command /\ Quiet
  /\ Registered(c) /\ entitled
  /\ mutes' = [mutes EXCEPT ![c] = marks]
  /\ UNCHANGED <<file, silenced, pending, named>>

Mute(u, c, k) ==
  /\ <<k, "yes">> \notin mutes[c]
  /\ MuteNow(c, IsOwner(u, c), (mutes[c] \ {<<k, "no">>}) \cup {<<k, "yes">>})

Unmute(u, c, k) ==
  /\ <<k, "yes">> \in mutes[c]
  /\ MuteNow(c, IsMomod(u, c),
             (mutes[c] \ {<<k, "yes">>}) \cup {<<k, "no">>})

\* has_mutes looks at the first of its list alone: without "Audio: no" the
\* answer "no" is written beside every "yes"
ListMutes(u, c) ==
  /\ <<"Audio", "no">> \notin mutes[c]
  /\ MuteNow(c, IsMomod(u, c), mutes[c] \cup (Kind \X {"no"}))

SilenceNow(c, entitled, users) ==
  /\ Command /\ Quiet
  /\ Registered(c) /\ entitled
  /\ silenced' = [silenced EXCEPT ![c] = users]
  /\ UNCHANGED <<file, mutes, pending, named>>

\* by id: anybody unmutes, moderators mute
MuteUser(u, c, t) ==
  IF t \in silenced[c]
  THEN SilenceNow(c, TRUE, silenced[c] \ {t})
  ELSE SilenceNow(c, IsMomod(u, c), silenced[c] \cup {t})

CleanMutelist(u, c) == SilenceNow(c, IsMomod(u, c), {})

---------------------------------------------------------------------------
(* Private commands of the owners, which name the chat                     *)

OwnersLock(u, c, k) ==
  /\ Registered(c) /\ k \in OwnersLocks /\ k \notin file.entry[c].on
  /\ SetNow(u, c, IsOwner(u, c), "on", file.entry[c].on \cup {k})

\* "lock rtl" unlocks
OwnersUnlock(u, c, k) ==
  /\ Registered(c) /\ k \in OwnersLocks \cup {"lock_rtl"}
  /\ k \in file.entry[c].on
  /\ SetNow(u, c, IsOwner(u, c), "on", file.entry[c].on \ {k})

OwnersClean(u, c) == SetNow(u, c, IsOwner(u, c), "moderators", {})

OwnersSetText(u, c, k) ==
  /\ Registered(c)
  /\ SetNow(u, c, IsOwner(u, c), "text", file.entry[c].text \cup {k})

OwnersCleanText(u, c, k) ==
  /\ Registered(c) /\ k # "flood_msg_max"
  /\ SetNow(u, c, IsOwner(u, c), "text", file.entry[c].text \ {k})

\* the only command that asks for no rank
OwnersCleanMutelist(c) ==
  /\ Command /\ Quiet
  /\ silenced' = [silenced EXCEPT ![c] = {}]
  /\ UNCHANGED <<file, mutes, pending, named>>

OwnersKick(u, c, t) ==
  /\ Command /\ IsOwner(u, c) /\ t # u
  /\ KickUser(t, c, u, "owners", Admin \ Sudo)
  /\ UNCHANGED <<file, mutes, silenced, pending, named>>

---------------------------------------------------------------------------
Init ==
  /\ file = [entry |-> [c \in Chat |-> NoEntry], groups |-> {}]
  /\ mutes = [c \in Chat |-> {}]
  /\ silenced = [c \in Chat |-> {}]
  /\ pending = <<>>
  /\ kicked = NoKick
  /\ commands = 0
  /\ named = {}

AskOne(u, c) ==
  \/ Add(u, c) \/ Remove(u, c) \/ NewLink(u, c) \/ SendPhoto(u, c)
  \/ \E t \in User :
       \/ \E cmd \in {"block", "blockJoin", "blockList"} :
            AskKick(cmd, u, c, t)
       \/ AskMute(u, c, t)
       \/ AskSetAdmin(u, c, t) \/ AskDemoteAdmin(u, c, t)
       \/ AskSetOwner(u, c, t)
       \/ AskPromote(u, c, t) \/ AskDemote(u, c, t)

Answer(i) ==
  \/ Fails(i) \/ Removed(i)
  \/ KickReplied(i) \/ KickJoined(i)
  \/ OwnerSet(i) \/ Promoted(i) \/ Demoted(i) \/ AdminDemoted(i)
  \/ MuteToggled(i)
  \/ \E success \in BOOLEAN : Linked(i, success) \/ PhotoLoaded(i, success)
  \/ \E u \in User : Added(i, u) \/ KickListed(i, u) \/ AdminSet(i, u)

SetOne(u, c) ==
  \/ \E k \in Lock : LockGroup(u, c, k) \/ UnlockGroup(u, c, k)
  \/ WaitForLink(u, c) \/ LinkArrives(u, c) \/ WaitForPhoto(u, c)
  \/ \E k \in Text : SetText(u, c, k) \/ CleanText(u, c, k)
  \/ CleanModlist(u, c)
  \/ Leave(u, c)

MuteOne(u, c) ==
  \/ \E k \in Kind : Mute(u, c, k) \/ Unmute(u, c, k)
  \/ ListMutes(u, c) \/ CleanMutelist(u, c)
  \/ \E t \in User : MuteUser(u, c, t)

OwnersOne(u, c) ==
  \/ \E k \in Lock : OwnersLock(u, c, k) \/ OwnersUnlock(u, c, k)
  \/ \E k \in Text : OwnersSetText(u, c, k) \/ OwnersCleanText(u, c, k)
  \/ OwnersClean(u, c) \/ OwnersCleanMutelist(c)
  \/ \E t \in User : OwnersKick(u, c, t)

Next ==
  \/ \E u \in User \ {Us}, c \in Chat :
       AskOne(u, c) \/ SetOne(u, c) \/ MuteOne(u, c) \/ OwnersOne(u, c)
  \/ \E i \in 1 .. MaxRequests : Answer(i)
  \/ Restart

Spec == Init /\ [][Next]_vars

---------------------------------------------------------------------------
(* Properties                                                              *)

\* The record has the shape its readers expect.
TypeOK ==
  /\ file \in File
  /\ mutes \in [Chat -> SUBSET (Kind \X Mark)]
  /\ silenced \in [Chat -> SUBSET User]
  /\ pending \in Seq(Request)
  /\ Len(pending) <= MaxRequests
  /\ kicked \in Kick \cup {NoKick}
  /\ commands \in 0 .. MaxCommands
  /\ named \subseteq Chat \X User

\* is_super_group asks the list of groups and every command the entry: the two
\* name the same chats, also after an old file has been written back.
GroupsHaveEntries == file.groups = {c \in Chat : file.entry[c] # NoEntry}

\* Who has power in a group without being staff was named for it, in that
\* group, by somebody who was its owner or staff when he asked: no late
\* answer, no file written back and no group added anew makes a moderator
\* or an owner of anybody else.
HasPower(f, c, u) ==
  /\ f.entry[c] # NoEntry
  /\ \/ u \in f.entry[c].moderators
     \/ f.entry[c].byName /\ f.entry[c].owner = u

PowerIsGranted ==
  \A c \in Chat, u \in User : HasPower(file, c, u) => <<c, u>> \in named

\* The ranks are judged when the answer comes: a kick that was judged never
\* hits the bot or an admin, and hits a moderator or the owner only for an
\* admin, even if the rank was given while the request was under way.
KicksSpareRanks ==
  [][kicked'.how = "rank" =>
       /\ kicked'.user \notin Admin \cup {Us, kicked'.by}
       /\ IsMomod(kicked'.user, kicked'.chat) => IsAdmin(kicked'.by)]_vars
=============================================================================
