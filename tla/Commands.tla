------------------------------ MODULE Commands ------------------------------
(***************************************************************************)
(* The commands of interface.c: how a line is read into arguments, which   *)
(* handler gets them, and what the handler and the operation it calls      *)
(* (queries.c) do about the answer.  A line is a sequence of kinds of      *)
(* token; a token that names something stands for everything that it can   *)
(* name.  What is left of a handler and its operation is its outcome:      *)
(*   "says"    it answers before it returns, and holds nothing             *)
(*   "fails"   the callback is called with 0 before it returns             *)
(*   "knows"   the callback is called with 1 before it returns             *)
(*   "asks"    the callback is called when the server has answered         *)
(*   "asks_password", "asks_phone"   so, and words are asked for between   *)
(*   "keeps"   the callback is never called                                *)
(*   "quiet"   no answer, and nothing is held                              *)
(*   "aborts"  an assertion fails, or a null pointer is followed           *)
(*   "aborts_late"   so, but only when the server has answered             *)
(* and a word of its own for the commands about the program itself.        *)
(***************************************************************************)
EXTENDS Naturals, Sequences, FiniteSets, TLC

CONSTANT
  Room  \* the arguments there is room for, 1000 in the code: more than a row has

ASSUME RoomAssumption == Room \in Nat /\ Room > 5

\* The kinds of token.  A printed id is taken as it is, whoever it is of: a
\* stranger is a user that this client does not know, an unheard chat a secret
\* chat that it does not know, and of a chat or channel it may be either.  A
\* request is a secret chat that is known, and not open.
Users == {"user", "stranger"}
Secrets == {"secret", "request", "unheard"}
Known == {"user", "secret", "request"}
Unknown == {"stranger", "unheard"}
Peers == Users \cup Secrets \cup {"chat", "channel"}
Numbers == {"number", "big"}
Tokens == Peers \cup Numbers \cup {"message", "word", "quoted", "unclosed"}
Quoted == {"quoted", "unclosed"}

\* The messages a token can be the id of: a number is a temporary id, which
\* may be of no message, the other form is a permanent one, of which the
\* client need not have the message.
Held == {"text", "service", "file", "page", "secret text", "secret file"}
Named(t) ==
  CASE t \in Numbers -> Held \cup {"unknown"}
    [] t = "message" -> Held \cup {"foreign", "foreign secret"}
InSecret == {"secret text", "secret file", "foreign secret"}

(***************************************************************************)
(* The table of commands: the arguments that each takes.                   *)
(***************************************************************************)
Takes(c) ==
  CASE c \in {"clear", "contact_list", "export_card", "get_self",
             "get_terms_of_service", "main_session", "quit", "safe_quit",
             "show_license", "stats", "status_offline", "status_online",
             "version"} -> <<>>
    [] c \in {"accept_secret_chat", "visualize_key"} -> <<"secret">>
    [] c \in {"block_user", "create_secret_chat", "del_contact",
             "load_user_photo", "unblock_user", "user_info",
             "view_user_photo"} ->
         <<"user">>
    [] c \in {"channel_info", "channel_join", "channel_leave",
             "export_channel_link", "load_channel_photo",
             "view_channel_photo"} ->
         <<"channel">>
    [] c \in {"chat_info", "chat_upgrade", "export_chat_link",
             "load_chat_photo", "view_chat_photo"} -> <<"chat">>
    [] c \in {"chat_with_peer", "mark_read", "send_typing_abort"} -> <<"peer">>
    [] c \in {"delete_msg", "get_message", "load_audio", "load_document",
             "load_document_thumb", "load_file", "load_file_thumb",
             "load_photo", "load_video", "load_video_thumb", "view",
             "view_audio", "view_document", "view_document_thumb", "view_file",
             "view_file_thumb", "view_photo", "view_video",
             "view_video_thumb"} ->
         <<"msg_id">>
    [] c \in {"contact_search", "import_card", "import_channel_link",
             "import_chat_link", "resolve_username", "set_phone_number",
             "set_username"} -> <<"string">>
    [] c \in {"help", "set_password"} -> <<"string?">>
    [] c \in {"channel_list", "dialog_list"} -> <<"number?", "number?">>
    [] c \in {"channel_get_admins", "channel_get_members"} ->
         <<"channel", "number?", "number?">>
    [] c \in {"msg", "post", "post_text", "send_text"} ->
         <<"peer", "string_end">>
    [] c \in {"msg_kbd", "post_photo", "post_video", "send_audio",
             "send_document", "send_file", "send_photo", "send_video"} ->
         <<"peer", "string", "string_end">>
    [] c \in {"post_audio", "post_document", "post_file"} ->
         <<"peer", "string">>
    [] c \in {"reply_audio", "reply_document", "reply_file", "reply_video"} ->
         <<"msg_id", "string">>
    [] c \in {"post_location", "send_location"} ->
         <<"peer", "number", "number">>
    [] c \in {"channel_invite", "channel_kick"} -> <<"channel", "user">>
    [] c \in {"channel_set_about", "channel_set_username"} ->
         <<"channel", "string">>
    [] c \in {"channel_set_photo", "rename_channel"} ->
         <<"channel", "string_end">>
    [] c \in {"chat_set_photo", "rename_chat"} -> <<"chat", "string_end">>
    [] c = "set_profile_photo" -> <<"string_end">>
    [] c = "add_contact" -> <<"string", "string", "string">>
    [] c = "broadcast" -> <<"user", "period", "string_end">>
    [] c = "channel_set_admin" -> <<"channel", "user", "number">>
    [] c = "chat_add_user" -> <<"chat", "user", "number?">>
    [] c = "chat_del_user" -> <<"chat", "user">>
    [] c = "create_channel" -> <<"string", "string", "user?", "period">>
    [] c = "create_group_chat" -> <<"string", "user", "period">>
    [] c = "fwd" -> <<"peer", "msg_id", "period">>
    [] c = "fwd_media" -> <<"peer", "msg_id">>
    [] c = "history" -> <<"peer", "number?", "number?">>
    [] c = "rename_contact" -> <<"user", "string", "string">>
    [] c = "reply" -> <<"msg_id", "string_end">>
    [] c = "reply_contact" -> <<"msg_id", "string", "string", "string">>
    [] c = "reply_location" -> <<"msg_id", "number", "number">>
    [] c = "reply_photo" -> <<"msg_id", "string", "string_end">>
    [] c = "search" ->
         <<"peer?", "number?", "number?", "number?", "number?", "string_end">>
    [] c = "send_contact" -> <<"peer", "string", "string", "string">>
    [] c = "send_typing" -> <<"peer", "number?">>
    [] c = "set" -> <<"string", "number">>
    [] c = "set_profile_name" -> <<"string", "string">>
    [] c = "set_ttl" -> <<"secret", "number">>
    [] c = "start_bot" -> <<"user", "chat", "string">>

\* The commands, by what they are about.
ProgramCommands ==
  {"help", "get_terms_of_service", "stats", "show_license", "version", "set",
   "quit", "safe_quit", "chat_with_peer", "main_session"}
TextCommands ==
  {"msg", "post", "msg_kbd", "reply", "send_text", "post_text"}
ForwardCommands ==
  {"fwd", "fwd_media", "send_contact", "reply_contact", "send_location",
   "post_location", "reply_location", "broadcast"}
ProfileCommands ==
  {"get_self", "set_profile_photo", "set_profile_name", "set_username",
   "set_phone_number", "set_password", "status_online", "status_offline",
   "export_card"}
ChatCommands ==
  {"chat_set_photo", "rename_chat", "chat_info", "channel_info",
   "chat_add_user", "chat_del_user", "channel_invite", "channel_kick",
   "create_group_chat", "export_chat_link", "import_chat_link",
   "import_channel_link", "channel_get_members", "channel_get_admins",
   "chat_upgrade"}
UserCommands ==
  {"user_info", "add_contact", "rename_contact", "del_contact", "import_card",
   "block_user", "unblock_user"}
SecretChatCommands ==
  {"accept_secret_chat", "set_ttl", "visualize_key", "create_secret_chat"}
ChannelCommands ==
  {"rename_channel", "channel_set_about", "channel_set_username",
   "channel_set_photo", "channel_set_admin", "create_channel", "channel_join",
   "channel_leave", "export_channel_link"}
DialogCommands ==
  {"dialog_list", "channel_list", "contact_search", "resolve_username",
   "contact_list", "mark_read", "history", "send_typing", "send_typing_abort"}
MessageCommands ==
  {"search", "delete_msg", "get_message", "start_bot", "clear"}
PeerPhotos ==
  {"load_user_photo", "load_chat_photo", "load_channel_photo",
   "view_user_photo", "view_chat_photo", "view_channel_photo"}
Thumbs ==
  {"load_document_thumb", "load_file_thumb", "load_video_thumb",
   "view_document_thumb", "view_file_thumb", "view_video_thumb"}
MediaCommands ==
  PeerPhotos \cup Thumbs \cup
  {"load_audio", "load_document", "load_file", "load_photo", "load_video",
   "view", "view_audio", "view_document", "view_file", "view_photo",
   "view_video"}
FileCommands ==
  {"post_audio", "post_document", "post_file", "post_photo", "post_video",
   "reply_audio", "reply_document", "reply_file", "reply_photo", "reply_video",
   "send_audio", "send_document", "send_file", "send_photo", "send_video"}
Commands ==
  UNION {ProgramCommands, TextCommands, FileCommands, ForwardCommands,
         ProfileCommands, ChatCommands, UserCommands, SecretChatCommands,
         ChannelCommands, DialogCommands, MessageCommands, MediaCommands}

(***************************************************************************)
(* interpreter_ex: the arguments of the line.                              *)
(***************************************************************************)
Optional == {"peer?", "user?", "number?", "string?"}
Text == {"string", "string?"}

\* mutant: the type of the peer is not compared
ReadsAnyPeer(op) ==
  IF op \in {"number", "number?"} THEN Numbers
  ELSE IF op = "msg_id" THEN Numbers \cup {"message"} ELSE Peers

\* The tokens that an argument is parsed from (cur_token_peer and the like):
\* a known name, or an id of the right type.
Reads(op) ==
  CASE op \in {"user", "user?"} -> Users
    [] op \in {"peer", "peer?"} -> Peers
    [] op = "chat" -> {"chat"}
    [] op = "channel" -> {"channel"}
    [] op = "secret" -> Secrets
    [] op \in {"number", "number?"} -> Numbers
    [] op = "msg_id" -> Numbers \cup {"message"}

\* The rest of the line as one text (next_token_end): of a quoted one, only
\* if nothing follows it.
IsOneText(line, pos) ==
  \/ pos > Len(line) \/ line[pos] \notin Quoted
  \/ pos = Len(line) /\ line[pos] = "quoted"

\* What becomes of a line: its arguments, or how it ends without them.
Called(args) == [how |-> "calls", args |-> args]
Ended(how) == [how |-> how, args |-> <<>>]

\* What a handler can get: a token, a text, or the place of an optional
\* argument that is not there.
Arguments == Tokens \cup {"text", "none"}

\* Where the loop is: in the row of the table (flags), in the line (line_ptr),
\* and what it has read.
Points(row, line) ==
  [at : 1 .. Len(row) + 1, pos : 1 .. Len(line) + 1, args : Seq(Arguments)]

\* What may be repeated is returned to, until a token is not one of them.
Repeats(row, at) == at < Len(row) /\ row[at + 1] = "period"

\* The loop over the arguments, where read says what becomes of the others.
Argument(row, line, read, s) ==
  LET op == row[s.at]
      token == line[s.pos]
      ended == s.pos > Len(line)
      repeats == Repeats(row, s.at)
      Onward(arg, pos) ==
        read[[at |-> IF repeats THEN s.at ELSE s.at + 1, pos |-> pos,
              args |-> Append(s.args, arg)]]
      LeftOut(pos) == Onward("none", pos)
      Past == read[[at |-> s.at + 2, pos |-> s.pos, args |-> s.args]]
  IN IF Len(s.args) >= Room THEN Ended("aborts")
     ELSE IF s.at > Len(row) THEN
       IF ended THEN Called(s.args) ELSE Ended("says")
     ELSE IF op = "string_end" THEN
       IF IsOneText(line, s.pos) THEN Called(Append(s.args, "text"))
       ELSE Ended("says")
     ELSE IF repeats /\ ended THEN Called(s.args)
     ELSE IF op \in Text THEN
       IF ~ended /\ token # "unclosed" THEN Onward("text", s.pos + 1)
       ELSE IF op \in Optional THEN LeftOut(Len(line) + 1)
       ELSE Ended("says")
     ELSE IF ended \/ token \in Quoted THEN
       IF op \in Optional THEN LeftOut(s.pos)
       ELSE IF repeats THEN Past
       ELSE Ended("quiet")
     ELSE IF token \in Reads(op) THEN Onward(token, s.pos + 1)
     ELSE IF repeats THEN Past
     ELSE IF op \in Optional THEN LeftOut(s.pos)
     ELSE Ended("says")

Read(row, line) ==
  LET read[s \in Points(row, line)] == Argument(row, line, read, s)
  IN read[[at |-> 1, pos |-> 1, args |-> <<>>]]

(***************************************************************************)
(* The operations (queries.c, queries-encrypted.c) by what the arguments   *)
(* are.  mods are the modifiers of the line.                               *)
(***************************************************************************)
\* The handlers of most answers and errors: both call back (send_msgs_methods).
SendMsgs == {"asks"}

\* Only of a peer of the right type: an assertion, or a refusal.
Asserted(fits, outcomes) == IF fits THEN outcomes ELSE {"aborts"}
Refused(fits, outcomes) == IF fits THEN outcomes ELSE {"fails"}

\* Only of a peer that the client knows (tgl_peer_get).
OfKnown(peer, outcomes) ==
  (IF peer \in Unknown THEN {} ELSE outcomes)
    \cup (IF peer \in Known THEN {} ELSE {"fails"})

\* A secret chat must be open, and HTML must be well formed.
SendMessage(peer, mods) ==
  Refused(peer \notin {"request", "unheard"},
    {"asks"} \cup (IF "html" \in mods THEN {"fails"} ELSE {}))

\* A reply goes to the dialog of a message that is known and not secret; the
\* dialog is not a secret chat, and stands for any other.
Reply(m, outcomes) == Refused(m \notin InSecret \cup {"unknown"}, outcomes)

\* The text is read from a file first, which may not be possible.
SendText(peer, mods) == {"fails"} \cup SendMessage(peer, mods)

\* A bot marks nothing, and tells nobody; nor is an error about a secret chat
\* told (mark_read_encr_on_error).
MarkRead(peer) == {"keeps"} \cup Refused(peer # "unheard", {"asks"})

\* The file may be missing or empty.  When all of it is with the server, a
\* secret chat to send it to must be known (send_file_encrypted_end).
SendFile(peer) ==
  {"fails"} \cup
    (IF peer = "unheard" THEN {"aborts_late"} ELSE {"asks"})
SetPhoto(type, peer) == Asserted(peer = type, SendFile(peer))

\* A file that is there already is not loaded.
LoadFile == {"asks", "fails", "knows"}

SetProfileName == {"asks"}
UpdateContactList == {"asks"}
ContactSearch == {"asks"}

\* What may be forwarded, and where to: messages of one dialog.
ForwardMessages(peer, ms, n) ==
  Refused(peer \notin Secrets /\ ms \cap (InSecret \cup {"unknown"}) = {},
    IF n > 1 THEN {"asks", "fails"} ELSE {"asks"})
ForwardMedia(peer, m) == Refused(peer \notin Secrets /\ m = "file", {"asks"})

SendContact(peer) == Refused(peer \notin Secrets, {"asks"})
\* To a secret chat it goes by send_encr_msg, which refuses one not open; that
\* the chat is known is not asked (tgl_do_send_location_encr).
SendLocation(peer) ==
  Asserted(peer # "unheard", Refused(peer # "request", {"asks"}))

\* Names, abouts, user names and administrators; joining and leaving.
ChangeGroup(type, peer) == Asserted(peer = type, SendMsgs)

\* Without the server, what the client knows of the peer.
Info(peer, mods) ==
  IF "offline" \in mods THEN OfKnown(peer, {"knows"}) ELSE {"asks"}
ChatInfo(peer, mods) == Info(peer, mods)
ChannelInfo(peer, mods) == Info(peer, mods)
UserInfo(peer, mods) == Refused(peer \in Users, Info(peer, mods))

AddContact == {"asks"}
DelContact(peer) == Refused(peer \in Users, {"asks"})

\* The local one is of a peer that is known and has a message.
History(peer, mods) ==
  IF peer \in Secrets \/ "offline" \in mods
  THEN OfKnown(peer, {"knows", "fails"})
  ELSE {"asks"}
SearchIn(peer) == Refused(peer \notin Secrets, {"asks"})

\* It shows nothing of a chat that is not open, but asserts that it is known.
VisualizeKey(peer) == Asserted(peer \in Secrets \ Unknown, {"says"})

ChangeMembers(user) == Asserted(user \in Users, SendMsgs)
CreateSecretChat(user) ==
  Asserted(user \in Users, OfKnown(user, {"asks"}))
CreateGroup(members) == Refused(members \subseteq Users, SendMsgs)

DeleteMsg(m) == Refused(m # "unknown", {"asks"})
Card == {"asks"}
StartBot == SendMsgs
SendTyping(peer) == Refused(peer \notin Secrets, {"asks"})

\* A query that cannot be read is never sent.
SendExtf == {"asks", "keeps"}

GetMessage(m) ==
  Refused(m # "unknown",
    IF m \in {"foreign", "foreign secret"} THEN {"asks"} ELSE {"knows"})
ExportLink(type, peer) == Refused(peer = type, {"asks"})
ImportLink == SendMsgs

\* The queries between which words are asked for.
SetPassword == {"asks_password"}
SetPhoneNumber == {"asks_phone"}

Broadcast(users) == Asserted(users \subseteq Users, SendMsgs)
BlockUser(peer) == Refused(peer \in Users, {"asks"})
TermsOfService == {"asks"}
UpgradeGroup == SendMsgs
UpdateStatus == {"asks"}

\* Secret chats (queries-encrypted.c): one is accepted once; a time to live
\* is a message, which is sent without the callback.
AcceptSecretChat(peer) == Refused(peer = "request", {"asks"})
SetTtl == {"keeps"}

(***************************************************************************)
(* The handlers.  Each asserts how many arguments it got.                  *)
(***************************************************************************)
Gets(a, n, outcomes) == Asserted(Len(a) = n, outcomes)
Among(a, i) == {a[j] : j \in i..Len(a)}
OfMessage(t, op(_)) == UNION {op(m) : m \in Named(t)}

\* About the program itself; what they do is in Console.  Who is chatted with
\* need not be known.
OnProgram(c, a) ==
  CASE c = "help" -> Gets(a, 1, {"says"})
    [] c = "get_terms_of_service" -> Gets(a, 0, TermsOfService)
    [] c \in {"stats", "show_license", "version"} -> Gets(a, 0, {"says"})
    [] c = "set" -> {"quiet"}
    [] c = "chat_with_peer" ->
         {IF a[1] \in Known THEN c ELSE "chat_with_anybody"}
    [] c \in {"quit", "safe_quit", "main_session"} -> {c}

\* Messages.  A markup that cannot be read is told at once, and the callback
\* is forgotten.
OnText(c, a, mods) ==
  CASE c \in {"msg", "post"} -> Gets(a, 2, SendMessage(a[1], mods))
    [] c = "msg_kbd" ->
         Gets(a, 3, {"keeps"} \cup SendMessage(a[1], mods))
    [] c = "reply" -> Gets(a, 2, OfMessage(a[1], LAMBDA m :
         Reply(m, SendMessage("chat", mods))))
    [] c \in {"send_text", "post_text"} ->
         Gets(a, 2, SendText(a[1], mods))

\* Files.  reply_audio is in the table with the handler of send_audio, which
\* reads the id of the message in the union as that of a peer: of a permanent
\* one the peer is right and its access hash wrong, of a temporary one the peer
\* is of no type, and the file is sent to the server before that is asserted.
ReplyAudio(t) ==
  IF t = "message" THEN SendFile("chat") \cup SendFile("unheard")
  ELSE SendFile("unheard")

OnFile(c, a) ==
  CASE c \in {"reply_photo", "reply_file", "reply_video",
              "reply_document"} ->
         Asserted(Len(a) >= 2, OfMessage(a[1], LAMBDA m :
           Reply(m, SendFile("chat"))))
    [] c = "reply_audio" -> Asserted(Len(a) >= 2, ReplyAudio(a[1]))
    [] OTHER -> Asserted(Len(a) >= 2, SendFile(a[1]))

OnForward(c, a) ==
  CASE c = "fwd" ->
         IF Len(a) < 2 THEN {"aborts"}
         ELSE OfMessage(a[2], LAMBDA m : OfMessage(a[Len(a)], LAMBDA n :
           ForwardMessages(a[1], {m, n}, Len(a) - 1)))
    [] c = "fwd_media" -> Gets(a, 2, OfMessage(a[2], LAMBDA m :
         ForwardMedia(a[1], m)))
    [] c = "send_contact" -> Gets(a, 4, SendContact(a[1]))
    [] c = "reply_contact" -> Gets(a, 4, OfMessage(a[1], LAMBDA m :
         Reply(m, SendContact("chat"))))
    [] c \in {"send_location", "post_location"} ->
         Gets(a, 3, SendLocation(a[1]))
    [] c = "reply_location" -> Gets(a, 3, OfMessage(a[1], LAMBDA m :
         Reply(m, SendLocation("chat"))))
    [] c = "broadcast" ->
         Asserted(a # <<>> /\ a[Len(a)] = "text",
           Broadcast({a[j] : j \in 1..Len(a) - 1}))

OnProfile(c, a) ==
  CASE c = "get_self" -> UserInfo("user", {})
    [] c = "set_profile_photo" -> Gets(a, 1, SendFile("user"))
    [] c = "set_profile_name" -> Gets(a, 2, SetProfileName)
    [] c = "set_username" -> Gets(a, 1, SetProfileName)
    [] c = "set_phone_number" -> Gets(a, 1, SetPhoneNumber)
    [] c = "set_password" -> Gets(a, 1, SetPassword)
    [] c \in {"status_online", "status_offline"} ->
         Gets(a, 0, UpdateStatus)
    [] c = "export_card" -> Gets(a, 0, Card)

OnChat(c, a, mods) ==
  CASE c = "chat_set_photo" -> Gets(a, 2, SetPhoto("chat", a[1]))
    [] c = "rename_chat" -> Gets(a, 2, ChangeGroup("chat", a[1]))
    [] c = "chat_info" -> Gets(a, 1, ChatInfo(a[1], mods))
    [] c = "channel_info" -> Gets(a, 1, ChannelInfo(a[1], mods))
    [] c = "chat_add_user" -> Gets(a, 3, ChangeMembers(a[2]))
    [] c \in {"chat_del_user", "channel_invite", "channel_kick"} ->
         Gets(a, 2, ChangeMembers(a[2]))
    [] c = "create_group_chat" ->
         Asserted(Len(a) >= 1, CreateGroup(Among(a, 2)))
    [] c = "export_chat_link" -> Gets(a, 1, ExportLink("chat", a[1]))
    [] c \in {"import_chat_link", "import_channel_link"} ->
         Gets(a, 1, ImportLink)
    [] c \in {"channel_get_members", "channel_get_admins"} ->
         Gets(a, 3, {"asks"})
    [] c = "chat_upgrade" -> Gets(a, 1, UpgradeGroup)

\* A contact is renamed only if its phone is known, a card read only if it is
\* one; of what is not, the first is told.
OnUser(c, a, mods) ==
  CASE c = "user_info" -> Gets(a, 1, UserInfo(a[1], mods))
    [] c = "add_contact" -> Gets(a, 3, AddContact)
    [] c = "rename_contact" -> Gets(a, 3,
         OfKnown(a[1], AddContact \cup {"fails"}))
    [] c = "del_contact" -> Gets(a, 1, DelContact(a[1]))
    [] c = "import_card" -> Gets(a, 1, Card \cup {"quiet"})
    [] c \in {"block_user", "unblock_user"} -> Gets(a, 1, BlockUser(a[1]))

OnSecretChat(c, a) ==
  CASE c = "accept_secret_chat" -> Gets(a, 1, AcceptSecretChat(a[1]))
    [] c = "set_ttl" -> Gets(a, 2, Refused(a[1] = "secret", SetTtl))
    [] c = "visualize_key" -> Gets(a, 1, VisualizeKey(a[1]))
    [] c = "create_secret_chat" -> Gets(a, 1, CreateSecretChat(a[1]))

OnChannel(c, a) ==
  CASE c \in {"rename_channel", "channel_set_about",
              "channel_set_username"} ->
         Gets(a, 2, ChangeGroup("channel", a[1]))
    [] c = "channel_set_photo" -> Gets(a, 2, SetPhoto("channel", a[1]))
    [] c = "channel_set_admin" -> Gets(a, 3,
         Asserted(a[2] \in Users, ChangeGroup("channel", a[1])))
    [] c = "create_channel" ->
         Asserted(Len(a) >= 2, CreateGroup(Among(a, 3)))
    [] c \in {"channel_join", "channel_leave"} ->
         Gets(a, 1, ChangeGroup("channel", a[1]))
    [] c = "export_channel_link" -> Gets(a, 1, ExportLink("channel", a[1]))

\* A typing status above 10 is refused before anything is held.
OnDialog(c, a, mods) ==
  CASE c \in {"dialog_list", "channel_list"} ->
         Asserted(Len(a) <= 2, {"asks"})
    [] c \in {"contact_search", "resolve_username"} ->
         Gets(a, 1, ContactSearch)
    [] c = "contact_list" -> Gets(a, 0, UpdateContactList)
    [] c = "mark_read" -> Gets(a, 1, MarkRead(a[1]))
    [] c = "history" -> Gets(a, 3, History(a[1], mods))
    [] c = "send_typing" -> Gets(a, 2,
         IF a[2] = "big" THEN {"says"} ELSE SendTyping(a[1]))
    [] c = "send_typing_abort" -> Gets(a, 1, SendTyping(a[1]))

\* DO_LOAD_PHOTO, DO_LOAD_PHOTO_THUMB: a message that is not known or is of
\* service says nothing, one without a file keeps what it was given.
LoadMedia(m) ==
  CASE m \in {"unknown", "foreign", "foreign secret", "service"} -> {"quiet"}
    [] m \in {"text", "secret text"} -> {"keeps"}
    [] m \in {"file", "secret file"} -> LoadFile
    [] m = "page" -> {"knows"}
LoadThumb(m) ==
  {"quiet"} \cup (IF m = "file" THEN LoadFile ELSE {})

OnMedia(c, a) ==
  Gets(a, 1,
    IF c \in PeerPhotos THEN OfKnown(a[1], LoadFile)
    ELSE IF c \in Thumbs THEN OfMessage(a[1], LoadThumb)
    ELSE OfMessage(a[1], LoadMedia))

OnMessage(c, a) ==
  CASE c = "search" -> Gets(a, 6, SearchIn(a[1]))
    [] c = "delete_msg" -> OfMessage(a[1], DeleteMsg)
    [] c = "get_message" -> Gets(a, 1, OfMessage(a[1], GetMessage))
    [] c = "start_bot" -> Gets(a, 3, StartBot)
    [] c = "clear" -> {"clear"}

(***************************************************************************)
(* A whole line: the command, its arguments, the modifiers before it.      *)
(***************************************************************************)
Handle(c, a, mods) ==
  CASE c \in ProgramCommands -> OnProgram(c, a)
    [] c \in TextCommands -> OnText(c, a, mods)
    [] c \in ForwardCommands -> OnForward(c, a)
    [] c \in ProfileCommands -> OnProfile(c, a)
    [] c \in ChatCommands -> OnChat(c, a, mods)
    [] c \in UserCommands -> OnUser(c, a, mods)
    [] c \in SecretChatCommands -> OnSecretChat(c, a)
    [] c \in ChannelCommands -> OnChannel(c, a)
    [] c \in DialogCommands -> OnDialog(c, a, mods)
    [] c \in MessageCommands -> OnMessage(c, a)
    [] c \in MediaCommands -> OnMedia(c, a)
    [] c \in FileCommands -> OnFile(c, a)

\* interpreter_ex, for a line of a command of the table.
Outcomes(c, line, mods) ==
  LET read == Read(Takes(c), line)
  IN IF read.how = "calls" THEN Handle(c, read.args, mods) ELSE {read.how}

\* Modifiers are words in brackets (work_modifier); what is in quotes or
\* unfinished in the place of one, or an unknown command, is told at once.
Modifiers == SUBSET {"offline", "html"}
=============================================================================
