-------------------------- MODULE SecretChat_proofs --------------------------
(* Whatever the server refuses, what is repeated, lost or comes out of order, *)
(* and whenever the clients stop and start again: secret messages are heard   *)
(* in order and once, and the two sides have one key, for any number of       *)
(* messages and restarts.                                                     *)
EXTENDS SecretChat, SequenceTheorems, TLAPS

\* The messages that x has made and the server has not taken.
Said(x) ==
  {x.sends[i].text : i \in {j \in DOMAIN x.sends :
                              x.sends[j].kind = "message"}}

\* What is in a sequence.
Elements(s) == {s[i] : i \in DOMAIN s}

\* A client whose messages are in order: those it has heard before those it has
\* fetched, and all below the number it expects next.  The file it would start
\* again from expects more than what was heard, too.
Orderly(x) ==
  /\ x \in Program
  /\ x.file = NewChat \/ x.file.state = "ok"
  /\ x.chat.state = "none" => x.chat = NewChat /\ x.fetched = <<>>
  /\ \A j, k \in DOMAIN x.heard :
       j < k => x.heard[j].number < x.heard[k].number
  /\ \A j, k \in DOMAIN x.fetched :
       j < k => x.fetched[j].number < x.fetched[k].number
  /\ \A j \in DOMAIN x.heard, k \in DOMAIN x.fetched :
       x.heard[j].number < x.fetched[k].number
  /\ x.chat.state # "none" =>
       /\ \A j \in DOMAIN x.heard : x.heard[j].number < x.chat.in
       /\ \A j \in DOMAIN x.fetched : x.fetched[j].number < x.chat.in
  /\ x.file.state = "ok" =>
       \A j \in DOMAIN x.heard : x.heard[j].number < x.file.in

\* Len, for provers that would expand it.
Size(s) == Len(s)

\* Without a restart nothing is left out: the messages have the numbers 0, 1,
\* ... and the number expected next counts them.
Exact(x) ==
  /\ x.chat.in = Size(x.heard) + Size(x.fetched)
  /\ \A k \in DOMAIN x.heard : x.heard[k].number = k - 1
  /\ \A k \in DOMAIN x.fetched : x.fetched[k].number = Size(x.heard) + k - 1

\* From x to y one message at most was made, with the next count, number and
\* expectation.
Speaks(x, y) ==
  /\ y.count >= x.count /\ y.chat.out >= x.chat.out
  /\ \A t \in Said(y) : \/ t \in Said(x)
                        \/ /\ t.id = x.count + 1 /\ y.count = x.count + 1
                           /\ t.number = x.chat.out
                           /\ y.chat.out = x.chat.out + 1
                           /\ t.expects = x.chat.in

\* The file f holds what write_secret_chat_file writes of the chat.
Filed(f, chat) ==
  IF chat.state = "ok"
  THEN f.state = "ok" /\ f.in = chat.in /\ f.key = chat.key
  ELSE f = NewChat

\* y differs from x in what it says and in the chat, but not in what came.
Talks(x, y) ==
  /\ y \in Program /\ Speaks(x, y)
  /\ y.heard = x.heard /\ y.fetched = x.fetched
  /\ y.chat.in = x.chat.in
  /\ y.file = x.file \/ Filed(y.file, y.chat)
  /\ y.chat.state = "none" => y.chat = x.chat

\* What y keeps of x: the parts that only updates and differences change.
Rest(x, y) ==
  /\ y.late = x.late /\ y.qts = x.qts /\ y.left = x.left /\ y.limit = x.limit
  /\ y.busy = x.busy /\ y.fileqts = x.fileqts

\* A chat that does not exist has no number and no key.
Blank(x) == x.chat.state = "none" => x.chat = NewChat

\* The chat before it exists.
LEMMA NewIs == NewChat \in Chat /\ NewChat.in = 0 /\ NewChat.out = 0
               /\ NewChat.state = "none"
BY DEF NewChat, Chat, Key

\* The types of the fields of a client.
LEMMA Fields ==
  ASSUME NEW x \in Program
  PROVE  /\ x.chat \in Chat /\ x.file \in Chat
         /\ x.chat.in \in Nat /\ x.chat.out \in Nat /\ x.chat.last \in Nat
         /\ x.file.in \in Nat /\ x.count \in Nat /\ x.asked \in Nat
         /\ x.limit \in Nat /\ x.qts \in Nat /\ x.left \in Nat
         /\ x.sends \in Seq(Query) /\ x.heard \in Seq(Text)
         /\ x.fetched \in Seq(Text) /\ x.late \subseteq News
         /\ x.chat.key \in Key
         /\ x.chat.state \in {"none", "waiting", "request", "ok"}
BY DEF Program, Chat

\* write_secret_chat_file changes the file, to what the chat is.
LEMMA Writing ==
  ASSUME NEW x \in Program
  PROVE  LET y == WriteChatFile(x)
         IN /\ y \in Program /\ y = [x EXCEPT !.file = y.file]
            /\ Filed(y.file, x.chat)
BY NewIs DEF WriteChatFile, Filed, Program, Chat

\* A request appends to what is to be sent.
LEMMA Asking ==
  ASSUME NEW x \in Program, NEW q \in Query
  PROVE  LET y == Ask(x, q.kind, q.text)
         IN y \in Program /\ y = [x EXCEPT !.sends = Append(x.sends, q)]
<1>1. q = [kind |-> q.kind, text |-> q.text]
  BY DEF Query
<1>2. Append(x.sends, q) \in Seq(Query)
  BY Fields
<1>3. Ask(x, q.kind, q.text) = [x EXCEPT !.sends = Append(x.sends, q)]
  BY <1>1 DEF Ask, Program
<1> QED BY <1>2, <1>3 DEF Program

\* bl_do_edit_message_encr with CREATE, field by field.
LEMMA SendTextIs ==
  ASSUME NEW x \in Program
  PROVE  LET y == SendText(x)
             t == [id |-> x.count + 1, number |-> x.chat.out,
                   expects |-> x.chat.in, key |-> x.chat.key]
         IN /\ y \in Program
            /\ y = [x EXCEPT !.chat = [x.chat EXCEPT !.out = x.chat.out + 1],
                             !.count = x.count + 1,
                             !.sends = Append(x.sends, [kind |-> "message",
                                                        text |-> t])]
<1> DEFINE t == [id |-> x.count + 1, number |-> x.chat.out,
                 expects |-> x.chat.in, key |-> x.chat.key]
           C == [x.chat EXCEPT !.out = x.chat.out + 1]
           q == [kind |-> "message", text |-> t]
<1>0. x.chat.out + 1 \in Nat /\ x.count + 1 \in Nat /\ x.chat.in \in Nat
      /\ x.chat.out \in Int /\ x.chat.key \in Key /\ x.chat \in Chat
  BY Fields
<1>f. C \in Chat
  BY <1>0 DEF Chat
<1>g. t \in Text
  BY <1>0 DEF Text
<1>1. C \in Chat /\ t \in Text /\ x.count + 1 \in Nat
  BY <1>0, <1>f, <1>g
<1>2. q \in Query
  BY <1>1 DEF Query
<1>a. C.out = x.chat.out + 1 /\ C.in = x.chat.in /\ C.key = x.chat.key
      /\ x.chat.out \in Nat
  BY Fields DEF Chat
<1> DEFINE y == [x EXCEPT !.chat = C, !.count = x.count + 1]
<1>b. y.chat = C /\ y.count = x.count + 1 /\ y.sends = x.sends
  BY DEF Program
<1>c. y = [x EXCEPT !.chat.out = @ + 1, !.count = @ + 1]
  BY DEF Program
<1>d. SendText(x) = Ask(y, "message", [id |-> y.count,
                          number |-> y.chat.out - 1,
                          expects |-> y.chat.in, key |-> y.chat.key])
  BY <1>c DEF SendText
<1>e. [id |-> y.count, number |-> y.chat.out - 1, expects |-> y.chat.in,
       key |-> y.chat.key] = t
  <2> HIDE DEF y, C
  <2> QED BY <1>a, <1>b
<1>3. SendText(x) = [x EXCEPT !.chat = C, !.count = x.count + 1,
                              !.sends = Append(x.sends, q)]
  <2>1. SendText(x) = [y EXCEPT !.sends = Append(y.sends, q)]
    BY <1>d, <1>e DEF Ask
  <2> HIDE DEF C, q
  <2> QED BY <1>b, <2>1 DEF Program
<1> HIDE DEF t, C, q, y
<1>4. Append(x.sends, q) \in Seq(Query)
  BY <1>2, Fields
<1>5. SendText(x) \in Program
  BY <1>1, <1>3, <1>4 DEF Program
<1> QED BY <1>3, <1>5 DEF t, C, q

\* Sending a message says one with the next number.
LEMMA SendTextTalks ==
  ASSUME NEW x \in Program, x.chat.state # "none"
  PROVE  LET y == SendText(x)
         IN /\ Talks(x, y) /\ Rest(x, y) /\ y.chat.state = x.chat.state
            /\ y.chat.key = x.chat.key /\ y.chat.gkey = x.chat.gkey
            /\ y.asked = x.asked /\ y.aborted = x.aborted /\ y.file = x.file
            /\ \A q \in Elements(y.sends) :
                 q \in Elements(x.sends) \/ q.kind = "message"
<1> DEFINE t == [id |-> x.count + 1, number |-> x.chat.out,
                 expects |-> x.chat.in, key |-> x.chat.key]
           C == [x.chat EXCEPT !.out = x.chat.out + 1]
           q == [kind |-> "message", text |-> t]
           y == SendText(x)
<1>1. y \in Program
      /\ y = [x EXCEPT !.chat = C, !.count = x.count + 1,
                       !.sends = Append(x.sends, q)]
  BY SendTextIs
<1>2. C.out = x.chat.out + 1 /\ C.in = x.chat.in /\ C.state = x.chat.state
      /\ C.key = x.chat.key /\ C.gkey = x.chat.gkey
      /\ x.chat.out \in Nat /\ x.count \in Nat /\ x.sends \in Seq(Query)
  BY Fields DEF Chat
<1>3. t.id = x.count + 1 /\ t.number = x.chat.out /\ t.expects = x.chat.in
      /\ q.kind = "message" /\ q.text = t
  OBVIOUS
<1> HIDE DEF y, C, q, t
<1>4. /\ y.chat = C /\ y.count = x.count + 1 /\ y.sends = Append(x.sends, q)
      /\ y.heard = x.heard /\ y.fetched = x.fetched /\ y.file = x.file
      /\ y.asked = x.asked /\ y.aborted = x.aborted /\ Rest(x, y)
  BY <1>1 DEF Program, Rest
<1>5. \A u \in Said(y) : u \in Said(x) \/ u = t
  BY <1>2, <1>3, <1>4 DEF Said
<1>6. Speaks(x, y)
  BY <1>2, <1>3, <1>4, <1>5 DEF Speaks
<1>7. Talks(x, y)
  BY <1>1, <1>2, <1>4, <1>6 DEF Talks
<1>8. \A e \in Elements(y.sends) : e \in Elements(x.sends) \/ e = q
  BY <1>2, <1>4 DEF Elements
<1> QED BY <1>2, <1>3, <1>4, <1>7, <1>8 DEF y

\* So does the notification of the layer, or nothing.
LEMMA LayerTalks ==
  ASSUME NEW x \in Program, x.chat.state # "none"
  PROVE  LET y == SendLayer(x)
         IN /\ Talks(x, y) /\ Rest(x, y) /\ y.chat.state = x.chat.state
            /\ y.chat.key = x.chat.key /\ y.chat.gkey = x.chat.gkey
            /\ y.asked = x.asked /\ y.aborted = x.aborted /\ y.file = x.file
            /\ \A q \in Elements(y.sends) :
                 q \in Elements(x.sends) \/ q.kind = "message"
<1>1. Talks(x, x) /\ Rest(x, x)
  BY Fields DEF Talks, Speaks, Rest
<1> QED BY <1>1, SendTextTalks DEF SendLayer

\* y differs from x in what is filed and in the chat, which is neither new nor
\* has other numbers.
Turned(x, y) ==
  /\ y \in Program /\ Rest(x, y)
  /\ y.sends = x.sends /\ y.count = x.count
  /\ y.heard = x.heard /\ y.fetched = x.fetched /\ y.aborted = x.aborted
  /\ y.chat.in = x.chat.in /\ y.chat.out = x.chat.out
  /\ y.file = x.file \/ Filed(y.file, y.chat)
  /\ y.chat.state = "none" => y.chat = x.chat

\* Who only turns the chat talks, saying nothing.
LEMMA TurnedTalks ==
  ASSUME NEW x \in Program, NEW y, Turned(x, y)
  PROVE  Talks(x, y)
<1>1. Speaks(x, y)
  BY Fields DEF Speaks, Said, Turned
<1> QED BY <1>1 DEF Turned, Talks

\* Another state of the chat, with the same numbers.
LEMMA Turning ==
  ASSUME NEW x \in Program, NEW C \in Chat, NEW A \in Nat, C.in = x.chat.in,
         C.out = x.chat.out, C.state # "none"
  PROVE  LET y == [x EXCEPT !.chat = C, !.asked = A]
         IN Turned(x, y) /\ y.chat = C /\ y.asked = A /\ y.file = x.file
BY DEF Turned, Rest, Program

\* Writing the file after that.
LEMMA WriteTurned ==
  ASSUME NEW x \in Program, NEW y, Turned(x, y)
  PROVE  LET z == WriteChatFile(y)
         IN /\ Turned(x, z) /\ z.chat = y.chat /\ z.asked = y.asked
            /\ Filed(z.file, z.chat)
<1> DEFINE z == WriteChatFile(y)
<1>1. z \in Program /\ z = [y EXCEPT !.file = z.file] /\ Filed(z.file, y.chat)
      /\ y \in Program
  BY Writing DEF Turned
<1> HIDE DEF z
<1>2. /\ z.chat = y.chat /\ z.count = y.count /\ z.sends = y.sends
      /\ z.heard = y.heard /\ z.fetched = y.fetched /\ z.asked = y.asked
      /\ z.aborted = y.aborted /\ Rest(y, z)
  BY <1>1 DEF Program, Rest
<1> QED BY <1>1, <1>2 DEF Turned, Rest, z

\* Nothing turned.
LEMMA Unturned ==
  ASSUME NEW x \in Program
  PROVE  Turned(x, x)
BY DEF Turned, Rest

\* bl_do_peer_delete turns nothing but the flag and the file.
LEMMA PeerDeleteTurned ==
  ASSUME NEW x \in Program
  PROVE  LET y == PeerDelete(x)
         IN /\ Turned(x, y) /\ y.chat.state = x.chat.state
            /\ y.chat.key = x.chat.key /\ y.chat.gkey = x.chat.gkey
            /\ y.asked = x.asked
<1> DEFINE C == [x.chat EXCEPT !.deleted = TRUE]
           z == [x EXCEPT !.chat = C, !.asked = x.asked]
<1>1. CASE ~(x.chat.state = "none" \/ x.chat.deleted)
  <2>1. /\ C \in Chat /\ C.state = x.chat.state /\ C.key = x.chat.key
        /\ C.gkey = x.chat.gkey /\ C.in = x.chat.in /\ C.out = x.chat.out
        /\ x.asked \in Nat
    BY DEF Program, Chat
  <2>2. z = [x EXCEPT !.chat.deleted = TRUE]
    BY DEF Program
  <2>3. PeerDelete(x) = WriteChatFile(z)
    BY <1>1, <2>2 DEF PeerDelete
  <2> HIDE DEF C
  <2>4. Turned(x, z) /\ z.chat = C /\ z.asked = x.asked
    BY <1>1, <2>1, Turning
  <2> HIDE DEF z
  <2>5. LET w == WriteChatFile(z)
        IN Turned(x, w) /\ w.chat = z.chat /\ w.asked = z.asked
    BY <2>4, WriteTurned
  <2> QED BY <2>1, <2>3, <2>4, <2>5
<1>2. CASE x.chat.state = "none" \/ x.chat.deleted
  BY <1>2, Unturned DEF PeerDelete
<1> QED BY <1>1, <1>2

\* The constructors of encryptedChat that tglf_fetch_alloc_encrypted_chat is
\* given.
Magic == {"requested", "ready", "discarded", "waiting"}

\* The key after tgl_do_create_keys_end, which only a waiting chat reaches.
KeyAfter(x) ==
  IF x.chat.state # "waiting" THEN x.chat.key
  ELSE IF x.chat.key = "half" THEN "shared" ELSE "wrong"

\* What the constructor magic makes of the state and the keys of the chat.
Answered(x, y, magic) ==
  /\ magic = "discarded" \/ (x.chat.state = "none" /\ magic # "requested") =>
       /\ y.chat.state = x.chat.state /\ y.chat.key = x.chat.key
       /\ y.chat.gkey = x.chat.gkey /\ y.asked = x.asked
  /\ magic = "requested" /\ x.chat.state = "none" =>
       /\ y.chat.state = "request" /\ y.chat.key = "none"
       /\ y.chat.gkey = "half"
  /\ magic = "waiting" /\ x.chat.state # "none" =>
       /\ y.chat.state = "waiting" /\ y.chat.key = x.chat.key
       /\ y.asked = x.asked
  /\ magic \in {"requested", "ready"} /\ x.chat.state # "none" =>
       /\ y.chat.state = "ok" /\ y.chat.key = KeyAfter(x)
       /\ y.asked = x.asked
       /\ x.chat.state # "ok" => Filed(y.file, y.chat)

\* tglf_fetch_alloc_encrypted_chat turns the chat as its constructor says.
LEMMA FetchChatIs ==
  ASSUME NEW x \in Program, Blank(x), NEW magic \in Magic
  PROVE  Turned(x, FetchChat(x, magic))
         /\ Answered(x, FetchChat(x, magic), magic)
<1> DEFINE y == FetchChat(x, magic)
<1>1. CASE magic = "discarded"
  <2>1. y = PeerDelete(x)
    BY <1>1 DEF FetchChat
  <2> QED BY <1>1, <2>1, PeerDeleteTurned DEF Answered
<1>2. CASE magic # "discarded" /\ magic # "requested" /\ x.chat.state = "none"
  <2>1. y = x
    BY <1>2 DEF FetchChat
  <2> QED BY <1>2, <2>1, Unturned DEF Answered
<1>3. CASE magic = "requested" /\ x.chat.state = "none"
  <2> DEFINE C == [NewChat EXCEPT !.state = "request", !.gkey = "half"]
             A == IF AutoAccept THEN x.asked + 1 ELSE x.asked
  <2>1. /\ C \in Chat /\ A \in Nat /\ C.in = x.chat.in /\ C.out = x.chat.out
        /\ C.state = "request" /\ C.key = "none" /\ C.gkey = "half"
    <3>1. x.chat = NewChat /\ x.asked \in Nat
      BY <1>3, Fields DEF Blank
    <3>2. A \in Nat
      BY <3>1
    <3>3. /\ C \in Chat /\ C.in = NewChat.in /\ C.out = NewChat.out
          /\ C.state = "request" /\ C.gkey = "half"
          /\ C.key = NewChat.key
      BY NewIs DEF Chat
    <3>4. NewChat.key = "none"
      BY DEF NewChat
    <3> QED BY <3>1, <3>2, <3>3, <3>4
  <2>2. y = [x EXCEPT !.chat = C, !.asked = A]
    BY <1>3 DEF FetchChat
  <2> HIDE DEF C, A
  <2>3. Turned(x, [x EXCEPT !.chat = C, !.asked = A])
        /\ [x EXCEPT !.chat = C, !.asked = A].chat = C
    BY <2>1, Turning
  <2> QED BY <1>3, <2>1, <2>2, <2>3 DEF Answered
<1>4. CASE magic = "waiting" /\ x.chat.state # "none"
  <2> DEFINE C == [x.chat EXCEPT !.state = "waiting"]
             z == [x EXCEPT !.chat = C, !.asked = x.asked]
  <2>1. /\ C \in Chat /\ C.in = x.chat.in /\ C.out = x.chat.out
        /\ C.state = "waiting" /\ C.key = x.chat.key /\ x.asked \in Nat
    BY DEF Program, Chat
  <2>2. y = z
    BY <1>4 DEF FetchChat, Program
  <2> HIDE DEF C
  <2>3. Turned(x, z) /\ z.chat = C /\ z.asked = x.asked
    BY <2>1, Turning
  <2> QED BY <1>4, <2>1, <2>2, <2>3 DEF Answered
<1>5. CASE magic \in {"requested", "ready"} /\ x.chat.state # "none"
  <2> DEFINE chat == [x.chat EXCEPT !.gkey = IF magic = "ready" THEN "half"
                                             ELSE "none"]
             done == IF chat.state = "waiting" THEN KeysEnd(chat) ELSE chat
             C == [done EXCEPT !.state = "ok"]
             z == [x EXCEPT !.chat = C, !.asked = x.asked]
  <2>1. /\ chat \in Chat /\ chat.in = x.chat.in /\ chat.out = x.chat.out
        /\ chat.state = x.chat.state /\ chat.key = x.chat.key
    BY DEF Program, Chat
  <2> HIDE DEF chat
  <2>2. /\ done \in Chat /\ done.in = x.chat.in /\ done.out = x.chat.out
        /\ done.key = KeyAfter(x)
    BY <2>1 DEF KeysEnd, KeyAfter, Chat, Key
  <2>3. y = IF x.chat.state = "ok" THEN z ELSE WriteChatFile(z)
    <3>1. z = [x EXCEPT !.chat = C]
      BY DEF Program
    <3> QED BY <1>5, <3>1 DEF FetchChat, chat
  <2> HIDE DEF done
  <2>4. /\ C \in Chat /\ C.in = x.chat.in /\ C.out = x.chat.out
        /\ C.state = "ok" /\ C.key = KeyAfter(x) /\ x.asked \in Nat
    BY <2>2 DEF Chat, Program
  <2> HIDE DEF C
  <2>5. Turned(x, z) /\ z.chat = C /\ z.asked = x.asked
    BY <2>4, Turning
  <2> HIDE DEF z
  <2>6. LET w == WriteChatFile(z)
        IN /\ Turned(x, w) /\ w.chat = z.chat /\ w.asked = z.asked
           /\ Filed(w.file, w.chat)
    BY <2>5, WriteTurned
  <2>7. Turned(x, y) /\ y.chat = C /\ y.asked = x.asked
        /\ (x.chat.state # "ok" => Filed(y.file, y.chat))
    BY <2>3, <2>5, <2>6
  <2> HIDE DEF y
  <2> QED BY <1>5, <2>4, <2>7 DEF Answered, y
<1> QED BY <1>1, <1>2, <1>3, <1>4, <1>5 DEF Magic

\* One more request that is no message.
LEMMA AskTalks ==
  ASSUME NEW x \in Program, NEW y, Turned(x, y), NEW q \in Query,
         q.kind # "message"
  PROVE  LET z == Ask(y, q.kind, q.text)
         IN /\ Talks(x, z) /\ Rest(x, z) /\ z.aborted = y.aborted
            /\ z.chat = y.chat /\ z.asked = y.asked /\ z.file = y.file
            /\ \A r \in Elements(z.sends) : r \in Elements(x.sends) \/ r = q
            /\ z.sends = Append(x.sends, q)
<1> DEFINE z == Ask(y, q.kind, q.text)
<1>1. z \in Program /\ z = [y EXCEPT !.sends = Append(y.sends, q)]
  BY Asking DEF Turned
<1>2. y \in Program /\ y.sends = x.sends /\ x.sends \in Seq(Query)
  BY Fields DEF Turned
<1> HIDE DEF z
<1>3. /\ z.chat = y.chat /\ z.count = y.count /\ z.sends = Append(x.sends, q)
      /\ z.heard = y.heard /\ z.fetched = y.fetched /\ z.asked = y.asked
      /\ z.aborted = y.aborted /\ z.file = y.file /\ Rest(y, z)
  BY <1>1, <1>2 DEF Program, Rest
<1>4. Said(z) = Said(x)
  BY <1>2, <1>3 DEF Said
<1>5. Speaks(x, z)
  BY <1>3, <1>4, Fields DEF Speaks, Turned
<1>6. Talks(x, z) /\ Rest(x, z)
  BY <1>1, <1>3, <1>5 DEF Talks, Turned, Rest
<1>7. \A r \in Elements(z.sends) : r \in Elements(x.sends) \/ r = q
  BY <1>2, <1>3 DEF Elements
<1> QED BY <1>3, <1>6, <1>7 DEF z

\* What tglu_work_update makes of a client with an update of the chat.
Worked(x, y, magic) ==
  /\ Talks(x, y) /\ Rest(x, y) /\ Answered(x, y, magic)
  /\ y.aborted = x.aborted
  /\ \A q \in Elements(y.sends) : q \in Elements(x.sends) \/ q.kind = "message"

\* tglu_work_update of updateEncryption fetches the chat and may tell the
\* layer.
LEMMA WorkIs ==
  ASSUME NEW x \in Program, Blank(x), NEW magic \in Magic
  PROVE  Worked(x, WorkEncryption(x, magic), magic)
<1> DEFINE y == FetchChat(x, magic)
           z == SendLayer(y)
<1>1. Turned(x, y) /\ Answered(x, y, magic)
  BY FetchChatIs
<1> HIDE DEF y
<1>2. CASE y.chat.state # "ok"
  <2>1. WorkEncryption(x, magic) = y
    BY <1>2 DEF WorkEncryption, y
  <2>2. Talks(x, y)
    BY <1>1, TurnedTalks
  <2> QED BY <1>1, <2>1, <2>2 DEF Worked, Turned
<1>3. CASE y.chat.state = "ok"
  <2>1. WorkEncryption(x, magic) = z
    BY <1>3 DEF WorkEncryption, y
  <2>2. y \in Program /\ y.chat.state # "none"
    BY <1>1, <1>3 DEF Turned
  <2>3. /\ Talks(y, z) /\ Rest(y, z) /\ z.chat.state = y.chat.state
        /\ z.chat.key = y.chat.key /\ z.chat.gkey = y.chat.gkey
        /\ z.asked = y.asked /\ z.aborted = y.aborted /\ z.file = y.file
        /\ \A q \in Elements(z.sends) :
             q \in Elements(y.sends) \/ q.kind = "message"
    BY <2>2, LayerTalks
  <2> HIDE DEF z
  <2>4. Speaks(x, z)
    BY <1>1, <2>3 DEF Turned, Talks, Speaks, Said
  <2>5. Talks(x, z)
    BY <1>1, <1>3, <2>3, <2>4 DEF Turned, Talks, Filed
  <2>6. Rest(x, z) /\ z.aborted = x.aborted /\ y.sends = x.sends
    BY <1>1, <2>3 DEF Turned, Rest
  <2>7. Answered(x, z, magic)
    BY <1>1, <2>3, <2>5 DEF Answered, Filed, Talks
  <2> QED BY <2>1, <2>3, <2>5, <2>6, <2>7 DEF Worked
<1> QED BY <1>2, <1>3

\* tgl_do_send_accept_encr_chat, by whether there is a key and a half of it: a
\* key is made from a half and for a chat without one only.
LEMMA SendAcceptIs ==
  ASSUME NEW x \in Program, x.asked > 0
  PROVE  LET y == SendAccept(x)
         IN /\ Talks(x, y) /\ Rest(x, y) /\ y.asked = x.asked - 1
            /\ x.chat.key # "none" =>
                 /\ y.chat = x.chat /\ y.file = x.file /\ y.sends = x.sends
                 /\ y.aborted = x.aborted
            /\ x.chat.key = "none" /\ x.chat.gkey # "none" =>
                 /\ y.chat.state = "ok" /\ y.chat.key = "shared"
                 /\ Filed(y.file, y.chat) /\ y.aborted = x.aborted
                 /\ \A q \in Elements(y.sends) :
                      q \in Elements(x.sends) \/ q.kind = "accept"
            /\ \A q \in Elements(y.sends) :
                 q \in Elements(x.sends) \/ q.kind = "accept"
            /\ x.chat.key = "none" /\ x.chat.gkey = "none" =>
                 y.chat = x.chat /\ y.sends = x.sends
<1> DEFINE z == [x EXCEPT !.asked = @ - 1]
           y == SendAccept(x)
<1>1. x.asked - 1 \in Nat /\ x.asked \in Nat
  BY Fields
<1>2. /\ z \in Program /\ Turned(x, z) /\ z.chat = x.chat
      /\ z.asked = x.asked - 1 /\ z.file = x.file /\ z.sends = x.sends
      /\ z.aborted = x.aborted /\ Rest(x, z)
  BY <1>1 DEF Program, Turned, Rest
<1>3. CASE x.chat.key # "none"
  <2>1. y = z
    BY <1>2, <1>3 DEF SendAccept
  <2> HIDE DEF y, z
  <2>2. Talks(x, z)
    BY <1>2, TurnedTalks
  <2> QED BY <1>2, <1>3, <2>1, <2>2 DEF y
<1>4. CASE x.chat.key = "none" /\ x.chat.gkey = "none"
  <2>1. y = [z EXCEPT !.aborted = TRUE]
    BY <1>2, <1>4 DEF SendAccept
  <2> HIDE DEF y, z
  <2>2. /\ y \in Program /\ y.chat = x.chat /\ y.file = x.file
        /\ y.sends = x.sends /\ y.asked = x.asked - 1 /\ y.heard = x.heard
        /\ y.fetched = x.fetched /\ y.count = x.count /\ Rest(x, y)
    BY <1>2, <2>1 DEF Program, Turned, Rest
  <2>3. Speaks(x, y)
    BY <2>2, Fields DEF Speaks, Said
  <2>4. Talks(x, y)
    BY <2>2, <2>3 DEF Talks
  <2> QED BY <1>4, <2>2, <2>4 DEF y
<1>5. CASE x.chat.key = "none" /\ x.chat.gkey # "none"
  <2> DEFINE C == [x.chat EXCEPT !.key = "shared", !.state = "ok"]
             v == [x EXCEPT !.chat = C, !.asked = x.asked - 1]
             w == WriteChatFile(v)
             q == [kind |-> "accept", text |-> NoText]
  <2>1. /\ C \in Chat /\ C.in = x.chat.in /\ C.out = x.chat.out
        /\ C.state = "ok" /\ C.key = "shared"
    BY DEF Program, Chat, Key
  <2>2. q \in Query /\ q.kind = "accept" /\ q.text = NoText
    BY DEF Query, Text, NoText, Key
  <2>3. y = Ask(w, "accept", NoText)
    <3>1. [z EXCEPT !.chat.key = "shared", !.chat.state = "ok"] = v
      BY DEF Program
    <3> QED BY <1>2, <1>5, <3>1 DEF SendAccept
  <2> HIDE DEF C, q, z
  <2>4. Turned(x, v) /\ v.chat = C /\ v.asked = x.asked - 1
    <3> DEFINE A == x.asked - 1
    <3>1. A \in Nat /\ v = [x EXCEPT !.chat = C, !.asked = A]
      BY <1>1
    <3> HIDE DEF A, v, y
    <3>2. Turned(x, v) /\ v.chat = C /\ v.asked = A
      BY <2>1, <3>1, Turning
    <3> QED BY <3>2 DEF A
  <2> HIDE DEF v
  <2>5. Turned(x, w) /\ w.chat = C /\ w.asked = x.asked - 1
        /\ Filed(w.file, w.chat)
    BY <2>4, WriteTurned
  <2> HIDE DEF w
  <2>6. y = Ask(w, q.kind, q.text) /\ q.kind # "message"
    BY <2>2, <2>3
  <2> HIDE DEF y
  <2>7. /\ Talks(x, y) /\ Rest(x, y) /\ y.aborted = w.aborted
        /\ y.chat = w.chat /\ y.asked = w.asked /\ y.file = w.file
        /\ \A r \in Elements(y.sends) : r \in Elements(x.sends) \/ r = q
    BY <2>2, <2>5, <2>6, AskTalks
  <2>8. y.aborted = x.aborted
    BY <2>5, <2>7 DEF Turned
  <2> QED BY <1>5, <2>1, <2>2, <2>5, <2>7, <2>8 DEF y
<1> QED BY <1>3, <1>4, <1>5

\* A step of a client keeps it orderly, and exact if it was.  What it has of
\* messages it had or M brought, and the number expected next changes by a
\* message of M.
Step(x, y, M) ==
  /\ Orderly(y) /\ Speaks(x, y) /\ (Exact(x) => Exact(y))
  /\ Elements(y.heard) \cup Elements(y.fetched)
       \subseteq Elements(x.heard) \cup Elements(x.fetched) \cup M
  /\ y.chat.in = x.chat.in \/ \E m \in M : y.chat.in = m.number + 1

\* What y keeps of x: all that the exchange of the key depends on.
Kept(x, y) ==
  /\ y.chat.state = x.chat.state /\ y.chat.key = x.chat.key
  /\ y.chat.gkey = x.chat.gkey /\ y.asked = x.asked /\ y.sends = x.sends
  /\ y.aborted = x.aborted
  /\ y.file = x.file \/ Filed(y.file, y.chat)

\* A client that talks steps, if its chat is not made anew after messages.
LEMMA TalksSteps ==
  ASSUME NEW x, Orderly(x), NEW y, Talks(x, y), NEW M,
         x.chat.state = "none" => y.chat.state = "none" \/ x.heard = <<>>
  PROVE  Step(x, y, M)
<1>1. x \in Program /\ y \in Program
  BY DEF Orderly, Talks
<1>2. y.heard = x.heard /\ y.fetched = x.fetched /\ y.chat.in = x.chat.in
  BY DEF Talks
<1>3. Exact(x) => Exact(y)
  BY <1>2 DEF Exact
<1>4. x.chat.state = "none" => x.fetched = <<>>
  BY DEF Orderly
<1>5. y.chat.state # "none" =>
        /\ \A j \in DOMAIN x.heard : x.heard[j].number < y.chat.in
        /\ \A j \in DOMAIN x.fetched : x.fetched[j].number < y.chat.in
  BY <1>2, <1>4 DEF Orderly
<1>6. y.file = NewChat \/ y.file.state = "ok"
  BY DEF Talks, Filed, Orderly
<1>7. y.file.state = "ok" =>
        \A j \in DOMAIN x.heard : x.heard[j].number < y.file.in
  <2>1. CASE y.file = x.file
    BY <2>1 DEF Orderly
  <2>2. CASE Filed(y.file, y.chat)
    BY <2>2, <1>5, NewIs DEF Filed
  <2> QED BY <2>1, <2>2 DEF Talks
<1>8. y.chat.state = "none" => y.chat = NewChat /\ y.fetched = <<>>
  BY <1>2, <1>4 DEF Talks, Orderly
<1>9. Orderly(y)
  BY <1>1, <1>2, <1>5, <1>6, <1>7, <1>8 DEF Orderly
<1> QED BY <1>2, <1>3, <1>9 DEF Step, Talks

\* tglf_fetch_encrypted_message: only the next number gets in.
LEMMA Fetched ==
  ASSUME NEW x, Orderly(x), NEW m \in Text
  PROVE  LET y == FetchMessage(x, m)
         IN /\ Step(x, y, {m}) /\ Kept(x, y) /\ Rest(x, y)
            /\ y.heard = x.heard
<1> DEFINE y == FetchMessage(x, m)
<1>0. x \in Program
  BY DEF Orderly
<1>1. CASE x.chat.state # "ok" \/ ~Fits(x.chat, m)
  <2>1. y = x
    BY <1>1 DEF FetchMessage
  <2>2. Speaks(x, x)
    BY <1>0, Fields DEF Speaks
  <2> QED BY <2>1, <2>2 DEF Step, Kept, Rest
<1>2. CASE x.chat.state = "ok" /\ Fits(x.chat, m)
  <2> DEFINE C == [x.chat EXCEPT !.in = m.number + 1, !.last = m.expects]
  <2>1. m.number = x.chat.in /\ x.chat.in \in Nat /\ m.expects \in Nat
    BY <1>0, <1>2, Fields DEF Fits, Text
  <2>2. /\ C \in Chat /\ C.in = m.number + 1 /\ C.state = "ok"
        /\ C.key = x.chat.key /\ C.gkey = x.chat.gkey /\ C.out = x.chat.out
    <3>1. x.chat \in Chat /\ m.number + 1 \in Nat
      BY <1>0, <2>1, Fields
    <3> QED BY <1>2, <2>1, <3>1 DEF Chat
  <2>3. y = [x EXCEPT !.chat = C, !.fetched = Append(x.fetched, m)]
    BY <1>0, <1>2 DEF FetchMessage, Program
  <2> HIDE DEF C
  <2>4. Append(x.fetched, m) \in Seq(Text) /\ x.fetched \in Seq(Text)
        /\ x.heard \in Seq(Text)
    BY <1>0, Fields
  <2>5. /\ y \in Program /\ y.chat = C /\ y.fetched = Append(x.fetched, m)
        /\ y.heard = x.heard /\ y.file = x.file /\ y.sends = x.sends
        /\ y.count = x.count /\ y.asked = x.asked /\ y.aborted = x.aborted
        /\ Rest(x, y)
    BY <1>0, <2>2, <2>3, <2>4 DEF Program, Rest
  <2> HIDE DEF y
  <2>6. \A t \in Elements(y.fetched) : t \in Elements(x.fetched) \/ t = m
    BY <2>4, <2>5 DEF Elements
  <2>7. Speaks(x, y)
    BY <1>0, <2>2, <2>5, Fields DEF Speaks, Said
  <2>8. /\ Len(y.fetched) = Len(x.fetched) + 1
        /\ \A k \in DOMAIN y.fetched :
             \/ k \in DOMAIN x.fetched /\ y.fetched[k] = x.fetched[k]
             \/ k = Len(x.fetched) + 1 /\ y.fetched[k] = m
    BY <2>4, <2>5
  <2>9. ASSUME Exact(x)
        PROVE  Exact(y)
    <3>1. /\ x.chat.in = Size(x.heard) + Size(x.fetched)
          /\ \A k \in DOMAIN x.heard : x.heard[k].number = k - 1
          /\ \A k \in DOMAIN x.fetched :
               x.fetched[k].number = Size(x.heard) + k - 1
      BY <2>9 DEF Exact
    <3>2. /\ Size(y.heard) = Size(x.heard)
          /\ Size(x.heard) \in Nat /\ Size(x.fetched) \in Nat
          /\ Size(y.fetched) = Size(x.fetched) + 1
          /\ \A k \in DOMAIN y.fetched :
               \/ k \in DOMAIN x.fetched /\ y.fetched[k] = x.fetched[k]
               \/ k = Size(x.fetched) + 1 /\ y.fetched[k] = m
      BY <2>4, <2>5, <2>8 DEF Size
    <3>3. y.chat.in = x.chat.in + 1 /\ m.number = x.chat.in
      BY <2>1, <2>2, <2>5
    <3>4. y.chat.in = Size(y.heard) + Size(y.fetched)
      BY ONLY <3>1, <3>2, <3>3
    <3>5. \A k \in DOMAIN y.fetched :
            y.fetched[k].number = Size(y.heard) + k - 1
      BY ONLY <3>1, <3>2, <3>3
    <3> QED BY <2>5, <3>1, <3>4, <3>5 DEF Exact
  <2>10. \A j \in DOMAIN x.heard : x.heard[j].number < m.number
    BY <1>2, <2>1 DEF Orderly
  <2>11. \A j \in DOMAIN x.fetched : x.fetched[j].number < m.number
    BY <1>2, <2>1 DEF Orderly
  <2>12. /\ \A j \in DOMAIN x.heard : x.heard[j].number \in Int
         /\ \A j \in DOMAIN x.fetched : x.fetched[j].number \in Int
    <3>1. \A t \in Text : t.number \in Int
      BY DEF Text
    <3>2. /\ \A j \in DOMAIN x.heard : x.heard[j] \in Text
          /\ \A j \in DOMAIN x.fetched : x.fetched[j] \in Text
      BY <2>4
    <3> QED BY <3>1, <3>2
  <2>13. \A j, k \in DOMAIN y.fetched :
           j < k => y.fetched[j].number < y.fetched[k].number
    <3> SUFFICES ASSUME NEW j \in DOMAIN y.fetched,
                        NEW k \in DOMAIN y.fetched, j < k
                 PROVE  y.fetched[j].number < y.fetched[k].number
      OBVIOUS
    <3>1. j \in 1 .. Len(x.fetched) + 1 /\ k \in 1 .. Len(x.fetched) + 1
          /\ DOMAIN x.fetched = 1 .. Len(x.fetched) /\ Len(x.fetched) \in Nat
      BY <2>4, <2>5
    <3>2. j \in DOMAIN x.fetched /\ y.fetched[j] = x.fetched[j]
      BY <3>1, <2>8
    <3>3. CASE k \in DOMAIN x.fetched
      <4>1. y.fetched[k] = x.fetched[k]
        BY <3>1, <3>3, <2>8
      <4> QED BY <3>2, <3>3, <4>1 DEF Orderly
    <3>4. CASE y.fetched[k] = m
      BY <3>2, <3>4, <2>11
    <3> QED BY <3>3, <3>4, <2>8
  <2>14. \A j \in DOMAIN x.heard, k \in DOMAIN y.fetched :
           x.heard[j].number < y.fetched[k].number
    BY <2>8, <2>10 DEF Orderly
  <2>15. /\ \A j \in DOMAIN x.heard : x.heard[j].number < C.in
         /\ \A j \in DOMAIN y.fetched : y.fetched[j].number < C.in
    BY <2>1, <2>2, <2>8, <2>10, <2>11, <2>12
  <2>16. Orderly(y)
    <3>1. y.chat.state # "none"
      BY <2>2, <2>5
    <3>2. /\ x.file = NewChat \/ x.file.state = "ok"
          /\ \A j, k \in DOMAIN x.heard :
               j < k => x.heard[j].number < x.heard[k].number
          /\ x.file.state = "ok" =>
               \A j \in DOMAIN x.heard : x.heard[j].number < x.file.in
      BY DEF Orderly
    <3> QED BY <2>5, <2>13, <2>14, <2>15, <3>1, <3>2 DEF Orderly
  <2>17. Kept(x, y)
    BY <1>2, <2>2, <2>5 DEF Kept
  <2>18. Step(x, y, {m})
    BY <2>2, <2>5, <2>6, <2>7, <2>9, <2>16 DEF Step
  <2> QED BY <2>5, <2>17, <2>18 DEF y
<1> QED BY <1>1, <1>2

\* The first message that was fetched is heard, and the file expects more.
LEMMA Shown ==
  ASSUME NEW x, Orderly(x)
  PROVE  LET y == ShowMessage(x)
         IN Step(x, y, {}) /\ Kept(x, y) /\ Rest(x, y)
<1> DEFINE y == ShowMessage(x)
<1>0. x \in Program
  BY DEF Orderly
<1>1. CASE x.fetched = <<>>
  <2>1. y = x
    BY <1>1 DEF ShowMessage
  <2>2. Speaks(x, x)
    BY <1>0, Fields DEF Speaks
  <2> QED BY <2>1, <2>2 DEF Step, Kept, Rest
<1>2. CASE x.fetched # <<>>
  <2> DEFINE m == Head(x.fetched)
             z == [x EXCEPT !.fetched = Tail(x.fetched),
                            !.heard = Append(x.heard, m)]
  <2>1. /\ x.fetched \in Seq(Text) /\ x.heard \in Seq(Text)
        /\ Len(x.fetched) \in Nat /\ Len(x.heard) \in Nat
        /\ DOMAIN x.fetched = 1 .. Len(x.fetched)
        /\ DOMAIN x.heard = 1 .. Len(x.heard)
    BY <1>0, Fields
  <2>2. /\ m \in Text /\ Tail(x.fetched) \in Seq(Text)
        /\ Append(x.heard, m) \in Seq(Text) /\ Len(x.fetched) >= 1
        /\ m = x.fetched[1] /\ 1 \in DOMAIN x.fetched
    BY <1>2, <2>1
  <2>3. y = WriteChatFile(z)
    BY <1>0, <1>2 DEF ShowMessage, Program
  <2>4. z \in Program
    BY <1>0, <2>2 DEF Program
  <2>5. y \in Program /\ y = [z EXCEPT !.file = y.file]
        /\ Filed(y.file, z.chat)
    BY <2>3, <2>4, Writing
  <2> HIDE DEF y, m
  <2>6. /\ y.chat = x.chat /\ y.fetched = Tail(x.fetched)
        /\ y.heard = Append(x.heard, m) /\ y.sends = x.sends
        /\ y.count = x.count /\ y.asked = x.asked /\ y.aborted = x.aborted
        /\ Rest(x, y)
    BY <1>0, <2>5 DEF Program, Rest
  <2> HIDE DEF z
  <2>7. /\ Len(y.fetched) = Len(x.fetched) - 1
        /\ Len(y.heard) = Len(x.heard) + 1
        /\ DOMAIN y.fetched = 1 .. Len(x.fetched) - 1
        /\ DOMAIN y.heard = 1 .. Len(x.heard) + 1
    BY <2>1, <2>2, <2>6
  <2>8. \A k \in DOMAIN y.fetched :
          k + 1 \in DOMAIN x.fetched /\ y.fetched[k] = x.fetched[k + 1]
    BY <2>1, <2>2, <2>6, <2>7
  <2>9. \A k \in DOMAIN y.heard :
          \/ k \in DOMAIN x.heard /\ y.heard[k] = x.heard[k]
          \/ k = Len(x.heard) + 1 /\ y.heard[k] = m
    BY <2>1, <2>6, <2>7
  <2>10. Speaks(x, y)
    BY <1>0, <2>6, Fields DEF Speaks, Said
  <2>11. Elements(y.heard) \cup Elements(y.fetched)
           \subseteq Elements(x.heard) \cup Elements(x.fetched)
    <3>1. Elements(y.fetched) \subseteq Elements(x.fetched)
      BY <2>8 DEF Elements
    <3>2. Elements(y.heard) \subseteq Elements(x.heard) \cup {m}
      BY <2>9 DEF Elements
    <3>3. m \in Elements(x.fetched)
      BY <2>2 DEF Elements
    <3> QED BY <3>1, <3>2, <3>3
  <2>12. ASSUME Exact(x)
         PROVE  Exact(y)
    <3>1. /\ x.chat.in = Size(x.heard) + Size(x.fetched)
          /\ \A k \in DOMAIN x.heard : x.heard[k].number = k - 1
          /\ \A k \in DOMAIN x.fetched :
               x.fetched[k].number = Size(x.heard) + k - 1
      BY <2>12 DEF Exact
    <3>2. /\ Size(y.heard) = Size(x.heard) + 1
          /\ Size(x.heard) \in Nat /\ Size(x.fetched) \in Nat
          /\ Size(y.fetched) = Size(x.fetched) - 1
          /\ \A k \in DOMAIN y.heard :
               \/ k \in DOMAIN x.heard /\ y.heard[k] = x.heard[k]
               \/ k = Size(x.heard) + 1 /\ y.heard[k] = m
          /\ \A k \in DOMAIN y.fetched : k \in Int
      BY <2>1, <2>7, <2>9 DEF Size
    <3>3. y.chat.in = x.chat.in
      BY <2>6
    <3>4. y.chat.in = Size(y.heard) + Size(y.fetched)
      BY ONLY <3>1, <3>2, <3>3
    <3>5. m.number = Size(x.heard)
      <4>1. m.number = Size(x.heard) + 1 - 1
        BY <2>2, <3>1
      <4> QED BY ONLY <3>2, <4>1
    <3>6. \A k \in DOMAIN y.heard : y.heard[k].number = k - 1
      BY ONLY <3>1, <3>2, <3>5
    <3>7. \A k \in DOMAIN y.fetched :
            y.fetched[k].number = Size(y.heard) + k - 1
      <4> SUFFICES ASSUME NEW k \in DOMAIN y.fetched
                   PROVE  y.fetched[k].number = Size(y.heard) + k - 1
        OBVIOUS
      <4>1. k + 1 \in DOMAIN x.fetched /\ y.fetched[k] = x.fetched[k + 1]
        BY <2>8
      <4>2. x.fetched[k + 1].number = Size(x.heard) + (k + 1) - 1
        BY <3>1, <4>1
      <4>3. k \in Int
        BY <3>2
      <4>4. y.fetched[k].number = Size(x.heard) + (k + 1) - 1
        BY <4>1, <4>2
      <4> QED BY ONLY <3>2, <4>3, <4>4
    <3> QED BY <3>4, <3>6, <3>7 DEF Exact
  <2>13. /\ \A j, k \in DOMAIN x.fetched :
              j < k => x.fetched[j].number < x.fetched[k].number
         /\ \A j, k \in DOMAIN x.heard :
              j < k => x.heard[j].number < x.heard[k].number
         /\ \A j \in DOMAIN x.heard, k \in DOMAIN x.fetched :
              x.heard[j].number < x.fetched[k].number
         /\ x.chat.state # "none"
         /\ \A j \in DOMAIN x.heard : x.heard[j].number < x.chat.in
         /\ \A j \in DOMAIN x.fetched : x.fetched[j].number < x.chat.in
    BY <1>2 DEF Orderly
  <2>14. \A j, k \in DOMAIN y.fetched :
           j < k => y.fetched[j].number < y.fetched[k].number
    <3> SUFFICES ASSUME NEW j \in DOMAIN y.fetched,
                        NEW k \in DOMAIN y.fetched, j < k
                 PROVE  y.fetched[j].number < y.fetched[k].number
      OBVIOUS
    <3>1. j + 1 \in DOMAIN x.fetched /\ k + 1 \in DOMAIN x.fetched
          /\ j + 1 < k + 1
      BY <2>7, <2>8
    <3>2. x.fetched[j + 1].number < x.fetched[k + 1].number
      BY <2>13, <3>1
    <3> QED BY <2>8, <3>2
  <2>15. \A j, k \in DOMAIN y.heard :
           j < k => y.heard[j].number < y.heard[k].number
    <3> SUFFICES ASSUME NEW j \in DOMAIN y.heard,
                        NEW k \in DOMAIN y.heard, j < k
                 PROVE  y.heard[j].number < y.heard[k].number
      OBVIOUS
    <3>1. j \in DOMAIN x.heard /\ y.heard[j] = x.heard[j]
      BY <2>1, <2>7, <2>9
    <3>2. CASE k \in DOMAIN x.heard /\ y.heard[k] = x.heard[k]
      BY <2>13, <3>1, <3>2
    <3>3. CASE y.heard[k] = m
      BY <2>2, <2>13, <3>1, <3>3
    <3> QED BY <2>9, <3>2, <3>3
  <2>16. \A j \in DOMAIN y.heard, k \in DOMAIN y.fetched :
           y.heard[j].number < y.fetched[k].number
    <3> SUFFICES ASSUME NEW j \in DOMAIN y.heard, NEW k \in DOMAIN y.fetched
                 PROVE  y.heard[j].number < y.fetched[k].number
      OBVIOUS
    <3>1. k + 1 \in DOMAIN x.fetched /\ y.fetched[k] = x.fetched[k + 1]
          /\ 1 < k + 1
      BY <2>7, <2>8
    <3>2. m.number < x.fetched[k + 1].number
      BY <2>2, <2>13, <3>1
    <3> QED BY <2>9, <2>13, <3>1, <3>2
  <2>17. /\ \A j \in DOMAIN y.heard : y.heard[j].number < x.chat.in
         /\ \A j \in DOMAIN y.fetched : y.fetched[j].number < x.chat.in
    BY <2>2, <2>8, <2>9, <2>13
  <2>18. /\ y.file = NewChat \/ y.file.state = "ok"
         /\ y.file.state = "ok" => y.file.in = x.chat.in
    <3>1. z.chat = x.chat
      BY <1>0 DEF Program, z
    <3> QED BY <2>5, <3>1, NewIs DEF Filed
  <2>19. Orderly(y)
    BY <2>5, <2>6, <2>13, <2>14, <2>15, <2>16, <2>17, <2>18 DEF Orderly
  <2>20. Kept(x, y)
    <3>1. z.chat = x.chat
      BY <1>0 DEF Program, z
    <3> QED BY <2>5, <2>6, <3>1 DEF Kept
  <2>21. Step(x, y, {})
    BY <2>6, <2>10, <2>11, <2>12, <2>19 DEF Step
  <2> QED BY <2>6, <2>20, <2>21 DEF y
<1> QED BY <1>1, <1>2

-----------------------------------------------------------------------------
\* y is x but for where it is in a difference.
Same(x, y) ==
  /\ y \in Program /\ y.chat = x.chat /\ y.sends = x.sends
  /\ y.count = x.count /\ y.heard = x.heard /\ y.fetched = x.fetched
  /\ y.file = x.file /\ y.asked = x.asked /\ y.aborted = x.aborted

\* Where a client is in a difference is no matter of order.
LEMMA SameOrderly ==
  ASSUME NEW x, Orderly(x), NEW y, Same(x, y)
  PROVE  Orderly(y)
BY DEF Orderly, Same

\* Nor is getting there.
LEMMA SameSteps ==
  ASSUME NEW x, Orderly(x), NEW y, Same(x, y), NEW M
  PROVE  Step(x, y, M) /\ Kept(x, y)
<1>1. Orderly(y)
  BY SameOrderly
<1>2. Speaks(x, y)
  BY Fields DEF Speaks, Said, Orderly, Same
<1>3. Exact(x) => Exact(y)
  BY DEF Exact, Same
<1> QED BY <1>1, <1>2, <1>3 DEF Step, Kept, Same

\* A step after such a change is one step.
LEMMA SameBefore ==
  ASSUME NEW x, NEW z, Same(x, z), NEW y, NEW M, Step(z, y, M)
  PROVE  Step(x, y, M)
<1>1. Speaks(x, y)
  BY DEF Speaks, Said, Same, Step
<1>2. Exact(x) => Exact(z)
  BY DEF Exact, Same
<1> QED BY <1>1, <1>2 DEF Step, Same

\* Two steps of which the first keeps what is to be sent.
LEMMA StepsStep ==
  ASSUME NEW x, Orderly(x), NEW z, NEW y, NEW M, Step(x, z, M), Kept(x, z),
         Step(z, y, {}), Kept(z, y)
  PROVE  Step(x, y, M) /\ Kept(x, y)
<1>1. x \in Program /\ z \in Program /\ y \in Program
  BY DEF Orderly, Step
<1>2. Said(z) = Said(x) /\ Said(y) = Said(x)
  BY DEF Kept, Said
<1>3. y.count >= x.count /\ y.chat.out >= x.chat.out
  BY <1>1, Fields DEF Step, Speaks
<1>4. Speaks(x, y)
  BY <1>2, <1>3 DEF Speaks
<1>5. Elements(y.heard) \cup Elements(y.fetched)
        \subseteq Elements(x.heard) \cup Elements(x.fetched) \cup M
  BY DEF Step
<1>6. y.chat.in = x.chat.in \/ \E m \in M : y.chat.in = m.number + 1
  BY DEF Step
<1>7. y.file = x.file \/ Filed(y.file, y.chat)
  <2>1. CASE y.file = z.file /\ Filed(z.file, z.chat)
    BY <2>1 DEF Kept, Filed, Step
  <2> QED BY <2>1 DEF Kept
<1> QED BY <1>4, <1>5, <1>6, <1>7 DEF Step, Kept
-----------------------------------------------------------------------------
\* The messages for c, wherever they are.
Texts(c) ==
  Elements(mail[c]) \cup Said(client[Peer(c)])
    \cup Elements(client[c].heard) \cup Elements(client[c].fetched)

\* Messages for c with one id have one number, and ids are what the peer
\* counts.
Numbered(c) ==
  /\ \A t, u \in Texts(c) : t.id = u.id => t.number = u.number
  /\ \A t \in Texts(c) : t.id <= client[Peer(c)].count

\* Without restarts c never expects more than its peer has sent, every message
\* for c has a number its peer has used, and what it expects of c was sent.
Ahead(c) ==
  LET x == client[c]
      p == client[Peer(c)]
  IN /\ Exact(x) /\ x.chat.in <= p.chat.out
     /\ \A t \in Elements(mail[c]) \cup Said(p) :
          t.number < p.chat.out /\ t.expects <= x.chat.out

\* Nothing was heard of the peer.
Silent(x) == x.heard = <<>> /\ x.fetched = <<>>

\* Before the server has a chat nothing was sent and heard.
Fresh ==
  server = "none" => \A c \in Client : mail[c] = <<>> /\ Silent(client[c])

\* A client on the accepting side: its chat waits for no answer, has a file
\* when it is ready, and brings messages only then.  So a chat that is made
\* anew after a crash starts with no message heard.
Accepted(x) ==
  /\ x.chat.state \in {"none", "request", "ok"}
  /\ x.chat.state = "ok" => x.file.state = "ok"
  /\ x.chat.state # "ok" => Silent(x)
  /\ \A q \in Elements(x.sends) : q.kind # "request"

\* The other client is on the accepting side.
Accepting == Accepted(client["other"]) /\ "waiting" \notin answers["other"]

\* The client that asks for the chat is asked for none.
Requesting ==
  "requested" \notin news["admin"] \cup told["admin"] \cup client["admin"].late

\* The inductive invariant for the order of the messages.  That they are heard
\* in order rests on the file too, since a crash goes back to it, and on which
\* side a client is, since a request starts the numbers again.
OrderInv ==
  /\ TypeOK /\ Fresh /\ Accepting /\ Requesting
  /\ \A c \in Client :
       /\ Orderly(client[c]) /\ client[c].left <= Len(mail[c]) /\ Numbered(c)
       /\ "crash" \notin happened => Ahead(c)

\* There are two clients.
LEMMA Peers ==
  ASSUME NEW c \in Client
  PROVE  /\ Peer(c) \in Client /\ Peer(c) # c /\ Peer(Peer(c)) = c
         /\ \A d \in Client : d = c \/ d = Peer(c)
BY DEF Client, Peer

\* The elements of a sequence are of its type; without any it is empty.
LEMMA Elementary ==
  ASSUME NEW S, NEW s \in Seq(S)
  PROVE  Elements(s) \subseteq S /\ (Elements(s) = {} => s = <<>>)
<1>1. \A i \in DOMAIN s : s[i] \in S
  OBVIOUS
<1>2. s # <<>> => 1 \in DOMAIN s
  OBVIOUS
<1>3. s # <<>> => s[1] \in Elements(s)
  BY <1>2 DEF Elements
<1> QED BY <1>1, <1>3 DEF Elements

\* What is said are messages.
LEMMA SaidTyped ==
  ASSUME NEW x \in Program
  PROVE  Said(x) \subseteq Text
<1>1. \A i \in DOMAIN x.sends : x.sends[i] \in Query
  BY Fields
<1>2. \A q \in Query : q.text \in Text
  BY DEF Query
<1> QED BY <1>1, <1>2 DEF Said

\* The messages for a client are messages.
LEMMA TextsTyped ==
  ASSUME TypeOK, NEW c \in Client
  PROVE  /\ client[c] \in Program /\ mail[c] \in Seq(Text)
         /\ Texts(c) \subseteq Text
         /\ \A t \in Texts(c) : t.id \in Nat /\ t.number \in Int
<1>1. \A d \in Client : client[d] \in Program /\ mail[d] \in Seq(Text)
  BY DEF TypeOK
<1>2. Elements(mail[c]) \subseteq Text
  BY <1>1, Elementary
<1>3. Elements(client[c].heard) \subseteq Text
  BY <1>1, Fields, Elementary
<1>4. Elements(client[c].fetched) \subseteq Text
  BY <1>1, Fields, Elementary
<1>5. Said(client[Peer(c)]) \subseteq Text
  BY <1>1, Peers, SaidTyped
<1>6. Texts(c) \subseteq Text
  BY <1>2, <1>3, <1>4, <1>5 DEF Texts
<1>7. \A t \in Text : t.id \in Nat /\ t.number \in Int
  BY DEF Text
<1> QED BY <1>1, <1>6, <1>7

\* The part of a step that is about ids, which a crash keeps as well.
Gathers(x, y, M) ==
  /\ y.count >= x.count
  /\ \A t \in Said(y) : \/ t \in Said(x)
                        \/ /\ t.id = x.count + 1 /\ y.count = x.count + 1
                           /\ t.number = x.chat.out
  /\ Elements(y.heard) \cup Elements(y.fetched)
       \subseteq Elements(x.heard) \cup Elements(x.fetched) \cup M

\* Every step gathers.
LEMMA StepGathers ==
  ASSUME NEW x, NEW y, NEW M, Step(x, y, M)
  PROVE  Gathers(x, y, M)
BY DEF Step, Speaks, Gathers

\* What a step of c does to the messages, apart from those that it sends.
Delivers(c, y) ==
  /\ client' = [client EXCEPT ![c] = y]
  /\ mail' \in [Client -> Seq(Text)] /\ mail'[c] = mail[c]
  /\ Elements(mail'[Peer(c)])
       \subseteq Elements(mail[Peer(c)]) \cup Said(client[c])
  /\ Len(mail'[Peer(c)]) >= Len(mail[Peer(c)])

\* A step of c changes no other client.
LEMMA Delivery ==
  ASSUME TypeOK, NEW c \in Client, NEW y, Delivers(c, y)
  PROVE  client'[c] = y /\ client'[Peer(c)] = client[Peer(c)]
BY Peers DEF TypeOK, Delivers

\* Ids stay unique with their numbers: a new message has the next count.
LEMMA NumbersStay ==
  ASSUME OrderInv, NEW c \in Client, NEW y \in Program, Delivers(c, y),
         Gathers(client[c], y, Elements(mail[c]))
  PROVE  \A d \in Client : Numbered(d)'
<1> DEFINE x == client[c]
           p == Peer(c)
<1>1. client'[c] = y /\ client'[p] = client[p] /\ p \in Client /\ Peer(p) = c
  BY Delivery, Peers DEF OrderInv
<1>2. Numbered(c)'
  <2>1. Texts(c)' \subseteq Texts(c)
    BY <1>1 DEF Texts, Gathers, Delivers
  <2> QED BY <1>1, <2>1 DEF Numbered, OrderInv
<1>3. Numbered(p)'
  <2>1. x.count \in Nat /\ y.count \in Nat
    BY Fields, TextsTyped DEF OrderInv
  <2>2. \A t \in Texts(p)' :
          \/ t \in Texts(p)
          \/ /\ t.id = x.count + 1 /\ y.count = x.count + 1
             /\ t.number = x.chat.out
    <3>1. Texts(p)' = Elements(mail'[p]) \cup Said(y)
            \cup Elements(client[p].heard) \cup Elements(client[p].fetched)
      BY <1>1 DEF Texts
    <3>2. Texts(p) = Elements(mail[p]) \cup Said(x)
            \cup Elements(client[p].heard) \cup Elements(client[p].fetched)
      BY <1>1 DEF Texts
    <3> HIDE DEF x
    <3> QED BY <3>1, <3>2 DEF Gathers, Delivers, x
  <2>3. \A t \in Texts(p) : t.id \in Nat /\ t.id <= x.count
    BY <1>1, TextsTyped DEF Numbered, OrderInv
  <2>4. \A t, u \in Texts(p) : t.id = u.id => t.number = u.number
    BY <1>1 DEF Numbered, OrderInv
  <2>5. y.count >= x.count
    BY DEF Gathers
  <2> HIDE DEF x, p
  <2>6. \A t \in Texts(p)' : t.id <= y.count
    BY <2>1, <2>2, <2>3, <2>5
  <2>7. \A t, u \in Texts(p)' : t.id = u.id => t.number = u.number
    BY <2>1, <2>2, <2>3, <2>4
  <2> QED BY <1>1, <2>6, <2>7 DEF Numbered
<1> QED BY <1>2, <1>3, Peers

\* Without a crash no step makes a client expect a number that was not used: it
\* learns of a number by the message with it, and tells of it by later ones.
LEMMA AheadStays ==
  ASSUME OrderInv, NEW c \in Client, NEW y, Delivers(c, y),
         \A d \in Client : Ahead(d), Step(client[c], y, Elements(mail[c]))
  PROVE  \A d \in Client : Ahead(d)'
<1> DEFINE x == client[c]
           p == Peer(c)
           z == client[p]
<1>1. client'[c] = y /\ client'[p] = z /\ p \in Client /\ Peer(p) = c
  BY Delivery, Peers DEF OrderInv
<1>2. y \in Program /\ x \in Program /\ z \in Program
  BY <1>1, TextsTyped DEF OrderInv, Step, Orderly
<1>3. /\ Exact(x) /\ x.chat.in <= z.chat.out
      /\ \A t \in Elements(mail[c]) \cup Said(z) :
           t.number < z.chat.out /\ t.expects <= x.chat.out
  BY DEF Ahead
<1>4. /\ Exact(z) /\ z.chat.in <= x.chat.out
      /\ \A t \in Elements(mail[p]) \cup Said(x) :
           t.number < x.chat.out /\ t.expects <= z.chat.out
  BY <1>1 DEF Ahead
<1>5. /\ x.chat.in \in Nat /\ x.chat.out \in Nat /\ y.chat.in \in Nat
      /\ y.chat.out \in Nat /\ z.chat.in \in Nat /\ z.chat.out \in Nat
  BY <1>2, Fields
<1>6. \A t \in Text : t.number \in Int /\ t.expects \in Nat
  BY DEF Text
<1>7. /\ Elements(mail[c]) \subseteq Text /\ Said(z) \subseteq Text
      /\ Elements(mail[p]) \subseteq Text /\ Said(x) \subseteq Text
      /\ Said(y) \subseteq Text
  BY <1>1, <1>2, TextsTyped, Elementary, SaidTyped DEF OrderInv
<1>8. /\ Exact(y) /\ y.chat.out >= x.chat.out
      /\ y.chat.in = x.chat.in
           \/ \E m \in Elements(mail[c]) : y.chat.in = m.number + 1
      /\ \A t \in Said(y) : \/ t \in Said(x)
                            \/ /\ t.number = x.chat.out
                               /\ y.chat.out = x.chat.out + 1
                               /\ t.expects = x.chat.in
  BY <1>3 DEF Step, Speaks
<1>9. mail'[c] = mail[c]
      /\ Elements(mail'[p]) \subseteq Elements(mail[p]) \cup Said(x)
  BY DEF Delivers
<1> HIDE DEF x, p, z
<1>10. Ahead(c)'
  <2>1. y.chat.in <= z.chat.out
    BY <1>3, <1>5, <1>6, <1>7, <1>8
  <2>2. \A t \in Elements(mail[c]) \cup Said(z) :
          t.number < z.chat.out /\ t.expects <= y.chat.out
    BY <1>3, <1>5, <1>6, <1>7, <1>8
  <2> QED BY <1>1, <1>8, <1>9, <2>1, <2>2 DEF Ahead, p
<1>11. Ahead(p)'
  <2>1. z.chat.in <= y.chat.out
    BY <1>4, <1>5, <1>8
  <2>2. \A t \in Elements(mail'[p]) \cup Said(y) :
          t.number < y.chat.out /\ t.expects <= z.chat.out
    <3>1. ASSUME NEW t \in Elements(mail[p]) \cup Said(x)
          PROVE  t.number < y.chat.out /\ t.expects <= z.chat.out
      BY <1>4, <1>5, <1>6, <1>7, <1>8, <3>1
    <3>2. ASSUME NEW t \in Said(y), t \notin Said(x)
          PROVE  t.number < y.chat.out /\ t.expects <= z.chat.out
      BY <1>3, <1>5, <1>8, <3>2
    <3> QED BY <1>9, <3>1, <3>2
  <2> QED BY <1>1, <1>4, <2>1, <2>2 DEF Ahead
<1> QED BY <1>10, <1>11, Peers DEF p

\* The parts of the invariant that are about the messages.
LEMMA OrderStep ==
  ASSUME OrderInv, NEW c \in Client, NEW y, Delivers(c, y), Orderly(y),
         y.left <= Len(mail[c]), Gathers(client[c], y, Elements(mail[c])),
         "crash" \notin happened' =>
           "crash" \notin happened /\ Step(client[c], y, Elements(mail[c]))
  PROVE  \A d \in Client :
           /\ Orderly(client'[d]) /\ client'[d].left <= Len(mail'[d])
           /\ Numbered(d)' /\ ("crash" \notin happened' => Ahead(d)')
<1> DEFINE p == Peer(c)
<1>1. client'[c] = y /\ client'[p] = client[p] /\ p \in Client
  BY Delivery, Peers DEF OrderInv
<1>2. y \in Program
  BY DEF Orderly
<1>3. \A d \in Client : Numbered(d)'
  BY <1>2, NumbersStay
<1>4. "crash" \notin happened' => \A d \in Client : Ahead(d)'
  BY AheadStays DEF OrderInv
<1>5. Orderly(client'[c]) /\ Orderly(client'[p])
  BY <1>1 DEF OrderInv
<1>6. client'[c].left <= Len(mail'[c])
  BY <1>1 DEF Delivers
<1>7. client'[p].left <= Len(mail'[p])
  <2>1. client[p].left <= Len(mail[p]) /\ client[p].left \in Nat
    BY <1>1, TextsTyped, Fields DEF OrderInv
  <2>2. Len(mail[p]) \in Nat /\ Len(mail'[p]) \in Nat
    BY <1>1 DEF OrderInv, TypeOK, Delivers
  <2>3. Len(mail'[p]) >= Len(mail[p])
    BY DEF Delivers
  <2> QED BY <1>1, <2>1, <2>2, <2>3
<1> QED BY <1>3, <1>4, <1>5, <1>6, <1>7, Peers

\* A client that the server does nothing for hears nothing.
LEMMA StaysFresh ==
  ASSUME OrderInv, NEW c \in Client, NEW y \in Program, Becomes(c, y),
         Gathers(client[c], y, Elements(mail[c])),
         server' = server /\ mail' = mail
  PROVE  Fresh'
<1> SUFFICES ASSUME server = "none"
             PROVE  \A d \in Client : mail[d] = <<>> /\ Silent(client'[d])
  BY DEF Fresh
<1>1. \A d \in Client : mail[d] = <<>> /\ Silent(client[d])
  BY DEF OrderInv, Fresh
<1>2. Elements(mail[c]) = {} /\ Elements(client[c].heard) = {}
      /\ Elements(client[c].fetched) = {}
  BY <1>1 DEF Elements, Silent
<1>3. Elements(y.heard) = {} /\ Elements(y.fetched) = {}
  BY <1>2 DEF Gathers
<1>4. Silent(y)
  BY <1>3, Fields, Elementary DEF Silent
<1> QED BY <1>1, <1>4 DEF Becomes, OrderInv, TypeOK

\* Steps of c in which the server does nothing.
LEMMA Handled ==
  ASSUME OrderInv, NEW c \in Client, NEW y, Becomes(c, y), Orderly(y),
         y.left <= Len(mail[c]), c = "other" => Accepted(y),
         Gathers(client[c], y, Elements(mail[c])),
         "crash" \notin happened' =>
           "crash" \notin happened /\ Step(client[c], y, Elements(mail[c])),
         server' = server /\ mail' = mail,
         news' \in [Client -> SUBSET News]
         /\ told' \in [Client -> SUBSET News],
         answers' \in [Client -> SUBSET Answer],
         "waiting" \notin answers'["other"], Requesting',
         crashes' \in 0 .. MaxCrashes /\ happened' \subseteq Faults
  PROVE  OrderInv'
<1>1. y \in Program
  BY DEF Orderly
<1>2. TypeOK'
  BY <1>1 DEF OrderInv, TypeOK, Becomes
<1>3. Fresh'
  BY <1>1, StaysFresh
<1>4. Accepting'
  <2>1. Accepted(client["other"]) /\ "other" \in Client
    BY DEF OrderInv, Accepting, Client
  <2>2. client'["other"] = IF c = "other" THEN y ELSE client["other"]
    BY <2>1 DEF Becomes, OrderInv, TypeOK
  <2> QED BY <2>1, <2>2 DEF Accepting
<1>5. Delivers(c, y)
  <2>1. Peer(c) \in Client /\ mail \in [Client -> Seq(Text)]
    BY Peers DEF OrderInv, TypeOK
  <2>2. Len(mail[Peer(c)]) \in Nat
    BY <2>1
  <2> QED BY <2>1, <2>2 DEF Delivers, Becomes
<1>6. \A d \in Client :
        /\ Orderly(client'[d]) /\ client'[d].left <= Len(mail'[d])
        /\ Numbered(d)' /\ ("crash" \notin happened' => Ahead(d)')
  BY <1>5, OrderStep
<1> QED BY <1>2, <1>3, <1>4, <1>6 DEF OrderInv

\* Those in which nothing but the client changes.
LEMMA Alone ==
  ASSUME OrderInv, NEW c \in Client, NEW y, Becomes(c, y),
         Step(client[c], y, Elements(mail[c])),
         y.left <= Len(mail[c]), c = "other" => Accepted(y),
         y.late \subseteq client[c].late,
         UNCHANGED <<server, news, told, mail, answers, crashes, happened>>
  PROVE  OrderInv'
<1>1. Orderly(y) /\ Gathers(client[c], y, Elements(mail[c]))
  BY StepGathers DEF Step
<1>2. /\ news' \in [Client -> SUBSET News] /\ told' \in [Client -> SUBSET News]
      /\ answers' \in [Client -> SUBSET Answer]
      /\ crashes' \in 0 .. MaxCrashes /\ happened' \subseteq Faults
  BY DEF OrderInv, TypeOK
<1>3. "waiting" \notin answers'["other"]
  BY DEF OrderInv, Accepting
<1>4. Requesting'
  BY DEF OrderInv, Requesting, Becomes, TypeOK
<1> QED BY <1>1, <1>2, <1>3, <1>4, Handled

\* The parts of the invariant that nearly every step needs.
LEMMA Client1 ==
  ASSUME OrderInv, NEW c \in Client
  PROVE  /\ client[c] \in Program /\ Orderly(client[c]) /\ Blank(client[c])
         /\ client[c].left <= Len(mail[c]) /\ mail[c] \in Seq(Text)
         /\ c = "other" => Accepted(client[c])
BY DEF OrderInv, TypeOK, Orderly, Blank, Accepting

\* A client that is not in a difference keeps its place.
LEMMA RestLeft ==
  ASSUME OrderInv, NEW c \in Client, NEW y, Rest(client[c], y)
  PROVE  y.left <= Len(mail[c]) /\ y.late = client[c].late
BY Client1 DEF Rest

\* What an accepting client is while it talks.
LEMMA TalksAccepted ==
  ASSUME NEW x, Accepted(x), NEW y, Talks(x, y),
         y.chat.state \in {x.chat.state, "request", "ok"},
         y.chat.state = "request" => x.chat.state # "ok",
         y.chat.state = "ok" /\ x.chat.state # "ok" => Filed(y.file, y.chat),
         \A q \in Elements(y.sends) : q \in Elements(x.sends)
           \/ q.kind # "request"
  PROVE  Accepted(y)
BY DEF Accepted, Talks, Filed, Silent

\* tgl_do_send_create_encr_chat: a chat without a message.
LEMMA CreateOrder == OrderInv /\ CreateChat => OrderInv'
<1> SUFFICES ASSUME OrderInv, CreateChat
             PROVE  OrderInv'
  OBVIOUS
<1> DEFINE x == client["admin"]
           C == [x.chat EXCEPT !.state = "waiting", !.key = "half"]
           z == [x EXCEPT !.chat = C, !.asked = x.asked]
           q == [kind |-> "request", text |-> NoText]
           y == Ask(z, q.kind, q.text)
<1>1. "admin" \in Client /\ x \in Program /\ Orderly(x)
  BY Client1 DEF Client
<1>2. q \in Query /\ q.kind = "request" /\ q.text = NoText
  BY DEF Query, Text, NoText, Key
<1>3. x.chat.state = "none" /\ server = "none" /\ x.heard = <<>>
  BY <1>1 DEF CreateChat, OrderInv, Fresh, Silent
<1>4. /\ C \in Chat /\ C.in = x.chat.in /\ C.out = x.chat.out
      /\ C.state = "waiting" /\ x.asked \in Nat
  BY <1>1 DEF Program, Chat, Key
<1>5. Becomes("admin", y)
  <2>1. z = [x EXCEPT !.chat.state = "waiting", !.chat.key = "half"]
    BY <1>1 DEF Program
  <2> QED BY <1>2, <2>1 DEF CreateChat
<1>6. UNCHANGED <<server, news, told, mail, answers, crashes, happened>>
  BY DEF CreateChat
<1> HIDE DEF C, q
<1>7. Turned(x, z)
  BY <1>1, <1>4, Turning
<1> HIDE DEF z
<1>8. Talks(x, y) /\ Rest(x, y)
  BY <1>1, <1>2, <1>7, AskTalks
<1> HIDE DEF y
<1>9. Step(x, y, Elements(mail["admin"]))
  BY <1>1, <1>3, <1>8, TalksSteps
<1>10. y.left <= Len(mail["admin"]) /\ y.late \subseteq x.late
  BY <1>1, <1>8, RestLeft
<1> HIDE DEF x
<1>11. "admin" # "other"
  OBVIOUS
<1> QED BY <1>1, <1>5, <1>6, <1>9, <1>10, <1>11, Alone DEF x

\* Steps of the user, where a client talks and nothing else happens.
LEMMA TalkAlone ==
  ASSUME OrderInv, NEW c \in Client, NEW y, Becomes(c, y),
         Talks(client[c], y), Rest(client[c], y),
         client[c].chat.state = "none" =>
           y.chat.state = "none" \/ client[c].heard = <<>>,
         c = "other" => Accepted(y),
         UNCHANGED <<server, news, told, mail, answers, crashes, happened>>
  PROVE  OrderInv'
<1>1. Orderly(client[c])
  BY Client1
<1>2. Step(client[c], y, Elements(mail[c]))
  BY <1>1, TalksSteps
<1>3. y.left <= Len(mail[c]) /\ y.late \subseteq client[c].late
  BY RestLeft
<1> QED BY <1>2, <1>3, Alone

\* tgl_do_accept_encr_chat_request.
LEMMA AcceptOrder ==
  ASSUME OrderInv, NEW c \in Client, AcceptChat(c)
  PROVE  OrderInv'
<1> DEFINE x == client[c]
           A == x.asked + 1
           C == x.chat
           y == [x EXCEPT !.chat = C, !.asked = A]
<1>1. x \in Program /\ Orderly(x) /\ (c = "other" => Accepted(x))
  BY Client1
<1>2. /\ C \in Chat /\ A \in Nat /\ C.state = "request"
      /\ C.in = x.chat.in /\ C.out = x.chat.out /\ C = x.chat
  BY <1>1, Fields DEF AcceptChat
<1>3. Becomes(c, y)
  <2>1. y = [x EXCEPT !.asked = @ + 1]
    BY <1>1 DEF Program
  <2> QED BY <2>1 DEF AcceptChat
<1>4. UNCHANGED <<server, news, told, mail, answers, crashes, happened>>
  BY DEF AcceptChat
<1> HIDE DEF x, A, C
<1>5. Turned(x, y) /\ y.chat = x.chat /\ y.file = x.file
  BY <1>1, <1>2, Turning
<1> HIDE DEF y
<1>6. Talks(x, y) /\ Rest(x, y) /\ y.sends = x.sends
  BY <1>1, <1>5, TurnedTalks DEF Turned
<1>7. c = "other" => Accepted(y)
  <2>1. Accepted(x) => Accepted(y)
    BY <1>5, <1>6 DEF Accepted, Silent, Talks
  <2> QED BY <1>1, <2>1
<1>8. x.chat.state # "none"
  BY <1>2
<1> QED BY <1>3, <1>4, <1>6, <1>7, <1>8, TalkAlone DEF x

\* tgl_do_send_message: the number is the next one.
LEMMA SendOrder ==
  ASSUME OrderInv, NEW c \in Client, SendMessage(c)
  PROVE  OrderInv'
<1> DEFINE x == client[c]
           y == SendText(x)
<1>1. x \in Program /\ (c = "other" => Accepted(x))
  BY Client1
<1>2. x.chat.state = "ok" /\ Becomes(c, y)
      /\ UNCHANGED <<server, news, told, mail, answers, crashes, happened>>
  BY DEF SendMessage
<1> HIDE DEF x
<1>3. /\ Talks(x, y) /\ Rest(x, y) /\ y.chat.state = x.chat.state
      /\ y.file = x.file
      /\ \A q \in Elements(y.sends) :
           q \in Elements(x.sends) \/ q.kind = "message"
  BY <1>1, <1>2, SendTextTalks
<1> HIDE DEF y
<1>4. c = "other" => Accepted(y)
  <2>1. Accepted(x) => Accepted(y)
    BY <1>2, <1>3, TalksAccepted
  <2> QED BY <1>1, <2>1
<1> QED BY <1>2, <1>3, <1>4, TalkAlone DEF x

\* tgl_do_discard_secret_chat.
LEMMA DiscardOrder ==
  ASSUME OrderInv, NEW c \in Client, DiscardChat(c)
  PROVE  OrderInv'
<1> DEFINE x == client[c]
           q == [kind |-> "discard", text |-> NoText]
           y == Ask(x, q.kind, q.text)
<1>1. x \in Program /\ (c = "other" => Accepted(x))
  BY Client1
<1>2. q \in Query /\ q.kind = "discard" /\ q.text = NoText
  BY DEF Query, Text, NoText, Key
<1>3. x.chat.state # "none" /\ Becomes(c, y)
      /\ UNCHANGED <<server, news, told, mail, answers, crashes, happened>>
  BY <1>2 DEF DiscardChat
<1> HIDE DEF x, q
<1>4. /\ Talks(x, y) /\ Rest(x, y) /\ y.chat = x.chat /\ y.file = x.file
      /\ \A r \in Elements(y.sends) : r \in Elements(x.sends) \/ r = q
  BY <1>1, <1>2, Unturned, AskTalks
<1> HIDE DEF y
<1>5. c = "other" => Accepted(y)
  <2>1. Accepted(x) => Accepted(y)
    BY <1>2, <1>4 DEF Accepted, Talks, Silent
  <2> QED BY <1>1, <2>1
<1> QED BY <1>3, <1>4, <1>5, TalkAlone DEF x

\* get_dh_config_on_answer, with the chat accepted or not.
LEMMA AskedOrder ==
  ASSUME OrderInv, NEW c \in Client, ReceiveDhConfig(c)
  PROVE  OrderInv'
<1> DEFINE x == client[c]
           y == SendAccept(x)
<1>1. x \in Program /\ Orderly(x) /\ (c = "other" => Accepted(x))
  BY Client1
<1>2. x.asked > 0 /\ Becomes(c, y)
      /\ UNCHANGED <<server, news, told, mail, answers, crashes, happened>>
  BY DEF ReceiveDhConfig
<1> HIDE DEF x
<1>3. /\ Talks(x, y) /\ Rest(x, y)
      /\ y.chat = x.chat
           \/ /\ x.chat.gkey # "none" /\ y.chat.state = "ok"
              /\ Filed(y.file, y.chat)
      /\ \A q \in Elements(y.sends) :
           q \in Elements(x.sends) \/ q.kind = "accept"
  BY <1>1, <1>2, SendAcceptIs
<1> HIDE DEF y
<1>4. c = "other" => Accepted(y)
  <2>1. Accepted(x) => Accepted(y)
    BY <1>3, TalksAccepted
  <2> QED BY <1>1, <2>1
<1>5. x.chat.state = "none" => y.chat.state = "none"
  <2>1. x.chat.state = "none" => x.chat.gkey = "none"
    BY <1>1 DEF Orderly, NewChat
  <2> QED BY <1>3, <2>1
<1> QED BY <1>2, <1>3, <1>4, <1>5, TalkAlone DEF x

\* tglu_work_update is a step: a request makes a new chat only where no message
\* was heard.
LEMMA WorkSteps ==
  ASSUME NEW c \in Client, NEW x, Orderly(x), c = "other" => Accepted(x),
         NEW magic \in Magic, c = "admin" => magic # "requested",
         c = "other" => magic # "waiting", NEW M
  PROVE  LET y == WorkEncryption(x, magic)
         IN /\ Step(x, y, M) /\ Rest(x, y) /\ Worked(x, y, magic)
            /\ c = "other" => Accepted(y)
<1> DEFINE y == WorkEncryption(x, magic)
<1>1. x \in Program /\ Blank(x)
  BY DEF Orderly, Blank
<1>2. Worked(x, y, magic)
  BY <1>1, WorkIs
<1> HIDE DEF y
<1>3. Talks(x, y) /\ Rest(x, y) /\ Answered(x, y, magic)
  BY <1>2 DEF Worked
<1>4. x.chat.state = "none" => y.chat.state = "none" \/ x.heard = <<>>
  <2>1. magic # "requested" /\ x.chat.state = "none" => y.chat.state = "none"
    BY <1>3 DEF Answered
  <2>2. magic = "requested" /\ x.chat.state = "none" => x.heard = <<>>
    BY DEF Client, Accepted, Silent
  <2> QED BY <2>1, <2>2
<1>5. Step(x, y, M)
  BY <1>3, <1>4, TalksSteps
<1>6. c = "other" => Accepted(y)
  <2>1. ASSUME c = "other"
        PROVE  /\ y.chat.state \in {x.chat.state, "request", "ok"}
               /\ y.chat.state = "request" => x.chat.state # "ok"
               /\ y.chat.state = "ok" /\ x.chat.state # "ok" =>
                    Filed(y.file, y.chat)
    BY <1>3, <2>1 DEF Answered, Magic
  <2>2. \A q \in Elements(y.sends) :
          q \in Elements(x.sends) \/ q.kind # "request"
    BY <1>2 DEF Worked
  <2> QED BY <1>3, <2>1, <2>2, TalksAccepted
<1> QED BY <1>2, <1>3, <1>5, <1>6 DEF y

\* A client that turns its chat steps.
LEMMA TurnedSteps ==
  ASSUME NEW x, Orderly(x), NEW y, Turned(x, y),
         y.chat.state = x.chat.state, NEW M
  PROVE  Step(x, y, M) /\ Rest(x, y) /\ (Accepted(x) => Accepted(y))
<1>1. x \in Program
  BY DEF Orderly
<1>2. Talks(x, y) /\ Rest(x, y) /\ y.sends = x.sends
  BY <1>1, TurnedTalks DEF Turned
<1>3. Step(x, y, M)
  BY <1>2, TalksSteps
<1>4. Accepted(x) => Accepted(y)
  BY <1>2, TalksAccepted
<1> QED BY <1>2, <1>3, <1>4

\* So does one that is answered.
LEMMA OnAnswerSteps ==
  ASSUME NEW c \in Client, NEW x, Orderly(x), c = "other" => Accepted(x),
         NEW a \in Answer, NEW written \in BOOLEAN,
         c = "other" => a # "waiting", NEW M
  PROVE  LET y == OnAnswer(x, a, written)
         IN Step(x, y, M) /\ Rest(x, y) /\ (c = "other" => Accepted(y))
<1> DEFINE y == OnAnswer(x, a, written)
<1>1. x \in Program /\ Blank(x)
  BY DEF Orderly, Blank
<1>2. CASE a = "waiting"
  <2>1. y = FetchChat(x, "waiting") /\ "waiting" \in Magic
    BY <1>2 DEF OnAnswer, Magic
  <2>2. Turned(x, y) /\ Answered(x, y, "waiting")
    BY <1>1, <2>1, FetchChatIs
  <2> HIDE DEF y
  <2>3. Talks(x, y)
    BY <1>1, <2>2, TurnedTalks
  <2>4. x.chat.state = "none" => y.chat.state = "none"
    BY <2>2 DEF Answered
  <2>5. Step(x, y, M)
    BY <2>3, <2>4, TalksSteps
  <2> QED BY <1>2, <2>2, <2>5 DEF Turned, y
<1>3. CASE a = "ready"
  <2>1. y = WorkEncryption(x, "ready") /\ "ready" \in Magic
    BY <1>3 DEF OnAnswer, Magic
  <2> HIDE DEF y
  <2> QED BY <2>1, WorkSteps DEF y
<1>4. CASE a \in {"declined", "gone"}
  <2>1. y = PeerDelete(x)
    BY <1>4 DEF OnAnswer
  <2>2. Turned(x, y) /\ y.chat.state = x.chat.state
    BY <1>1, <2>1, PeerDeleteTurned
  <2> HIDE DEF y
  <2> QED BY <2>2, TurnedSteps DEF y
<1>5. CASE a \in {"failed", "sent"}
  <2>1. y = x \/ y = WriteChatFile(x)
    BY <1>5 DEF OnAnswer
  <2>2. Turned(x, x)
    BY <1>1, Unturned
  <2>3. Turned(x, WriteChatFile(x)) /\ WriteChatFile(x).chat = x.chat
    BY <1>1, <2>2, WriteTurned
  <2>4. Turned(x, y) /\ y.chat.state = x.chat.state
    BY <2>1, <2>2, <2>3
  <2> HIDE DEF y
  <2> QED BY <2>4, TurnedSteps DEF y
<1> QED BY <1>2, <1>3, <1>4, <1>5 DEF Answer

\* The answers to the requests of the chat.
LEMMA AnswerOrder ==
  ASSUME OrderInv, NEW c \in Client, ReceiveAnswer(c)
  PROVE  OrderInv'
<1>1. PICK a \in answers[c], written \in BOOLEAN :
        /\ Becomes(c, OnAnswer(client[c], a, written))
        /\ answers' = [answers EXCEPT ![c] = @ \ {a}]
  BY DEF ReceiveAnswer
<1> DEFINE x == client[c]
           y == OnAnswer(x, a, written)
<1>2. Orderly(x) /\ (c = "other" => Accepted(x))
  BY Client1
<1>3. a \in Answer /\ (c = "other" => a # "waiting")
  BY DEF OrderInv, TypeOK, Accepting
<1>4. Becomes(c, y)
  BY <1>1
<1>5. Step(x, y, Elements(mail[c])) /\ Rest(x, y)
      /\ (c = "other" => Accepted(y))
  BY <1>2, <1>3, OnAnswerSteps
<1> HIDE DEF y
<1>6. y.left <= Len(mail[c]) /\ y.late = x.late
  BY <1>5, RestLeft
<1>7. Orderly(y) /\ Gathers(x, y, Elements(mail[c]))
  BY <1>5, StepGathers DEF Step
<1>8. UNCHANGED <<server, news, told, mail, crashes, happened>>
  BY DEF ReceiveAnswer
<1>9. /\ news' \in [Client -> SUBSET News] /\ told' \in [Client -> SUBSET News]
      /\ crashes' \in 0 .. MaxCrashes /\ happened' \subseteq Faults
  BY <1>8 DEF OrderInv, TypeOK
<1>10. answers' \in [Client -> SUBSET Answer]
       /\ "waiting" \notin answers'["other"]
  BY <1>1 DEF OrderInv, TypeOK, Accepting, Client
<1>11. Requesting'
  BY <1>4, <1>6, <1>8 DEF OrderInv, Requesting, Becomes, TypeOK
<1> QED BY <1>4, <1>5, <1>6, <1>7, <1>8, <1>9, <1>10, <1>11, Handled

\* The updates are told to the clients that they are for.
LEMMA Requested ==
  ASSUME OrderInv, NEW u \in News
  PROVE  /\ u \in Magic
         /\ u \in news["admin"] \cup told["admin"] \cup client["admin"].late =>
              u # "requested"
BY DEF News, Magic, OrderInv, Requesting

\* tglu_work_update of updateEncryption.
LEMMA NewsOrder ==
  ASSUME OrderInv, NEW c \in Client, PushNews(c)
  PROVE  OrderInv'
<1>1. PICK u \in news[c] \cup told[c] :
        /\ Needs(Surprise(c, u))
        /\ Becomes(c, WorkEncryption(client[c], u))
        /\ news' = [news EXCEPT ![c] = @ \ {u}]
        /\ told' = [told EXCEPT ![c] = @ \cup {u}]
  BY DEF PushNews
<1> DEFINE x == client[c]
           y == WorkEncryption(x, u)
<1>2. Orderly(x) /\ (c = "other" => Accepted(x))
  BY Client1
<1>3. u \in News
  BY DEF OrderInv, TypeOK
<1>4. u \in Magic /\ (c = "admin" => u # "requested")
      /\ (c = "other" => u # "waiting")
  BY <1>3, Requested DEF News
<1>5. Becomes(c, y)
  BY <1>1
<1>6. Step(x, y, Elements(mail[c])) /\ Rest(x, y)
      /\ (c = "other" => Accepted(y))
  BY <1>2, <1>4, WorkSteps
<1> HIDE DEF y
<1>7. y.left <= Len(mail[c]) /\ y.late = x.late
  BY <1>6, RestLeft
<1>8. Orderly(y) /\ Gathers(x, y, Elements(mail[c]))
  BY <1>6, StepGathers DEF Step
<1>9. UNCHANGED <<server, mail, answers, crashes>>
  BY DEF PushNews
<1>10. happened' \subseteq Faults /\ happened \subseteq happened'
  BY <1>1 DEF Needs, MayHappen, OrderInv, TypeOK
<1>11. /\ news' \in [Client -> SUBSET News]
       /\ told' \in [Client -> SUBSET News]
  BY <1>1, <1>3 DEF OrderInv, TypeOK
<1>12. /\ answers' \in [Client -> SUBSET Answer]
       /\ "waiting" \notin answers'["other"] /\ crashes' \in 0 .. MaxCrashes
  BY <1>9 DEF OrderInv, TypeOK, Accepting
<1>13. Requesting'
  <2>1. client'["admin"].late = client["admin"].late
    BY <1>5, <1>7 DEF Becomes, OrderInv, TypeOK
  <2>2. "requested" \notin news'["admin"] \cup told'["admin"]
    BY <1>1, <1>4 DEF OrderInv, TypeOK, Requesting
  <2> QED BY <2>1, <2>2 DEF Requesting, OrderInv
<1> QED BY <1>5, <1>6, <1>7, <1>8, <1>9, <1>10, <1>11, <1>12, <1>13, Handled

\* The next message is there.
LEMMA MailTyped ==
  ASSUME OrderInv, NEW c \in Client, client[c].qts < Len(mail[c])
  PROVE  /\ client[c].qts + 1 \in DOMAIN mail[c]
         /\ mail[c][client[c].qts + 1] \in Text
         /\ mail[c][client[c].qts + 1] \in Elements(mail[c])
<1>1. client[c].qts \in Nat /\ mail[c] \in Seq(Text)
  BY Client1, Fields
<1>2. client[c].qts + 1 \in DOMAIN mail[c]
  BY <1>1
<1> QED BY <1>1, <1>2 DEF Elements

\* An accepting client that keeps its chat, and hears only when it is ready.
LEMMA KeptAccepted ==
  ASSUME NEW x, Orderly(x), Accepted(x), NEW y, NEW M, Step(x, y, M),
         Kept(x, y),
         x.chat.state # "ok" => Silent(y)
  PROVE  Accepted(y)
BY DEF Accepted, Kept, Filed

\* An accepting client that fetches a message.
LEMMA FetchedMore ==
  ASSUME NEW x, Orderly(x), Accepted(x), NEW m \in Text
  PROVE  Accepted(FetchMessage(x, m))
<1> DEFINE y == FetchMessage(x, m)
<1>1. Step(x, y, {m}) /\ Kept(x, y)
  BY Fetched
<1>2. x.chat.state # "ok" => y = x
  BY DEF FetchMessage
<1> HIDE DEF y
<1>3. x.chat.state # "ok" => Silent(y)
  BY <1>2 DEF Accepted
<1> QED BY <1>1, <1>3, KeptAccepted DEF y

\* An accepting client that shows one.
LEMMA ShownMore ==
  ASSUME NEW x, Orderly(x), Accepted(x)
  PROVE  Accepted(ShowMessage(x))
<1> DEFINE y == ShowMessage(x)
<1>1. Step(x, y, {}) /\ Kept(x, y)
  BY Shown
<1>2. x.chat.state # "ok" => y = x
  BY DEF ShowMessage, Accepted, Silent
<1> HIDE DEF y
<1>3. x.chat.state # "ok" => Silent(y)
  BY <1>2 DEF Accepted
<1> QED BY <1>1, <1>3, KeptAccepted DEF y

\* An accepting client at another place of a difference.
LEMMA SameAccepted ==
  ASSUME NEW x, Accepted(x), NEW y, Same(x, y)
  PROVE  Accepted(y)
BY DEF Accepted, Same, Silent

\* More messages may come than did.
LEMMA StepMore ==
  ASSUME NEW x, NEW y, NEW M, NEW N, M \subseteq N, Step(x, y, M)
  PROVE  Step(x, y, N)
BY DEF Step

\* The client c becomes y by a handler.
Handles(c, y) ==
  /\ Becomes(c, y) /\ Step(client[c], y, Elements(mail[c]))
  /\ y.left <= Len(mail[c]) /\ (c = "other" => Accepted(y))

\* Steps that change nothing the exchange of the key depends on.
Quiet(c, y) ==
  Handles(c, y) /\ Kept(client[c], y) /\ y.late = client[c].late

\* tglu_work_update of updateNewEncryptedMessage.
LEMMA MessageIs ==
  ASSUME OrderInv, NEW c \in Client, PushMessage(c)
  PROVE  \E y : Quiet(c, y)
<1> DEFINE x == client[c]
           m == mail[c][x.qts + 1]
           z == FetchMessage(x, m)
           w == ShowMessage(z)
           y == [w EXCEPT !.qts = @ + 1]
<1>1. Orderly(x) /\ x \in Program /\ (c = "other" => Accepted(x))
      /\ x.left <= Len(mail[c])
  BY Client1
<1>2. x.qts < Len(mail[c]) /\ Becomes(c, y)
  BY DEF PushMessage
<1>3. m \in Text /\ m \in Elements(mail[c])
  BY <1>2, MailTyped
<1> HIDE DEF m
<1>4. Step(x, z, {m}) /\ Kept(x, z) /\ Rest(x, z)
      /\ (c = "other" => Accepted(z))
  BY <1>1, <1>3, Fetched, FetchedMore
<1> HIDE DEF z
<1>5. Orderly(z)
  BY <1>4 DEF Step
<1>6. Step(z, w, {}) /\ Kept(z, w) /\ Rest(z, w)
      /\ (c = "other" => Accepted(w))
  BY <1>4, <1>5, Shown, ShownMore
<1> HIDE DEF w
<1>7. Orderly(w) /\ w \in Program /\ w.qts + 1 \in Nat
  <2>1. Orderly(w) /\ w \in Program
    BY <1>6 DEF Step, Orderly
  <2> QED BY <2>1, Fields
<1>8. Same(w, y) /\ y.left = w.left /\ y.late = w.late
  BY <1>7 DEF Same, Program
<1> HIDE DEF y
<1>9. Step(w, y, {}) /\ Kept(w, y) /\ (c = "other" => Accepted(y))
  BY <1>6, <1>7, <1>8, SameSteps, SameAccepted
<1> HIDE DEF x
<1>10. Step(x, w, {m}) /\ Kept(x, w)
  BY <1>1, <1>4, <1>6, StepsStep
<1>11. Step(x, y, {m}) /\ Kept(x, y)
  BY <1>1, <1>9, <1>10, StepsStep
<1>12. Step(x, y, Elements(mail[c]))
  BY <1>3, <1>11, StepMore
<1>13. y.left <= Len(mail[c]) /\ y.late = x.late
  BY <1>1, <1>4, <1>6, <1>8 DEF Rest
<1> QED BY <1>2, <1>9, <1>11, <1>12, <1>13 DEF Handles, Quiet, x

\* get_difference_on_answer starts.
LEMMA StartOrder ==
  ASSUME OrderInv, NEW c \in Client, StartDifference(c)
  PROVE  OrderInv'
<1> DEFINE x == client[c]
           y == [x EXCEPT !.busy = TRUE, !.left = Len(mail[c]),
                          !.late = news[c]]
<1>1. Orderly(x) /\ x \in Program /\ (c = "other" => Accepted(x))
      /\ mail[c] \in Seq(Text)
  BY Client1
<1>2. /\ Becomes(c, y)
      /\ news' = [news EXCEPT ![c] = {}]
      /\ told' = [told EXCEPT ![c] = @ \cup news[c]]
      /\ happened \subseteq happened' /\ happened' \subseteq Faults
      /\ UNCHANGED <<server, mail, answers, crashes>>
  BY DEF StartDifference, Needs, MayHappen, OrderInv, TypeOK
<1>3. news[c] \subseteq News /\ Len(mail[c]) \in Nat
  BY <1>1 DEF OrderInv, TypeOK
<1> HIDE DEF x
<1>4. Same(x, y) /\ y.left = Len(mail[c]) /\ y.late = news[c]
  BY <1>1, <1>3 DEF Same, Program
<1> HIDE DEF y
<1>5. Step(x, y, Elements(mail[c])) /\ (c = "other" => Accepted(y))
  BY <1>1, <1>4, SameSteps, SameAccepted
<1>6. y.left <= Len(mail[c])
  BY <1>3, <1>4
<1>7. Orderly(y) /\ Gathers(x, y, Elements(mail[c]))
  BY <1>5, StepGathers DEF Step
<1>8. /\ news' \in [Client -> SUBSET News] /\ told' \in [Client -> SUBSET News]
  BY <1>2 DEF OrderInv, TypeOK
<1>9. /\ answers' \in [Client -> SUBSET Answer]
      /\ "waiting" \notin answers'["other"] /\ crashes' \in 0 .. MaxCrashes
  BY <1>2 DEF OrderInv, TypeOK, Accepting
<1>10. Requesting'
  BY <1>2, <1>4 DEF OrderInv, Requesting, Becomes, TypeOK
<1> QED BY <1>2, <1>5, <1>6, <1>7, <1>8, <1>9, <1>10, Handled DEF x

\* get_difference_on_answer fetches a message.
LEMMA FetchIs ==
  ASSUME OrderInv, NEW c \in Client, DifferenceMessage(c)
  PROVE  \E y : Quiet(c, y)
<1> DEFINE x == client[c]
           m == mail[c][x.qts + 1]
           z == FetchMessage(x, m)
           y == [z EXCEPT !.qts = @ + 1]
<1>1. Orderly(x) /\ x \in Program /\ (c = "other" => Accepted(x))
      /\ x.left <= Len(mail[c]) /\ mail[c] \in Seq(Text)
  BY Client1
<1>2. x.qts < x.left /\ Becomes(c, y)
  BY DEF DifferenceMessage
<1>3. x.qts < Len(mail[c])
  BY <1>1, <1>2, Fields
<1>4. m \in Text /\ m \in Elements(mail[c])
  BY <1>3, MailTyped
<1> HIDE DEF m
<1>5. Step(x, z, {m}) /\ Kept(x, z) /\ Rest(x, z)
      /\ (c = "other" => Accepted(z))
  BY <1>1, <1>4, Fetched, FetchedMore
<1> HIDE DEF z
<1>6. Orderly(z) /\ z \in Program /\ z.qts + 1 \in Nat
  <2>1. Orderly(z) /\ z \in Program
    BY <1>5 DEF Step, Orderly
  <2> QED BY <2>1, Fields
<1>7. Same(z, y) /\ y.left = z.left /\ y.late = z.late
  BY <1>6 DEF Same, Program
<1> HIDE DEF y, x
<1>8. Step(z, y, {}) /\ Kept(z, y) /\ (c = "other" => Accepted(y))
  BY <1>5, <1>6, <1>7, SameSteps, SameAccepted
<1>9. Step(x, y, {m}) /\ Kept(x, y)
  BY <1>1, <1>5, <1>8, StepsStep
<1>10. Step(x, y, Elements(mail[c]))
  BY <1>4, <1>9, StepMore
<1>11. y.left <= Len(mail[c]) /\ y.late = x.late
  BY <1>1, <1>5, <1>7 DEF Rest
<1> QED BY <1>2, <1>8, <1>9, <1>10, <1>11 DEF Handles, Quiet, x

\* get_difference_on_answer works an update of the chat.
LEMMA LateOrder ==
  ASSUME OrderInv, NEW c \in Client, DifferenceNews(c)
  PROVE  OrderInv'
<1>1. PICK u \in client[c].late :
        Becomes(c, WorkEncryption([client[c] EXCEPT !.late = @ \ {u}], u))
  BY DEF DifferenceNews
<1> DEFINE x == client[c]
           z == [x EXCEPT !.late = @ \ {u}]
           y == WorkEncryption(z, u)
<1>2. Orderly(x) /\ x \in Program /\ (c = "other" => Accepted(x))
      /\ x.left <= Len(mail[c])
  BY Client1
<1>3. u \in News /\ x.late \subseteq News
  BY <1>2, Fields
<1>4. u \in Magic /\ (c = "admin" => u # "requested")
      /\ (c = "other" => u # "waiting")
  BY <1>3, Requested DEF News
<1>5. Becomes(c, y)
      /\ UNCHANGED <<server, news, told, mail, answers, crashes, happened>>
  BY <1>1 DEF DifferenceNews
<1> HIDE DEF x
<1>6. Same(x, z) /\ z.left = x.left /\ z.late = x.late \ {u}
  BY <1>2, <1>3 DEF Same, Program
<1> HIDE DEF z
<1>7. Orderly(z) /\ (c = "other" => Accepted(z))
  BY <1>2, <1>6, SameOrderly, SameAccepted
<1>8. Step(z, y, Elements(mail[c])) /\ Rest(z, y)
      /\ (c = "other" => Accepted(y))
  BY <1>4, <1>7, WorkSteps
<1> HIDE DEF y
<1>9. Step(x, y, Elements(mail[c]))
  BY <1>6, <1>8, SameBefore
<1>10. y.left <= Len(mail[c]) /\ y.late \subseteq x.late
  BY <1>2, <1>6, <1>8 DEF Rest
<1> QED BY <1>5, <1>8, <1>9, <1>10, Alone DEF x

\* get_difference_on_answer shows what it has fetched, and ends.
LEMMA EndIs ==
  ASSUME OrderInv, NEW c \in Client, EndDifference(c)
  PROVE  \E y : Quiet(c, y)
<1> DEFINE x == client[c]
           z == [x EXCEPT !.busy = FALSE]
           w == ShowMessage(x)
<1>1. Orderly(x) /\ x \in Program /\ (c = "other" => Accepted(x))
      /\ x.left <= Len(mail[c])
  BY Client1
<1>3. CASE Becomes(c, z)
  <2> HIDE DEF x
  <2>1. Same(x, z) /\ z.left = x.left /\ z.late = x.late
    BY <1>1 DEF Same, Program
  <2> HIDE DEF z
  <2>2. Step(x, z, Elements(mail[c])) /\ Kept(x, z)
        /\ (c = "other" => Accepted(z))
    BY <1>1, <2>1, SameSteps, SameAccepted
  <2> QED BY <1>1, <1>3, <2>1, <2>2 DEF Handles, Quiet, x
<1>4. CASE Becomes(c, w)
  <2>1. Step(x, w, {}) /\ Kept(x, w) /\ Rest(x, w)
        /\ (c = "other" => Accepted(w))
    BY <1>1, Shown, ShownMore
  <2> HIDE DEF w
  <2>2. Step(x, w, Elements(mail[c]))
    BY <2>1, StepMore
  <2>3. w.left <= Len(mail[c]) /\ w.late = x.late
    BY <2>1, RestLeft
  <2> QED BY <1>4, <2>1, <2>2, <2>3 DEF Handles, Quiet
<1> QED BY <1>3, <1>4 DEF EndDifference

\* write_state_file.
LEMMA StateFileIs ==
  ASSUME OrderInv, NEW c \in Client, WriteStateFile(c)
  PROVE  \E y : Quiet(c, y)
<1> DEFINE x == client[c]
           y == [x EXCEPT !.fileqts = x.qts]
<1>1. Orderly(x) /\ x \in Program /\ (c = "other" => Accepted(x))
      /\ x.left <= Len(mail[c]) /\ x.qts \in Nat
  BY Client1, Fields
<1>2. Becomes(c, y)
  BY DEF WriteStateFile
<1> HIDE DEF x
<1>3. Same(x, y) /\ y.left = x.left /\ y.late = x.late
  BY <1>1 DEF Same, Program
<1> HIDE DEF y
<1>4. Step(x, y, Elements(mail[c])) /\ Kept(x, y)
      /\ (c = "other" => Accepted(y))
  BY <1>1, <1>3, SameSteps, SameAccepted
<1> QED BY <1>1, <1>2, <1>3, <1>4 DEF Handles, Quiet, x

\* The four kinds of quiet steps.
Quietly(c) ==
  PushMessage(c) \/ DifferenceMessage(c) \/ EndDifference(c)
  \/ WriteStateFile(c)

\* They are quiet.
LEMMA QuietlyIs ==
  ASSUME OrderInv, NEW c \in Client, Quietly(c)
  PROVE  /\ \E y : Quiet(c, y)
         /\ UNCHANGED <<server, news, told, mail, answers, crashes>>
         /\ happened \subseteq happened' /\ happened' \subseteq Faults
<1>1. \E y : Quiet(c, y)
  BY MessageIs, FetchIs, EndIs, StateFileIs DEF Quietly
<1>2. UNCHANGED <<server, news, told, mail, answers, crashes>>
  BY DEF Quietly, PushMessage, DifferenceMessage, EndDifference, WriteStateFile
<1>3. happened \subseteq happened' /\ happened' \subseteq Faults
  BY DEF Quietly, PushMessage, DifferenceMessage, EndDifference,
     WriteStateFile, Needs, MayHappen, OrderInv, TypeOK
<1> QED BY <1>1, <1>2, <1>3

\* Quiet steps keep the order.
LEMMA QuietOrder ==
  ASSUME OrderInv, NEW c \in Client, Quietly(c)
  PROVE  OrderInv'
<1>1. PICK y : Quiet(c, y)
  BY QuietlyIs
<1>2. UNCHANGED <<server, news, told, mail, answers, crashes>>
      /\ happened \subseteq happened' /\ happened' \subseteq Faults
  BY QuietlyIs
<1>3. /\ Becomes(c, y) /\ Step(client[c], y, Elements(mail[c]))
      /\ y.left <= Len(mail[c]) /\ (c = "other" => Accepted(y))
      /\ y.late = client[c].late
  BY <1>1 DEF Quiet, Handles
<1>4. Orderly(y) /\ Gathers(client[c], y, Elements(mail[c]))
  BY <1>3, StepGathers DEF Step
<1>5. /\ news' \in [Client -> SUBSET News] /\ told' \in [Client -> SUBSET News]
      /\ answers' \in [Client -> SUBSET Answer]
      /\ "waiting" \notin answers'["other"] /\ crashes' \in 0 .. MaxCrashes
  BY <1>2 DEF OrderInv, TypeOK, Accepting
<1>6. Requesting'
  BY <1>2, <1>3 DEF OrderInv, Requesting, Becomes, TypeOK
<1> QED BY <1>2, <1>3, <1>4, <1>5, <1>6, Handled

\* A sequence without one of its elements.
LEMMA Removing ==
  ASSUME NEW S, NEW s \in Seq(S), NEW i \in DOMAIN s
  PROVE  /\ RemoveAt(s, i) \in Seq(S) /\ Len(RemoveAt(s, i)) = Len(s) - 1
         /\ Elements(RemoveAt(s, i)) \subseteq Elements(s)
<1> DEFINE a == SubSeq(s, 1, i - 1)
           b == SubSeq(s, i + 1, Len(s))
<1>1. i \in 1 .. Len(s) /\ Len(s) \in Nat /\ DOMAIN s = 1 .. Len(s)
  OBVIOUS
<1>2. \A k \in 1 .. i - 1 : s[k] \in S
  BY <1>1
<1>3. \A k \in i + 1 .. Len(s) : s[k] \in S
  BY <1>1
<1>4. a \in Seq(S) /\ Len(a) = i - 1 /\ \A k \in 1 .. i - 1 : a[k] = s[k]
  BY <1>1, <1>2
<1>5. b \in Seq(S) /\ Len(b) = Len(s) - i
      /\ \A k \in 1 .. Len(s) - i : b[k] = s[k + i]
  BY <1>1, <1>3
<1>6. RemoveAt(s, i) = a \o b
  BY DEF RemoveAt
<1> HIDE DEF a, b
<1>7. a \o b \in Seq(S) /\ Len(a \o b) = Len(s) - 1
  <2>1. a \o b \in Seq(S) /\ Len(a \o b) = Len(a) + Len(b)
    BY <1>4, <1>5, ConcatProperties
  <2>2. Size(a \o b) = Size(a) + Size(b) /\ Size(a) = i - 1
        /\ Size(b) = Size(s) - i /\ i \in Int /\ Size(s) \in Int
    BY <1>1, <1>4, <1>5, <2>1 DEF Size
  <2>3. Size(a \o b) = Size(s) - 1
    BY ONLY <2>2
  <2> QED BY <2>1, <2>3 DEF Size
<1>8. \A k \in DOMAIN (a \o b) : \E j \in DOMAIN s : (a \o b)[k] = s[j]
  <2> SUFFICES ASSUME NEW k \in DOMAIN (a \o b)
               PROVE  \E j \in DOMAIN s : (a \o b)[k] = s[j]
    OBVIOUS
  <2>1. k \in 1 .. Len(s) - 1
    BY <1>7
  <2>2. CASE k <= i - 1
    <3>1. (a \o b)[k] = s[k] /\ k \in DOMAIN s
      BY <1>1, <1>4, <1>5, <2>1, <2>2
    <3> QED BY <3>1
  <2>3. CASE k > i - 1
    <3>1. (a \o b)[k] = b[k - (i - 1)]
      BY <1>1, <1>4, <1>5, <2>1, <2>3
    <3>2. k - (i - 1) \in 1 .. Len(s) - i /\ k - (i - 1) + i = k + 1
      BY <1>1, <2>1, <2>3
    <3>3. b[k - (i - 1)] = s[k + 1] /\ k + 1 \in DOMAIN s
      BY <1>1, <1>5, <2>1, <3>2
    <3> QED BY <3>1, <3>3
  <2> QED BY <1>1, <2>1, <2>2, <2>3
<1> QED BY <1>6, <1>7, <1>8 DEF Elements

\* What the server does with a request q of c.
Served(c, q, answer) ==
  /\ server' \in {"none", "requested", "ok", "discarded"}
  /\ server' # "none" \/ (server' = server /\ mail' = mail)
  /\ news' \in [Client -> SUBSET News]
  /\ "requested" \in news'["admin"] => "requested" \in news["admin"]
  /\ mail' = mail
       \/ /\ q.kind = "message"
          /\ mail' = [mail EXCEPT ![Peer(c)] = Append(@, q.text)]
  /\ answer = "waiting" => q.kind = "request"
  /\ answer = "ready" => q.kind = "accept"
  /\ "ready" \in news'["other"] => "ready" \in news["other"]
  /\ server' = "none" => /\ news' = news
                         /\ answer = "failed" \/ q.kind # "request"

\* The server answers a request as it did it.
LEMMA DoIs ==
  ASSUME OrderInv, NEW c \in Client, NEW q \in Query, NEW answer,
         Do(c, q, answer)
  PROVE  Served(c, q, answer)
<1>0. /\ news \in [Client -> SUBSET News] /\ Peer(c) \in Client
      /\ server \in {"none", "requested", "ok", "discarded"}
      /\ q.kind \in {"request", "accept", "discard", "message"}
  BY Peers DEF OrderInv, TypeOK, Query
<1>1. CASE q.kind = "request"
  BY <1>0, <1>1 DEF Do, Served, News, Client
<1>2. CASE q.kind = "accept"
  <2>1. CASE server = "requested"
    <3>1. server' = "ok" /\ answer = "ready" /\ mail' = mail
          /\ news' = [news EXCEPT !["admin"] = @ \cup {"ready"}]
      BY <1>2, <2>1 DEF Do
    <3> QED BY <1>0, <1>2, <3>1 DEF Served, News, Client
  <2>2. CASE server # "requested"
    BY <1>0, <1>2, <2>2 DEF Do, Served
  <2> QED BY <2>1, <2>2
<1>3. CASE q.kind = "discard"
  BY <1>0, <1>3 DEF Do, Served, News, Client
<1>4. CASE q.kind = "message"
  BY <1>0, <1>4 DEF Do, Served
<1> QED BY <1>0, <1>1, <1>2, <1>3, <1>4

\* A client x one of whose requests was taken.
TakenFrom(x, y) ==
  /\ y \in Program /\ y.chat = x.chat /\ y.count = x.count
  /\ y.heard = x.heard /\ y.fetched = x.fetched /\ y.file = x.file
  /\ y.asked = x.asked /\ y.aborted = x.aborted /\ Rest(x, y)
  /\ Elements(y.sends) \subseteq Elements(x.sends)
  /\ Len(y.sends) = Len(x.sends) - 1

\* A request that is taken is one that was asked.
LEMMA TakenIs ==
  ASSUME NEW x \in Program, NEW i \in DOMAIN x.sends
  PROVE  /\ TakenFrom(x, [x EXCEPT !.sends = RemoveAt(@, i)])
         /\ x.sends[i] \in Query /\ x.sends[i] \in Elements(x.sends)
         /\ x.sends[i].kind = "message" => x.sends[i].text \in Said(x)
<1> DEFINE s == RemoveAt(x.sends, i)
           y == [x EXCEPT !.sends = RemoveAt(@, i)]
<1>1. x.sends \in Seq(Query)
  BY Fields
<1>2. s \in Seq(Query) /\ Len(s) = Len(x.sends) - 1
      /\ Elements(s) \subseteq Elements(x.sends)
  BY <1>1, Removing
<1>3. y = [x EXCEPT !.sends = s]
  OBVIOUS
<1> HIDE DEF s, y
<1>4. TakenFrom(x, y)
  BY <1>2, <1>3 DEF TakenFrom, Rest, Program
<1> QED BY <1>1, <1>4 DEF Elements, Said, y

\* Taking a request is a step of the client.
LEMMA TakenSteps ==
  ASSUME NEW x, Orderly(x), NEW y, TakenFrom(x, y), NEW M
  PROVE  Step(x, y, M) /\ (Accepted(x) => Accepted(y))
<1>1. x \in Program
  BY DEF Orderly
<1>2. Said(y) \subseteq Said(x)
  <2> SUFFICES ASSUME NEW t \in Said(y)
               PROVE  t \in Said(x)
    OBVIOUS
  <2>1. PICK i \in DOMAIN y.sends : y.sends[i].kind = "message"
                                    /\ t = y.sends[i].text
    BY DEF Said
  <2>2. y.sends[i] \in Elements(x.sends)
    BY DEF Elements, TakenFrom
  <2>3. PICK j \in DOMAIN x.sends : x.sends[j] = y.sends[i]
    BY <2>2 DEF Elements
  <2> QED BY <2>1, <2>3 DEF Said
<1>3. Speaks(x, y)
  BY <1>1, <1>2, Fields DEF Speaks, TakenFrom
<1>4. Orderly(y)
  BY DEF Orderly, TakenFrom
<1>5. Exact(x) => Exact(y)
  BY DEF Exact, TakenFrom
<1>6. Accepted(x) => Accepted(y)
  BY DEF Accepted, TakenFrom, Silent
<1> QED BY <1>3, <1>4, <1>5, <1>6 DEF Step, TakenFrom

\* The server takes a request, in whatever order, does it or refuses it.
LEMMA TakeOrder ==
  ASSUME OrderInv, NEW c \in Client, Take(c)
  PROVE  OrderInv'
<1> DEFINE x == client[c]
           p == Peer(c)
<1>1. PICK i \in DOMAIN x.sends, answer \in Answer :
        /\ Becomes(c, [x EXCEPT !.sends = RemoveAt(@, i)])
        /\ answers' = [answers EXCEPT ![c] = @ \cup {answer}]
        /\ \/ /\ Do(c, x.sends[i], answer)
              /\ Needs(IF i = 1 THEN {} ELSE {"reorder"})
           \/ /\ answer = "failed" /\ UNCHANGED <<server, news, mail>>
              /\ Needs({"refuse"})
  BY DEF Take
<1> DEFINE q == x.sends[i]
           y == [x EXCEPT !.sends = RemoveAt(@, i)]
<1>2. x \in Program /\ Orderly(x) /\ (c = "other" => Accepted(x))
      /\ x.left <= Len(mail[c]) /\ mail[c] \in Seq(Text)
  BY Client1
<1>3. TakenFrom(x, y) /\ q \in Query /\ q \in Elements(x.sends)
      /\ (q.kind = "message" => q.text \in Said(x))
  BY <1>2, TakenIs
<1>4. Becomes(c, y)
  BY <1>1
<1> HIDE DEF y, q
<1>5. Step(x, y, Elements(mail[c])) /\ (c = "other" => Accepted(y))
  BY <1>2, <1>3, TakenSteps
<1>6. Orderly(y) /\ Gathers(x, y, Elements(mail[c]))
  BY <1>5, StepGathers DEF Step
<1>7. y.left <= Len(mail[c]) /\ y.late = x.late
  BY <1>3, RestLeft DEF TakenFrom
<1>8. Served(c, q, answer)
  <2>1. CASE Do(c, x.sends[i], answer)
    BY <1>3, <2>1, DoIs DEF q
  <2>2. CASE answer = "failed" /\ UNCHANGED <<server, news, mail>>
    BY <2>2 DEF Served, OrderInv, TypeOK
  <2> QED BY <1>1, <2>1, <2>2
<1>9. happened \subseteq happened' /\ happened' \subseteq Faults
  BY <1>1 DEF Needs, MayHappen, OrderInv, TypeOK
<1>10. told' = told /\ crashes' = crashes
  BY DEF Take
<1>11. y \in Program /\ p \in Client /\ p # c /\ Peer(p) = c
  BY <1>3, Peers DEF TakenFrom
<1>12. Delivers(c, y)
  <2>1. mail[p] \in Seq(Text) /\ mail \in [Client -> Seq(Text)]
    BY <1>11 DEF OrderInv, TypeOK
  <2>2. CASE mail' = mail
    BY <1>4, <2>1, <2>2 DEF Delivers, Becomes
  <2>3. CASE mail' = [mail EXCEPT ![p] = Append(@, q.text)]
             /\ q.kind = "message"
    <3>1. q.text \in Text /\ q.text \in Said(x)
      BY <1>3, <2>3 DEF Query
    <3>2. Append(mail[p], q.text) \in Seq(Text)
          /\ Len(Append(mail[p], q.text)) >= Len(mail[p])
      BY <2>1, <3>1
    <3>3. Elements(Append(mail[p], q.text))
            \subseteq Elements(mail[p]) \cup {q.text}
      BY <2>1 DEF Elements
    <3>4. mail' \in [Client -> Seq(Text)] /\ mail'[c] = mail[c]
          /\ mail'[p] = Append(mail[p], q.text)
      BY <1>11, <2>1, <2>3, <3>2
    <3> QED BY <1>4, <3>1, <3>2, <3>3, <3>4 DEF Delivers, Becomes
  <2> QED BY <1>8, <2>2, <2>3 DEF Served
<1>13. \A d \in Client :
        /\ Orderly(client'[d]) /\ client'[d].left <= Len(mail'[d])
        /\ Numbered(d)' /\ ("crash" \notin happened' => Ahead(d)')
  BY <1>5, <1>6, <1>7, <1>9, <1>12, OrderStep
<1>14. TypeOK'
  <2>1. client' \in [Client -> Program]
    BY <1>4, <1>11 DEF Becomes, OrderInv, TypeOK
  <2>2. mail' \in [Client -> Seq(Text)]
    BY <1>12 DEF Delivers
  <2>3. answers' \in [Client -> SUBSET Answer]
    BY <1>1 DEF OrderInv, TypeOK
  <2> QED BY <1>8, <1>9, <1>10, <2>1, <2>2, <2>3 DEF Served, OrderInv, TypeOK
<1>15. Fresh'
  <2>1. CASE server' # "none"
    BY <2>1 DEF Fresh
  <2>2. CASE server' = server /\ mail' = mail
    BY <1>4, <1>6, <1>11, <2>2, StaysFresh
  <2> QED BY <1>8, <2>1, <2>2 DEF Served
<1>16. Accepting'
  <2>1. Accepted(client["other"]) /\ "other" \in Client
    BY DEF OrderInv, Accepting, Client
  <2>2. client'["other"] = IF c = "other" THEN y ELSE client["other"]
    BY <2>1, <1>4 DEF Becomes, OrderInv, TypeOK
  <2>3. "waiting" \notin answers'["other"]
    <3>1. c = "other" => answer # "waiting"
      BY <1>2, <1>3, <1>8 DEF Accepted, Served
    <3> QED BY <1>1, <2>1, <3>1 DEF OrderInv, TypeOK, Accepting
  <2> QED BY <1>5, <2>1, <2>2, <2>3 DEF Accepting
<1>17. Requesting'
  <2>1. client'["admin"].late = client["admin"].late
    BY <1>4, <1>7 DEF Becomes, OrderInv, TypeOK
  <2> QED BY <1>8, <1>10, <2>1 DEF OrderInv, Requesting, Served
<1> QED BY <1>13, <1>14, <1>15, <1>16, <1>17 DEF OrderInv

\* The client x after a restart: what it finds on disk, and what is on its way.
Restarted(x, y) ==
  /\ y \in Program /\ y.chat = x.file /\ y.file = x.file
  /\ y.sends \in {<<>>, x.sends} /\ y.count = x.count /\ y.heard = x.heard
  /\ y.fetched = <<>> /\ y.left = 0 /\ y.late = {} /\ y.asked = 0
  /\ ~y.aborted

\* A crash goes back to the files.
LEMMA CrashIs ==
  ASSUME OrderInv, NEW c \in Client, Crash(c)
  PROVE  \E y : Becomes(c, y) /\ Restarted(client[c], y)
<1> DEFINE x == client[c]
<1>1. PICK sends \in {<<>>, x.sends} :
        Becomes(c, [NewClient(x.limit) EXCEPT
                      !.chat = x.file, !.file = x.file, !.qts = x.fileqts,
                      !.fileqts = x.fileqts, !.sends = sends,
                      !.count = x.count, !.heard = x.heard])
  BY DEF Crash
<1> DEFINE y == [NewClient(x.limit) EXCEPT
                   !.chat = x.file, !.file = x.file, !.qts = x.fileqts,
                   !.fileqts = x.fileqts, !.sends = sends,
                   !.count = x.count, !.heard = x.heard]
<1>2. x \in Program /\ Becomes(c, y)
  BY <1>1, Client1
<1>3. /\ x.limit \in Nat /\ x.fileqts \in Nat /\ x.count \in Nat
      /\ x.file \in Chat /\ x.heard \in Seq(Text) /\ sends \in Seq(Query)
      /\ <<>> \in Seq(Text) /\ sends \in {<<>>, x.sends}
  <2>1. x.fileqts \in Nat
    BY <1>2 DEF Program
  <2>2. <<>> \in Seq(Text) /\ <<>> \in Seq(Query)
    OBVIOUS
  <2>3. x.sends \in Seq(Query) /\ sends \in {<<>>, x.sends}
    BY <1>1, <1>2, Fields
  <2>4. sends \in Seq(Query)
    BY <2>2, <2>3
  <2> QED BY <1>2, <2>1, <2>2, <2>3, <2>4, Fields
<1> HIDE DEF x
<1>4. /\ y \in Program /\ y.chat = x.file /\ y.file = x.file
      /\ y.sends = sends /\ y.count = x.count /\ y.heard = x.heard
      /\ y.fetched = <<>> /\ y.left = 0 /\ y.late = {} /\ y.asked = 0
      /\ y.aborted = FALSE
  BY <1>3, NewIs DEF NewClient, Program
<1> HIDE DEF y
<1>5. Restarted(x, y)
  BY <1>3, <1>4 DEF Restarted
<1> QED BY <1>2, <1>5 DEF x

\* A crash keeps the order: the file expects more than what was heard, and ids
\* are not used again although numbers are.
LEMMA CrashOrder ==
  ASSUME OrderInv, NEW c \in Client, Crash(c)
  PROVE  OrderInv'
<1> DEFINE x == client[c]
<1>1. PICK y : Becomes(c, y) /\ Restarted(x, y)
  BY CrashIs
<1>2. PICK U \in {{}, told[c]} :
        /\ news' = [news EXCEPT ![c] = @ \cup U]
        /\ told' = [told EXCEPT ![c] = @ \ U]
  BY DEF Crash
<1>3. /\ crashes < MaxCrashes /\ crashes' = crashes + 1
      /\ answers' = [answers EXCEPT ![c] = {}]
      /\ server' = server /\ mail' = mail
      /\ happened' = happened \cup {"crash"} /\ {"crash"} \subseteq Faults
  BY DEF Crash, Needs, MayHappen
<1>4. x \in Program /\ Orderly(x) /\ (c = "other" => Accepted(x))
      /\ mail[c] \in Seq(Text)
  BY Client1
<1>5. Becomes(c, y)
  BY <1>1
<1>6. x.count \in Nat
  BY <1>4, Fields
<1> HIDE DEF x
<1>7. /\ y \in Program /\ y.chat = x.file /\ y.file = x.file
      /\ y.sends \in {<<>>, x.sends} /\ y.count = x.count /\ y.heard = x.heard
      /\ y.fetched = <<>> /\ y.left = 0 /\ y.late = {}
  BY <1>1 DEF Restarted
<1>8. Elements(<<>>) = {} /\ DOMAIN y.fetched = {}
  BY <1>7 DEF Elements
<1>9. Gathers(x, y, Elements(mail[c]))
  <2>1. Said(y) \subseteq Said(x)
    BY <1>7 DEF Said
  <2> QED BY <1>6, <1>7, <1>8, <2>1 DEF Gathers
<1>10. Orderly(y)
  BY <1>4, <1>7, <1>8, NewIs DEF Orderly
<1>11. c = "other" => Accepted(y)
  <2>1. Accepted(x) => Accepted(y)
    <3> SUFFICES ASSUME Accepted(x)
                 PROVE  Accepted(y)
      OBVIOUS
    <3>1. y.chat.state \in {"none", "request", "ok"}
          /\ (y.chat.state = "ok" => y.file.state = "ok")
      BY <1>4, <1>7, NewIs DEF Orderly
    <3>2. y.chat.state # "ok" => Silent(y)
      BY <1>7 DEF Accepted, Silent
    <3>3. Elements(y.sends) \subseteq Elements(x.sends)
      BY <1>7, <1>8
    <3> QED BY <3>1, <3>2, <3>3 DEF Accepted
  <2> QED BY <1>4, <2>1
<1>12. y.left <= Len(mail[c])
  BY <1>4, <1>7
<1>13. /\ news' \in [Client -> SUBSET News]
       /\ told' \in [Client -> SUBSET News]
       /\ answers' \in [Client -> SUBSET Answer]
       /\ "waiting" \notin answers'["other"]
       /\ happened' \subseteq Faults
  BY <1>2, <1>3 DEF OrderInv, TypeOK, Accepting, Client
<1>14. crashes' \in 0 .. MaxCrashes
  BY <1>3, SecretChatAssumption DEF OrderInv, TypeOK
<1>15. Requesting'
  <2>1. client'["admin"].late \subseteq client["admin"].late
    BY <1>5, <1>7 DEF Becomes, OrderInv, TypeOK
  <2>2. news'["admin"] \cup told'["admin"] \subseteq news["admin"]
        \cup told["admin"]
    BY <1>2 DEF OrderInv, TypeOK, Client
  <2> QED BY <2>1, <2>2 DEF OrderInv, Requesting
<1>16. "crash" \in happened'
  BY <1>3
<1> QED BY <1>3, <1>5, <1>9, <1>10, <1>11, <1>12, <1>13, <1>14, <1>15, <1>16,
           Handled DEF x

\* A program that was never started.
LEMMA NewProgram ==
  ASSUME NEW limit \in Nat
  PROVE  LET x == NewClient(limit)
         IN /\ x \in Program /\ Orderly(x) /\ Accepted(x) /\ Exact(x)
            /\ x.left = 0 /\ x.late = {} /\ Said(x) = {} /\ Silent(x)
            /\ x.chat = NewChat /\ x.chat.in = 0 /\ x.chat.out = 0
<1> DEFINE x == NewClient(limit)
<1>1. <<>> \in Seq(Query) /\ <<>> \in Seq(Text)
  OBVIOUS
<1>2. x \in Program
  BY <1>1, NewIs DEF NewClient, Program
<1>3. /\ x.chat = NewChat /\ x.file = NewChat /\ x.heard = <<>>
      /\ x.fetched = <<>> /\ x.sends = <<>> /\ x.left = 0 /\ x.late = {}
  BY DEF NewClient
<1> HIDE DEF x
<1>4. Orderly(x)
  BY <1>2, <1>3, NewIs DEF Orderly
<1>5. Accepted(x) /\ Said(x) = {} /\ Silent(x)
  BY <1>3, NewIs DEF Accepted, Silent, Said, Elements
<1>6. Exact(x)
  BY <1>3, NewIs DEF Exact, Size
<1> QED BY <1>2, <1>3, <1>4, <1>5, <1>6, NewIs DEF x

\* The order holds at the start.
LEMMA InitOrder == Init => OrderInv
<1> SUFFICES ASSUME Init
             PROVE  OrderInv
  OBVIOUS
<1>1. \A c \in Client :
        /\ client[c] = NewClient(MaxMessages[c]) /\ MaxMessages[c] \in Nat
        /\ mail[c] = <<>>
  BY SecretChatAssumption DEF Init
<1>2. \A c \in Client : LET x == client[c] IN
        /\ x \in Program /\ Orderly(x) /\ Accepted(x) /\ Exact(x)
        /\ x.left = 0 /\ x.late = {} /\ Said(x) = {} /\ Silent(x)
        /\ x.chat.in = 0 /\ x.chat.out = 0
  BY <1>1, NewProgram
<1>3. TypeOK
  <2>1. client \in [Client -> Program]
    BY <1>2 DEF Init
  <2>2. mail \in [Client -> Seq(Text)]
    <3>1. <<>> \in Seq(Text)
      OBVIOUS
    <3> QED BY <3>1 DEF Init
  <2>3. crashes \in 0 .. MaxCrashes
    BY SecretChatAssumption DEF Init
  <2> QED BY <2>1, <2>2, <2>3 DEF Init, TypeOK
<1>4. Fresh
  BY <1>1, <1>2 DEF Fresh
<1>5. Accepting /\ Requesting
  BY <1>2 DEF Init, Accepting, Requesting, Client
<1>6. \A c \in Client : Texts(c) = {}
  <2> SUFFICES ASSUME NEW c \in Client
               PROVE  Texts(c) = {}
    OBVIOUS
  <2>1. Elements(<<>>) = {}
    BY DEF Elements
  <2>2. /\ mail[c] = <<>> /\ client[c].heard = <<>>
        /\ client[c].fetched = <<>> /\ Said(client[Peer(c)]) = {}
    BY <1>1, <1>2, Peers DEF Silent
  <2> QED BY <2>1, <2>2 DEF Texts
<1>7. \A c \in Client : Numbered(c)
  BY <1>6 DEF Numbered
<1>8. \A c \in Client : Ahead(c)
  <2> SUFFICES ASSUME NEW c \in Client
               PROVE  Ahead(c)
    OBVIOUS
  <2>1. Elements(mail[c]) \cup Said(client[Peer(c)]) = {}
    BY <1>1, <1>2, Peers DEF Elements
  <2>2. Peer(c) \in Client
    BY Peers
  <2> QED BY <1>2, <2>1, <2>2 DEF Ahead
<1>9. \A c \in Client : client[c].left <= Len(mail[c])
  BY <1>1, <1>2
<1> QED BY <1>2, <1>3, <1>4, <1>5, <1>7, <1>8, <1>9 DEF OrderInv

\* Every step keeps the order.
LEMMA OrderStays == OrderInv /\ [Next]_vars => OrderInv'
<1> SUFFICES ASSUME OrderInv, [Next]_vars
             PROVE  OrderInv'
  OBVIOUS
<1>1. CASE CreateChat
  BY <1>1, CreateOrder
<1>2. CASE \E c \in Client : Asks(c)
  BY <1>2, AcceptOrder, SendOrder, DiscardOrder DEF Asks
<1>3. CASE \E c \in Client : Take(c)
  BY <1>3, TakeOrder
<1>4. CASE \E c \in Client : Receive(c)
  BY <1>4, AskedOrder, AnswerOrder, NewsOrder, StartOrder, LateOrder,
     QuietOrder DEF Receive, Difference, Quietly
<1>5. CASE \E c \in Client : WriteStateFile(c)
  BY <1>5, QuietOrder DEF Quietly
<1>6. CASE \E c \in Client : Crash(c)
  BY <1>6, CrashOrder
<1>7. CASE UNCHANGED vars
  BY <1>7 DEF vars, OrderInv, TypeOK, Fresh, Accepting, Requesting, Numbered,
     Texts, Ahead
<1> QED BY <1>1, <1>2, <1>3, <1>4, <1>5, <1>6, <1>7 DEF Next

\* The state keeps its type: a chat has one of its states and numbers from zero
\* on, and what waits for the server are requests.
THEOREM TypeCorrect == Spec => []TypeOK
<1>1. OrderInv => TypeOK
  BY DEF OrderInv
<1> QED BY <1>1, InitOrder, OrderStays, PTL DEF Spec

\* What is heard is in order: the same id would be the same number.
LEMMA HeardOrder == OrderInv => HeardInOrder
<1> SUFFICES ASSUME OrderInv, NEW c \in Client
             PROVE  LET h == client[c].heard IN
                    /\ \A j, k \in DOMAIN h :
                         j < k => h[j].number < h[k].number
                         /\ h[j].id # h[k].id
                    /\ "crash" \notin happened =>
                         \A k \in DOMAIN h : h[k].number = k - 1
  BY DEF HeardInOrder
<1> DEFINE h == client[c].heard
<1>1. \A j, k \in DOMAIN h : j < k => h[j].number < h[k].number
  BY DEF OrderInv, Orderly
<1>2. \A k \in DOMAIN h : h[k] \in Texts(c)
  BY DEF Texts, Elements
<1>3. \A k \in DOMAIN h : h[k].number \in Int
  BY <1>2, TextsTyped DEF OrderInv
<1>4. \A j, k \in DOMAIN h : h[j].id = h[k].id => h[j].number = h[k].number
  BY <1>2 DEF OrderInv, Numbered
<1>5. "crash" \notin happened => \A k \in DOMAIN h : h[k].number = k - 1
  BY DEF OrderInv, Ahead, Exact
<1> HIDE DEF h
<1>6. \A j, k \in DOMAIN h : j < k => h[j].id # h[k].id
  BY <1>1, <1>3, <1>4
<1> QED BY <1>1, <1>5, <1>6 DEF h

\* What is on its way expects no more than was sent.
LEMMA AheadNever == OrderInv => NeverAhead
<1> SUFFICES ASSUME OrderInv, "crash" \notin happened, NEW c \in Client,
                    NEW k \in client[c].qts + 1 .. Len(mail[c])
             PROVE  mail[c][k].expects <= client[c].chat.out
  BY DEF NeverAhead
<1>1. client[c].qts \in Nat /\ mail[c] \in Seq(Text)
  BY Client1, Fields
<1>2. k \in DOMAIN mail[c]
  BY <1>1
<1>3. mail[c][k] \in Elements(mail[c])
  BY <1>2 DEF Elements
<1> QED BY <1>3 DEF OrderInv, Ahead

\* Whatever is lost, repeated, reordered or restarted, the program is given the
\* peer's messages in the order of their numbers and none twice; without a
\* crash, none is left out before the last.
THEOREM HeardOnceInOrder == Spec => []HeardInOrder
BY InitOrder, OrderStays, HeardOrder, PTL DEF Spec

\* Unless a client restarts, no message is dropped because it expects a number
\* its receiver has not sent yet.
THEOREM PeerNeverAhead == Spec => []NeverAhead
BY InitOrder, OrderStays, AheadNever, PTL DEF Spec
-----------------------------------------------------------------------------
\* The client that asks for the chat accepts none.
AdminIs(x) ==
  /\ x.chat.state \in {"none", "waiting", "ok"} /\ x.asked = 0
  /\ ~x.aborted /\ \A q \in Elements(x.sends) : q.kind # "accept"

\* The other one accepts what it was asked for, and its accepted chat is ready.
OtherIs(x) ==
  /\ x.asked > 0 => x.chat.state # "none"
  /\ \A q \in Elements(x.sends) : q.kind = "accept" => x.chat.state = "ok"

\* The keys of the client that asks: half of one until the answer comes.
AdminKeys(x) ==
  /\ x.chat.state = "waiting" => x.chat.key = "half"
  /\ x.chat.state = "ok" => x.chat.key = "shared"
  /\ x.file.state = "ok" => x.file.key = "shared"

\* The keys of the other: half of one until it accepts, and no failed
\* assertion.
OtherKeys(x) ==
  /\ ~x.aborted
  /\ x.chat.state = "request" => x.chat.key = "none" /\ x.chat.gkey = "half"
  /\ x.chat.state = "ok" => x.chat.key = "shared"
  /\ x.file.state = "ok" => x.file.key = "shared"

\* The two sides of the chat and the updates and answers each can get: N that
\* it was not told yet, T that it was, A the answers on their way.
Plays(c, x, N, T, A) ==
  /\ x.late \subseteq T
  /\ c = "admin" => AdminIs(x) /\ "ready" \notin A
  /\ c = "other" => /\ OtherIs(x) /\ "ready" \notin N \cup T
                    /\ "ready" \in A => x.chat.state = "ok"

\* The keys of the two sides while the updates come in their turn.  The one
\* that asks is never told "waiting" after "ready"; a request for the other one
\* was told, and is not told again.
Holds(c, x, T, A) ==
  /\ c = "admin" => /\ AdminKeys(x)
                    /\ x.chat.state = "ok" \/ "ready" \in x.late =>
                         "waiting" \notin A
  /\ c = "other" => /\ OtherKeys(x)
                    /\ x.chat.state = "request" => "requested" \in T \ x.late

\* A client that has asked the server for a chat at most.
Waits(x) ==
  /\ x.chat.state \in {"none", "waiting"} /\ x.file = NewChat /\ x.late = {}
  /\ Len(x.sends) <= 1 /\ \A q \in Elements(x.sends) : q.kind = "request"

\* A client that knows of no chat.
Sleeps(x) ==
  /\ x.chat.state = "none" /\ x.file = NewChat /\ x.late = {}
  /\ x.asked = 0 /\ x.sends = <<>>

\* Before the server has the chat only the request can be on its way.
Unstarted ==
  server = "none" =>
    /\ Waits(client["admin"]) /\ Sleeps(client["other"])
    /\ \A c \in Client : news[c] = {} /\ told[c] = {}
    /\ answers["admin"] \subseteq {"failed"} /\ answers["other"] = {}

\* Afterwards it is not: a client does not ask twice.
Started ==
  server # "none" =>
    \A c \in Client : \A q \in Elements(client[c].sends) : q.kind # "request"

\* No update of the chat was repeated or overtook an answer.
InTurn == happened \cap {"repeat", "overtake"} = {}

\* The inductive invariant for the keys.  ReadyHasKey alone does not do: that a
\* chat is not made ready twice rests on which updates and answers may come to
\* which side, and on when.
KeyInv ==
  /\ OrderInv /\ Unstarted /\ Started
  /\ \A c \in Client :
       /\ Plays(c, client[c], news[c], told[c], answers[c])
       /\ InTurn => Holds(c, client[c], told[c], answers[c])

\* A client that keeps its chat keeps its side and its keys.
LEMMA KeptRole ==
  ASSUME NEW x, NEW y, Kept(x, y), y.late = x.late
  PROVE  /\ AdminIs(x) => AdminIs(y)
         /\ OtherIs(x) => OtherIs(y)
         /\ AdminKeys(x) => AdminKeys(y)
         /\ OtherKeys(x) => OtherKeys(y)
         /\ Waits(x) => Waits(y)
         /\ Sleeps(x) => Sleeps(y)
<1>1. AdminIs(x) => AdminIs(y)
  BY DEF Kept, AdminIs
<1>2. OtherIs(x) => OtherIs(y)
  BY DEF Kept, OtherIs
<1>3. AdminKeys(x) => AdminKeys(y)
  BY NewIs DEF Kept, Filed, AdminKeys
<1>4. OtherKeys(x) => OtherKeys(y)
  BY NewIs DEF Kept, Filed, OtherKeys
<1>5. Waits(x) => Waits(y)
  BY DEF Kept, Filed, Waits
<1>6. Sleeps(x) => Sleeps(y)
  BY DEF Kept, Filed, Sleeps
<1> QED BY <1>1, <1>2, <1>3, <1>4, <1>5, <1>6

\* An update for the client that asks.
LEMMA AdminWorks ==
  ASSUME NEW x, NEW y, NEW magic \in {"ready", "discarded"},
         Worked(x, y, magic), AdminIs(x)
  PROVE  /\ AdminIs(y)
         /\ y.chat.state = "ok" => x.chat.state = "ok" \/ magic = "ready"
         /\ AdminKeys(x) => AdminKeys(y)
<1>1. /\ Answered(x, y, magic) /\ y.aborted = x.aborted
      /\ y.file = x.file \/ Filed(y.file, y.chat)
      /\ \A q \in Elements(y.sends) :
           q \in Elements(x.sends) \/ q.kind = "message"
  BY DEF Worked, Talks
<1>2. AdminIs(y)
  BY <1>1 DEF AdminIs, Answered
<1>3. y.chat.state = "ok" => x.chat.state = "ok" \/ magic = "ready"
  BY <1>1 DEF Answered
<1>4. AdminKeys(x) => AdminKeys(y)
  <2> SUFFICES ASSUME AdminKeys(x)
               PROVE  AdminKeys(y)
    OBVIOUS
  <2>1. /\ y.chat.state = "waiting" => y.chat.key = "half"
        /\ y.chat.state = "ok" => y.chat.key = "shared"
    BY <1>1 DEF AdminKeys, AdminIs, Answered, KeyAfter
  <2> QED BY <1>1, <2>1, NewIs DEF Filed, AdminKeys
<1> QED BY <1>2, <1>3, <1>4

\* An update for the other one: the key is made once, when a chat was accepted.
LEMMA OtherWorks ==
  ASSUME NEW x, NEW y, NEW magic \in {"requested", "ready", "discarded"},
         Worked(x, y, magic), OtherIs(x), Accepted(x),
         magic = "ready" => x.chat.state = "ok"
  PROVE  /\ OtherIs(y)
         /\ x.chat.state = "ok" => y.chat.state = "ok"
         /\ y.chat.state = "request" =>
              magic = "requested" \/ x.chat.state = "request"
         /\ OtherKeys(x) /\ (magic = "requested" => x.chat.state # "request")
              => OtherKeys(y)
<1>1. /\ Answered(x, y, magic) /\ y.aborted = x.aborted
      /\ y.file = x.file \/ Filed(y.file, y.chat)
      /\ \A q \in Elements(y.sends) :
           q \in Elements(x.sends) \/ q.kind = "message"
  BY DEF Worked, Talks
<1>2. x.chat.state \in {"none", "request", "ok"}
  BY DEF Accepted
<1>3. x.chat.state = "ok" => y.chat.state = "ok"
  BY <1>1 DEF Answered
<1>4. y.chat.state = "request" =>
        magic = "requested" \/ x.chat.state = "request"
  BY <1>1, <1>2 DEF Answered
<1>5. OtherIs(y)
  BY <1>1, <1>2 DEF OtherIs, Answered
<1>6. ASSUME OtherKeys(x), magic = "requested" => x.chat.state # "request"
      PROVE  OtherKeys(y)
  <2>1. /\ y.chat.state = "request" =>
             y.chat.key = "none" /\ y.chat.gkey = "half"
        /\ y.chat.state = "ok" => y.chat.key = "shared"
    BY <1>1, <1>2, <1>6 DEF OtherKeys, Answered, KeyAfter
  <2> QED BY <1>1, <1>6, <2>1, NewIs DEF Filed, OtherKeys
<1> QED BY <1>3, <1>4, <1>5, <1>6

\* A step of c in which the server does nothing.
LEMMA Goes ==
  ASSUME KeyInv, NEW c \in Client, NEW y, Becomes(c, y), server' = server,
         OrderInv',
         \A d \in Client : d # c => /\ news'[d] = news[d] /\ told'[d] = told[d]
                                    /\ answers'[d] = answers[d],
         server = "none" =>
           /\ news'[c] = {} /\ told'[c] = {}
           /\ answers'[c] \subseteq answers[c]
           /\ c = "admin" /\ Waits(client[c]) => Waits(y)
           /\ c = "other" /\ Sleeps(client[c]) => Sleeps(y),
         server # "none" =>
           \A q \in Elements(y.sends) :
             q \in Elements(client[c].sends) \/ q.kind # "request",
         Plays(c, y, news'[c], told'[c], answers'[c]),
         InTurn' => InTurn /\ Holds(c, y, told'[c], answers'[c])
  PROVE  KeyInv'
<1>1. client'[c] = y /\ \A d \in Client : d # c => client'[d] = client[d]
  BY DEF Becomes, KeyInv, OrderInv, TypeOK
<1>2. ASSUME NEW d \in Client
      PROVE  /\ Plays(d, client'[d], news'[d], told'[d], answers'[d])
             /\ InTurn' => Holds(d, client'[d], told'[d], answers'[d])
  <2>1. CASE d = c
    BY <1>1, <2>1
  <2>2. CASE d # c
    BY <1>1, <2>2 DEF KeyInv
  <2> QED BY <2>1, <2>2
<1>3. Started'
  BY <1>1 DEF KeyInv, Started
<1>4. Unstarted'
  <2> SUFFICES ASSUME server = "none"
               PROVE  /\ Waits(client'["admin"]) /\ Sleeps(client'["other"])
                      /\ \A d \in Client : news'[d] = {} /\ told'[d] = {}
                      /\ answers'["admin"] \subseteq {"failed"}
                      /\ answers'["other"] = {}
    BY DEF Unstarted
  <2>1. /\ Waits(client["admin"]) /\ Sleeps(client["other"])
        /\ \A d \in Client : news[d] = {} /\ told[d] = {}
        /\ answers["admin"] \subseteq {"failed"} /\ answers["other"] = {}
    BY DEF KeyInv, Unstarted
  <2>2. "admin" \in Client /\ "other" \in Client /\ "admin" # "other"
    BY DEF Client
  <2>3. Waits(client'["admin"])
    BY <1>1, <2>1, <2>2
  <2>4. Sleeps(client'["other"])
    BY <1>1, <2>1, <2>2
  <2>5. \A d \in Client : news'[d] = {} /\ told'[d] = {}
    BY <2>1
  <2>6. \A d \in Client : answers'[d] \subseteq answers[d]
    OBVIOUS
  <2> QED BY <2>1, <2>2, <2>3, <2>4, <2>5, <2>6
<1> QED BY <1>2, <1>3, <1>4 DEF KeyInv

\* Of the records before a step.
LEMMA Role ==
  ASSUME KeyInv, NEW c \in Client
  PROVE  LET x == client[c]
         IN /\ Plays(c, x, news[c], told[c], answers[c])
            /\ InTurn => Holds(c, x, told[c], answers[c])
            /\ x \in Program /\ Orderly(x) /\ Blank(x)
            /\ c = "other" => Accepted(x)
            /\ server = "none" =>
                 /\ c = "admin" => Waits(x)
                 /\ c = "other" => Sleeps(x)
                 /\ news[c] = {} /\ told[c] = {}
                 /\ answers[c] \subseteq {"failed"}
                 /\ mail[c] = <<>> /\ Silent(x)
            /\ c = "admin" \/ c = "other"
BY Client1 DEF KeyInv, Unstarted, Client, OrderInv, Fresh

\* Quiet steps keep the keys.
LEMMA QuietKeys ==
  ASSUME KeyInv, NEW c \in Client, Quietly(c), OrderInv'
  PROVE  KeyInv'
<1>0. OrderInv
  BY DEF KeyInv
<1>1. PICK y : Quiet(c, y)
  BY <1>0, QuietlyIs
<1>2. UNCHANGED <<server, news, told, mail, answers, crashes>>
      /\ happened \subseteq happened'
  BY <1>0, QuietlyIs
<1>3. Becomes(c, y) /\ Kept(client[c], y) /\ y.late = client[c].late
  BY <1>1 DEF Quiet, Handles
<1>4. Plays(c, y, news[c], told[c], answers[c])
  BY <1>3, Role, KeptRole DEF Plays, Kept
<1>5. InTurn => Holds(c, y, told[c], answers[c])
  BY <1>3, Role, KeptRole DEF Holds, Kept
<1>6. InTurn' => InTurn
  BY <1>2 DEF InTurn
<1>7. server = "none" =>
        /\ news[c] = {} /\ told[c] = {}
        /\ c = "admin" /\ Waits(client[c]) => Waits(y)
        /\ c = "other" /\ Sleeps(client[c]) => Sleeps(y)
  BY <1>3, Role, KeptRole
<1>8. y.sends = client[c].sends
  BY <1>3 DEF Kept
<1> QED BY <1>2, <1>3, <1>4, <1>5, <1>6, <1>7, <1>8, Goes

\* tgl_do_send_create_encr_chat: half a key, and the only request.
LEMMA CreateKeys ==
  ASSUME KeyInv, CreateChat, OrderInv'
  PROVE  KeyInv'
<1> DEFINE x == client["admin"]
           C == [x.chat EXCEPT !.state = "waiting", !.key = "half"]
           A == x.asked
           z == [x EXCEPT !.chat = C, !.asked = A]
           q == [kind |-> "request", text |-> NoText]
           y == Ask(z, q.kind, q.text)
<1>1. "admin" \in Client /\ x \in Program
  BY Role DEF Client
<1>2. q \in Query /\ q.kind = "request" /\ q.text = NoText
  BY DEF Query, Text, NoText, Key
<1>3. x.sends = <<>> /\ server = "none"
  BY DEF CreateChat
<1>4. /\ C \in Chat /\ C.in = x.chat.in /\ C.out = x.chat.out
      /\ C.state = "waiting" /\ C.key = "half" /\ A \in Nat /\ A = x.asked
  BY <1>1 DEF Program, Chat, Key
<1>5. Becomes("admin", y)
  <2>1. z = [x EXCEPT !.chat.state = "waiting", !.chat.key = "half"]
    BY <1>1 DEF Program
  <2> QED BY <1>2, <2>1 DEF CreateChat
<1>6. UNCHANGED <<server, news, told, mail, answers, crashes, happened>>
  BY DEF CreateChat
<1>7. /\ Plays("admin", x, news["admin"], told["admin"], answers["admin"])
      /\ InTurn => Holds("admin", x, told["admin"], answers["admin"])
      /\ Waits(x) /\ news["admin"] = {} /\ told["admin"] = {}
  BY <1>1, <1>3, Role
<1> HIDE DEF A, C, q, x
<1>8. Turned(x, z) /\ z.chat = C /\ z.asked = x.asked /\ z.file = x.file
  <2>1. /\ x \in Program /\ C \in Chat /\ A \in Nat /\ C.in = x.chat.in
        /\ C.out = x.chat.out /\ C.state # "none"
    BY <1>1, <1>4
  <2>2. Turned(x, z) /\ z.chat = C /\ z.asked = A /\ z.file = x.file
    BY <2>1, Turning
  <2> QED BY <1>4, <2>2
<1> HIDE DEF z
<1>9. /\ Rest(x, y) /\ y.aborted = z.aborted /\ y.chat = z.chat
      /\ y.asked = z.asked /\ y.file = z.file /\ y.sends = Append(x.sends, q)
  BY <1>1, <1>2, <1>8, AskTalks
<1> HIDE DEF y
<1>10. /\ y.aborted = x.aborted /\ y.chat = C /\ y.asked = x.asked
       /\ y.file = x.file /\ y.late = x.late
  BY <1>8, <1>9 DEF Turned, Rest
<1>11. Len(y.sends) = 1 /\ Elements(y.sends) = {q}
  <2>1. y.sends = <<q>>
    BY <1>3, <1>9
  <2> QED BY <2>1 DEF Elements
<1>12. Waits(y)
  BY <1>2, <1>4, <1>7, <1>10, <1>11 DEF Waits
<1>13. Plays("admin", y, news["admin"], told["admin"], answers["admin"])
  BY <1>2, <1>4, <1>7, <1>10, <1>11 DEF Plays, AdminIs
<1>14. InTurn => Holds("admin", y, told["admin"], answers["admin"])
  BY <1>4, <1>7, <1>10 DEF Holds, AdminKeys, Waits
<1>15. InTurn' = InTurn
  BY <1>6 DEF InTurn
<1> QED BY <1>1, <1>3, <1>5, <1>6, <1>7, <1>12, <1>13, <1>14, <1>15, Goes

\* Requests of a client that change nothing but what is to be sent.
Wishes(x, y) ==
  /\ y.chat.state = x.chat.state /\ y.chat.key = x.chat.key
  /\ y.chat.gkey = x.chat.gkey /\ y.file = x.file /\ y.late = x.late
  /\ y.aborted = x.aborted /\ x.chat.state # "none"
  /\ y.asked = x.asked \/ x.chat.state = "request"
  /\ \A q \in Elements(y.sends) :
       q \in Elements(x.sends) \/ q.kind \in {"message", "discard"}

\* They keep the keys.
LEMMA WishKeys ==
  ASSUME KeyInv, NEW c \in Client, NEW y, Becomes(c, y), Wishes(client[c], y),
         server # "none", OrderInv',
         UNCHANGED <<server, news, told, mail, answers, crashes, happened>>
  PROVE  KeyInv'
<1> DEFINE x == client[c]
<1>1. Plays(c, x, news[c], told[c], answers[c])
      /\ (InTurn => Holds(c, x, told[c], answers[c]))
  BY Role
<1> HIDE DEF x
<1>2. Wishes(x, y)
  BY DEF x
<1>3. AdminIs(x) => AdminIs(y)
  BY <1>2 DEF Wishes, AdminIs
<1>4. OtherIs(x) => OtherIs(y)
  BY <1>2 DEF Wishes, OtherIs
<1>5. Plays(c, y, news[c], told[c], answers[c])
  BY <1>1, <1>2, <1>3, <1>4 DEF Plays, Wishes
<1>6. InTurn => Holds(c, y, told[c], answers[c])
  BY <1>1, <1>2 DEF Holds, Wishes, AdminKeys, OtherKeys
<1>7. InTurn' = InTurn
  BY DEF InTurn
<1>8. \A q \in Elements(y.sends) : q \in Elements(x.sends)
        \/ q.kind # "request"
  BY <1>2 DEF Wishes
<1> QED BY <1>5, <1>6, <1>7, <1>8, Goes DEF x

\* A chat that was asked for, or is ready, the server has.
LEMMA StartedOk ==
  ASSUME KeyInv, NEW c \in Client,
         client[c].chat.state \in {"request", "ok"} \/ client[c].asked > 0
  PROVE  server # "none" /\ (client[c].chat.state = "request" => c = "other")
         /\ (client[c].asked > 0 => c = "other")
<1>1. Waits(client[c]) => client[c].chat.state \notin {"request", "ok"}
  BY DEF Waits
<1>2. Sleeps(client[c]) => ~(client[c].chat.state \in {"request", "ok"}
                             \/ client[c].asked > 0)
  BY DEF Sleeps
<1>3. c = "admin" => client[c].chat.state # "request" /\ client[c].asked = 0
  BY Role DEF Plays, AdminIs
<1> QED BY <1>1, <1>2, <1>3, Role

\* The user's requests keep the keys.
LEMMA AskKeys ==
  ASSUME KeyInv, NEW c \in Client, Asks(c), OrderInv'
  PROVE  KeyInv'
<1> DEFINE x == client[c]
<1>1. x \in Program
  BY Role
<1>2. UNCHANGED <<server, news, told, mail, answers, crashes, happened>>
  BY DEF Asks, AcceptChat, SendMessage, DiscardChat
<1>3. CASE AcceptChat(c)
  <2> DEFINE y == [x EXCEPT !.asked = @ + 1]
  <2>1. Becomes(c, y) /\ x.chat.state = "request"
    BY <1>3 DEF AcceptChat
  <2>2. server # "none"
    BY <2>1, StartedOk
  <2> HIDE DEF x
  <2>3. Wishes(x, y)
    BY <1>1, <2>1 DEF Wishes, Program
  <2> HIDE DEF y
  <2> QED BY <1>2, <2>1, <2>2, <2>3, WishKeys DEF x
<1>4. CASE SendMessage(c)
  <2> DEFINE y == SendText(x)
  <2>1. Becomes(c, y) /\ x.chat.state = "ok"
    BY <1>4 DEF SendMessage
  <2>2. server # "none"
    BY <2>1, StartedOk
  <2> HIDE DEF x
  <2>3. /\ Rest(x, y) /\ y.chat.state = x.chat.state
        /\ y.chat.key = x.chat.key /\ y.chat.gkey = x.chat.gkey
        /\ y.asked = x.asked /\ y.aborted = x.aborted /\ y.file = x.file
        /\ \A q \in Elements(y.sends) :
             q \in Elements(x.sends) \/ q.kind = "message"
    BY <1>1, <2>1, SendTextTalks
  <2> HIDE DEF y
  <2>4. Wishes(x, y)
    BY <2>1, <2>3 DEF Wishes, Rest
  <2> QED BY <1>2, <2>1, <2>2, <2>4, WishKeys DEF x
<1>5. CASE DiscardChat(c)
  <2> DEFINE q == [kind |-> "discard", text |-> NoText]
             y == Ask(x, q.kind, q.text)
  <2>1. q \in Query /\ q.kind = "discard" /\ q.text = NoText
    BY DEF Query, Text, NoText, Key
  <2>2. Becomes(c, y) /\ x.chat.state # "none" /\ server # "none"
    BY <1>5, <2>1 DEF DiscardChat
  <2> HIDE DEF x, q
  <2>3. /\ Rest(x, y) /\ y.chat = x.chat /\ y.file = x.file
        /\ y.asked = x.asked /\ y.aborted = x.aborted
        /\ \A r \in Elements(y.sends) : r \in Elements(x.sends) \/ r = q
    BY <1>1, <2>1, Unturned, AskTalks
  <2> HIDE DEF y
  <2>4. Wishes(x, y)
    BY <2>1, <2>2, <2>3 DEF Wishes, Rest
  <2> QED BY <1>2, <2>2, <2>4, WishKeys DEF x
<1> QED BY <1>3, <1>4, <1>5 DEF Asks

\* get_dh_config_on_answer: a key is made for a chat that has none, from the
\* half that came with the request, so that the assertion does not fail.
LEMMA AskedKeys ==
  ASSUME KeyInv, NEW c \in Client, ReceiveDhConfig(c), OrderInv'
  PROVE  KeyInv'
<1> DEFINE x == client[c]
           y == SendAccept(x)
<1>1. x \in Program /\ Plays(c, x, news[c], told[c], answers[c])
      /\ (InTurn => Holds(c, x, told[c], answers[c]))
      /\ (c = "other" => Accepted(x))
  BY Role
<1>2. x.asked > 0 /\ Becomes(c, y)
      /\ UNCHANGED <<server, news, told, mail, answers, crashes, happened>>
  BY DEF ReceiveDhConfig
<1>3. server # "none" /\ c = "other"
  BY <1>2, StartedOk
<1> HIDE DEF x
<1>4. /\ Rest(x, y) /\ (y.file = x.file \/ Filed(y.file, y.chat))
      /\ x.chat.key # "none" =>
           /\ y.chat = x.chat /\ y.file = x.file /\ y.sends = x.sends
           /\ y.aborted = x.aborted
      /\ x.chat.key = "none" /\ x.chat.gkey # "none" =>
           /\ y.chat.state = "ok" /\ y.chat.key = "shared"
           /\ Filed(y.file, y.chat) /\ y.aborted = x.aborted
      /\ x.chat.key = "none" /\ x.chat.gkey = "none" =>
           y.chat = x.chat /\ y.sends = x.sends
      /\ \A q \in Elements(y.sends) :
           q \in Elements(x.sends) \/ q.kind = "accept"
  BY <1>1, <1>2, SendAcceptIs DEF Talks
<1> HIDE DEF y
<1>5. OtherIs(x) /\ x.chat.state # "none" /\ x.late \subseteq told[c]
      /\ "ready" \notin news[c] \cup told[c]
      /\ ("ready" \in answers[c] => x.chat.state = "ok")
  BY <1>1, <1>2, <1>3 DEF Plays, OtherIs
<1>6. OtherIs(y) /\ (x.chat.state = "ok" => y.chat.state = "ok")
  <2>1. CASE y.chat = x.chat /\ y.sends = x.sends
    BY <1>5, <2>1 DEF OtherIs
  <2>2. CASE y.chat.state = "ok"
    BY <2>2 DEF OtherIs
  <2> QED BY <1>4, <2>1, <2>2
<1>7. Plays(c, y, news[c], told[c], answers[c])
  BY <1>3, <1>4, <1>5, <1>6 DEF Plays, Rest
<1>8. ASSUME InTurn
      PROVE  Holds(c, y, told[c], answers[c])
  <2>1. OtherKeys(x)
        /\ (x.chat.state = "request" => "requested" \in told[c] \ x.late)
    BY <1>1, <1>3, <1>8 DEF Holds
  <2>2. x.chat.state \in {"request", "ok"}
    BY <1>1, <1>3, <1>5 DEF Accepted
  <2>3. CASE x.chat.state = "ok"
    <3>1. x.chat.key # "none"
      BY <2>1, <2>3 DEF OtherKeys
    <3> QED BY <1>3, <1>4, <2>1, <2>3, <3>1 DEF Holds, OtherKeys
  <2>4. CASE x.chat.state = "request"
    <3>1. x.chat.key = "none" /\ x.chat.gkey # "none"
      BY <2>1, <2>4 DEF OtherKeys
    <3> QED BY <1>3, <1>4, <2>1, <3>1 DEF Holds, OtherKeys, Filed
  <2> QED BY <2>2, <2>3, <2>4
<1>9. InTurn' = InTurn
  BY <1>2 DEF InTurn
<1>10. \A q \in Elements(y.sends) : q \in Elements(x.sends)
         \/ q.kind # "request"
  BY <1>4
<1> QED BY <1>2, <1>3, <1>7, <1>8, <1>9, <1>10, Goes DEF x

\* A chat that is turned but keeps its state and its keys is kept.
LEMMA TurnedKept ==
  ASSUME NEW x \in Program, NEW y, Turned(x, y),
         y.chat.state = x.chat.state, y.chat.key = x.chat.key,
         y.chat.gkey = x.chat.gkey, y.asked = x.asked
  PROVE  Kept(x, y) /\ y.late = x.late
BY DEF Turned, Rest, Kept

\* So is it by the answers that say nothing of the key.
LEMMA OnAnswerKept ==
  ASSUME NEW x \in Program, NEW a \in {"declined", "gone", "failed", "sent"},
         NEW written \in BOOLEAN
  PROVE  LET y == OnAnswer(x, a, written)
         IN Kept(x, y) /\ y.late = x.late
<1> DEFINE y == OnAnswer(x, a, written)
<1>1. CASE a \in {"declined", "gone"}
  <2>1. y = PeerDelete(x)
    BY <1>1 DEF OnAnswer
  <2>2. /\ Turned(x, y) /\ y.chat.state = x.chat.state
        /\ y.chat.key = x.chat.key /\ y.chat.gkey = x.chat.gkey
        /\ y.asked = x.asked
    BY <2>1, PeerDeleteTurned
  <2> HIDE DEF y
  <2> QED BY <2>2, TurnedKept DEF y
<1>2. CASE a \in {"failed", "sent"}
  <2>1. y = x \/ y = WriteChatFile(x)
    BY <1>2 DEF OnAnswer
  <2>2. Turned(x, x)
    BY Unturned
  <2>3. /\ Turned(x, WriteChatFile(x)) /\ WriteChatFile(x).chat = x.chat
        /\ WriteChatFile(x).asked = x.asked
    BY <2>2, WriteTurned
  <2>4. Turned(x, y) /\ y.chat = x.chat /\ y.asked = x.asked
    BY <2>1, <2>2, <2>3
  <2> HIDE DEF y
  <2> QED BY <2>4, TurnedKept DEF y
<1> QED BY <1>1, <1>2

\* The answers: "waiting" finds a chat that is not ready, "ready" one that is.
LEMMA AnswerKeys ==
  ASSUME KeyInv, NEW c \in Client, ReceiveAnswer(c), OrderInv'
  PROVE  KeyInv'
<1>1. PICK a \in answers[c], written \in BOOLEAN :
        /\ Becomes(c, OnAnswer(client[c], a, written))
        /\ answers' = [answers EXCEPT ![c] = @ \ {a}]
  BY DEF ReceiveAnswer
<1> DEFINE x == client[c]
           y == OnAnswer(x, a, written)
<1>2. /\ x \in Program /\ Blank(x) /\ Plays(c, x, news[c], told[c], answers[c])
      /\ (InTurn => Holds(c, x, told[c], answers[c]))
      /\ (c = "other" => Accepted(x)) /\ (c = "admin" \/ c = "other")
      /\ server = "none" => /\ news[c] = {} /\ told[c] = {}
                            /\ answers[c] \subseteq {"failed"}
                            /\ c = "admin" => Waits(x)
                            /\ c = "other" => Sleeps(x)
  BY Role
<1>3. UNCHANGED <<server, news, told, mail, crashes, happened>>
  BY DEF ReceiveAnswer
<1>4. /\ a \in Answer /\ answers'[c] = answers[c] \ {a}
      /\ \A d \in Client : d # c => answers'[d] = answers[d]
      /\ c = "other" => a # "waiting"
  BY <1>1 DEF KeyInv, OrderInv, TypeOK, Accepting
<1>5. Becomes(c, y)
  BY <1>1
<1>6. InTurn' = InTurn
  BY <1>3 DEF InTurn
<1> HIDE DEF x
<1>7. CASE a \in {"declined", "gone", "failed", "sent"}
  <2>1. Kept(x, y) /\ y.late = x.late
    BY <1>2, <1>7, OnAnswerKept
  <2> HIDE DEF y
  <2>2. Plays(c, y, news[c], told[c], answers'[c])
    BY <1>2, <1>4, <2>1, KeptRole DEF Plays, Kept
  <2>3. InTurn => Holds(c, y, told[c], answers'[c])
    BY <1>2, <1>4, <2>1, KeptRole DEF Holds, Kept
  <2>4. y.sends = x.sends
    BY <2>1 DEF Kept
  <2>5. (Waits(x) => Waits(y)) /\ (Sleeps(x) => Sleeps(y))
    BY <2>1, KeptRole
  <2> QED BY <1>2, <1>3, <1>4, <1>5, <1>6, <2>2, <2>3, <2>4, <2>5, Goes DEF x
<1>8. CASE a = "waiting"
  <2>1. c = "admin" /\ server # "none"
    <3>1. "waiting" \in answers[c]
      BY <1>1, <1>8
    <3>2. server = "none" => "waiting" \in {"failed"}
      BY <1>2, <3>1
    <3>3. "waiting" # "failed" /\ (c = "admin" \/ c = "other")
          /\ (c = "other" => a # "waiting")
      BY <1>2, <1>4
    <3> QED BY <1>8, <3>2, <3>3
  <2>2. y = FetchChat(x, "waiting") /\ "waiting" \in Magic
    BY <1>8 DEF OnAnswer, Magic
  <2>3. Turned(x, y) /\ Answered(x, y, "waiting")
    BY <1>2, <2>2, FetchChatIs
  <2> HIDE DEF y
  <2>4. /\ y.sends = x.sends /\ y.late = x.late /\ y.aborted = x.aborted
        /\ y.file = x.file \/ Filed(y.file, y.chat)
    BY <2>3 DEF Turned, Rest
  <2>5. y.asked = x.asked /\ y.chat.key = x.chat.key
        /\ y.chat.state \in {x.chat.state, "waiting"}
        /\ (y.chat.state # "waiting" => y.chat.state = "none")
    BY <2>3 DEF Answered
  <2>6. AdminIs(x) /\ "ready" \notin answers[c] /\ x.late \subseteq told[c]
    BY <1>2, <2>1 DEF Plays
  <2>7. AdminIs(y)
    BY <2>4, <2>5, <2>6 DEF AdminIs
  <2>8. Plays(c, y, news[c], told[c], answers'[c])
    BY <1>4, <2>1, <2>4, <2>6, <2>7 DEF Plays
  <2>9. ASSUME InTurn
        PROVE  Holds(c, y, told[c], answers'[c])
    <3>1. AdminKeys(x) /\ x.chat.state # "ok"
      BY <1>1, <1>2, <1>8, <2>1, <2>9 DEF Holds
    <3>2. AdminKeys(y)
      <4>1. x.chat.state \in {"none", "waiting"} /\ y.chat.state # "ok"
        BY <2>5, <2>6, <3>1 DEF AdminIs
      <4>2. y.chat.state = "waiting" => x.chat.state = "waiting"
        BY <2>3, <4>1 DEF Answered
      <4> QED BY <2>4, <2>5, <3>1, <4>1, <4>2, NewIs DEF AdminKeys, Filed
    <3> QED BY <1>4, <1>8, <2>1, <3>2 DEF Holds
  <2> QED BY <1>3, <1>4, <1>5, <1>6, <2>1, <2>4, <2>8, <2>9, Goes DEF x
<1>9. CASE a = "ready"
  <2>1. c = "other" /\ x.chat.state = "ok" /\ server # "none"
    BY <1>1, <1>2, <1>9 DEF Plays
  <2>2. y = WorkEncryption(x, "ready") /\ "ready" \in Magic
    BY <1>9 DEF OnAnswer, Magic
  <2>3. Worked(x, y, "ready")
    BY <1>2, <2>2, WorkIs
  <2> HIDE DEF y
  <2>4. /\ y.late = x.late
        /\ \A q \in Elements(y.sends) :
             q \in Elements(x.sends) \/ q.kind # "request"
    BY <2>3 DEF Worked, Rest
  <2>5. /\ OtherIs(x) /\ x.late \subseteq told[c]
        /\ "ready" \notin news[c] \cup told[c]
    BY <1>2, <2>1 DEF Plays
  <2>6. OtherIs(y) /\ y.chat.state = "ok" /\ (OtherKeys(x) => OtherKeys(y))
    BY <1>2, <2>1, <2>3, <2>5, OtherWorks
  <2>7. Plays(c, y, news[c], told[c], answers'[c])
    BY <2>1, <2>4, <2>5, <2>6 DEF Plays
  <2>8. InTurn => Holds(c, y, told[c], answers'[c])
    BY <1>2, <2>1, <2>6 DEF Holds
  <2> QED BY <1>3, <1>4, <1>5, <1>6, <2>1, <2>4, <2>7, <2>8, Goes DEF x
<1> QED BY <1>4, <1>7, <1>8, <1>9 DEF Answer

\* An update that is told in its turn finds what it is made for.
LEMMA InItsTurn ==
  ASSUME NEW c \in Client, NEW u \in News, InTurn', 
         happened \cup Surprise(c, u) \subseteq happened'
  PROVE  /\ InTurn /\ u \notin told[c]
         /\ u = "ready" => "waiting" \notin answers[c]
BY DEF InTurn, Surprise

\* tglu_work_update of updateEncryption, in its turn, makes the key once.
LEMMA NewsKeys ==
  ASSUME KeyInv, NEW c \in Client, PushNews(c), OrderInv'
  PROVE  KeyInv'
<1>1. PICK u \in news[c] \cup told[c] :
        /\ Needs(Surprise(c, u))
        /\ Becomes(c, WorkEncryption(client[c], u))
        /\ news' = [news EXCEPT ![c] = @ \ {u}]
        /\ told' = [told EXCEPT ![c] = @ \cup {u}]
  BY DEF PushNews
<1> DEFINE x == client[c]
           y == WorkEncryption(x, u)
<1>2. /\ x \in Program /\ Blank(x) /\ Plays(c, x, news[c], told[c], answers[c])
      /\ (InTurn => Holds(c, x, told[c], answers[c]))
      /\ (c = "other" => Accepted(x)) /\ (c = "admin" \/ c = "other")
      /\ server # "none"
  BY Role
<1>3. u \in News /\ u \in Magic /\ (c = "admin" => u # "requested")
  BY Requested DEF KeyInv, OrderInv, TypeOK
<1>4. Becomes(c, y) /\ happened' = happened \cup Surprise(c, u)
      /\ UNCHANGED <<server, mail, answers, crashes>>
  BY <1>1 DEF PushNews, Needs
<1>5. /\ news'[c] = news[c] \ {u} /\ told'[c] = told[c] \cup {u}
      /\ \A d \in Client : d # c => news'[d] = news[d] /\ told'[d] = told[d]
  BY <1>1 DEF KeyInv, OrderInv, TypeOK
<1>6. InTurn' => /\ InTurn /\ u \notin told[c]
                 /\ u = "ready" => "waiting" \notin answers[c]
  BY <1>3, <1>4, InItsTurn
<1> HIDE DEF x
<1>7. Worked(x, y, u)
  BY <1>2, <1>3, WorkIs
<1> HIDE DEF y
<1>8. /\ y.late = x.late
      /\ \A q \in Elements(y.sends) :
           q \in Elements(x.sends) \/ q.kind # "request"
  BY <1>7 DEF Worked, Rest
<1>9. CASE c = "admin"
  <2>1. u \in {"ready", "discarded"}
    BY <1>3, <1>9 DEF News
  <2>2. AdminIs(x) /\ "ready" \notin answers[c] /\ x.late \subseteq told[c]
    BY <1>2, <1>9 DEF Plays
  <2>3. /\ AdminIs(y) /\ (AdminKeys(x) => AdminKeys(y))
        /\ y.chat.state = "ok" => x.chat.state = "ok" \/ u = "ready"
    BY <1>7, <2>1, <2>2, AdminWorks
  <2>4. Plays(c, y, news'[c], told'[c], answers[c])
    BY <1>5, <1>8, <1>9, <2>2, <2>3 DEF Plays
  <2>5. InTurn' => InTurn /\ Holds(c, y, told'[c], answers[c])
    BY <1>2, <1>6, <1>8, <1>9, <2>3 DEF Holds
  <2> QED BY <1>2, <1>4, <1>5, <1>8, <2>4, <2>5, Goes DEF x
<1>10. CASE c = "other"
  <2>1. /\ OtherIs(x) /\ x.late \subseteq told[c] /\ Accepted(x)
        /\ "ready" \notin news[c] \cup told[c]
        /\ "ready" \in answers[c] => x.chat.state = "ok"
    BY <1>2, <1>10 DEF Plays
  <2>2. u \in {"requested", "discarded"}
    BY <1>3, <2>1 DEF News
  <2>3. /\ OtherIs(y) /\ (x.chat.state = "ok" => y.chat.state = "ok")
        /\ y.chat.state = "request" =>
             u = "requested" \/ x.chat.state = "request"
        /\ OtherKeys(x) /\ (u = "requested" => x.chat.state # "request")
             => OtherKeys(y)
    <3>1. u \in {"requested", "ready", "discarded"}
          /\ (u = "ready" => x.chat.state = "ok")
      BY <2>2
    <3> QED BY <1>7, <2>1, <3>1, OtherWorks
  <2>4. Plays(c, y, news'[c], told'[c], answers[c])
    BY <1>5, <1>8, <1>10, <2>1, <2>2, <2>3 DEF Plays
  <2>5. ASSUME InTurn'
        PROVE  Holds(c, y, told'[c], answers[c])
    <3>1. /\ OtherKeys(x) /\ u \notin told[c]
          /\ x.chat.state = "request" => "requested" \in told[c] \ x.late
      BY <1>2, <1>6, <1>10, <2>5 DEF Holds
    <3>2. OtherKeys(y)
      BY <2>3, <3>1
    <3>3. y.chat.state = "request" => "requested" \in told'[c] \ y.late
      BY <1>5, <1>8, <2>1, <2>3, <3>1
    <3> QED BY <1>10, <3>2, <3>3 DEF Holds
  <2> QED BY <1>2, <1>4, <1>5, <1>6, <1>8, <2>4, <2>5, Goes DEF x
<1> QED BY <1>2, <1>9, <1>10

\* A client at another place of a difference keeps its side and its keys.
LEMMA SameRole ==
  ASSUME NEW x, NEW y, Same(x, y)
  PROVE  /\ AdminIs(x) => AdminIs(y)
         /\ OtherIs(x) => OtherIs(y)
         /\ AdminKeys(x) => AdminKeys(y)
         /\ OtherKeys(x) => OtherKeys(y)
BY DEF Same, AdminIs, OtherIs, AdminKeys, OtherKeys

\* get_difference_on_answer starts.
LEMMA StartKeys ==
  ASSUME KeyInv, NEW c \in Client, StartDifference(c), OrderInv'
  PROVE  KeyInv'
<1> DEFINE x == client[c]
           y == [x EXCEPT !.busy = TRUE, !.left = Len(mail[c]),
                          !.late = news[c]]
<1>1. /\ x \in Program /\ Plays(c, x, news[c], told[c], answers[c])
      /\ (InTurn => Holds(c, x, told[c], answers[c]))
      /\ (c = "admin" \/ c = "other") /\ x.qts \in Nat
      /\ server = "none" => news[c] = {} /\ mail[c] = <<>>
  BY Role, Fields
<1>2. /\ Becomes(c, y)
      /\ news'[c] = {} /\ told'[c] = told[c] \cup news[c]
      /\ \A d \in Client : d # c => news'[d] = news[d] /\ told'[d] = told[d]
      /\ \A u \in news[c] : happened \cup Surprise(c, u) \subseteq happened'
      /\ happened \subseteq happened'
      /\ UNCHANGED <<server, mail, answers, crashes>>
  BY DEF StartDifference, Needs, KeyInv, OrderInv, TypeOK
<1>3. server # "none"
  <2>1. mail[c] = <<>> => ~(x.qts < Len(mail[c]))
    BY <1>1
  <2> QED BY <1>1, <2>1 DEF StartDifference
<1>4. news[c] \subseteq News /\ Len(mail[c]) \in Nat
  BY DEF KeyInv, OrderInv, TypeOK
<1>5. InTurn' => InTurn /\ \A u \in news[c] :
                   /\ u \notin told[c]
                   /\ u = "ready" => "waiting" \notin answers[c]
  <2>1. InTurn' => InTurn
    BY <1>2 DEF InTurn
  <2> QED BY <1>2, <1>4, <2>1, InItsTurn
<1> HIDE DEF x
<1>6. Same(x, y) /\ y.late = news[c]
  BY <1>1, <1>4 DEF Same, Program
<1> HIDE DEF y
<1>7. y.sends = x.sends /\ y.chat = x.chat
  BY <1>6 DEF Same
<1>8. Plays(c, y, news'[c], told'[c], answers[c])
  BY <1>1, <1>2, <1>6, <1>7, SameRole DEF Plays
<1>9. InTurn' => Holds(c, y, told'[c], answers[c])
  BY <1>1, <1>2, <1>5, <1>6, <1>7, SameRole DEF Holds
<1> QED BY <1>2, <1>3, <1>5, <1>7, <1>8, <1>9, Goes DEF x

\* get_difference_on_answer works an update, the request before the others.
LEMMA LateKeys ==
  ASSUME KeyInv, NEW c \in Client, DifferenceNews(c), OrderInv'
  PROVE  KeyInv'
<1>1. PICK u \in client[c].late :
        Becomes(c, WorkEncryption([client[c] EXCEPT !.late = @ \ {u}], u))
  BY DEF DifferenceNews
<1> DEFINE x == client[c]
           z == [x EXCEPT !.late = @ \ {u}]
           y == WorkEncryption(z, u)
<1>2. /\ x \in Program /\ Orderly(x)
      /\ Plays(c, x, news[c], told[c], answers[c])
      /\ (InTurn => Holds(c, x, told[c], answers[c]))
      /\ (c = "other" => Accepted(x)) /\ (c = "admin" \/ c = "other")
  BY Role
<1>3. u \in News /\ x.late \subseteq News /\ u \in x.late
  BY <1>1, <1>2, Fields
<1>4. u \in Magic /\ (c = "admin" => u # "requested")
  BY <1>3, Requested DEF KeyInv
<1>5. Becomes(c, y)
      /\ UNCHANGED <<server, news, told, mail, answers, crashes, happened>>
  BY <1>1 DEF DifferenceNews
<1>6. server # "none"
  BY <1>3, Role DEF Waits, Sleeps
<1>7. InTurn' = InTurn
  BY <1>5 DEF InTurn
<1> HIDE DEF x
<1>8. Same(x, z) /\ z.late = x.late \ {u}
  BY <1>2, <1>3 DEF Same, Program
<1> HIDE DEF z
<1>9. z \in Program /\ Blank(z) /\ (Accepted(x) => Accepted(z))
      /\ z.chat = x.chat /\ z.sends = x.sends
  BY <1>2, <1>8, SameOrderly, SameAccepted DEF Orderly, Blank, Same
<1>10. Worked(z, y, u)
  BY <1>4, <1>9, WorkIs
<1> HIDE DEF y
<1>11. /\ y.late = x.late \ {u}
       /\ \A q \in Elements(y.sends) :
            q \in Elements(x.sends) \/ q.kind # "request"
  BY <1>8, <1>9, <1>10 DEF Worked, Rest
<1>12. CASE c = "admin"
  <2>1. u \in {"ready", "discarded"}
    BY <1>3, <1>4, <1>12 DEF News
  <2>2. AdminIs(z) /\ "ready" \notin answers[c] /\ x.late \subseteq told[c]
    BY <1>2, <1>8, <1>12, SameRole DEF Plays
  <2>3. /\ AdminIs(y) /\ (AdminKeys(z) => AdminKeys(y))
        /\ y.chat.state = "ok" => z.chat.state = "ok" \/ u = "ready"
    BY <1>10, <2>1, <2>2, AdminWorks
  <2>4. Plays(c, y, news[c], told[c], answers[c])
    BY <1>11, <1>12, <2>2, <2>3 DEF Plays
  <2>5. InTurn => Holds(c, y, told[c], answers[c])
    BY <1>2, <1>3, <1>8, <1>9, <1>11, <1>12, <2>3, SameRole DEF Holds
  <2> QED BY <1>5, <1>6, <1>7, <1>11, <2>4, <2>5, Goes DEF x
<1>13. CASE c = "other"
  <2>1. /\ OtherIs(z) /\ x.late \subseteq told[c] /\ Accepted(z)
        /\ "ready" \notin news[c] \cup told[c]
        /\ "ready" \in answers[c] => x.chat.state = "ok"
    BY <1>2, <1>8, <1>9, <1>13, SameRole DEF Plays
  <2>2. u \in {"requested", "discarded"}
    BY <1>3, <2>1 DEF News
  <2>3. /\ OtherIs(y) /\ (z.chat.state = "ok" => y.chat.state = "ok")
        /\ y.chat.state = "request" =>
             u = "requested" \/ z.chat.state = "request"
        /\ OtherKeys(z) /\ (u = "requested" => z.chat.state # "request")
             => OtherKeys(y)
    <3>1. u \in {"requested", "ready", "discarded"}
          /\ (u = "ready" => z.chat.state = "ok")
      BY <2>2
    <3> QED BY <1>10, <2>1, <3>1, OtherWorks
  <2>4. Plays(c, y, news[c], told[c], answers[c])
    BY <1>9, <1>11, <1>13, <2>1, <2>3 DEF Plays
  <2>5. ASSUME InTurn
        PROVE  Holds(c, y, told[c], answers[c])
    <3>1. /\ OtherKeys(z)
          /\ x.chat.state = "request" => "requested" \in told[c] \ x.late
      BY <1>2, <1>8, <1>13, <2>5, SameRole DEF Holds
    <3>2. OtherKeys(y)
      BY <1>3, <1>9, <2>3, <3>1
    <3>3. y.chat.state = "request" => "requested" \in told[c] \ y.late
      BY <1>3, <1>9, <1>11, <2>1, <2>3, <3>1
    <3> QED BY <1>13, <3>2, <3>3 DEF Holds
  <2> QED BY <1>5, <1>6, <1>7, <1>11, <2>4, <2>5, Goes DEF x
<1> QED BY <1>2, <1>12, <1>13

\* A crash: what is filed has the whole key; what is not starts again.
LEMMA CrashKeys ==
  ASSUME KeyInv, NEW c \in Client, Crash(c), OrderInv'
  PROVE  KeyInv'
<1> DEFINE x == client[c]
<1>1. PICK y : Becomes(c, y) /\ Restarted(x, y)
  BY CrashIs DEF KeyInv
<1>2. PICK U \in {{}, told[c]} :
        /\ news' = [news EXCEPT ![c] = @ \cup U]
        /\ told' = [told EXCEPT ![c] = @ \ U]
  BY DEF Crash
<1>3. /\ server' = server /\ answers'[c] = {}
      /\ \A d \in Client : d # c => answers'[d] = answers[d]
      /\ happened \subseteq happened'
  BY DEF Crash, Needs, KeyInv, OrderInv, TypeOK
<1>4. /\ news'[c] \cup told'[c] \subseteq news[c] \cup told[c]
      /\ \A d \in Client : d # c => news'[d] = news[d] /\ told'[d] = told[d]
  BY <1>2 DEF KeyInv, OrderInv, TypeOK
<1>5. /\ x \in Program /\ Orderly(x)
      /\ Plays(c, x, news[c], told[c], answers[c])
      /\ (InTurn => Holds(c, x, told[c], answers[c]))
      /\ (c = "other" => Accepted(x)) /\ (c = "admin" \/ c = "other")
      /\ server = "none" => news[c] = {} /\ told[c] = {}
  BY Role
<1> HIDE DEF x
<1>6. /\ y.chat = x.file /\ y.file = x.file /\ y.sends \in {<<>>, x.sends}
      /\ y.late = {} /\ y.asked = 0 /\ ~y.aborted
  BY <1>1 DEF Restarted
<1>7. Elements(y.sends) \subseteq Elements(x.sends)
  BY <1>6 DEF Elements
<1>8. y.chat.state \in {"none", "ok"}
  BY <1>5, <1>6, NewIs DEF Orderly
<1>9. c = "other" /\ x.chat.state = "ok" => y.chat.state = "ok"
  BY <1>5, <1>6 DEF Accepted
<1>10. Plays(c, y, news'[c], told'[c], answers'[c])
  <2>1. c = "admin" => AdminIs(y)
    BY <1>5, <1>6, <1>7, <1>8 DEF Plays, AdminIs
  <2>2. c = "other" => OtherIs(y)
    BY <1>5, <1>6, <1>7, <1>9 DEF Plays, OtherIs
  <2> QED BY <1>3, <1>4, <1>5, <1>6, <2>1, <2>2 DEF Plays
<1>11. InTurn => Holds(c, y, told'[c], answers'[c])
  BY <1>3, <1>5, <1>6, <1>8 DEF Holds, AdminKeys, OtherKeys
<1>12. InTurn' => InTurn
  BY <1>3 DEF InTurn
<1>13. /\ Waits(x) => Waits(y)
       /\ Sleeps(x) => Sleeps(y)
  <2>1. Len(<<>>) <= 1
    OBVIOUS
  <2>2. Waits(x) => Waits(y)
    BY <1>6, <1>7, <2>1, NewIs DEF Waits
  <2>3. Sleeps(x) => Sleeps(y)
    BY <1>6, NewIs DEF Sleeps
  <2> QED BY <2>2, <2>3
<1>14. server = "none" => news'[c] = {} /\ told'[c] = {}
  BY <1>4, <1>5
<1> QED BY <1>1, <1>3, <1>4, <1>7, <1>10, <1>11, <1>12, <1>13, <1>14,
           Goes
        DEF x

\* The server takes a request: what it tells the other side was not told yet.
LEMMA TakeKeys ==
  ASSUME KeyInv, NEW c \in Client, Take(c), OrderInv'
  PROVE  KeyInv'
<1> DEFINE x == client[c]
<1>1. PICK i \in DOMAIN x.sends, answer \in Answer :
        /\ Becomes(c, [x EXCEPT !.sends = RemoveAt(@, i)])
        /\ answers' = [answers EXCEPT ![c] = @ \cup {answer}]
        /\ \/ /\ Do(c, x.sends[i], answer)
              /\ Needs(IF i = 1 THEN {} ELSE {"reorder"})
           \/ /\ answer = "failed" /\ UNCHANGED <<server, news, mail>>
              /\ Needs({"refuse"})
  BY DEF Take
<1> DEFINE q == x.sends[i]
           y == [x EXCEPT !.sends = RemoveAt(@, i)]
<1>2. /\ x \in Program
      /\ Plays(c, x, news[c], told[c], answers[c])
      /\ (InTurn => Holds(c, x, told[c], answers[c]))
      /\ (c = "admin" \/ c = "other")
      /\ server = "none" => /\ c = "admin" => Waits(x)
                            /\ c = "other" => Sleeps(x)
  BY Role
<1>3. TakenFrom(x, y) /\ q \in Query /\ q \in Elements(x.sends)
  BY <1>2, TakenIs
<1>4. Becomes(c, y) /\ told' = told /\ happened \subseteq happened'
  BY <1>1 DEF Take, Needs
<1>5. Served(c, q, answer)
  <2>1. CASE Do(c, x.sends[i], answer)
    BY <1>3, <2>1, DoIs DEF KeyInv
  <2>2. CASE answer = "failed" /\ UNCHANGED <<server, news, mail>>
    BY <2>2 DEF Served, KeyInv, OrderInv, TypeOK
  <2> QED BY <1>1, <2>1, <2>2
<1> HIDE DEF y, q
<1>6. /\ answers'[c] = answers[c] \cup {answer} /\ client'[c] = y
      /\ \A d \in Client : d # c =>
           client'[d] = client[d] /\ answers'[d] = answers[d]
  BY <1>1, <1>4 DEF Becomes, KeyInv, OrderInv, TypeOK
<1> HIDE DEF x
<1>7. /\ y.chat = x.chat /\ y.file = x.file /\ y.asked = x.asked
      /\ y.aborted = x.aborted /\ y.late = x.late /\ y \in Program
      /\ Elements(y.sends) \subseteq Elements(x.sends)
      /\ Len(y.sends) = Len(x.sends) - 1
  BY <1>3 DEF TakenFrom, Rest
<1>8. server = "none" => c = "admin" /\ Waits(x) /\ q.kind = "request"
  <2>1. Sleeps(x) => Elements(x.sends) = {}
    BY DEF Sleeps, Elements
  <2>2. server = "none" => c = "admin" /\ Waits(x)
    BY <1>2, <1>3, <2>1
  <2> QED BY <1>3, <2>2 DEF Waits
<1>9. q.kind = "request" => server = "none"
  BY <1>3 DEF KeyInv, Started, x
<1>10. "admin" \in Client /\ "other" \in Client /\ "admin" # "other"
       /\ \A d \in Client : d = "admin" \/ d = "other"
  BY DEF Client
<1>11. Plays(c, y, news'[c], told[c], answers'[c])
  <2>1. c = "admin" => AdminIs(y) /\ "ready" \notin answers'[c]
    <3>1. AdminIs(x) => AdminIs(y) /\ q.kind # "accept"
      BY <1>3, <1>7 DEF AdminIs
    <3> QED BY <1>2, <1>5, <1>6, <3>1 DEF Plays, Served
  <2>2. c = "other" => /\ OtherIs(y) /\ "ready" \notin news'[c] \cup told[c]
                       /\ "ready" \in answers'[c] => y.chat.state = "ok"
    <3>1. OtherIs(x) => OtherIs(y)
          /\ (q.kind = "accept" => x.chat.state = "ok")
      BY <1>3, <1>7 DEF OtherIs
    <3> QED BY <1>2, <1>5, <1>6, <1>7, <3>1 DEF Plays, Served
  <2> QED BY <1>2, <1>7, <2>1, <2>2 DEF Plays
<1>12. InTurn => Holds(c, y, told[c], answers'[c])
  <2>1. (AdminKeys(x) => AdminKeys(y)) /\ (OtherKeys(x) => OtherKeys(y))
    BY <1>7 DEF AdminKeys, OtherKeys
  <2>2. answer = "waiting" => x.chat.state # "ok" /\ x.late = {}
    BY <1>5, <1>8, <1>9 DEF Served, Waits
  <2> QED BY <1>2, <1>6, <1>7, <2>1, <2>2 DEF Holds
<1>13. ASSUME NEW d \in Client
       PROVE  /\ Plays(d, client'[d], news'[d], told'[d], answers'[d])
              /\ InTurn' => Holds(d, client'[d], told'[d], answers'[d])
  <2>1. InTurn' => InTurn
    BY <1>4 DEF InTurn
  <2>2. CASE d = c
    BY <1>4, <1>6, <1>11, <1>12, <2>1, <2>2
  <2>3. CASE d # c
    <3>1. Plays(d, client[d], news[d], told[d], answers[d])
          /\ (InTurn => Holds(d, client[d], told[d], answers[d]))
      BY DEF KeyInv
    <3>2. d = "other" /\ "ready" \in news'[d] => "ready" \in news[d]
      BY <1>5 DEF Served
    <3>3. Plays(d, client[d], news'[d], told[d], answers[d])
      BY <3>1, <3>2 DEF Plays
    <3> QED BY <1>4, <1>6, <2>1, <2>3, <3>1, <3>3
  <2> QED BY <2>2, <2>3
<1>14. Unstarted'
  <2> SUFFICES ASSUME server' = "none"
               PROVE  /\ Waits(client'["admin"]) /\ Sleeps(client'["other"])
                      /\ \A d \in Client : news'[d] = {} /\ told'[d] = {}
                      /\ answers'["admin"] \subseteq {"failed"}
                      /\ answers'["other"] = {}
    BY DEF Unstarted
  <2>1. server = "none" /\ news' = news
    BY <1>5 DEF Served
  <2>2. c = "admin" /\ Waits(x) /\ answer = "failed"
    BY <1>5, <1>8, <2>1 DEF Served
  <2>3. /\ Sleeps(client["other"]) /\ answers["other"] = {}
        /\ \A d \in Client : news[d] = {} /\ told[d] = {}
        /\ answers["admin"] \subseteq {"failed"}
    BY <2>1 DEF KeyInv, Unstarted
  <2>4. Len(y.sends) <= 1
    <3>1. Size(x.sends) <= 1 /\ Size(y.sends) = Size(x.sends) - 1
          /\ Size(x.sends) \in Nat
      BY <1>2, <1>7, <2>2, Fields DEF Waits, Size
    <3>2. Size(y.sends) <= 1
      BY ONLY <3>1
    <3> QED BY <3>2 DEF Size
  <2>5. Waits(y)
    BY <1>7, <2>2, <2>4 DEF Waits
  <2> QED BY <1>4, <1>6, <1>10, <2>1, <2>2, <2>3, <2>5
<1>15. Started'
  <2>1. ASSUME NEW d \in Client, server # "none"
        PROVE  \A r \in Elements(client'[d].sends) : r.kind # "request"
    <3>1. \A r \in Elements(client[d].sends) : r.kind # "request"
      BY <2>1 DEF KeyInv, Started
    <3>2. d = c => Elements(client'[d].sends)
          \subseteq Elements(client[d].sends)
      BY <1>6, <1>7 DEF x
    <3> QED BY <1>6, <3>1, <3>2
  <2>2. ASSUME NEW d \in Client, server = "none"
        PROVE  \A r \in Elements(client'[d].sends) : r.kind # "request"
    <3>1. c = "admin" /\ Waits(x) /\ Sleeps(client["other"])
      BY <1>8, <2>2 DEF KeyInv, Unstarted
    <3>2. y.sends = <<>>
      <4>1. Size(x.sends) <= 1 /\ Size(y.sends) = Size(x.sends) - 1
            /\ Size(x.sends) \in Nat /\ Size(y.sends) \in Nat
        BY <1>2, <1>7, <3>1, Fields DEF Waits, Size
      <4>2. Size(y.sends) = 0
        BY ONLY <4>1
      <4>3. y.sends \in Seq(Query)
        BY <1>7, Fields
      <4> QED BY <4>2, <4>3 DEF Size
    <3>3. client'["other"].sends = <<>> /\ client'["admin"].sends = <<>>
      BY <1>6, <1>10, <3>1, <3>2 DEF Sleeps
    <3>4. client'[d].sends = <<>>
      BY <1>10, <3>3
    <3> QED BY <3>4 DEF Elements
  <2> QED BY <2>1, <2>2 DEF Started
<1> QED BY <1>13, <1>14, <1>15 DEF KeyInv

\* The keys agree at the start.
LEMMA InitKeys == Init => KeyInv
<1> SUFFICES ASSUME Init
             PROVE  KeyInv
  OBVIOUS
<1>1. OrderInv
  BY InitOrder
<1>2. \A c \in Client :
        /\ client[c] = NewClient(MaxMessages[c])
        /\ news[c] = {} /\ told[c] = {} /\ answers[c] = {}
  BY DEF Init
<1>3. \A c \in Client : LET x == client[c] IN
        /\ x.chat = NewChat /\ x.file = NewChat /\ x.late = {}
        /\ x.asked = 0 /\ x.sends = <<>> /\ ~x.aborted
  <2> SUFFICES ASSUME NEW c \in Client
               PROVE  LET x == client[c] IN
                      /\ x.chat = NewChat /\ x.file = NewChat /\ x.late = {}
                      /\ x.asked = 0 /\ x.sends = <<>> /\ ~x.aborted
    OBVIOUS
  <2>1. client[c] = NewClient(MaxMessages[c])
    BY <1>2
  <2>2. client[c].aborted = FALSE
    BY <2>1 DEF NewClient
  <2>3. /\ client[c].chat = NewChat /\ client[c].file = NewChat
        /\ client[c].late = {} /\ client[c].asked = 0
        /\ client[c].sends = <<>>
    BY <2>1 DEF NewClient
  <2> QED BY <2>2, <2>3
<1>4. Elements(<<>>) = {} /\ Len(<<>>) <= 1
  <2>1. Len(<<>>) <= 1
    OBVIOUS
  <2>2. Elements(<<>>) = {}
    BY DEF Elements
  <2> QED BY <2>1, <2>2
<1>5. "admin" \in Client /\ "other" \in Client
  BY DEF Client
<1>6. Unstarted
  BY <1>2, <1>3, <1>4, <1>5, NewIs DEF Unstarted, Waits, Sleeps
<1>7. Started
  BY DEF Init, Started
<1>8. ASSUME NEW c \in Client
      PROVE  /\ Plays(c, client[c], news[c], told[c], answers[c])
             /\ Holds(c, client[c], told[c], answers[c])
  <2>1. AdminIs(client[c]) /\ OtherIs(client[c])
    BY <1>3, <1>4, NewIs DEF AdminIs, OtherIs
  <2>2. AdminKeys(client[c]) /\ OtherKeys(client[c])
    BY <1>3, NewIs DEF AdminKeys, OtherKeys
  <2>3. Plays(c, client[c], news[c], told[c], answers[c])
    BY <1>2, <1>3, <2>1 DEF Plays
  <2> QED BY <1>2, <1>3, <2>2, <2>3, NewIs DEF Holds
<1> QED BY <1>1, <1>6, <1>7, <1>8 DEF KeyInv

\* Every step keeps the keys.
LEMMA KeysStay == KeyInv /\ [Next]_vars => KeyInv'
<1> SUFFICES ASSUME KeyInv, [Next]_vars
             PROVE  KeyInv'
  OBVIOUS
<1>0. OrderInv'
  BY OrderStays DEF KeyInv
<1>1. CASE CreateChat
  BY <1>0, <1>1, CreateKeys
<1>2. CASE \E c \in Client : Asks(c)
  BY <1>0, <1>2, AskKeys
<1>3. CASE \E c \in Client : Take(c)
  BY <1>0, <1>3, TakeKeys
<1>4. CASE \E c \in Client : Receive(c)
  BY <1>0, <1>4, AskedKeys, AnswerKeys, NewsKeys, StartKeys, LateKeys,
     QuietKeys DEF Receive, Difference, Quietly
<1>5. CASE \E c \in Client : WriteStateFile(c)
  BY <1>0, <1>5, QuietKeys DEF Quietly
<1>6. CASE \E c \in Client : Crash(c)
  BY <1>0, <1>6, CrashKeys
<1>7. CASE UNCHANGED vars
  BY <1>0, <1>7 DEF vars, KeyInv, Unstarted, Started, InTurn
<1> QED BY <1>1, <1>2, <1>3, <1>4, <1>5, <1>6, <1>7 DEF Next

\* Chats that are ready have the shared key.
LEMMA KeysShared == KeyInv => ReadyHasKey
<1> SUFFICES ASSUME KeyInv, InTurn, NEW c \in Client
             PROVE  /\ client[c].chat.state = "ok" =>
                         client[c].chat.key = "shared"
                    /\ ~client[c].aborted
  BY DEF ReadyHasKey, InTurn
<1>1. c = "admin" \/ c = "other"
  BY DEF Client
<1>2. Plays(c, client[c], news[c], told[c], answers[c])
      /\ Holds(c, client[c], told[c], answers[c])
  BY DEF KeyInv
<1> QED BY <1>1, <1>2 DEF Plays, Holds, AdminIs, AdminKeys, OtherKeys

\* Unless updates of the chat are repeated or overtake an answer, a chat that
\* is ready has the key that both sides share, and no assertion fails, whatever
\* the server refuses or reorders and whenever clients stop.
THEOREM SharedKey == Spec => []ReadyHasKey
BY InitKeys, KeysStay, KeysShared, PTL DEF Spec
=============================================================================
