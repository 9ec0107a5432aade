------------------------------- MODULE Peers -------------------------------
(***************************************************************************)
(* The peers that the client knows: users, groups, channels and secret     *)
(* chats (structures.c, binlog.c), the tree that finds a peer by the name   *)
(* it is printed with, and the tree of interface.c that finds it by its     *)
(* username.  What the server tells of a peer may be old when it comes.     *)
(* TGLPF_DELETED is left out: a peer that is gone keeps its place and its   *)
(* names, and nothing here looks at the mark.                               *)
(***************************************************************************)
EXTENDS Naturals, FiniteSets

CONSTANTS
  User, Group, Channel, Secret,  \* ids
  Partner,      \* the user a secret chat is with
  Title,        \* first and last names, and titles
  Username,     \* usernames of users and channels
  Pasts,        \* which of them each may have had
  Printed,      \* what a title is printed as: blanks and marks become "_"
  Bang,         \* and the name of a secret chat: "!" with that of the user,
                \* "!" alone, or "!" with the number of the user
  MaxVersion,   \* bound: versions of a group's list of members
  MaxAsked,     \* bound: mark_read requests under way
  MaxSuffix,    \* the greatest number put behind a name, 9999
  NoTitle, NoName, NoUsername,
  Empty         \* the empty username, which is not NULL

Id == User \cup Group \cup Channel \cup Secret
Handled == User \cup Channel
Base == {Printed[t] : t \in Title}
        \cup {Bang[t] : t \in Title \cup {NoTitle} \cup User}
Name == Base \X (0 .. MaxSuffix)
AnyUsername == Username \cup {Empty}

ASSUME IdsDiffer ==
  /\ User \cap Group = {} /\ User \cap Channel = {} /\ User \cap Secret = {}
  /\ Group \cap Channel = {} /\ Group \cap Secret = {}
  /\ Channel \cap Secret = {} /\ Partner \in [Secret -> User]
ASSUME NullsDiffer ==
  /\ NoTitle \notin Title /\ NoName \notin Name
  /\ NoUsername \notin AnyUsername /\ Empty \notin Username
  /\ Pasts \subseteq [Handled -> SUBSET AnyUsername]
  /\ MaxVersion \in Nat /\ MaxSuffix \in Nat /\ MaxAsked \in Nat

VARIABLES
  peer_tree,    \* the peers, by id
  by_name,      \* peer_by_name_tree: pairs of a name and a peer
  by_username,  \* username_peer_pair: pairs of a username and a peer
  above,        \* where it holds a username twice: pairs of the peer whose
                \* entry is found and one whose entry lies below it
  reads,        \* mark_read requests of peers that are not known
  ready,        \* secret chats that the file holds
  loading,      \* those that are still to be read from it
  fault,        \* what ended the program, or "no"
  had           \* the usernames that each user and channel has at one time
                \* or another; an answer may come late and say any of them

peerVars ==
  <<peer_tree, by_name, by_username, above, reads, ready, loading, fault, had>>
other == <<reads, ready, loading, had>>

\* status "known" is a peer without TGLPF_CREATED.
NoPeer == [status |-> "none", title |-> NoTitle, name |-> NoName,
           username |-> NoUsername, version |-> 0]

PeersInit ==
  /\ peer_tree = [i \in Id |-> NoPeer]
  /\ by_name = {} /\ by_username = {} /\ above = {} /\ reads = {}
  /\ ready = {} /\ loading = {}
  /\ fault = "no" /\ had \in Pasts

Alive == fault = "no" /\ loading = {}

\* An assertion fails, or memory is used that was freed.  Nothing is said of
\* what the program had done so far, nor of what it does from there on.
Fails(why) ==
  /\ fault' = why
  /\ UNCHANGED <<peer_tree, by_name, by_username, above, other>>

----------------------------------------------------------------------------
(***************************************************************************)
(* The trees.                                                              *)
(***************************************************************************)

\* tree_delete finds the entry by its key.
\* mutant: the entry stays
ReleasedNever(tree, key) == tree

Released(tree, key) == {e \in tree : e[1] # key}

Keyed(tree, key) == \E e \in tree : e[1] = key

\* tgls_default_create_print_name: the name, or the name with the first number
\* that makes it one that no other peer has.
\* mutant: only the plain name is looked for
FreeNumbersPlain(base, id, tree) ==
  IF Keyed(tree, <<base, 0>>) THEN {1} \cap 0 .. MaxSuffix ELSE {0}

FreeNumbers(base, id, tree) ==
  LET taken(k) == \E e \in tree : e[1] = <<base, k>> /\ e[2] # id
  IN {k \in 0 .. MaxSuffix :
        ~taken(k) /\ \A j \in 0 .. MaxSuffix : j < k => taken(j)}

\* tglp_peer_delete_name and tglp_peer_insert_name: what is left of the names
\* when a peer gives up its own, and the tree with its new one.
Others(id) == Released(by_name, peer_tree[id].name)
Renamed(id, name) == Others(id) \cup {<<name, id>>}

\* peer_update_username: the entry of the old username goes, that of the new
\* one comes.
\* mutant: the old entry stays
UpdateUsernameTwice(id, n) ==
  IF n = peer_tree[id].username THEN by_username
  ELSE by_username \cup {<<n, id>>}

UpdateUsername(id, n) ==
  IF n = peer_tree[id].username THEN by_username
  ELSE {e \in by_username : e[2] # id} \cup {<<n, id>>}

\* tree_insert with a key that the tree has: it fails an assertion if it meets
\* the entry, but it does not meet it if the random priority of the new entry is
\* the greater one: then the new entry is put above the old.
UsernameTaken(id, n) == n # peer_tree[id].username /\ Keyed(by_username, n)

UpdateAbove(id, n) ==
  IF n = peer_tree[id].username THEN above
  ELSE {p \in above : p[1] # id}
         \cup {<<id, e[2]>> : e \in {e \in by_username : e[1] = n}}

\* tree_delete takes the uppermost entry with the key.  Where that is not the
\* peer's own, the entry of the other peer is freed, and its own stays with a
\* key that is freed.
Covered(id) == \E p \in above : p[2] = id
LosesAnother(id, n) == n # peer_tree[id].username /\ Covered(id)

----------------------------------------------------------------------------
(***************************************************************************)
(* What is said of a peer.  A value that is NULL leaves the old one.        *)
(***************************************************************************)
Kept(value, null, old) == IF value = null THEN old ELSE value

\* A peer is as new says, but for its name, which is made again when the title
\* is another.
Describe(id, new) ==
  LET renamed == new.title # peer_tree[id].title
      numbers ==
        IF renamed THEN FreeNumbers(Printed[new.title], id, Others(id))
        ELSE {0}
  IN IF numbers = {} THEN Fails("names")
     ELSE IF LosesAnother(id, new.username) THEN Fails("freed")
     ELSE \/ UsernameTaken(id, new.username) /\ Fails("username")
          \/ \E k \in numbers :
               LET name == IF renamed THEN <<Printed[new.title], k>>
                           ELSE peer_tree[id].name
               IN /\ peer_tree' =
                       [peer_tree EXCEPT ![id] = [new EXCEPT !.name = name]]
                  /\ by_name' = IF renamed THEN Renamed(id, name) ELSE by_name
                  /\ by_username' = UpdateUsername(id, new.username)
                  /\ above' = UpdateAbove(id, new.username)
                  /\ UNCHANGED <<other, fault>>

bl_do_user(u, t, n) ==
  Describe(u, [peer_tree[u] EXCEPT
    !.status = "created", !.title = Kept(t, NoTitle, @),
    !.username = Kept(n, NoUsername, @)])

\* A group; version 0 is no list of members, and an older list is dropped.
bl_do_chat(g, t, version) ==
  Describe(g, [peer_tree[g] EXCEPT
    !.status = "created", !.title = Kept(t, NoTitle, @),
    !.version = IF version > @ THEN version ELSE @])

bl_do_channel(c, t, n) ==
  Describe(c, [peer_tree[c] EXCEPT
    !.status = "created", !.title = Kept(t, NoTitle, @),
    !.username = Kept(n, NoUsername, @)])

\* A secret chat gets its name once, after its user as he is known then.
SecretBase(s) ==
  IF peer_tree[Partner[s]].status = "none" THEN Bang[Partner[s]]
  ELSE Bang[peer_tree[Partner[s]].title]

bl_do_encr_chat(s) ==
  LET fresh == peer_tree[s].name = NoName
      numbers == IF fresh THEN FreeNumbers(SecretBase(s), s, by_name) ELSE {0}
  IN IF numbers = {} THEN Fails("names")
     ELSE \E k \in numbers :
       LET name == IF fresh THEN <<SecretBase(s), k>> ELSE peer_tree[s].name
       IN /\ peer_tree' = [peer_tree EXCEPT ![s].status = "created",
                                            ![s].name = name]
          /\ by_name' = IF fresh THEN by_name \cup {<<name, s>>} ELSE by_name
          /\ UNCHANGED <<by_username, above, fault>>

----------------------------------------------------------------------------
(***************************************************************************)
(* What the server sends.                                                  *)
(***************************************************************************)

\* An object has no username where an update has an empty one.
InObject(i) ==
  {IF h = Empty THEN NoUsername ELSE h : h \in had[i]}

tglf_fetch_alloc_user(u) ==
  /\ Alive
  /\ \E t \in Title \cup {NoTitle}, n \in InObject(u) : bl_do_user(u, t, n)

tglf_fetch_alloc_chat(g) ==
  Alive /\ \E t \in Title : bl_do_chat(g, t, 0)

\* The answer holds the group itself and its list of members.
tglf_fetch_alloc_chat_full(g) ==
  /\ Alive
  /\ \E t \in Title, version \in 1 .. MaxVersion : bl_do_chat(g, t, version)

tglf_fetch_alloc_channel(c) ==
  Alive /\ \E t \in Title, n \in InObject(c) : bl_do_channel(c, t, n)

\* Of users and groups that are not known updates say nothing.
UpdateUserName(u) ==
  /\ Alive /\ peer_tree[u].status = "created"
  /\ \E t \in Title, n \in had[u] : bl_do_user(u, t, n)

UpdateChatParticipants(g) ==
  /\ Alive /\ peer_tree[g].status = "created"
  /\ \E version \in 1 .. MaxVersion : bl_do_chat(g, NoTitle, version)

\* A secret chat is asked for, or agreed to.  Of one that is not
\* known only a request is taken; anything else leaves a peer without name.
Requested(s) ==
  /\ Alive /\ peer_tree[s].status # "created"
  /\ bl_do_encr_chat(s)
  /\ UNCHANGED other

Unheard(s) ==
  /\ Alive /\ peer_tree[s].status = "none"
  /\ peer_tree' = [peer_tree EXCEPT ![s].status = "known"]
  /\ UNCHANGED <<by_name, by_username, above, other, fault>>

Agreed(s) ==
  /\ Alive /\ peer_tree[s].status = "created"
  /\ ready' = ready \cup {s}
  /\ UNCHANGED <<peer_tree, by_name, by_username, above, reads, loading, fault,
                 had>>

----------------------------------------------------------------------------
(***************************************************************************)
(* What the user of the program asks for.  A peer that is named by          *)
(* "$<permanent id>" need not be known.                                     *)
(***************************************************************************)

\* The chat is made before its user is looked for.
tgl_do_send_create_encr_chat(s) ==
  /\ Alive /\ peer_tree[s].status = "none"
  /\ IF peer_tree[Partner[s]].status = "none" THEN Fails("unknown")
     ELSE bl_do_encr_chat(s) /\ UNCHANGED other

\* do_mark_read.  Of a peer that is known it changes nothing here.
AskRead(i) ==
  /\ Alive /\ peer_tree[i].status # "created"
  /\ Cardinality(reads) < MaxAsked
  /\ reads' = reads \cup {i}
  /\ UNCHANGED <<peer_tree, by_name, by_username, above, ready, loading, fault,
                 had>>

mark_read_on_receive(i) ==
  /\ Alive /\ i \in reads
  /\ IF peer_tree[i].status # "created" THEN Fails("unknown")
     ELSE /\ reads' = reads \ {i}
          /\ UNCHANGED <<peer_tree, by_name, by_username, above, ready,
                         loading, fault, had>>

----------------------------------------------------------------------------
(***************************************************************************)
(* The program starts again, and reads its secret chats before it hears of  *)
(* any user.                                                               *)
(***************************************************************************)
Restart ==
  /\ peer_tree' = [i \in Id |-> NoPeer]
  /\ by_name' = {} /\ by_username' = {} /\ above' = {} /\ reads' = {}
  /\ fault' = "no"
  /\ loading' = ready
  /\ UNCHANGED <<ready, had>>

read_secret_chat(s) ==
  /\ fault = "no" /\ s \in loading
  /\ bl_do_encr_chat(s)
  /\ loading' = IF fault' = "no" THEN loading \ {s} ELSE loading
  /\ UNCHANGED <<reads, ready, had>>

----------------------------------------------------------------------------
PeersNext ==
  \/ \E u \in User : tglf_fetch_alloc_user(u) \/ UpdateUserName(u)
  \/ \E g \in Group : \/ tglf_fetch_alloc_chat(g)
                      \/ tglf_fetch_alloc_chat_full(g)
                      \/ UpdateChatParticipants(g)
  \/ \E c \in Channel : tglf_fetch_alloc_channel(c)
  \/ \E s \in Secret : \/ Requested(s) \/ Unheard(s) \/ Agreed(s)
                       \/ tgl_do_send_create_encr_chat(s)
                       \/ read_secret_chat(s)
  \/ \E i \in Id \ Secret : AskRead(i) \/ mark_read_on_receive(i)
  \/ Restart

PeersSpec == PeersInit /\ [][PeersNext]_peerVars

----------------------------------------------------------------------------
PeersTypeOK ==
  /\ peer_tree \in [Id -> [status : {"none", "known", "created"},
                      title : Title \cup {NoTitle},
                      name : Name \cup {NoName},
                      username : AnyUsername \cup {NoUsername},
                      version : 0 .. MaxVersion]]
  /\ by_name \subseteq Name \X Id /\ by_username \subseteq AnyUsername \X Id
  /\ above \subseteq Id \X Id /\ reads \subseteq Id
  /\ ready \subseteq Secret /\ loading \subseteq Secret
  /\ fault \in {"no", "names", "username", "freed", "unknown"}
  /\ had \in [Handled -> SUBSET AnyUsername]

\* A name that is typed finds the one peer that is printed with it, and every
\* peer that has a name or a username has its entry, under what it is called
\* now: whatever peers are called and renamed to, in whatever order, also after
\* a restart.  A username finds a peer that has it; it is there twice only for
\* peers that have had one in common, and then it is settled which is found.
FoundByName ==
  /\ \A e \in by_name : peer_tree[e[2]].name = e[1]
  /\ \A i \in Id : peer_tree[i].name # NoName =>
       <<peer_tree[i].name, i>> \in by_name
  /\ \A d, e \in by_name : d[1] = e[1] => d = e
  /\ \A e \in by_username : peer_tree[e[2]].username = e[1]
  /\ \A i \in Id : peer_tree[i].username # NoUsername =>
       <<peer_tree[i].username, i>> \in by_username
  /\ \A d, e \in by_username : d[1] = e[1] /\ d # e =>
       /\ had[d[2]] \cap had[e[2]] # {}
       /\ <<d[2], e[2]>> \in above <=> <<e[2], d[2]>> \notin above

\* The assertions of the trees and of bl_do_user and the others fail, and the
\* entry of another peer is freed, only where a username has been that of two
\* peers, or two have none and change their names; assertions also where more
\* peers have one name than there are numbers; or where a peer was asked for
\* before anything was heard of it.
FaultsAreNamed ==
  /\ fault \in {"username", "freed"} =>
       \E i, j \in Handled : i # j /\ had[i] \cap had[j] # {}
  /\ fault = "names" =>
       \E b \in Base : Cardinality({e \in by_name : e[1][1] = b}) > MaxSuffix
  /\ fault = "unknown" =>
       \/ \E i \in reads : peer_tree[i].status # "created"
       \/ \E s \in Secret : peer_tree[Partner[s]].status = "none"

\* The list of members of a group never becomes an older one.
MembersNeverOlder ==
  [][\A g \in Group :
       \/ peer_tree'[g].version >= peer_tree[g].version
       \/ peer_tree' = [i \in Id |-> NoPeer]]_peerVars
=============================================================================
