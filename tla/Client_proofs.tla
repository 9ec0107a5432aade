---------------------------- MODULE Client_proofs ----------------------------
(***************************************************************************)
(* Three parts of the client that do not meet.  Peers, for any number of   *)
(* peers, titles and usernames: the two trees always say what the peers    *)
(* are called, and a list of members is never replaced by an older one.    *)
(* Paging, for any list, limit, offset and page size: the pages join, and  *)
(* together they are all that was asked for.                               *)
(* Console, for any data centres, connections and lines: the account is    *)
(* logged in once, when it is signed in everywhere, a connection is        *)
(* counted by exactly what still uses it, and the handler of a command     *)
(* gets the arguments that it asserts.                                     *)
(***************************************************************************)
EXTENDS Peers, Paging, Console, FiniteSetTheorems, SequenceTheorems,
        WellFoundedInduction, TLAPS

-----------------------------------------------------------------------------
(* Peers.                                                                  *)

\* A tree that says of each peer what f says of it, under one key for each.
Indexed(tree, f, null) ==
  /\ \A e \in tree : f[e[2]] = e[1]
  /\ \A i \in Id : f[i] # null => <<f[i], i>> \in tree
  /\ \A d, e \in tree : d[1] = e[1] => d = e

\* The same, but two may have one key: then one lies over the other.
Layered(tree, lain, f, null) ==
  /\ \A e \in tree : f[e[2]] = e[1]
  /\ \A i \in Id : f[i] # null => <<f[i], i>> \in tree
  /\ \A d, e \in tree : d[1] = e[1] /\ d # e =>
       (<<d[2], e[2]>> \in lain <=> <<e[2], d[2]>> \notin lain)
  /\ \A o \in lain : o[1] # o[2] /\ f[o[1]] = f[o[2]] /\ f[o[2]] # null

NameOf == [i \in Id |-> peer_tree[i].name]
UsernameOf == [i \in Id |-> peer_tree[i].username]

Record == [status : {"none", "known", "created"},
           title : Title \cup {NoTitle},
           name : Name \cup {NoName},
           username : AnyUsername \cup {NoUsername},
           version : 0 .. MaxVersion]

PeersInv ==
  /\ PeersTypeOK
  /\ Indexed(by_name, NameOf, NoName)
  /\ Layered(by_username, above, UsernameOf, NoUsername)

\* What the trees are, and what the rest is, of PeersTypeOK.
TreesTyped ==
  /\ peer_tree \in [Id -> Record]
  /\ by_name \subseteq Name \X Id /\ by_username \subseteq AnyUsername \X Id
  /\ above \subseteq Id \X Id
  /\ fault \in {"no", "names", "username", "freed", "unknown"}
RestTyped ==
  /\ reads \subseteq Id
  /\ ready \subseteq Secret /\ loading \subseteq Secret
  /\ had \in [Handled -> SUBSET AnyUsername]

\* A peer that gives up its key for one that no other peer has leaves a tree
\* that says so (tglp_peer_delete_name and tglp_peer_insert_name).
LEMMA KeyMoves ==
  ASSUME NEW K, NEW null, null \notin K,
         NEW tree \in SUBSET (K \X Id),
         NEW f \in [Id -> K \cup {null}], Indexed(tree, f, null),
         NEW id \in Id, NEW key \in K,
         \A e \in Released(tree, f[id]) : e[1] # key
  PROVE  Indexed(Released(tree, f[id]) \cup {<<key, id>>},
                 [f EXCEPT ![id] = key], null)
<1> DEFINE rest == Released(tree, f[id])
           g == [f EXCEPT ![id] = key]
<1>1. \A e \in rest : e \in tree /\ e[1] # f[id] /\ e[1] # key
  BY DEF Released
<1>2. \A e \in tree : e[2] \in Id /\ e[1] \in K /\ f[e[2]] = e[1]
  BY DEF Indexed
<1>3. \A e \in rest : e[2] # id
  BY <1>1, <1>2
<1>4. g[id] = key /\ \A i \in Id : i # id => g[i] = f[i]
  OBVIOUS
<1>5. \A e \in rest \cup {<<key, id>>} : g[e[2]] = e[1]
  BY <1>1, <1>2, <1>3, <1>4
<1>6. ASSUME NEW i \in Id, g[i] # null
      PROVE  <<g[i], i>> \in rest \cup {<<key, id>>}
  <2>1. CASE i = id
    BY <2>1, <1>4
  <2>2. CASE i # id
    <3>1. f[i] # null /\ g[i] = f[i]
      BY <2>2, <1>4, <1>6
    <3>2. <<f[i], i>> \in tree
      BY <3>1 DEF Indexed
    <3>3. f[i] # f[id]
      <4> SUFFICES ASSUME f[i] = f[id] PROVE FALSE
        OBVIOUS
      <4>1. <<f[id], id>> \in tree
        BY <3>1 DEF Indexed
      <4> QED
        BY <4>1, <3>2, <2>2 DEF Indexed
    <3> QED
      BY <3>1, <3>2, <3>3 DEF Released
  <2> QED
    BY <2>1, <2>2
<1>7. \A d, e \in rest \cup {<<key, id>>} : d[1] = e[1] => d = e
  BY <1>1 DEF Indexed
<1> QED
  BY <1>5, <1>6, <1>7 DEF Indexed

\* What is called what, and the tree, are the same when neither changes.
LEMMA NamesStay ==
  ASSUME PeersTypeOK, NEW id \in Id, NEW new \in Record,
         peer_tree' = [peer_tree EXCEPT ![id] = new]
  PROVE  /\ NameOf' = [NameOf EXCEPT ![id] = new.name]
         /\ UsernameOf' = [UsernameOf EXCEPT ![id] = new.username]
         /\ NameOf \in [Id -> Name \cup {NoName}]
         /\ UsernameOf \in [Id -> AnyUsername \cup {NoUsername}]
         /\ peer_tree' \in [Id -> Record]
<1>1. peer_tree \in [Id -> Record]
  BY DEF PeersTypeOK, Record
<1>2. peer_tree' \in [Id -> Record]
  BY <1>1
<1>3. \A i \in Id : peer_tree'[i] = IF i = id THEN new ELSE peer_tree[i]
  BY <1>1
<1>4. \A i \in Id : peer_tree[i].name \in Name \cup {NoName}
                    /\ peer_tree[i].username \in AnyUsername \cup {NoUsername}
  BY <1>1 DEF Record
<1>5. NameOf' = [NameOf EXCEPT ![id] = new.name]
  <2>1. [NameOf EXCEPT ![id] = new.name]
        = [i \in Id |-> IF i = id THEN new.name ELSE peer_tree[i].name]
    BY DEF NameOf
  <2>2. NameOf' = [i \in Id |-> peer_tree'[i].name]
    BY DEF NameOf
  <2>3. \A i \in Id : peer_tree'[i].name
          = IF i = id THEN new.name ELSE peer_tree[i].name
    BY <1>3
  <2> QED
    BY <2>1, <2>2, <2>3
<1>6. UsernameOf' = [UsernameOf EXCEPT ![id] = new.username]
  <2>1. [UsernameOf EXCEPT ![id] = new.username]
        = [i \in Id |-> IF i = id THEN new.username ELSE peer_tree[i].username]
    BY DEF UsernameOf
  <2>2. UsernameOf' = [i \in Id |-> peer_tree'[i].username]
    BY DEF UsernameOf
  <2>3. \A i \in Id : peer_tree'[i].username
          = IF i = id THEN new.username ELSE peer_tree[i].username
    BY <1>3
  <2> QED
    BY <2>1, <2>2, <2>3
<1> QED
  BY <1>2, <1>4, <1>5, <1>6 DEF NameOf, UsernameOf

\* A peer that takes a name that create_print_name makes.
LEMMA NameMoves ==
  ASSUME PeersInv, NEW id \in Id, NEW base \in Base,
         NEW k \in FreeNumbers(base, id, Others(id)), NEW new \in Record,
         new.name = <<base, k>>,
         peer_tree' = [peer_tree EXCEPT ![id] = new],
         by_name' = Renamed(id, <<base, k>>)
  PROVE  by_name' \subseteq Name \X Id /\ Indexed(by_name', NameOf', NoName)
<1> DEFINE key == <<base, k>>
           old == peer_tree[id].name
<1>1. k \in 0 .. MaxSuffix
      /\ \A e \in Released(by_name, old) : e[1] # key \/ e[2] = id
  BY DEF FreeNumbers, Others
<1>2. key \in Name
  BY <1>1 DEF Name
<1>3. by_name \in SUBSET (Name \X Id) /\ NoName \notin Name
  BY NullsDiffer DEF PeersInv, PeersTypeOK
<1>4. NameOf[id] = old
  BY DEF NameOf
<1>5. Indexed(by_name, NameOf, NoName)
  BY DEF PeersInv
<1>6. \A e \in Released(by_name, NameOf[id]) : e[1] # key
  <2> SUFFICES ASSUME NEW e \in Released(by_name, old), e[1] = key
               PROVE  FALSE
    BY <1>4
  <2>1. e \in by_name /\ e[1] # old
    BY DEF Released
  <2>2. e[2] = id
    BY <1>1
  <2> QED
    BY <2>1, <2>2, <1>4, <1>5 DEF Indexed
<1>7. /\ NameOf' = [NameOf EXCEPT ![id] = key]
      /\ NameOf \in [Id -> Name \cup {NoName}]
  BY NamesStay DEF PeersInv
<1>8. by_name' = Released(by_name, NameOf[id]) \cup {<<key, id>>}
  BY <1>4 DEF Renamed, Others
<1>9. Indexed(Released(by_name, NameOf[id]) \cup {<<key, id>>},
              [NameOf EXCEPT ![id] = key], NoName)
  <2> HIDE DEF key
  <2> QED
    BY <1>2, <1>3, <1>5, <1>6, <1>7, KeyMoves
<1>10. by_name' \subseteq Name \X Id
  <2> HIDE DEF key
  <2> QED
    BY <1>2, <1>3, <1>8 DEF Released
<1> QED
  BY <1>7, <1>8, <1>9, <1>10

\* The entries, and which lie over which, when a peer takes the key.
Rekeyed(tree, id, key) == {e \in tree : e[2] # id} \cup {<<key, id>>}
Laid(lain, tree, id, key) ==
  {o \in lain : o[1] # id}
    \cup {<<id, e[2]>> : e \in {e \in tree : e[1] = key}}

\* A peer that gives up its key, over which no other lies, for another: its new
\* entry lies over those with the same key (peer_update_username).
LEMMA LayerMoves ==
  ASSUME NEW K, NEW null, null \notin K,
         NEW tree \in SUBSET (K \X Id), NEW lain \in SUBSET (Id \X Id),
         NEW f \in [Id -> K \cup {null}], Layered(tree, lain, f, null),
         NEW id \in Id, NEW key \in K, key # f[id],
         \A o \in lain : o[2] # id
  PROVE  /\ Rekeyed(tree, id, key) \subseteq K \X Id
         /\ Laid(lain, tree, id, key) \subseteq Id \X Id
         /\ Layered(Rekeyed(tree, id, key), Laid(lain, tree, id, key),
                    [f EXCEPT ![id] = key], null)
<1> DEFINE g == [f EXCEPT ![id] = key]
           made == Rekeyed(tree, id, key)
           lies == Laid(lain, tree, id, key)
<1>1. g[id] = key /\ \A i \in Id : i # id => g[i] = f[i]
  OBVIOUS
<1>2. \A e \in tree : e[2] \in Id /\ e[1] \in K /\ f[e[2]] = e[1]
                      /\ e = <<e[1], e[2]>>
  BY DEF Layered
<1>3. \A e \in made : \/ e \in tree /\ e[2] # id
                      \/ e = <<key, id>> /\ e[1] = key /\ e[2] = id
  BY DEF Rekeyed
<1>4. \A o \in lies : \/ o \in lain /\ o[1] # id /\ o[2] # id
                      \/ o[1] = id /\ o[2] # id /\ f[o[2]] = key
                         /\ o[2] \in Id
  <2> TAKE o \in lies
  <2>1. CASE o \in {p \in lain : p[1] # id}
    BY <2>1
  <2>2. CASE o \notin {p \in lain : p[1] # id}
    <3>1. PICK e \in tree : e[1] = key /\ o = <<id, e[2]>>
      BY <2>2 DEF Laid
    <3>2. o[1] = id /\ o[2] = e[2]
      BY <3>1
    <3>3. e[2] \in Id /\ f[e[2]] = key
      BY <3>1, <1>2
    <3> QED BY <3>2, <3>3
  <2> QED BY <2>1, <2>2
<1>5. made \subseteq K \X Id /\ lies \subseteq Id \X Id
  <2>1. \A e \in tree : <<id, e[2]>> \in Id \X Id
    BY <1>2
  <2> QED BY <2>1 DEF Rekeyed, Laid
<1>6. \A e \in made : g[e[2]] = e[1]
  BY <1>1, <1>2, <1>3
<1>7. \A i \in Id : g[i] # null => <<g[i], i>> \in made
  <2> TAKE i \in Id
  <2>1. CASE i = id
    BY <2>1, <1>1 DEF Rekeyed
  <2>2. CASE i # id
    <3>1. f[i] # null => <<f[i], i>> \in tree
      BY DEF Layered
    <3>2. <<f[i], i>>[2] = i
      OBVIOUS
    <3> QED BY <2>2, <3>1, <3>2, <1>1 DEF Rekeyed
  <2> QED BY <2>1, <2>2
<1>8. \A o \in lies : o[1] # o[2] /\ g[o[1]] = g[o[2]] /\ g[o[2]] # null
  <2> TAKE o \in lies
  <2>1. CASE o \in lain /\ o[1] # id /\ o[2] # id
    <3>1. o[1] \in Id /\ o[2] \in Id
      BY <2>1
    <3>2. o[1] # o[2] /\ f[o[1]] = f[o[2]] /\ f[o[2]] # null
      BY <2>1 DEF Layered
    <3> QED BY <2>1, <3>1, <3>2, <1>1
  <2>2. CASE o[1] = id /\ o[2] # id /\ f[o[2]] = key /\ o[2] \in Id
    BY <2>2, <1>1
  <2> QED BY <2>1, <2>2, <1>4
<1>9. ASSUME NEW d \in made, NEW e \in made, d[1] = e[1], d # e
      PROVE  <<d[2], e[2]>> \in lies <=> <<e[2], d[2]>> \notin lies
  <2>1. ASSUME NEW x \in tree, NEW y \in tree, x[2] # id, y[2] # id
        PROVE  <<x[2], y[2]>> \in lies <=> <<x[2], y[2]>> \in lain
    <3>1. <<x[2], y[2]>>[1] # id
      BY <2>1
    <3>2. <<x[2], y[2]>> \in lies => <<x[2], y[2]>> \in lain
      BY <3>1, <1>4
    <3> QED BY <3>1, <3>2 DEF Laid
  <2>2. ASSUME NEW x \in tree, x[1] = key
        PROVE  <<id, x[2]>> \in lies /\ <<x[2], id>> \notin lies
    <3>1. <<id, x[2]>> \in lies
      BY <2>2 DEF Laid
    <3>2. <<x[2], id>>[2] = id
      OBVIOUS
    <3>3. <<x[2], id>> \notin lies
      BY <3>2, <1>4
    <3> QED BY <3>1, <3>3
  <2>3. CASE d[2] = id
    <3>1. d = <<key, id>> /\ e \in tree /\ e[1] = key
      BY <2>3, <1>3, <1>9
    <3> QED BY <2>2, <2>3, <3>1
  <2>4. CASE e[2] = id
    <3>1. e = <<key, id>> /\ d \in tree /\ d[1] = key
      BY <2>4, <1>3, <1>9
    <3> QED BY <2>2, <2>4, <3>1
  <2>5. CASE d[2] # id /\ e[2] # id
    <3>1. d \in tree /\ e \in tree
      BY <2>5, <1>3
    <3>2. <<d[2], e[2]>> \in lain <=> <<e[2], d[2]>> \notin lain
      BY <3>1, <1>9 DEF Layered
    <3> QED BY <2>1, <2>5, <3>1, <3>2
  <2> QED BY <2>3, <2>4, <2>5
<1> HIDE DEF g, made, lies
<1>10. Layered(made, lies, g, null)
  BY <1>6, <1>7, <1>8, <1>9 DEF Layered
<1> QED BY <1>5, <1>10 DEF g, made, lies

\* A peer that takes a username, or keeps its own.
LEMMA UsernameMoves ==
  ASSUME PeersInv, NEW id \in Id, NEW new \in Record,
         new.username = peer_tree[id].username \/ new.username \in AnyUsername,
         ~LosesAnother(id, new.username),
         peer_tree' = [peer_tree EXCEPT ![id] = new],
         by_username' = UpdateUsername(id, new.username),
         above' = UpdateAbove(id, new.username)
  PROVE  /\ by_username' \subseteq AnyUsername \X Id
         /\ above' \subseteq Id \X Id
         /\ Layered(by_username', above', UsernameOf', NoUsername)
<1> DEFINE old == peer_tree[id].username
           key == new.username
<1>1. /\ by_username \in SUBSET (AnyUsername \X Id)
      /\ above \in SUBSET (Id \X Id) /\ NoUsername \notin AnyUsername
  BY NullsDiffer DEF PeersInv, PeersTypeOK
<1>2. UsernameOf[id] = old
  BY DEF UsernameOf
<1>3. Layered(by_username, above, UsernameOf, NoUsername)
  BY DEF PeersInv
<1>4. /\ UsernameOf' = [UsernameOf EXCEPT ![id] = key]
      /\ UsernameOf \in [Id -> AnyUsername \cup {NoUsername}]
  BY NamesStay DEF PeersInv
<1>5. CASE key = old
  <2>1. UsernameOf' = UsernameOf
    BY <1>5, <1>2, <1>4
  <2>2. by_username' = by_username /\ above' = above
    BY <1>5 DEF UpdateUsername, UpdateAbove
  <2> QED
    BY <2>1, <2>2, <1>1, <1>3
<1>6. CASE key # old
  <2>1. key \in AnyUsername /\ key # UsernameOf[id]
    BY <1>2, <1>6
  <2>2. \A o \in above : o[2] # id
    BY <1>6 DEF LosesAnother, Covered
  <2>3. /\ by_username' = Rekeyed(by_username, id, key)
        /\ above' = Laid(above, by_username, id, key)
    BY <1>6 DEF UpdateUsername, UpdateAbove, Rekeyed, Laid
  <2> HIDE DEF key, old
  <2>4. /\ Rekeyed(by_username, id, key) \subseteq AnyUsername \X Id
        /\ Laid(above, by_username, id, key) \subseteq Id \X Id
        /\ Layered(Rekeyed(by_username, id, key),
                   Laid(above, by_username, id, key),
                   [UsernameOf EXCEPT ![id] = key], NoUsername)
    BY <2>1, <2>2, <1>1, <1>3, <1>4, LayerMoves
  <2> QED
    BY <2>3, <2>4, <1>4
<1> QED
  BY <1>5, <1>6

\* The trees after a step that keeps them.
TreesKept ==
  /\ TreesTyped'
  /\ Indexed(by_name', NameOf', NoName)
  /\ Layered(by_username', above', UsernameOf', NoUsername)

LEMMA FailsKeeps ==
  ASSUME PeersInv, NEW why \in {"names", "username", "freed", "unknown"},
         Fails(why)
  PROVE  TreesKept /\ UNCHANGED other
<1>1. TreesTyped'
  BY DEF PeersInv, PeersTypeOK, Fails, TreesTyped, Record
<1>2. NameOf' = NameOf /\ UsernameOf' = UsernameOf
  BY DEF Fails, NameOf, UsernameOf
<1> QED
  BY <1>1, <1>2 DEF TreesKept, Fails, PeersInv

\* bl_do_user, bl_do_chat and bl_do_channel.
LEMMA DescribeKeeps ==
  ASSUME PeersInv, NEW id \in Id, NEW new \in Record,
         new.name = peer_tree[id].name,
         new.title = peer_tree[id].title \/ new.title \in Title,
         new.username = peer_tree[id].username \/ new.username \in AnyUsername,
         Describe(id, new)
  PROVE  TreesKept /\ UNCHANGED other
<1> DEFINE renamed == new.title # peer_tree[id].title
           base == Printed[new.title]
           numbers ==
             IF renamed THEN FreeNumbers(base, id, Others(id)) ELSE {0}
           name(k) == IF renamed THEN <<base, k>> ELSE peer_tree[id].name
<1>1. CASE Fails("names") \/ Fails("freed") \/ Fails("username")
  BY <1>1, FailsKeeps
<1>2. ASSUME NEW k \in numbers,
             ~LosesAnother(id, new.username),
             peer_tree' = [peer_tree EXCEPT ![id] =
                             [new EXCEPT !.name = name(k)]],
             by_name' = IF renamed THEN Renamed(id, name(k)) ELSE by_name,
             by_username' = UpdateUsername(id, new.username),
             above' = UpdateAbove(id, new.username),
             UNCHANGED <<other, fault>>
      PROVE  TreesKept /\ UNCHANGED other
  <2> DEFINE made == [new EXCEPT !.name = name(k)]
  <2>1. renamed => new.title \in Title /\ base \in Base /\ <<base, k>> \in Name
    BY DEF Base, FreeNumbers, Name
  <2>2. name(k) \in Name \cup {NoName}
    BY <2>1 DEF Record
  <2>3. /\ made \in Record /\ made.name = name(k)
        /\ made.username = new.username
    BY <2>2 DEF Record
  <2>4. peer_tree' = [peer_tree EXCEPT ![id] = made]
    BY <1>2
  <2> HIDE DEF made
  <2>5. /\ by_username' \subseteq AnyUsername \X Id
        /\ above' \subseteq Id \X Id
        /\ Layered(by_username', above', UsernameOf', NoUsername)
    BY <1>2, <2>3, <2>4, UsernameMoves
  <2>6. by_name' \subseteq Name \X Id /\ Indexed(by_name', NameOf', NoName)
    <3>1. CASE renamed
      BY <3>1, <1>2, <2>1, <2>3, <2>4, NameMoves
    <3>2. CASE ~renamed
      <4>1. NameOf' = [NameOf EXCEPT ![id] = made.name]
            /\ NameOf \in [Id -> Name \cup {NoName}]
        BY <2>3, <2>4, NamesStay DEF PeersInv
      <4>2. made.name = NameOf[id]
        BY <3>2, <2>3 DEF NameOf
      <4>3. NameOf' = NameOf
        BY <4>1, <4>2
      <4>4. by_name \subseteq Name \X Id /\ Indexed(by_name, NameOf, NoName)
        BY DEF PeersInv, PeersTypeOK
      <4> QED
        BY <3>2, <1>2, <4>3, <4>4
    <3> QED
      BY <3>1, <3>2
  <2>7. peer_tree' \in [Id -> Record]
    BY <2>3, <2>4, NamesStay DEF PeersInv
  <2>8. fault' \in {"no", "names", "username", "freed", "unknown"}
    BY <1>2 DEF PeersInv, PeersTypeOK
  <2> QED
    BY <1>2, <2>5, <2>6, <2>7, <2>8 DEF TreesKept, TreesTyped
<1> QED
  BY <1>1, <1>2 DEF Describe

\* bl_do_encr_chat.
LEMMA SecretKeeps ==
  ASSUME PeersInv, NEW s \in Secret, bl_do_encr_chat(s)
  PROVE  TreesKept
<1> DEFINE fresh == peer_tree[s].name = NoName
           base == SecretBase(s)
           numbers == IF fresh THEN FreeNumbers(base, s, by_name) ELSE {0}
           name(k) == IF fresh THEN <<base, k>> ELSE peer_tree[s].name
<1>1. CASE Fails("names")
  BY <1>1, FailsKeeps
<1>2. ASSUME NEW k \in numbers,
             peer_tree' = [peer_tree EXCEPT ![s].status = "created",
                                            ![s].name = name(k)],
             by_name' = IF fresh THEN by_name \cup {<<name(k), s>>}
                        ELSE by_name,
             UNCHANGED <<by_username, above, fault>>
      PROVE  TreesKept
  <2> DEFINE made == [peer_tree[s] EXCEPT !.status = "created",
                                          !.name = name(k)]
  <2>1. s \in Id /\ Partner[s] \in User /\ Partner[s] \in Id
    BY IdsDiffer DEF Id
  <2>2. peer_tree[s] \in Record /\ peer_tree[Partner[s]] \in Record
    BY <2>1 DEF PeersInv, PeersTypeOK, Record
  <2>3. base \in Base
    BY <2>1, <2>2 DEF SecretBase, Base, Record
  <2>4. name(k) \in Name \cup {NoName}
    BY <2>2, <2>3 DEF FreeNumbers, Name, Record
  <2>5. /\ made \in Record /\ made.name = name(k)
        /\ made.username = peer_tree[s].username
    BY <2>2, <2>4 DEF Record
  <2>6. peer_tree' = [peer_tree EXCEPT ![s] = made]
    BY <1>2
  <2> HIDE DEF made
  <2>7. /\ NameOf' = [NameOf EXCEPT ![s] = made.name]
        /\ UsernameOf' = [UsernameOf EXCEPT ![s] = made.username]
        /\ NameOf \in [Id -> Name \cup {NoName}]
        /\ UsernameOf \in [Id -> AnyUsername \cup {NoUsername}]
        /\ peer_tree' \in [Id -> Record]
    BY <2>1, <2>5, <2>6, NamesStay DEF PeersInv
  <2>8. /\ Indexed(by_name, NameOf, NoName)
        /\ Layered(by_username, above, UsernameOf, NoUsername)
        /\ by_name \subseteq Name \X Id
        /\ by_username \subseteq AnyUsername \X Id /\ above \subseteq Id \X Id
    BY DEF PeersInv, PeersTypeOK
  <2>9. /\ by_username' \subseteq AnyUsername \X Id
        /\ above' \subseteq Id \X Id
        /\ Layered(by_username', above', UsernameOf', NoUsername)
    <3>1. made.username = UsernameOf[s]
      BY <2>1, <2>5 DEF UsernameOf
    <3>2. UsernameOf' = UsernameOf
      BY <3>1, <2>7
    <3> QED
      BY <3>2, <2>8, <1>2
  <2>10. by_name' \subseteq Name \X Id /\ Indexed(by_name', NameOf', NoName)
    <3>1. CASE fresh
      <4>1. Others(s) = by_name
        BY <3>1, <2>8, NullsDiffer DEF Others, Released
      <4>2. by_name' = Renamed(s, <<base, k>>)
        BY <3>1, <4>1, <1>2 DEF Renamed
      <4>3. k \in FreeNumbers(base, s, Others(s)) /\ made.name = <<base, k>>
        BY <3>1, <4>1, <2>5
      <4> QED
        BY <4>2, <4>3, <2>1, <2>3, <2>5, <2>6, NameMoves
    <3>2. CASE ~fresh
      <4>1. made.name = NameOf[s]
        BY <3>2, <2>1, <2>5 DEF NameOf
      <4>2. NameOf' = NameOf
        BY <4>1, <2>7
      <4> QED
        BY <3>2, <4>2, <2>8, <1>2
    <3> QED
      BY <3>1, <3>2
  <2>11. fault' \in {"no", "names", "username", "freed", "unknown"}
    BY <1>2 DEF PeersInv, PeersTypeOK
  <2> QED
    BY <2>7, <2>9, <2>10, <2>11 DEF TreesKept, TreesTyped
<1> QED
  BY <1>1, <1>2 DEF bl_do_encr_chat

\* The trees and the rest make the invariant again.
LEMMA TogetherKept ==
  ASSUME TreesKept, RestTyped'
  PROVE  PeersInv'
<1>1. PeersTypeOK'
  BY DEF TreesKept, TreesTyped, RestTyped, PeersTypeOK, Record
<1> QED
  BY <1>1 DEF TreesKept, PeersInv

LEMMA UserKeeps ==
  ASSUME PeersInv, NEW u \in User, NEW t \in Title \cup {NoTitle},
         NEW n \in AnyUsername \cup {NoUsername}, bl_do_user(u, t, n)
  PROVE  TreesKept /\ UNCHANGED other
<1> DEFINE new == [peer_tree[u] EXCEPT
             !.status = "created", !.title = Kept(t, NoTitle, @),
             !.username = Kept(n, NoUsername, @)]
<1>1. u \in Id /\ peer_tree[u] \in Record
  BY DEF Id, PeersInv, PeersTypeOK, Record
<1>2. /\ new \in Record /\ new.name = peer_tree[u].name
      /\ new.title = peer_tree[u].title \/ new.title \in Title
      /\ new.username = peer_tree[u].username \/ new.username \in AnyUsername
  BY <1>1 DEF Record, Kept
<1>3. Describe(u, new)
  BY DEF bl_do_user
<1> HIDE DEF new
<1> QED
  BY <1>1, <1>2, <1>3, DescribeKeeps

LEMMA ChatKeeps ==
  ASSUME PeersInv, NEW g \in Group, NEW t \in Title \cup {NoTitle},
         NEW version \in 0 .. MaxVersion, bl_do_chat(g, t, version)
  PROVE  TreesKept /\ UNCHANGED other
<1> DEFINE new == [peer_tree[g] EXCEPT
             !.status = "created", !.title = Kept(t, NoTitle, @),
             !.version = IF version > @ THEN version ELSE @]
<1>1. g \in Id /\ peer_tree[g] \in Record
  BY DEF Id, PeersInv, PeersTypeOK, Record
<1>2. /\ new \in Record /\ new.name = peer_tree[g].name
      /\ new.title = peer_tree[g].title \/ new.title \in Title
      /\ new.username = peer_tree[g].username
  BY <1>1 DEF Record, Kept
<1>3. Describe(g, new)
  BY DEF bl_do_chat
<1> HIDE DEF new
<1> QED
  BY <1>1, <1>2, <1>3, DescribeKeeps

LEMMA ChannelKeeps ==
  ASSUME PeersInv, NEW c \in Channel, NEW t \in Title,
         NEW n \in AnyUsername \cup {NoUsername}, bl_do_channel(c, t, n)
  PROVE  TreesKept /\ UNCHANGED other
<1> DEFINE new == [peer_tree[c] EXCEPT
             !.status = "created", !.title = Kept(t, NoTitle, @),
             !.username = Kept(n, NoUsername, @)]
<1>1. c \in Id /\ peer_tree[c] \in Record
  BY DEF Id, PeersInv, PeersTypeOK, Record
<1>2. /\ new \in Record /\ new.name = peer_tree[c].name
      /\ new.title = peer_tree[c].title \/ new.title \in Title
      /\ new.username = peer_tree[c].username \/ new.username \in AnyUsername
  BY <1>1 DEF Record, Kept
<1>3. Describe(c, new)
  BY DEF bl_do_channel
<1> HIDE DEF new
<1> QED
  BY <1>1, <1>2, <1>3, DescribeKeeps

LEMMA PeersInitInv == PeersInit => PeersInv
<1> SUFFICES ASSUME PeersInit PROVE PeersInv
  OBVIOUS
<1>1. PeersTypeOK
  BY NullsDiffer DEF PeersInit, PeersTypeOK, NoPeer
<1>2. /\ \A i \in Id : NameOf[i] = NoName /\ UsernameOf[i] = NoUsername
      /\ by_name = {} /\ by_username = {} /\ above = {}
  BY DEF PeersInit, NameOf, UsernameOf, NoPeer
<1> QED
  BY <1>1, <1>2 DEF PeersInv, Indexed, Layered

\* What the server says is of a title, and of a username that the peer has.
LEMMA Said ==
  ASSUME PeersInv, NEW i \in Handled
  PROVE  /\ had[i] \subseteq AnyUsername
         /\ InObject(i) \subseteq AnyUsername \cup {NoUsername}
BY DEF PeersInv, PeersTypeOK, InObject

LEMMA PeersNextInv == PeersInv /\ [PeersNext]_peerVars => PeersInv'
<1> SUFFICES ASSUME PeersInv, [PeersNext]_peerVars PROVE PeersInv'
  OBVIOUS
<1> USE DEF RestTyped
<1>0. RestTyped
  BY DEF PeersInv, PeersTypeOK
<1>1. ASSUME NEW u \in User, tglf_fetch_alloc_user(u) \/ UpdateUserName(u)
      PROVE  PeersInv'
  <2>1. PICK t \in Title \cup {NoTitle}, n \in AnyUsername \cup {NoUsername} :
          bl_do_user(u, t, n)
    BY <1>1, Said DEF tglf_fetch_alloc_user, UpdateUserName, Handled
  <2>2. TreesKept /\ UNCHANGED other
    BY <2>1, UserKeeps
  <2> QED
    BY <1>0, <2>2, TogetherKept DEF other
<1>2. ASSUME NEW g \in Group,
             tglf_fetch_alloc_chat(g) \/ tglf_fetch_alloc_chat_full(g)
               \/ UpdateChatParticipants(g)
      PROVE  PeersInv'
  <2>1. PICK t \in Title \cup {NoTitle}, version \in 0 .. MaxVersion :
          bl_do_chat(g, t, version)
    BY <1>2, NullsDiffer DEF tglf_fetch_alloc_chat,
         tglf_fetch_alloc_chat_full, UpdateChatParticipants
  <2>2. TreesKept /\ UNCHANGED other
    BY <2>1, ChatKeeps
  <2> QED
    BY <1>0, <2>2, TogetherKept DEF other
<1>3. ASSUME NEW c \in Channel, tglf_fetch_alloc_channel(c)
      PROVE  PeersInv'
  <2>1. PICK t \in Title, n \in AnyUsername \cup {NoUsername} :
          bl_do_channel(c, t, n)
    BY <1>3, Said DEF tglf_fetch_alloc_channel, Handled
  <2>2. TreesKept /\ UNCHANGED other
    BY <2>1, ChannelKeeps
  <2> QED
    BY <1>0, <2>2, TogetherKept DEF other
<1>4. ASSUME NEW s \in Secret, Requested(s) PROVE PeersInv'
  <2>1. TreesKept /\ UNCHANGED other
    BY <1>4, SecretKeeps DEF Requested
  <2> QED
    BY <1>0, <2>1, TogetherKept DEF other
<1>5. ASSUME NEW s \in Secret, Unheard(s) PROVE PeersInv'
  <2> DEFINE new == [peer_tree[s] EXCEPT !.status = "known"]
  <2>1. s \in Id /\ peer_tree[s] \in Record /\ peer_tree \in [Id -> Record]
    BY DEF Id, PeersInv, PeersTypeOK, Record
  <2>2. /\ new \in Record /\ new.name = peer_tree[s].name
        /\ new.username = peer_tree[s].username
    BY <2>1 DEF Record
  <2>3. peer_tree' = [peer_tree EXCEPT ![s] = new]
    BY <1>5 DEF Unheard
  <2> HIDE DEF new
  <2>4. /\ NameOf' = [NameOf EXCEPT ![s] = new.name]
        /\ UsernameOf' = [UsernameOf EXCEPT ![s] = new.username]
        /\ NameOf \in [Id -> Name \cup {NoName}]
        /\ UsernameOf \in [Id -> AnyUsername \cup {NoUsername}]
        /\ peer_tree' \in [Id -> Record]
    BY <2>1, <2>2, <2>3, NamesStay DEF PeersInv
  <2>5. new.name = NameOf[s] /\ new.username = UsernameOf[s]
    BY <2>1, <2>2 DEF NameOf, UsernameOf
  <2>6. NameOf' = NameOf /\ UsernameOf' = UsernameOf
    BY <2>4, <2>5
  <2>7. /\ Indexed(by_name, NameOf, NoName)
        /\ Layered(by_username, above, UsernameOf, NoUsername)
    BY DEF PeersInv
  <2>8. TreesKept
    BY <1>5, <2>4, <2>6, <2>7
       DEF TreesKept, TreesTyped, Unheard, PeersInv, PeersTypeOK
  <2> QED
    BY <1>0, <1>5, <2>8, TogetherKept DEF Unheard, other
<1>6. ASSUME NEW s \in Secret, Agreed(s) PROVE PeersInv'
  BY <1>6 DEF Agreed, PeersInv, PeersTypeOK, NameOf, UsernameOf
<1>7. ASSUME NEW s \in Secret, tgl_do_send_create_encr_chat(s)
      PROVE  PeersInv'
  <2>1. TreesKept /\ UNCHANGED other
    BY <1>7, FailsKeeps, SecretKeeps DEF tgl_do_send_create_encr_chat
  <2> QED
    BY <1>0, <2>1, TogetherKept DEF other
<1>8. ASSUME NEW s \in Secret, read_secret_chat(s) PROVE PeersInv'
  <2>1. TreesKept
    BY <1>8, SecretKeeps DEF read_secret_chat
  <2> QED
    BY <1>0, <1>8, <2>1, TogetherKept DEF read_secret_chat
<1>9. ASSUME NEW i \in Id, AskRead(i) PROVE PeersInv'
  BY <1>9 DEF AskRead, PeersInv, PeersTypeOK, NameOf, UsernameOf
<1>10. ASSUME NEW i \in Id, mark_read_on_receive(i) PROVE PeersInv'
  <2>1. CASE Fails("unknown")
    <3>1. TreesKept /\ UNCHANGED other
      BY <2>1, FailsKeeps
    <3> QED
      BY <1>0, <3>1, TogetherKept DEF other
  <2>2. CASE ~Fails("unknown")
    BY <1>10, <2>2
       DEF mark_read_on_receive, PeersInv, PeersTypeOK, NameOf, UsernameOf
  <2> QED
    BY <2>1, <2>2
<1>11. CASE Restart
  <2>1. PeersTypeOK'
    BY <1>11, NullsDiffer
       DEF Restart, PeersInv, PeersTypeOK, NoPeer
  <2>2. /\ \A i \in Id : NameOf'[i] = NoName /\ UsernameOf'[i] = NoUsername
        /\ by_name' = {} /\ by_username' = {} /\ above' = {}
    BY <1>11 DEF Restart, NameOf, UsernameOf, NoPeer
  <2> QED
    BY <2>1, <2>2 DEF PeersInv, Indexed, Layered
<1>12. CASE UNCHANGED peerVars
  BY <1>12 DEF peerVars, PeersInv, PeersTypeOK, NameOf, UsernameOf
<1> QED
  BY <1>1, <1>2, <1>3, <1>4, <1>5, <1>6, <1>7, <1>8, <1>9, <1>10, <1>11,
     <1>12 DEF PeersNext

\* No list becomes older.
Newer == \A g \in Group : peer_tree'[g].version >= peer_tree[g].version

LEMMA DescribeNewer ==
  ASSUME PeersTypeOK, NEW id \in Id, NEW new \in Record,
         new.version >= peer_tree[id].version, Describe(id, new)
  PROVE  Newer
<1>1. \A g \in Group : g \in Id /\ peer_tree[g].version \in Nat
  BY NullsDiffer DEF Id, PeersTypeOK
<1>2. CASE UNCHANGED peer_tree
  BY <1>1, <1>2 DEF Newer
<1>3. ASSUME NEW name,
             peer_tree' = [peer_tree EXCEPT ![id] = [new EXCEPT !.name = name]]
      PROVE  Newer
  <2>1. [new EXCEPT !.name = name].version = new.version
    BY DEF Record
  <2>2. peer_tree \in [Id -> Record]
    BY DEF PeersTypeOK, Record
  <2>3. ASSUME NEW g \in Group
        PROVE  peer_tree'[g].version >= peer_tree[g].version
    <3>1. CASE g = id
      BY <3>1, <2>1, <2>2, <1>1, <1>3
    <3>2. CASE g # id
      BY <3>2, <2>2, <1>1, <1>3
    <3> QED
      BY <3>1, <3>2
  <2> QED
    BY <2>3 DEF Newer
<1> QED
  BY <1>2, <1>3 DEF Describe, Fails

\* Only another peer changes, or nothing.
LEMMA OthersNewer ==
  ASSUME PeersTypeOK, NEW s \in Secret,
         \A g \in Group : peer_tree'[g] = peer_tree[g]
  PROVE  Newer
BY NullsDiffer DEF Newer, PeersTypeOK, Id

\* A list of members that is older than the one the client has is dropped, also
\* where an answer that was long under way comes after an update.
THEOREM ListsGrowNewer == PeersSpec => MembersNeverOlder
<1> DEFINE NoOlder == Newer \/ peer_tree' = [i \in Id |-> NoPeer]
<1>1. ASSUME PeersInv, [PeersNext]_peerVars PROVE NoOlder
  <2>1. /\ PeersTypeOK /\ peer_tree \in [Id -> Record]
        /\ \A g \in Group : g \in Id /\ peer_tree[g].version \in Nat
    BY <1>1, NullsDiffer DEF PeersInv, PeersTypeOK, Record, Id
  <2>2. ASSUME NEW u \in User, NEW t \in Title \cup {NoTitle},
               NEW n \in AnyUsername \cup {NoUsername}, bl_do_user(u, t, n)
        PROVE  Newer
    <3> DEFINE new == [peer_tree[u] EXCEPT
                 !.status = "created", !.title = Kept(t, NoTitle, @),
                 !.username = Kept(n, NoUsername, @)]
    <3>1. u \in Id /\ peer_tree[u] \in Record
      BY <2>1 DEF Id
    <3>2. new \in Record /\ new.version = peer_tree[u].version
      BY <3>1 DEF Record, Kept
    <3>3. Describe(u, new)
      BY <2>2 DEF bl_do_user
    <3>4. new.version >= peer_tree[u].version
      <4> HIDE DEF new
      <4>1. peer_tree[u].version \in Nat
        BY <3>1, NullsDiffer DEF Record
      <4> QED
        BY <3>2, <4>1
    <3> HIDE DEF new
    <3> QED
      BY <2>1, <3>1, <3>2, <3>3, <3>4, DescribeNewer
  <2>3. ASSUME NEW c \in Channel, NEW t \in Title,
               NEW n \in AnyUsername \cup {NoUsername}, bl_do_channel(c, t, n)
        PROVE  Newer
    <3> DEFINE new == [peer_tree[c] EXCEPT
                 !.status = "created", !.title = Kept(t, NoTitle, @),
                 !.username = Kept(n, NoUsername, @)]
    <3>1. c \in Id /\ peer_tree[c] \in Record
      BY <2>1 DEF Id
    <3>2. new \in Record /\ new.version = peer_tree[c].version
      BY <3>1 DEF Record, Kept
    <3>3. Describe(c, new)
      BY <2>3 DEF bl_do_channel
    <3>4. new.version >= peer_tree[c].version
      <4> HIDE DEF new
      <4>1. peer_tree[c].version \in Nat
        BY <3>1, NullsDiffer DEF Record
      <4> QED
        BY <3>2, <4>1
    <3> HIDE DEF new
    <3> QED
      BY <2>1, <3>1, <3>2, <3>3, <3>4, DescribeNewer
  <2>4. ASSUME NEW g \in Group, NEW t \in Title \cup {NoTitle},
               NEW version \in 0 .. MaxVersion, bl_do_chat(g, t, version)
        PROVE  Newer
    <3> DEFINE old == peer_tree[g].version
               new == [peer_tree[g] EXCEPT
                 !.status = "created", !.title = Kept(t, NoTitle, @),
                 !.version = IF version > @ THEN version ELSE @]
    <3>1. g \in Id /\ peer_tree[g] \in Record
      BY <2>1 DEF Id
    <3>2. new \in Record
          /\ new.version = IF version > old THEN version ELSE old
      BY <3>1 DEF Record, Kept
    <3>3. Describe(g, new)
      BY <2>4 DEF bl_do_chat
    <3>4. version \in Nat /\ old \in Nat
      BY <2>1, <2>4, NullsDiffer
    <3> HIDE DEF new, old
    <3>5. new.version >= old
      BY <3>2, <3>4
    <3> QED
      BY <2>1, <3>1, <3>2, <3>3, <3>5, DescribeNewer DEF old
  <2>5. ASSUME NEW s \in Secret,
               \/ Requested(s) \/ Unheard(s) \/ Agreed(s)
               \/ tgl_do_send_create_encr_chat(s) \/ read_secret_chat(s)
        PROVE  Newer
    <3>1. s \notin Group
      BY IdsDiffer
    <3>2. \A g \in Group : peer_tree'[g] = peer_tree[g]
      BY <2>1, <2>5, <3>1
         DEF Requested, Unheard, Agreed, tgl_do_send_create_encr_chat,
             read_secret_chat, bl_do_encr_chat, Fails
    <3> QED
      BY <2>1, <3>2, OthersNewer
  <2>6. ASSUME UNCHANGED peer_tree PROVE Newer
    BY <2>1, <2>6 DEF Newer
  <2>7. ASSUME NEW u \in User, tglf_fetch_alloc_user(u) \/ UpdateUserName(u)
        PROVE  Newer
    BY <1>1, <2>2, <2>7, Said
       DEF tglf_fetch_alloc_user, UpdateUserName, Handled
  <2>8. ASSUME NEW g \in Group,
               tglf_fetch_alloc_chat(g) \/ tglf_fetch_alloc_chat_full(g)
                 \/ UpdateChatParticipants(g)
        PROVE  Newer
    BY <2>4, <2>8, NullsDiffer DEF tglf_fetch_alloc_chat,
       tglf_fetch_alloc_chat_full, UpdateChatParticipants
  <2>9. ASSUME NEW c \in Channel, tglf_fetch_alloc_channel(c) PROVE Newer
    BY <1>1, <2>3, <2>9, Said DEF tglf_fetch_alloc_channel, Handled
  <2>10. ASSUME NEW i \in Id, AskRead(i) \/ mark_read_on_receive(i)
         PROVE  Newer
    BY <2>6, <2>10 DEF AskRead, mark_read_on_receive, Fails
  <2>11. CASE Restart
    BY <2>11 DEF Restart
  <2>12. CASE UNCHANGED peerVars
    BY <2>6, <2>12 DEF peerVars
  <2> QED
    BY <1>1, <2>5, <2>7, <2>8, <2>9, <2>10, <2>11, <2>12 DEF PeersNext
<1>2. PeersInv /\ [PeersNext]_peerVars =>
        [\A g \in Group :
           \/ peer_tree'[g].version >= peer_tree[g].version
           \/ peer_tree' = [i \in Id |-> NoPeer]]_peerVars
  BY <1>1 DEF Newer
<1> QED
  BY PeersInitInv, PeersNextInv, <1>2, PTL DEF PeersSpec, MembersNeverOlder

-----------------------------------------------------------------------------
(* Which assertions fail, and when.                                         *)

\* A set of numbers that is not empty has a least one.
LEMMA LeastNumber ==
  ASSUME NEW T \in SUBSET Nat, T # {}
  PROVE  \E x \in T : \A y \in T : x <= y
<1>1. PICK x \in T : \A y \in T : ~(<<y, x>> \in OpToRel(<, Nat))
  BY NatLessThanWellFounded, WFMin
<1>2. ASSUME NEW y \in T PROVE ~(y < x)
  <2>1. y \in Nat /\ x \in Nat
    OBVIOUS
  <2> QED BY <1>1, <2>1 DEF OpToRel
<1> QED BY <1>2

\* If create_print_name finds no number, every number is that of another peer.
LEMMA AllNumbersTaken ==
  ASSUME NEW base, NEW id, NEW tree, FreeNumbers(base, id, tree) = {},
         NEW k \in 0 .. MaxSuffix
  PROVE  \E e \in tree : e[1] = <<base, k>>
<1> DEFINE free == {j \in 0 .. MaxSuffix :
                      ~\E e \in tree : e[1] = <<base, j>> /\ e[2] # id}
<1>1. free = {}
  <2> SUFFICES ASSUME free # {} PROVE FALSE
    OBVIOUS
  <2>1. free \in SUBSET Nat
    BY NullsDiffer
  <2>2. PICK x \in free : \A y \in free : x <= y
    <3> HIDE DEF free
    <3> QED BY <2>1, LeastNumber
  <2>3. \A j \in 0 .. MaxSuffix : j < x => j \notin free
    BY <2>1, <2>2
  <2>4. x \in FreeNumbers(base, id, tree)
    BY <2>2, <2>3 DEF FreeNumbers
  <2> QED BY <2>4
<1> QED BY <1>1

\* Then more peers have the name than there are numbers.
LEMMA NamesUsedUp ==
  ASSUME NEW tree, tree \subseteq by_name, IsFiniteSet(by_name),
         by_name \subseteq Name \X Id,
         NEW base \in Base, NEW id, FreeNumbers(base, id, tree) = {}
  PROVE  Cardinality({e \in by_name : e[1][1] = base}) > MaxSuffix
<1> DEFINE S == {e \in by_name : e[1][1] = base}
           f == [e \in S |-> e[1][2]]
<1>1. IsFiniteSet(S)
  BY FS_Subset
<1>2. \A e \in S : e[1][2] \in 0 .. MaxSuffix
  BY DEF Name
<1>3. ASSUME NEW k \in 0 .. MaxSuffix PROVE \E e \in S : f[e] = k
  <2>1. PICK e \in tree : e[1] = <<base, k>>
    BY AllNumbersTaken
  <2> QED BY <2>1
<1>4. f \in Surjection(S, 0 .. MaxSuffix)
  BY <1>2, <1>3 DEF Surjection
<1> HIDE DEF S, f
<1>5. Cardinality(0 .. MaxSuffix) <= Cardinality(S)
  BY <1>1, <1>4, FS_Surjection
<1>6. Cardinality(0 .. MaxSuffix) = MaxSuffix + 1 /\ MaxSuffix \in Nat
  BY NullsDiffer, FS_Interval
<1>7. Cardinality(S) \in Nat
  BY <1>1, FS_CardinalityType
<1>8. Cardinality(S) > MaxSuffix
  BY <1>5, <1>6, <1>7
<1> QED BY <1>8 DEF S

\* What a peer is called by its username it has been told of; there are
\* finitely many names; and what has failed is one of the three.
UsernamesHad ==
  \A i \in Id : peer_tree[i].username # NoUsername =>
    i \in Handled /\ peer_tree[i].username \in had[i]

FaultInv == UsernamesHad /\ IsFiniteSet(by_name) /\ FaultsAreNamed

\* No assertion fails in a step that changes the names.
LEMMA NoFault ==
  ASSUME fault' = "no", UsernamesHad', IsFiniteSet(by_name')
  PROVE  FaultInv'
BY DEF FaultInv, FaultsAreNamed

\* Something that a peer is said to be called by bl_do_user and the others.
LEMMA DescribeFaults ==
  ASSUME PeersInv, FaultInv, fault = "no", NEW id \in Id, NEW new \in Record,
         new.title = peer_tree[id].title \/ new.title \in Title,
         new.username = peer_tree[id].username
           \/ (id \in Handled /\ new.username \in had[id]),
         Describe(id, new)
  PROVE  FaultInv'
<1> DEFINE renamed == new.title # peer_tree[id].title
           base == Printed[new.title]
           numbers ==
             IF renamed THEN FreeNumbers(base, id, Others(id)) ELSE {0}
           name(k) == IF renamed THEN <<base, k>> ELSE peer_tree[id].name
<1>1. CASE Fails("names") /\ numbers = {}
  <2>1. renamed /\ FreeNumbers(base, id, Others(id)) = {} /\ base \in Base
    BY <1>1 DEF Base
  <2>2. Others(id) \subseteq by_name
    BY DEF Others, Released
  <2>3. IsFiniteSet(by_name) /\ by_name \subseteq Name \X Id
    BY DEF FaultInv, PeersInv, PeersTypeOK
  <2>4. Cardinality({e \in by_name : e[1][1] = base}) > MaxSuffix
    <3> HIDE DEF base
    <3> QED BY <2>1, <2>2, <2>3, NamesUsedUp
  <2> QED BY <1>1, <2>1, <2>4 DEF Fails, FaultInv, FaultsAreNamed,
             UsernamesHad, other
<1>b. CASE Fails("freed") /\ LosesAnother(id, new.username)
  <2>1. PICK o \in above : o[2] = id
    BY <1>b DEF LosesAnother, Covered
  <2>2. /\ o[1] \in Id /\ o[1] # id /\ UsernameOf[o[1]] = UsernameOf[id]
        /\ UsernameOf[id] # NoUsername
    BY <2>1 DEF PeersInv, PeersTypeOK, Layered
  <2>3. peer_tree[o[1]].username = peer_tree[id].username
        /\ peer_tree[id].username # NoUsername
    BY <2>2 DEF UsernameOf
  <2>4. /\ o[1] \in Handled /\ id \in Handled
        /\ peer_tree[id].username \in had[o[1]] \cap had[id]
    BY <2>2, <2>3 DEF FaultInv, UsernamesHad
  <2>5. \E i, j \in Handled : i # j /\ had[i] \cap had[j] # {}
    BY <2>2, <2>4
  <2> QED BY <1>b, <2>5 DEF Fails, FaultInv, FaultsAreNamed, UsernamesHad,
             other
<1>2. CASE Fails("username") /\ UsernameTaken(id, new.username)
  <2>1. PICK e \in by_username : e[1] = new.username
    BY <1>2 DEF UsernameTaken, Keyed
  <2>2. new.username # peer_tree[id].username /\ id \in Handled
        /\ new.username \in had[id] /\ had[id] \subseteq AnyUsername
    BY <1>2 DEF UsernameTaken, PeersInv, PeersTypeOK
  <2>3. e[2] \in Id /\ peer_tree[e[2]].username = new.username
    BY <2>1 DEF PeersInv, PeersTypeOK, Layered, UsernameOf
  <2>4. e[2] \in Handled /\ new.username \in had[e[2]] /\ e[2] # id
    BY <2>2, <2>3, NullsDiffer DEF FaultInv, UsernamesHad
  <2>5. \E i, j \in Handled : i # j /\ had[i] \cap had[j] # {}
    BY <2>2, <2>4
  <2> QED BY <1>2, <2>5 DEF Fails, FaultInv, FaultsAreNamed, UsernamesHad,
             other
<1>3. ASSUME NEW k \in numbers,
             peer_tree' = [peer_tree EXCEPT ![id] =
                             [new EXCEPT !.name = name(k)]],
             by_name' = IF renamed THEN Renamed(id, name(k)) ELSE by_name,
             UNCHANGED <<other, fault>>
      PROVE  FaultInv'
  <2>1. IsFiniteSet(by_name')
    <3>1. IsFiniteSet(by_name) /\ Others(id) \subseteq by_name
      BY DEF FaultInv, Others, Released
    <3>2. IsFiniteSet(Others(id))
      BY <3>1, FS_Subset
    <3>3. \A x : IsFiniteSet(Others(id) \cup {x})
      BY <3>2, FS_AddElement
    <3> QED BY <1>3, <3>1, <3>3 DEF Renamed
  <2>2. UsernamesHad'
    <3>1. [new EXCEPT !.name = name(k)].username = new.username
      BY DEF Record
    <3>2. peer_tree \in [Id -> Record]
      BY DEF PeersInv, PeersTypeOK, Record
    <3> QED
      BY <1>3, <3>1, <3>2 DEF FaultInv, UsernamesHad, other
  <2> QED BY <1>3, <2>1, <2>2, NoFault
<1> QED BY <1>1, <1>b, <1>2, <1>3 DEF Describe

\* bl_do_encr_chat.
LEMMA SecretFaults ==
  ASSUME PeersInv, FaultInv, fault = "no", NEW s \in Secret,
         bl_do_encr_chat(s), reads' = reads, had' = had
  PROVE  FaultInv'
<1> DEFINE base == SecretBase(s)
<1>1. CASE Fails("names") /\ FreeNumbers(base, s, by_name) = {}
  <2>1. base \in Base
    <3>1. s \in Id /\ Partner[s] \in User /\ Partner[s] \in Id
      BY IdsDiffer DEF Id
    <3>2. peer_tree[Partner[s]].title \in Title \cup {NoTitle}
      BY <3>1 DEF PeersInv, PeersTypeOK
    <3> QED BY <3>1, <3>2 DEF SecretBase, Base
  <2>2. Cardinality({e \in by_name : e[1][1] = base}) > MaxSuffix
    BY <1>1, <2>1, NamesUsedUp DEF FaultInv, PeersInv, PeersTypeOK
  <2> QED BY <1>1, <2>1, <2>2 DEF Fails, FaultInv, FaultsAreNamed,
             UsernamesHad
<1>2. ASSUME NEW name,
             peer_tree' = [peer_tree EXCEPT ![s].status = "created",
                                            ![s].name = name],
             by_name' = by_name \cup {<<name, s>>} \/ by_name' = by_name,
             fault' = fault
      PROVE  FaultInv'
  <2>1. IsFiniteSet(by_name')
    BY <1>2, FS_AddElement DEF FaultInv
  <2>2. UsernamesHad'
    <3>1. peer_tree \in [Id -> Record] /\ s \in Id
      BY DEF PeersInv, PeersTypeOK, Record, Id
    <3>2. \A i \in Id : peer_tree'[i].username = peer_tree[i].username
      BY <1>2, <3>1 DEF Record
    <3> QED BY <3>2 DEF FaultInv, UsernamesHad
  <2> QED BY <1>2, <2>1, <2>2, NoFault
<1> QED BY <1>1, <1>2 DEF bl_do_encr_chat

\* What a user, a group or a channel is said to be called.
LEMMA UserFaults ==
  ASSUME PeersInv, FaultInv, fault = "no", NEW u \in User,
         NEW t \in Title \cup {NoTitle}, NEW n \in had[u] \cup {NoUsername},
         bl_do_user(u, t, n)
  PROVE  FaultInv'
<1> DEFINE new == [peer_tree[u] EXCEPT
             !.status = "created", !.title = Kept(t, NoTitle, @),
             !.username = Kept(n, NoUsername, @)]
<1>1. u \in Id /\ u \in Handled /\ peer_tree[u] \in Record
      /\ had[u] \subseteq AnyUsername
  BY DEF Id, Handled, PeersInv, PeersTypeOK, Record
<1>2. /\ new \in Record
      /\ new.title = peer_tree[u].title \/ new.title \in Title
      /\ new.username = peer_tree[u].username \/ new.username \in had[u]
  BY <1>1 DEF Record, Kept
<1>3. Describe(u, new)
  BY DEF bl_do_user
<1> HIDE DEF new
<1>4. new.title = peer_tree[u].title \/ new.title \in Title
  BY <1>2
<1>5. new.username = peer_tree[u].username
        \/ (u \in Handled /\ new.username \in had[u])
  BY <1>1, <1>2
<1>6. new \in Record /\ u \in Id
  BY <1>1, <1>2
<1> QED BY <1>3, <1>4, <1>5, <1>6, DescribeFaults

LEMMA ChannelFaults ==
  ASSUME PeersInv, FaultInv, fault = "no", NEW c \in Channel,
         NEW t \in Title, NEW n \in had[c] \cup {NoUsername},
         bl_do_channel(c, t, n)
  PROVE  FaultInv'
<1> DEFINE new == [peer_tree[c] EXCEPT
             !.status = "created", !.title = Kept(t, NoTitle, @),
             !.username = Kept(n, NoUsername, @)]
<1>1. c \in Id /\ c \in Handled /\ peer_tree[c] \in Record
      /\ had[c] \subseteq AnyUsername
  BY DEF Id, Handled, PeersInv, PeersTypeOK, Record
<1>2. /\ new \in Record
      /\ new.title = peer_tree[c].title \/ new.title \in Title
      /\ new.username = peer_tree[c].username \/ new.username \in had[c]
  BY <1>1 DEF Record, Kept
<1>3. Describe(c, new)
  BY DEF bl_do_channel
<1> HIDE DEF new
<1>4. new.title = peer_tree[c].title \/ new.title \in Title
  BY <1>2
<1>5. new.username = peer_tree[c].username
        \/ (c \in Handled /\ new.username \in had[c])
  BY <1>1, <1>2
<1>6. new \in Record /\ c \in Id
  BY <1>1, <1>2
<1> QED BY <1>3, <1>4, <1>5, <1>6, DescribeFaults

LEMMA ChatFaults ==
  ASSUME PeersInv, FaultInv, fault = "no", NEW g \in Group,
         NEW t \in Title \cup {NoTitle}, NEW version \in 0 .. MaxVersion,
         bl_do_chat(g, t, version)
  PROVE  FaultInv'
<1> DEFINE new == [peer_tree[g] EXCEPT
             !.status = "created", !.title = Kept(t, NoTitle, @),
             !.version = IF version > @ THEN version ELSE @]
<1>1. g \in Id /\ peer_tree[g] \in Record
  BY DEF Id, PeersInv, PeersTypeOK, Record
<1>2. /\ new \in Record
      /\ new.title = peer_tree[g].title \/ new.title \in Title
      /\ new.username = peer_tree[g].username
  BY <1>1 DEF Record, Kept
<1>3. Describe(g, new)
  BY DEF bl_do_chat
<1> HIDE DEF new
<1>4. new.title = peer_tree[g].title \/ new.title \in Title
  BY <1>2
<1>5. new.username = peer_tree[g].username
        \/ (g \in Handled /\ new.username \in had[g])
  BY <1>1, <1>2
<1>6. new \in Record /\ g \in Id
  BY <1>1, <1>2
<1> QED BY <1>3, <1>4, <1>5, <1>6, DescribeFaults

\* Every step keeps it; after a failed assertion there is only a restart.
LEMMA FaultNext ==
  ASSUME PeersInv, FaultInv, [PeersNext]_peerVars
  PROVE  FaultInv'
<1>1. ASSUME NEW u \in User, tglf_fetch_alloc_user(u) \/ UpdateUserName(u)
      PROVE  FaultInv'
  <2>1. PICK t \in Title \cup {NoTitle}, n \in had[u] \cup {NoUsername} :
          fault = "no" /\ bl_do_user(u, t, n)
    BY <1>1 DEF tglf_fetch_alloc_user, UpdateUserName, Alive, InObject
  <2> QED BY <2>1, UserFaults
<1>2. ASSUME NEW g \in Group,
             tglf_fetch_alloc_chat(g) \/ tglf_fetch_alloc_chat_full(g)
               \/ UpdateChatParticipants(g)
      PROVE  FaultInv'
  <2>1. PICK t \in Title \cup {NoTitle}, version \in 0 .. MaxVersion :
          fault = "no" /\ bl_do_chat(g, t, version)
    BY <1>2, NullsDiffer DEF tglf_fetch_alloc_chat,
         tglf_fetch_alloc_chat_full, UpdateChatParticipants, Alive
  <2> QED BY <2>1, ChatFaults
<1>3. ASSUME NEW c \in Channel, tglf_fetch_alloc_channel(c)
      PROVE  FaultInv'
  <2>1. PICK t \in Title, n \in had[c] \cup {NoUsername} :
          fault = "no" /\ bl_do_channel(c, t, n)
    BY <1>3 DEF tglf_fetch_alloc_channel, Alive, InObject
  <2> QED BY <2>1, ChannelFaults
<1>4. ASSUME NEW s \in Secret, Requested(s) \/ read_secret_chat(s)
      PROVE  FaultInv'
  BY <1>4, SecretFaults DEF Requested, read_secret_chat, Alive, other
<1>5. ASSUME NEW s \in Secret, tgl_do_send_create_encr_chat(s)
      PROVE  FaultInv'
  <2>1. CASE peer_tree[Partner[s]].status = "none"
    BY <1>5, <2>1 DEF tgl_do_send_create_encr_chat, Fails, FaultInv,
       FaultsAreNamed, UsernamesHad, other
  <2>2. CASE peer_tree[Partner[s]].status # "none"
    BY <1>5, <2>2, SecretFaults DEF tgl_do_send_create_encr_chat, Alive, other
  <2> QED BY <2>1, <2>2
<1>6. ASSUME NEW s \in Secret, Unheard(s) \/ Agreed(s) PROVE FaultInv'
  <2>1. peer_tree \in [Id -> Record] /\ s \in Id
    BY DEF PeersInv, PeersTypeOK, Record, Id
  <2>2. \A i \in Id : peer_tree'[i].username = peer_tree[i].username
    BY <1>6, <2>1 DEF Unheard, Agreed, Record
  <2>3. fault' = "no" /\ by_name' = by_name /\ had' = had
    BY <1>6 DEF Unheard, Agreed, Alive, other
  <2> QED BY <2>2, <2>3, NoFault DEF FaultInv, UsernamesHad
<1>7. ASSUME NEW i \in Id, AskRead(i) PROVE FaultInv'
  BY <1>7, NoFault DEF AskRead, Alive, FaultInv, UsernamesHad
<1>8. ASSUME NEW i \in Id, mark_read_on_receive(i) PROVE FaultInv'
  <2>1. CASE peer_tree[i].status # "created"
    BY <1>8, <2>1 DEF mark_read_on_receive, Fails, FaultInv, FaultsAreNamed,
       UsernamesHad, other
  <2>2. CASE peer_tree[i].status = "created"
    BY <1>8, <2>2, NoFault
    DEF mark_read_on_receive, Alive, FaultInv, UsernamesHad
  <2> QED BY <2>1, <2>2
<1>9. CASE Restart
  BY <1>9, NoFault, FS_EmptySet DEF Restart, UsernamesHad, NoPeer
<1>10. CASE UNCHANGED peerVars
  BY <1>10 DEF peerVars, FaultInv, FaultsAreNamed, UsernamesHad
<1> QED
  BY <1>1, <1>2, <1>3, <1>4, <1>5, <1>6, <1>7, <1>8, <1>9, <1>10
  DEF PeersNext

\* An assertion of the trees fails, or the entry of another peer is freed, only
\* where one username has been that of two peers, or where more peers are
\* called alike than there are numbers; and one about a peer only where the
\* program was asked for a peer that it had heard nothing of.
THEOREM FaultsHaveReasons == PeersSpec => []FaultsAreNamed
<1>1. PeersInit => FaultInv
  BY FS_EmptySet
  DEF PeersInit, FaultInv, FaultsAreNamed, UsernamesHad, NoPeer
<1>2. FaultInv => FaultsAreNamed
  BY DEF FaultInv
<1> QED
  BY PeersInitInv, PeersNextInv, FaultNext, <1>1, <1>2, PTL DEF PeersSpec

\* Whatever peers are called and renamed to, and in whatever order the client
\* hears of it, peer_by_name_tree and username_peer_pair hold each peer under
\* what it is called now, and under nothing else; also after a restart.  Two
\* peers have entries under one username only if they had one in common, and
\* then one of the two lies above the other.
THEOREM PeersAreFound == PeersSpec => []FoundByName
<1>1. PeersInit => FaultInv
  BY FS_EmptySet
  DEF PeersInit, FaultInv, FaultsAreNamed, UsernamesHad, NoPeer
<1>2. ASSUME PeersInv, FaultInv PROVE FoundByName
  <2>1. /\ \A e \in by_name : e[2] \in Id
        /\ \A e \in by_username : e[2] \in Id
    BY <1>2 DEF PeersInv, PeersTypeOK
  <2>2. /\ \A e \in by_name : peer_tree[e[2]].name = e[1]
        /\ \A i \in Id : peer_tree[i].name # NoName =>
             <<peer_tree[i].name, i>> \in by_name
        /\ \A d, e \in by_name : d[1] = e[1] => d = e
    BY <1>2, <2>1 DEF PeersInv, Indexed, NameOf
  <2>3. /\ \A e \in by_username : peer_tree[e[2]].username = e[1]
        /\ \A i \in Id : peer_tree[i].username # NoUsername =>
             <<peer_tree[i].username, i>> \in by_username
        /\ \A d, e \in by_username : d[1] = e[1] /\ d # e =>
             (<<d[2], e[2]>> \in above <=> <<e[2], d[2]>> \notin above)
    BY <1>2, <2>1 DEF PeersInv, Layered, UsernameOf
  <2>4. \A e \in by_username : e[1] # NoUsername
    BY <1>2, NullsDiffer DEF PeersInv, PeersTypeOK
  <2>5. \A e \in by_username : e[1] \in had[e[2]]
    BY <1>2, <2>1, <2>3, <2>4 DEF FaultInv, UsernamesHad
  <2>6. \A d, e \in by_username : d[1] = e[1] => had[d[2]] \cap had[e[2]] # {}
    BY <2>5
  <2> QED
    BY <2>2, <2>3, <2>6 DEF FoundByName
<1> QED
  BY PeersInitInv, PeersNextInv, FaultNext, <1>1, <1>2, PTL DEF PeersSpec

-----------------------------------------------------------------------------
(* Login: an export is under way only for data centres that are not signed *)
(* and none is left when the last one is; the account is logged in once.   *)

\* The stages of a login before the account is signed in anywhere, and when it
\* is on every DC.
Before == {"keys", "prompt", "code is sent", "signing in", "bot"}
After == {"failed", "difference", "dialogs", "channels", "started"}

\* A step beside the login may take the dialogue, and leave it to nobody.
BesideLogin ==
  /\ UNCHANGED <<bot, accounts, login, right, waits, behind, logins>>
  /\ dialogue'.who # 0 \/ dialogue' = Nobody

\* An export is under way for DCs that are not signed, only while the login
\* exports; the login waits for the words that it asks for, and only that of a
\* person asks for a code.
LoginInv ==
  /\ login \in Before \cup After \cup {"exporting", "aborted"}
  /\ Dcs \subseteq known
  /\ export = [d \in Dcs \cup {Late} |-> export[d]]
  /\ login \in Before \cup After =>
       \A d \in Dcs \cup {Late} : export[d] = "none"
  /\ login = "exporting" =>
       \A d \in Dcs \cup {Late} : export[d] # "none" => d \in known \ signed
  /\ logins = IF login \in After THEN 1 ELSE 0
  /\ login \in After => Dcs \subseteq signed
  /\ dialogue.who = 0 /\ dialogue # Nobody => login = "prompt"
  /\ bot \in {"no", "asks", "given"}
  /\ \/ login \in {"code is sent", "signing in"}
     \/ dialogue.who = 0
        /\ dialogue.what \in {"phone number", "code", "registration"}
     => bot = "no"

LEMMA LoginInitially == LoginInit => LoginInv
<1> SUFFICES ASSUME LoginInit PROVE LoginInv
  OBVIOUS
<1>1. PICK file \in HasFile :
        /\ signed = (IF file THEN Dcs ELSE {})
        /\ login = (IF file THEN "difference" ELSE "keys")
        /\ logins = (IF file THEN 1 ELSE 0)
  BY DEF LoginInit
<1>2. /\ known = Dcs /\ dialogue = Nobody
      /\ export = [d \in Dcs \cup {Late} |-> "none"]
      /\ bot \in {"no", "asks", "given"}
  BY LoginAssumption DEF LoginInit
<1>3. dialogue.who = 0 /\ dialogue.what = "nothing"
  BY <1>2 DEF Nobody
<1>4. export = [d \in Dcs \cup {Late} |-> export[d]]
      /\ \A d \in Dcs \cup {Late} : export[d] = "none"
  BY <1>2
<1>5. CASE file
  BY <1>1, <1>2, <1>3, <1>4, <1>5 DEF LoginInv, Before, After
<1>6. CASE ~file
  BY <1>1, <1>2, <1>3, <1>4, <1>6 DEF LoginInv, Before, After
<1> QED
  BY <1>5, <1>6

\* Steps that change neither the stage of the login nor its dialogue.
LEMMA SameStageKeeps ==
  ASSUME LoginInv, known' = known \/ known' = known \cup {Late},
         UNCHANGED <<bot, signed, export, login, dialogue, logins>>
  PROVE  LoginInv'
BY DEF LoginInv

LEMMA OthersKeep ==
  ASSUME LoginInv, BesideLogin
  PROVE  LoginInv'
<1>1. dialogue'.who = 0 => dialogue' = Nobody /\ dialogue'.what = "nothing"
  BY DEF BesideLogin, Nobody
<1> QED
  BY <1>1 DEF LoginInv, BesideLogin, accounts

\* A step before the account is signed in.
LEMMA BeforeKeeps ==
  ASSUME LoginInv, login \in Before, login' \in Before,
         UNCHANGED <<bot, known, export, logins>>,
         \/ dialogue' = Nobody
         \/ dialogue' = dialogue /\ login # "prompt"
         \/ login' = "prompt" /\ dialogue'.who = 0,
         login' \in {"code is sent", "signing in"} => bot = "no",
         dialogue'.what \in {"phone number", "code", "registration"}
           => bot = "no" \/ dialogue'.who # 0
  PROVE  LoginInv'
BY DEF LoginInv, Before, After, Nobody

LEMMA CheckAuthorizedKeeps ==
  ASSUME LoginInv, CheckAuthorized
  PROVE  LoginInv'
<1>1. /\ login = "keys" /\ bot \in {"no", "asks", "given"}
      /\ UNCHANGED <<bot, known, export, logins>>
  BY DEF LoginInv, CheckAuthorized, accounts
<1>2. CASE bot = "no"
  <2>1. Prompt("phone number")
    BY <1>2 DEF CheckAuthorized, SignIn
  <2>2. login' = "prompt" /\ dialogue'.who = 0
    BY <2>1 DEF Prompt, Ask
  <2> QED
    BY <1>1, <1>2, <2>2, BeforeKeeps DEF Before
<1>3. CASE bot = "asks"
  <2>1. Prompt("bot hash")
    BY <1>3 DEF CheckAuthorized, SignIn
  <2>2. /\ login' = "prompt" /\ dialogue'.who = 0
        /\ dialogue'.what = "bot hash"
    BY <2>1 DEF Prompt, Ask
  <2> QED
    BY <1>1, <1>3, <2>2, BeforeKeeps DEF Before
<1>4. CASE bot = "given"
  <2>1. login' = "bot" /\ dialogue' = dialogue
    BY <1>4 DEF CheckAuthorized, SignIn
  <2> QED
    BY <1>1, <2>1 DEF LoginInv, Before, After
<1> QED
  BY <1>1, <1>2, <1>3, <1>4

\* Words are typed at a prompt of the login.
LEMMA TypedAtPrompt ==
  ASSUME LoginInv, NEW what, what # "nothing", Typing(what)
  PROVE  /\ login = "prompt"
         /\ UNCHANGED <<bot, known, export, logins>>
         /\ what \in {"phone number", "code", "registration"} => bot = "no"
<1>1. dialogue.who = 0 /\ dialogue.what = what /\ dialogue # Nobody
  BY DEF Typing, Nobody
<1> QED
  BY <1>1 DEF LoginInv, Typing, accounts

LEMMA LoginTypedKeeps ==
  ASSUME LoginInv, LoginTyped
  PROVE  LoginInv'
<1>0. Nobody.who = 0 /\ Nobody.what = "nothing"
  BY DEF Nobody
<1>1. ASSUME NEW ok \in BOOLEAN, TypePhone(ok) PROVE LoginInv'
  <2>1. login = "prompt" /\ UNCHANGED <<bot, known, export, logins>>
        /\ bot = "no"
    BY <1>1, TypedAtPrompt DEF TypePhone
  <2>2. dialogue' = Nobody /\ login' = "code is sent"
    BY <1>1 DEF TypePhone
  <2> QED
    BY <1>0, <2>1, <2>2, BeforeKeeps DEF Before
<1>2. ASSUME NEW ok \in BOOLEAN, TypeCode(ok) PROVE LoginInv'
  <2>1. login = "prompt" /\ UNCHANGED <<bot, known, export, logins>>
        /\ bot = "no"
    BY <1>2, TypedAtPrompt DEF TypeCode
  <2>2. dialogue' = Nobody /\ login' = "signing in"
    BY <1>2 DEF TypeCode
  <2> QED
    BY <1>0, <2>1, <2>2, BeforeKeeps DEF Before
<1>3. ASSUME NEW ok \in BOOLEAN, TypeHash(ok) PROVE LoginInv'
  <2>1. login = "prompt" /\ UNCHANGED <<bot, known, export, logins>>
    BY <1>3, TypedAtPrompt DEF TypeHash
  <2>2. dialogue' = Nobody /\ login' = "bot"
    BY <1>3 DEF TypeHash
  <2> QED
    BY <1>0, <2>1, <2>2, BeforeKeeps DEF Before
<1>4. ASSUME NEW entry \in {"names", "unclear", "n"}, TypeRegistration(entry)
      PROVE  LoginInv'
  <2>1. login = "prompt" /\ UNCHANGED <<bot, known, export, logins>>
        /\ bot = "no"
    BY <1>4, TypedAtPrompt DEF TypeRegistration
  <2>2. \/ \E what : Prompt(what)
        \/ login' = "keys" /\ dialogue' = Nobody
    BY <1>4, <2>1 DEF TypeRegistration, SignIn
  <2>3. \/ login' = "prompt" /\ dialogue'.who = 0
        \/ login' = "keys" /\ dialogue' = Nobody
    BY <2>2 DEF Prompt, Ask
  <2> QED
    BY <1>0, <2>1, <2>3, BeforeKeeps DEF Before
<1> QED
  BY <1>1, <1>2, <1>3, <1>4 DEF LoginTyped

LEMMA CodeSentKeeps ==
  ASSUME LoginInv, NEW registered \in BOOLEAN, CodeSent(registered)
  PROVE  LoginInv'
<1>1. login = "code is sent" /\ UNCHANGED <<bot, known, export, logins>>
      /\ bot = "no"
  BY DEF LoginInv, CodeSent, accounts
<1>2. login' = "prompt" /\ dialogue'.who = 0
  BY DEF CodeSent, Prompt, Ask
<1> QED
  BY <1>1, <1>2, BeforeKeeps DEF Before

\* The account is on every DC, and nothing is left of the exports.
LEMMA LoggedInKeeps ==
  ASSUME LoginInv, login \notin After, NEW done, Unsigned(done) = {},
         LoggedIn(done), signed' = done,
         \A d \in Dcs \cup {Late} : export'[d] = "none",
         export' = [d \in Dcs \cup {Late} |-> export'[d]],
         UNCHANGED <<bot, known, dialogue>>, login # "prompt"
  PROVE  LoginInv'
<1>1. logins = 0 /\ logins' = logins + 1 /\ login' \in {"failed", "difference"}
  BY DEF LoginInv, LoggedIn
<1>2. logins' = 1 /\ login' \in After
  BY <1>1 DEF After
<1>3. Dcs \subseteq signed'
  BY DEF LoginInv, Unsigned
<1> QED
  BY <1>1, <1>2, <1>3 DEF LoginInv, Before, After

LEMMA SignedInKeeps ==
  ASSUME LoginInv, SignedIn
  PROVE  LoginInv'
<1>1. /\ login \in {"signing in", "bot"} /\ UNCHANGED <<bot, known>>
      /\ \A d \in Dcs \cup {Late} : export[d] = "none"
      /\ export = [d \in Dcs \cup {Late} |-> export[d]]
      /\ logins = 0
  BY DEF SignedIn, LoginInv, Before, After
<1>2. CASE /\ signed' = signed \cup {home}
           /\ ExportAll(signed') /\ UNCHANGED dialogue
  <2>1. CASE Unsigned(signed') = {}
    BY <1>1, <1>2, <2>1, LoggedInKeeps DEF ExportAll, After
  <2>2. CASE Unsigned(signed') # {}
    <3>1. /\ login' = "exporting" /\ logins' = 0
          /\ export' = [d \in DOMAIN export |->
                          IF d \in Unsigned(signed') THEN "export"
                          ELSE export[d]]
      BY <1>1, <1>2, <2>2 DEF ExportAll
    <3>2. /\ export' = [d \in Dcs \cup {Late} |-> export'[d]]
          /\ \A d \in Dcs \cup {Late} :
               export'[d] # "none" => d \in Unsigned(signed')
      <4>1. DOMAIN export = Dcs \cup {Late}
        BY <1>1
      <4> QED
        BY <1>1, <3>1, <4>1
    <3>3. \A d \in Dcs \cup {Late} :
            export'[d] # "none" => d \in known' \ signed'
      BY <1>1, <3>2 DEF Unsigned
    <3> QED
      BY <1>1, <1>2, <3>1, <3>2, <3>3 DEF LoginInv, Before, After
  <2> QED
    BY <2>1, <2>2
<1>3. CASE /\ WrongWords(IF bot = "no" THEN "code" ELSE "bot hash")
           /\ UNCHANGED <<signed, export, logins>>
  <2>1. login' = "prompt" /\ dialogue'.who = 0
        /\ dialogue'.what = IF bot = "no" THEN "code" ELSE "bot hash"
    BY <1>3 DEF WrongWords, Prompt, Ask
  <2> QED
    BY <1>1, <1>3, <2>1, BeforeKeeps DEF Before
<1> QED
  BY <1>2, <1>3 DEF SignedIn

LEMMA ExportedKeeps ==
  ASSUME LoginInv, NEW d \in Dcs \cup {Late}, Exported(d)
  PROVE  LoginInv'
<1>1. /\ login = "exporting" /\ login' \in {"exporting", "aborted"}
      /\ export[d] = "export"
      /\ export' = [export EXCEPT ![d] = "import"]
      /\ UNCHANGED <<bot, known, signed, dialogue, logins>>
  BY DEF Exported
<1>2. /\ \A e \in Dcs \cup {Late} : export'[e] # "none" => export[e] # "none"
      /\ export' = [e \in Dcs \cup {Late} |-> export'[e]]
  BY <1>1 DEF LoginInv
<1> QED
  BY <1>1, <1>2 DEF LoginInv, Before, After

LEMMA ImportedKeeps ==
  ASSUME LoginInv, NEW d \in Dcs \cup {Late}, Imported(d)
  PROVE  LoginInv'
<1>1. /\ login = "exporting" /\ signed' = signed \cup {d}
      /\ export' = [export EXCEPT ![d] = "none"]
      /\ UNCHANGED <<bot, known, dialogue>>
  BY DEF Imported
<1>2. /\ \A e \in Dcs \cup {Late} :
           export'[e] # "none" => e \in known \ signed'
      /\ export' = [e \in Dcs \cup {Late} |-> export'[e]]
  BY <1>1 DEF LoginInv
<1>3. CASE AllSigned(signed')
  <2>1. Unsigned(signed') = {} /\ LoggedIn(signed')
    BY <1>3 DEF AllSigned, Imported
  <2>2. \A e \in Dcs \cup {Late} : export'[e] = "none"
    BY <1>2, <2>1 DEF Unsigned
  <2> QED
    BY <1>1, <1>2, <2>1, <2>2, LoggedInKeeps DEF After
<1>4. CASE ~AllSigned(signed')
  <2>1. login' = login /\ logins' = logins
    BY <1>4 DEF Imported
  <2> QED
    BY <1>1, <1>2, <2>1 DEF LoginInv, Before, After
<1> QED
  BY <1>3, <1>4

LEMMA AfterKeeps ==
  ASSUME LoginInv,
         \/ login \in After /\ login' \in After
         \/ login = "exporting" /\ login' = "aborted",
         UNCHANGED <<bot, known, signed, export, dialogue, logins>>
  PROVE  LoginInv'
BY DEF LoginInv, Before, After

LEMMA LoginInductive ==
  LoginInv /\ [LoginNext \/ BesideLogin]_loginVars => LoginInv'
<1> SUFFICES ASSUME LoginInv, [LoginNext \/ BesideLogin]_loginVars
             PROVE  LoginInv'
  OBVIOUS
<1>1. CASE Learn
  BY <1>1, SameStageKeeps DEF Learn
<1>2. CASE CheckAuthorized
  BY <1>2, CheckAuthorizedKeeps
<1>3. ASSUME NEW d \in Dcs \cup {Late}, Authorize(d) PROVE LoginInv'
  BY <1>3, SameStageKeeps DEF Authorize
<1>4. ASSUME NEW d \in Dcs \cup {Late}, Migrate(d) PROVE LoginInv'
  BY <1>4, SameStageKeeps DEF Migrate
<1>5. ASSUME NEW d \in Dcs \cup {Late}, ExportRefused(d) PROVE LoginInv'
  BY <1>5, AfterKeeps DEF ExportRefused, accounts
<1>6. CASE LoginTyped
  BY <1>6, LoginTypedKeeps
<1>7. ASSUME NEW ok \in BOOLEAN, Difference(ok) PROVE LoginInv'
  BY <1>7, AfterKeeps DEF Difference, accounts, After
<1>8. CASE DialogsListed
  BY <1>8, AfterKeeps DEF DialogsListed, accounts, After
<1>9. CASE Push
  BY <1>9, SameStageKeeps DEF Push, accounts
<1>10. CASE LoginAnswered
  BY <1>7, <1>8, <1>10, CodeSentKeeps, SignedInKeeps, ExportedKeeps,
     ImportedKeeps DEF LoginAnswered
<1>11. CASE UNCHANGED loginVars
  BY <1>11, SameStageKeeps DEF loginVars, accounts
<1> QED
  BY <1>1, <1>2, <1>3, <1>4, <1>5, <1>6, <1>7, <1>9, <1>10, <1>11, OthersKeep
     DEF LoginNext

\* LogsInOnce, of the login with others beside it.
LEMMA LoginAloneOnce ==
  LoginInit /\ [][LoginNext \/ BesideLogin]_loginVars => []LogsInOnce
<1>1. LoginInv => LogsInOnce
  <2> SUFFICES ASSUME LoginInv PROVE LogsInOnce
    OBVIOUS
  <2>1. DOMAIN export = Dcs \cup {Late}
    BY DEF LoginInv
  <2>2. login # "unwritten"
    BY DEF LoginInv, Before, After
  <2>3. /\ logins = (IF login \in After THEN 1 ELSE 0)
        /\ login \in After => Dcs \subseteq signed
    BY DEF LoginInv
  <2>4. login \in After => \A d \in DOMAIN export : export[d] = "none"
    BY <2>1 DEF LoginInv
  <2>5. logins = 1 => login \in After
    BY <2>3
  <2> QED
    BY <2>2, <2>3, <2>4, <2>5 DEF LogsInOnce, After
<1> QED
  BY <1>1, LoginInitially, LoginInductive, PTL
-----------------------------------------------------------------------------
(* The console.                                                            *)

\* The commands of a connection that are not answered.
CommandsOf(c) == {i \in Ops : ops[i] # NoOp /\ ops[i].by = c}

Links == {"none", "open", "deaf", "closed", "freed"}
Flows == {"plain", "password", "phone", "doomed"}
Stages == {"asked", "words", "set", "lost"}
OpRecord ==
  {NoOp} \cup [by : {Terminal} \cup Conns, flow : Flows, at : Stages]

\* The count of a connection is what refers to it; it is there as long.
Balanced(c, count, owed, keeps, state, gets) ==
  /\ count = owed + keeps + (IF state \in {"open", "deaf"} THEN 1 ELSE 0)
             + (IF gets = c THEN 1 ELSE 0)
  /\ state \in {"none", "freed"} <=> count = 0

\* The inductive invariant: RefsAreHeld, and what the variables are.
RefsInv ==
  /\ link \in [Conns -> Links]
  /\ refcnt \in [Conns -> Nat] /\ kept \in [Conns -> Nat]
  /\ notify_ev \in {Terminal} \cup Conns
  /\ ops \in [Ops -> OpRecord]
  /\ \A c \in Conns :
       Balanced(c, refcnt[c], Cardinality(CommandsOf(c)), kept[c], link[c],
                notify_ev)

\* Numbers of commands are finite.
LEMMA CommandsFinite ==
  ASSUME NEW c
  PROVE  IsFiniteSet(CommandsOf(c)) /\ Cardinality(CommandsOf(c)) \in Nat
<1>1. CommandsOf(c) \in SUBSET Ops /\ IsFiniteSet(Ops)
  BY ConsoleAssumption DEF CommandsOf
<1> QED BY <1>1, FS_Subset, FS_CardinalityType

LEMMA CommandsFiniteNext ==
  ASSUME NEW c
  PROVE  IsFiniteSet(CommandsOf(c)') /\ Cardinality(CommandsOf(c)') \in Nat
<1>1. CommandsOf(c)' \in SUBSET Ops /\ IsFiniteSet(Ops)
  BY ConsoleAssumption DEF CommandsOf
<1> QED BY <1>1, FS_Subset, FS_CardinalityType

\* Two or three numbers are as many as they are.
LEMMA Few ==
  ASSUME NEW a, NEW b, NEW c, a # b, a # c, b # c
  PROVE  /\ IsFiniteSet({a, b}) /\ Cardinality({a, b}) = 2
         /\ IsFiniteSet({a, b, c}) /\ Cardinality({a, b, c}) = 3
<1>1. IsFiniteSet({a}) /\ Cardinality({a}) = 1
  BY FS_Singleton
<1>2. {a, b} = {a} \cup {b} /\ {a, b, c} = {a, b} \cup {c}
  OBVIOUS
<1>3. IsFiniteSet({a, b}) /\ Cardinality({a, b}) = 2
  BY <1>1, <1>2, FS_AddElement
<1>4. IsFiniteSet({a, b, c}) /\ Cardinality({a, b, c}) = 3
  BY <1>2, <1>3, FS_AddElement
<1> QED BY <1>3, <1>4

\* The first n of the free places are n places.
LEMMA TakenCount ==
  ASSUME NEW n \in 0 .. 2, Cardinality(Free) >= n
  PROVE  /\ Taken(n) \subseteq Free /\ Free \subseteq Ops
         /\ IsFiniteSet(Taken(n)) /\ Cardinality(Taken(n)) = n
<1> DEFINE Upto(i) == {j \in Free : j <= i}
<1>1. Free \subseteq Ops /\ Free \subseteq Nat /\ IsFiniteSet(Free)
  <2>1. Free \subseteq Ops /\ IsFiniteSet(Ops) /\ Ops \subseteq Nat
    BY ConsoleAssumption DEF Free, Places
  <2> QED BY <2>1, FS_Subset
<1>2. \A i \in Free : /\ Upto(i) \in SUBSET Free /\ IsFiniteSet(Upto(i))
                      /\ Cardinality(Upto(i)) \in Nat
  BY <1>1, FS_Subset, FS_CardinalityType
<1>3. Taken(n) = {i \in Free : Cardinality(Upto(i)) <= n}
  BY DEF Taken
<1>4. \A i \in Free : \A T \in SUBSET Upto(i) :
        IsFiniteSet(T) /\ Cardinality(T) <= Cardinality(Upto(i))
  BY <1>2, FS_Subset
<1>5. \A i \in Free : {i} \in SUBSET Upto(i)
  BY <1>1
<1>6. CASE n = 0
  <2>1. \A i \in Free : Cardinality(Upto(i)) >= 1
    <3> HIDE DEF Upto
    <3> SUFFICES ASSUME NEW i \in Free PROVE Cardinality(Upto(i)) >= 1
      OBVIOUS
    <3>1. Cardinality({i}) <= Cardinality(Upto(i))
      BY <1>4, <1>5
    <3>2. Cardinality({i}) = 1
      BY FS_Singleton
    <3> QED BY <1>2, <3>1, <3>2
  <2>2. Taken(n) = {}
    <3> HIDE DEF Upto
    <3>1. \A i \in Free : ~(Cardinality(Upto(i)) <= n)
      BY <1>2, <1>6, <2>1
    <3> QED BY <1>3, <3>1
  <2> QED BY <1>1, <1>6, <2>2, FS_EmptySet
<1>7. CASE n \in {1, 2}
  <2>1. Free # {}
    <3>1. Cardinality(Free) \in Nat
      BY <1>1, FS_CardinalityType
    <3>2. Cardinality(Free) # 0
      BY <1>7, <3>1
    <3> QED BY <1>1, <3>2, FS_EmptySet
  <2>2. PICK p \in Free : \A j \in Free : p <= j
    BY <1>1, <2>1, LeastNumber
  <2>3. Upto(p) = {p}
    <3>1. \A j \in Free : j <= p <=> j = p
      BY <1>1, <2>2
    <3> QED BY <3>1
  <2>4. \A i \in Free \ {p} : {p, i} \in SUBSET Upto(i)
    BY <1>1, <2>2
  <2>5. Cardinality(Upto(p)) = 1
    BY <2>3, FS_Singleton
  <2>6. CASE n = 1
    <3>1. ASSUME NEW i \in Free \ {p} PROVE ~(Cardinality(Upto(i)) <= 1)
      <4>1. i # p /\ Cardinality({p, i}) = 2
        <5>1. IsFiniteSet({p}) /\ Cardinality({p}) = 1 /\ i \notin {p}
          BY FS_Singleton
        <5>2. {p, i} = {p} \cup {i}
          OBVIOUS
        <5> QED BY <5>1, <5>2, FS_AddElement
      <4>2. Cardinality({p, i}) <= Cardinality(Upto(i))
        BY <1>4, <2>4
      <4> HIDE DEF Upto
      <4> QED BY <1>2, <4>1, <4>2
    <3>2. Taken(n) = {p}
      <4> HIDE DEF Upto
      <4> QED BY <1>3, <2>2, <2>5, <2>6, <3>1
    <3> QED BY <1>1, <2>2, <2>6, <3>2, FS_Singleton
  <2>7. CASE n = 2
    <3> DEFINE Rest == Free \ {p}
    <3>1. IsFiniteSet(Rest) /\ Cardinality(Rest) = Cardinality(Free) - 1
          /\ Cardinality(Free) \in Nat
      BY <1>1, <2>2, FS_RemoveElement, FS_CardinalityType
    <3>2. Rest # {} /\ Rest \subseteq Nat
      <4>1. Cardinality(Rest) # 0
        <5> HIDE DEF Rest
        <5> QED BY <2>7, <3>1
      <4> QED BY <1>1, <4>1, FS_EmptySet
    <3>3. PICK q \in Rest : \A j \in Rest : q <= j
      <4> HIDE DEF Rest
      <4> QED BY <3>2, LeastNumber
    <3>4. Upto(q) = {p, q} /\ p # q
      <4>1. \A j \in Free : j <= q => j \in {p, q}
        BY <1>1, <3>3
      <4>2. p <= q /\ q <= q
        BY <1>1, <2>2, <3>3
      <4> QED BY <2>2, <3>3, <4>1, <4>2
    <3>5. Cardinality({p, q}) = 2 /\ IsFiniteSet({p, q})
      <4>1. IsFiniteSet({p}) /\ Cardinality({p}) = 1 /\ q \notin {p}
        BY <3>4, FS_Singleton
      <4>2. {p, q} = {p} \cup {q}
        OBVIOUS
      <4> QED BY <4>1, <4>2, FS_AddElement
    <3>6. ASSUME NEW i \in Free, i # p, i # q
          PROVE  ~(Cardinality(Upto(i)) <= 2)
      <4>1. {p, q, i} \in SUBSET Upto(i)
        <5>1. p <= i /\ q <= i /\ i <= i
          BY <1>1, <2>2, <3>3, <3>6
        <5> QED BY <2>2, <3>3, <5>1
      <4>2. Cardinality({p, q, i}) = 3
        BY <3>4, <3>6, Few
      <4>3. Cardinality({p, q, i}) <= Cardinality(Upto(i))
        BY <1>4, <4>1
      <4> HIDE DEF Upto
      <4> QED BY <1>2, <4>2, <4>3
    <3>7. Taken(n) = {p, q}
      <4> HIDE DEF Upto
      <4>1. q \in Free /\ Cardinality(Upto(q)) = 2
        BY <3>3, <3>4, <3>5
      <4> QED BY <1>3, <2>2, <2>5, <2>7, <3>6, <4>1
    <3> QED BY <1>1, <2>2, <2>7, <3>3, <3>5, <3>7
  <2> QED BY <1>7, <2>6, <2>7
<1> QED BY <1>6, <1>7


\* The commands of all connections stay, in another step.
SameCommands == \A c \in Conns : CommandsOf(c)' = CommandsOf(c)

\* A step of a command, or of something that asks for its words.
LEMMA OpsChange ==
  ASSUME RefsInv, ops' \in [Ops -> OpRecord],
         \A i \in Ops :
           \/ ops'[i] = ops[i]
           \/ ops'[i] # NoOp /\ ops[i] # NoOp /\ ops'[i].by = ops[i].by
           \/ ops[i] = NoOp /\ ops'[i].by = Terminal
  PROVE  SameCommands
<1> SUFFICES ASSUME NEW c \in Conns PROVE CommandsOf(c)' = CommandsOf(c)
  BY DEF SameCommands
<1>1. c # Terminal
  BY ConsoleAssumption
<1>2. \A i \in Ops : (ops'[i] # NoOp /\ ops'[i].by = c)
                       <=> (ops[i] # NoOp /\ ops[i].by = c)
  BY <1>1
<1> QED BY <1>2 DEF CommandsOf

\* What is left to show of a step that leaves all commands.
LEMMA CommandsStay ==
  ASSUME RefsInv, SameCommands,
         link' \in [Conns -> Links],
         refcnt' \in [Conns -> Nat], kept' \in [Conns -> Nat],
         notify_ev' \in {Terminal} \cup Conns,
         ops' \in [Ops -> OpRecord],
         \A c \in Conns : \A k \in Nat :
           Balanced(c, refcnt[c], k, kept[c], link[c], notify_ev) =>
             Balanced(c, refcnt'[c], k, kept'[c], link'[c], notify_ev')
  PROVE  RefsInv'
<1> SUFFICES ASSUME NEW c \in Conns
             PROVE  Balanced(c, refcnt'[c], Cardinality(CommandsOf(c)'),
                             kept'[c], link'[c], notify_ev')
  BY DEF RefsInv
<1>1. Cardinality(CommandsOf(c)) \in Nat
  BY CommandsFinite
<1>2. CommandsOf(c)' = CommandsOf(c)
  BY DEF SameCommands
<1>3. Balanced(c, refcnt[c], Cardinality(CommandsOf(c)), kept[c], link[c],
               notify_ev)
  BY DEF RefsInv
<1>4. Balanced(c, refcnt'[c], Cardinality(CommandsOf(c)), kept'[c], link'[c],
               notify_ev')
  BY <1>1, <1>3
<1> QED BY <1>2, <1>4

\* A process that is not there refers to nothing.
LEMMA EndRefs ==
  ASSUME RefsInv, NEW how, EndProgram(how)
  PROVE  RefsInv'
<1>1. NoOp \in OpRecord
  BY DEF NoOp, OpRecord, Flows, Stages
<1>2. ASSUME NEW c \in Conns
      PROVE  Balanced(c, refcnt'[c], Cardinality(CommandsOf(c)'), kept'[c],
                      link'[c], notify_ev')
  <2>1. CommandsOf(c)' = {}
    BY DEF CommandsOf, EndProgram
  <2>2. Cardinality(CommandsOf(c)') = 0
    BY <2>1, FS_EmptySet
  <2>3. c # Terminal
    BY ConsoleAssumption
  <2> QED BY <2>2, <2>3 DEF EndProgram, Balanced
<1> QED BY <1>1, <1>2 DEF EndProgram, RefsInv, Links

\* A step that changes nothing that counts.
LEMMA NothingRefs ==
  ASSUME RefsInv, UNCHANGED <<peers, ops>>
  PROVE  RefsInv'
BY DEF RefsInv, peers, CommandsOf

\* Accept, Overflow and Close change one connection.
LEMMA ConnectionRefs ==
  ASSUME RefsInv, NEW c \in Conns, Accept(c) \/ Overflow(c) \/ Close(c)
  PROVE  RefsInv'
<1>1. SameCommands /\ kept' = kept /\ notify_ev' = notify_ev /\ ops' = ops
  BY DEF SameCommands, CommandsOf, Accept, Overflow, Close
<1>2. \A d \in Conns : link[d] \in Links /\ refcnt[d] \in Nat
                         /\ kept[d] \in Nat
  BY DEF RefsInv
<1>3. Cardinality(CommandsOf(c)) \in Nat
  BY CommandsFinite
<1>4. Balanced(c, refcnt[c], Cardinality(CommandsOf(c)), kept[c], link[c],
               notify_ev)
  BY DEF RefsInv
<1>5. link' \in [Conns -> Links] /\ refcnt' \in [Conns -> Nat]
  <2>1. link[c] \in {"open", "deaf"} => refcnt[c] - 1 \in Nat
    BY <1>2, <1>3, <1>4 DEF Balanced
  <2> QED BY <2>1 DEF Accept, Overflow, Close, RefsInv, Links
<1>6. ASSUME NEW d \in Conns, NEW k \in Nat,
             Balanced(d, refcnt[d], k, kept[d], link[d], notify_ev)
      PROVE  Balanced(d, refcnt'[d], k, kept'[d], link'[d], notify_ev')
  <2>1. CASE d # c
    <3>1. refcnt'[d] = refcnt[d] /\ link'[d] = link[d]
      BY <2>1 DEF Accept, Overflow, Close, RefsInv
    <3> QED BY <1>1, <1>6, <3>1
  <2>2. CASE d = c
    <3>1. CASE Accept(c)
      <4>1. /\ link[c] = "none" /\ refcnt'[c] = 1 /\ link'[c] = "open"
        BY <3>1 DEF Accept, RefsInv
      <4> QED BY <1>1, <1>2, <1>6, <2>2, <4>1 DEF Balanced
    <3>2. CASE Overflow(c)
      <4>1. /\ link[c] = "open" /\ refcnt' = refcnt /\ link'[c] = "deaf"
        BY <3>2 DEF Overflow, RefsInv
      <4> QED BY <1>1, <1>2, <1>6, <2>2, <4>1 DEF Balanced
    <3>3. CASE Close(c)
      <4>1. /\ link[c] \in {"open", "deaf"} /\ refcnt'[c] = refcnt[c] - 1
            /\ link'[c] = IF refcnt[c] = 1 THEN "freed" ELSE "closed"
        BY <3>3 DEF Close, RefsInv
      <4> QED BY <1>1, <1>2, <1>6, <2>2, <4>1 DEF Balanced
    <3> QED BY <3>1, <3>2, <3>3
  <2> QED BY <2>1, <2>2
<1> QED BY <1>1, <1>5, <1>6, CommandsStay DEF RefsInv


\* Holding leaves the counts numbers.
LEMMA HoldTyped ==
  ASSUME RefsInv, NEW c \in {Terminal} \cup Conns, NEW n \in 0 .. 2, Hold(c, n)
  PROVE  refcnt' \in [Conns -> Nat]
<1>1. refcnt \in [Conns -> Nat] /\ \A d \in Conns : refcnt[d] + n \in Nat
  BY DEF RefsInv
<1> QED BY <1>1 DEF Hold

\* A command that waits n times over is counted as often as it holds.
LEMMA WaitRefs ==
  ASSUME RefsInv, NEW c \in Speakers, NEW flow \in Flows,
         NEW n \in 0 .. 2, Wait(c, flow, n)
  PROVE  RefsInv'
<1>1. CASE NoKey(n)
  BY <1>1, EndRefs DEF NoKey
<1>2. CASE ~NoKey(n)
  <2>1. /\ Cardinality(Free) >= n
        /\ ops' = [i \in Ops |-> IF i \in Taken(n) THEN Op(c, flow)
                               ELSE ops[i]]
        /\ Hold(c, n) /\ UNCHANGED <<link, kept, notify_ev>>
    BY <1>2 DEF Wait
  <2>2. /\ Taken(n) \subseteq Free /\ Free \subseteq Ops
        /\ IsFiniteSet(Taken(n)) /\ Cardinality(Taken(n)) = n
    BY <2>1, TakenCount
  <2>3. c \in {Terminal} \cup Conns /\ (c # Terminal => link[c] = "open")
    BY DEF Speakers
  <2>4. Op(c, flow) \in OpRecord /\ Op(c, flow) # NoOp /\ Op(c, flow).by = c
    BY <2>3 DEF Op, OpRecord, NoOp, Flows, Stages
  <2>5. ops' \in [Ops -> OpRecord]
    BY <2>1, <2>4 DEF RefsInv
  <2>6. \A i \in Taken(n) : i \in Ops /\ ops[i] = NoOp /\ ops'[i] = Op(c, flow)
    BY <2>1, <2>2 DEF Free
  <2>7. \A i \in Ops \ Taken(n) : ops'[i] = ops[i]
    BY <2>1
  <2>8. refcnt' \in [Conns -> Nat]
    BY <2>1, <2>3, HoldTyped
  <2>9. ASSUME NEW d \in Conns
        PROVE  Balanced(d, refcnt'[d], Cardinality(CommandsOf(d)'), kept'[d],
                        link'[d], notify_ev')
    <3>1. Balanced(d, refcnt[d], Cardinality(CommandsOf(d)), kept[d], link[d],
                   notify_ev)
      BY DEF RefsInv
    <3>2. d # Terminal
      BY ConsoleAssumption
    <3>3. refcnt[d] \in Nat /\ kept[d] \in Nat
      BY DEF RefsInv
    <3>4. CASE d # c
      <4>1. CommandsOf(d)' = CommandsOf(d)
        BY <2>4, <2>6, <2>7, <3>4 DEF CommandsOf
      <4>2. refcnt'[d] = refcnt[d]
        BY <2>1, <3>4 DEF Hold, RefsInv
      <4> QED BY <2>1, <3>1, <4>1, <4>2
    <3>5. CASE d = c
      <4>1. CommandsOf(c)' = CommandsOf(c) \cup Taken(n)
        BY <2>4, <2>6, <2>7 DEF CommandsOf
      <4>2. CommandsOf(c) \cap Taken(n) = {}
        BY <2>6 DEF CommandsOf
      <4>3. Cardinality(CommandsOf(c)') = Cardinality(CommandsOf(c)) + n
        <5>1. IsFiniteSet(CommandsOf(c)) /\ Cardinality(CommandsOf(c)) \in Nat
          BY CommandsFinite
        <5>2. Cardinality(CommandsOf(c) \cup Taken(n))
                = Cardinality(CommandsOf(c)) + Cardinality(Taken(n))
                    - Cardinality(CommandsOf(c) \cap Taken(n))
          BY <2>2, <5>1, FS_Union
        <5>3. Cardinality(CommandsOf(c) \cap Taken(n)) = 0
          BY <4>2, FS_EmptySet
        <5> QED BY <2>2, <4>1, <5>1, <5>2, <5>3
      <4>4. refcnt'[c] = refcnt[c] + n
        BY <2>1, <3>2, <3>5 DEF Hold, RefsInv
      <4>5. link[c] = "open"
        BY <2>3, <3>2, <3>5
      <4>6. Cardinality(CommandsOf(c)) \in Nat
        BY CommandsFinite
      <4> QED BY <2>1, <3>1, <3>3, <3>5, <4>3, <4>4, <4>5, <4>6 DEF Balanced
    <3> QED BY <3>4, <3>5
  <2> QED BY <2>1, <2>5, <2>8, <2>9 DEF RefsInv
<1> QED BY <1>1, <1>2

\* One that is never answered is held for ever, and counted as kept.
LEMMA KeepRefs ==
  ASSUME RefsInv, NEW c \in Speakers, NEW n \in 0 .. 2, Keep(c, n)
  PROVE  RefsInv'
<1>1. CASE NoKey(n)
  BY <1>1, EndRefs DEF NoKey
<1>2. CASE ~NoKey(n)
  <2>1. /\ Hold(c, n) /\ UNCHANGED <<link, notify_ev, ops>>
        /\ kept' = IF c = Terminal THEN kept
                   ELSE [kept EXCEPT ![c] = @ + n]
    BY <1>2 DEF Keep
  <2>2. c \in {Terminal} \cup Conns /\ (c # Terminal => link[c] = "open")
    BY DEF Speakers
  <2>3. refcnt' \in [Conns -> Nat] /\ kept' \in [Conns -> Nat]
    <3>1. kept \in [Conns -> Nat] /\ \A d \in Conns : kept[d] + n \in Nat
      BY DEF RefsInv
    <3> QED BY <2>1, <2>2, <3>1, HoldTyped
  <2>4. SameCommands
    BY <2>1 DEF SameCommands, CommandsOf
  <2>5. ASSUME NEW d \in Conns, NEW k \in Nat,
               Balanced(d, refcnt[d], k, kept[d], link[d], notify_ev)
        PROVE  Balanced(d, refcnt'[d], k, kept'[d], link'[d], notify_ev')
    <3>1. d # Terminal /\ refcnt[d] \in Nat /\ kept[d] \in Nat
      BY ConsoleAssumption DEF RefsInv
    <3>2. CASE d # c
      <4>1. refcnt'[d] = refcnt[d] /\ kept'[d] = kept[d]
        BY <2>1, <3>2 DEF Hold, RefsInv
      <4> QED BY <2>1, <2>5, <4>1
    <3>3. CASE d = c
      <4>1. /\ refcnt'[d] = refcnt[d] + n /\ kept'[d] = kept[d] + n
            /\ link[d] = "open" /\ link'[d] = "open"
        BY <2>1, <2>2, <3>1, <3>3 DEF Hold, RefsInv
      <4> QED BY <2>1, <2>5, <3>1, <4>1 DEF Balanced
    <3> QED BY <3>2, <3>3
  <2> QED BY <2>1, <2>3, <2>4, <2>5, CommandsStay DEF RefsInv
<1> QED BY <1>1, <1>2

\* The updates go to another connection, which may be the same.
LEMMA MainSessionRefs ==
  ASSUME RefsInv, NEW c \in Speakers, MainSession(c)
  PROVE  RefsInv'
<1>1. c \in {Terminal} \cup Conns /\ (c # Terminal => link[c] = "open")
  BY DEF Speakers
<1>2. /\ notify_ev' = c /\ kept' = kept /\ ops' = ops
      /\ \A d \in Conns :
           /\ refcnt'[d] = refcnt[d] + (IF d = c THEN 1 ELSE 0)
                              - (IF d = notify_ev THEN 1 ELSE 0)
           /\ link'[d] = IF link[d] = "closed" /\ refcnt'[d] = 0
                         THEN "freed" ELSE link[d]
      /\ refcnt' = [d \in Conns |-> refcnt'[d]]
      /\ link' = [d \in Conns |-> link'[d]]
  BY DEF MainSession
<1>3. SameCommands
  BY <1>2 DEF SameCommands, CommandsOf
<1>4. \A d \in Conns : refcnt[d] \in Nat /\ kept[d] \in Nat
                         /\ link[d] \in Links
  BY DEF RefsInv
<1>5. ASSUME NEW d \in Conns, NEW k \in Nat,
             Balanced(d, refcnt[d], k, kept[d], link[d], notify_ev)
      PROVE  /\ refcnt'[d] \in Nat /\ link'[d] \in Links
             /\ Balanced(d, refcnt'[d], k, kept'[d], link'[d], notify_ev')
  <2>1. d # Terminal
    BY ConsoleAssumption
  <2>2. refcnt'[d] \in Nat
    BY <1>2, <1>4, <1>5 DEF Balanced
  <2>3. link'[d] \in Links
    BY <1>2, <1>4 DEF Links
  <2>4. refcnt'[d] = k + kept[d]
          + (IF link[d] \in {"open", "deaf"} THEN 1 ELSE 0)
          + (IF c = d THEN 1 ELSE 0)
    <3> DEFINE o == IF link[d] \in {"open", "deaf"} THEN 1 ELSE 0
               e == IF notify_ev = d THEN 1 ELSE 0
               f == IF c = d THEN 1 ELSE 0
    <3>1. refcnt[d] = k + kept[d] + o + e
      BY <1>5 DEF Balanced
    <3>2. refcnt'[d] = refcnt[d] + f - e
      BY <1>2
    <3>3. o \in Nat /\ e \in Nat /\ f \in Nat
      OBVIOUS
    <3> HIDE DEF o, e, f
    <3>4. refcnt'[d] = k + kept[d] + o + f
      BY <1>4, <3>1, <3>2, <3>3
    <3> QED BY <3>4 DEF o, f
  <2>5. link'[d] \in {"open", "deaf"} <=> link[d] \in {"open", "deaf"}
    BY <1>2, <1>4 DEF Links
  <2>6. link'[d] \in {"none", "freed"} <=> refcnt'[d] = 0
    <3>1. CASE d = c
      <4>1. link[d] = "open"
        BY <1>1, <2>1, <3>1
      <4> QED BY <1>2, <1>4, <2>4, <4>1, <3>1
    <3>2. CASE d # c /\ link[d] \in {"open", "deaf"}
      BY <1>2, <1>4, <2>4, <3>2
    <3>3. CASE d # c /\ link[d] = "closed"
      BY <1>2, <3>3
    <3>4. CASE d # c /\ link[d] \in {"none", "freed"}
      <4>1. refcnt[d] = 0 /\ notify_ev # d
        BY <1>4, <1>5, <3>4 DEF Balanced
      <4> QED BY <1>2, <3>4, <4>1
    <3> QED BY <1>4, <3>1, <3>2, <3>3, <3>4 DEF Links
  <2> QED BY <1>2, <2>2, <2>3, <2>4, <2>5, <2>6 DEF Balanced
<1>6. refcnt' \in [Conns -> Nat] /\ link' \in [Conns -> Links]
  <2>1. \A d \in Conns : refcnt'[d] \in Nat /\ link'[d] \in Links
    BY <1>5, CommandsFinite DEF RefsInv
  <2> QED BY <1>2, <2>1
<1> QED BY <1>1, <1>2, <1>3, <1>5, <1>6, CommandsStay DEF RefsInv

\* A callback counts its connection down, and frees one that is closed and
\* has no other.
LEMMA CallRefs ==
  ASSUME RefsInv, NEW i \in Ops, ops[i] # NoOp, Call(i)
  PROVE  RefsInv'
<1>2. PICK c \in {Terminal} \cup Conns : c = ops[i].by
  BY DEF RefsInv, OpRecord
<1>1. /\ ops' = [ops EXCEPT ![i] = NoOp] /\ Drop(c)
      /\ UNCHANGED <<kept, notify_ev>>
  BY <1>2 DEF Call
<1>3. NoOp \in OpRecord
  BY DEF NoOp, OpRecord, Flows, Stages
<1>4. ops' \in [Ops -> OpRecord] /\ ops'[i] = NoOp
      /\ \A j \in Ops \ {i} : ops'[j] = ops[j]
  BY <1>1, <1>3 DEF RefsInv
<1>5. \A d \in Conns : refcnt[d] \in Nat /\ kept[d] \in Nat
                         /\ link[d] \in Links
  BY DEF RefsInv
<1>6. \A d \in Conns : d # c => CommandsOf(d)' = CommandsOf(d)
  BY <1>2, <1>4 DEF CommandsOf
<1>7. CommandsOf(c)' = CommandsOf(c) \ {i} /\ i \in CommandsOf(c)
  BY <1>2, <1>4 DEF CommandsOf
<1>8. Cardinality(CommandsOf(c)) \in Nat /\ Cardinality(CommandsOf(c)') \in Nat
      /\ Cardinality(CommandsOf(c)') = Cardinality(CommandsOf(c)) - 1
  BY <1>7, CommandsFinite, CommandsFiniteNext, FS_RemoveElement
<1>9. CASE c = Terminal
  <2>1. refcnt' = refcnt /\ link' = link
    BY <1>1, <1>9 DEF Drop
  <2>2. \A d \in Conns : d # c
    BY <1>9, ConsoleAssumption
  <2> QED BY <1>1, <1>4, <1>6, <2>1, <2>2 DEF RefsInv
<1>10. CASE c # Terminal
  <2>1. /\ refcnt' = [refcnt EXCEPT ![c] = @ - 1] /\ c \in Conns
        /\ link' = [link EXCEPT ![c] = IF refcnt[c] = 1 THEN "freed" ELSE @]
    BY <1>1, <1>2, <1>10 DEF Drop
  <2>2. /\ refcnt'[c] = refcnt[c] - 1
        /\ link'[c] = (IF refcnt[c] = 1 THEN "freed" ELSE link[c])
        /\ \A d \in Conns \ {c} : refcnt'[d] = refcnt[d] /\ link'[d] = link[d]
    BY <2>1 DEF RefsInv
  <2>3. Balanced(c, refcnt[c], Cardinality(CommandsOf(c)), kept[c], link[c],
                 notify_ev)
    BY <2>1 DEF RefsInv
  <2>4. refcnt'[c] \in Nat
        /\ Balanced(c, refcnt'[c], Cardinality(CommandsOf(c)'), kept[c],
                    link'[c], notify_ev)
    BY <1>5, <1>8, <2>1, <2>2, <2>3 DEF Balanced
  <2>5. refcnt' \in [Conns -> Nat] /\ link' \in [Conns -> Links]
    BY <2>1, <2>2, <2>4 DEF RefsInv, Links
  <2>6. ASSUME NEW d \in Conns
        PROVE  Balanced(d, refcnt'[d], Cardinality(CommandsOf(d)'), kept'[d],
                        link'[d], notify_ev')
    <3>1. CASE d = c
      BY <1>1, <2>4, <3>1
    <3>2. CASE d # c
      <4>1. refcnt'[d] = refcnt[d] /\ link'[d] = link[d]
            /\ CommandsOf(d)' = CommandsOf(d)
        BY <1>6, <2>2, <3>2
      <4> QED BY <1>1, <4>1 DEF RefsInv
    <3> QED BY <3>1, <3>2
  <2> QED BY <1>1, <1>4, <2>5, <2>6 DEF RefsInv
<1> QED BY <1>9, <1>10

\* Asking for words.
LEMMA AskForRefs ==
  ASSUME RefsInv, NEW i \in Ops, ops[i] # NoOp, AskFor(i)
  PROVE  RefsInv'
<1>1. \A j \in Ops : ops[j] \in OpRecord
  BY DEF RefsInv
<1>2. \A j \in Ops : ops[j] # NoOp => \A at \in Stages :
        /\ [ops[j] EXCEPT !.at = at] \in OpRecord
        /\ [ops[j] EXCEPT !.at = at] # NoOp
        /\ [ops[j] EXCEPT !.at = at].by = ops[j].by
  <2> SUFFICES ASSUME NEW j \in Ops, ops[j] # NoOp, NEW at \in Stages
               PROVE  /\ [ops[j] EXCEPT !.at = at] \in OpRecord
                      /\ [ops[j] EXCEPT !.at = at] # NoOp
                      /\ [ops[j] EXCEPT !.at = at].by = ops[j].by
    OBVIOUS
  <2>1. ops[j] \in [by : {Terminal} \cup Conns, flow : Flows, at : Stages]
    BY <1>1 DEF OpRecord
  <2>2. [ops[j] EXCEPT !.at = at].at = at /\ at # "none"
    BY <2>1 DEF Stages
  <2>3. [ops[j] EXCEPT !.at = at] # NoOp
    BY <2>2 DEF NoOp
  <2> QED BY <2>1, <2>3 DEF OpRecord
<1>3. \A j \in Ops : Asking(j) => ops[j] # NoOp
  BY DEF Asking, NoOp
<1>4. ops' \in [Ops -> OpRecord] /\
      \A j \in Ops :
        \/ ops'[j] = ops[j]
        \/ ops'[j] # NoOp /\ ops[j] # NoOp /\ ops'[j].by = ops[j].by
  BY <1>1, <1>2, <1>3 DEF AskFor, Stages, RefsInv
<1>5. SameCommands
  BY <1>4, OpsChange
<1> QED BY <1>4, <1>5, CommandsStay DEF AskFor, peers, RefsInv


\* The first command is done when its words are typed, or asks again.
LEMMA TypeForRefs ==
  ASSUME RefsInv, NEW i \in Ops, NEW entry \in {"same", "differ", "long"},
         ops[i] # NoOp, TypeFor(i, entry)
  PROVE  RefsInv'
<1>1. CASE entry = "same"
  <2>1. ops' = [ops EXCEPT ![i].at = "set"] /\ UNCHANGED peers
    BY <1>1 DEF TypeFor
  <2>2. ops[i] \in OpRecord
    BY DEF RefsInv
  <2>3. [ops[i] EXCEPT !.at = "set"] \in OpRecord
        /\ [ops[i] EXCEPT !.at = "set"].by = ops[i].by
        /\ [ops[i] EXCEPT !.at = "set"] # NoOp
    BY <2>2 DEF OpRecord, Stages, NoOp
  <2>4. ops' \in [Ops -> OpRecord] /\
        \A j \in Ops :
          \/ ops'[j] = ops[j]
          \/ ops'[j] # NoOp /\ ops[j] # NoOp /\ ops'[j].by = ops[j].by
    BY <2>1, <2>3 DEF RefsInv
  <2>5. SameCommands
    BY <2>4, OpsChange
  <2> QED BY <2>1, <2>4, <2>5, CommandsStay DEF peers, RefsInv
<1>2. CASE entry = "differ"
  BY <1>2, AskForRefs DEF TypeFor
<1>3. CASE entry = "long"
  BY <1>3, EndRefs DEF TypeFor
<1> QED BY <1>1, <1>2, <1>3

\* What is asked for has a name: a place without a command asks for nothing.
Wording == dialogue.what # "none"

\* The login asks for something, too.
LEMMA LoginWording ==
  ASSUME Wording, bot \in {"no", "asks", "given"}, LoginNext
  PROVE  Wording'
<1>1. ASSUME NEW what \in {"phone number", "code", "registration", "bot hash"},
             Prompt(what)
      PROVE  Wording'
  BY <1>1 DEF Prompt, Ask, Wording
<1>2. ASSUME SignIn PROVE Wording'
  BY <1>1, <1>2 DEF SignIn, Wording
<1>3. ASSUME dialogue' = Nobody PROVE Wording'
  BY <1>3 DEF Nobody, Wording
<1>4. ASSUME UNCHANGED dialogue PROVE Wording'
  BY <1>4 DEF Wording
<1>5. CASE CheckAuthorized
  BY <1>2, <1>5 DEF CheckAuthorized
<1>6. CASE LoginTyped
  <2>1. ASSUME NEW ok \in BOOLEAN,
               TypePhone(ok) \/ TypeCode(ok) \/ TypeHash(ok)
        PROVE  Wording'
    BY <1>3, <2>1 DEF TypePhone, TypeCode, TypeHash
  <2>2. ASSUME NEW entry \in {"names", "unclear", "n"}, TypeRegistration(entry)
        PROVE  Wording'
    BY <1>1, <1>2, <1>3, <2>2 DEF TypeRegistration
  <2> QED BY <1>6, <2>1, <2>2 DEF LoginTyped
<1>7. CASE LoginAnswered
  <2>1. ASSUME NEW registered \in BOOLEAN, CodeSent(registered)
        PROVE  Wording'
    BY <1>1, <2>1 DEF CodeSent
  <2>2. CASE SignedIn
    BY <1>1, <1>4, <2>2 DEF SignedIn, WrongWords
  <2>3. ASSUME NEW d \in Dcs \cup {Late}, Exported(d) \/ Imported(d)
        PROVE  Wording'
    BY <1>4, <2>3 DEF Exported, Imported
  <2>4. CASE Difference(TRUE) \/ DialogsListed
    BY <1>4, <2>4 DEF Difference, DialogsListed
  <2> QED BY <1>7, <2>1, <2>2, <2>3, <2>4 DEF LoginAnswered
<1>8. CASE Learn \/ Push \/ Difference(FALSE)
  BY <1>4, <1>8 DEF Learn, Push, Difference
<1>9. ASSUME NEW d \in Dcs \cup {Late},
             Authorize(d) \/ Migrate(d) \/ ExportRefused(d)
      PROVE  Wording'
  BY <1>4, <1>9 DEF Authorize, Migrate, ExportRefused
<1> QED BY <1>5, <1>6, <1>7, <1>8, <1>9 DEF LoginNext

\* A step of the login takes the dialogue from commands, or begins those of
\* the command line.
LEMMA LoginStepRefs ==
  ASSUME RefsInv, LoginStep(LoginNext)
  PROVE  RefsInv'
<1>1. ops' \in [Ops -> OpRecord] /\ UNCHANGED peers /\
      \A j \in Ops :
        \/ ops'[j] = ops[j]
        \/ ops'[j] # NoOp /\ ops[j] # NoOp /\ ops'[j].by = ops[j].by
        \/ ops[j] = NoOp /\ ops'[j].by = Terminal
  <2>1. CASE StartCommand
    <3>1. Op(Terminal, "plain") \in OpRecord
          /\ Op(Terminal, "plain").by = Terminal
      BY DEF Op, OpRecord, Flows, Stages
    <3>2. \A j \in Taken(1) : ops[j] = NoOp
      BY DEF Taken, Free
    <3> QED BY <2>1, <3>1, <3>2 DEF StartCommand, RefsInv, peers
  <2>2. CASE /\ ops' = [j \in Ops |-> IF dialogue' # Nobody /\ Asking(j)
                                      THEN [ops[j] EXCEPT !.at = "lost"]
                                      ELSE ops[j]]
             /\ UNCHANGED <<peers, modes, over>>
    <3>1. \A j \in Ops : Asking(j) =>
            /\ [ops[j] EXCEPT !.at = "lost"] \in OpRecord
            /\ [ops[j] EXCEPT !.at = "lost"] # NoOp /\ ops[j] # NoOp
            /\ [ops[j] EXCEPT !.at = "lost"].by = ops[j].by
      BY DEF Asking, RefsInv, OpRecord, Stages, NoOp
    <3>2. \A j \in Ops : ops[j] \in OpRecord
      BY DEF RefsInv
    <3> QED BY <2>2, <3>1, <3>2
  <2> QED BY <2>1, <2>2 DEF LoginStep
<1>2. SameCommands
  BY <1>1, OpsChange
<1> QED BY <1>1, <1>2, CommandsStay DEF peers, RefsInv

\* What a line does.
LEMMA LineRefs ==
  ASSUME RefsInv, NEW c \in Speakers, NEW how, NEW n \in 0 .. 2,
         Line(c, how, n)
  PROVE  RefsInv'
<1>1. CASE Nothing
  BY <1>1, NothingRefs DEF Nothing
<1>2. ASSUME NEW flow \in Flows, Wait(c, flow, n) PROVE RefsInv'
  BY <1>2, WaitRefs
<1>3. CASE Keep(c, n)
  BY <1>3, KeepRefs
<1>4. ASSUME NEW end, EndProgram(end) PROVE RefsInv'
  BY <1>4, EndRefs
<1>5. CASE MainSession(c)
  BY <1>5, MainSessionRefs
<1>6. CASE Quit
  BY <1>4, <1>6 DEF Quit
<1>7. CASE SafeQuit
  BY <1>4, <1>7, NothingRefs DEF SafeQuit
<1>8. CASE ChatWith(c)
  BY <1>1, <1>4, <1>8 DEF ChatWith
<1> QED
  BY <1>1, <1>2, <1>3, <1>4, <1>5, <1>6, <1>7, <1>8 DEF Line, Effect, Flows

\* An answer, or the words that were asked for.
LEMMA WordStepRefs ==
  ASSUME RefsInv, Wording, NEW i \in Ops,
         \/ WordStep(AnswerTo(i))
         \/ \E entry \in {"same", "differ", "long"} :
              WordStep(TypeFor(i, entry))
  PROVE  RefsInv' /\ Wording'
<1>1. CASE AnswerTo(i)
  <2>1. ops[i] # NoOp /\ ops[i].flow # "none"
    BY <1>1 DEF AnswerTo, NoOp, RefsInv, OpRecord, Flows
  <2>2. CASE Call(i)
    BY <2>1, <2>2, CallRefs DEF Call, Wording
  <2>3. CASE AskFor(i)
    BY <2>1, <2>3, AskForRefs DEF AskFor, Ask, Wording
  <2>4. CASE EndProgram("aborted") /\ UNCHANGED dialogue
    BY <2>4, EndRefs DEF Wording
  <2> QED BY <1>1, <2>2, <2>3, <2>4 DEF AnswerTo
<1>2. ASSUME NEW entry \in {"same", "differ", "long"}, TypeFor(i, entry)
      PROVE  RefsInv' /\ Wording'
  <2>1. ops[i].flow # "none"
    BY <1>2 DEF TypeFor, Wording
  <2>2. ops[i] # NoOp
    BY <2>1 DEF NoOp
  <2>3. Wording'
    <3>1. dialogue' = Nobody \/ AskFor(i)
      BY <1>2 DEF TypeFor
    <3> QED BY <2>1, <3>1 DEF AskFor, Ask, Nobody, Wording
  <2> QED BY <1>2, <2>2, <2>3, TypeForRefs
<1> QED BY <1>1, <1>2 DEF WordStep

LEMMA RefsInductive ==
  LoginInv /\ RefsInv /\ Wording /\ [ConsoleNext]_consoleVars
    => RefsInv' /\ Wording'
<1> SUFFICES ASSUME LoginInv, RefsInv, Wording, [ConsoleNext]_consoleVars
             PROVE  RefsInv' /\ Wording'
  OBVIOUS
<1>1. CASE LoginStep(LoginNext)
  BY <1>1, LoginStepRefs, LoginWording DEF LoginStep, LoginInv
<1>2. ASSUME NEW c \in Conns,
             Step(Accept(c)) \/ Step(Overflow(c)) \/ Step(Close(c))
      PROVE  RefsInv' /\ Wording'
  BY <1>2, ConnectionRefs DEF Step, Wording, loginVars
<1>3. ASSUME NEW c \in Speakers, NEW how \in Hows, NEW n \in 0 .. 2,
             Step(Line(c, how, n))
      PROVE  RefsInv' /\ Wording'
  BY <1>3, LineRefs DEF Step, Wording, loginVars
<1>4. CASE Step(EndOfInput) \/ Step(Halt)
  <2>1. UNCHANGED dialogue /\ (EndOfInput \/ Halt)
    BY <1>4 DEF Step, loginVars
  <2>2. RefsInv'
    BY <2>1, EndRefs, NothingRefs DEF EndOfInput, SafeQuit, Halt, Nothing
  <2> QED BY <2>1, <2>2 DEF Wording
<1>5. ASSUME NEW i \in Ops,
             \/ WordStep(AnswerTo(i))
             \/ \E entry \in {"same", "differ", "long"} :
                  WordStep(TypeFor(i, entry))
      PROVE  RefsInv' /\ Wording'
  BY <1>5, WordStepRefs
<1>6. CASE UNCHANGED consoleVars
  BY <1>6, NothingRefs DEF consoleVars, loginVars, Wording
<1> QED
  BY <1>1, <1>2, <1>3, <1>4, <1>5, <1>6 DEF ConsoleNext

\* The steps of the console are steps of the login or steps beside it.
LEMMA ConsoleBesideLogin ==
  [ConsoleNext]_consoleVars => [LoginNext \/ BesideLogin]_loginVars
<1> SUFFICES ASSUME [ConsoleNext]_consoleVars
             PROVE  [LoginNext \/ BesideLogin]_loginVars
  OBVIOUS
<1>1. CASE LoginStep(LoginNext)
  BY <1>1 DEF LoginStep
<1>2. ASSUME NEW A, Step(A) PROVE UNCHANGED loginVars
  BY <1>2 DEF Step
<1>3. ASSUME NEW i \in Ops,
             \/ WordStep(AnswerTo(i))
             \/ \E entry \in {"same", "differ", "long"} :
                  WordStep(TypeFor(i, entry))
      PROVE  BesideLogin \/ UNCHANGED loginVars
  <2>1. i # 0
    BY ConsoleAssumption
  <2>2. AskFor(i) => dialogue'.who = i
    BY DEF AskFor, Ask
  <2>3. dialogue' = dialogue \/ dialogue' = Nobody \/ dialogue'.who # 0
    BY <1>3, <2>1, <2>2 DEF WordStep, AnswerTo, Call, TypeFor
  <2> QED BY <1>3, <2>3 DEF WordStep, BesideLogin, loginVars
<1>4. CASE UNCHANGED consoleVars
  BY <1>4 DEF consoleVars
<1> QED BY <1>1, <1>2, <1>3, <1>4 DEF ConsoleNext, Step

\* So what holds of the login with others beside it holds of the program.
LEMMA ProgramLogin ==
  ConsoleInit /\ [][ConsoleNext]_consoleVars
    => LoginInit /\ [][LoginNext \/ BesideLogin]_loginVars
<1>1. ConsoleInit => LoginInit
  BY DEF ConsoleInit, ConsoleStart
<1> QED
  BY <1>1, ConsoleBesideLogin, PTL

\* LogsInOnce, of the whole program: for any data centres, with an auth file or
\* without, and whatever commands do to the dialogue in the meantime, the auth
\* file is written once, when every DC known at the start is signed and no
\* export is open.
THEOREM LoginOnce ==
  ConsoleInit /\ [][ConsoleNext]_consoleVars => []LogsInOnce
<1> QED
  BY ProgramLogin, LoginAloneOnce, PTL

\* RefsAreHeld: for any number of connections and commands, whatever lines they
\* give and in whatever order answers, words and the ends of connections come,
\* a connection is counted once for each thing that will still use it, and is
\* freed with the last of them.
THEOREM ConnectionsHeld ==
  ConsoleInit /\ [][ConsoleNext]_consoleVars => []RefsAreHeld
<1>1. ConsoleInit => RefsInv /\ Wording
  <2> SUFFICES ASSUME ConsoleInit PROVE RefsInv /\ Wording
    OBVIOUS
  <2>1. /\ link = [c \in Conns |-> "none"] /\ refcnt = [c \in Conns |-> 0]
        /\ kept = [c \in Conns |-> 0] /\ notify_ev = Terminal
        /\ ops = [i \in Ops |-> NoOp] /\ dialogue = Nobody
    BY DEF ConsoleInit, ConsoleStart, LoginInit
  <2>2. ASSUME NEW c \in Conns
        PROVE  Balanced(c, refcnt[c], Cardinality(CommandsOf(c)), kept[c],
                        link[c], notify_ev)
    <3>1. CommandsOf(c) = {}
      BY <2>1 DEF CommandsOf
    <3>2. Cardinality(CommandsOf(c)) = 0 /\ c # Terminal
      BY <3>1, FS_EmptySet, ConsoleAssumption
    <3> QED BY <2>1, <3>2 DEF Balanced
  <2> QED BY <2>1, <2>2 DEF RefsInv, Links, OpRecord, Wording, Nobody
<1>2. RefsInv => RefsAreHeld
  <2> SUFFICES ASSUME RefsInv, NEW c \in Conns
               PROVE  /\ refcnt[c] = Owed(c) + kept[c]
                           + (IF link[c] \in {"open", "deaf"} THEN 1 ELSE 0)
                           + (IF notify_ev = c THEN 1 ELSE 0)
                      /\ link[c] \in {"none", "freed"} <=> refcnt[c] = 0
    BY DEF RefsAreHeld
  <2>1. Owed(c) = Cardinality(CommandsOf(c))
    BY DEF Owed, CommandsOf
  <2> QED BY <2>1 DEF RefsInv, Balanced
<1>3. ConsoleInit /\ [][ConsoleNext]_consoleVars => []LoginInv
  BY ProgramLogin, LoginInitially, LoginInductive, PTL
<1> QED
  BY <1>1, <1>2, <1>3, RefsInductive, PTL

-----------------------------------------------------------------------------
(* Lines.                                                                  *)

\* How far the loop over the arguments can still go, in a row of k: each turn
\* of it reads an argument or goes on in the row.
StillLeft(k, at, n) == IF n >= Room THEN 0 ELSE Room - n + k + 1 - at
Left(row, s) == StillLeft(Len(row), s.at, Len(s.args))

\* What is left is a number, and not more than there was at the start.
LEMMA LeftIsNumber ==
  ASSUME NEW row, Len(row) \in Nat, NEW line \in Seq(Tokens),
         NEW s \in Points(row, line)
  PROVE  Left(row, s) \in Nat /\ Left(row, s) <= Room + Len(row)
<1>1. s.at \in 1 .. Len(row) + 1 /\ s.args \in Seq(Arguments)
  BY DEF Points
<1>2. PICK n \in Nat : n = Len(s.args)
  BY <1>1
<1>3. PICK k \in Nat : k = Len(row)
  OBVIOUS
<1>4. PICK at \in 1 .. k + 1 : at = s.at
  BY <1>1, <1>3
<1>5. StillLeft(k, at, n) \in Nat /\ StillLeft(k, at, n) <= Room + k
  BY RoomAssumption DEF StillLeft
<1> QED BY <1>2, <1>3, <1>4, <1>5 DEF Left

\* Where the loop goes on: an argument further, or past what is repeated.
Further(row, line, s) ==
  {x \in Points(row, line) : Left(row, x) < Left(row, s)}

\* A turn reads what becomes of the line only further on.
LEMMA TurnGoesFurther ==
  ASSUME NEW row, Len(row) \in Nat, NEW line \in Seq(Tokens),
         NEW s \in Points(row, line), Len(s.args) < Room, s.at <= Len(row)
  PROVE  /\ \A arg \in Arguments, pos \in s.pos .. Len(line) + 1 :
              [at |-> IF Repeats(row, s.at) THEN s.at ELSE s.at + 1,
               pos |-> pos, args |-> Append(s.args, arg)]
                \in Further(row, line, s)
         /\ Repeats(row, s.at) =>
              [at |-> s.at + 2, pos |-> s.pos, args |-> s.args]
                \in Further(row, line, s)
<1>1. /\ s.at \in 1 .. Len(row) + 1 /\ s.pos \in 1 .. Len(line) + 1
      /\ s.args \in Seq(Arguments)
  BY DEF Points
<1>2. PICK n \in Nat : n = Len(s.args)
  BY <1>1
<1>3. PICK k \in Nat : k = Len(row)
  OBVIOUS
<1>4. PICK here \in 1 .. k : here = s.at
  BY <1>1, <1>3
<1>5. Left(row, s) = StillLeft(k, here, n) /\ n < Room
  BY <1>2, <1>3, <1>4 DEF Left
<1>6. ASSUME NEW arg \in Arguments, NEW pos \in s.pos .. Len(line) + 1,
             NEW at \in {here, here + 1}
      PROVE  [at |-> at, pos |-> pos, args |-> Append(s.args, arg)]
               \in Further(row, line, s)
  <2> DEFINE x == [at |-> at, pos |-> pos, args |-> Append(s.args, arg)]
  <2>1. x.args \in Seq(Arguments) /\ Len(x.args) = n + 1
    BY <1>1, <1>2
  <2>2. at \in 1 .. Len(row) + 1 /\ pos \in 1 .. Len(line) + 1
    BY <1>1, <1>3
  <2>3. x \in Points(row, line)
    BY <2>1, <2>2 DEF Points
  <2>4. Left(row, x) = StillLeft(k, at, n + 1)
    BY <1>3, <2>1 DEF Left
  <2>5. StillLeft(k, at, n + 1) < StillLeft(k, here, n)
    BY <1>5, RoomAssumption DEF StillLeft
  <2> QED BY <1>5, <2>3, <2>4, <2>5 DEF Further
<1>7. ASSUME Repeats(row, here)
      PROVE  [at |-> here + 2, pos |-> s.pos, args |-> s.args]
               \in Further(row, line, s)
  <2> DEFINE x == [at |-> here + 2, pos |-> s.pos, args |-> s.args]
  <2>1. here + 2 \in 1 .. k + 1
    BY <1>3, <1>7 DEF Repeats
  <2>2. x \in Points(row, line)
    BY <1>1, <1>3, <2>1 DEF Points
  <2>3. Left(row, x) = StillLeft(k, here + 2, n)
    BY <1>2, <1>3 DEF Left
  <2>4. StillLeft(k, here + 2, n) < StillLeft(k, here, n)
    BY <1>5, <2>1, RoomAssumption DEF StillLeft
  <2> QED BY <1>5, <2>2, <2>3, <2>4 DEF Further
<1> QED BY <1>4, <1>6, <1>7

\* So two readings that agree further on agree.
LEMMA TurnAgrees ==
  ASSUME NEW row, Len(row) \in Nat, NEW line \in Seq(Tokens),
         NEW s \in Points(row, line), NEW f, NEW g,
         \A x \in Further(row, line, s) : f[x] = g[x]
  PROVE  Argument(row, line, f, s) = Argument(row, line, g, s)
<1> DEFINE at == IF Repeats(row, s.at) THEN s.at ELSE s.at + 1
           To(arg, pos) ==
             [at |-> at, pos |-> pos, args |-> Append(s.args, arg)]
           past == [at |-> s.at + 2, pos |-> s.pos, args |-> s.args]
           token == line[s.pos]
           end == Len(line) + 1
<1>1. /\ s.at \in 1 .. Len(row) + 1 /\ s.pos \in 1 .. Len(line) + 1
      /\ s.args \in Seq(Arguments)
  BY DEF Points
<1>2. Len(s.args) \in Nat /\ Len(row) \in Nat /\ Len(line) \in Nat
  BY <1>1
<1>3. CASE Len(s.args) < Room /\ s.at <= Len(row)
  <2>1. f[To("none", s.pos)] = g[To("none", s.pos)]
    <3>1. "none" \in Arguments /\ s.pos \in s.pos .. Len(line) + 1
      BY <1>1, <1>2 DEF Arguments
    <3> QED BY <1>3, <3>1, TurnGoesFurther
  <2>2. f[To("none", end)] = g[To("none", end)]
    <3>1. "none" \in Arguments /\ end \in s.pos .. Len(line) + 1
      BY <1>1, <1>2 DEF Arguments
    <3> QED BY <1>3, <3>1, TurnGoesFurther
  <2>3. ASSUME s.pos <= Len(line)
        PROVE  f[To("text", s.pos + 1)] = g[To("text", s.pos + 1)]
    <3>1. "text" \in Arguments /\ s.pos + 1 \in s.pos .. Len(line) + 1
      BY <1>1, <1>2, <2>3 DEF Arguments
    <3> QED BY <1>3, <3>1, TurnGoesFurther
  <2>4. ASSUME s.pos <= Len(line), token \in Arguments
        PROVE  f[To(token, s.pos + 1)] = g[To(token, s.pos + 1)]
    <3>1. s.pos + 1 \in s.pos .. Len(line) + 1
      BY <1>1, <1>2, <2>4
    <3> QED BY <1>3, <2>4, <3>1, TurnGoesFurther
  <2>5. Repeats(row, s.at) => f[past] = g[past]
    BY <1>3, TurnGoesFurther
  <2>6. CASE s.pos > Len(line)
    BY <1>1, <1>2, <1>3, <2>1, <2>2, <2>5, <2>6 DEF Argument
  <2>7. CASE s.pos <= Len(line)
    <3>1. token \in Arguments
      BY <1>1, <2>7 DEF Arguments
    <3> QED
      BY <1>1, <1>2, <1>3, <2>1, <2>2, <2>3, <2>4, <2>5, <2>7, <3>1
         DEF Argument
  <2> QED BY <1>1, <1>2, <2>6, <2>7
<1>4. CASE Len(s.args) >= Room
  BY <1>4 DEF Argument
<1>5. CASE s.at > Len(row)
  BY <1>5 DEF Argument
<1> QED BY <1>1, <1>2, <1>3, <1>4, <1>5, RoomAssumption

\* The reading of all that has less than n left.
Below(row, line, n) == {s \in Points(row, line) : Left(row, s) < n}
Reading(row, line, f, n) ==
  f = [s \in Below(row, line, n) |-> Argument(row, line, f, s)]

\* It can be read one further.
LEMMA ReadingGoesOn ==
  ASSUME NEW row, Len(row) \in Nat, NEW line \in Seq(Tokens), NEW n \in Nat,
         NEW f, Reading(row, line, f, n)
  PROVE  \E g : Reading(row, line, g, n + 1)
<1> DEFINE D == Below(row, line, n + 1)
           g == [s \in D |-> Argument(row, line, f, s)]
           h == [s \in D |-> Argument(row, line, g, s)]
<1>1. ASSUME NEW s \in Below(row, line, n) PROVE g[s] = f[s]
  <2>1. f[s] = Argument(row, line, f, s)
    BY DEF Reading
  <2>2. s \in D
    BY LeftIsNumber DEF Below
  <2> QED BY <2>1, <2>2
<1>2. ASSUME NEW s \in D
      PROVE  Argument(row, line, f, s) = Argument(row, line, g, s)
  <2>1. s \in Points(row, line) /\ Left(row, s) < n + 1
    BY DEF Below
  <2>2. Left(row, s) \in Nat
    BY <2>1, LeftIsNumber
  <2>3. ASSUME NEW x \in Further(row, line, s) PROVE f[x] = g[x]
    <3>1. x \in Points(row, line) /\ Left(row, x) < Left(row, s)
      BY DEF Further
    <3>2. Left(row, x) \in Nat
      BY <3>1, LeftIsNumber
    <3>3. x \in Below(row, line, n)
      BY <2>1, <2>2, <3>1, <3>2 DEF Below
    <3> HIDE DEF g
    <3> QED BY <1>1, <3>3
  <2> HIDE DEF g
  <2> QED BY <2>1, <2>3, TurnAgrees
<1>3. g = h
  BY <1>2
<1> QED BY <1>3 DEF Reading

\* So all can be read: else there is a least number that cannot.
LEMMA AllIsRead ==
  ASSUME NEW row, Len(row) \in Nat, NEW line \in Seq(Tokens), NEW n \in Nat
  PROVE  \E f : Reading(row, line, f, n)
<1> DEFINE T == {k \in Nat : ~ \E f : Reading(row, line, f, k)}
<1>1. ASSUME T # {} PROVE FALSE
  <2>1. PICK k \in T : \A y \in T : k <= y
    <3> HIDE DEF T
    <3>1. T \subseteq Nat
      BY DEF T
    <3> QED BY <1>1, <3>1, LeastNumber
  <2>2. k # 0
    <3>1. Below(row, line, 0) = {}
      BY LeftIsNumber DEF Below
    <3> DEFINE f == [s \in Below(row, line, 0) |-> 0]
               h == [s \in Below(row, line, 0) |-> Argument(row, line, f, s)]
    <3>2. f = h
      BY <3>1
    <3>3. Reading(row, line, f, 0)
      BY <3>2 DEF Reading
    <3> QED BY <2>1, <3>3
  <2>3. k - 1 \in Nat /\ k - 1 + 1 = k /\ ~(k <= k - 1)
    BY <2>1, <2>2
  <2>4. PICK f : Reading(row, line, f, k - 1)
    BY <2>1, <2>3
  <2>5. \E g : Reading(row, line, g, k - 1 + 1)
    BY <2>3, <2>4, ReadingGoesOn
  <2> QED BY <2>1, <2>3, <2>5
<1> QED BY <1>1

\* What a line becomes is what the loop over the arguments makes of it.
LEMMA ReadIs ==
  ASSUME NEW row, Len(row) \in Nat, NEW line \in Seq(Tokens)
  PROVE  \E f : /\ f = [s \in Points(row, line) |->
                          Argument(row, line, f, s)]
               /\ Read(row, line) = f[[at |-> 1, pos |-> 1, args |-> <<>>]]
<1> DEFINE IsRead(f) ==
      f = [s \in Points(row, line) |-> Argument(row, line, f, s)]
<1>1. \E f : IsRead(f)
  <2>1. PICK n \in Nat : n = Room + Len(row) + 1
    BY RoomAssumption
  <2>2. PICK f : Reading(row, line, f, n)
    BY AllIsRead
  <2>3. Below(row, line, n) = Points(row, line)
    <3>1. ASSUME NEW s \in Points(row, line) PROVE Left(row, s) < n
      <4>1. Left(row, s) \in Nat /\ Left(row, s) <= Room + Len(row)
        BY LeftIsNumber
      <4>2. Room + Len(row) \in Nat
        BY RoomAssumption
      <4> QED BY <2>1, <4>1, <4>2
    <3> QED BY <3>1 DEF Below
  <2> QED BY <2>2, <2>3 DEF Reading
<1>2. PICK f : f = CHOOSE g : IsRead(g)
  OBVIOUS
<1>3. IsRead(f)
  <2> HIDE DEF IsRead
  <2> QED BY <1>1, <1>2
<1>4. Read(row, line) = f[[at |-> 1, pos |-> 1, args |-> <<>>]]
  BY <1>2 DEF Read
<1> QED BY <1>3, <1>4

\* What is true of the start of a line, and of a turn when it is true of all
\* that is further on, is true of what the line becomes.
LEMMA ReadBecomes ==
  ASSUME NEW row, Len(row) \in Nat, NEW line \in Seq(Tokens),
         NEW I \in SUBSET Points(row, line), NEW G,
         [at |-> 1, pos |-> 1, args |-> <<>>] \in I,
         \A s \in I : \A f :
           (\A x \in I \cap Further(row, line, s) : f[x] \in G)
             => Argument(row, line, f, s) \in G
  PROVE  Read(row, line) \in G
<1> DEFINE start == [at |-> 1, pos |-> 1, args |-> <<>>]
<1>1. PICK f : /\ f = [s \in Points(row, line) |->
                        Argument(row, line, f, s)]
               /\ Read(row, line) = f[start]
  BY ReadIs
<1> DEFINE T == {Left(row, s) : s \in {x \in I : f[x] \notin G}}
<1>2. ASSUME T # {} PROVE FALSE
  <2>1. PICK n \in T : \A y \in T : n <= y
    <3>1. T \subseteq Nat
      BY LeftIsNumber
    <3> HIDE DEF T
    <3> QED BY <1>2, <3>1, LeastNumber
  <2>2. PICK s \in I : f[s] \notin G /\ n = Left(row, s)
    BY <2>1
  <2>3. ASSUME NEW x \in I \cap Further(row, line, s) PROVE f[x] \in G
    <3>1. Left(row, x) < Left(row, s) /\ x \in Points(row, line)
      BY DEF Further
    <3>2. Left(row, x) \in Nat /\ Left(row, s) \in Nat
      BY <3>1, LeftIsNumber
    <3>3. Left(row, x) \notin T
      <4> HIDE DEF T
      <4> QED BY <2>1, <2>2, <3>1, <3>2
    <3> QED BY <3>3
  <2>4. Argument(row, line, f, s) \in G
    BY <2>3
  <2>5. f[s] = Argument(row, line, f, s)
    BY <1>1, <2>2
  <2> QED BY <2>2, <2>4, <2>5
<1>3. f[start] \in G
  BY <1>2
<1> QED BY <1>1, <1>3

\* Where a turn goes on.
Onwards(row, s, arg, pos) ==
  [at |-> IF Repeats(row, s.at) THEN s.at ELSE s.at + 1, pos |-> pos,
   args |-> Append(s.args, arg)]
Past(s) == [at |-> s.at + 2, pos |-> s.pos, args |-> s.args]

\* A turn of the loop, word by word.
LEMMA TurnIs ==
  ASSUME NEW row, NEW line, NEW f, NEW s, ~(Len(s.args) >= Room),
         NEW o, o = row[s.at], NEW t, t = line[s.pos],
         NEW ended \in BOOLEAN, ended <=> s.pos > Len(line),
         NEW again \in BOOLEAN, again <=> Repeats(row, s.at),
         NEW turn, turn = Argument(row, line, f, s)
  PROVE  /\ s.at > Len(row) =>
              turn = IF ended THEN Called(s.args) ELSE Ended("says")
         /\ ~(s.at > Len(row)) /\ o = "string_end" =>
              turn = IF IsOneText(line, s.pos)
                     THEN Called(Append(s.args, "text")) ELSE Ended("says")
         /\ ~(s.at > Len(row)) /\ o # "string_end" =>
              /\ again /\ ended => turn = Called(s.args)
              /\ ~(again /\ ended) /\ o \in Text =>
                   turn = IF ~ended /\ t # "unclosed"
                          THEN f[Onwards(row, s, "text", s.pos + 1)]
                          ELSE IF o \in Optional
                          THEN f[Onwards(row, s, "none", Len(line) + 1)]
                          ELSE Ended("says")
              /\ ~(again /\ ended) /\ o \notin Text /\ (ended \/ t \in Quoted)
                   => turn = IF o \in Optional
                             THEN f[Onwards(row, s, "none", s.pos)]
                             ELSE IF again THEN f[Past(s)]
                             ELSE Ended("quiet")
              /\ ~ended /\ o \notin Text /\ t \notin Quoted
                   => turn = IF t \in Reads(o)
                             THEN f[Onwards(row, s, t, s.pos + 1)]
                             ELSE IF again THEN f[Past(s)]
                             ELSE IF o \in Optional
                             THEN f[Onwards(row, s, "none", s.pos)]
                             ELSE Ended("says")
BY DEF Argument, Onwards, Past

\* The arguments that a word of the table gives.
Gives(op) ==
  IF op \in {"string", "string_end"} THEN {"text"}
  ELSE IF op = "string?" THEN {"text", "none"}
  ELSE Reads(op) \cup (IF op \in Optional THEN {"none"} ELSE {})

\* A row in which nothing is repeated, for which there is room.
Plain(row) ==
  /\ Len(row) \in Nat
  /\ \A i \in 1 .. Len(row) : /\ row[i] # "period"
                              /\ row[i] = "string_end" => i = Len(row)
  /\ Len(row) <= 6 /\ (Len(row) = 6 => row[6] = "string_end")

\* An argument for each word of the row.
Fits(row) ==
  {a \in Seq(Arguments) : /\ Len(a) = Len(row)
                          /\ \A i \in 1 .. Len(row) : a[i] \in Gives(row[i])}

\* A line of such a command gives it its arguments, or is refused.
LEMMA PlainRead ==
  ASSUME NEW row, Plain(row), NEW line \in Seq(Tokens)
  PROVE  Read(row, line) \in
           {Ended("says"), Ended("quiet")} \cup {Called(a) : a \in Fits(row)}
<1> DEFINE G == {Ended("says"), Ended("quiet")}
                  \cup {Called(a) : a \in Fits(row)}
           I == {s \in Points(row, line) :
                   /\ s.at = Len(s.args) + 1 /\ s.at <= 6
                   /\ \A i \in 1 .. Len(s.args) : s.args[i] \in Gives(row[i])}
           start == [at |-> 1, pos |-> 1, args |-> <<>>]
<1>1. Len(row) \in Nat
  BY DEF Plain
<1>2. start \in I
  <2>1. start \in Points(row, line)
    BY <1>1 DEF Points
  <2> QED BY <2>1
<1>3. ASSUME NEW s \in I, NEW f,
             \A x \in I \cap Further(row, line, s) : f[x] \in G
      PROVE  Argument(row, line, f, s) \in G
  <2>1. /\ s \in Points(row, line)
        /\ s.at \in 1 .. Len(row) + 1 /\ s.pos \in 1 .. Len(line) + 1
        /\ s.args \in Seq(Arguments)
    BY DEF Points
  <2>2. PICK n \in Nat : n = Len(s.args)
    BY <2>1
  <2>3. s.at = n + 1 /\ n <= 5 /\ n < Room
    BY <2>2, RoomAssumption
  <2>4. \A i \in 1 .. n : s.args[i] \in Gives(row[i])
    BY <2>2
  <2>5. ~Repeats(row, s.at)
    BY <1>1, <2>1 DEF Repeats, Plain
  <2>6. PICK o, t : o = row[s.at] /\ t = line[s.pos]
    OBVIOUS
  <2>7. PICK k \in Nat : k = Len(line)
    OBVIOUS
  <2>8. PICK pos \in 1 .. k + 1 : pos = s.pos
    BY <2>1, <2>7
  <2>9. PICK ended \in BOOLEAN : ended <=> pos > k
    OBVIOUS
  <2>10. ~(Len(s.args) >= Room)
    BY <2>2, <2>3, RoomAssumption
  <2> DEFINE To(arg, p) == f[Onwards(row, s, arg, p)]
  <2>a. PICK turn : turn = Argument(row, line, f, s)
    OBVIOUS
  <2>b. PICK again \in BOOLEAN : again <=> Repeats(row, s.at)
    OBVIOUS
  <2>c. ended <=> s.pos > Len(line)
    BY <2>7, <2>8, <2>9
  <2>d. ~again
    BY <2>5, <2>b
  <2>11. /\ s.at > Len(row) =>
              turn = IF ended THEN Called(s.args) ELSE Ended("says")
         /\ ~(s.at > Len(row)) /\ o = "string_end" =>
              turn = IF IsOneText(line, s.pos)
                     THEN Called(Append(s.args, "text")) ELSE Ended("says")
         /\ ~(s.at > Len(row)) /\ o # "string_end" =>
              /\ o \in Text =>
                   turn = IF ~ended /\ t # "unclosed" THEN To("text", pos + 1)
                          ELSE IF o \in Optional THEN To("none", k + 1)
                          ELSE Ended("says")
              /\ o \notin Text /\ (ended \/ t \in Quoted) =>
                   turn = IF o \in Optional THEN To("none", pos)
                          ELSE Ended("quiet")
              /\ ~ended /\ o \notin Text /\ t \notin Quoted =>
                   turn = IF t \in Reads(o) THEN To(t, pos + 1)
                          ELSE IF o \in Optional THEN To("none", pos)
                          ELSE Ended("says")
    BY <2>6, <2>7, <2>8, <2>10, <2>a, <2>b, <2>c, <2>d, TurnIs
  <2>12. Ended("says") \in G /\ Ended("quiet") \in G
    OBVIOUS
  <2>13. ~(s.at > Len(row)) => s.at \in 1 .. Len(row)
    BY <1>1, <2>1
  <2>14. ASSUME s.at > Len(row) PROVE turn \in G
    <3>1. s.args \in Fits(row)
      BY <1>1, <2>1, <2>2, <2>3, <2>4, <2>14 DEF Fits
    <3> QED BY <2>11, <2>12, <2>14, <3>1
  <2>15. ASSUME ~(s.at > Len(row)), o = "string_end" PROVE turn \in G
    <3>1. s.at = Len(row)
      BY <2>6, <2>13, <2>15 DEF Plain
    <3>2. Append(s.args, "text") \in Fits(row)
      <4> DEFINE a == Append(s.args, "text")
      <4>1. a \in Seq(Arguments) /\ Len(a) = Len(row)
        BY <2>1, <2>2, <2>3, <3>1 DEF Arguments
      <4>2. ASSUME NEW i \in 1 .. Len(row) PROVE a[i] \in Gives(row[i])
        <5>1. CASE i = n + 1
          <6>1. a[i] = "text"
            BY <2>1, <2>2, <5>1
          <6>2. row[i] = "string_end"
            BY <2>3, <2>6, <2>15, <5>1
          <6> QED BY <6>1, <6>2 DEF Gives
        <5>2. CASE i # n + 1
          <6>1. i \in 1 .. n /\ a[i] = s.args[i]
            BY <1>1, <2>1, <2>2, <2>3, <3>1, <5>2
          <6> QED BY <2>4, <6>1
        <5> QED BY <5>1, <5>2
      <4> QED BY <4>1, <4>2 DEF Fits
    <3> QED BY <2>11, <2>12, <2>15, <3>2
  <2>16. ASSUME ~(s.at > Len(row)), o # "string_end" PROVE turn \in G
    <3>1. s.at <= 5 /\ s.at <= Len(row)
      <4>1. PICK l \in Nat : l = Len(row)
        BY <1>1
      <4>2. s.at # 6 \/ l # 6
        BY <2>6, <2>16, <4>1 DEF Plain
      <4>3. l <= 6 /\ s.at \in 1 .. l
        BY <2>13, <2>16, <4>1 DEF Plain
      <4> QED BY <2>3, <4>1, <4>2, <4>3
    <3>2. ASSUME NEW arg \in Arguments, arg \in Gives(o),
                 NEW p \in pos .. k + 1
          PROVE  To(arg, p) \in G
      <4> DEFINE x == Onwards(row, s, arg, p)
      <4>1. x = [at |-> s.at + 1, pos |-> p, args |-> Append(s.args, arg)]
        BY <2>5 DEF Onwards
      <4>2. x \in Further(row, line, s)
        BY <1>1, <2>1, <2>2, <2>3, <2>5, <2>7, <2>8, <3>1, <4>1, TurnGoesFurther
      <4>3. x \in I
        <5> DEFINE a == Append(s.args, arg)
        <5>1. Len(a) = n + 1 /\ x.args = a /\ x.at = n + 2
          BY <2>1, <2>2, <2>3, <4>1
        <5>2. n + 2 <= 6
          BY <2>3, <3>1
        <5>3. ASSUME NEW i \in 1 .. n + 1 PROVE a[i] \in Gives(row[i])
          <6>1. CASE i = n + 1
            BY <2>1, <2>2, <2>3, <2>6, <3>2, <6>1
          <6>2. CASE i # n + 1
            <7>1. i \in 1 .. n /\ a[i] = s.args[i]
              BY <2>1, <2>2, <6>2
            <7> QED BY <2>4, <7>1
          <6> QED BY <6>1, <6>2
        <5>4. x \in Points(row, line)
          BY <4>2 DEF Further
        <5> HIDE DEF x, a
        <5> QED BY <5>1, <5>2, <5>3, <5>4
      <4> QED BY <1>3, <4>2, <4>3
    <3> HIDE DEF To, G
    <3>3. "text" \in Arguments /\ "none" \in Arguments
      BY DEF Arguments
    <3>4. pos \in pos .. k + 1 /\ k + 1 \in pos .. k + 1
      OBVIOUS
    <3>5. ~ended => pos + 1 \in pos .. k + 1 /\ t \in Arguments
      BY <2>6, <2>7, <2>8, <2>9 DEF Arguments
    <3>6. CASE o \in Text
      <4>1. ~ended => To("text", pos + 1) \in G
        BY <3>2, <3>3, <3>5, <3>6 DEF Gives, Text
      <4>2. o \in Optional => To("none", k + 1) \in G
        BY <3>2, <3>3, <3>4, <3>6 DEF Gives, Text, Optional
      <4> QED BY <2>11, <2>12, <2>16, <3>6, <4>1, <4>2
    <3>7. CASE o \notin Text
      <4>1. o \notin {"string", "string_end"} /\ o # "string?"
        BY <2>16, <3>7 DEF Text
      <4>2. o \in Optional => To("none", pos) \in G
        BY <3>2, <3>3, <3>4, <4>1 DEF Gives
      <4>3. ~ended /\ t \in Reads(o) => To(t, pos + 1) \in G
        BY <3>2, <3>5, <4>1 DEF Gives
      <4> QED BY <2>11, <2>12, <2>16, <3>7, <4>2, <4>3
    <3> QED BY <3>6, <3>7
  <2> QED BY <2>a, <2>14, <2>15, <2>16
<1> HIDE DEF I, G
<1>4. I \subseteq Points(row, line)
  BY DEF I
<1>5. Read(row, line) \in G
  BY <1>1, <1>2, <1>3, <1>4, ReadBecomes
<1> QED BY <1>5 DEF G

\* The commands of which an argument is repeated.
Repeating == {"broadcast", "create_channel", "create_group_chat", "fwd"}

\* The words of the table that stand for one argument.
Words == {"secret", "user", "channel", "chat", "peer", "msg_id", "string",
          "string?", "number", "number?", "peer?", "user?"}

\* A row of no word.
LEMMA Plain0 ==
  Plain(<<>>)
<1> DEFINE row == <<>>
<1> QED BY DEF Plain

\* A row of one word.
LEMMA Plain1 ==
  ASSUME NEW x1 \in Words \cup {"string_end"}
  PROVE  Plain(<<x1>>)
<1> DEFINE row == <<x1>>
<1>1. "period" \notin Words /\ "string_end" \notin Words
  BY DEF Words
<1>2. Len(row) = 1 /\ row[1] = x1
  BY <1>1
<1>3. \A i \in 1 .. Len(row) : i \in {1}
  BY <1>2
<1> HIDE DEF row
<1> QED BY <1>1, <1>2, <1>3 DEF Plain

\* A row of two words.
LEMMA Plain2 ==
  ASSUME NEW x1 \in Words, NEW x2 \in Words \cup {"string_end"}
  PROVE  Plain(<<x1, x2>>)
<1> DEFINE row == <<x1, x2>>
<1>1. "period" \notin Words /\ "string_end" \notin Words
  BY DEF Words
<1>2. Len(row) = 2 /\ row[1] = x1 /\ row[2] = x2
  BY <1>1
<1>3. \A i \in 1 .. Len(row) : i \in {1, 2}
  BY <1>2
<1> HIDE DEF row
<1> QED BY <1>1, <1>2, <1>3 DEF Plain

\* A row of three words.
LEMMA Plain3 ==
  ASSUME NEW x1 \in Words, NEW x2 \in Words,
         NEW x3 \in Words \cup {"string_end"}
  PROVE  Plain(<<x1, x2, x3>>)
<1> DEFINE row == <<x1, x2, x3>>
<1>1. "period" \notin Words /\ "string_end" \notin Words
  BY DEF Words
<1>2. Len(row) = 3 /\ row[1] = x1 /\ row[2] = x2 /\ row[3] = x3
  BY <1>1
<1>3. \A i \in 1 .. Len(row) : i \in {1, 2, 3}
  BY <1>2
<1> HIDE DEF row
<1> QED BY <1>1, <1>2, <1>3 DEF Plain

\* A row of four words.
LEMMA Plain4 ==
  ASSUME NEW x1 \in Words, NEW x2 \in Words, NEW x3 \in Words,
         NEW x4 \in Words \cup {"string_end"}
  PROVE  Plain(<<x1, x2, x3, x4>>)
<1> DEFINE row == <<x1, x2, x3, x4>>
<1>1. "period" \notin Words /\ "string_end" \notin Words
  BY DEF Words
<1>2. Len(row) = 4 /\ row[1] = x1 /\ row[2] = x2 /\ row[3] = x3 /\ row[4] = x4
  BY <1>1
<1>3. \A i \in 1 .. Len(row) : i \in {1, 2, 3, 4}
  BY <1>2
<1> HIDE DEF row
<1> QED BY <1>1, <1>2, <1>3 DEF Plain

\* A row of six words.
LEMMA Plain6 ==
  ASSUME NEW x1 \in Words, NEW x2 \in Words, NEW x3 \in Words,
         NEW x4 \in Words, NEW x5 \in Words
  PROVE  Plain(<<x1, x2, x3, x4, x5, "string_end">>)
<1> DEFINE row == <<x1, x2, x3, x4, x5, "string_end">>
<1>1. "period" \notin Words /\ "string_end" \notin Words
  BY DEF Words
<1>2. Len(row) = 6 /\ row[1] = x1 /\ row[2] = x2 /\ row[3] = x3 /\ row[4] = x4
      /\ row[5] = x5 /\ row[6] = "string_end"
  BY <1>1
<1>3. \A i \in 1 .. Len(row) : i \in {1, 2, 3, 4, 5, 6}
  BY <1>2
<1> HIDE DEF row
<1> QED BY <1>1, <1>2, <1>3 DEF Plain

\* In every row but four nothing is repeated.
LEMMA TableIsPlain ==
  ASSUME NEW c \in Commands, c \notin Repeating
  PROVE  Plain(Takes(c))
<1>1. CASE c \in {"clear", "contact_list", "export_card", "get_self",
                  "get_terms_of_service", "main_session", "quit",
                  "safe_quit", "show_license", "stats", "status_offline",
                  "status_online", "version"}
  <2>1. Takes(c) = <<>>
    BY <1>1 DEF Takes
  <2> QED BY <2>1, Plain0 DEF Words
<1>2. CASE c \in {"accept_secret_chat", "visualize_key"}
  <2>1. Takes(c) = <<"secret">>
    BY <1>2 DEF Takes
  <2> QED BY <2>1, Plain1 DEF Words
<1>3. CASE c \in {"block_user", "create_secret_chat", "del_contact",
                  "load_user_photo", "unblock_user", "user_info",
                  "view_user_photo"}
  <2>1. Takes(c) = <<"user">>
    BY <1>3 DEF Takes
  <2> QED BY <2>1, Plain1 DEF Words
<1>4. CASE c \in {"channel_info", "channel_join", "channel_leave",
                  "export_channel_link", "load_channel_photo",
                  "view_channel_photo"}
  <2>1. Takes(c) = <<"channel">>
    BY <1>4 DEF Takes
  <2> QED BY <2>1, Plain1 DEF Words
<1>5. CASE c \in {"chat_info", "chat_upgrade", "export_chat_link",
                  "load_chat_photo", "view_chat_photo"}
  <2>1. Takes(c) = <<"chat">>
    BY <1>5 DEF Takes
  <2> QED BY <2>1, Plain1 DEF Words
<1>6. CASE c \in {"chat_with_peer", "mark_read", "send_typing_abort"}
  <2>1. Takes(c) = <<"peer">>
    BY <1>6 DEF Takes
  <2> QED BY <2>1, Plain1 DEF Words
<1>7. CASE c \in {"delete_msg", "get_message", "load_audio", "load_document",
                  "load_document_thumb", "load_file", "load_file_thumb",
                  "load_photo", "load_video", "load_video_thumb", "view",
                  "view_audio", "view_document", "view_document_thumb",
                  "view_file", "view_file_thumb", "view_photo", "view_video",
                  "view_video_thumb"}
  <2>1. Takes(c) = <<"msg_id">>
    BY <1>7 DEF Takes
  <2> QED BY <2>1, Plain1 DEF Words
<1>8. CASE c \in {"contact_search", "import_card", "import_channel_link",
                  "import_chat_link", "resolve_username", "set_phone_number",
                  "set_username"}
  <2>1. Takes(c) = <<"string">>
    BY <1>8 DEF Takes
  <2> QED BY <2>1, Plain1 DEF Words
<1>9. CASE c \in {"help", "set_password"}
  <2>1. Takes(c) = <<"string?">>
    BY <1>9 DEF Takes
  <2> QED BY <2>1, Plain1 DEF Words
<1>10. CASE c = "set_profile_photo"
  <2>1. Takes(c) = <<"string_end">>
    BY <1>10 DEF Takes
  <2> QED BY <2>1, Plain1 DEF Words
<1>11. CASE c \in {"channel_list", "dialog_list"}
  <2>1. Takes(c) = <<"number?", "number?">>
    BY <1>11 DEF Takes
  <2> QED BY <2>1, Plain2 DEF Words
<1>12. CASE c \in {"msg", "post", "post_text", "send_text"}
  <2>1. Takes(c) = <<"peer", "string_end">>
    BY <1>12 DEF Takes
  <2> QED BY <2>1, Plain2 DEF Words
<1>13. CASE c \in {"post_audio", "post_document", "post_file"}
  <2>1. Takes(c) = <<"peer", "string">>
    BY <1>13 DEF Takes
  <2> QED BY <2>1, Plain2 DEF Words
<1>14. CASE c \in {"reply_audio", "reply_document", "reply_file",
                   "reply_video"}
  <2>1. Takes(c) = <<"msg_id", "string">>
    BY <1>14 DEF Takes
  <2> QED BY <2>1, Plain2 DEF Words
<1>15. CASE c \in {"channel_invite", "channel_kick"}
  <2>1. Takes(c) = <<"channel", "user">>
    BY <1>15 DEF Takes
  <2> QED BY <2>1, Plain2 DEF Words
<1>16. CASE c \in {"channel_set_about", "channel_set_username"}
  <2>1. Takes(c) = <<"channel", "string">>
    BY <1>16 DEF Takes
  <2> QED BY <2>1, Plain2 DEF Words
<1>17. CASE c \in {"channel_set_photo", "rename_channel"}
  <2>1. Takes(c) = <<"channel", "string_end">>
    BY <1>17 DEF Takes
  <2> QED BY <2>1, Plain2 DEF Words
<1>18. CASE c \in {"chat_set_photo", "rename_chat"}
  <2>1. Takes(c) = <<"chat", "string_end">>
    BY <1>18 DEF Takes
  <2> QED BY <2>1, Plain2 DEF Words
<1>19. CASE c = "chat_del_user"
  <2>1. Takes(c) = <<"chat", "user">>
    BY <1>19 DEF Takes
  <2> QED BY <2>1, Plain2 DEF Words
<1>20. CASE c = "fwd_media"
  <2>1. Takes(c) = <<"peer", "msg_id">>
    BY <1>20 DEF Takes
  <2> QED BY <2>1, Plain2 DEF Words
<1>21. CASE c = "reply"
  <2>1. Takes(c) = <<"msg_id", "string_end">>
    BY <1>21 DEF Takes
  <2> QED BY <2>1, Plain2 DEF Words
<1>22. CASE c = "send_typing"
  <2>1. Takes(c) = <<"peer", "number?">>
    BY <1>22 DEF Takes
  <2> QED BY <2>1, Plain2 DEF Words
<1>23. CASE c = "set"
  <2>1. Takes(c) = <<"string", "number">>
    BY <1>23 DEF Takes
  <2> QED BY <2>1, Plain2 DEF Words
<1>24. CASE c = "set_profile_name"
  <2>1. Takes(c) = <<"string", "string">>
    BY <1>24 DEF Takes
  <2> QED BY <2>1, Plain2 DEF Words
<1>25. CASE c = "set_ttl"
  <2>1. Takes(c) = <<"secret", "number">>
    BY <1>25 DEF Takes
  <2> QED BY <2>1, Plain2 DEF Words
<1>26. CASE c \in {"channel_get_admins", "channel_get_members"}
  <2>1. Takes(c) = <<"channel", "number?", "number?">>
    BY <1>26 DEF Takes
  <2> QED BY <2>1, Plain3 DEF Words
<1>27. CASE c \in {"msg_kbd", "post_photo", "post_video", "send_audio",
                   "send_document", "send_file", "send_photo", "send_video"}
  <2>1. Takes(c) = <<"peer", "string", "string_end">>
    BY <1>27 DEF Takes
  <2> QED BY <2>1, Plain3 DEF Words
<1>28. CASE c \in {"post_location", "send_location"}
  <2>1. Takes(c) = <<"peer", "number", "number">>
    BY <1>28 DEF Takes
  <2> QED BY <2>1, Plain3 DEF Words
<1>29. CASE c = "add_contact"
  <2>1. Takes(c) = <<"string", "string", "string">>
    BY <1>29 DEF Takes
  <2> QED BY <2>1, Plain3 DEF Words
<1>30. CASE c = "channel_set_admin"
  <2>1. Takes(c) = <<"channel", "user", "number">>
    BY <1>30 DEF Takes
  <2> QED BY <2>1, Plain3 DEF Words
<1>31. CASE c = "chat_add_user"
  <2>1. Takes(c) = <<"chat", "user", "number?">>
    BY <1>31 DEF Takes
  <2> QED BY <2>1, Plain3 DEF Words
<1>32. CASE c = "history"
  <2>1. Takes(c) = <<"peer", "number?", "number?">>
    BY <1>32 DEF Takes
  <2> QED BY <2>1, Plain3 DEF Words
<1>33. CASE c = "rename_contact"
  <2>1. Takes(c) = <<"user", "string", "string">>
    BY <1>33 DEF Takes
  <2> QED BY <2>1, Plain3 DEF Words
<1>34. CASE c = "reply_location"
  <2>1. Takes(c) = <<"msg_id", "number", "number">>
    BY <1>34 DEF Takes
  <2> QED BY <2>1, Plain3 DEF Words
<1>35. CASE c = "reply_photo"
  <2>1. Takes(c) = <<"msg_id", "string", "string_end">>
    BY <1>35 DEF Takes
  <2> QED BY <2>1, Plain3 DEF Words
<1>36. CASE c = "start_bot"
  <2>1. Takes(c) = <<"user", "chat", "string">>
    BY <1>36 DEF Takes
  <2> QED BY <2>1, Plain3 DEF Words
<1>37. CASE c = "reply_contact"
  <2>1. Takes(c) = <<"msg_id", "string", "string", "string">>
    BY <1>37 DEF Takes
  <2> QED BY <2>1, Plain4 DEF Words
<1>38. CASE c = "send_contact"
  <2>1. Takes(c) = <<"peer", "string", "string", "string">>
    BY <1>38 DEF Takes
  <2> QED BY <2>1, Plain4 DEF Words
<1>39. CASE c = "search"
  <2>1. Takes(c) = <<"peer?", "number?", "number?", "number?",
                     "number?", "string_end">>
    BY <1>39 DEF Takes
  <2>2. "peer?" \in Words /\ "number?" \in Words
    BY DEF Words
  <2> QED BY <2>1, <2>2, Plain6
<1> QED
  BY <1>1, <1>2, <1>3, <1>4, <1>5, <1>6, <1>7, <1>8, <1>9, <1>10, <1>11,
     <1>12, <1>13, <1>14, <1>15, <1>16, <1>17, <1>18, <1>19, <1>20, <1>21,
     <1>22, <1>23, <1>24, <1>25, <1>26, <1>27, <1>28, <1>29, <1>30, <1>31,
     <1>32, <1>33, <1>34, <1>35, <1>36, <1>37, <1>38, <1>39
     DEF Repeating, Commands, ProgramCommands, TextCommands, FileCommands,
         ForwardCommands, ProfileCommands, ChatCommands, UserCommands,
         SecretChatCommands, ChannelCommands, DialogCommands, MessageCommands,
         MediaCommands, PeerPhotos, Thumbs

\* What each word of the table that a handler relies on gives.
LEMMA GivesIs ==
  /\ Gives("user") = Users /\ Gives("chat") = {"chat"}
  /\ Gives("channel") = {"channel"} /\ Gives("secret") = Secrets
  /\ Gives("msg_id") = Numbers \cup {"message"}
BY DEF Gives, Reads, Optional

\* The handlers, with the arguments of their rows.
LEMMA ProgramHandled ==
  ASSUME NEW c \in ProgramCommands, NEW a \in Fits(Takes(c)),
         NEW how \in Ending, ~TakesOnTrust(c, a)
  PROVE  how \notin OnProgram(c, a)
<1> USE DEF Ending
<1>1. Len(a) = Len(Takes(c))
  BY DEF Fits
<1>2. CASE c = "chat_with_peer"
  <2>1. Len(a) = 1
    BY <1>1, <1>2 DEF Takes
  <2>2. a[1] \in Known
    BY <1>2, <2>1 DEF Fits, TakesOnTrust
  <2> QED BY <1>2, <2>2 DEF OnProgram
<1>3. CASE c # "chat_with_peer"
  BY <1>1, <1>3 DEF ProgramCommands, Takes, OnProgram, Gets, Asserted,
     TermsOfService
<1> QED BY <1>2, <1>3

\* Those of a message.
LEMMA TextHandled ==
  ASSUME NEW c \in TextCommands, NEW a \in Fits(Takes(c)), NEW mods,
         NEW how \in Ending
  PROVE  how \notin OnText(c, a, mods)
<1> USE DEF Ending
<1>1. Len(a) = Len(Takes(c))
  BY DEF Fits
<1> QED
  BY <1>1 DEF TextCommands, Takes, OnText, Gets, Asserted, Refused,
     SendMessage, OfMessage, Reply, SendText

\* Those of a file.
LEMMA FileHandled ==
  ASSUME NEW c \in FileCommands, NEW a \in Fits(Takes(c)),
         NEW how \in Ending, ~TakesOnTrust(c, a)
  PROVE  how \notin OnFile(c, a)
<1> USE DEF Ending
<1>1. Len(a) = Len(Takes(c))
  BY DEF Fits
<1>2. Len(Takes(c)) >= 2
  BY DEF FileCommands, Takes
<1>3. c # "reply_audio" /\ a[1] # "unheard"
  BY <1>1, <1>2 DEF TakesOnTrust, Trusting, Fits
<1>4. ASSUME NEW m PROVE how \notin Reply(m, SendFile("chat"))
  BY DEF Reply, Refused, SendFile
<1> QED
  BY <1>1, <1>2, <1>3, <1>4 DEF OnFile, Asserted, OfMessage, SendFile

\* Those of what is sent on.
LEMMA ForwardHandled ==
  ASSUME NEW c \in ForwardCommands \ Repeating, NEW a \in Fits(Takes(c)),
         NEW how \in Ending, ~TakesOnTrust(c, a)
  PROVE  how \notin OnForward(c, a)
<1> USE DEF Ending
<1>1. Len(a) = Len(Takes(c))
  BY DEF Fits
<1>2. CASE c = "fwd_media"
  BY <1>1, <1>2 DEF Takes, OnForward, Gets, Asserted, Refused, OfMessage,
     ForwardMedia
<1>3. CASE c \in {"send_contact", "reply_contact"}
  <2>1. Len(a) = 4
    BY <1>1, <1>3 DEF Takes
  <2>2. ASSUME NEW p, NEW m PROVE how \notin Reply(m, SendContact(p))
    BY DEF Reply, Refused, SendContact
  <2> QED BY <1>3, <2>1, <2>2 DEF OnForward, Gets, Asserted, OfMessage,
             SendContact, Refused
<1>4. CASE c \in {"send_location", "post_location"}
  <2>1. Len(a) = 3
    BY <1>1, <1>4 DEF Takes
  <2>2. a[1] # "unheard"
    BY <1>4, <2>1 DEF TakesOnTrust, Trusting, Fits
  <2> QED BY <1>4, <2>1, <2>2 DEF OnForward, Gets, Asserted, SendLocation,
             Refused
<1>5. CASE c = "reply_location"
  <2>1. Len(a) = 3
    BY <1>1, <1>5 DEF Takes
  <2>2. ASSUME NEW m PROVE how \notin Reply(m, SendLocation("chat"))
    BY DEF Reply, Refused, SendLocation, Asserted
  <2> HIDE DEF Ending
  <2> QED BY <1>5, <2>1, <2>2 DEF OnForward, Gets, Asserted, OfMessage
<1> QED
  BY <1>2, <1>3, <1>4, <1>5 DEF ForwardCommands, Repeating

\* Those of the profile.
LEMMA ProfileHandled ==
  ASSUME NEW c \in ProfileCommands, NEW a \in Fits(Takes(c)),
         NEW how \in Ending
  PROVE  how \notin OnProfile(c, a)
<1> USE DEF Ending
<1>1. Len(a) = Len(Takes(c))
  BY DEF Fits
<1> QED
  BY <1>1 DEF ProfileCommands, Takes, OnProfile, Gets, Asserted, Refused,
     SendFile, SetProfileName, SetPhoneNumber, SetPassword, UpdateStatus,
     Card, UserInfo, Info, OfKnown, Users

\* Those of a group.
LEMMA ChatHandled ==
  ASSUME NEW c \in ChatCommands \ Repeating, NEW a \in Fits(Takes(c)), NEW mods,
         NEW how \in Ending
  PROVE  how \notin OnChat(c, a, mods)
<1> USE DEF Ending
<1>1. Len(a) = Len(Takes(c))
  BY DEF Fits
<1>2. CASE c \in {"chat_set_photo", "rename_chat"}
  <2>1. Takes(c) = <<"chat", "string_end">>
    BY <1>2 DEF Takes
  <2>2. a[1] = "chat" /\ Len(a) = 2
    BY <1>1, <2>1, GivesIs DEF Fits
  <2> QED BY <1>2, <2>2 DEF OnChat, Gets, Asserted, SetPhoto, SendFile,
             ChangeGroup, SendMsgs
<1>3. CASE c = "chat_add_user"
  <2>1. Takes(c) = <<"chat", "user", "number?">>
    BY <1>3 DEF Takes
  <2>2. a[2] \in Users /\ Len(a) = 3
    BY <1>1, <2>1, GivesIs DEF Fits
  <2> QED BY <1>3, <2>2 DEF OnChat, Gets, Asserted, ChangeMembers, SendMsgs
<1>4. CASE c \in {"chat_del_user", "channel_invite", "channel_kick"}
  <2>1. \E x : Takes(c) = <<x, "user">>
    BY <1>4 DEF Takes
  <2>2. a[2] \in Users /\ Len(a) = 2
    BY <1>1, <2>1, GivesIs DEF Fits
  <2> QED BY <1>4, <2>2 DEF OnChat, Gets, Asserted, ChangeMembers, SendMsgs
<1>5. CASE c \in {"chat_info", "channel_info", "export_chat_link",
                 "import_chat_link", "import_channel_link",
                 "channel_get_members", "channel_get_admins", "chat_upgrade"}
  BY <1>1, <1>5 DEF Takes, OnChat, Gets, Asserted, Refused, ChatInfo,
     ChannelInfo, Info, OfKnown, ExportLink, ImportLink, UpgradeGroup, SendMsgs
<1> QED
  BY <1>2, <1>3, <1>4, <1>5 DEF ChatCommands, Repeating

\* Those of a user.
LEMMA UserHandled ==
  ASSUME NEW c \in UserCommands, NEW a \in Fits(Takes(c)), NEW mods,
         NEW how \in Ending
  PROVE  how \notin OnUser(c, a, mods)
<1> USE DEF Ending
<1>1. Len(a) = Len(Takes(c))
  BY DEF Fits
<1> QED
  BY <1>1 DEF UserCommands, Takes, OnUser, Gets, Asserted, Refused, UserInfo,
     Info, OfKnown, AddContact, DelContact, Card, BlockUser

\* Those of a secret chat.
LEMMA SecretChatHandled ==
  ASSUME NEW c \in SecretChatCommands, NEW a \in Fits(Takes(c)),
         NEW how \in Ending, ~TakesOnTrust(c, a)
  PROVE  how \notin OnSecretChat(c, a)
<1> USE DEF Ending
<1>1. Len(a) = Len(Takes(c))
  BY DEF Fits
<1>2. c = "visualize_key" => a[1] \in Secrets \ Unknown
  BY GivesIs DEF Takes, Fits, TakesOnTrust, Trusting, Secrets, Unknown
<1>3. c = "create_secret_chat" => a[1] \in Users
  BY GivesIs DEF Takes, Fits
<1> QED
  BY <1>1, <1>2, <1>3 DEF SecretChatCommands, Takes, OnSecretChat, Gets,
     Asserted, Refused, OfKnown, AcceptSecretChat, SetTtl, VisualizeKey,
     CreateSecretChat

\* Those of a channel.
LEMMA ChannelHandled ==
  ASSUME NEW c \in ChannelCommands \ Repeating, NEW a \in Fits(Takes(c)),
         NEW how \in Ending
  PROVE  how \notin OnChannel(c, a)
<1> USE DEF Ending
<1>1. Len(a) = Len(Takes(c))
  BY DEF Fits
<1>2. CASE c = "channel_set_admin"
  <2>1. Takes(c) = <<"channel", "user", "number">>
    BY <1>2 DEF Takes
  <2>2. a[1] = "channel" /\ a[2] \in Users /\ Len(a) = 3
    BY <1>1, <2>1, GivesIs DEF Fits
  <2> QED BY <1>2, <2>2 DEF OnChannel, Gets, Asserted, ChangeGroup, SendMsgs
<1>3. CASE c \in {"rename_channel", "channel_set_about",
                 "channel_set_username", "channel_set_photo"}
  <2>1. \E x : Takes(c) = <<"channel", x>>
    BY <1>3 DEF Takes
  <2>2. a[1] = "channel" /\ Len(a) = 2
    BY <1>1, <2>1, GivesIs DEF Fits
  <2> QED BY <1>3, <2>2 DEF OnChannel, Gets, Asserted, ChangeGroup, SendMsgs,
             SetPhoto, SendFile
<1>4. CASE c \in {"channel_join", "channel_leave", "export_channel_link"}
  <2>1. Takes(c) = <<"channel">>
    BY <1>4 DEF Takes
  <2>2. a[1] = "channel" /\ Len(a) = 1
    BY <1>1, <2>1, GivesIs DEF Fits
  <2> QED BY <1>4, <2>2 DEF OnChannel, Gets, Asserted, Refused, ChangeGroup,
             SendMsgs, ExportLink
<1> QED
  BY <1>2, <1>3, <1>4 DEF ChannelCommands, Repeating

\* Those of the dialogs.
LEMMA DialogHandled ==
  ASSUME NEW c \in DialogCommands, NEW a \in Fits(Takes(c)), NEW mods,
         NEW how \in Ending
  PROVE  how \notin OnDialog(c, a, mods)
<1> USE DEF Ending
<1>1. Len(a) = Len(Takes(c))
  BY DEF Fits
<1> QED
  BY <1>1 DEF DialogCommands, Takes, OnDialog, Gets, Asserted, Refused,
     ContactSearch, UpdateContactList, MarkRead, History, OfKnown, SendTyping

\* Those of messages.
LEMMA MessageHandled ==
  ASSUME NEW c \in MessageCommands, NEW a \in Fits(Takes(c)),
         NEW how \in Ending
  PROVE  how \notin OnMessage(c, a)
<1> USE DEF Ending
<1>1. Len(a) = Len(Takes(c))
  BY DEF Fits
<1>2. CASE c \in {"delete_msg", "get_message"}
  <2>1. Len(a) = 1
    BY <1>1, <1>2 DEF Takes
  <2> QED BY <1>2, <2>1 DEF OnMessage, Gets, Asserted, Refused, OfMessage,
             DeleteMsg, GetMessage
<1>3. CASE c \in {"search", "start_bot", "clear"}
  BY <1>1, <1>3 DEF Takes, OnMessage, Gets, Asserted, Refused, SearchIn,
     StartBot, SendMsgs
<1> QED
  BY <1>2, <1>3 DEF MessageCommands

\* Those of media.
LEMMA MediaHandled ==
  ASSUME NEW c \in MediaCommands, NEW a \in Fits(Takes(c)),
         NEW how \in Ending
  PROVE  how \notin OnMedia(c, a)
<1> USE DEF Ending
<1>1. Len(a) = 1
  BY DEF MediaCommands, PeerPhotos, Thumbs, Takes, Fits
<1>2. ASSUME c \notin PeerPhotos PROVE a[1] \in Numbers \cup {"message"}
  <2>1. Takes(c) = <<"msg_id">>
    BY <1>2 DEF MediaCommands, PeerPhotos, Thumbs, Takes
  <2> QED BY <2>1, GivesIs DEF Fits
<1>3. ASSUME NEW m \in Named(a[1]), c \notin PeerPhotos
      PROVE  how \notin LoadMedia(m)
  BY <1>2, <1>3 DEF Named, Numbers, Held, LoadMedia, LoadFile
<1> QED
  BY <1>1, <1>3 DEF OnMedia, Gets, Asserted, OfKnown, OfMessage, LoadThumb,
     LoadFile

\* A row whose k-th word is repeated: the words before it are asked for one by
\* one, and after it there is nothing, or the rest of the line.
Repeated(row, k) ==
  /\ k \in Nat \ {0} /\ Len(row) \in {k + 1, k + 2} /\ row[k + 1] = "period"
  /\ \A i \in 1 .. k - 1 : row[i] \in Words \ Optional
  /\ row[k] \in Words \ Text
  /\ Len(row) = k + 2 => row[k + 2] = "string_end"

\* A word in quotes stands where one more might be repeated, and may be left
\* out: it is looked for for ever.
Stuck(row, k, line) ==
  /\ row[k] \in Optional
  /\ \E i \in k .. Len(line) :
       /\ line[i] \in Quoted
       /\ \A j \in k .. i - 1 : line[j] \in Reads(row[k])

\* What has been read of such a line.
Gathered(row, k, line) ==
  {b \in Seq(Arguments) :
     /\ k - 1 <= Len(b) /\ Len(b) <= Len(line)
     /\ \A i \in k .. Len(b) : b[i] = line[i] /\ b[i] \in Reads(row[k])}

\* A line of such a command gives it all its words, or what was read of them
\* and the rest of it, or is refused, or is too long.
LEMMA RepeatedRead ==
  ASSUME NEW row, NEW k, Repeated(row, k), NEW line \in Seq(Tokens),
         ~Stuck(row, k, line)
  PROVE  \/ Read(row, line) \in {Ended("says"), Ended("quiet")}
         \/ Read(row, line) = Ended("aborts") /\ Len(line) >= Room
         \/ \E b \in Gathered(row, k, line) :
              \/ Read(row, line) = Called(b) /\ Len(b) = Len(line)
              \/ /\ Read(row, line) = Called(Append(b, "text"))
                 /\ Len(row) = k + 2
<1> DEFINE G == {Ended("says"), Ended("quiet")}
                  \cup {r \in {Ended("aborts")} : Len(line) >= Room}
                  \cup {Called(b) : b \in {d \in Gathered(row, k, line) :
                                             Len(d) = Len(line)}}
                  \cup {Called(Append(b, "text")) :
                          b \in {d \in Gathered(row, k, line) :
                                   Len(row) = k + 2}}
           I == {s \in Points(row, line) :
                   /\ s.pos = Len(s.args) + 1
                   /\ \/ s.at < k /\ s.at = s.pos
                      \/ s.at = k
                      \/ s.at = k + 2 /\ s.pos <= Len(line)
                   /\ s.at >= k => s.args \in Gathered(row, k, line)}
           start == [at |-> 1, pos |-> 1, args |-> <<>>]
<1>1. /\ Len(row) \in Nat /\ k \in Nat \ {0} /\ Len(row) \in {k + 1, k + 2}
      /\ row[k + 1] = "period" /\ Len(line) \in Nat
  BY DEF Repeated
<1>2. start \in I
  <2>1. start \in Points(row, line)
    BY <1>1 DEF Points
  <2>2. k = 1 => <<>> \in Gathered(row, k, line)
    BY <1>1 DEF Gathered
  <2> QED BY <1>1, <2>1, <2>2
<1>3. ASSUME NEW s \in I, NEW f,
             \A x \in I \cap Further(row, line, s) : f[x] \in G
      PROVE  Argument(row, line, f, s) \in G
  <2>1. /\ s \in Points(row, line)
        /\ s.at \in 1 .. Len(row) + 1 /\ s.pos \in 1 .. Len(line) + 1
        /\ s.args \in Seq(Arguments)
    BY DEF Points
  <2>2. PICK n \in Nat : n = Len(s.args)
    BY <2>1
  <2>3. PICK l \in Nat : l = Len(line)
    BY <1>1
  <2>4. PICK pos \in 1 .. l + 1 : pos = s.pos /\ pos = n + 1
    BY <2>1, <2>2, <2>3
  <2>5. PICK at \in Nat \ {0} :
          /\ at = s.at /\ (at < k => at = pos)
          /\ \/ at < k \/ at = k
             \/ at = k + 2 /\ pos <= l
    BY <1>1, <2>1, <2>2, <2>3, <2>4
  <2>6. at >= k => s.args \in Gathered(row, k, line)
    BY <2>5
  <2>7. PICK o, t : o = row[s.at] /\ t = line[s.pos]
    OBVIOUS
  <2>8. PICK ended \in BOOLEAN : ended <=> pos > l
    OBVIOUS
  <2>9. PICK again \in BOOLEAN : again <=> Repeats(row, s.at)
    OBVIOUS
  <2>10. PICK turn : turn = Argument(row, line, f, s)
    OBVIOUS
  <2>11. ended <=> s.pos > Len(line)
    BY <2>3, <2>4, <2>8
  <2>a. ~ended => /\ s.pos \in 1 .. Len(line)
                  /\ s.pos + 1 \in s.pos .. Len(line) + 1
    BY <2>3, <2>4, <2>8
  <2>b. ~ended => t \in Arguments
    BY <2>7, <2>a DEF Arguments
  <2> DEFINE To(arg, p) == f[Onwards(row, s, arg, p)]
  <2>12. CASE n >= Room
    <3>1. l >= Room
      BY <2>4, <2>12, RoomAssumption
    <3>2. turn = Ended("aborts")
      BY <2>2, <2>10, <2>12 DEF Argument
    <3> QED BY <2>3, <2>10, <3>1, <3>2
  <2>13. CASE ~(n >= Room)
    <3>1. ~(Len(s.args) >= Room) /\ Len(s.args) < Room
      BY <2>2, <2>13, RoomAssumption
    <3>2. /\ s.at > Len(row) =>
               turn = IF ended THEN Called(s.args) ELSE Ended("says")
          /\ ~(s.at > Len(row)) /\ o = "string_end" =>
               turn = IF IsOneText(line, s.pos)
                      THEN Called(Append(s.args, "text")) ELSE Ended("says")
          /\ ~(s.at > Len(row)) /\ o # "string_end" =>
               /\ again /\ ended => turn = Called(s.args)
               /\ ~(again /\ ended) /\ o \in Text =>
                    turn = IF ~ended /\ t # "unclosed"
                           THEN To("text", s.pos + 1)
                           ELSE IF o \in Optional
                           THEN To("none", Len(line) + 1)
                           ELSE Ended("says")
               /\ ~(again /\ ended) /\ o \notin Text /\ (ended \/ t \in Quoted)
                    => turn = IF o \in Optional THEN To("none", s.pos)
                              ELSE IF again THEN f[Past(s)]
                              ELSE Ended("quiet")
               /\ ~ended /\ o \notin Text /\ t \notin Quoted
                    => turn = IF t \in Reads(o) THEN To(t, s.pos + 1)
                              ELSE IF again THEN f[Past(s)]
                              ELSE IF o \in Optional THEN To("none", s.pos)
                              ELSE Ended("says")
      BY <2>7, <2>9, <2>10, <2>11, <3>1, TurnIs
    <3>3. Ended("says") \in G /\ Ended("quiet") \in G
      OBVIOUS
    <3>4. ASSUME at < k PROVE turn \in G
      <4>1. /\ ~(s.at > Len(row)) /\ s.at <= Len(row)
            /\ o \in Words \ Optional
        BY <1>1, <2>5, <2>7, <3>4 DEF Repeated
      <4>2. ~again
        <5>1. at + 1 \in 1 .. k
          BY <1>1, <2>5, <3>4
        <5>2. "period" \notin Words
          BY DEF Words
        <5>3. row[at + 1] # "period"
          BY <1>1, <5>1, <5>2 DEF Repeated
        <5> QED BY <2>5, <2>9, <5>3 DEF Repeats
      <4>3. ASSUME NEW arg \in Arguments, ~ended
            PROVE  To(arg, s.pos + 1) \in G
        <5> DEFINE x == Onwards(row, s, arg, s.pos + 1)
                   a == Append(s.args, arg)
        <5>1. x = [at |-> s.at + 1, pos |-> s.pos + 1, args |-> a]
          BY <2>9, <4>2 DEF Onwards
        <5>2. s.pos + 1 \in s.pos .. Len(line) + 1
          BY <2>3, <2>4, <2>8, <4>3
        <5>3. x \in Further(row, line, s)
          BY <1>1, <2>1, <2>9, <3>1, <4>1, <4>2, <5>1, <5>2, TurnGoesFurther
        <5>4. x \in Points(row, line)
          BY <5>3 DEF Further
        <5>5. x.at = at + 1 /\ x.pos = pos + 1 /\ x.args = a
              /\ Len(a) = n + 1 /\ a \in Seq(Arguments)
          BY <2>1, <2>2, <2>4, <2>5, <5>1
        <5>6. at + 1 >= k => a \in Gathered(row, k, line)
          <6>1. at + 1 >= k => k - 1 <= n + 1 /\ n + 1 <= l /\ k .. n + 1 = {}
            BY <1>1, <2>4, <2>5, <2>8, <3>4, <4>3
          <6> QED BY <2>3, <5>5, <6>1 DEF Gathered
        <5>7. x \in I
          <6> HIDE DEF x, a
          <6> QED BY <1>1, <2>4, <2>5, <3>4, <5>4, <5>5, <5>6
        <5> QED BY <1>3, <5>3, <5>7
      <4> HIDE DEF To, G
      <4>4. "text" \in Arguments
        BY DEF Arguments
      <4>6. o # "string_end"
        BY <4>1 DEF Words
      <4>7. o \notin Optional
        BY <4>1
      <4> QED BY <3>2, <3>3, <4>1, <4>2, <4>3, <4>4, <2>b, <4>6, <4>7
    <3>5. ASSUME at = k PROVE turn \in G
      <4>1. /\ ~(s.at > Len(row)) /\ s.at <= Len(row) /\ again
            /\ o \notin Text /\ o = row[k]
        BY <1>1, <2>5, <2>7, <2>9, <3>5 DEF Repeated, Repeats
      <4>2. o # "string_end"
        BY <1>1, <4>1 DEF Repeated, Words
      <4>3. s.args \in Gathered(row, k, line)
        BY <1>1, <2>6, <3>5
      <4>4. ASSUME ended PROVE turn \in G
        <5>1. Len(s.args) = Len(line)
          BY <2>2, <2>3, <2>4, <2>8, <4>4
        <5> QED BY <3>2, <4>1, <4>2, <4>3, <4>4, <5>1
      <4>5. ASSUME ~ended PROVE f[Past(s)] \in G
        <5> DEFINE x == Past(s)
        <5>1. x \in Further(row, line, s)
          BY <1>1, <2>1, <2>9, <3>1, <4>1, TurnGoesFurther DEF Past
        <5>2. x \in Points(row, line)
          BY <5>1 DEF Further
        <5>3. x.at = k + 2 /\ x.pos = pos /\ x.args = s.args /\ pos <= l
          BY <2>4, <2>5, <2>8, <3>5, <4>5 DEF Past
        <5>4. x \in I
          <6> HIDE DEF x
          <6> QED BY <1>1, <2>2, <2>3, <2>4, <4>3, <5>2, <5>3
        <5> QED BY <1>3, <5>1, <5>4
      <4>6. ASSUME ~ended, t \in Reads(o) PROVE To(t, s.pos + 1) \in G
        <5> DEFINE x == Onwards(row, s, t, s.pos + 1)
                   a == Append(s.args, t)
        <5>1. x = [at |-> s.at, pos |-> s.pos + 1, args |-> a]
          BY <2>9, <4>1 DEF Onwards
        <5>2. s.pos + 1 \in s.pos .. Len(line) + 1 /\ t \in Arguments
          BY <2>a, <2>b, <4>6
        <5>3. x \in Further(row, line, s)
          BY <1>1, <2>1, <2>9, <3>1, <4>1, <5>1, <5>2, TurnGoesFurther
        <5>4. x \in Points(row, line)
          BY <5>3 DEF Further
        <5>5. x.at = k /\ x.pos = pos + 1 /\ x.args = a
              /\ Len(a) = n + 1 /\ a \in Seq(Arguments)
          BY <2>1, <2>2, <2>4, <2>5, <3>5, <5>1, <5>2
        <5>6. a \in Gathered(row, k, line)
          <6>1. k - 1 <= n
            BY <2>2, <4>3 DEF Gathered
          <6>2. n + 1 <= l
            BY <2>4, <2>8, <4>6
          <6>3. ASSUME NEW i \in k .. n + 1
                PROVE  a[i] = line[i] /\ a[i] \in Reads(row[k])
            <7>1. CASE i = n + 1
              BY <2>1, <2>2, <2>4, <2>7, <4>1, <4>6, <7>1
            <7>2. CASE i # n + 1
              <8>1. i \in k .. n /\ a[i] = s.args[i]
                BY <1>1, <2>1, <2>2, <7>2
              <8> QED BY <2>2, <4>3, <8>1 DEF Gathered
            <7> QED BY <7>1, <7>2
          <6> HIDE DEF a
          <6> QED BY <1>1, <2>3, <5>5, <6>1, <6>2, <6>3 DEF Gathered
        <5>7. x \in I
          <6> HIDE DEF x, a
          <6> QED BY <1>1, <2>4, <5>4, <5>5, <5>6
        <5> QED BY <1>3, <5>3, <5>7
      <4>7. ASSUME ~ended, t \in Quoted PROVE o \notin Optional
        <5>1. pos \in k .. l
          BY <1>1, <2>2, <2>4, <2>8, <4>3, <4>7 DEF Gathered
        <5>2. \A j \in k .. pos - 1 : line[j] \in Reads(row[k])
          BY <2>2, <2>4, <4>3 DEF Gathered
        <5> QED BY <2>3, <2>4, <2>7, <4>1, <4>7, <5>1, <5>2 DEF Stuck
      <4> HIDE DEF To, G
      <4> QED BY <3>2, <3>3, <4>1, <4>2, <4>4, <4>5, <4>6, <4>7
    <3>6. ASSUME at = k + 2, pos <= l PROVE turn \in G
      <4>1. ~ended
        BY <2>8, <3>6
      <4>2. s.at > Len(row) \/ (o = "string_end" /\ Len(row) = k + 2)
        BY <1>1, <2>5, <2>7, <3>6 DEF Repeated
      <4>3. s.args \in Gathered(row, k, line)
        BY <1>1, <2>6, <3>6
      <4>4. CASE s.at > Len(row)
        BY <3>2, <3>3, <4>1, <4>4
      <4>5. CASE ~(s.at > Len(row))
        <5>1. Called(Append(s.args, "text")) \in G
          BY <4>2, <4>3, <4>5
        <5> QED BY <3>2, <3>3, <4>2, <4>5, <5>1
      <4> QED BY <4>4, <4>5
    <3> QED BY <2>5, <2>10, <3>4, <3>5, <3>6
  <2> QED BY <2>12, <2>13
<1> HIDE DEF I, G
<1>4. I \subseteq Points(row, line)
  BY DEF I
<1>5. Read(row, line) \in G
  BY <1>1, <1>2, <1>3, <1>4, ReadBecomes
<1> QED BY <1>5 DEF G

\* With the arguments of its row no handler fails an assertion.
LEMMA CommandHandled ==
  ASSUME NEW c \in Commands, c \notin Repeating, NEW a \in Fits(Takes(c)),
         NEW mods,
         NEW how \in Ending, ~TakesOnTrust(c, a)
  PROVE  how \notin Handle(c, a, mods)
<1> USE DEF Ending
<1>1. c \in ProgramCommands => how \notin OnProgram(c, a)
  BY ProgramHandled
<1>2. c \in TextCommands => how \notin OnText(c, a, mods)
  BY TextHandled
<1>3. c \in FileCommands => how \notin OnFile(c, a)
  BY FileHandled
<1>4. c \in ForwardCommands => how \notin OnForward(c, a)
  BY ForwardHandled
<1>5. c \in ProfileCommands => how \notin OnProfile(c, a)
  BY ProfileHandled
<1>6. c \in ChatCommands => how \notin OnChat(c, a, mods)
  BY ChatHandled
<1>7. c \in UserCommands => how \notin OnUser(c, a, mods)
  BY UserHandled
<1>8. c \in SecretChatCommands => how \notin OnSecretChat(c, a)
  BY SecretChatHandled
<1>9. c \in ChannelCommands => how \notin OnChannel(c, a)
  BY ChannelHandled
<1>10. c \in DialogCommands => how \notin OnDialog(c, a, mods)
  BY DialogHandled
<1>11. c \in MessageCommands => how \notin OnMessage(c, a)
  BY MessageHandled
<1>12. c \in MediaCommands => how \notin OnMedia(c, a)
  BY MediaHandled
<1> QED
  BY <1>1, <1>2, <1>3, <1>4, <1>5, <1>6, <1>7, <1>8, <1>9, <1>10, <1>11,
     <1>12 DEF Commands, Handle

\* The four rows in which a word is repeated.
LEMMA RowsRepeat ==
  /\ Repeated(Takes("fwd"), 2) /\ Len(Takes("fwd")) = 3
  /\ Repeated(Takes("broadcast"), 1)
  /\ Repeated(Takes("create_group_chat"), 2)
  /\ Len(Takes("create_group_chat")) = 3
  /\ Repeated(Takes("create_channel"), 3) /\ Len(Takes("create_channel")) = 4
<1>1. /\ Takes("fwd") = <<"peer", "msg_id", "period">>
      /\ Takes("broadcast") = <<"user", "period", "string_end">>
      /\ Takes("create_group_chat") = <<"string", "user", "period">>
      /\ Takes("create_channel") = <<"string", "string", "user?", "period">>
  BY DEF Takes
<1>2. Repeated(<<"peer", "msg_id", "period">>, 2)
  BY DEF Repeated, Words, Optional, Text
<1>3. Repeated(<<"user", "period", "string_end">>, 1)
  BY DEF Repeated, Words, Optional, Text
<1>4. Repeated(<<"string", "user", "period">>, 2)
  BY DEF Repeated, Words, Optional, Text
<1>5. Repeated(<<"string", "string", "user?", "period">>, 3)
  <2>1. \A i \in 1 .. 2 : i \in {1, 2}
    OBVIOUS
  <2>2. "string" \in Words /\ "user?" \in Words
    BY DEF Words
  <2>3. "string" \notin Optional
    BY DEF Optional
  <2>4. "user?" \notin Text
    BY DEF Text
  <2>5. PICK row : row = <<"string", "string", "user?", "period">>
    OBVIOUS
  <2>6. /\ Len(row) = 4 /\ row[1] = "string" /\ row[2] = "string"
        /\ row[3] = "user?" /\ row[4] = "period"
    BY <2>5
  <2>7. \A i \in 1 .. 3 - 1 : row[i] \in Words \ Optional
    BY <2>1, <2>2, <2>3, <2>6
  <2>8. Repeated(row, 3)
    BY <2>2, <2>4, <2>6, <2>7 DEF Repeated
  <2> QED BY <2>5, <2>8
<1> QED BY <1>1, <1>2, <1>3, <1>4, <1>5

\* Their handlers.
LEMMA RepeatedHandled ==
  ASSUME NEW a, NEW mods
  PROVE  /\ Handle("fwd", a, mods) = OnForward("fwd", a)
         /\ Handle("broadcast", a, mods) = OnForward("broadcast", a)
         /\ Handle("create_group_chat", a, mods)
              = OnChat("create_group_chat", a, mods)
         /\ Handle("create_channel", a, mods) = OnChannel("create_channel", a)
<1>1. ASSUME NEW c \in {"fwd", "broadcast"}
      PROVE  /\ c \in ForwardCommands
             /\ c \notin ProgramCommands \cup TextCommands
             /\ c \notin ProfileCommands \cup ChatCommands
             /\ c \notin UserCommands \cup SecretChatCommands
             /\ c \notin ChannelCommands \cup DialogCommands
             /\ c \notin MessageCommands \cup MediaCommands
             /\ c \notin FileCommands
  BY DEF ProgramCommands, TextCommands, ForwardCommands, ProfileCommands,
     ChatCommands, UserCommands, SecretChatCommands, ChannelCommands,
     DialogCommands, MessageCommands, MediaCommands, FileCommands,
     PeerPhotos, Thumbs
<1>2. ASSUME NEW c \in {"create_group_chat"}
      PROVE  /\ c \in ChatCommands
             /\ c \notin ProgramCommands \cup TextCommands
             /\ c \notin ForwardCommands \cup ProfileCommands
             /\ c \notin UserCommands \cup SecretChatCommands
             /\ c \notin ChannelCommands \cup DialogCommands
             /\ c \notin MessageCommands \cup MediaCommands
             /\ c \notin FileCommands
  BY DEF ProgramCommands, TextCommands, ForwardCommands, ProfileCommands,
     ChatCommands, UserCommands, SecretChatCommands, ChannelCommands,
     DialogCommands, MessageCommands, MediaCommands, FileCommands,
     PeerPhotos, Thumbs
<1>3. ASSUME NEW c \in {"create_channel"}
      PROVE  /\ c \in ChannelCommands
             /\ c \notin ProgramCommands \cup TextCommands
             /\ c \notin ForwardCommands \cup ProfileCommands
             /\ c \notin ChatCommands \cup UserCommands
             /\ c \notin SecretChatCommands \cup DialogCommands
             /\ c \notin MessageCommands \cup MediaCommands
             /\ c \notin FileCommands
  BY DEF ProgramCommands, TextCommands, ForwardCommands, ProfileCommands,
     ChatCommands, UserCommands, SecretChatCommands, ChannelCommands,
     DialogCommands, MessageCommands, MediaCommands, FileCommands,
     PeerPhotos, Thumbs
<1>4. ASSUME NEW c \in {"fwd", "broadcast"}
      PROVE  Handle(c, a, mods) = OnForward(c, a)
  BY <1>1 DEF Handle
<1>5. Handle("create_group_chat", a, mods)
        = OnChat("create_group_chat", a, mods)
  BY <1>2 DEF Handle
<1>6. Handle("create_channel", a, mods) = OnChannel("create_channel", a)
  BY <1>3 DEF Handle
<1> QED BY <1>4, <1>5, <1>6

\* What the handler fails on was read.
LEMMA AbortsOf ==
  ASSUME NEW c, NEW line, NEW mods, NEW how \in Ending,
         how \in Outcomes(c, line, mods),
         NEW read, read = Read(Takes(c), line)
  PROVE  /\ read \notin {Ended("says"), Ended("quiet")}
         /\ \A a : read = Called(a) => how \in Handle(c, a, mods)
<1> USE DEF Ending
<1>1. \/ read.how = "calls" /\ how \in Handle(c, read.args, mods)
      \/ read.how = how
  BY DEF Outcomes
<1>2. \A a : Called(a).how = "calls" /\ Called(a).args = a
  BY DEF Called
<1>3. \A end : Ended(end).how = end
  BY DEF Ended
<1> QED BY <1>1, <1>2, <1>3

\* What a handler fails on, of a row in which a word is repeated.
LEMMA RepeatedAborts ==
  ASSUME NEW c, NEW line \in Seq(Tokens), NEW mods, NEW how \in Ending,
         how \in Outcomes(c, line, mods), ~(Len(line) >= Room),
         NEW k, Repeated(Takes(c), k), ~Stuck(Takes(c), k, line)
  PROVE  \E b \in Gathered(Takes(c), k, line) :
           \/ Len(b) = Len(line) /\ how \in Handle(c, b, mods)
           \/ /\ Len(Takes(c)) = k + 2
              /\ how \in Handle(c, Append(b, "text"), mods)
<1> USE DEF Ending
<1>1. PICK read : read = Read(Takes(c), line)
  OBVIOUS
<1>2. /\ read \notin {Ended("says"), Ended("quiet")}
      /\ \A a : read = Called(a) => how \in Handle(c, a, mods)
  BY <1>1, AbortsOf
<1>3. \E b \in Gathered(Takes(c), k, line) :
        \/ read = Called(b) /\ Len(b) = Len(line)
        \/ read = Called(Append(b, "text")) /\ Len(Takes(c)) = k + 2
  BY <1>1, <1>2, RepeatedRead
<1> QED BY <1>2, <1>3

\* Nothing fails on what two of them gather.
LEMMA GroupsAreCreated ==
  ASSUME NEW line \in Seq(Tokens), NEW mods, NEW row, NEW b,
         NEW how \in Ending
  PROVE  /\ b \in Gathered(row, 2, line)
              => how \notin Handle("create_group_chat", b, mods)
         /\ b \in Gathered(row, 3, line)
              => how \notin Handle("create_channel", b, mods)
<1> USE DEF Ending
<1>1. how \notin CreateGroup(Among(b, 2)) \cup CreateGroup(Among(b, 3))
  BY DEF CreateGroup, Refused, SendMsgs
<1>2. b \in Gathered(row, 2, line) => Len(b) >= 1
  BY DEF Gathered
<1>3. b \in Gathered(row, 3, line) => Len(b) >= 2
  BY DEF Gathered
<1>4. Len(b) >= 1 => how \notin OnChat("create_group_chat", b, mods)
  BY <1>1 DEF OnChat, Asserted
<1>5. Len(b) >= 2 => how \notin OnChannel("create_channel", b)
  BY <1>1 DEF OnChannel, Asserted
<1> QED BY <1>2, <1>3, <1>4, <1>5, RepeatedHandled

\* Messages are forwarded, or refused.
LEMMA MessagesAreForwarded ==
  ASSUME NEW b, ~(Len(b) < 2), NEW mods,
         NEW how \in Ending
  PROVE  how \notin Handle("fwd", b, mods)
<1> USE DEF Ending
<1> DEFINE To(m, n) == ForwardMessages(b[1], {m, n}, Len(b) - 1)
           With(m) == UNION {To(m, n) : n \in Named(b[Len(b)])}
<1>1. ASSUME NEW m, NEW n PROVE how \notin To(m, n)
  BY DEF ForwardMessages, Refused
<1>2. OnForward("fwd", b) = UNION {With(m) : m \in Named(b[2])}
  BY DEF OnForward, OfMessage
<1> HIDE DEF To
<1>3. ASSUME NEW m PROVE how \notin With(m)
  BY <1>1
<1> HIDE DEF With
<1>4. how \notin OnForward("fwd", b)
  BY <1>2, <1>3
<1> QED BY <1>4, RepeatedHandled

\* A text is sent to users.
LEMMA TextIsBroadcast ==
  ASSUME NEW b \in Seq(Arguments), \A i \in 1 .. Len(b) : b[i] \in Users,
         NEW mods,
         NEW how \in Ending
  PROVE  how \notin Handle("broadcast", Append(b, "text"), mods)
<1> USE DEF Ending
<1>1. PICK a : a = Append(b, "text")
  OBVIOUS
<1>2. PICK n \in Nat : n = Len(b)
  OBVIOUS
<1>3. Len(a) = n + 1 /\ a[n + 1] = "text" /\ a # <<>>
  BY <1>1, <1>2 DEF Arguments
<1>4. \A j \in 1 .. n : a[j] \in Users
  BY <1>1, <1>2
<1>5. {a[j] : j \in 1 .. Len(a) - 1} \subseteq Users
  <2>1. Len(a) - 1 = n
    BY <1>2, <1>3
  <2> QED BY <1>4, <2>1
<1>6. how \notin OnForward("broadcast", a)
  BY <1>3, <1>5 DEF OnForward, Asserted, Broadcast, SendMsgs
<1> QED BY <1>1, <1>6, RepeatedHandled

\* All other lines reach their handlers.
LEMMA LinesReachHandlers ==
  ASSUME NEW c \in Commands, NEW line \in Seq(Tokens), NEW mods,
         NEW how \in Ending, how \in Outcomes(c, line, mods)
  PROVE  Excused(c, line)
<1> SUFFICES ASSUME ~Excused(c, line) PROVE FALSE
  OBVIOUS
<1>1. ~(Len(line) >= Room)
  BY DEF Excused
<1>2. CASE c \notin Repeating
  <2>1. PICK read : read = Read(Takes(c), line)
    OBVIOUS
  <2>2. PICK a \in Fits(Takes(c)) : read = Called(a)
    BY <1>2, <2>1, AbortsOf, TableIsPlain, PlainRead
  <2>3. ~TakesOnTrust(c, a)
    BY <2>1, <2>2 DEF Excused, Called
  <2>4. how \in Handle(c, a, mods)
    BY <2>1, <2>2, AbortsOf
  <2> QED BY <1>2, <2>3, <2>4, CommandHandled
<1>3. CASE c = "fwd"
  <2>1. ~Stuck(Takes("fwd"), 2, line)
    BY DEF Stuck, Takes, Optional
  <2>2. how \in Outcomes("fwd", line, mods)
    BY <1>3
  <2>3. /\ Repeated(Takes("fwd"), 2)
        /\ Len(Takes("fwd")) = 3 /\ 3 # 2 + 2
    BY RowsRepeat
  <2>4. \E b \in Gathered(Takes("fwd"), 2, line) :
          \/ Len(b) = Len(line) /\ how \in Handle("fwd", b, mods)
          \/ /\ Len(Takes("fwd")) = 2 + 2
             /\ how \in Handle("fwd", Append(b, "text"), mods)
    <3>1. Repeated(Takes("fwd"), 2)
      BY <2>3
    <3> QED BY <1>1, <2>1, <2>2, <3>1, RepeatedAborts
  <2>5. PICK b \in Gathered(Takes("fwd"), 2, line) :
          Len(b) = Len(line) /\ how \in Handle("fwd", b, mods)
    BY <2>3, <2>4
  <2>6. PICK n \in Nat : n = Len(b)
    BY DEF Gathered
  <2>7. n >= 1 /\ n # 1
    <3>1. Len(line) # 1
      BY <1>3 DEF Excused
    <3>2. 2 - 1 <= Len(b)
      BY DEF Gathered
    <3> QED BY <2>5, <2>6, <3>1, <3>2
  <2>8. ~(Len(b) < 2)
    BY <2>6, <2>7
  <2> QED BY <2>5, <2>8, MessagesAreForwarded
<1>4. CASE c = "broadcast"
  <2>1. ~Stuck(Takes("broadcast"), 1, line) /\ Takes("broadcast")[1] = "user"
    BY DEF Stuck, Takes, Optional
  <2>2. how \in Outcomes("broadcast", line, mods)
    BY <1>4
  <2>3. Repeated(Takes("broadcast"), 1)
    BY RowsRepeat
  <2>4. PICK b \in Gathered(Takes("broadcast"), 1, line) :
          \/ Len(b) = Len(line)
          \/ how \in Handle("broadcast", Append(b, "text"), mods)
    BY <1>1, <2>1, <2>2, <2>3, RepeatedAborts
  <2>5. Reads("user") = Users
    BY DEF Reads
  <2>6. /\ b \in Seq(Arguments)
        /\ \A i \in 1 .. Len(b) : b[i] = line[i] /\ b[i] \in Users
    BY <2>1, <2>5 DEF Gathered
  <2>7. Len(b) # Len(line)
    <3>1. DOMAIN line = 1 .. Len(line)
      OBVIOUS
    <3> QED BY <1>4, <2>6, <3>1 DEF Excused
  <2> QED BY <2>4, <2>6, <2>7, TextIsBroadcast
<1>5. CASE c = "create_group_chat"
  <2>1. ~Stuck(Takes("create_group_chat"), 2, line)
    BY DEF Stuck, Takes, Optional
  <2>2. how \in Outcomes("create_group_chat", line, mods)
    BY <1>5
  <2>3. /\ Repeated(Takes("create_group_chat"), 2)
        /\ Len(Takes("create_group_chat")) = 3 /\ 3 # 2 + 2
    BY RowsRepeat
  <2>4. \E b \in Gathered(Takes("create_group_chat"), 2, line) :
          \/ how \in Handle("create_group_chat", b, mods)
          \/ Len(Takes("create_group_chat")) = 2 + 2
    BY <1>1, <2>1, <2>2, <2>3, RepeatedAborts
  <2>5. PICK b \in Gathered(Takes("create_group_chat"), 2, line) :
          how \in Handle("create_group_chat", b, mods)
    BY <2>3, <2>4
  <2> QED BY <2>5, GroupsAreCreated
<1>6. CASE c = "create_channel"
  <2>1. Takes("create_channel")[3] = "user?" /\ Reads("user?") = Users
    BY DEF Takes, Reads
  <2>2. ~Stuck(Takes("create_channel"), 3, line)
    <3>1. ASSUME NEW i \in 3 .. Len(line), line[i] \in Quoted,
                 \A j \in 3 .. i - 1 : line[j] \in Users
          PROVE  FALSE
      <4>1. i \in DOMAIN line /\ i > 2
        OBVIOUS
      <4> QED BY <1>6, <3>1, <4>1 DEF Excused
    <3> QED BY <2>1, <3>1 DEF Stuck
  <2>3. how \in Outcomes("create_channel", line, mods)
    BY <1>6
  <2>4. /\ Repeated(Takes("create_channel"), 3)
        /\ Len(Takes("create_channel")) = 4 /\ 4 # 3 + 2
    BY RowsRepeat
  <2>5. \E b \in Gathered(Takes("create_channel"), 3, line) :
          \/ how \in Handle("create_channel", b, mods)
          \/ Len(Takes("create_channel")) = 3 + 2
    BY <1>1, <2>2, <2>3, <2>4, RepeatedAborts
  <2>6. PICK b \in Gathered(Takes("create_channel"), 3, line) :
          how \in Handle("create_channel", b, mods)
    BY <2>4, <2>5
  <2> QED BY <2>6, GroupsAreCreated
<1> QED BY <1>2, <1>3, <1>4, <1>5, <1>6 DEF Repeating

\* The lines of the console are lines, of at most so many tokens.
LEMMA LinesAreLines ==
  ASSUME NEW line \in Lines
  PROVE  line \in Seq(Tokens)
BY DEF Lines

\* HandlersGetTheirArguments, of lines of any length and any room for what is
\* read of them: of the 120 rows of the table four repeat an argument; what
\* ends the program is three of these, a line too long, reply_audio, and what
\* the client does not know of whom it is given the printed id.
THEOREM HandlersAlwaysGetTheirArguments ==
  ConsoleInit /\ [][ConsoleNext]_consoleVars => []HandlersGetTheirArguments
<1>1. ASSUME NEW e \in Fatal
      PROVE  Excused(e[1], e[2])
  <2>1. PICK c \in Commands :
          e \in {<<c, line>> : line \in
                  {l \in Lines : \E mods \in Modifiers, how \in Ending :
                                  how \in Outcomes(c, l, mods)}}
    BY DEF Fatal
  <2>2. PICK line \in Lines, mods \in Modifiers, how \in Ending :
          e = <<c, line>> /\ how \in Outcomes(c, line, mods)
    BY <2>1
  <2>3. Excused(c, line)
    BY <2>2, LinesAreLines, LinesReachHandlers
  <2> QED BY <2>2, <2>3
<1>2. HandlersGetTheirArguments
  BY <1>1 DEF HandlersGetTheirArguments, Unexpected
<1> QED BY <1>2, PTL

-----------------------------------------------------------------------------
(* Paging: lists of items, and what the server cuts out of them.           *)

\* Items are numbered in the order they came, and listed newest first.
Items == Seq(Nat \ {0})
Falls(s) == \A i, j \in DOMAIN s : i < j => s[i] > s[j]
CountsDown(s) == \A i \in DOMAIN s : s[i] = Len(s) + 1 - i

\* How many of L items there are after the first o, at most m.
Cut(L, o, m) == Most(Least(L, o + m) - o, 0)

\* A part ends with what was asked for or with the list.
LEMMA CutIs ==
  ASSUME NEW L \in Nat, NEW o \in Nat, NEW m \in Nat
  PROVE  /\ Cut(L, o, m) \in Nat /\ Cut(L, o, m) <= m
         /\ L <= o => Cut(L, o, m) = 0
         /\ o <= L /\ o + m <= L => Cut(L, o, m) = m
         /\ o <= L /\ L <= o + m => Cut(L, o, m) = L - o
<1>1. CASE L < o + m
  <2>1. Cut(L, o, m) = Most(L - o, 0)
    BY <1>1 DEF Least, Cut
  <2> QED BY <1>1, <2>1 DEF Most
<1>2. CASE ~(L < o + m)
  <2>1. Cut(L, o, m) = Most(m, 0)
    <3>1. o + m - o = m
      OBVIOUS
    <3> QED BY <1>2, <3>1 DEF Least, Cut
  <2> QED BY <1>2, <2>1 DEF Most
<1> QED BY <1>1, <1>2

\* What a part of a list is.
LEMMA PartIs ==
  ASSUME NEW S, NEW s \in Seq(S), NEW o \in Nat, NEW n \in Int
  PROVE  /\ Part(s, o, n) \in Seq(S)
         /\ Len(Part(s, o, n)) = Cut(Len(s), o, n)
         /\ \A i \in 1 .. Len(Part(s, o, n)) :
              Part(s, o, n)[i] = s[o + i] /\ o + i \in 1 .. Len(s)
<1>1. PICK m : m = Least(Len(s), o + n)
  OBVIOUS
<1>2. m \in Int /\ m <= Len(s) /\ Len(s) \in Nat
  BY <1>1 DEF Least
<1>3. \A i \in o + 1 .. m : s[i] \in S
  BY <1>2
<1>4. Part(s, o, n) = SubSeq(s, o + 1, m)
  BY <1>1 DEF Part
<1>5. /\ SubSeq(s, o + 1, m) \in Seq(S)
      /\ Len(SubSeq(s, o + 1, m)) =
           IF o + 1 <= m THEN m - (o + 1) + 1 ELSE 0
      /\ \A i \in 1 .. m - (o + 1) + 1 :
           SubSeq(s, o + 1, m)[i] = s[o + 1 + i - 1]
  <2>1. o + 1 \in Int
    OBVIOUS
  <2> QED BY <1>2, <1>3, <2>1, SubSeqProperties
<1>6. Len(Part(s, o, n)) = Most(m - o, 0)
  BY <1>2, <1>4, <1>5 DEF Most
<1>7. \A i \in 1 .. Len(Part(s, o, n)) :
        Part(s, o, n)[i] = s[o + i] /\ o + i \in 1 .. Len(s)
  BY <1>2, <1>4, <1>5
<1> QED BY <1>1, <1>4, <1>5, <1>6, <1>7 DEF Cut

\* Fronts, item by item.
LEMMA PrefixIs ==
  ASSUME NEW S, NEW s \in Seq(S), NEW t \in Seq(S)
  PROVE  IsPrefix(s, t) <=>
           Len(s) <= Len(t) /\ \A i \in 1 .. Len(s) : s[i] = t[i]
<1>1. SubSeq(s, 1, Len(s)) = s
  BY SubSeqFull
<1>2. ASSUME Len(s) <= Len(t)
      PROVE  /\ SubSeq(t, 1, Len(s)) \in Seq(S)
             /\ Len(SubSeq(t, 1, Len(s))) = Len(s)
             /\ \A i \in 1 .. Len(s) : SubSeq(t, 1, Len(s))[i] = t[i]
  <2>1. 1 \in Int /\ Len(s) \in Nat /\ \A i \in 1 .. Len(s) : t[i] \in S
    BY <1>2
  <2>2. /\ SubSeq(t, 1, Len(s)) \in Seq(S)
        /\ Len(SubSeq(t, 1, Len(s))) = IF 1 <= Len(s) THEN Len(s) - 1 + 1 ELSE 0
        /\ \A i \in 1 .. Len(s) - 1 + 1 :
             SubSeq(t, 1, Len(s))[i] = t[1 + i - 1]
    BY <2>1, SubSeqProperties
  <2> QED BY <2>1, <2>2
<1>3. ASSUME Len(s) <= Len(t), \A i \in 1 .. Len(s) : s[i] = t[i]
      PROVE  s = SubSeq(t, 1, Len(s))
  <2>1. \A i \in 1 .. Len(s) : s[i] = SubSeq(t, 1, Len(s))[i]
    BY <1>2, <1>3
  <2> QED BY <1>2, <1>3, <2>1, SeqEqual
<1>4. ASSUME Len(s) <= Len(t), s = SubSeq(t, 1, Len(s)), NEW i \in 1 .. Len(s)
      PROVE  s[i] = t[i]
  BY <1>2, <1>4
<1> QED BY <1>1, <1>3, <1>4 DEF IsPrefix

\* The items that are not older than one are the first ones.
LEMMA NotOlderIs ==
  ASSUME NEW id \in Nat, list \in Items, Falls(list)
  PROVE  \E k \in 0 .. Len(list) :
           /\ Cardinality(NotOlder(id)) = k
           /\ \A i \in 1 .. Len(list) : (id # 0 /\ list[i] >= id) <=> i <= k
<1>1. /\ Len(list) \in Nat /\ DOMAIN list = 1 .. Len(list)
      /\ \A i \in 1 .. Len(list) : list[i] \in Nat
  BY DEF Items
<1> DEFINE T == {i \in 1 .. Len(list) + 1 : i \notin NotOlder(id)}
<1>2. T \in SUBSET Nat /\ Len(list) + 1 \in T
  BY <1>1 DEF NotOlder
<1>3. PICK x \in T : \A y \in T : x <= y
  <2> HIDE DEF T
  <2> QED BY <1>2, LeastNumber
<1>4. x \in 1 .. Len(list) + 1 /\ x \notin NotOlder(id)
  BY <1>3
<1>5. \A i \in 1 .. Len(list) : i < x => i \in NotOlder(id)
  BY <1>1, <1>3, <1>4
<1>6. \A i \in 1 .. Len(list) : i > x => i \notin NotOlder(id)
  BY <1>1, <1>4 DEF NotOlder, Falls
<1>7. NotOlder(id) = 1 .. x - 1
  <2>1. NotOlder(id) \subseteq 1 .. Len(list)
    BY <1>1 DEF NotOlder
  <2>2. ASSUME NEW i \in 1 .. Len(list)
        PROVE  i \in NotOlder(id) <=> i <= x - 1
    <3>1. i \in Nat /\ x \in Nat /\ (i < x \/ i = x \/ i > x)
      BY <1>1, <1>4
    <3> QED BY <1>4, <1>5, <1>6, <3>1
  <2>3. \A i \in 1 .. x - 1 : i \in 1 .. Len(list)
    BY <1>1, <1>4
  <2>4. \A i \in 1 .. Len(list) : i <= x - 1 <=> i \in 1 .. x - 1
    BY <1>1, <1>4
  <2> QED BY <2>1, <2>2, <2>3, <2>4
<1>8. Cardinality(NotOlder(id)) = x - 1
  <2>1. /\ x - 1 \in Int /\ 1 \in Int /\ x - 1 - 1 + 1 = x - 1
        /\ x - 1 < 1 => x - 1 = 0
    BY <1>1, <1>4
  <2> QED BY <1>7, <2>1, FS_Interval
<1>9. x - 1 \in 0 .. Len(list)
  BY <1>1, <1>4
<1>10. \A i \in 1 .. Len(list) : (id # 0 /\ list[i] >= id) <=> i <= x - 1
  BY <1>1, <1>4, <1>7 DEF NotOlder
<1> QED BY <1>8, <1>9, <1>10

\* What is in an answer.
LEMMA AnsweredIs ==
  ASSUME NEW id \in Nat, NEW o \in Nat, NEW n \in Nat,
         list \in Items, Falls(list)
  PROVE  \E k \in 0 .. Len(list) :
           /\ \A i \in 1 .. Len(list) : (id # 0 /\ list[i] >= id) <=> i <= k
           /\ Answered(id, o, n) \in Items
           /\ Len(Answered(id, o, n)) =
                Cut(Len(list) - k, o, Least(n, PageSize))
           /\ \A i \in 1 .. Len(Answered(id, o, n)) :
                /\ Answered(id, o, n)[i] = list[k + o + i]
                /\ k + o + i \in 1 .. Len(list)
<1>1. PICK k \in 0 .. Len(list) :
           /\ Cardinality(NotOlder(id)) = k
           /\ \A i \in 1 .. Len(list) : (id # 0 /\ list[i] >= id) <=> i <= k
  BY NotOlderIs
<1>2. Len(list) \in Nat /\ k \in Nat /\ k <= Len(list)
  BY <1>1 DEF Items
<1>3. /\ Older(id) \in Items
      /\ Len(Older(id)) = Len(list) - k
      /\ \A i \in 1 .. Len(list) - k : Older(id)[i] = list[k + i]
  <2>1. Older(id) = SubSeq(list, k + 1, Len(list))
    BY <1>1 DEF Older
  <2>2. k + 1 \in Int /\ Len(list) \in Int
        /\ \A i \in k + 1 .. Len(list) : list[i] \in Nat \ {0}
    BY <1>2 DEF Items
  <2>3. /\ Older(id) \in Items
        /\ Len(Older(id)) = IF k + 1 <= Len(list)
                            THEN Len(list) - (k + 1) + 1 ELSE 0
        /\ \A i \in 1 .. Len(list) - (k + 1) + 1 :
             Older(id)[i] = list[k + 1 + i - 1]
    BY <2>1, <2>2, SubSeqProperties DEF Items
  <2> QED BY <1>2, <2>3
<1>4. PICK m \in Nat : m = Least(n, PageSize)
  BY PagingAssumption DEF Least
<1>5. Answered(id, o, n) = Part(Older(id), o, m)
  BY <1>4 DEF Answered
<1>6. /\ Answered(id, o, n) \in Items
      /\ Len(Answered(id, o, n)) = Cut(Len(list) - k, o, m)
      /\ \A i \in 1 .. Len(Answered(id, o, n)) :
           /\ Answered(id, o, n)[i] = Older(id)[o + i]
           /\ o + i \in 1 .. Len(list) - k
  <2>1. Older(id) \in Seq(Nat \ {0}) /\ m \in Int
    BY <1>3, <1>4 DEF Items
  <2>2. /\ Part(Older(id), o, m) \in Seq(Nat \ {0})
        /\ Len(Part(Older(id), o, m)) = Cut(Len(Older(id)), o, m)
        /\ \A i \in 1 .. Len(Part(Older(id), o, m)) :
             /\ Part(Older(id), o, m)[i] = Older(id)[o + i]
             /\ o + i \in 1 .. Len(Older(id))
    BY <2>1, PartIs
  <2> QED BY <1>3, <1>5, <2>2 DEF Items
<1>7. ASSUME NEW i \in 1 .. Len(Answered(id, o, n))
      PROVE  /\ Answered(id, o, n)[i] = list[k + o + i]
             /\ k + o + i \in 1 .. Len(list)
  <2>1. Len(Answered(id, o, n)) \in Nat
    BY <1>6 DEF Items
  <2>2. /\ Answered(id, o, n)[i] = Older(id)[o + i]
        /\ o + i \in 1 .. Len(list) - k
    BY <1>6
  <2>3. PICK j : j = o + i
    OBVIOUS
  <2>4. Older(id)[j] = list[k + j] /\ k + j \in 1 .. Len(list)
    BY <1>2, <1>3, <2>2, <2>3
  <2>5. k + j = k + o + i
    BY <1>2, <2>1, <2>3
  <2> QED BY <2>2, <2>3, <2>4, <2>5
<1> QED BY <1>1, <1>4, <1>6, <1>7

\* A front that is as long as the whole is the whole.
LEMMA LongestFront ==
  ASSUME NEW S, NEW s \in Seq(S), NEW t \in Seq(S),
         IsPrefix(s, t), Len(s) >= Len(t)
  PROVE  s = t
<1>1. Len(s) = Len(t) /\ \A i \in 1 .. Len(s) : s[i] = t[i]
  <2>1. Len(s) \in Nat /\ Len(t) \in Nat
    OBVIOUS
  <2> QED BY <2>1, PrefixIs
<1> QED BY <1>1, SeqEqual

\* The front of a part of a list that counts down, in numbers.
Follows(g, f, o) == \A i \in 1 .. Len(g) : g[i] = Len(f) + 1 - o - i

\* To be in front of a part is to follow, and not to be longer.
LEMMA FrontIs ==
  ASSUME NEW f \in Items, NEW g \in Items, NEW o \in Nat, NEW n \in Int,
         CountsDown(f)
  PROVE  /\ IsPrefix(g, Part(f, o, n)) <=>
              /\ Len(g) <= Cut(Len(f), o, n)
              /\ Follows(g, f, o)
         /\ Part(f, o, n) \in Items
         /\ Len(Part(f, o, n)) = Cut(Len(f), o, n)
<1>1. f \in Seq(Nat \ {0}) /\ g \in Seq(Nat \ {0}) /\ Len(f) \in Nat
      /\ Len(g) \in Nat
  BY DEF Items
<1>2. PICK p : p = Part(f, o, n)
  OBVIOUS
<1>3. /\ p \in Seq(Nat \ {0})
      /\ Len(p) = Cut(Len(f), o, n)
      /\ \A i \in 1 .. Len(p) : p[i] = f[o + i] /\ o + i \in 1 .. Len(f)
  BY <1>1, <1>2, PartIs
<1>4. \A i \in 1 .. Len(p) : p[i] = Len(f) + 1 - o - i
  <2>1. \A j \in 1 .. Len(f) : f[j] = Len(f) + 1 - j
    BY <1>1 DEF CountsDown
  <2>2. Len(p) \in Nat
    BY <1>3
  <2>3. ASSUME NEW i \in 1 .. Len(p) PROVE p[i] = Len(f) + 1 - o - i
    <3>1. p[i] = f[o + i] /\ o + i \in 1 .. Len(f) /\ i \in Nat
      BY <1>3, <2>2
    <3>2. f[o + i] = Len(f) + 1 - (o + i)
      BY <2>1, <3>1
    <3> QED BY <1>1, <3>1, <3>2
  <2> QED BY <2>3
<1>5. IsPrefix(g, p) <=>
        Len(g) <= Len(p) /\ \A i \in 1 .. Len(g) : g[i] = p[i]
  BY <1>1, <1>3, PrefixIs
<1>6. Len(p) \in Nat
  BY <1>3
<1>7. IsPrefix(g, p) <=> Len(g) <= Len(p) /\ Follows(g, f, o)
  <2>1. ASSUME Len(g) <= Len(p), NEW i \in 1 .. Len(g)
        PROVE  p[i] = Len(f) + 1 - o - i
    BY <1>1, <1>4, <1>6, <2>1
  <2>2. CASE Len(g) <= Len(p)
    BY <1>5, <2>1, <2>2 DEF Follows
  <2>3. CASE ~(Len(g) <= Len(p))
    BY <1>5, <2>3
  <2> QED BY <2>2, <2>3
<1> QED BY <1>2, <1>3, <1>7 DEF Items

\* A list that counts down falls.
LEMMA CountsFall ==
  ASSUME NEW s \in Items, CountsDown(s)
  PROVE  Falls(s)
<1>1. Len(s) \in Nat /\ DOMAIN s = 1 .. Len(s)
  BY DEF Items
<1> QED BY <1>1 DEF CountsDown, Falls

\* What comes together.
LEMMA JoinIs ==
  ASSUME NEW g \in Items, NEW p \in Items
  PROVE  /\ g \o p \in Items
         /\ Len(g \o p) = Len(g) + Len(p)
         /\ \A i \in 1 .. Len(g) : (g \o p)[i] = g[i]
         /\ \A i \in 1 .. Len(p) : (g \o p)[Len(g) + i] = p[i]
         /\ \A i \in 1 .. Len(g \o p) :
              i \notin 1 .. Len(g) =>
                i - Len(g) \in 1 .. Len(p) /\ (g \o p)[i] = p[i - Len(g)]
<1>1. g \in Seq(Nat \ {0}) /\ p \in Seq(Nat \ {0})
      /\ Len(g) \in Nat /\ Len(p) \in Nat
  BY DEF Items
<1>2. /\ g \o p \in Seq(Nat \ {0})
      /\ Len(g \o p) = Len(g) + Len(p)
      /\ \A i \in 1 .. Len(g) + Len(p) :
           (g \o p)[i] = IF i <= Len(g) THEN g[i] ELSE p[i - Len(g)]
  BY <1>1, ConcatProperties
<1>3. ASSUME NEW i \in 1 .. Len(g) PROVE (g \o p)[i] = g[i]
  BY <1>1, <1>2
<1>4. ASSUME NEW i \in 1 .. Len(p) PROVE (g \o p)[Len(g) + i] = p[i]
  <2>1. Len(g) + i \in 1 .. Len(g) + Len(p) /\ ~(Len(g) + i <= Len(g))
        /\ Len(g) + i - Len(g) = i
    BY <1>1
  <2> QED BY <1>2, <2>1
<1>5. ASSUME NEW i \in 1 .. Len(g \o p), i \notin 1 .. Len(g)
      PROVE  i - Len(g) \in 1 .. Len(p) /\ (g \o p)[i] = p[i - Len(g)]
  <2>1. i \in 1 .. Len(g) + Len(p) /\ ~(i <= Len(g))
        /\ i - Len(g) \in 1 .. Len(p)
    BY <1>1, <1>2, <1>5
  <2> QED BY <1>2, <2>1
<1> QED BY <1>1, <1>2, <1>3, <1>4, <1>5 DEF Items

\* A page whose items are older than what has come.
LEMMA JoinFalls ==
  ASSUME NEW g \in Items, NEW p \in Items, Falls(g), Falls(p),
         \A i \in 1 .. Len(p) : g = <<>> \/ p[i] < Last(g)
  PROVE  Falls(g \o p)
<1>1. /\ Len(g) \in Nat /\ Len(p) \in Nat
      /\ DOMAIN g = 1 .. Len(g) /\ DOMAIN p = 1 .. Len(p)
      /\ \A i \in 1 .. Len(g) : g[i] \in Nat
      /\ \A i \in 1 .. Len(p) : p[i] \in Nat
      /\ DOMAIN (g \o p) = 1 .. Len(g \o p)
      /\ Len(g \o p) \in Nat
  BY JoinIs DEF Items
<1> SUFFICES ASSUME NEW i \in 1 .. Len(g \o p), NEW j \in 1 .. Len(g \o p),
                    i < j
             PROVE  (g \o p)[i] > (g \o p)[j]
  BY <1>1 DEF Falls
<1>2. CASE j \in 1 .. Len(g)
  <2>1. i \in 1 .. Len(g)
    BY <1>1, <1>2
  <2> QED BY <1>1, <1>2, <2>1, JoinIs DEF Falls
<1>3. CASE i \notin 1 .. Len(g)
  <2>1. j \notin 1 .. Len(g)
    BY <1>1, <1>3
  <2>2. /\ i - Len(g) \in 1 .. Len(p) /\ (g \o p)[i] = p[i - Len(g)]
        /\ j - Len(g) \in 1 .. Len(p) /\ (g \o p)[j] = p[j - Len(g)]
    BY <1>3, <2>1, JoinIs
  <2>3. i - Len(g) < j - Len(g)
    BY <1>1
  <2> QED BY <1>1, <2>2, <2>3 DEF Falls
<1>4. CASE i \in 1 .. Len(g) /\ j \notin 1 .. Len(g)
  <2>1. /\ (g \o p)[i] = g[i]
        /\ j - Len(g) \in 1 .. Len(p) /\ (g \o p)[j] = p[j - Len(g)]
    BY <1>4, JoinIs
  <2>2. g # <<>> /\ Len(g) \in 1 .. Len(g)
    BY <1>1, <1>4
  <2>3. p[j - Len(g)] < g[Len(g)]
    BY <2>1, <2>2 DEF Last
  <2>4. g[i] >= g[Len(g)]
    <3> HIDE DEF Falls
    <3>1. PICK m \in Nat : m = Len(g)
      BY <1>1
    <3>2. i \in 1 .. m
      BY <1>4, <3>1
    <3>3. i = m \/ i < m
      BY <3>1, <3>2
    <3>4. g[i] \in Nat /\ g[m] \in Nat
      BY <1>1, <2>2, <3>1, <3>2
    <3>5. i < m => g[i] > g[m]
      BY <1>1, <2>2, <3>1, <3>2 DEF Falls
    <3> QED BY <3>1, <3>3, <3>4, <3>5
  <2>5. g[i] \in Nat /\ g[Len(g)] \in Nat /\ p[j - Len(g)] \in Nat
    BY <1>1, <1>4, <2>1, <2>2
  <2> QED BY <2>1, <2>3, <2>4, <2>5
<1> QED BY <1>2, <1>3, <1>4

\* The server puts fewer items in an answer than it is asked for, but not none.
LEMMA PageSizeIs ==
  ASSUME NEW n \in Nat \ {0}
  PROVE  Least(n, PageSize) \in Nat \ {0} /\ Least(n, PageSize) <= n
<1>1. PageSize \in Nat \ {0}
  BY PagingAssumption
<1> QED BY <1>1 DEF Least

\* The same for an answer that is not after an offset.
LEMMA AnsweredNext ==
  ASSUME NEW id \in Nat, NEW n \in Nat \ {0}, list \in Items, Falls(list)
  PROVE  \E k \in 0 .. Len(list) :
           /\ \A i \in 1 .. Len(list) : (id # 0 /\ list[i] >= id) <=> i <= k
           /\ Answered(id, 0, n) \in Items
           /\ Len(Answered(id, 0, n)) <= n
           /\ Len(Answered(id, 0, n)) <= Len(list) - k
           /\ Len(Answered(id, 0, n)) = 0 => k = Len(list)
           /\ \A i \in 1 .. Len(Answered(id, 0, n)) :
                /\ Answered(id, 0, n)[i] = list[k + i]
                /\ k + i \in 1 .. Len(list)
<1>1. PICK o \in Nat : o = 0
  OBVIOUS
<1>2. PICK k \in 0 .. Len(list) :
           /\ \A i \in 1 .. Len(list) : (id # 0 /\ list[i] >= id) <=> i <= k
           /\ Answered(id, o, n) \in Items
           /\ Len(Answered(id, o, n)) =
                Cut(Len(list) - k, o, Least(n, PageSize))
           /\ \A i \in 1 .. Len(Answered(id, o, n)) :
                /\ Answered(id, o, n)[i] = list[k + o + i]
                /\ k + o + i \in 1 .. Len(list)
  BY AnsweredIs
<1>3. PICK page : page = Answered(id, o, n)
  OBVIOUS
<1>4. page \in Items /\ Len(page) \in Nat /\ Len(list) \in Nat
  BY <1>2, <1>3 DEF Items
<1>5. ASSUME NEW i \in 1 .. Len(page)
      PROVE  page[i] = list[k + i] /\ k + i \in 1 .. Len(list)
  <2>1. k + o + i = k + i
    BY <1>1, <1>4
  <2> QED BY <1>2, <1>3, <2>1
<1>6. Len(page) <= n /\ Len(page) <= Len(list) - k
      /\ (Len(page) = 0 => k = Len(list))
  <2>1. PICK m \in Nat \ {0} : m = Least(n, PageSize) /\ m <= n
    BY PageSizeIs
  <2>2. PICK L \in Nat : L = Len(list) - k
    BY <1>4
  <2>3. PICK d : d = Cut(L, o, m)
    OBVIOUS
  <2>4. /\ d \in Nat /\ d <= m
        /\ o <= L /\ o + m <= L => d = m
        /\ o <= L /\ L <= o + m => d = L - o
    BY <2>3, CutIs
  <2>5. Len(page) = d
    BY <1>2, <1>3, <2>1, <2>2, <2>3
  <2> QED BY <1>1, <1>4, <2>1, <2>2, <2>4, <2>5
<1> QED
  <2>1. page = Answered(id, 0, n)
    BY <1>1, <1>3
  <2> QED BY <1>2, <1>4, <1>5, <1>6, <2>1

\* The first page starts at the offset.
LEMMA FirstPage ==
  ASSUME list \in Items, CountsDown(list), offset \in Nat,
         limit \in Nat \ {0}, NEW page, page = Answered(0, offset, limit)
  PROVE  /\ page \in Items /\ Falls(page)
         /\ Len(page) =
              Cut(Len(list), offset, Least(limit, PageSize))
         /\ IsPrefix(page, Part(list, offset, limit))
<1>1. Falls(list) /\ Len(list) \in Nat /\ DOMAIN list = 1 .. Len(list)
  BY CountsFall DEF Items
<1>2. PICK k \in 0 .. Len(list) :
           /\ \A i \in 1 .. Len(list) : (0 # 0 /\ list[i] >= 0) <=> i <= k
           /\ page \in Items
           /\ Len(page) =
                Cut(Len(list) - k, offset, Least(limit, PageSize))
           /\ \A i \in 1 .. Len(page) :
                /\ page[i] = list[k + offset + i]
                /\ k + offset + i \in 1 .. Len(list)
  BY <1>1, AnsweredIs
<1>3. k = 0
  <2>1. \A i \in 1 .. Len(list) : ~(i <= k)
    BY <1>2
  <2>2. k # 0 => k \in 1 .. Len(list) /\ k <= k
    BY <1>1
  <2> QED BY <2>1, <2>2
<1>4. /\ page \in Items /\ Len(page) \in Nat /\ DOMAIN page = 1 .. Len(page)
      /\ Len(page) =
           Cut(Len(list), offset, Least(limit, PageSize))
  BY <1>1, <1>2, <1>3 DEF Items
<1>5. ASSUME NEW i \in 1 .. Len(page)
      PROVE  page[i] = Len(list) + 1 - offset - i
  <2>1. page[i] = list[offset + i] /\ offset + i \in 1 .. Len(list) /\ i \in Nat
    BY <1>2, <1>3, <1>4
  <2>2. list[offset + i] = Len(list) + 1 - (offset + i)
    BY <1>1, <2>1 DEF CountsDown
  <2> QED BY <1>1, <2>1, <2>2
<1>6. Falls(page)
  BY <1>1, <1>4, <1>5 DEF Falls
<1>7. Len(page) <= Cut(Len(list), offset, limit)
  <2>1. Least(limit, PageSize) <= limit /\ Least(limit, PageSize) \in Nat
    BY PageSizeIs
  <2>2. PICK m \in Nat : m = Least(limit, PageSize) /\ m <= limit
    BY <2>1
  <2>3. Len(page) = Cut(Len(list), offset, m)
    BY <1>4, <2>2
  <2>4. PICK c : c = Cut(Len(list), offset, limit)
    OBVIOUS
  <2>5. /\ c \in Nat
        /\ Len(list) <= offset => c = 0
        /\ offset <= Len(list) /\ offset + limit <= Len(list) => c = limit
        /\ offset <= Len(list) /\ Len(list) <= offset + limit
             => c = Len(list) - offset
    BY <1>1, <2>4, CutIs
  <2>6. /\ Len(page) \in Nat /\ Len(page) <= m
        /\ Len(list) <= offset => Len(page) = 0
        /\ offset <= Len(list) /\ offset + m <= Len(list) => Len(page) = m
        /\ offset <= Len(list) /\ Len(list) <= offset + m
             => Len(page) = Len(list) - offset
    <3>1. PICK L \in Nat : L = Len(list)
      BY <1>1
    <3>2. PICK d : d = Cut(L, offset, m)
      OBVIOUS
    <3>3. /\ d \in Nat /\ d <= m
          /\ L <= offset => d = 0
          /\ offset <= L /\ offset + m <= L => d = m
          /\ offset <= L /\ L <= offset + m => d = L - offset
      BY <3>2, CutIs
    <3>4. Len(page) = d
      BY <2>3, <3>1, <3>2
    <3> QED BY <3>1, <3>3, <3>4
  <2>7. Len(page) <= c
    <3>1. m \in Nat /\ m <= limit /\ Len(list) \in Nat
      BY <1>1, <2>2
    <3> QED BY <2>5, <2>6, <3>1
  <2> QED BY <2>4, <2>7
<1>8. IsPrefix(page, Part(list, offset, limit))
  <2>1. Follows(page, list, offset)
    BY <1>5 DEF Follows
  <2> QED BY <1>4, <1>7, <2>1, FrontIs
<1> QED BY <1>4, <1>6, <1>8

\* A page that starts after the last item that came.
LEMMA AnchoredPage ==
  ASSUME list \in Items, Falls(list), got \in Items, got # <<>>, Falls(got),
         NEW n \in Nat \ {0}, NEW page, page = Answered(Last(got), 0, n)
  PROVE  /\ page \in Items /\ Len(page) <= n
         /\ Falls(got \o page)
<1>1. /\ Len(list) \in Nat /\ DOMAIN list = 1 .. Len(list)
      /\ Len(got) \in Nat \ {0} /\ Last(got) \in Nat \ {0}
      /\ \A i \in 1 .. Len(list) : list[i] \in Nat
  BY DEF Items, Last
<1>2. PICK k \in 0 .. Len(list) :
           /\ \A i \in 1 .. Len(list) :
                (Last(got) # 0 /\ list[i] >= Last(got)) <=> i <= k
           /\ page \in Items /\ Len(page) <= n
           /\ \A i \in 1 .. Len(page) :
                page[i] = list[k + i] /\ k + i \in 1 .. Len(list)
  <2>1. PICK id \in Nat : id = Last(got)
    BY <1>1
  <2>2. page = Answered(id, 0, n)
    BY <2>1
  <2>3. PICK k \in 0 .. Len(list) :
           /\ \A i \in 1 .. Len(list) : (id # 0 /\ list[i] >= id) <=> i <= k
           /\ Answered(id, 0, n) \in Items
           /\ Len(Answered(id, 0, n)) <= n
           /\ Len(Answered(id, 0, n)) <= Len(list) - k
           /\ Len(Answered(id, 0, n)) = 0 => k = Len(list)
           /\ \A i \in 1 .. Len(Answered(id, 0, n)) :
                /\ Answered(id, 0, n)[i] = list[k + i]
                /\ k + i \in 1 .. Len(list)
    BY AnsweredNext
  <2> QED BY <2>1, <2>2, <2>3
<1>3. Len(page) \in Nat /\ DOMAIN page = 1 .. Len(page)
  BY <1>2 DEF Items
<1>4. ASSUME NEW i \in 1 .. Len(page)
      PROVE  page[i] = list[k + i] /\ k + i \in 1 .. Len(list) /\ i \in Nat
  <2>1. i \in Nat
    BY <1>3
  <2> QED BY <1>2, <2>1
<1>5. Falls(page)
  <2> SUFFICES ASSUME NEW i \in 1 .. Len(page), NEW j \in 1 .. Len(page), i < j
               PROVE  page[i] > page[j]
    BY <1>3 DEF Falls
  <2>1. k + i < k + j
    BY <1>1, <1>3
  <2> QED BY <1>1, <1>4, <2>1 DEF Falls
<1>6. ASSUME NEW i \in 1 .. Len(page) PROVE page[i] < Last(got)
  <2>1. ~(k + i <= k)
    BY <1>1, <1>4
  <2> QED BY <1>1, <1>2, <1>4, <2>1
<1>7. Falls(got \o page)
  BY <1>2, <1>5, <1>6, JoinFalls
<1> QED BY <1>2, <1>7

\* It continues what has come, when nothing was deleted.
LEMMA AnchoredJoins ==
  ASSUME list \in Items, CountsDown(list), first \in Items, CountsDown(first),
         Len(first) <= Len(list), offset \in Nat, limit \in Nat \ {0},
         got \in Items, got # <<>>, IsPrefix(got, Window),
         NEW n \in Nat \ {0}, n + Len(got) <= limit,
         NEW page, page = Answered(Last(got), 0, n)
  PROVE  /\ IsPrefix(got \o page, Window)
         /\ Len(page) < Len(list)
         /\ Len(page) = 0 => got = Window
<1>1. /\ Len(list) \in Nat /\ DOMAIN list = 1 .. Len(list) /\ Falls(list)
      /\ Len(got) \in Nat \ {0} /\ Len(first) \in Nat
      /\ Last(got) \in Nat \ {0} /\ Last(got) = got[Len(got)]
  BY CountsFall DEF Items, Last
<1>2. /\ Len(got) <= limit /\ offset + Len(got) <= Len(first)
      /\ Follows(got, first, offset)
  <2>1. /\ Len(got) <= Cut(Len(first), offset, limit)
        /\ Follows(got, first, offset)
    BY FrontIs DEF Window
  <2>2. /\ Len(first) <= offset => Cut(Len(first), offset, limit) = 0
        /\ offset <= Len(first) /\ offset + limit <= Len(first)
             => Cut(Len(first), offset, limit) = limit
        /\ offset <= Len(first) /\ Len(first) <= offset + limit
             => Cut(Len(first), offset, limit) = Len(first) - offset
    BY <1>1, CutIs
  <2> QED BY <1>1, <2>1, <2>2
<1>3. PICK id \in Nat : /\ id = Last(got)
                        /\ id = Len(first) + 1 - offset - Len(got)
  <2>1. Len(got) \in 1 .. Len(got)
    BY <1>1
  <2>2. got[Len(got)] = Len(first) + 1 - offset - Len(got)
    BY <1>2, <2>1 DEF Follows
  <2> QED BY <1>1, <2>2
<1>4. id \in 1 .. Len(list)
  BY <1>1, <1>2, <1>3
<1>5. PICK k \in 0 .. Len(list) :
           /\ \A i \in 1 .. Len(list) : (id # 0 /\ list[i] >= id) <=> i <= k
           /\ page \in Items
           /\ Len(page) <= n /\ Len(page) <= Len(list) - k
           /\ Len(page) = 0 => k = Len(list)
           /\ \A i \in 1 .. Len(page) :
                page[i] = list[k + i] /\ k + i \in 1 .. Len(list)
  <2>1. page = Answered(id, 0, n)
    BY <1>3
  <2>2. PICK k \in 0 .. Len(list) :
           /\ \A i \in 1 .. Len(list) : (id # 0 /\ list[i] >= id) <=> i <= k
           /\ Answered(id, 0, n) \in Items
           /\ Len(Answered(id, 0, n)) <= n
           /\ Len(Answered(id, 0, n)) <= Len(list) - k
           /\ Len(Answered(id, 0, n)) = 0 => k = Len(list)
           /\ \A i \in 1 .. Len(Answered(id, 0, n)) :
                /\ Answered(id, 0, n)[i] = list[k + i]
                /\ k + i \in 1 .. Len(list)
    BY <1>1, AnsweredNext
  <2> QED BY <2>1, <2>2
<1>6. k = Len(list) + 1 - id
  <2>1. ASSUME NEW i \in 1 .. Len(list) PROVE list[i] = Len(list) + 1 - i
    BY <1>1 DEF CountsDown
  <2>2. Len(list) + 1 - id <= k
    <3>1. Len(list) + 1 - id \in 1 .. Len(list)
      BY <1>1, <1>4
    <3>2. list[Len(list) + 1 - id] = id
      BY <1>1, <1>4, <2>1, <3>1
    <3>3. id # 0 /\ id >= id
      BY <1>4
    <3> QED BY <1>5, <3>1, <3>2, <3>3
  <2>3. k <= Len(list) + 1 - id
    <3>1. CASE k = 0
      BY <1>1, <1>4, <3>1
    <3>2. CASE k # 0
      <4>1. k \in 1 .. Len(list) /\ k <= k
        BY <1>1, <3>2
      <4>2. list[k] >= id /\ list[k] = Len(list) + 1 - k
        BY <1>5, <2>1, <4>1
      <4> QED BY <1>1, <1>4, <4>1, <4>2
    <3> QED BY <3>1, <3>2
  <2> QED BY <1>1, <1>4, <2>2, <2>3
<1>7. /\ Len(page) \in Nat
      /\ Len(page) <= n /\ Len(page) <= id - 1
      /\ Len(page) = 0 => id = 1
  <2>1. Len(page) \in Nat
    BY <1>5 DEF Items
  <2> QED BY <1>1, <1>4, <1>5, <1>6, <2>1
<1>8. ASSUME NEW i \in 1 .. Len(page)
      PROVE  page[i] = id - i
  <2>1. page[i] = list[k + i] /\ k + i \in 1 .. Len(list) /\ i \in Nat
    <3>1. i \in Nat
      BY <1>7
    <3> QED BY <1>5, <3>1
  <2>2. list[k + i] = Len(list) + 1 - (k + i)
    BY <1>1, <2>1 DEF CountsDown
  <2> QED BY <1>1, <1>4, <1>6, <2>1, <2>2
<1>9. /\ got \o page \in Items /\ Len(got \o page) = Len(got) + Len(page)
      /\ Follows(got \o page, first, offset)
  <2>1. got \o page \in Items /\ Len(got \o page) = Len(got) + Len(page)
    BY <1>5, JoinIs
  <2>2. ASSUME NEW i \in 1 .. Len(got \o page)
        PROVE  (got \o page)[i] = Len(first) + 1 - offset - i
    <3>1. CASE i \in 1 .. Len(got)
      BY <1>2, <1>5, <3>1, JoinIs DEF Follows
    <3>2. CASE i \notin 1 .. Len(got)
      <4>1. i - Len(got) \in 1 .. Len(page) /\ i \in Nat
            /\ (got \o page)[i] = page[i - Len(got)]
        <5>1. i \in Nat
          BY <1>1, <1>7, <2>1
        <5> QED BY <1>5, <3>2, <5>1, JoinIs
      <4>2. page[i - Len(got)] = id - (i - Len(got))
        BY <1>8, <4>1
      <4> QED BY <1>1, <1>3, <4>1, <4>2
    <3> QED BY <3>1, <3>2
  <2> QED BY <2>1, <2>2 DEF Follows
<1>10. Len(got \o page) <= Cut(Len(first), offset, limit)
  <2>1. /\ offset <= Len(first) /\ offset + limit <= Len(first)
             => Cut(Len(first), offset, limit) = limit
        /\ offset <= Len(first) /\ Len(first) <= offset + limit
             => Cut(Len(first), offset, limit) = Len(first) - offset
    BY <1>1, CutIs
  <2> QED BY <1>1, <1>2, <1>3, <1>7, <1>9, <2>1
<1>11. IsPrefix(got \o page, Window)
  <2>1. limit \in Int
    OBVIOUS
  <2> QED BY <1>9, <1>10, <2>1, FrontIs DEF Window
<1>12. Len(page) < Len(list)
  BY <1>1, <1>4, <1>7
<1>13. ASSUME Len(page) = 0 PROVE got = Window
  <2>1. Len(got) >= Cut(Len(first), offset, limit)
    <3>1. offset <= Len(first) /\ Len(first) <= offset + limit
          /\ Len(got) = Len(first) - offset
      BY <1>1, <1>2, <1>3, <1>7, <1>13
    <3>2. Cut(Len(first), offset, limit) = Len(first) - offset
      BY <1>1, <3>1, CutIs
    <3> QED BY <1>1, <3>1, <3>2
  <2>2. Window \in Items
        /\ Len(Window) = Cut(Len(first), offset, limit)
    BY FrontIs DEF Window
  <2> QED BY <2>1, <2>2, LongestFront DEF Items
<1> QED BY <1>11, <1>12, <1>13

\* A page that starts after a number of items.
LEMMA OffsetPage ==
  ASSUME list \in Items, Falls(list), NEW o \in Nat, NEW n \in Nat \ {0},
         NEW page, page = Answered(0, o, n)
  PROVE  /\ page \in Items
         /\ Len(page) = Cut(Len(list), o, Least(n, PageSize))
         /\ CountsDown(list) => Follows(page, list, o)
<1>1. Len(list) \in Nat /\ DOMAIN list = 1 .. Len(list)
  BY DEF Items
<1>2. PICK k \in 0 .. Len(list) :
           /\ \A i \in 1 .. Len(list) : (0 # 0 /\ list[i] >= 0) <=> i <= k
           /\ page \in Items
           /\ Len(page) = Cut(Len(list) - k, o, Least(n, PageSize))
           /\ \A i \in 1 .. Len(page) :
                page[i] = list[k + o + i] /\ k + o + i \in 1 .. Len(list)
  BY AnsweredIs
<1>3. k = 0
  <2>1. \A i \in 1 .. Len(list) : ~(i <= k)
    BY <1>2
  <2>2. k # 0 => k \in 1 .. Len(list) /\ k <= k
    BY <1>1
  <2> QED BY <2>1, <2>2
<1>4. /\ Len(page) \in Nat
      /\ Len(page) = Cut(Len(list), o, Least(n, PageSize))
  BY <1>1, <1>2, <1>3 DEF Items
<1>5. ASSUME CountsDown(list), NEW i \in 1 .. Len(page)
      PROVE  page[i] = Len(list) + 1 - o - i
  <2>1. page[i] = list[o + i] /\ o + i \in 1 .. Len(list) /\ i \in Nat
    BY <1>2, <1>3, <1>4
  <2>2. list[o + i] = Len(list) + 1 - (o + i)
    BY <1>1, <1>5, <2>1 DEF CountsDown
  <2> QED BY <1>1, <2>1, <2>2
<1> QED BY <1>2, <1>4, <1>5 DEF Follows

(***************************************************************************)
(* The invariant: what a call that is under way still asks for.            *)
(***************************************************************************)
Opening ==
  /\ got = <<>> /\ first = <<>> /\ CountsDown(list)
  /\ E = [offset |-> offset, limit |-> limit, max_id |-> 0]

\* How the query goes on: after the last message, or after so many items.
Continues ==
  \/ kind = "global search"
  \/ /\ kind \in {"history", "search"}
     /\ E.offset = 0 /\ E.max_id = Last(got)
     /\ E.limit + Len(got) <= limit
     /\ \/ Deleted
        \/ E.limit + Len(got) >= limit
        \/ E.limit + Len(got) >= Len(first) - offset
  \/ kind = "dialogs" /\ E.max_id = Last(got) /\ Len(got) < limit
  \/ kind = "channels" /\ E.offset = Len(got) /\ Len(got) < limit
  \/ kind = "members" /\ E.offset = offset + Len(got) /\ E.limit = limit

Underway ==
  /\ got # <<>> /\ got \in Items /\ first \in Items /\ CountsDown(first)
  /\ Deleted \/ (CountsDown(list) /\ Len(first) <= Len(list))
  /\ Continues

PagingInv ==
  /\ TypeOK /\ PagesJoin /\ AllThere
  /\ kind \in {"dialogs", "channels"} => offset = 0
  /\ phase = "asking" => list \in Items /\ Falls(list) /\ (Opening \/ Underway)

\* What is left, as the server counts.
LEMMA ClipIs ==
  ASSUME NEW a \in Int, NEW s \in Nat, Len(list) \in Nat
  PROVE  /\ Clip(a, s) \in Int
         /\ a + s < Len(list) => Clip(a, s) = a
         /\ a + s >= Len(list) /\ s <= Len(list) => Clip(a, s) = Len(list) - s
         /\ a + s >= Len(list) /\ s >= Len(list) => Clip(a, s) = 0
<1>1. PICK L \in Nat : L = Len(list)
  OBVIOUS
<1>2. CASE a + s >= L
  <2>1. Clip(a, s) = Most(L - s, 0)
    BY <1>1, <1>2 DEF Clip
  <2> QED BY <1>1, <1>2, <2>1 DEF Most
<1>3. CASE ~(a + s >= L)
  <2>1. Clip(a, s) = a
    BY <1>1, <1>3 DEF Clip
  <2> QED BY <1>1, <1>3, <2>1
<1> QED BY <1>2, <1>3

\* The first page in numbers: all of what is asked for and there, or as much
\* as the server gives.
LEMMA FirstIs ==
  ASSUME list \in Items, CountsDown(list), offset \in Nat,
         limit \in Nat \ {0}, NEW page, page = Answered(0, offset, limit)
  PROVE  /\ Len(page) \in Nat /\ Len(page) <= limit
         /\ Len(page) = 0 <=> Len(list) <= offset
         /\ Len(page) = 0 \/ offset + Len(page) <= Len(list)
         /\ Len(page) >= limit \/ offset + Len(page) >= Len(list)
              => page = Part(list, offset, limit)
         /\ IsPrefix(page, Part(list, offset, Len(list)))
<1>1. /\ page \in Items /\ Len(page) \in Nat
      /\ Len(page) = Cut(Len(list), offset, Least(limit, PageSize))
      /\ IsPrefix(page, Part(list, offset, limit))
  BY FirstPage DEF Items
<1>2. PICK m \in Nat \ {0} : m = Least(limit, PageSize) /\ m <= limit
  BY PageSizeIs
<1>3. PICK L \in Nat : L = Len(list)
  BY DEF Items
<1>4. PICK d \in Nat : d = Len(page)
  BY <1>1
<1>5. d = Cut(L, offset, m)
  BY <1>1, <1>2, <1>3, <1>4
<1>6. /\ L <= offset => d = 0
      /\ offset <= L /\ offset + m <= L => d = m
      /\ offset <= L /\ L <= offset + m => d = L - offset
  BY <1>5, CutIs
<1>7. /\ d <= limit /\ (d = 0 <=> L <= offset) /\ (d = 0 \/ offset + d <= L)
  BY <1>2, <1>6
<1>8. ASSUME d >= limit \/ offset + d >= L
      PROVE  page = Part(list, offset, limit)
  <2>1. PICK c : c = Cut(L, offset, limit)
    OBVIOUS
  <2>2. /\ c \in Nat /\ c <= limit
        /\ L <= offset => c = 0
        /\ offset <= L /\ L <= offset + limit => c = L - offset
    BY <2>1, CutIs
  <2>3. d >= c
    BY <1>7, <1>8, <2>2
  <2>4. /\ Part(list, offset, limit) \in Items
        /\ Len(Part(list, offset, limit)) = c
    BY <1>1, <1>3, <2>1, FrontIs
  <2> QED BY <1>1, <1>4, <2>3, <2>4, LongestFront DEF Items
<1>9. IsPrefix(page, Part(list, offset, Len(list)))
  <2>1. Follows(page, list, offset)
    BY <1>1, FrontIs
  <2>2. PICK c : c = Cut(L, offset, L)
    OBVIOUS
  <2>3. /\ c \in Nat
        /\ offset <= L /\ L <= offset + L => c = L - offset
    BY <2>2, CutIs
  <2>4. d <= c
    BY <1>7, <2>3
  <2>5. L \in Int /\ Len(page) <= Cut(Len(list), offset, L)
    BY <1>3, <1>4, <2>2, <2>4
  <2>6. IsPrefix(page, Part(list, offset, L))
    BY <1>1, <2>1, <2>5, FrontIs
  <2> QED BY <1>3, <2>6
<1> QED BY <1>3, <1>4, <1>7, <1>8, <1>9

\* The lists that count the messages that are left.
Counted == kind \in {"history", "channel history", "search", "global search"}

\* What the query of a history and of a search is answered.
CountedPage ==
  Answered(IF kind = "global search" THEN 0 ELSE E.max_id, E.offset, E.limit)

CountedLeft(page) == Clip(E.limit - Len(page), E.offset + Len(page))

CountedMore(page) ==
  CountedLeft(page) > 0 /\ kind # "channel history" /\ ~Whole(page)

\* Each of them receives its page in the same way.
LEMMA CountedTake ==
  ASSUME Counted, Take
  PROVE  Receive(CountedPage, CountedMore(CountedPage),
                 [offset |-> 0, limit |-> CountedLeft(CountedPage),
                  max_id |-> Oldest(got')])
<1>1. CASE kind \in {"history", "channel history"}
  <2>1. TakeHistory
    BY <1>1 DEF Take
  <2>2. HistoryPage = CountedPage
    BY <1>1 DEF HistoryPage, CountedPage
  <2>3. kind = "history" <=> kind # "channel history"
    BY <1>1
  <2> QED BY <2>1, <2>2, <2>3
        DEF TakeHistory, CountedMore, CountedLeft, Receive
<1>2. CASE kind \in {"search", "global search"}
  <2>1. TakeFound /\ kind # "channel history"
    BY <1>2 DEF Take
  <2>2. SearchPage = CountedPage
    BY <1>2 DEF SearchPage, CountedPage
  <2> QED BY <2>1, <2>2 DEF TakeFound, CountedMore, CountedLeft, Receive
<1> QED BY <1>1, <1>2 DEF Counted

\* What every first answer does, whatever is asked for.
LEMMA OpeningFacts ==
  ASSUME PagingInv, phase = "asking", Opening, Answer
  PROVE  /\ list \in Items /\ Falls(list) /\ CountsDown(list)
         /\ Len(list) \in Nat /\ limit \in Nat \ {0} /\ offset \in Nat
         /\ first' = list /\ list' = list
         /\ kind' = kind /\ limit' = limit /\ offset' = offset
         /\ ~Deleted' /\ ~Moved'
         /\ E.offset = offset /\ E.limit = limit /\ E.max_id = 0
         /\ got = <<>> /\ \A page \in Items : got \o page = page
<1>1. list \in Items /\ Falls(list) /\ CountsDown(list) /\ Len(list) \in Nat
  BY DEF PagingInv, Opening, Items
<1>2. limit \in Nat \ {0} /\ offset \in Nat
  <2>1. limit \in Limits /\ offset \in Offsets \cup {0}
    BY DEF PagingInv, TypeOK
  <2>2. Limits \subseteq Nat \ {0} /\ Offsets \subseteq Nat
    BY PagingAssumption
  <2> QED BY <2>1, <2>2
<1>3. first' = list /\ list' = list
      /\ kind' = kind /\ limit' = limit /\ offset' = offset
  BY DEF Answer, Opening, call
<1>4. ~Deleted' /\ ~Moved'
  <2>1. ASSUME NEW i \in DOMAIN list PROVE Contains(list, list[i])
    BY <1>1, <2>1 DEF Items, Contains
  <2> QED BY <1>3, <2>1 DEF Deleted, Moved
<1>5. E.offset = offset /\ E.limit = limit /\ E.max_id = 0 /\ got = <<>>
  BY DEF Opening
<1>6. ASSUME NEW page \in Items PROVE got \o page = page
  BY <1>5, ConcatEmptySeq DEF Items
<1> QED BY <1>1, <1>2, <1>3, <1>4, <1>5, <1>6

\* The first page is the front of what is asked for.
LEMMA OpeningJoins ==
  ASSUME PagingInv, phase = "asking", Opening, Answer,
         got' = Answered(0, offset, limit)
  PROVE  PagesJoin'
<1>1. /\ list \in Items /\ CountsDown(list)
      /\ limit \in Nat \ {0} /\ offset \in Nat
      /\ first' = list /\ limit' = limit /\ offset' = offset
  BY OpeningFacts
<1>2. PICK page : page = Answered(0, offset, limit)
  OBVIOUS
<1>3. /\ Falls(page) /\ Len(page) <= limit
      /\ IsPrefix(page, Part(list, offset, limit))
      /\ IsPrefix(page, Part(list, offset, Len(list)))
  BY <1>1, <1>2, FirstPage, FirstIs
<1>4. IsPrefix(got', Window')
      /\ IsPrefix(got', Part(first', offset', Len(first')))
  BY <1>1, <1>2, <1>3 DEF Window
<1>5. Len(got') <= limit' /\ Falls(got')
  BY <1>1, <1>2, <1>3
<1> QED BY <1>4, <1>5 DEF PagesJoin, Falls

\* Joining the parts of the invariant after an answer.
LEMMA AnswerTyped ==
  ASSUME PagingInv, Answer, got' \in Items,
         first' \in Seq(Nat), list' \in Seq(Nat),
         E' \in [offset : Nat, limit : Nat \ {0}, max_id : Nat],
         phase' \in {"asking", "done"}
  PROVE  /\ TypeOK'
         /\ (kind \in {"dialogs", "channels"} => offset = 0)'
<1>1. got' \in Seq(Nat)
  BY SeqMonotonic DEF Items
<1>2. kind' = kind /\ limit' = limit /\ offset' = offset
  BY DEF Answer, call
<1> QED BY <1>1, <1>2 DEF PagingInv, TypeOK

\* The last message of what has come.
LEMMA OldestIs ==
  ASSUME NEW ml \in Items, ml # <<>>
  PROVE  Oldest(ml) = Last(ml) /\ Oldest(ml) \in Nat
<1>1. Len(ml) \in 1 .. Len(ml)
  BY DEF Items
<1> QED BY <1>1 DEF Oldest, Last, Items

\* How many are left after a page of d items from an offset o, in numbers.
LEMMA LeftIs ==
  ASSUME NEW n \in Nat \ {0}, NEW o \in Nat, NEW d \in Nat, NEW left,
         Len(list) \in Nat, left = Clip(n - d, o + d)
  PROVE  /\ left \in Int
         /\ n + o < Len(list) => left = n - d
         /\ n + o >= Len(list) /\ o + d <= Len(list)
              => left = Len(list) - (o + d)
         /\ n + o >= Len(list) /\ o + d >= Len(list) => left = 0
<1>1. PICK a \in Int : a = n - d
  OBVIOUS
<1>2. PICK s \in Nat : s = o + d
  OBVIOUS
<1>3. left = Clip(a, s)
  BY <1>1, <1>2
<1>4. PICK L \in Nat : L = Len(list)
  OBVIOUS
<1>5. /\ left \in Int
      /\ a + s < L => left = a
      /\ a + s >= L /\ s <= L => left = L - s
      /\ a + s >= L /\ s >= L => left = 0
  BY <1>3, <1>4, ClipIs
<1>6. a + s = n + o
  BY <1>1, <1>2
<1>7. /\ left \in Int
      /\ n + o < L => left = n - d
      /\ n + o >= L /\ o + d <= L => left = L - (o + d)
      /\ n + o >= L /\ o + d >= L => left = 0
  BY <1>1, <1>2, <1>5, <1>6
<1> QED BY <1>4, <1>7

\* The first answer to a history or a search.
LEMMA OpeningCounted ==
  ASSUME PagingInv, phase = "asking", Opening, Answer, Counted
  PROVE  PagingInv'
<1>1. /\ list \in Items /\ Falls(list) /\ CountsDown(list)
      /\ first' = list /\ list' = list
      /\ kind' = kind /\ limit' = limit /\ offset' = offset
      /\ ~Deleted' /\ ~Moved'
      /\ E.offset = offset /\ E.limit = limit /\ E.max_id = 0
  BY OpeningFacts
<1>2. PICK page : page = Answered(0, offset, limit)
  OBVIOUS
<1>3. PICK L \in Nat : L = Len(list)
  BY OpeningFacts
<1>4. PICK n \in Nat \ {0} : n = limit
  BY OpeningFacts
<1>5. PICK o \in Nat : o = offset
  BY OpeningFacts
<1>6. page \in Items
  BY <1>1, <1>2, <1>4, <1>5, FirstPage
<1>7. PICK d \in Nat : d = Len(page)
  <2>1. Len(page) \in Nat
    BY <1>6 DEF Items
  <2> QED BY <2>1
<1>8. /\ d <= n /\ (d = 0 <=> L <= o) /\ (d = 0 \/ o + d <= L)
      /\ d >= n \/ o + d >= L => page = Part(list, offset, limit)
  BY <1>1, <1>2, <1>3, <1>4, <1>5, <1>7, FirstIs
<1>9. PICK left : left = CountedLeft(page)
  OBVIOUS
<1>10. /\ left \in Int
       /\ n + o < L => left = n - d
       /\ n + o >= L /\ o + d <= L => left = L - (o + d)
       /\ n + o >= L /\ o + d >= L => left = 0
  <2>1. left = Clip(n - d, o + d)
    BY <1>1, <1>4, <1>5, <1>7, <1>9 DEF CountedLeft
  <2> QED BY <1>3, <2>1, LeftIs
<1>11. /\ got' = page
       /\ E' = IF CountedMore(page)
               THEN [offset |-> 0, limit |-> left, max_id |-> Oldest(page)]
               ELSE E
       /\ phase' = IF CountedMore(page) THEN "asking" ELSE "done"
  <2>1. CountedPage = page
    BY <1>1, <1>2 DEF CountedPage
  <2>2. Receive(page, CountedMore(page),
                [offset |-> 0, limit |-> left, max_id |-> Oldest(got')])
    BY <1>9, <2>1, CountedTake DEF Answer
  <2>3. got \o page = page
    BY <1>6, OpeningFacts
  <2> QED BY <2>2, <2>3 DEF Receive
<1>12. PagesJoin'
  BY <1>2, <1>11, OpeningJoins
<1>13. list \in Seq(Nat)
       /\ E \in [offset : Nat, limit : Nat \ {0}, max_id : Nat]
  BY DEF PagingInv, TypeOK
<1>14. CASE CountedMore(page)
  <2>1. left > 0
    BY <1>9, <1>14 DEF CountedMore
  <2>2. d # 0
    BY <1>3, <1>4, <1>5, <1>7, <1>8, <1>10, <2>1
  <2>3. page # <<>>
    BY <1>7, <2>2
  <2>4. /\ E' = [offset |-> 0, limit |-> left, max_id |-> Last(page)]
        /\ Last(page) \in Nat /\ phase' = "asking"
    BY <1>6, <1>11, <1>14, <2>3, OldestIs
  <2>5. TypeOK' /\ (kind \in {"dialogs", "channels"} => offset = 0)'
    <3>1. left \in Nat \ {0}
      BY <1>10, <2>1, <2>2
    <3> QED BY <1>1, <1>6, <1>11, <1>13, <2>4, <3>1, AnswerTyped
  <2>6. Continues'
    <3>1. left + d <= n /\ (left + d >= n \/ left + d >= L - o)
      BY <1>3, <1>4, <1>5, <1>7, <1>8, <1>10, <2>2
    <3>2. /\ left + Len(page) <= limit
          /\ left + Len(page) >= limit \/ left + Len(page) >= Len(list) - offset
      BY <1>3, <1>4, <1>5, <1>7, <3>1
    <3>3. E'.offset = 0 /\ E'.limit = left /\ E'.max_id = Last(page)
      BY <2>4
    <3> kind # "channel history"
      BY <1>14 DEF CountedMore
    <3>4. CASE kind = "global search"
      BY <1>1, <3>4 DEF Continues
    <3>5. CASE kind \in {"history", "search"}
      BY <1>1, <1>11, <3>2, <3>3, <3>5 DEF Continues
    <3> QED BY <3>4, <3>5 DEF Counted
  <2>7. Underway'
    BY <1>1, <1>3, <1>6, <1>11, <2>3, <2>6 DEF Underway
  <2>8. AllThere'
    BY <2>4 DEF AllThere
  <2> QED BY <1>1, <1>12, <2>5, <2>7, <2>8 DEF PagingInv
<1>15. CASE ~CountedMore(page)
  <2>1. E' = E /\ phase' = "done"
    BY <1>11, <1>15
  <2>2. TypeOK' /\ (kind \in {"dialogs", "channels"} => offset = 0)'
    BY <1>1, <1>6, <1>11, <1>13, <2>1, AnswerTyped
  <2>3. ASSUME kind \in {"history", "search"}
        PROVE  page = Part(list, offset, limit)
    <3>1. ~(left > 0) \/ d = L
      BY <1>3, <1>7, <1>9, <1>15, <2>3 DEF CountedMore, Whole
    <3>2. d >= n \/ o + d >= L
      BY <1>3, <1>4, <1>5, <1>7, <1>8, <1>10, <3>1
    <3> QED BY <1>8, <3>2
  <2>4. AllThere'
    <3>1. kind' \in {"history", "search"} => got' = Window'
      BY <1>1, <1>11, <2>3 DEF Window
    <3> QED BY <1>1, <2>1, <3>1 DEF AllThere, Counted
  <2> QED BY <1>12, <2>1, <2>2, <2>4 DEF PagingInv
<1> QED BY <1>14, <1>15

\* Dialogs and channels, which count what has come.
Listed == kind \in {"dialogs", "channels"}

ListedMore(page, all) ==
  page # <<>> /\ ~Whole(page) /\ Len(all) < limit /\ Len(all) < Len(list)

\* Both go on after the last item, while less than the limit has come.
LEMMA ListedTake ==
  ASSUME Listed, Take
  PROVE  Receive(DialogsPage, ListedMore(DialogsPage, got'),
                 [E EXCEPT !.offset = @ + Len(DialogsPage),
                           !.max_id = Oldest(got')])
BY DEF Listed, Take, TakeDialogs, ListedMore, Receive

\* The first answer to a list of dialogs or of channels.
LEMMA OpeningListed ==
  ASSUME PagingInv, phase = "asking", Opening, Answer, Listed
  PROVE  PagingInv'
<1>1. /\ list \in Items /\ Falls(list) /\ CountsDown(list)
      /\ first' = list /\ list' = list
      /\ kind' = kind /\ limit' = limit /\ offset' = offset
      /\ ~Deleted' /\ ~Moved'
      /\ E.offset = offset /\ E.limit = limit /\ E.max_id = 0
  BY OpeningFacts
<1>2. PICK page : page = Answered(0, offset, limit)
  OBVIOUS
<1>3. PICK L \in Nat : L = Len(list)
  BY OpeningFacts
<1>4. PICK n \in Nat \ {0} : n = limit
  BY OpeningFacts
<1>5. offset = 0
  BY DEF PagingInv, Listed
<1>6. page \in Items
  BY <1>1, <1>2, <1>4, <1>5, FirstPage
<1>7. PICK d \in Nat : d = Len(page)
  <2>1. Len(page) \in Nat
    BY <1>6 DEF Items
  <2> QED BY <2>1
<1>8. /\ d <= n /\ (d = 0 <=> L = 0) /\ d <= L
      /\ d >= n \/ d >= L => page = Part(list, offset, limit)
  <2>1. /\ Len(page) <= limit
        /\ Len(page) = 0 <=> Len(list) <= offset
        /\ Len(page) = 0 \/ offset + Len(page) <= Len(list)
        /\ Len(page) >= limit \/ offset + Len(page) >= Len(list)
             => page = Part(list, offset, limit)
    BY <1>1, <1>2, <1>4, <1>5, FirstIs
  <2> QED BY <1>3, <1>4, <1>5, <1>7, <2>1
<1>9. /\ got' = page
      /\ E' = IF ListedMore(page, page)
              THEN [E EXCEPT !.offset = @ + Len(page),
                             !.max_id = Oldest(page)]
              ELSE E
      /\ phase' = IF ListedMore(page, page) THEN "asking" ELSE "done"
  <2>1. DialogsPage = page
    <3>1. limit - Len(got) = limit
      BY <1>4 DEF Opening
    <3>2. got = <<>> /\ E.offset = 0 /\ E.max_id = 0
      BY <1>1, <1>5 DEF Opening
    <3> QED BY <1>2, <1>5, <3>1, <3>2 DEF DialogsPage
  <2>2. Receive(page, ListedMore(page, got'),
                [E EXCEPT !.offset = @ + Len(page), !.max_id = Oldest(got')])
    BY <2>1, ListedTake DEF Answer
  <2>3. got \o page = page
    BY <1>6, OpeningFacts
  <2>4. got' = page
    BY <2>2, <2>3 DEF Receive
  <2> QED BY <2>2, <2>4 DEF Receive
<1>10. PagesJoin'
  BY <1>2, <1>9, OpeningJoins
<1>11. list \in Seq(Nat)
       /\ E \in [offset : Nat, limit : Nat \ {0}, max_id : Nat]
  BY DEF PagingInv, TypeOK
<1>12. CASE ListedMore(page, page)
  <2>1. page # <<>> /\ Len(page) < limit
    BY <1>12 DEF ListedMore
  <2>2. phase' = "asking"
    BY <1>9, <1>12
  <2>3. TypeOK' /\ (kind \in {"dialogs", "channels"} => offset = 0)'
    <3>1. Oldest(page) \in Nat
      BY <1>6, <2>1, OldestIs
    <3>2. E' = [E EXCEPT !.offset = @ + Len(page), !.max_id = Oldest(page)]
      BY <1>9, <1>12
    <3>3. E' \in [offset : Nat, limit : Nat \ {0}, max_id : Nat]
      <4>1. Len(page) \in Nat
        BY <1>7
      <4>2. PICK x \in Nat : x = E.offset + Len(page)
        BY <1>11, <4>1
      <4>3. PICK y \in Nat : y = Oldest(page)
        BY <3>1
      <4>4. E' = [E EXCEPT !.offset = x, !.max_id = y]
        BY <3>2, <4>2, <4>3
      <4> QED BY <1>11, <4>4
    <3> QED BY <1>1, <1>6, <1>9, <1>11, <2>2, <3>3, AnswerTyped
  <2>4. Continues'
    <3>1. E' = [E EXCEPT !.offset = @ + Len(page), !.max_id = Oldest(page)]
      BY <1>9, <1>12
    <3>2. E'.max_id = Last(got') /\ Len(got') < limit'
      BY <1>1, <1>6, <1>9, <1>11, <2>1, <3>1, OldestIs
    <3>3. E'.offset = Len(got')
      <4>1. E'.offset = E.offset + Len(page)
        BY <1>11, <3>1
      <4>2. E.offset = 0 /\ Len(page) \in Nat
        BY <1>1, <1>5, <1>7
      <4> QED BY <1>9, <4>1, <4>2
    <3> QED BY <1>1, <3>2, <3>3 DEF Continues, Listed
  <2>5. Underway'
    BY <1>1, <1>3, <1>6, <1>9, <2>1, <2>4 DEF Underway
  <2>6. AllThere'
    BY <2>2 DEF AllThere
  <2> QED BY <1>1, <1>10, <2>2, <2>3, <2>5, <2>6 DEF PagingInv
<1>13. CASE ~ListedMore(page, page)
  <2>1. E' = E /\ phase' = "done"
    BY <1>9, <1>13
  <2>2. TypeOK' /\ (kind \in {"dialogs", "channels"} => offset = 0)'
    BY <1>1, <1>6, <1>9, <1>11, <2>1, AnswerTyped
  <2>3. page = Part(list, offset, limit)
    <3>1. page = <<>> \/ Len(page) = Len(list)
          \/ ~(Len(page) < limit) \/ ~(Len(page) < Len(list))
      BY <1>13 DEF ListedMore, Whole
    <3>2. d = 0 \/ d = L \/ ~(d < n) \/ ~(d < L)
      BY <1>3, <1>4, <1>7, <3>1
    <3>3. d >= n \/ d >= L
      BY <1>3, <1>4, <1>7, <1>8, <3>2
    <3> QED BY <1>8, <3>3
  <2>4. AllThere'
    <3>1. got' = Window'
      BY <1>1, <1>9, <2>3 DEF Window
    <3> QED BY <1>1, <3>1 DEF AllThere, Listed
  <2> QED BY <1>10, <2>1, <2>2, <2>4 DEF PagingInv
<1> QED BY <1>12, <1>13

\* A list is a front of itself.
LEMMA PrefixOfItself ==
  ASSUME NEW s \in Items
  PROVE  IsPrefix(s, s)
<1>1. s \in Seq(Nat \ {0}) /\ Len(s) \in Nat
  BY DEF Items
<1> QED BY <1>1, PrefixIs

\* The members of a channel.
OfMembers == kind = "members"

\* The first answer to the members of a channel.
LEMMA OpeningMembers ==
  ASSUME PagingInv, phase = "asking", Opening, Answer, OfMembers
  PROVE  PagingInv'
<1>2. PICK page : page = Answered(0, offset, limit)
  OBVIOUS
<1>3. /\ list \in Items /\ Falls(list) /\ CountsDown(list)
      /\ first' = list /\ list' = list
      /\ kind' = kind /\ limit' = limit /\ offset' = offset
      /\ ~Deleted' /\ ~Moved'
      /\ E.offset = offset /\ E.limit = limit /\ E.max_id = 0
      /\ limit \in Nat \ {0} /\ offset \in Nat /\ Len(list) \in Nat
  BY OpeningFacts
<1>4. /\ page \in Items /\ Len(page) \in Nat
      /\ Len(page) = 0 <=> Len(list) <= offset
      /\ Len(page) >= limit \/ offset + Len(page) >= Len(list)
           => page = Part(list, offset, limit)
  BY <1>2, <1>3, FirstPage, FirstIs
<1>5. Receive(page, page # <<>> /\ Len(got') # limit,
              [E EXCEPT !.offset = @ + Len(page)])
  <2>1. MembersPage = page
    BY <1>2, <1>3 DEF MembersPage
  <2>2. TakeMembers
    BY DEF Answer, Take, OfMembers
  <2> QED BY <2>1, <2>2 DEF TakeMembers
<1>6. /\ got' = page
      /\ E' = IF page # <<>> /\ Len(page) # limit
              THEN [E EXCEPT !.offset = @ + Len(page)] ELSE E
      /\ phase' = IF page # <<>> /\ Len(page) # limit
                  THEN "asking" ELSE "done"
  <2>1. got \o page = page
    BY <1>4, OpeningFacts
  <2>2. got' = page
    BY <1>5, <2>1 DEF Receive
  <2> QED BY <1>5, <2>2 DEF Receive
<1>7. PagesJoin'
  BY <1>2, <1>6, OpeningJoins
<1>8. list \in Seq(Nat)
      /\ E \in [offset : Nat, limit : Nat \ {0}, max_id : Nat]
  BY DEF PagingInv, TypeOK
<1>9. CASE page # <<>> /\ Len(page) # limit
  <2>1. /\ E' = [E EXCEPT !.offset = @ + Len(page)] /\ phase' = "asking"
    BY <1>6, <1>9
  <2>2. E' \in [offset : Nat, limit : Nat \ {0}, max_id : Nat]
    BY <1>3, <1>4, <1>8, <2>1
  <2>3. TypeOK' /\ (kind \in {"dialogs", "channels"} => offset = 0)'
    BY <1>3, <1>4, <1>6, <1>8, <2>1, <2>2, AnswerTyped
  <2>4. Continues'
    <3>1. E'.offset = offset' + Len(got') /\ E'.limit = limit'
      BY <1>3, <1>6, <1>8, <2>1
    <3> QED BY <1>3, <3>1 DEF Continues, OfMembers
  <2>5. Underway'
    <3>1. Len(first') <= Len(list')
      BY <1>3
    <3> QED BY <1>3, <1>4, <1>6, <1>9, <2>4, <3>1 DEF Underway
  <2>6. AllThere'
    BY <2>1 DEF AllThere
  <2> QED BY <1>3, <1>7, <2>1, <2>3, <2>5, <2>6 DEF PagingInv
<1>10. CASE ~(page # <<>> /\ Len(page) # limit)
  <2>1. E' = E /\ phase' = "done"
    BY <1>6, <1>10
  <2>2. TypeOK' /\ (kind \in {"dialogs", "channels"} => offset = 0)'
    BY <1>3, <1>4, <1>6, <1>8, <2>1, AnswerTyped
  <2>3. page = Part(list, offset, limit)
    <3>1. Len(page) = 0 \/ Len(page) = limit
      BY <1>10
    <3>2. Len(page) >= limit \/ offset + Len(page) >= Len(list)
      <4>1. CASE Len(page) = 0
        BY <1>3, <1>4, <4>1
      <4>2. CASE Len(page) = limit
        BY <1>3, <1>4, <4>2
      <4> QED BY <3>1, <4>1, <4>2
    <3> QED BY <1>4, <3>2
  <2>4. AllThere'
    <3>1. IsPrefix(Window', got')
      BY <1>3, <1>4, <1>6, <2>3, PrefixOfItself DEF Window
    <3> QED BY <1>3, <2>1, <3>1 DEF AllThere, OfMembers
  <2> QED BY <1>7, <2>1, <2>2, <2>4 DEF PagingInv
<1> QED BY <1>9, <1>10

\* Asking for more gives no less.
LEMMA CutGrows ==
  ASSUME NEW L \in Nat, NEW o \in Nat, NEW m \in Int, NEW n \in Int, m <= n
  PROVE  Cut(L, o, m) <= Cut(L, o, n)
<1>1. ASSUME NEW x \in Int, NEW y \in Int, x <= y
      PROVE  /\ Least(L, x) <= Least(L, y)
             /\ Least(L, x) \in Int /\ Least(L, y) \in Int
             /\ Most(x, 0) <= Most(y, 0)
  BY <1>1 DEF Least, Most
<1>2. PICK x \in Int : x = o + m
  OBVIOUS
<1>3. PICK y \in Int : y = o + n
  OBVIOUS
<1>4. PICK a \in Int : a = Least(L, x)
  BY <1>1, <1>2
<1>5. PICK b \in Int : b = Least(L, y)
  BY <1>1, <1>3
<1>6. a <= b
  BY <1>1, <1>2, <1>3, <1>4, <1>5
<1>7. Most(a - o, 0) <= Most(b - o, 0)
  BY <1>1, <1>4, <1>5, <1>6
<1> QED BY <1>2, <1>3, <1>4, <1>5, <1>7 DEF Cut

\* The local history.
OfLocal == kind = "local"

\* It is one answer, from the list the client has, when that has any.
LEMMA LocalFound ==
  ASSUME PagingInv, phase = "asking", Opening, Answer, OfLocal, list # <<>>
  PROVE  PagingInv'
<1>1. /\ list \in Items /\ CountsDown(list) /\ Len(list) \in Nat
      /\ first' = list /\ list' = list
      /\ kind' = kind /\ limit' = limit /\ offset' = offset
      /\ limit \in Nat \ {0} /\ offset \in Nat
  BY OpeningFacts
<1>2. PICK n \in Int : n = limit - offset
  BY <1>1
<1>3. PICK page : page = Part(list, offset, n)
  OBVIOUS
<1>4. page \in Items
  BY <1>1, <1>3, FrontIs
<1>5. got' = page /\ E' = E /\ phase' = "done"
  <2>1. TakeLocal
    BY DEF Answer, Take, OfLocal
  <2>2. Most(limit, 1) - offset = n
    BY <1>1, <1>2 DEF Most
  <2>3. got \o page = page
    BY <1>4, OpeningFacts
  <2> QED BY <1>3, <2>1, <2>2, <2>3 DEF TakeLocal, Receive
<1>6. IsPrefix(page, Part(list, offset, limit))
  <2>1. Len(page) <= Cut(Len(list), offset, n) /\ Follows(page, list, offset)
    BY <1>1, <1>3, <1>4, PrefixOfItself, FrontIs
  <2>2. Cut(Len(list), offset, n) <= Cut(Len(list), offset, limit)
    <3>1. n \in Int /\ limit \in Int /\ n <= limit
      BY <1>1, <1>2
    <3> QED BY <1>1, <3>1, CutGrows
  <2>3. Len(page) <= Cut(Len(list), offset, limit)
    <3>1. Len(page) \in Nat /\ Len(page) = Cut(Len(list), offset, n)
      BY <1>1, <1>3, <1>4, FrontIs DEF Items
    <3>2. Cut(Len(list), offset, limit) \in Nat
      BY <1>1, CutIs
    <3> QED BY <2>2, <3>1, <3>2
  <2>4. limit \in Int
    BY <1>1
  <2> QED BY <1>1, <1>4, <2>1, <2>3, <2>4, FrontIs
<1>7. PagesJoin'
  <2>1. IsPrefix(got', Window')
    BY <1>1, <1>5, <1>6 DEF Window
  <2> QED BY <1>1, <2>1 DEF PagesJoin, OfLocal
<1>8. AllThere'
  <2>1. offset = 0 => n = limit
    BY <1>1, <1>2
  <2>2. offset' = 0 => got' = Window'
    BY <1>1, <1>3, <1>5, <2>1 DEF Window
  <2> QED BY <1>1, <2>2 DEF AllThere, OfLocal
<1>9. TypeOK' /\ (kind \in {"dialogs", "channels"} => offset = 0)'
  <2>1. list \in Seq(Nat)
        /\ E \in [offset : Nat, limit : Nat \ {0}, max_id : Nat]
    BY DEF PagingInv, TypeOK
  <2> QED BY <1>1, <1>4, <1>5, <2>1, AnswerTyped
<1> QED BY <1>5, <1>7, <1>8, <1>9 DEF PagingInv

\* Nothing is the front of everything.
LEMMA NothingIsFront ==
  ASSUME NEW s \in Seq(Nat), NEW o \in Nat, NEW n \in Int
  PROVE  IsPrefix(<<>>, Part(s, o, n))
<1>1. PICK e \in Seq(Nat) : e = <<>> /\ Len(e) = 0
  BY EmptySeq
<1>2. PICK t \in Seq(Nat) : t = Part(s, o, n)
  BY PartIs
<1>3. Len(e) <= Len(t) /\ \A i \in 1 .. Len(e) : e[i] = t[i]
  BY <1>1
<1> QED BY <1>1, <1>2, <1>3, PrefixIs

\* When it has none, the call fails with nothing.
LEMMA LocalMissing ==
  ASSUME PagingInv, phase = "asking", Opening, Answer, OfLocal, list = <<>>
  PROVE  PagingInv'
<1>1. /\ got' = <<>> /\ phase' = "failed" /\ E' = E
      /\ UNCHANGED <<kind, limit, offset, list>>
      /\ first' = list /\ list \in Items
      /\ limit \in Nat \ {0} /\ offset \in Nat
  <2>1. TakeLocal
    BY DEF Answer, Take, OfLocal
  <2> QED BY <2>1, OpeningFacts DEF TakeLocal
<1>2. TypeOK'
  <2>1. list \in Seq(Nat)
    BY DEF PagingInv, TypeOK
  <2> QED BY <1>1, <2>1 DEF PagingInv, TypeOK
<1>3. PagesJoin'
  <2>1. list \in Seq(Nat)
    BY DEF PagingInv, TypeOK
  <2>2. limit \in Int
    BY <1>1
  <2>3. IsPrefix(<<>>, Part(list, offset, limit))
    BY <1>1, <2>1, <2>2, NothingIsFront
  <2>4. IsPrefix(got', Window')
    BY <1>1, <2>3 DEF Window
  <2> QED BY <1>1, <2>4 DEF PagesJoin, OfLocal
<1>4. AllThere'
  BY <1>1 DEF AllThere
<1>5. (kind \in {"dialogs", "channels"} => offset = 0)'
  BY <1>1 DEF PagingInv
<1> QED BY <1>1, <1>2, <1>3, <1>4, <1>5 DEF PagingInv

\* The local history.
LEMMA OpeningLocal ==
  ASSUME PagingInv, phase = "asking", Opening, Answer, OfLocal
  PROVE  PagingInv'
<1> QED BY LocalFound, LocalMissing

\* Every first answer.
LEMMA OpeningAnswer ==
  ASSUME PagingInv, phase = "asking", Opening, Answer
  PROVE  PagingInv'
<1>1. kind \in Kinds
  BY DEF PagingInv, TypeOK
<1>2. Counted \/ Listed \/ OfMembers \/ OfLocal
  BY <1>1, PagingAssumption DEF Counted, Listed, OfMembers, OfLocal
<1> QED
  BY <1>2, OpeningCounted, OpeningListed, OpeningMembers, OpeningLocal

\* What every later answer finds and leaves.
LEMMA UnderwayFacts ==
  ASSUME PagingInv, phase = "asking", Underway, Answer
  PROVE  /\ list \in Items /\ Falls(list) /\ first \in Items
         /\ CountsDown(first) /\ got \in Items /\ got # <<>>
         /\ Deleted \/ (CountsDown(list) /\ Len(first) <= Len(list))
         /\ limit \in Nat \ {0} /\ offset \in Nat
         /\ Len(list) \in Nat /\ Len(first) \in Nat /\ Len(got) \in Nat \ {0}
         /\ E \in [offset : Nat, limit : Nat \ {0}, max_id : Nat]
         /\ Last(got) \in Nat /\ PagesJoin
         /\ first' = first /\ list' = list
         /\ kind' = kind /\ limit' = limit /\ offset' = offset
         /\ Deleted' <=> Deleted
         /\ Moved' <=> Moved
<1>1. /\ list \in Items /\ Falls(list) /\ first \in Items /\ CountsDown(first)
      /\ got \in Items /\ got # <<>>
      /\ Deleted \/ (CountsDown(list) /\ Len(first) <= Len(list))
      /\ PagesJoin
  BY DEF PagingInv, Underway
<1>2. Len(list) \in Nat /\ Len(first) \in Nat /\ Len(got) \in Nat \ {0}
  BY <1>1 DEF Items
<1>3. limit \in Nat \ {0} /\ offset \in Nat
  <2>1. limit \in Limits /\ offset \in Offsets \cup {0}
    BY DEF PagingInv, TypeOK
  <2>2. Limits \subseteq Nat \ {0} /\ Offsets \subseteq Nat
    BY PagingAssumption
  <2> QED BY <2>1, <2>2
<1>4. E \in [offset : Nat, limit : Nat \ {0}, max_id : Nat]
  BY DEF PagingInv, TypeOK
<1>5. Last(got) \in Nat
  BY <1>1, OldestIs
<1>6. first' = first /\ list' = list
      /\ kind' = kind /\ limit' = limit /\ offset' = offset
  BY <1>1 DEF Answer, call
<1>7. (Deleted' <=> Deleted) /\ (Moved' <=> Moved)
  BY <1>6 DEF Deleted, Moved
<1> QED BY <1>1, <1>2, <1>3, <1>4, <1>5, <1>6, <1>7

\* A later answer to a history or a search, in numbers: what comes of g items
\* that have come, n that are wanted, L that there are, and a page of d.
LEMMA UnderwayCounted ==
  ASSUME PagingInv, phase = "asking", Underway, Answer, Counted
  PROVE  PagingInv'
<1>1. /\ list \in Items /\ Falls(list) /\ first \in Items
      /\ CountsDown(first) /\ got \in Items /\ got # <<>>
      /\ Deleted \/ (CountsDown(list) /\ Len(first) <= Len(list))
      /\ first' = first /\ list' = list
      /\ kind' = kind /\ limit' = limit /\ offset' = offset
      /\ Deleted' <=> Deleted
  BY UnderwayFacts
<1>2. PICK g \in Nat \ {0} : g = Len(got)
  BY UnderwayFacts
<1>3. PICK L \in Nat : L = Len(list)
  BY UnderwayFacts
<1>4. PICK F \in Nat : F = Len(first)
  BY UnderwayFacts
<1>5. PICK lim \in Nat \ {0} : lim = limit
  BY UnderwayFacts
<1>6. PICK n \in Nat \ {0} : n = E.limit
  BY UnderwayFacts
<1>7. PICK page : page = CountedPage
  OBVIOUS
<1>8. PICK off \in Nat : off = E.offset
  BY UnderwayFacts
<1>9. page \in Items
  <2>1. CASE kind = "global search"
    BY <1>1, <1>6, <1>7, <1>8, <2>1, OffsetPage DEF CountedPage
  <2>2. CASE kind # "global search"
    <3>1. kind \in {"history", "search"}
      BY <2>2 DEF Underway, Continues, Counted
    <3>2. E.offset = 0 /\ E.max_id = Last(got)
      BY <3>1 DEF Underway, Continues
    <3>3. page = Answered(Last(got), 0, n)
      BY <1>6, <1>7, <2>2, <3>2 DEF CountedPage
    <3>4. PICK id \in Nat : id = Last(got)
      BY UnderwayFacts
    <3>5. PICK o \in Nat : o = 0
      OBVIOUS
    <3>6. Answered(id, o, n) \in Items
      BY <1>1, AnsweredIs
    <3> QED BY <3>3, <3>4, <3>5, <3>6
  <2> QED BY <2>1, <2>2
<1>10. PICK d \in Nat : d = Len(page)
  <2>1. Len(page) \in Nat
    BY <1>9 DEF Items
  <2> QED BY <2>1
<1>11. PICK left : left = CountedLeft(page)
  OBVIOUS
<1>12. /\ left \in Int
       /\ n + off < L => left = n - d
       /\ n + off >= L /\ off + d <= L => left = L - (off + d)
       /\ n + off >= L /\ off + d >= L => left = 0
  <2>1. left = Clip(n - d, off + d)
    BY <1>6, <1>8, <1>10, <1>11 DEF CountedLeft
  <2> QED BY <1>3, <1>6, <1>8, <1>10, <2>1, LeftIs
<1>13. /\ got' = got \o page
       /\ E' = IF CountedMore(page)
               THEN [offset |-> 0, limit |-> left, max_id |-> Oldest(got')]
               ELSE E
       /\ phase' = IF CountedMore(page) THEN "asking" ELSE "done"
  <2>1. Receive(page, CountedMore(page),
                [offset |-> 0, limit |-> left, max_id |-> Oldest(got')])
    BY <1>7, <1>11, CountedTake DEF Answer
  <2> QED BY <2>1 DEF Receive
<1>14. got' \in Items /\ got' # <<>> /\ Len(got') = g + d
  <2>1. got' \in Items /\ Len(got') = Len(got) + Len(page)
    BY <1>1, <1>9, <1>13, JoinIs
  <2>2. Len(got') = g + d /\ g + d # 0
    BY <1>2, <1>10, <2>1
  <2> QED BY <2>1, <2>2
<1>15. ASSUME kind \in {"history", "search"}
       PROVE  /\ page = Answered(Last(got), 0, n)
              /\ off = 0 /\ n + g <= lim
              /\ Deleted \/ n + g >= lim \/ n + g >= F - offset
              /\ Falls(got) /\ (Deleted \/ IsPrefix(got, Window))
              /\ Falls(got') /\ d <= n
              /\ Deleted \/ (IsPrefix(got', Window) /\ d < L)
  <2>1. /\ E.offset = 0 /\ E.max_id = Last(got)
        /\ E.limit + Len(got) <= limit
        /\ \/ Deleted
           \/ E.limit + Len(got) >= limit
           \/ E.limit + Len(got) >= Len(first) - offset
    BY <1>15 DEF Underway, Continues
  <2>2. page = Answered(Last(got), 0, n)
    BY <1>6, <1>7, <1>15, <2>1 DEF CountedPage
  <2>3. Falls(got) /\ (Deleted \/ IsPrefix(got, Window))
    BY <1>15, UnderwayFacts DEF PagesJoin, Falls
  <2>4. Falls(got') /\ Len(page) <= n
    BY <1>1, <1>6, <1>13, <2>2, <2>3, AnchoredPage
  <2>5. ASSUME ~Deleted
        PROVE  IsPrefix(got', Window) /\ Len(page) < Len(list)
    <3>1. CountsDown(list) /\ Len(first) <= Len(list) /\ IsPrefix(got, Window)
      BY <1>1, <2>3, <2>5
    <3>2. n + Len(got) <= limit /\ offset \in Nat /\ limit \in Nat \ {0}
      BY <1>6, <2>1, UnderwayFacts
    <3> QED BY <1>1, <1>6, <1>13, <2>2, <3>1, <3>2, AnchoredJoins
  <2>6. off = 0 /\ n + g <= lim
    BY <1>2, <1>5, <1>6, <1>8, <2>1
  <2>7. Deleted \/ n + g >= lim \/ n + g >= F - offset
    BY <1>2, <1>4, <1>5, <1>6, <2>1
  <2>8. d <= n /\ (Deleted \/ (IsPrefix(got', Window) /\ d < L))
    BY <1>3, <1>10, <2>4, <2>5
  <2> QED BY <2>2, <2>3, <2>4, <2>6, <2>7, <2>8
<1>16. Window' = Window
  BY <1>1 DEF Window
<1>17. kind # "channel history"
  BY DEF Underway, Continues
<1>18. PagesJoin'
  <2>1. ASSUME kind \in {"history", "search"}
        PROVE  /\ Falls(got') /\ Len(got') <= limit'
               /\ ~Deleted' => IsPrefix(got', Window')
    <3>1. Falls(got') /\ (Deleted \/ IsPrefix(got', Window))
          /\ d <= n /\ n + g <= lim
      BY <1>15, <2>1
    <3>2. Len(got') <= limit'
      <4>1. g + d <= lim
        BY <1>2, <1>5, <1>6, <1>10, <3>1
      <4> QED BY <1>1, <1>5, <1>14, <4>1
    <3> QED BY <1>1, <1>16, <3>1, <3>2
  <2> QED BY <1>1, <1>17, <2>1 DEF PagesJoin, Counted, Falls
<1>19. list \in Seq(Nat) /\ first \in Seq(Nat)
  BY DEF PagingInv, TypeOK
<1>20. CASE CountedMore(page)
  <2>1. left > 0
    BY <1>11, <1>20 DEF CountedMore
  <2>2. /\ E' = [offset |-> 0, limit |-> left, max_id |-> Last(got')]
        /\ Last(got') \in Nat /\ phase' = "asking"
    BY <1>13, <1>14, <1>20, OldestIs
  <2>3. TypeOK' /\ (kind \in {"dialogs", "channels"} => offset = 0)'
    <3>1. left \in Nat \ {0}
      BY <1>12, <2>1
    <3>2. E' \in [offset : Nat, limit : Nat \ {0}, max_id : Nat]
      BY <2>2, <3>1
    <3> QED BY <1>1, <1>14, <1>19, <2>2, <3>2, AnswerTyped
  <2>4. ASSUME kind \in {"history", "search"} PROVE Continues'
    <3>1. off = 0 /\ n + g <= lim /\ d <= n
          /\ (Deleted \/ n + g >= lim \/ n + g >= F - offset)
      BY <1>15, <2>4
    <3>2. left + (g + d) <= lim
      BY <1>2, <1>3, <1>5, <1>6, <1>8, <1>10, <1>12, <2>1, <3>1
    <3>3. Deleted \/ left + (g + d) >= lim \/ left + (g + d) >= F - offset
      <4>1. PICK o \in Nat : o = offset
        BY UnderwayFacts
      <4>2. CASE Deleted
        BY <4>2
      <4>3. CASE ~Deleted
        <5>1. d < L /\ F <= L /\ (n + g >= lim \/ n + g >= F - o)
          BY <1>1, <1>3, <1>4, <1>15, <2>4, <3>1, <4>1, <4>3
        <5>2. left + (g + d) >= lim \/ left + (g + d) >= F - o
          BY <1>2, <1>3, <1>4, <1>5, <1>6, <1>8, <1>10, <1>12, <2>1, <3>1,
             <5>1
        <5> QED BY <4>1, <5>2
      <4> QED BY <4>2, <4>3
    <3>4. E'.offset = 0 /\ E'.limit = left /\ E'.max_id = Last(got')
      BY <2>2
    <3>5. /\ E'.limit + Len(got') <= limit'
          /\ \/ Deleted'
             \/ E'.limit + Len(got') >= limit'
             \/ E'.limit + Len(got') >= Len(first') - offset'
      BY <1>1, <1>4, <1>5, <1>14, <3>2, <3>3, <3>4
    <3> QED BY <1>1, <2>4, <3>4, <3>5 DEF Continues
  <2>5. Continues'
    <3>1. CASE kind = "global search"
      BY <1>1, <3>1 DEF Continues
    <3> QED BY <1>17, <2>4, <3>1 DEF Counted
  <2>6. Underway'
    BY <1>1, <1>14, <2>5 DEF Underway
  <2>7. AllThere'
    BY <2>2 DEF AllThere
  <2> QED BY <1>1, <1>18, <2>2, <2>3, <2>6, <2>7 DEF PagingInv
<1>21. CASE ~CountedMore(page)
  <2>1. E' = E /\ phase' = "done"
    BY <1>13, <1>21
  <2>2. TypeOK' /\ (kind \in {"dialogs", "channels"} => offset = 0)'
    <3>1. E \in [offset : Nat, limit : Nat \ {0}, max_id : Nat]
      BY UnderwayFacts
    <3> QED BY <1>1, <1>14, <1>19, <2>1, <3>1, AnswerTyped
  <2>3. ASSUME kind \in {"history", "search"}, ~Deleted
        PROVE  got' = Window
    <3>1. off = 0 /\ n + g <= lim /\ d <= n
          /\ (n + g >= lim \/ n + g >= F - offset)
          /\ d < L /\ IsPrefix(got', Window)
      BY <1>15, <2>3
    <3>2. ~(left > 0)
      <4>1. ~(left > 0) \/ d = L
        BY <1>3, <1>10, <1>11, <1>17, <1>21 DEF CountedMore, Whole
      <4>2. d # L
        BY <1>3, <1>10, <3>1
      <4> QED BY <4>1, <4>2
    <3>3. d = n
      BY <1>3, <1>6, <1>8, <1>10, <1>12, <3>1, <3>2
    <3>4. PICK o \in Nat : o = offset
      BY UnderwayFacts
    <3>5. g + d >= lim \/ g + d >= F - o
      BY <1>2, <1>6, <1>10, <3>1, <3>3, <3>4
    <3>6. PICK c : c = Cut(F, o, lim)
      OBVIOUS
    <3>7. /\ c \in Nat /\ c <= lim
          /\ F <= o => c = 0
          /\ o <= F /\ F <= o + lim => c = F - o
      BY <3>6, CutIs
    <3>8. g + d >= c
      BY <1>2, <1>4, <1>5, <1>10, <3>4, <3>5, <3>7
    <3>9. Window \in Items /\ Len(Window) = c
      BY <1>1, <1>4, <1>5, <3>4, <3>6, FrontIs DEF Window
    <3>10. Len(got') >= Len(Window)
      BY <1>14, <3>8, <3>9
    <3> QED BY <1>14, <3>1, <3>9, <3>10, LongestFront DEF Items
  <2>4. AllThere'
    BY <1>1, <1>16, <2>1, <2>3 DEF AllThere, Counted
  <2> QED BY <1>18, <2>1, <2>2, <2>4 DEF PagingInv
<1> QED BY <1>20, <1>21

\* A page that starts after as many items as have come, from a list that did
\* not change.
LEMMA OffsetJoins ==
  ASSUME list \in Items, CountsDown(list), got \in Items,
         NEW o \in Nat, NEW m \in Nat, IsPrefix(got, Part(list, o, m)),
         Len(got) # 0, NEW n \in Nat \ {0},
         n + Len(got) <= m \/ m = Len(list),
         NEW page, page = Answered(0, o + Len(got), n)
  PROVE  /\ page \in Items /\ Len(page) \in Nat
         /\ IsPrefix(got \o page, Part(list, o, m))
         /\ Len(page) <= n
         /\ o + Len(got) + Len(page) <= Len(list)
         /\ Len(page) = 0 => o + Len(got) = Len(list)
<1>1. PICK g \in Nat \ {0} : g = Len(got)
  BY DEF Items
<1>2. PICK L \in Nat : L = Len(list)
  BY DEF Items
<1>3. PICK from \in Nat : from = o + g
  BY <1>1
<1>4. PICK s \in Nat \ {0} : s = Least(n, PageSize) /\ s <= n
  BY PageSizeIs
<1>5. /\ page \in Items
      /\ Len(page) = Cut(L, from, s)
      /\ Follows(page, list, from)
  <2>1. Falls(list)
    BY CountsFall
  <2>2. page = Answered(0, from, n)
    BY <1>1, <1>3
  <2>3. /\ Answered(0, from, n) \in Items
        /\ Len(Answered(0, from, n))
             = Cut(Len(list), from, Least(n, PageSize))
        /\ CountsDown(list) => Follows(Answered(0, from, n), list, from)
    BY <1>3, <2>1, OffsetPage
  <2> QED BY <1>2, <1>4, <2>2, <2>3
<1>6. PICK d \in Nat : d = Len(page)
  <2>1. Len(page) \in Nat
    BY <1>5 DEF Items
  <2> QED BY <2>1
<1>7. PICK c : c = Cut(L, o, m)
  OBVIOUS
<1>8. g <= c /\ Follows(got, list, o)
  BY <1>1, <1>2, <1>7, FrontIs
<1>9. /\ c \in Nat /\ c <= m
      /\ L <= o => c = 0
      /\ o <= L /\ o + m <= L => c = m
      /\ o <= L /\ L <= o + m => c = L - o
  BY <1>7, CutIs
<1>10. /\ d <= s
       /\ L <= from => d = 0
       /\ from <= L /\ from + s <= L => d = s
       /\ from <= L /\ L <= from + s => d = L - from
  <2>1. d = Cut(L, from, s)
    BY <1>5, <1>6
  <2> QED BY <2>1, CutIs
<1>11. from <= L
  BY <1>1, <1>2, <1>3, <1>8, <1>9
<1>12. from + d <= L /\ d <= n /\ (d = 0 => from = L)
  BY <1>2, <1>3, <1>4, <1>6, <1>10, <1>11
<1>13. g + d <= c
  <2>1. n + g <= m \/ m = L
    BY <1>1, <1>2
  <2> QED BY <1>1, <1>2, <1>3, <1>6, <1>9, <1>11, <1>12, <2>1
<1>14. got \o page \in Items /\ Len(got \o page) = g + d
  BY <1>1, <1>5, <1>6, JoinIs
<1>15. Follows(got \o page, list, o)
  <2> SUFFICES ASSUME NEW i \in 1 .. Len(got \o page)
               PROVE  (got \o page)[i] = Len(list) + 1 - o - i
    BY DEF Follows
  <2>1. CASE i \in 1 .. Len(got)
    BY <1>5, <1>8, <2>1, JoinIs DEF Follows
  <2>2. CASE i \notin 1 .. Len(got)
    <3>1. i \in Nat
      BY <1>1, <1>6, <1>14
    <3>2. i - Len(got) \in 1 .. Len(page)
          /\ (got \o page)[i] = page[i - Len(got)]
      BY <1>5, <2>2, JoinIs
    <3>3. page[i - Len(got)] = Len(list) + 1 - from - (i - Len(got))
      BY <1>5, <3>2 DEF Follows
    <3>4. L + 1 - from - (i - g) = L + 1 - o - i
      BY <1>1, <1>2, <1>3, <3>1
    <3> QED BY <1>1, <1>2, <3>2, <3>3, <3>4
  <2> QED BY <2>1, <2>2
<1>16. IsPrefix(got \o page, Part(list, o, m))
  <2>1. m \in Int /\ Len(got \o page) <= Cut(Len(list), o, m)
    BY <1>2, <1>7, <1>13, <1>14
  <2> QED BY <1>14, <1>15, <2>1, FrontIs
<1>17. o + Len(got) + Len(page) <= Len(list)
       /\ Len(page) <= n
       /\ (Len(page) = 0 => o + Len(got) = Len(list))
  BY <1>1, <1>2, <1>3, <1>6, <1>12
<1> QED BY <1>5, <1>6, <1>16, <1>17

\* A later answer to the members of a channel.
LEMMA UnderwayMembers ==
  ASSUME PagingInv, phase = "asking", Underway, Answer, OfMembers
  PROVE  PagingInv'
<1>1. /\ list \in Items /\ Falls(list) /\ first \in Items
      /\ CountsDown(first) /\ got \in Items /\ got # <<>>
      /\ Deleted \/ (CountsDown(list) /\ Len(first) <= Len(list))
      /\ first' = first /\ list' = list
      /\ kind' = kind /\ limit' = limit /\ offset' = offset
      /\ Deleted' <=> Deleted
      /\ Moved' <=> Moved
  BY UnderwayFacts
<1>2. PICK g \in Nat \ {0} : g = Len(got)
  BY UnderwayFacts
<1>3. PICK o \in Nat : o = offset
  BY UnderwayFacts
<1>4. PICK lim \in Nat \ {0} : lim = limit
  BY UnderwayFacts
<1>5. E.offset = o + g /\ E.limit = lim
  BY <1>2, <1>3, <1>4 DEF Underway, Continues, OfMembers
<1>6. PICK page : page = Answered(0, o + g, lim)
  OBVIOUS
<1>7. page \in Items /\ Len(page) \in Nat
  <2>1. PICK from \in Nat : from = o + g
    BY <1>2, <1>3
  <2>2. Answered(0, from, lim) \in Items
    BY <1>1, <1>4, <2>1, OffsetPage
  <2> QED BY <1>6, <2>1, <2>2 DEF Items
<1>8. /\ got' = got \o page
      /\ E' = IF page # <<>> /\ Len(got') # limit
              THEN [E EXCEPT !.offset = @ + Len(page)] ELSE E
      /\ phase' = IF page # <<>> /\ Len(got') # limit
                  THEN "asking" ELSE "done"
  <2>1. MembersPage = page
    BY <1>5, <1>6 DEF MembersPage
  <2>2. TakeMembers
    BY DEF Answer, Take, OfMembers
  <2> QED BY <2>1, <2>2 DEF TakeMembers, Receive
<1>9. got' \in Items /\ Len(got') = Len(got) + Len(page) /\ got' # <<>>
  <2>1. got' \in Items /\ Len(got') = Len(got) + Len(page)
    BY <1>1, <1>7, <1>8, JoinIs
  <2>2. Len(got') # 0
    BY <1>2, <1>7, <2>1
  <2> QED BY <2>1, <2>2
<1>10. ASSUME ~Moved
       PROVE  /\ IsPrefix(got', Part(first, o, Len(first)))
              /\ Len(page) = 0 => o + Len(got) = Len(first)
  <2>1. first = list /\ CountsDown(list) /\ Len(list) \in Nat
    BY <1>1, <1>10 DEF Moved, Items
  <2>2. IsPrefix(got, Part(list, o, Len(list)))
    BY <1>3, <1>10, <2>1, UnderwayFacts DEF PagesJoin, OfMembers
  <2>3. Len(got) # 0 /\ page = Answered(0, o + Len(got), lim)
    BY <1>2, <1>6
  <2> QED BY <1>1, <1>3, <1>4, <1>8, <2>1, <2>2, <2>3, OffsetJoins
<1>11. PagesJoin'
  BY <1>1, <1>3, <1>10 DEF PagesJoin, OfMembers
<1>12. list \in Seq(Nat) /\ first \in Seq(Nat)
       /\ E \in [offset : Nat, limit : Nat \ {0}, max_id : Nat]
  BY DEF PagingInv, TypeOK
<1>13. CASE page # <<>> /\ Len(got') # limit
  <2>1. E' = [E EXCEPT !.offset = @ + Len(page)] /\ phase' = "asking"
    BY <1>8, <1>13
  <2>2. E' \in [offset : Nat, limit : Nat \ {0}, max_id : Nat]
    <3>1. PICK x \in Nat : x = E.offset + Len(page)
      BY <1>7, <1>12
    <3>2. E' = [E EXCEPT !.offset = x]
      BY <2>1, <3>1
    <3> QED BY <1>12, <3>2
  <2>3. TypeOK' /\ (kind \in {"dialogs", "channels"} => offset = 0)'
    BY <1>1, <1>9, <1>12, <2>1, <2>2, AnswerTyped
  <2>4. Continues'
    <3>1. E'.offset = E.offset + Len(page) /\ E'.limit = E.limit
      BY <1>12, <2>1
    <3>2. E'.offset = offset' + Len(got') /\ E'.limit = limit'
      BY <1>1, <1>2, <1>3, <1>4, <1>5, <1>7, <1>9, <3>1
    <3> QED BY <1>1, <3>2 DEF Continues, OfMembers
  <2>5. Underway'
    BY <1>1, <1>9, <2>4 DEF Underway
  <2>6. AllThere'
    BY <2>1 DEF AllThere
  <2> QED BY <1>1, <1>11, <2>1, <2>3, <2>5, <2>6 DEF PagingInv
<1>14. CASE ~(page # <<>> /\ Len(got') # limit)
  <2>1. E' = E /\ phase' = "done"
    BY <1>8, <1>14
  <2>2. TypeOK' /\ (kind \in {"dialogs", "channels"} => offset = 0)'
    BY <1>1, <1>9, <1>12, <2>1, AnswerTyped
  <2>3. ASSUME ~Moved PROVE IsPrefix(Window, got')
    <3>1. PICK F \in Nat : F = Len(first)
      BY UnderwayFacts
    <3>2. PICK d \in Nat : d = Len(page)
      BY <1>7
    <3>3. (d = 0 => o + g = F) /\ (d = 0 \/ g + d = lim)
      <4>1. Len(page) = 0 \/ Len(got') = limit
        BY <1>14
      <4> QED BY <1>2, <1>4, <1>9, <1>10, <2>3, <3>1, <3>2, <4>1
    <3>4. PICK c : c = Cut(F, o, lim)
      OBVIOUS
    <3>5. /\ c \in Nat /\ c <= lim
          /\ o <= F /\ F <= o + lim => c = F - o
          /\ o <= F /\ o + lim <= F => c = lim
      BY <3>4, CutIs
    <3>6. c <= g + d
      BY <1>2, <1>3, <1>4, <3>1, <3>2, <3>3, <3>5
    <3>7. Window \in Items /\ Len(Window) = c
      BY <1>1, <1>3, <1>4, <3>1, <3>4, FrontIs DEF Window
    <3>8. Follows(Window, first, o)
      <4>1. IsPrefix(Window, Part(first, o, lim))
        BY <1>3, <1>4, <3>7, PrefixOfItself DEF Window
      <4> QED BY <1>1, <1>3, <1>4, <3>7, <4>1, FrontIs
    <3>9. Follows(got', first, o)
      <4>1. Len(first) \in Int
        BY <3>1
      <4> QED BY <1>1, <1>3, <1>9, <1>10, <2>3, <4>1, FrontIs
    <3>10. Len(Window) <= Len(got')
      BY <1>2, <1>9, <3>2, <3>6, <3>7
    <3>11. ASSUME NEW i \in 1 .. Len(Window) PROVE Window[i] = got'[i]
      <4>1. i \in 1 .. Len(got')
        BY <1>2, <1>9, <3>2, <3>5, <3>6, <3>7
      <4> QED BY <3>8, <3>9, <4>1 DEF Follows
    <3> QED BY <1>9, <3>7, <3>10, <3>11, PrefixIs DEF Items
  <2>4. AllThere'
    <3>1. Window' = Window
      BY <1>1 DEF Window
    <3> QED BY <1>1, <2>1, <2>3, <3>1 DEF AllThere, OfMembers
  <2> QED BY <1>11, <2>1, <2>2, <2>4 DEF PagingInv
<1> QED BY <1>13, <1>14

\* A later answer to a list of dialogs or of channels.
LEMMA UnderwayListed ==
  ASSUME PagingInv, phase = "asking", Underway, Answer, Listed
  PROVE  PagingInv'
<1>1. /\ list \in Items /\ Falls(list) /\ first \in Items
      /\ CountsDown(first) /\ got \in Items /\ got # <<>>
      /\ Deleted \/ (CountsDown(list) /\ Len(first) <= Len(list))
      /\ first' = first /\ list' = list
      /\ kind' = kind /\ limit' = limit /\ offset' = offset
      /\ Deleted' <=> Deleted
      /\ Moved' <=> Moved
  BY UnderwayFacts
<1>2. PICK g \in Nat \ {0} : g = Len(got)
  BY UnderwayFacts
<1>3. PICK lim \in Nat \ {0} : lim = limit
  BY UnderwayFacts
<1>4. offset = 0
  BY DEF PagingInv, Listed
<1>5. g < lim
  <2>1. Len(got) < limit
    BY DEF Underway, Continues, Listed
  <2> QED BY <1>2, <1>3, <2>1
<1>6. PICK n \in Nat \ {0} : n = lim - g
  BY <1>5
<1>7. PICK page : page = DialogsPage
  OBVIOUS
<1>8. kind = "dialogs" => page = Answered(Last(got), 0, n)
  BY <1>2, <1>3, <1>6, <1>7 DEF DialogsPage, Underway, Continues
<1>9. kind = "channels" => page = Answered(0, g, n)
  BY <1>2, <1>3, <1>6, <1>7 DEF DialogsPage, Underway, Continues
<1>10. page \in Items /\ Len(page) \in Nat
  <2>1. CASE kind = "dialogs"
    <3>1. PICK id \in Nat : id = Last(got)
      BY UnderwayFacts
    <3>2. PICK o \in Nat : o = 0
      OBVIOUS
    <3>3. Answered(id, o, n) \in Items
      BY <1>1, AnsweredIs
    <3> QED BY <1>8, <2>1, <3>1, <3>2, <3>3 DEF Items
  <2>2. CASE kind = "channels"
    <3>1. Answered(0, g, n) \in Items
      BY <1>1, OffsetPage
    <3> QED BY <1>9, <2>2, <3>1 DEF Items
  <2> QED BY <2>1, <2>2 DEF Listed
<1>11. /\ got' = got \o page
       /\ E' = IF ListedMore(page, got')
               THEN [E EXCEPT !.offset = @ + Len(page), !.max_id = Oldest(got')]
               ELSE E
       /\ phase' = IF ListedMore(page, got') THEN "asking" ELSE "done"
  <2>1. Receive(page, ListedMore(page, got'),
                [E EXCEPT !.offset = @ + Len(page), !.max_id = Oldest(got')])
    BY <1>7, ListedTake DEF Answer
  <2> QED BY <2>1 DEF Receive
<1>12. got' \in Items /\ Len(got') = Len(got) + Len(page) /\ got' # <<>>
  <2>1. got' \in Items /\ Len(got') = Len(got) + Len(page)
    BY <1>1, <1>10, <1>11, JoinIs
  <2>2. Len(got') # 0
    BY <1>2, <1>10, <2>1
  <2> QED BY <2>1, <2>2
<1>13. Window' = Window
  BY <1>1 DEF Window
<1>14. ASSUME kind = "dialogs"
       PROVE  /\ Falls(got') /\ Len(got') <= limit
              /\ Deleted \/ (/\ IsPrefix(got', Window)
                             /\ Len(page) < Len(list)
                             /\ Len(page) = 0 => got = Window)
  <2>1. Falls(got) /\ (Deleted \/ IsPrefix(got, Window))
    BY <1>14, UnderwayFacts DEF PagesJoin, Falls
  <2>2. Falls(got') /\ Len(page) <= n
    BY <1>1, <1>8, <1>11, <1>14, <2>1, AnchoredPage
  <2>3. Len(got') <= limit
    BY <1>2, <1>3, <1>6, <1>10, <1>12, <2>2
  <2>4. ASSUME ~Deleted
        PROVE  /\ IsPrefix(got', Window)
               /\ Len(page) < Len(list)
               /\ Len(page) = 0 => got = Window
    <3>1. CountsDown(list) /\ Len(first) <= Len(list) /\ IsPrefix(got, Window)
      BY <1>1, <2>1, <2>4
    <3>2. n + Len(got) <= limit /\ offset \in Nat /\ limit \in Nat \ {0}
      BY <1>2, <1>3, <1>4, <1>6
    <3> QED BY <1>1, <1>8, <1>11, <1>14, <3>1, <3>2, AnchoredJoins
  <2> QED BY <2>2, <2>3, <2>4
<1>15. ASSUME kind = "channels", ~Moved
       PROVE  /\ IsPrefix(got', Window)
              /\ Len(page) < Len(list)
              /\ Len(page) = 0 => Len(got) = Len(first)
              /\ first = list
  <2>1. first = list /\ CountsDown(list)
    BY <1>1, <1>15 DEF Moved
  <2>2. PICK o \in Nat : o = 0
    OBVIOUS
  <2>3. IsPrefix(got, Part(list, o, lim))
    BY <1>3, <1>4, <1>15, <2>1, <2>2, UnderwayFacts DEF PagesJoin, Window
  <2>4. o + Len(got) = g /\ n + Len(got) <= lim /\ Len(got) # 0
    BY <1>2, <1>3, <1>6, <2>2
  <2>5. page = Answered(0, o + Len(got), n)
    BY <1>9, <1>15, <2>4
  <2>6. /\ IsPrefix(got \o page, Part(list, o, lim))
        /\ o + Len(got) + Len(page) <= Len(list)
        /\ Len(page) = 0 => o + Len(got) = Len(list)
    BY <1>1, <2>1, <2>3, <2>4, <2>5, OffsetJoins
  <2>7. IsPrefix(got', Window)
    BY <1>3, <1>4, <1>11, <2>1, <2>2, <2>6 DEF Window
  <2>8. Len(list) \in Nat /\ Len(page) < Len(list)
    <3>1. Len(list) \in Nat
      BY <1>1 DEF Items
    <3> QED BY <1>2, <1>10, <2>2, <2>6, <3>1
  <2>9. Len(page) = 0 => Len(got) = Len(first)
    BY <1>2, <2>1, <2>2, <2>6
  <2> QED BY <2>1, <2>7, <2>8, <2>9
<1>16. PagesJoin'
  BY <1>1, <1>13, <1>14, <1>15 DEF PagesJoin, Listed, Falls
<1>17. list \in Seq(Nat) /\ first \in Seq(Nat)
       /\ E \in [offset : Nat, limit : Nat \ {0}, max_id : Nat]
  BY DEF PagingInv, TypeOK
<1>18. CASE ListedMore(page, got')
  <2>1. Len(got') < limit
    BY <1>18 DEF ListedMore
  <2>2. /\ E' = [E EXCEPT !.offset = @ + Len(page), !.max_id = Oldest(got')]
        /\ phase' = "asking"
        /\ Oldest(got') = Last(got') /\ Oldest(got') \in Nat
    BY <1>11, <1>12, <1>18, OldestIs
  <2>3. PICK x \in Nat : x = E.offset + Len(page)
    BY <1>10, <1>17
  <2>4. PICK y \in Nat : y = Last(got')
    BY <2>2
  <2>5. E' = [E EXCEPT !.offset = x, !.max_id = y]
    BY <2>2, <2>3, <2>4
  <2>6. /\ E' \in [offset : Nat, limit : Nat \ {0}, max_id : Nat]
        /\ E'.offset = x /\ E'.max_id = y
    BY <1>17, <2>5
  <2>7. TypeOK' /\ (kind \in {"dialogs", "channels"} => offset = 0)'
    BY <1>1, <1>12, <1>17, <2>2, <2>6, AnswerTyped
  <2>8. Continues'
    <3>1. E'.max_id = Last(got') /\ Len(got') < limit'
      BY <1>1, <2>1, <2>4, <2>6
    <3>2. ASSUME kind = "channels" PROVE E'.offset = Len(got')
      <4>1. E.offset = Len(got)
        BY <3>2 DEF Underway, Continues
      <4> QED BY <1>12, <2>3, <2>6, <4>1
    <3> QED BY <1>1, <3>1, <3>2 DEF Continues, Listed
  <2>9. Underway'
    BY <1>1, <1>12, <2>8 DEF Underway
  <2>10. AllThere'
    BY <2>2 DEF AllThere
  <2> QED BY <1>1, <1>16, <2>2, <2>7, <2>9, <2>10 DEF PagingInv
<1>19. CASE ~ListedMore(page, got')
  <2>1. E' = E /\ phase' = "done"
    BY <1>11, <1>19
  <2>2. TypeOK' /\ (kind \in {"dialogs", "channels"} => offset = 0)'
    BY <1>1, <1>12, <1>17, <2>1, AnswerTyped
  <2>3. /\ Window \in Items /\ Len(Window) \in Nat
        /\ Len(Window) <= limit /\ Len(Window) <= Len(first)
    <3>1. PICK F \in Nat : F = Len(first)
      BY UnderwayFacts
    <3>2. PICK o \in Nat : o = 0
      OBVIOUS
    <3>3. PICK c : c = Cut(F, o, lim)
      OBVIOUS
    <3>4. /\ c \in Nat /\ c <= lim
          /\ F <= o => c = 0
          /\ o <= F /\ F <= o + lim => c = F - o
      BY <3>3, CutIs
    <3>5. c <= F
      BY <3>2, <3>4
    <3>6. Window \in Items /\ Len(Window) = c
      BY <1>1, <1>3, <1>4, <3>1, <3>2, <3>3, FrontIs DEF Window
    <3> QED BY <1>3, <3>1, <3>4, <3>5, <3>6
  <2>4. page = <<>> \/ Len(page) = Len(list)
        \/ ~(Len(got') < limit) \/ ~(Len(got') < Len(list))
    BY <1>19 DEF ListedMore, Whole
  <2>5. ASSUME IsPrefix(got', Window), Len(page) < Len(list),
               Len(page) = 0 => Len(got') >= Len(Window),
               Len(first) <= Len(list)
        PROVE  got' = Window
    <3>1. Len(got') >= Len(Window)
      <4>1. Len(got') \in Nat /\ Len(list) \in Nat /\ Len(first) \in Nat
            /\ limit \in Nat
        BY <1>1, <1>3, <1>12 DEF Items
      <4>2. Len(page) # Len(list)
        BY <1>10, <2>5, <4>1
      <4>3. CASE Len(page) = 0
        BY <2>5, <4>3
      <4>4. CASE ~(Len(got') < limit)
        BY <2>3, <4>1, <4>4
      <4>5. CASE ~(Len(got') < Len(list))
        BY <2>3, <2>5, <4>1, <4>5
      <4> QED BY <2>4, <4>2, <4>3, <4>4, <4>5
    <3> QED BY <1>12, <2>3, <2>5, <3>1, LongestFront DEF Items
  <2>6. ASSUME kind = "dialogs", ~Deleted PROVE got' = Window
    <3>1. Len(page) = 0 => Len(got') >= Len(Window)
      BY <1>2, <1>12, <1>14, <2>6
    <3> QED BY <1>1, <1>14, <2>5, <2>6, <3>1
  <2>7. ASSUME kind = "channels", ~Moved PROVE got' = Window
    <3>1. Len(page) = 0 => Len(got') >= Len(Window)
      BY <1>2, <1>12, <1>15, <2>3, <2>7
    <3>2. Len(first) <= Len(list)
      BY <1>1, <1>15, <2>7 DEF Items
    <3> QED BY <1>15, <2>5, <2>7, <3>1, <3>2
  <2>8. AllThere'
    BY <1>1, <1>13, <2>1, <2>6, <2>7 DEF AllThere, Listed
  <2> QED BY <1>16, <2>1, <2>2, <2>8 DEF PagingInv
<1> QED BY <1>18, <1>19

\* Every answer.
LEMMA AnswerKeeps ==
  ASSUME PagingInv, Answer
  PROVE  PagingInv'
<1>1. phase = "asking" /\ (Opening \/ Underway)
  BY DEF PagingInv, Answer
<1>2. CASE Opening
  BY <1>1, <1>2, OpeningAnswer
<1>3. CASE Underway
  <2>1. Counted \/ Listed \/ OfMembers
    BY <1>3 DEF Underway, Continues, Counted, Listed, OfMembers
  <2> QED
    BY <1>1, <1>3, <2>1, UnderwayCounted, UnderwayListed, UnderwayMembers
<1> QED BY <1>1, <1>2, <1>3

\* Who fails has nothing.
LEMMA ErrorKeeps ==
  ASSUME PagingInv, Error
  PROVE  PagingInv'
<1>1. /\ got' = <<>> /\ phase' = "failed"
      /\ UNCHANGED <<kind, limit, offset, list, E, first>>
  BY DEF Error, call
<1>2. TypeOK'
  BY <1>1 DEF PagingInv, TypeOK
<1>3. first \in Seq(Nat)
  BY DEF PagingInv, TypeOK
<1>4. limit \in Nat \ {0} /\ offset \in Nat
  <2>1. limit \in Limits /\ offset \in Offsets \cup {0}
    BY DEF PagingInv, TypeOK
  <2>2. Limits \subseteq Nat \ {0} /\ Offsets \subseteq Nat
    BY PagingAssumption
  <2> QED BY <2>1, <2>2
<1>5. IsPrefix(got', Window')
      /\ IsPrefix(got', Part(first', offset', Len(first')))
  <2>1. limit \in Int /\ Len(first) \in Int
    BY <1>3, <1>4
  <2>2. IsPrefix(<<>>, Window)
        /\ IsPrefix(<<>>, Part(first, offset, Len(first)))
    BY <1>3, <1>4, <2>1, NothingIsFront DEF Window
  <2> QED BY <1>1, <2>2 DEF Window
<1>6. PagesJoin'
  <2>1. Len(got') <= limit'
    BY <1>1, <1>4
  <2>2. \A i, j \in DOMAIN got' : i < j => got'[i] > got'[j]
    BY <1>1
  <2> QED BY <1>5, <2>1, <2>2 DEF PagesJoin
<1>7. AllThere'
  BY <1>1 DEF AllThere
<1> QED BY <1>1, <1>2, <1>6, <1>7 DEF PagingInv

\* What a step of the server on its own leaves alone.
LEMMA ServerStep ==
  ASSUME PagingInv, phase = "asking", Underway,
         UNCHANGED <<call, E, got, first, phase>>,
         list' \in Items, Falls(list'), list' # first,
         \/ Deleted'
         \/ ~Deleted /\ CountsDown(list') /\ Len(first) <= Len(list')
  PROVE  PagingInv'
<1>1. /\ kind' = kind /\ limit' = limit /\ offset' = offset
      /\ E' = E /\ got' = got /\ first' = first /\ phase' = phase
  BY DEF call
<1>2. Window' = Window /\ Moved'
  BY <1>1 DEF Window, Moved
<1>3. TypeOK' /\ (kind \in {"dialogs", "channels"} => offset = 0)'
  <2>1. list' \in Seq(Nat)
    BY SeqMonotonic DEF Items
  <2> QED BY <1>1, <2>1 DEF PagingInv, TypeOK
<1>4. ~Deleted' => ~Deleted
  OBVIOUS
<1>5. PagesJoin'
  <2>1. PagesJoin
    BY DEF PagingInv
  <2> QED BY <1>1, <1>2, <1>4, <2>1 DEF PagesJoin
<1>6. AllThere'
  BY <1>1 DEF AllThere
<1>7. Continues'
  <2>1. Continues /\ (Deleted => Deleted')
    <3>1. Deleted \/ ~Deleted
      OBVIOUS
    <3> QED BY DEF Underway
  <2> QED BY <1>1, <2>1 DEF Continues
<1>8. Underway'
  BY <1>1, <1>7 DEF Underway
<1> QED BY <1>1, <1>3, <1>5, <1>6, <1>8 DEF PagingInv

\* Items that are added have greater numbers.
LEMMA ArriveKeeps ==
  ASSUME PagingInv, Arrive
  PROVE  PagingInv'
<1>1. /\ phase = "asking" /\ Underway /\ ~Deleted
      /\ list' = <<Len(list) + 1>> \o list
      /\ UNCHANGED <<call, E, got, first, phase>>
  BY DEF Arrive, PagingInv, Opening
<1>2. /\ list \in Items /\ CountsDown(list) /\ first \in Items
      /\ Len(first) <= Len(list) /\ Len(list) \in Nat /\ Len(first) \in Nat
  BY <1>1 DEF PagingInv, Underway, Items
<1>3. PICK L \in Nat : L = Len(list)
  BY <1>2
<1>4. PICK new : new = <<L + 1>>
  OBVIOUS
<1>5. new \in Items /\ Len(new) = 1 /\ new[1] = L + 1
  <2>1. L + 1 \in Nat \ {0}
    OBVIOUS
  <2> QED BY <1>4, <2>1 DEF Items
<1>6. /\ list' = new \o list
      /\ list' \in Items /\ Len(list') = L + 1
  <2>1. list' = new \o list
    BY <1>1, <1>3, <1>4
  <2>2. list' \in Items /\ Len(list') = Len(new) + Len(list)
    BY <1>2, <1>5, <2>1, JoinIs
  <2> QED BY <1>3, <1>5, <2>1, <2>2
<1>7. ASSUME NEW i \in 1 .. Len(list') PROVE list'[i] = Len(list') + 1 - i
  <2>1. i \in 1 .. L + 1
    BY <1>6
  <2>2. CASE i = 1
    <3>1. 1 \in 1 .. Len(new)
      BY <1>5
    <3>2. list'[1] = L + 1
      BY <1>2, <1>5, <1>6, <3>1, JoinIs
    <3> QED BY <1>6, <2>2, <3>2
  <2>3. CASE i # 1
    <3>1. i \notin 1 .. Len(new)
      BY <1>5, <2>1, <2>3
    <3>2. i - Len(new) \in 1 .. Len(list)
          /\ (new \o list)[i] = list[i - Len(new)]
      BY <1>2, <1>5, <1>6, <3>1, JoinIs
    <3>3. i - 1 \in 1 .. L /\ list'[i] = list[i - 1]
      BY <1>3, <1>5, <1>6, <3>2
    <3>4. list[i - 1] = L + 1 - (i - 1)
      <4>1. DOMAIN list = 1 .. Len(list)
        BY <1>2 DEF Items
      <4>2. \A j \in 1 .. L : list[j] = L + 1 - j
        BY <1>2, <1>3, <4>1 DEF CountsDown
      <4> QED BY <3>3, <4>2
    <3> QED BY <1>6, <2>1, <3>3, <3>4
  <2> QED BY <2>2, <2>3
<1>8. CountsDown(list') /\ Falls(list')
  <2>1. CountsDown(list')
    <3>1. DOMAIN list' = 1 .. Len(list')
      BY <1>6 DEF Items
    <3> QED BY <1>7, <3>1 DEF CountsDown
  <2> QED BY <1>6, <2>1, CountsFall
<1>9. Len(first) <= Len(list') /\ list' # first
  BY <1>2, <1>3, <1>6
<1> QED BY <1>1, <1>6, <1>8, <1>9, ServerStep

\* Nothing has the place of an item that is deleted.
LEMMA DeleteKeeps ==
  ASSUME PagingInv, Delete
  PROVE  PagingInv'
<1>1. /\ phase = "asking" /\ Underway /\ ~Deleted
      /\ UNCHANGED <<call, E, got, first, phase>>
  BY DEF Delete, PagingInv, Opening
<1>2. PICK d \in DOMAIN list :
        list[d] <= Len(first) /\ list' = RemoveAt(list, d)
  BY DEF Delete
<1>3. /\ list \in Items /\ Falls(list) /\ CountsDown(list) /\ first \in Items
      /\ CountsDown(first) /\ Len(first) \in Nat
      /\ DOMAIN list = 1 .. Len(list) /\ DOMAIN first = 1 .. Len(first)
      /\ \A i \in 1 .. Len(list) : list[i] \in Nat \ {0}
      /\ Len(list) \in Nat
  BY <1>1 DEF PagingInv, Underway, Items
<1>4. PICK L \in Nat : L = Len(list)
  BY <1>3
<1>5. d \in 1 .. L
  BY <1>2, <1>3, <1>4
<1>6. PICK front : front = SubSeq(list, 1, d - 1)
  OBVIOUS
<1>7. PICK back : back = SubSeq(list, d + 1, L)
  OBVIOUS
<1>8. /\ front \in Items /\ Len(front) = d - 1
      /\ \A i \in 1 .. Len(front) : front[i] = list[i]
  <2>1. /\ 1 \in Int /\ d - 1 \in Int
        /\ \A i \in 1 .. d - 1 : list[i] \in Nat \ {0}
    BY <1>3, <1>4, <1>5
  <2>2. /\ front \in Seq(Nat \ {0})
        /\ Len(front) = IF 1 <= d - 1 THEN d - 1 - 1 + 1 ELSE 0
        /\ \A i \in 1 .. d - 1 - 1 + 1 : front[i] = list[1 + i - 1]
    BY <1>6, <2>1, SubSeqProperties
  <2>3. Len(front) = d - 1
    BY <1>5, <2>2
  <2>4. ASSUME NEW i \in 1 .. Len(front) PROVE front[i] = list[i]
    <3>1. i \in 1 .. d - 1 - 1 + 1 /\ 1 + i - 1 = i
      BY <1>5, <2>3
    <3> QED BY <2>2, <3>1
  <2> QED BY <2>2, <2>3, <2>4 DEF Items
<1>9. /\ back \in Items /\ Len(back) = L - d
      /\ \A i \in 1 .. Len(back) : back[i] = list[d + i] /\ d + i \in 1 .. L
  <2>1. /\ d + 1 \in Int /\ L \in Int
        /\ \A i \in d + 1 .. L : list[i] \in Nat \ {0}
    BY <1>3, <1>4, <1>5
  <2>2. /\ back \in Seq(Nat \ {0})
        /\ Len(back) = IF d + 1 <= L THEN L - (d + 1) + 1 ELSE 0
        /\ \A i \in 1 .. L - (d + 1) + 1 : back[i] = list[d + 1 + i - 1]
    BY <1>7, <2>1, SubSeqProperties
  <2>3. Len(back) = L - d
    BY <1>5, <2>2
  <2>4. ASSUME NEW i \in 1 .. Len(back)
        PROVE  back[i] = list[d + i] /\ d + i \in 1 .. L
    <3>1. i \in 1 .. L - (d + 1) + 1
          /\ d + 1 + i - 1 = d + i /\ d + i \in 1 .. L
      BY <1>5, <2>3
    <3> QED BY <2>2, <3>1
  <2> QED BY <2>2, <2>3, <2>4 DEF Items
<1>10. list' = front \o back
  BY <1>2, <1>4, <1>6, <1>7 DEF RemoveAt
<1>11. list' \in Items
  BY <1>8, <1>9, <1>10, JoinIs
<1>12. \A i \in 1 .. L : list[i] = L + 1 - i
  BY <1>3, <1>4 DEF CountsDown
<1>13. /\ \A i \in 1 .. Len(front) : front[i] = L + 1 - i /\ i \in Nat
       /\ \A i \in 1 .. Len(back) : back[i] = L + 1 - d - i /\ i \in Nat
  <2>1. ASSUME NEW i \in 1 .. Len(front) PROVE front[i] = L + 1 - i /\ i \in Nat
    <3>1. i \in 1 .. L
      BY <1>5, <1>8
    <3> QED BY <1>8, <1>12, <3>1
  <2>2. ASSUME NEW i \in 1 .. Len(back)
        PROVE  back[i] = L + 1 - d - i /\ i \in Nat
    <3>1. i \in Nat /\ back[i] = list[d + i] /\ d + i \in 1 .. L
      BY <1>5, <1>9
    <3>2. list[d + i] = L + 1 - (d + i)
      BY <1>12, <3>1
    <3> QED BY <1>5, <3>1, <3>2
  <2> QED BY <2>1, <2>2
<1>14. Falls(list')
  <2>1. Falls(front)
    <3> SUFFICES ASSUME NEW i \in 1 .. Len(front),
                        NEW j \in 1 .. Len(front), i < j
                 PROVE  front[i] > front[j]
      BY <1>8 DEF Falls, Items
    <3>1. front[i] = L + 1 - i /\ front[j] = L + 1 - j /\ i \in Nat /\ j \in Nat
      BY <1>13
    <3> QED BY <1>5, <3>1
  <2>2. Falls(back)
    <3> SUFFICES ASSUME NEW i \in 1 .. Len(back),
                        NEW j \in 1 .. Len(back), i < j
                 PROVE  back[i] > back[j]
      BY <1>9 DEF Falls, Items
    <3>1. /\ back[i] = L + 1 - d - i /\ back[j] = L + 1 - d - j
          /\ i \in Nat /\ j \in Nat
      BY <1>13
    <3> QED BY <1>5, <3>1
  <2>3. ASSUME NEW i \in 1 .. Len(back)
        PROVE  front = <<>> \/ back[i] < Last(front)
    <3>1. CASE Len(front) = 0
      BY <1>8, <3>1 DEF Items
    <3>2. CASE Len(front) # 0
      <4>1. d - 1 \in 1 .. Len(front)
        BY <1>5, <1>8, <3>2
      <4>2. Last(front) = L + 1 - (d - 1)
        BY <1>8, <1>13, <4>1 DEF Last
      <4>3. back[i] = L + 1 - d - i /\ i \in Nat
        BY <1>13
      <4> QED BY <1>5, <4>2, <4>3
    <3> QED BY <3>1, <3>2
  <2> QED BY <1>8, <1>9, <1>10, <2>1, <2>2, <2>3, JoinFalls
<1>15. \A i \in 1 .. Len(list') : list'[i] # list[d]
  <2> SUFFICES ASSUME NEW i \in 1 .. Len(list') PROVE list'[i] # list[d]
    OBVIOUS
  <2>1. list[d] = L + 1 - d
    BY <1>5, <1>12
  <2>2. CASE i \in 1 .. Len(front)
    <3>1. list'[i] = front[i]
      BY <1>8, <1>9, <1>10, <2>2, JoinIs
    <3>2. front[i] = L + 1 - i /\ i \in 1 .. d - 1
      BY <1>8, <1>13, <2>2
    <3> QED BY <1>5, <2>1, <3>1, <3>2
  <2>3. CASE i \notin 1 .. Len(front)
    <3>1. i - Len(front) \in 1 .. Len(back)
          /\ list'[i] = back[i - Len(front)]
      BY <1>8, <1>9, <1>10, <2>3, JoinIs
    <3>2. PICK j : j = i - Len(front)
      OBVIOUS
    <3>3. j \in 1 .. Len(back) /\ back[j] = L + 1 - d - j /\ j \in Nat
      BY <1>13, <3>1, <3>2
    <3>4. j # 0
      BY <1>9, <3>3
    <3> QED BY <1>5, <2>1, <3>1, <3>2, <3>3, <3>4
  <2> QED BY <2>2, <2>3
<1>16. PICK k \in DOMAIN first : first[k] = list[d]
  <2>1. PICK F \in Nat : F = Len(first)
    BY <1>3
  <2>2. PICK v \in Nat \ {0} : v = list[d] /\ v <= F
    BY <1>2, <1>3, <2>1
  <2>3. F + 1 - v \in 1 .. F
    BY <2>2
  <2>4. first[F + 1 - v] = F + 1 - (F + 1 - v)
    BY <1>3, <2>1, <2>3 DEF CountsDown
  <2>5. F + 1 - (F + 1 - v) = v
    BY <2>2
  <2> QED BY <1>3, <2>1, <2>2, <2>3, <2>4, <2>5
<1>17. Deleted'
  <2>1. ~Contains(list', first[k])
    BY <1>15, <1>16 DEF Contains
  <2>2. first' = first
    BY <1>1
  <2> QED BY <2>1, <2>2 DEF Deleted
<1>18. list' # first
  <2>1. ASSUME list' = first PROVE FALSE
    <3>1. k \in 1 .. Len(list') /\ list'[k] = list[d]
      BY <1>3, <1>16, <2>1
    <3> QED BY <1>15, <3>1
  <2> QED BY <2>1
<1> QED BY <1>1, <1>11, <1>14, <1>17, <1>18, ServerStep

\* Nothing has come yet.
LEMMA InitOpens == Init => PagingInv
<1> SUFFICES ASSUME Init PROVE PagingInv
  OBVIOUS
<1>1. PICK n \in Lengths : list = Reverse([i \in 1 .. n |-> i])
  BY DEF Init
<1>2. n \in Nat
  BY <1>1, PagingAssumption
<1>3. PICK up : up = [i \in 1 .. n |-> i]
  OBVIOUS
<1>4. up \in Seq(Nat \ {0}) /\ Len(up) = n /\ \A i \in 1 .. n : up[i] = i
  <2>1. up \in [1 .. n -> Nat \ {0}] /\ \A i \in 1 .. n : up[i] = i
    BY <1>2, <1>3
  <2> QED BY <1>2, <2>1
<1>5. list = [i \in 1 .. n |-> up[n - i + 1]]
  <2>1. list = Reverse(up)
    BY <1>1, <1>3
  <2>2. list = [i \in 1 .. Len(up) |-> up[(Len(up) - i) + 1]]
    BY <2>1 DEF Reverse
  <2> QED BY <1>4, <2>2
<1>6. \A i \in 1 .. n : list[i] = n + 1 - i /\ n + 1 - i \in Nat \ {0}
  <2> SUFFICES ASSUME NEW i \in 1 .. n
               PROVE  list[i] = n + 1 - i /\ n + 1 - i \in Nat \ {0}
    OBVIOUS
  <2>1. n - i + 1 \in 1 .. n /\ n - i + 1 = n + 1 - i
    BY <1>2
  <2> QED BY <1>4, <1>5, <2>1
<1>7. list \in Items /\ Len(list) = n
  <2>1. list \in [1 .. n -> Nat \ {0}]
    BY <1>5, <1>6
  <2> QED BY <1>2, <2>1 DEF Items
<1>8. CountsDown(list) /\ Falls(list)
  <2>1. CountsDown(list)
    BY <1>6, <1>7 DEF CountsDown, Items
  <2> QED BY <1>7, <2>1, CountsFall
<1>9. /\ kind \in Kinds /\ limit \in Limits /\ offset \in Offsets \cup {0}
      /\ (kind \in {"dialogs", "channels"} => offset = 0)
      /\ E = [offset |-> offset, limit |-> limit, max_id |-> 0]
      /\ got = <<>> /\ first = <<>> /\ phase = "asking"
  BY DEF Init
<1>10. limit \in Nat \ {0} /\ offset \in Nat
  <2>1. Limits \subseteq Nat \ {0} /\ Offsets \subseteq Nat
    BY PagingAssumption
  <2> QED BY <1>9, <2>1
<1>11. TypeOK
  <2>1. list \in Seq(Nat)
    BY <1>7, SeqMonotonic DEF Items
  <2>2. E \in [offset : Nat, limit : Nat \ {0}, max_id : Nat]
    BY <1>9, <1>10
  <2> QED BY <1>9, <2>1, <2>2 DEF TypeOK
<1>12. PagesJoin
  <2>1. PICK e \in Items : e = <<>> /\ Len(e) = 0
    BY EmptySeq DEF Items
  <2>2. ASSUME NEW m \in Int PROVE IsPrefix(e, Part(e, offset, m))
    <3>1. Part(e, offset, m) \in Seq(Nat \ {0})
          /\ Len(Part(e, offset, m)) \in Nat
      <4>1. e \in Seq(Nat \ {0}) /\ offset \in Nat
        BY <1>10 DEF Items
      <4>2. Part(e, offset, m) \in Seq(Nat \ {0})
        BY <4>1, PartIs
      <4> QED BY <4>2, LenProperties
    <3>2. Len(e) <= Len(Part(e, offset, m))
          /\ \A i \in 1 .. Len(e) : e[i] = Part(e, offset, m)[i]
      BY <2>1, <3>1
    <3> QED BY <2>1, <3>1, <3>2, PrefixIs DEF Items
  <2>3. limit \in Int /\ Len(first) \in Int
    BY <1>9, <1>10, <2>1
  <2>4. IsPrefix(got, Window) /\ IsPrefix(got, Part(first, offset, Len(first)))
    BY <1>9, <2>1, <2>2, <2>3 DEF Window
  <2>5. Len(got) <= limit /\ \A i, j \in DOMAIN got : i < j => got[i] > got[j]
    BY <1>9, <1>10, <2>1
  <2> QED BY <2>4, <2>5 DEF PagesJoin
<1>13. AllThere
  BY <1>9 DEF AllThere
<1> QED BY <1>7, <1>8, <1>9, <1>11, <1>12, <1>13 DEF PagingInv, Opening

\* The invariant is inductive.
LEMMA PagingInductive == PagingInv /\ [Next]_vars => PagingInv'
<1> SUFFICES ASSUME PagingInv, [Next]_vars PROVE PagingInv'
  OBVIOUS
<1>1. CASE Answer
  BY <1>1, AnswerKeeps
<1>2. CASE Error
  BY <1>2, ErrorKeeps
<1>3. CASE Arrive
  BY <1>3, ArriveKeeps
<1>4. CASE Delete
  BY <1>4, DeleteKeeps
<1>5. CASE UNCHANGED vars
  <2>1. UNCHANGED <<kind, limit, offset, list, E, got, first, phase>>
    BY <1>5 DEF vars
  <2> QED
    BY <2>1 DEF PagingInv, TypeOK, PagesJoin, AllThere, Opening, Underway,
                Continues, Deleted, Moved, Window
<1> QED BY <1>1, <1>2, <1>3, <1>4, <1>5 DEF Next

\* Lists that are fetched page by page (get_history_on_answer,
\* msg_search_on_answer, get_dialogs_on_answer, channels_get_members_on_answer).
\* For any length, limit, offset and page size, and after any number of pages:
\* of a history, a search and the dialogs no item comes twice, none is passed
\* over unless one was deleted, and no more come than the limit; channels and
\* members join as long as nothing moves.
THEOREM PagesAlwaysJoin == Spec => []PagesJoin
<1>1. PagingInv => PagesJoin
  BY DEF PagingInv
<1> QED BY <1>1, InitOpens, PagingInductive, PTL DEF Spec

\* When the callback is called with success, the list is all that was asked
\* for and was there: the limit that is counted down over the pages never
\* stops them early.
THEOREM NothingLeftOut == Spec => []AllThere
<1>1. PagingInv => AllThere
  BY DEF PagingInv
<1> QED BY <1>1, InitOpens, PagingInductive, PTL DEF Spec
=============================================================================
