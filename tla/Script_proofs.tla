---------------------------- MODULE Script_proofs ----------------------------
(***************************************************************************)
(* Proofs about the scripts.  First about Files and the queue of calls,    *)
(* whose steps are those of Files or leave the files alone.  A load that   *)
(* did not go on with what it found writes part k + 1 when k parts are in  *)
(* the file, whatever other loads of the file do; the queue is made of     *)
(* whole calls, and those that lua_do_all has not come to are at no other  *)
(* place.                                                                  *)
(*                                                                         *)
(* Then about Guard, the bot's work on a message: what holds of the work   *)
(* before the first turn and is kept by each turn holds when it is done.   *)
(***************************************************************************)
EXTENDS LuaQueue, Guard, FiniteSetTheorems, SequenceTheorems,
        WellFoundedInduction, TLAPS

\* The shape of a transfer.
Transfer == [state : {"none", "load", "part", "media", "done", "failed",
                      "aborted"},
             file : File \cup DOMAIN Source \cup {"none"},
             offset : Nat, at : Nat \cup {Closed}, parts : Nat]

Typed ==
  /\ transfer \in [Call -> Transfer]
  /\ disk \in [File -> Seq(Nat)]
  /\ resumed \in SUBSET File

\* What is so of a request: a load is of a document, and where it is in the
\* file; an upload is of a local file, and what it has sent.
LoadFits(t, d, r) ==
  /\ t.file \in File
  /\ t.offset < Parts[t.file]
  /\ t.at <= t.offset
  /\ t.file \notin r =>
       \/ t.at = Closed /\ t.offset = 0
       \/ t.at = t.offset /\ t.offset <= Len(d[t.file])

SendFits(t) ==
  /\ t.file \in DOMAIN Source
  /\ IF t.at = Closed
     THEN /\ t.offset = Source[t.file]
          /\ 2 * t.parts \in Source[t.file] .. Source[t.file] + 1
     ELSE t.offset = 2 * t.parts /\ t.offset < Source[t.file]

FittingIn(t, d, r) ==
  /\ t.state # "aborted"
  /\ t.state = "none" => t = None
  /\ t.state = "load" => LoadFits(t, d, r)
  /\ t.state \in {"part", "media"} => SendFits(t)
  /\ t.state = "media" => t.at = Closed
  /\ t.state = "done" /\ t.file \in File \ r =>
       Len(d[t.file]) = Parts[t.file]
  /\ t.file \in File => t.offset \in 0 .. Parts[t.file]
  /\ t.file \in DOMAIN Source => t.offset \in 0 .. Source[t.file]

Fitting(t) == FittingIn(t, disk, resumed)

InOrder ==
  \A f \in File :
    /\ Len(disk[f]) <= Parts[f]
    /\ f \notin resumed => \A k \in 1 .. Len(disk[f]) : disk[f][k] = k

FilesInv == Typed /\ InOrder /\ \A c \in Call : Fitting(transfer[c])

\* Writing at the end, or over the same part, keeps the parts in order.
LEMMA WrittenInOrder ==
  ASSUME NEW s \in Seq(Nat), NEW pos \in Nat, pos <= Len(s),
         \A k \in 1 .. Len(s) : s[k] = k
  PROVE  LET w == Written(s, pos, pos + 1)
         IN /\ w \in Seq(Nat)
            /\ Len(w) = IF pos < Len(s) THEN Len(s) ELSE Len(s) + 1
            /\ \A k \in 1 .. Len(w) : w[k] = k
<1>1. CASE pos < Len(s)
  BY <1>1 DEF Written
<1>2. CASE ~(pos < Len(s))
  BY <1>2 DEF Written
<1> QED
  BY <1>1, <1>2

\* Writing gives a sequence of parts.
LEMMA WrittenIsSeq ==
  ASSUME NEW s \in Seq(Nat), NEW pos \in Nat, NEW k \in Nat
  PROVE  Written(s, pos, k) \in Seq(Nat)
BY DEF Written

\* A request that becomes what fits, with the files as they were, keeps the
\* invariant.
LEMMA MovesKeep ==
  ASSUME FilesInv, NEW c \in Call, NEW t \in Transfer, Fitting(t),
         Becomes(c, t), UNCHANGED <<disk, resumed>>
  PROVE  FilesInv'
<1>1. transfer' = [transfer EXCEPT ![c] = t]
  BY DEF Becomes
<1>2. Typed'
  BY <1>1 DEF FilesInv, Typed
<1>3. InOrder'
  BY DEF FilesInv, InOrder
<1>4. ASSUME NEW d \in Call PROVE Fitting(transfer[d])'
  <2>1. transfer'[d] = IF d = c THEN t ELSE transfer[d]
    BY <1>1 DEF FilesInv, Typed
  <2>2. Fitting(transfer'[d])
    BY <2>1 DEF FilesInv
  <2> QED
    BY <2>2 DEF Fitting
<1> QED
  BY <1>2, <1>3, <1>4 DEF FilesInv

LEMMA NoneTyped == None \in Transfer
BY DEF None, Transfer, Closed

LEMMA LoadNothingKeeps ==
  ASSUME FilesInv, NEW c \in Call, LoadNothing(c)
  PROVE  FilesInv'
<1> DEFINE t == Started("failed", "none")
<1>1. t \in Transfer
  BY DEF Started, None, Transfer, Closed
<1>2. Fitting(t)
  BY FilesAssumption DEF Fitting, FittingIn, Started, None
<1> QED
  BY <1>1, <1>2, MovesKeep DEF LoadNothing

LEMMA FailKeeps ==
  ASSUME FilesInv, NEW c \in Call, Fail(c)
  PROVE  FilesInv'
<1> DEFINE t == [transfer[c] EXCEPT !.state = "failed"]
<1>1. transfer[c] \in Transfer /\ Fitting(transfer[c])
  BY DEF FilesInv, Typed
<1>2. t \in Transfer
  BY <1>1 DEF Transfer
<1>3. Fitting(t)
  BY <1>1 DEF Fitting, FittingIn, Transfer
<1> QED
  BY <1>2, <1>3, MovesKeep DEF Fail

LEMMA MessageSentKeeps ==
  ASSUME FilesInv, NEW c \in Call, MessageSent(c)
  PROVE  FilesInv'
<1> DEFINE t == [transfer[c] EXCEPT !.state = "done"]
<1>1. transfer[c] \in Transfer /\ Fitting(transfer[c])
  BY DEF FilesInv, Typed
<1>2. t \in Transfer
  BY <1>1 DEF Transfer
<1>3. Fitting(t)
  BY <1>1, FilesAssumption
     DEF Fitting, FittingIn, Transfer, MessageSent, SendFits
<1> QED
  BY <1>2, <1>3, MovesKeep DEF MessageSent

\* send_part, called at the beginning or when a part is saved, leaves an upload
\* that fits: in particular neither of its assertions fails.
LEMMA SendPartFits ==
  ASSUME NEW t \in Transfer, t.state = "part", SendFits(t)
  PROVE  SendPart(t) \in Transfer /\ Fitting(SendPart(t))
<1> DEFINE left == Source[t.file] - t.offset
           x == IF left > 2 THEN 2 ELSE left
<1>1. t.file \in DOMAIN Source /\ Source[t.file] \in Nat /\ t.offset \in Nat
      /\ t.parts \in Nat /\ t.file \notin File
  BY FilesAssumption DEF SendFits, Transfer
<1>2. CASE t.at = Closed
  <2>1. SendPart(t) = [t EXCEPT !.state = "media"]
    BY <1>2 DEF SendPart
  <2> QED
    BY <1>1, <1>2, <2>1 DEF Transfer, Fitting, FittingIn, SendFits, Closed
<1>3. CASE t.at # Closed
  <2>1. left > 0 /\ t.offset = 2 * t.parts
    BY <1>1, <1>3 DEF SendFits
  <2>2. x \in 1 .. 2 /\ (x = 2 \/ left = x)
    BY <1>1, <2>1
  <2> DEFINE u == [t EXCEPT !.state = "part", !.offset = @ + x,
                            !.parts = @ + 1,
                            !.at = IF left = x THEN Closed ELSE @ + x]
  <2>3. SendPart(t) = u
    BY <1>3, <2>2 DEF SendPart
  <2>4. t.at \in Nat
    BY <1>3 DEF Transfer
  <2>5. /\ u.state = "part" /\ u.file = t.file
        /\ u.offset = t.offset + x /\ u.parts = t.parts + 1
        /\ u.at = IF left = x THEN Closed ELSE t.at + x
    BY DEF Transfer
  <2>6. u \in Transfer
    <3> HIDE DEF x, left
    <3>1. t.offset + x \in Nat /\ t.parts + 1 \in Nat
          /\ (IF left = x THEN Closed ELSE t.at + x) \in Nat \cup {Closed}
      BY <1>1, <2>2, <2>4
    <3> QED
      BY <3>1 DEF Transfer
  <2>7. SendFits(u)
    <3>1. CASE left = x
      BY <1>1, <2>1, <2>2, <2>5, <3>1 DEF SendFits, Closed
    <3>2. CASE left # x
      <4>1. x = 2 /\ left > 2
        BY <1>1, <2>2, <3>2
      <4>2. u.at # Closed
        BY <2>4, <2>5, <3>2, <4>1 DEF Closed
      <4> QED
        BY <1>1, <2>1, <2>5, <4>1, <4>2 DEF SendFits
    <3> QED
      BY <3>1, <3>2
  <2>8. u.offset \in 0 .. Source[u.file]
    BY <1>1, <2>1, <2>2, <2>5
  <2>9. Fitting(u)
    BY <1>1, <2>5, <2>7, <2>8 DEF Fitting, FittingIn
  <2> QED
    BY <2>3, <2>6, <2>9
<1> QED
  BY <1>2, <1>3

LEMMA PartSavedKeeps ==
  ASSUME FilesInv, NEW c \in Call, PartSaved(c)
  PROVE  FilesInv'
<1>1. transfer[c] \in Transfer /\ SendFits(transfer[c])
      /\ transfer[c].state = "part"
  BY DEF FilesInv, Typed, Fitting, FittingIn, PartSaved
<1>2. SendPart(transfer[c]) \in Transfer /\ Fitting(SendPart(transfer[c]))
  BY <1>1, SendPartFits
<1> QED
  BY <1>2, MovesKeep DEF PartSaved

LEMMA StartSendKeeps ==
  ASSUME FilesInv, NEW c \in Call, NEW f \in DOMAIN Source, StartSend(c, f)
  PROVE  FilesInv'
<1>1. f \notin File /\ f # "none" /\ Source[f] \in Nat
  BY FilesAssumption
<1>2. CASE Source[f] = 0
  <2> DEFINE t == Started("failed", f)
  <2>1. t \in Transfer
    BY DEF Started, None, Transfer, Closed
  <2>2. Fitting(t)
    BY <1>1 DEF Fitting, FittingIn, Started, None
  <2> QED
    BY <1>2, <2>1, <2>2, MovesKeep DEF StartSend
<1>3. CASE Source[f] # 0
  <2> DEFINE t == [Started("part", f) EXCEPT !.at = 0]
  <2>1. /\ t.state = "part" /\ t.file = f /\ t.offset = 0 /\ t.at = 0
        /\ t.parts = 0 /\ t \in Transfer
    BY DEF Started, None, Transfer, Closed
  <2>2. SendFits(t)
    BY <1>1, <1>3, <2>1 DEF SendFits, Closed
  <2>3. SendPart(t) \in Transfer /\ Fitting(SendPart(t))
    BY <2>1, <2>2, SendPartFits
  <2> QED
    BY <1>3, <2>3, MovesKeep DEF StartSend
<1> QED
  BY <1>2, <1>3

LEMMA StartLoadKeeps ==
  ASSUME FilesInv, NEW c \in Call, NEW f \in File, StartLoad(c, f)
  PROVE  FilesInv'
<1> DEFINE there == Len(disk[f])
           t == [Started(IF there >= Parts[f] THEN "done" ELSE "load", f)
                   EXCEPT !.offset = there]
<1>1. there \in Nat /\ Parts[f] \in Nat /\ Parts[f] > 0
      /\ f \notin DOMAIN Source /\ f # "none"
  BY FilesAssumption DEF FilesInv, Typed
<1>2. transfer' = [transfer EXCEPT ![c] = t] /\ disk' = disk
  BY DEF StartLoad, Becomes
<1>3. /\ resumed \subseteq resumed' /\ resumed' \in SUBSET File
      /\ there \in 1 .. Parts[f] - 1 => f \in resumed'
  BY DEF StartLoad, FilesInv, Typed
<1>4. there <= Parts[f]
  BY DEF FilesInv, InOrder
<1>5. t.state = (IF there >= Parts[f] THEN "done" ELSE "load") /\ t.file = f
      /\ t.offset = there /\ t.at = Closed /\ t \in Transfer
  BY <1>1 DEF Started, None, Transfer, Closed
<1>6. Typed'
  BY <1>2, <1>3, <1>5 DEF FilesInv, Typed
<1>7. InOrder'
  BY <1>2, <1>3 DEF FilesInv, InOrder
<1>8. ASSUME NEW d \in Call PROVE Fitting(transfer[d])'
  <2>1. CASE d = c
    <3>1. transfer'[d] = t
      BY <1>2, <2>1 DEF FilesInv, Typed
    <3> HIDE DEF there, t
    <3>2. LoadFits(t, disk', resumed') \/ t.state = "done"
      BY <1>1, <1>3, <1>5 DEF LoadFits, Closed
    <3>3. t.state = "done" => Len(disk'[f]) = Parts[f]
      BY <1>1, <1>2, <1>4, <1>5 DEF there
    <3>4. FittingIn(t, disk', resumed')
      BY <1>1, <1>4, <1>5, <3>2, <3>3 DEF FittingIn
    <3> QED
      BY <3>1, <3>4 DEF Fitting
  <2>2. CASE d # c
    <3>1. transfer'[d] = transfer[d] /\ Fitting(transfer[d])
      BY <1>2, <2>2 DEF FilesInv, Typed
    <3>2. FittingIn(transfer[d], disk, resumed')
      BY <1>3, <3>1 DEF Fitting, FittingIn, LoadFits
    <3> QED
      BY <1>2, <3>1, <3>2 DEF Fitting
  <2> QED
    BY <2>1, <2>2
<1> QED
  BY <1>6, <1>7, <1>8 DEF FilesInv

\* The heart: an answer puts the part that was asked for behind the parts that
\* are there, or over itself.
LEMMA ReceivePartKeeps ==
  ASSUME FilesInv, NEW c \in Call, ReceivePart(c)
  PROVE  FilesInv'
<1> DEFINE t == transfer[c]
           f == t.file
           pos == IF t.at = Closed THEN 0 ELSE t.at
           u == [t EXCEPT !.at = pos + 1, !.offset = @ + 1,
                          !.state = IF t.offset + 1 < Parts[f] THEN @
                                    ELSE "done"]
           w == Written(disk[f], pos, t.offset + 1)
<1>1. /\ t \in Transfer /\ t.state = "load" /\ f \in File /\ Fitting(t)
      /\ t.offset \in Nat /\ t.offset < Parts[f] /\ Parts[f] \in Nat
      /\ disk[f] \in Seq(Nat) /\ Len(disk[f]) <= Parts[f]
      /\ f \notin DOMAIN Source
  BY FilesAssumption
     DEF FilesInv, Typed, InOrder, Fitting, FittingIn, LoadFits, ReceivePart,
         Transfer
<1>2. /\ pos \in Nat /\ pos <= t.offset
      /\ f \notin resumed => pos = t.offset /\ pos <= Len(disk[f])
  BY <1>1 DEF Fitting, FittingIn, LoadFits, Transfer, Closed
<1>3. /\ transfer' = [transfer EXCEPT ![c] = u]
      /\ disk' = [disk EXCEPT ![f] = w]
      /\ resumed' = resumed
  BY DEF ReceivePart, Becomes
<1>4. /\ u \in Transfer /\ u.file = f /\ u.at = pos + 1
      /\ u.offset = t.offset + 1
      /\ u.state = IF t.offset + 1 < Parts[f] THEN "load" ELSE "done"
  <2>1. pos + 1 \in Nat /\ t.offset + 1 \in Nat
    BY <1>1, <1>2
  <2> HIDE DEF pos
  <2> QED
    BY <1>1, <2>1 DEF Transfer
<1>5. /\ w \in Seq(Nat) /\ Len(w) >= Len(disk[f]) /\ Len(w) <= Parts[f]
      /\ Len(w) >= IF pos < Len(disk[f]) THEN pos + 1 ELSE Len(disk[f]) + 1
  BY <1>1, <1>2 DEF Written
<1>6. f \notin resumed => \A k \in 1 .. Len(w) : w[k] = k
  <2> SUFFICES ASSUME f \notin resumed PROVE \A k \in 1 .. Len(w) : w[k] = k
    OBVIOUS
  <2>1. \A k \in 1 .. Len(disk[f]) : disk[f][k] = k
    BY <1>1 DEF FilesInv, InOrder
  <2> QED
    BY <1>1, <1>2, <2>1, WrittenInOrder
<1>7. disk' \in [File -> Seq(Nat)] /\ disk'[f] = w
      /\ \A g \in File : g # f => disk'[g] = disk[g]
  BY <1>1, <1>3, <1>5 DEF FilesInv, Typed
<1>8. Typed'
  BY <1>3, <1>4, <1>7 DEF FilesInv, Typed
<1>9. InOrder'
  BY <1>3, <1>5, <1>6, <1>7 DEF FilesInv, InOrder
<1>10. \A g \in File : Len(disk[g]) <= Len(disk'[g])
                        /\ Len(disk'[g]) <= Parts[g]
  <2> SUFFICES ASSUME NEW g \in File
               PROVE Len(disk[g]) <= Len(disk'[g]) /\ Len(disk'[g]) <= Parts[g]
    OBVIOUS
  <2>1. CASE g = f
    BY <1>5, <1>7, <2>1
  <2>2. CASE g # f
    <3>1. /\ disk'[g] = disk[g]
          /\ Len(disk[g]) \in Nat /\ Len(disk[g]) <= Parts[g]
      BY <1>7, <2>2 DEF FilesInv, Typed, InOrder
    <3> QED
      BY <3>1
  <2> QED
    BY <2>1, <2>2
<1>11. ASSUME NEW d \in Call PROVE Fitting(transfer[d])'
  <2>1. CASE d = c
    <3>1. transfer'[d] = u
      BY <1>3, <2>1 DEF FilesInv, Typed
    <3>2. f \notin resumed => Len(w) >= t.offset + 1
      BY <1>1, <1>2, <1>5
    <3> HIDE DEF t, f, pos, u, w
    <3>3. u.state = "load" => LoadFits(u, disk', resumed')
      BY <1>1, <1>2, <1>3, <1>4, <1>5, <1>7, <3>2 DEF LoadFits
    <3>4. f \notin resumed /\ u.state = "done" => Len(w) = Parts[f]
      BY <1>1, <1>4, <1>5, <3>2
    <3>5. FittingIn(u, disk', resumed')
      BY <1>1, <1>3, <1>4, <1>7, <3>3, <3>4 DEF FittingIn
    <3> QED
      BY <3>1, <3>5 DEF Fitting
  <2>2. CASE d # c
    <3>1. transfer'[d] = transfer[d] /\ Fitting(transfer[d])
          /\ transfer[d] \in Transfer
      BY <1>3, <2>2 DEF FilesInv, Typed
    <3> DEFINE v == transfer[d]
               g == v.file
    <3>2. g \in File =>
            /\ Len(disk[g]) \in Nat /\ Len(disk'[g]) \in Nat
            /\ Len(disk[g]) <= Len(disk'[g]) /\ Len(disk'[g]) <= Parts[g]
            /\ Parts[g] \in Nat /\ v.offset \in Nat
      BY <1>7, <1>10, <3>1, FilesAssumption DEF FilesInv, Typed, Transfer
    <3> HIDE DEF v, g
    <3>3. v.state = "load" => LoadFits(v, disk', resumed')
      BY <1>3, <3>1, <3>2 DEF Fitting, FittingIn, LoadFits, v, g
    <3>4. v.state = "done" /\ g \in File \ resumed' =>
            Len(disk'[g]) = Parts[g]
      BY <1>3, <3>1, <3>2 DEF Fitting, FittingIn, v, g
    <3>5. FittingIn(v, disk', resumed')
      BY <3>1, <3>3, <3>4 DEF Fitting, FittingIn, v, g
    <3> QED
      BY <3>1, <3>5 DEF Fitting, v
  <2> QED
    BY <2>1, <2>2
<1> QED
  BY <1>8, <1>9, <1>11 DEF FilesInv

LEMMA FilesInitially == FilesInit => FilesInv
<1> SUFFICES ASSUME FilesInit PROVE FilesInv
  OBVIOUS
<1>1. Typed
  BY NoneTyped DEF FilesInit, Typed
<1>2. InOrder
  BY FilesAssumption DEF FilesInit, InOrder
<1>3. ASSUME NEW c \in Call PROVE Fitting(transfer[c])
  <2>1. transfer[c] = None
    BY DEF FilesInit
  <2> QED
    BY <2>1, FilesAssumption DEF Fitting, FittingIn, None
<1> QED
  BY <1>1, <1>2, <1>3 DEF FilesInv

LEMMA FilesInductive == FilesInv /\ [FilesNext]_fileVars => FilesInv'
<1> SUFFICES ASSUME FilesInv, [FilesNext]_fileVars PROVE FilesInv'
  OBVIOUS
<1>1. ASSUME NEW c \in Call, Start(c) PROVE FilesInv'
  BY <1>1, LoadNothingKeeps, StartLoadKeeps, StartSendKeeps DEF Start
<1>2. ASSUME NEW c \in Call, Receive(c) PROVE FilesInv'
  BY <1>2, ReceivePartKeeps, PartSavedKeeps, MessageSentKeeps, FailKeeps
     DEF Receive
<1>3. CASE UNCHANGED fileVars
  BY <1>3 DEF fileVars, FilesInv, Typed, InOrder, Fitting
<1> QED
  BY <1>1, <1>2, <1>3 DEF FilesNext

\* The invariant says what the property says.
LEMMA FilesImplied == FilesInv => FilesTypeOK /\ FilesAreWhole
<1> SUFFICES ASSUME FilesInv PROVE FilesTypeOK /\ FilesAreWhole
  OBVIOUS
<1>1. FilesTypeOK
  BY DEF FilesInv, Typed, Fitting, FittingIn, FilesTypeOK, Transfer, Going,
         Over
<1>2. ASSUME NEW f \in File \ resumed PROVE LoadedIsWhole(f)
  <2>1. disk[f] \in Seq(Nat) /\ DOMAIN disk[f] = 1 .. Len(disk[f])
    BY DEF FilesInv, Typed
  <2>2. \A k \in DOMAIN disk[f] : disk[f][k] = k
    BY <2>1 DEF FilesInv, InOrder
  <2>3. ASSUME NEW c \in Loads(f), transfer[c].state = "done"
        PROVE disk[f] = Whole(f)
    <3>1. Len(disk[f]) = Parts[f]
      BY <2>3 DEF Loads, FilesInv, Fitting, FittingIn
    <3> QED
      BY <2>1, <2>2, <3>1 DEF Whole
  <2> QED
    BY <2>2, <2>3 DEF LoadedIsWhole
<1>3. ASSUME NEW f \in DOMAIN Source PROVE SentIsWhole(f)
  BY DEF SentIsWhole, Loads, FilesInv, Fitting, FittingIn, SendFits
<1> QED
  BY <1>1, <1>2, <1>3 DEF FilesAreWhole

\* FilesAreWhole: for all documents, local files and any number of requests at
\* once, loaded files that no load went on with are whole when they are
\* reported, and sent files when they are sent.
THEOREM FilesWhole == FilesSpec => []FilesAreWhole
<1>1. FilesSpec => []FilesInv
  BY FilesInitially, FilesInductive, PTL DEF FilesSpec
<1> QED
  BY <1>1, FilesImplied, PTL
-----------------------------------------------------------------------------
(* The queue.                                                              *)

\* A word of a call: one of its header, or an argument.
QueueWord == [holds : {"length", "type", "record", "value", "string"},
              call : Call, name : Names, n : Nat]

\* The first words of the calls in a queue, and the last word of such a call.
Heads(w) == {k \in DOMAIN w : w[k].holds = "length"}
ParamsAt(w, h) == Functions[w[h].name].params
LastWord(w, h) == h + 2 + Len(ParamsAt(w, h))

\* The call whose first word is h is whole.
WholeCall(w, h) ==
  /\ LastWord(w, h) <= Len(w)
  /\ \A k \in h + 1 .. LastWord(w, h) :
       k \notin Heads(w) /\ w[k].call = w[h].call /\ w[k].name = w[h].name
  /\ \A i \in DOMAIN ParamsAt(w, h) : w[h + 2 + i].holds = ParamsAt(w, h)[i]

\* The queue is made of whole calls, no call twice.
Blocks(w) ==
  /\ \A k \in DOMAIN w : \E h \in Heads(w) : k \in h .. LastWord(w, h)
  /\ \A h \in Heads(w) : WholeCall(w, h)
  /\ \A g, h \in Heads(w) : g # h => w[g].call # w[h].call

\* Arguments that are strings are flagged as such.
Flagged == \A k \in DOMAIN words : words[k].holds = "string" => k \in flag

\* The calls were accepted; one that lua_do_all has not come to is neither
\* asked nor called back.
Owed ==
  \A h \in Heads(words) :
    /\ words[h].call \in accepted
    /\ h > at => /\ words[h].call \notin back /\ words[h].call \notin asked
                 /\ transfer[words[h].call].state = "none"

\* A call that is not called back has its place.
Placed ==
  \A c \in accepted \ back :
    \/ c \in asked
    \/ transfer[c].state \in Going
    \/ \E h \in Heads(words) : h > at /\ words[h].call = c

\* Copies of strings are those of arguments that lua_do_all has not come to.
Copies ==
  \A s \in strings : \E h \in Heads(words) :
    \E j \in DOMAIN ParamsAt(words, h) :
      /\ s = <<words[h].call, j>> /\ h + 2 + j > at
      /\ ParamsAt(words, h)[j] = "string"

\* A call is at one place at a time, and its record is there until it is called
\* back or the record was taken for a string.
Records ==
  /\ \E n \in Nat : accepted = 1 .. n
  /\ accepted \subseteq Call
  /\ \A c \in Call :
       /\ c \notin accepted => c \notin asked /\ transfer[c].state = "none"
       /\ c \in back => c \notin asked /\ transfer[c].state \notin Going
       /\ c \in asked => transfer[c].state = "none"
  /\ held \cap back = {} /\ asked \subseteq Call /\ misused \subseteq doomed

QueueInv ==
  /\ FilesInv
  /\ words \in Seq(QueueWord) /\ at \in 0 .. Len(words) /\ (~turn => at = 0)
  /\ Blocks(words) /\ Flagged /\ Owed /\ Placed /\ Copies /\ Records

\* Two sequences joined.
LEMMA Joined ==
  ASSUME NEW S, NEW s \in Seq(S), NEW t \in Seq(S)
  PROVE  /\ s \o t \in Seq(S) /\ Len(s \o t) = Len(s) + Len(t)
         /\ Len(s) \in Nat /\ Len(t) \in Nat
         /\ DOMAIN (s \o t) = 1 .. Len(s) + Len(t)
         /\ DOMAIN s = 1 .. Len(s)
         /\ \A k \in 1 .. Len(s) : (s \o t)[k] = s[k]
         /\ \A k \in 1 .. Len(t) : (s \o t)[Len(s) + k] = t[k]
         /\ \A k \in Len(s) + 1 .. Len(s) + Len(t) :
              (s \o t)[k] = t[k - Len(s)] /\ k - Len(s) \in 1 .. Len(t)
<1> DEFINE j == s \o t
           a == Len(s)
           b == Len(t)
<1>1. /\ j \in Seq(S) /\ Len(j) = a + b /\ a \in Nat /\ b \in Nat
      /\ \A i \in 1 .. a + b : j[i] = IF i <= a THEN s[i] ELSE t[i - a]
  BY ConcatProperties
<1>2. DOMAIN s = 1 .. a
  OBVIOUS
<1> HIDE DEF j, a, b
<1>3. DOMAIN j = 1 .. a + b
  BY <1>1
<1>4. \A k \in 1 .. a : j[k] = s[k]
  BY <1>1
<1>5. ASSUME NEW k \in 1 .. b PROVE j[a + k] = t[k]
  <2>1. a + k \in 1 .. a + b /\ ~(a + k <= a) /\ (a + k) - a = k
    BY <1>1
  <2> QED
    BY <1>1, <2>1
<1>6. ASSUME NEW k \in a + 1 .. a + b
      PROVE  j[k] = t[k - a] /\ k - a \in 1 .. b
  <2>1. k \in 1 .. a + b /\ ~(k <= a) /\ k - a \in 1 .. b
    BY <1>1
  <2> QED
    BY <1>1, <2>1
<1> QED
  BY <1>1, <1>2, <1>3, <1>4, <1>5, <1>6 DEF j, a, b

\* What the functions have in common.
LEMMA Table ==
  ASSUME NEW name \in Names
  PROVE  LET f == Functions[name]
         IN /\ f.params \in Seq({"value", "string"})
            /\ Len(f.params) \in 0 .. 3
            /\ f.does \in {"ask", "load", "send", "fail"}
            /\ f.does # "fail" =>
                 f.takes \in {Len(f.params), Len(f.params) + 1}
<1>1. name \in DOMAIN Functions
  BY LuaAssumption
<1>2. name \in {"get_contact_list", "send_typing", "send_msg", "send_photo2",
                "add_contact", "load_document", "send_document",
                "send_document2", "restore_msg"}
  BY <1>1 DEF Functions
<1>3. /\ Functions["get_contact_list"] =
           [params |-> <<>>, takes |-> 1, does |-> "ask"]
      /\ Functions["send_typing"] =
           [params |-> <<"value">>, takes |-> 2, does |-> "ask"]
      /\ Functions["send_msg"] =
           [params |-> <<"value", "string">>, takes |-> 3, does |-> "ask"]
      /\ Functions["send_photo2"] =
           [params |-> <<"value", "string", "string">>, takes |-> 4,
            does |-> "send"]
      /\ Functions["add_contact"] =
           [params |-> <<"string", "string", "string">>, takes |-> 4,
            does |-> "ask"]
      /\ Functions["load_document"] =
           [params |-> <<"value">>, takes |-> 2, does |-> "load"]
      /\ Functions["send_document"] =
           [params |-> <<"value", "string">>, takes |-> 3, does |-> "send"]
      /\ Functions["send_document2"] =
           [params |-> <<"value", "string", "string">>, takes |-> 3,
            does |-> "send"]
      /\ Functions["restore_msg"] =
           [params |-> <<"value">>, takes |-> 0, does |-> "fail"]
  BY DEF Functions
<1> DEFINE S == {"value", "string"}
<1>4. /\ <<>> \in Seq(S) /\ Len(<<>>) = 0
      /\ <<"value">> \in Seq(S) /\ Len(<<"value">>) = 1
      /\ <<"value", "string">> \in Seq(S) /\ Len(<<"value", "string">>) = 2
      /\ <<"value", "string", "string">> \in Seq(S)
      /\ Len(<<"value", "string", "string">>) = 3
      /\ <<"string", "string", "string">> \in Seq(S)
      /\ Len(<<"string", "string", "string">>) = 3
  OBVIOUS
<1> DEFINE Fine(f) ==
             /\ f.params \in Seq({"value", "string"})
             /\ Len(f.params) \in 0 .. 3
             /\ f.does \in {"ask", "load", "send", "fail"}
             /\ f.does # "fail" =>
                  f.takes \in {Len(f.params), Len(f.params) + 1}
<1> HIDE DEF Fine
<1>5. Fine(Functions["get_contact_list"])
  BY <1>3, <1>4 DEF Fine
<1>6. Fine(Functions["send_typing"])
  BY <1>3, <1>4 DEF Fine
<1>7. Fine(Functions["send_msg"])
  BY <1>3, <1>4 DEF Fine
<1>8. Fine(Functions["send_photo2"])
  BY <1>3, <1>4 DEF Fine
<1>9. Fine(Functions["add_contact"])
  BY <1>3, <1>4 DEF Fine
<1>10. Fine(Functions["load_document"])
  BY <1>3, <1>4 DEF Fine
<1>11. Fine(Functions["send_document"])
  BY <1>3, <1>4 DEF Fine
<1>12. Fine(Functions["send_document2"])
  BY <1>3, <1>4 DEF Fine
<1>13. Fine(Functions["restore_msg"])
  BY <1>3, <1>4 DEF Fine
<1>14. Fine(Functions[name])
  BY <1>2, <1>5, <1>6, <1>7, <1>8, <1>9, <1>10, <1>11, <1>12, <1>13
<1> QED
  BY <1>14 DEF Fine

\* The words of a call: the first tells them from other calls' words.
LEMMA WordsOfCall ==
  ASSUME NEW c \in Call, NEW name \in Names
  PROVE  LET w == Words(c, name)
             p == Functions[name].params
         IN /\ w \in Seq(QueueWord) /\ Len(w) = 3 + Len(p)
            /\ w[1].holds = "length"
            /\ \A k \in 2 .. Len(w) : w[k].holds # "length"
            /\ \A k \in 1 .. Len(w) : w[k].call = c /\ w[k].name = name
            /\ \A i \in DOMAIN p : w[3 + i].holds = p[i]
<1> DEFINE p == Functions[name].params
           header == <<Word("length", c, name, Len(p) + 1),
                       Word("type", c, name, 0), Word("record", c, name, 0)>>
           args == [i \in DOMAIN p |-> Word(p[i], c, name, 0)]
           w == Words(c, name)
<1>1. p \in Seq({"value", "string"}) /\ Len(p) \in Nat
  BY Table
<1>2. w = header \o args
  BY DEF Words
<1> HIDE DEF p, w
<1>a. ASSUME NEW h \in {"length", "type", "record", "value", "string"},
             NEW m \in Nat
      PROVE  /\ Word(h, c, name, m) \in QueueWord
             /\ Word(h, c, name, m).holds = h
             /\ Word(h, c, name, m).call = c /\ Word(h, c, name, m).name = name
  BY DEF Word, QueueWord
<1>3. header \in Seq(QueueWord) /\ Len(header) = 3
  BY <1>1, <1>a
<1>4. args \in Seq(QueueWord) /\ Len(args) = Len(p)
  <2>1. \A i \in 1 .. Len(p) : args[i] \in QueueWord
    BY <1>1, <1>a
  <2>2. DOMAIN args = 1 .. Len(p)
    BY <1>1
  <2> HIDE DEF args
  <2>3. args = [i \in 1 .. Len(p) |-> args[i]]
    BY <2>2 DEF args
  <2> QED
    BY <1>1, <2>1, <2>2, <2>3
<1> HIDE DEF header, args
<1>5. /\ w \in Seq(QueueWord) /\ Len(w) = 3 + Len(p)
      /\ \A k \in 1 .. 3 : w[k] = header[k]
      /\ \A i \in 1 .. Len(p) : w[3 + i] = args[i]
  <2>1. Len(p) \in Nat
    BY <1>1
  <2>2. /\ header \o args \in Seq(QueueWord)
        /\ Len(header \o args) = 3 + Len(p)
        /\ \A k \in 1 .. 3 : (header \o args)[k] = header[k]
        /\ \A i \in 1 .. Len(p) : (header \o args)[3 + i] = args[i]
    BY <1>3, <1>4, Joined
  <2> QED
    BY <1>2, <2>2
<1>6. DOMAIN p = 1 .. Len(p)
  BY <1>1
<1>7. /\ w[1] = Word("length", c, name, Len(p) + 1)
      /\ w[2] = Word("type", c, name, 0) /\ w[3] = Word("record", c, name, 0)
  BY <1>5 DEF header
<1>8. \A i \in 1 .. Len(p) : w[3 + i] = Word(p[i], c, name, 0)
  BY <1>5, <1>6 DEF args
<1>9. w[1].holds = "length"
  BY <1>7 DEF Word
<1>10. \A i \in DOMAIN p : w[3 + i].holds = p[i]
  BY <1>1, <1>6, <1>8, <1>a
<1>11. ASSUME NEW k \in 1 .. Len(w)
       PROVE  /\ w[k].call = c /\ w[k].name = name
              /\ k # 1 => w[k].holds # "length"
  <2>1. CASE k \in 1 .. 3
    <3>1. k = 1 \/ k = 2 \/ k = 3
      BY <2>1
    <3> QED
      BY <1>7, <3>1 DEF Word
  <2>2. CASE k \notin 1 .. 3
    <3> DEFINE i == k - 3
    <3>1. i \in 1 .. Len(p) /\ k = 3 + i /\ p[i] \in {"value", "string"}
      BY <1>1, <1>5, <2>2
    <3>2. w[k] = Word(p[i], c, name, 0)
      BY <1>8, <3>1
    <3> HIDE DEF i
    <3> QED
      BY <2>2, <3>1, <3>2 DEF Word
  <2> QED
    BY <2>1, <2>2
<1>12. \A k \in 2 .. Len(w) : w[k].holds # "length"
  BY <1>1, <1>5, <1>11
<1> QED
  BY <1>5, <1>9, <1>10, <1>11, <1>12 DEF p, w

\* The words of the calls in a queue are numbered as they should be.
LEMMA HeadsFit ==
  ASSUME NEW w \in Seq(QueueWord), NEW h \in Heads(w)
  PROVE  /\ h \in 1 .. Len(w) /\ w[h] \in QueueWord
         /\ w[h].call \in Call /\ w[h].name \in Names
         /\ ParamsAt(w, h) = Functions[w[h].name].params
         /\ ParamsAt(w, h) \in Seq({"value", "string"})
         /\ Len(ParamsAt(w, h)) \in 0 .. 3
         /\ DOMAIN ParamsAt(w, h) = 1 .. Len(ParamsAt(w, h))
         /\ LastWord(w, h) = h + 2 + Len(ParamsAt(w, h))
         /\ LastWord(w, h) \in Nat
         /\ \A i \in DOMAIN ParamsAt(w, h) :
              h + 2 + i \in h + 1 .. LastWord(w, h)
<1>1. h \in 1 .. Len(w) /\ w[h] \in QueueWord
  BY DEF Heads
<1>2. w[h].call \in Call /\ w[h].name \in Names
  BY <1>1 DEF QueueWord
<1>3. /\ ParamsAt(w, h) \in Seq({"value", "string"})
      /\ Len(ParamsAt(w, h)) \in 0 .. 3
  BY <1>2, Table DEF ParamsAt
<1>4. DOMAIN ParamsAt(w, h) = 1 .. Len(ParamsAt(w, h))
  BY <1>3
<1>5. LastWord(w, h) = h + 2 + Len(ParamsAt(w, h)) /\ LastWord(w, h) \in Nat
  BY <1>1, <1>3 DEF LastWord
<1>6. ASSUME NEW i \in DOMAIN ParamsAt(w, h)
      PROVE  h + 2 + i \in h + 1 .. LastWord(w, h)
  BY <1>1, <1>3, <1>4, <1>5
<1>7. ParamsAt(w, h) = Functions[w[h].name].params
  BY DEF ParamsAt
<1> QED
  BY <1>1, <1>2, <1>3, <1>4, <1>5, <1>6, <1>7

\* A queue v that is w and a new call.
Grown(w, v, c, name) ==
  LET p == Functions[name].params
      n == Len(w) + 1
  IN /\ v \in Seq(QueueWord) /\ Len(v) = Len(w) + 3 + Len(p)
     /\ Blocks(v)
     /\ Heads(v) = Heads(w) \cup {n} /\ n \notin Heads(w)
     /\ v[n].call = c /\ ParamsAt(v, n) = p
     /\ \A k \in DOMAIN w : k \in DOMAIN v /\ v[k] = w[k]
     /\ \A k \in DOMAIN v : k > Len(w) + 3 => v[k].holds = p[k - n - 2]
     /\ \A k \in n .. n + 2 : v[k].holds # "string"

\* A new call goes behind the others.
LEMMA BlocksGrow ==
  ASSUME NEW w \in Seq(QueueWord), Blocks(w), NEW c \in Call,
         NEW name \in Names, \A h \in Heads(w) : w[h].call # c
  PROVE  Grown(w, w \o Words(c, name), c, name)
<1> DEFINE u == Words(c, name)
           v == w \o u
           p == Functions[name].params
           n == Len(w) + 1
           l == Len(w)
<1>1. /\ u \in Seq(QueueWord) /\ Len(u) = 3 + Len(p)
      /\ u[1].holds = "length"
      /\ \A k \in 2 .. Len(u) : u[k].holds # "length"
      /\ \A k \in 1 .. Len(u) : u[k].call = c /\ u[k].name = name
      /\ \A i \in DOMAIN p : u[3 + i].holds = p[i]
  BY WordsOfCall
<1>2. /\ p \in Seq({"value", "string"}) /\ Len(p) \in Nat /\ l \in Nat
      /\ DOMAIN p = 1 .. Len(p)
  BY Table
<1>3. u[2].holds # "string" /\ u[3].holds # "string"
  BY DEF Words, Word
<1> HIDE DEF u, p
<1>4. /\ v \in Seq(QueueWord) /\ Len(v) = l + 3 + Len(p)
      /\ DOMAIN v = 1 .. l + 3 + Len(p)
      /\ DOMAIN w = 1 .. l
      /\ \A k \in 1 .. l : v[k] = w[k]
      /\ \A k \in 1 .. 3 + Len(p) : v[l + k] = u[k]
      /\ \A k \in l + 1 .. l + 3 + Len(p) :
           v[k] = u[k - l] /\ k - l \in 1 .. 3 + Len(p)
  <2> DEFINE m == 3 + Len(p)
  <2>1. m \in Nat /\ Len(u) = m
    BY <1>1, <1>2
  <2>2. l \in Nat /\ Len(w) = l
    BY <1>2
  <2> HIDE DEF l, m
  <2>a. /\ v \in Seq(QueueWord) /\ Len(v) = l + m
        /\ DOMAIN v = 1 .. l + m /\ DOMAIN w = 1 .. l
        /\ \A k \in 1 .. l : v[k] = w[k]
        /\ \A k \in 1 .. m : v[l + k] = u[k]
        /\ \A k \in l + 1 .. l + m :
             v[k] = u[k - l] /\ k - l \in 1 .. m
    <3>1. /\ v \in Seq(QueueWord) /\ Len(v) = Len(w) + Len(u)
          /\ DOMAIN v = 1 .. Len(w) + Len(u) /\ DOMAIN w = 1 .. Len(w)
          /\ \A k \in 1 .. Len(w) : v[k] = w[k]
          /\ \A k \in 1 .. Len(u) : v[Len(w) + k] = u[k]
          /\ \A k \in Len(w) + 1 .. Len(w) + Len(u) :
               v[k] = u[k - Len(w)] /\ k - Len(w) \in 1 .. Len(u)
      <4> HIDE DEF v
      <4>1. w \in Seq(QueueWord) /\ u \in Seq(QueueWord)
        BY <1>1
      <4>2. v = w \o u
        BY DEF v
      <4> QED
        BY <4>1, <4>2, Joined
    <3> HIDE DEF v
    <3> QED
      BY <2>1, <2>2, <3>1
  <2>3. /\ v \in Seq(QueueWord) /\ Len(v) = l + (3 + Len(p))
        /\ DOMAIN v = 1 .. l + (3 + Len(p)) /\ DOMAIN w = 1 .. l
        /\ \A k \in 1 .. l : v[k] = w[k]
        /\ \A k \in 1 .. 3 + Len(p) : v[l + k] = u[k]
        /\ \A k \in l + 1 .. l + (3 + Len(p)) :
             v[k] = u[k - l] /\ k - l \in 1 .. 3 + Len(p)
    BY <2>a DEF m
  <2>4. l + (3 + Len(p)) = l + 3 + Len(p)
    BY <1>2
  <2> HIDE DEF v
  <2> QED
    BY <2>3, <2>4
<1> HIDE DEF v, l
<1>6. \A k \in n .. Len(v) : /\ v[k].call = c /\ v[k].name = name
                             /\ v[k].holds = "length" <=> k = n
  <2> SUFFICES ASSUME NEW k \in n .. Len(v)
               PROVE  /\ v[k].call = c /\ v[k].name = name
                      /\ v[k].holds = "length" <=> k = n
    OBVIOUS
  <2>1. v[k] = u[k - l] /\ k - l \in 1 .. Len(u)
        /\ (k = n \/ k - l \in 2 .. Len(u)) /\ (k = n <=> k - l = 1)
    BY <1>1, <1>2, <1>4 DEF l
  <2> QED
    BY <1>1, <2>1
<1>7. Heads(v) = Heads(w) \cup {n} /\ n \notin Heads(w)
  BY <1>2, <1>4, <1>6 DEF Heads, l
<1>8. v[n].call = c /\ v[n].name = name /\ ParamsAt(v, n) = p
  <2>1. n \in n .. Len(v)
    BY <1>2, <1>4 DEF l
  <2> HIDE DEF n
  <2> QED
    BY <1>6, <2>1 DEF ParamsAt, p
<1>9. \A k \in DOMAIN v : k > l + 3 => v[k].holds = p[k - n - 2]
  <2> SUFFICES ASSUME NEW k \in DOMAIN v, k > l + 3
               PROVE v[k].holds = p[k - n - 2]
    OBVIOUS
  <2>1. /\ k - l - 3 \in DOMAIN p /\ 3 + (k - l - 3) = k - l
        /\ k - l - 3 = k - n - 2 /\ k \in l + 1 .. l + 3 + Len(p)
    BY <1>2, <1>4 DEF l
  <2>2. u[3 + (k - l - 3)].holds = p[k - l - 3] /\ v[k] = u[k - l]
    BY <1>1, <1>4, <2>1
  <2> QED
    BY <2>1, <2>2
<1>10. \A k \in n .. n + 2 : v[k].holds # "string"
  <2> SUFFICES ASSUME NEW k \in n .. n + 2 PROVE v[k].holds # "string"
    OBVIOUS
  <2>1. k - l \in {1, 2, 3} /\ v[k] = u[k - l]
    BY <1>2, <1>4 DEF l
  <2> QED
    BY <1>1, <1>3, <2>1
<1>11. \A h \in Heads(w) : /\ h \in 1 .. l /\ ParamsAt(v, h) = ParamsAt(w, h)
                           /\ v[h] = w[h] /\ LastWord(v, h) = LastWord(w, h)
                           /\ LastWord(w, h) \in Int /\ LastWord(w, h) <= l
  <2> SUFFICES ASSUME NEW h \in Heads(w)
               PROVE  /\ h \in 1 .. l /\ ParamsAt(v, h) = ParamsAt(w, h)
                      /\ v[h] = w[h] /\ LastWord(v, h) = LastWord(w, h)
                      /\ LastWord(w, h) \in Int /\ LastWord(w, h) <= l
    OBVIOUS
  <2>1. h \in 1 .. l /\ v[h] = w[h] /\ LastWord(w, h) \in Int
    BY <1>4, HeadsFit DEF l
  <2> QED
    BY <2>1 DEF ParamsAt, LastWord, Blocks, WholeCall, l
<1>12. LastWord(v, n) = Len(v)
  BY <1>2, <1>4, <1>8 DEF LastWord, l
<1>13. ASSUME NEW h \in Heads(v) PROVE WholeCall(v, h)
  <2>1. CASE h = n
    <3>1. \A k \in n + 1 .. LastWord(v, n) :
            /\ k \notin Heads(v)
            /\ v[k].call = v[n].call /\ v[k].name = v[n].name
      BY <1>2, <1>4, <1>6, <1>8, <1>12 DEF Heads, l
    <3>2. \A i \in DOMAIN p : v[n + 2 + i].holds = p[i]
      <4> SUFFICES ASSUME NEW i \in DOMAIN p PROVE v[n + 2 + i].holds = p[i]
        OBVIOUS
      <4>1. n + 2 + i \in DOMAIN v /\ n + 2 + i > l + 3
            /\ (n + 2 + i) - n - 2 = i
        BY <1>2, <1>4 DEF l
      <4> HIDE DEF n
      <4> QED
        BY <1>9, <4>1
    <3> HIDE DEF n
    <3> QED
      BY <1>4, <1>8, <1>12, <2>1, <3>1, <3>2 DEF WholeCall
  <2>2. CASE h # n
    <3>1. h \in Heads(w) /\ WholeCall(w, h)
      BY <1>7, <2>2 DEF Blocks
    <3>2. \A k \in h + 1 .. LastWord(w, h) :
            k \in 1 .. l /\ v[k] = w[k] /\ k # n
      BY <1>2, <1>4, <1>11, <3>1 DEF l
    <3>3. \A k \in h + 1 .. LastWord(v, h) :
            /\ k \notin Heads(v)
            /\ v[k].call = v[h].call /\ v[k].name = v[h].name
      BY <1>7, <1>11, <3>1, <3>2 DEF WholeCall
    <3>4. \A i \in DOMAIN ParamsAt(w, h) :
            h + 2 + i \in h + 1 .. LastWord(w, h)
      BY <3>1, HeadsFit
    <3>5. \A i \in DOMAIN ParamsAt(v, h) :
            v[h + 2 + i].holds = ParamsAt(v, h)[i]
      BY <1>11, <3>1, <3>2, <3>4 DEF WholeCall
    <3>6. LastWord(v, h) <= Len(v)
      BY <1>2, <1>4, <1>11, <3>1
    <3> QED
      BY <3>3, <3>5, <3>6 DEF WholeCall
  <2> QED
    BY <2>1, <2>2
<1>14. ASSUME NEW k \in DOMAIN v
       PROVE  \E h \in Heads(v) : k \in h .. LastWord(v, h)
  <2>1. CASE k \in 1 .. l
    <3>1. PICK h \in Heads(w) : k \in h .. LastWord(w, h)
      BY <1>4, <2>1 DEF Blocks
    <3> QED
      BY <1>7, <1>11, <3>1
  <2>2. CASE k \notin 1 .. l
    BY <1>2, <1>4, <1>7, <1>12, <2>2 DEF l
  <2> QED
    BY <2>1, <2>2
<1>15. ASSUME NEW g \in Heads(v), NEW h \in Heads(v), g # h
       PROVE  v[g].call # v[h].call
  <2>1. CASE g \in Heads(w) /\ h \in Heads(w)
    BY <1>11, <1>15, <2>1 DEF Blocks
  <2>2. CASE g = n \/ h = n
    <3> HIDE DEF n
    <3> QED
      BY <1>7, <1>8, <1>11, <1>15, <2>2
  <2> QED
    BY <1>7, <2>1, <2>2
<1>16. Blocks(v)
  BY <1>13, <1>14, <1>15 DEF Blocks
<1>17. \A k \in DOMAIN w : k \in DOMAIN v /\ v[k] = w[k]
  BY <1>2, <1>4
<1> QED
  BY <1>4, <1>7, <1>8, <1>9, <1>10, <1>16, <1>17 DEF Grown, v, u, p, l

\* What the invariant does not depend on.
LEMMA QueueSame ==
  ASSUME QueueInv,
         UNCHANGED <<fileVars, words, flag, at, turn, asked, held, strings,
                     back, doomed, misused>>
  PROVE  QueueInv'
<1>1. /\ transfer' = transfer /\ words' = words /\ flag' = flag /\ at' = at
      /\ turn' = turn /\ asked' = asked /\ held' = held /\ back' = back
      /\ strings' = strings /\ doomed' = doomed /\ misused' = misused
  BY DEF fileVars
<1>2. FilesInv'
  BY FilesInductive DEF QueueInv
<1>3. Flagged' /\ Records'
  BY <1>1 DEF QueueInv, Flagged, Records, accepted
<1>4. Owed'
  BY <1>1 DEF QueueInv, Owed, accepted
<1>5. Copies'
  BY <1>1 DEF QueueInv, Copies
<1>6. Placed'
  BY <1>1 DEF QueueInv, Placed, accepted
<1> QED
  BY <1>1, <1>2, <1>3, <1>4, <1>5, <1>6 DEF QueueInv

\* The call that Accept makes was not made before.
LEMMA FreshCall ==
  ASSUME QueueInv
  PROVE  \E n \in Nat : /\ accepted = 1 .. n
                        /\ Cardinality(accepted) + 1 = n + 1
                        /\ n + 1 \notin accepted
                        /\ accepted \cup {n + 1} = 1 .. n + 1
<1>1. PICK n \in Nat : accepted = 1 .. n
  BY DEF QueueInv, Records
<1>2. Cardinality(1 .. n) = n
  BY FS_Interval
<1> QED
  BY <1>1, <1>2

LEMMA RefuseKeeps ==
  ASSUME QueueInv, NEW name \in Names,
         NEW bad \in DOMAIN Functions[name].params, Refuse(name, bad)
  PROVE  QueueInv'
<1>1. /\ UNCHANGED fileVars /\ words' = words /\ at' = at /\ turn' = turn
      /\ asked' = asked /\ held' = held /\ strings' = strings /\ back' = back
      /\ doomed' = doomed /\ misused' = misused /\ transfer' = transfer
  BY DEF Refuse, fileVars
<1>2. Flagged'
  <2> SUFFICES ASSUME NEW k \in DOMAIN words, words[k].holds = "string"
               PROVE  k \in flag'
    BY <1>1 DEF Flagged
  <2>1. k \in flag /\ k \in 1 .. Len(words)
    BY DEF QueueInv, Flagged
  <2>2. \A i \in DOMAIN Functions[name].params : k # Len(words) + 3 + i
    <3>1. /\ Functions[name].params \in Seq({"value", "string"})
          /\ Len(words) \in Nat
      BY Table DEF QueueInv
    <3> QED
      BY <2>1, <3>1
  <2> QED
    BY <2>1, <2>2 DEF Refuse, Flags
<1>3. Records' /\ Owed' /\ Copies' /\ Placed'
  BY <1>1 DEF QueueInv, Records, Owed, Copies, Placed, accepted
<1>4. FilesInv'
  BY <1>1, FilesInductive DEF QueueInv
<1> QED
  BY <1>1, <1>2, <1>3, <1>4 DEF QueueInv

LEMMA AcceptKeeps ==
  ASSUME QueueInv, NEW name \in Names, Accept(name)
  PROVE  QueueInv'
<1>1. CASE ~Fits(name)
  BY <1>1, QueueSame DEF Accept
<1>2. CASE Fits(name)
  <2> DEFINE c == Cardinality(accepted) + 1
             p == Functions[name].params
             l == Len(words)
             n == l + 1
             strs == {<<c, i>> : i \in {j \in DOMAIN p : p[j] = "string"}}
  <2>1. /\ c \in Call /\ words' = words \o Words(c, name)
        /\ flag' = Flags(name, 0) /\ held' = held \cup {c}
        /\ strings' = strings \cup strs
        /\ at' = at /\ turn' = turn /\ asked' = asked /\ back' = back
        /\ doomed' = doomed /\ misused' = misused /\ UNCHANGED fileVars
        /\ transfer' = transfer
    BY <1>2 DEF Accept, fileVars
  <2>2. PICK m \in Nat : /\ accepted = 1 .. m /\ c = m + 1
                         /\ c \notin accepted
                         /\ accepted \cup {c} = 1 .. m + 1
    BY FreshCall
  <2> HIDE DEF c
  <2>3. accepted' = accepted \cup {c}
    BY <2>1 DEF accepted
  <2>4. \A h \in Heads(words) : words[h].call # c
    BY <2>2 DEF QueueInv, Owed
  <2>5. /\ p \in Seq({"value", "string"}) /\ Len(p) \in Nat /\ l \in Nat
        /\ at \in 0 .. l /\ DOMAIN p = 1 .. Len(p)
    BY Table DEF QueueInv
  <2>6. /\ words' \in Seq(QueueWord) /\ Len(words') = l + 3 + Len(p)
        /\ Blocks(words')
        /\ Heads(words') = Heads(words) \cup {n} /\ n \notin Heads(words)
        /\ words'[n].call = c /\ ParamsAt(words', n) = p
        /\ \A k \in DOMAIN words : k \in DOMAIN words' /\ words'[k] = words[k]
        /\ \A k \in DOMAIN words' : k > l + 3 => words'[k].holds = p[k - n - 2]
        /\ \A k \in n .. n + 2 : words'[k].holds # "string"
    <3> HIDE DEF p
    <3>1. words \in Seq(QueueWord) /\ Blocks(words)
      BY DEF QueueInv
    <3> QED
      <4>1. Grown(words, words \o Words(c, name), c, name)
        BY <2>1, <2>4, <3>1, BlocksGrow
      <4>2. Grown(words, words', c, name)
        BY <2>1, <4>1
      <4> QED
        BY <4>2 DEF Grown, p
  <2> HIDE DEF p, l, strs
  <2>7. \A h \in Heads(words) :
          /\ words'[h] = words[h] /\ h \in 1 .. l
          /\ ParamsAt(words', h) = ParamsAt(words, h)
    <3>1. words \in Seq(QueueWord)
      BY DEF QueueInv
    <3> QED
      BY <2>6, <3>1 DEF Heads, ParamsAt, l
  <2>8. Flagged'
    <3> SUFFICES ASSUME NEW k \in DOMAIN words', words'[k].holds = "string"
                 PROVE  k \in flag'
      BY DEF Flagged
    <3>1. k \in 1 .. l + 3 + Len(p)
      BY <2>6
    <3>2. CASE k \in 1 .. l
      <4>1. k \in DOMAIN words
        BY <3>2 DEF QueueInv, l
      <4>2. k \in flag
        BY <2>6, <4>1 DEF QueueInv, Flagged
      <4>3. \A i \in DOMAIN p : k # l + 3 + i
        BY <2>5, <3>2
      <4> QED
        BY <2>1, <4>2, <4>3 DEF Flags, p, l
    <3>3. CASE k \notin 1 .. l
      <4>1. k > l + 3
        BY <2>5, <2>6, <3>1, <3>3
      <4> DEFINE i == k - n - 2
      <4>2. i \in DOMAIN p /\ k = l + 3 + i /\ i # 0
        BY <2>5, <3>1, <4>1
      <4>3. p[i] = "string"
        BY <2>6, <4>1
      <4> HIDE DEF i
      <4> QED
        BY <2>1, <4>2, <4>3 DEF Flags, p, l
    <3> QED
      BY <3>2, <3>3
  <2>9. /\ c \notin back /\ c \notin asked /\ transfer[c].state = "none"
    BY <2>1, <2>2 DEF QueueInv, Records, accepted
  <2>10. Owed'
    <3>1. ASSUME NEW h \in Heads(words')
          PROVE  /\ words'[h].call \in accepted'
                 /\ h > at' => /\ words'[h].call \notin back'
                               /\ words'[h].call \notin asked'
                               /\ transfer'[words'[h].call].state = "none"
      <4>1. CASE h \in Heads(words)
        BY <2>1, <2>3, <2>7, <4>1 DEF QueueInv, Owed
      <4>2. CASE h = n
        BY <2>1, <2>3, <2>6, <2>9, <4>2
      <4> QED
        BY <2>6, <3>1, <4>1, <4>2
    <3> QED
      BY <3>1 DEF Owed
  <2>11. Copies'
    <3> SUFFICES ASSUME NEW s \in strings'
                 PROVE  \E h \in Heads(words') :
                          \E j \in DOMAIN ParamsAt(words', h) :
                            /\ s = <<words'[h].call, j>> /\ h + 2 + j > at'
                            /\ ParamsAt(words', h)[j] = "string"
      BY DEF Copies
    <3>1. CASE s \in strings
      <4>1. PICK h \in Heads(words) : \E j \in DOMAIN ParamsAt(words, h) :
              /\ s = <<words[h].call, j>> /\ h + 2 + j > at
              /\ ParamsAt(words, h)[j] = "string"
        BY <3>1 DEF QueueInv, Copies
      <4>2. /\ h \in Heads(words') /\ ParamsAt(words', h) = ParamsAt(words, h)
            /\ words'[h].call = words[h].call /\ at' = at
        BY <2>1, <2>6, <2>7
      <4> QED
        BY <4>1, <4>2
    <3>2. CASE s \in strs
      <4>1. PICK j \in DOMAIN p : s = <<c, j>> /\ p[j] = "string"
        BY <3>2 DEF strs
      <4>2. n + 2 + j > at'
        BY <2>1, <2>5
      <4> QED
        BY <2>6, <4>1, <4>2
    <3> QED
      BY <2>1, <3>1, <3>2
  <2>12. Records'
    <3>1. m + 1 \in Nat /\ accepted' = 1 .. m + 1
      BY <2>2, <2>3
    <3> QED
      BY <2>1, <2>3, <2>9, <3>1 DEF QueueInv, Records
  <2>13. FilesInv'
    BY <2>1, FilesInductive DEF QueueInv
  <2>14. Placed'
    <3> SUFFICES ASSUME NEW d \in accepted' \ back'
                 PROVE  \/ d \in asked'
                        \/ transfer'[d].state \in Going
                        \/ \E h \in Heads(words') :
                             h > at' /\ words'[h].call = d
      BY DEF Placed
    <3>1. CASE d = c
      <4>1. n > at'
        BY <2>1, <2>5
      <4> QED
        BY <2>6, <3>1, <4>1
    <3>2. CASE d # c
      <4>1. d \in accepted \ back
        BY <2>1, <2>3, <3>2
      <4>2. \/ d \in asked
            \/ transfer[d].state \in Going
            \/ \E h \in Heads(words) : h > at /\ words[h].call = d
        BY <4>1 DEF QueueInv, Placed
      <4>3. ASSUME NEW h \in Heads(words), h > at, words[h].call = d
            PROVE  h \in Heads(words') /\ h > at' /\ words'[h].call = d
        BY <2>1, <2>6, <2>7, <4>3
      <4> QED
        BY <2>1, <4>2, <4>3
    <3> QED
      BY <3>1, <3>2
  <2>15. at' \in 0 .. Len(words') /\ (~turn' => at' = 0)
    <3>1. ~turn => at = 0
      BY DEF QueueInv
    <3> QED
      BY <2>1, <2>5, <2>6, <3>1
  <2> QED
    BY <2>6, <2>8, <2>10, <2>11, <2>12, <2>13, <2>14,
       <2>15 DEF QueueInv
<1> QED
  BY <1>1, <1>2

LEMMA StartTurnKeeps ==
  ASSUME QueueInv, StartTurn
  PROVE  QueueInv'
<1>1. /\ at = 0 /\ at' = 0 /\ turn' = TRUE
      /\ transfer' = transfer /\ words' = words /\ flag' = flag
      /\ asked' = asked /\ held' = held /\ back' = back
      /\ strings' = strings /\ doomed' = doomed /\ misused' = misused
      /\ UNCHANGED fileVars
  BY DEF StartTurn, QueueInv, fileVars
<1>2. FilesInv'
  BY <1>1, FilesInductive DEF QueueInv
<1>3. Flagged' /\ Records'
  BY <1>1 DEF QueueInv, Flagged, Records, accepted
<1>4. Owed'
  BY <1>1 DEF QueueInv, Owed, accepted
<1>5. Copies'
  BY <1>1 DEF QueueInv, Copies
<1>6. Placed'
  BY <1>1 DEF QueueInv, Placed, accepted
<1> QED
  BY <1>1, <1>2, <1>3, <1>4, <1>5, <1>6 DEF QueueInv

\* At the end of a turn no string is left.
LEMMA EndTurnKeeps ==
  ASSUME QueueInv, EndTurn
  PROVE  QueueInv'
<1>1. /\ at >= Len(words) /\ words' = <<>> /\ at' = 0
      /\ transfer' = transfer /\ flag' = flag
      /\ asked' = asked /\ held' = held /\ back' = back
      /\ strings' = strings /\ doomed' = doomed /\ misused' = misused
      /\ UNCHANGED fileVars
  BY DEF EndTurn, fileVars
<1>2. FilesInv'
  BY <1>1, FilesInductive DEF QueueInv
<1>3. Records'
  BY <1>1 DEF QueueInv, Records, accepted
<1>4. words' \in Seq(QueueWord) /\ Len(words') = 0 /\ DOMAIN words' = {}
  BY <1>1
<1>5. Heads(words') = {} /\ Blocks(words')
  BY <1>4 DEF Heads, Blocks
<1>6. Flagged' /\ Owed'
  BY <1>4, <1>5 DEF Flagged, Owed
<1>7. strings = {}
  <2> SUFFICES ASSUME NEW s \in strings PROVE FALSE
    OBVIOUS
  <2>1. PICK h \in Heads(words) : \E j \in DOMAIN ParamsAt(words, h) :
          h + 2 + j > at
    BY DEF QueueInv, Copies
  <2>2. PICK j \in DOMAIN ParamsAt(words, h) : h + 2 + j > at
    BY <2>1
  <2>3. h + 2 + j \in h + 1 .. LastWord(words, h) /\ LastWord(words, h) \in Nat
        /\ h \in Nat
    BY HeadsFit DEF QueueInv
  <2>4. LastWord(words, h) <= Len(words) /\ Len(words) \in Nat /\ at \in Nat
    BY DEF QueueInv, Blocks, WholeCall
  <2> QED
    BY <1>1, <2>2, <2>3, <2>4
<1>8. Copies'
  BY <1>1, <1>7 DEF Copies
<1>9. Placed'
  <2>1. ASSUME NEW h \in Heads(words) PROVE ~(h > at)
    <3>1. h \in 1 .. Len(words) /\ at \in Nat
      BY HeadsFit DEF QueueInv
    <3> QED
      BY <1>1, <3>1
  <2> QED
    BY <1>1, <2>1 DEF QueueInv, Placed, accepted
<1> QED
  BY <1>1, <1>2, <1>3, <1>4, <1>5, <1>6, <1>8, <1>9 DEF QueueInv

\* Calls do not overlap.
LEMMA CallsApart ==
  ASSUME QueueInv, NEW g \in Heads(words), NEW h \in Heads(words), g < h
  PROVE  LastWord(words, g) < h
<1>1. h \notin g + 1 .. LastWord(words, g)
  BY DEF QueueInv, Blocks, WholeCall
<1>2. g \in Nat /\ h \in Nat /\ LastWord(words, g) \in Nat
  BY HeadsFit DEF QueueInv
<1> QED
  BY <1>1, <1>2

\* The call that lua_do_all comes to.
LEMMA NextCall ==
  ASSUME QueueInv, at < Len(words), words[at + 1].holds = "length"
  PROVE  LET h == at + 1
             c == words[at + 2].call
             f == Functions[words[at + 2].name]
         IN /\ h \in Heads(words) /\ at \in Nat /\ Len(words) \in Nat
            /\ c = words[h].call /\ f.params = ParamsAt(words, h)
            /\ f.does \in {"ask", "load", "send", "fail"}
            /\ f.does # "fail" =>
                 f.takes \in {Len(f.params), Len(f.params) + 1}
            /\ c \in Call /\ c \in accepted /\ c \notin back /\ c \notin asked
            /\ transfer[c].state = "none"
            /\ LastWord(words, h) = at + 3 + Len(f.params)
            /\ Len(f.params) \in Nat
            /\ LastWord(words, h) <= Len(words)
            /\ \A k \in at + 2 .. LastWord(words, h) : words[k].call = c
<1> DEFINE h == at + 1
<1>1. at \in Nat /\ Len(words) \in Nat /\ words \in Seq(QueueWord)
  BY DEF QueueInv
<1>2. h \in DOMAIN words
  BY <1>1
<1>3. h \in Heads(words)
  BY <1>2 DEF Heads
<1>4. WholeCall(words, h) /\ h + 1 = at + 2
  BY <1>1, <1>3 DEF QueueInv, Blocks
<1> HIDE DEF h
<1>5. /\ words[h].call \in Call /\ words[h].name \in Names
      /\ ParamsAt(words, h) = Functions[words[h].name].params
      /\ Len(ParamsAt(words, h)) \in Nat
      /\ LastWord(words, h) = h + 2 + Len(ParamsAt(words, h))
  BY <1>1, <1>3, HeadsFit
<1>6. h \in Nat /\ h + 1 \in h + 1 .. LastWord(words, h)
  BY <1>1, <1>5 DEF h
<1>7. words[at + 2].call = words[h].call /\ words[at + 2].name = words[h].name
  BY <1>4, <1>6 DEF WholeCall
<1>8. LET f == Functions[words[h].name]
      IN /\ f.does \in {"ask", "load", "send", "fail"}
         /\ f.does # "fail" => f.takes \in {Len(f.params), Len(f.params) + 1}
  BY <1>5, Table
<1>9. h > at
  BY <1>1 DEF h
<1>10. /\ words[h].call \in accepted /\ words[h].call \notin back
       /\ words[h].call \notin asked /\ transfer[words[h].call].state = "none"
  BY <1>3, <1>9 DEF QueueInv, Owed
<1>11. /\ LastWord(words, h) <= Len(words)
       /\ \A k \in at + 2 .. LastWord(words, h) : words[k].call = words[h].call
  BY <1>4 DEF WholeCall
<1>12. LastWord(words, h) = at + 3 + Len(ParamsAt(words, h))
  BY <1>1, <1>5 DEF h
<1>13. \A k \in at + 2 .. LastWord(words, h) :
         words[k].call = words[at + 2].call
  BY <1>7, <1>11
<1> QED
  BY <1>1, <1>3, <1>5, <1>7, <1>8, <1>10, <1>11, <1>12, <1>13 DEF h

\* What send_part leaves an upload in.
LEMMA SendPartStates ==
  ASSUME NEW t \in Transfer, t.state = "part", SendFits(t)
  PROVE  SendPart(t).state # "none"
<1>1. t.at # Closed => Source[t.file] - t.offset > 0 /\ Source[t.file] \in Nat
                       /\ t.offset \in Nat
  BY FilesAssumption DEF SendFits, Transfer
<1>2. CASE t.at = Closed
  BY <1>2 DEF SendPart, Transfer
<1>3. CASE t.at # Closed
  <2> DEFINE left == Source[t.file] - t.offset
             x == IF left > 2 THEN 2 ELSE left
             u == [t EXCEPT !.state = "part", !.offset = @ + x,
                            !.parts = @ + 1,
                            !.at = IF left = x THEN Closed ELSE @ + x]
  <2>1. x > 0 /\ (x = 2 \/ left = x) /\ ~(x <= 0)
        /\ ~(x = 1 /\ left # x)
    BY <1>1, <1>3
  <2>2. SendPart(t) = u
    BY <1>3, <2>1 DEF SendPart
  <2>3. u.state = "part"
    BY DEF Transfer
  <2> QED
    BY <2>2, <2>3
<1> QED
  BY <1>2, <1>3

\* A request of the files changes that request only, and no assertion fails.
LEMMA OnlyItsTransfer ==
  ASSUME FilesInv, NEW c \in Call, Start(c) \/ Receive(c)
  PROVE  /\ \A d \in Call : d # c => transfer'[d] = transfer[d]
         /\ transfer'[c].state \in Going \cup Over
         /\ FilesNext /\ FilesInv'
<1>1. FilesNext
  BY DEF FilesNext
<1>2. \E t : transfer' = [transfer EXCEPT ![c] = t] /\ t.state # "none"
  <2>1. ASSUME Start(c) PROVE \E t : Becomes(c, t) /\ t.state # "none"
    <3>1. ASSUME LoadNothing(c) PROVE \E t : Becomes(c, t) /\ t.state # "none"
      <4> DEFINE t == Started("failed", "none")
      <4>1. Becomes(c, t)
        BY <3>1 DEF LoadNothing
      <4>2. t.state = "failed"
        BY DEF Started, None
      <4> HIDE DEF t
      <4> QED
        BY <4>1, <4>2
    <3>2. ASSUME NEW f \in File, StartLoad(c, f)
          PROVE  \E t : Becomes(c, t) /\ t.state # "none"
      <4> DEFINE s == IF Len(disk[f]) >= Parts[f] THEN "done" ELSE "load"
                 t == [Started(s, f) EXCEPT !.offset = Len(disk[f])]
      <4>1. Becomes(c, t)
        BY <3>2 DEF StartLoad
      <4>2. t.state = s /\ s # "none"
        BY DEF Started, None
      <4> HIDE DEF s, t
      <4> QED
        BY <4>1, <4>2
    <3>3. ASSUME NEW f \in DOMAIN Source, StartSend(c, f)
          PROVE  \E t : Becomes(c, t) /\ t.state # "none"
      <4>1. CASE Source[f] = 0
        <5> DEFINE t == Started("failed", f)
        <5>1. Becomes(c, t)
          BY <3>3, <4>1 DEF StartSend
        <5>2. t.state = "failed"
          BY DEF Started, None
        <5> HIDE DEF t
        <5> QED
          BY <5>1, <5>2
      <4>2. CASE Source[f] # 0
        <5> DEFINE t == [Started("part", f) EXCEPT !.at = 0]
        <5>1. /\ t.state = "part" /\ t.file = f /\ t.offset = 0 /\ t.at = 0
              /\ t.parts = 0 /\ t \in Transfer
          BY DEF Started, None, Transfer, Closed
        <5>2. Source[f] \in Nat
          BY FilesAssumption
        <5> HIDE DEF t
        <5>3. SendFits(t)
          BY <4>2, <5>1, <5>2 DEF SendFits, Closed
        <5>4. SendPart(t).state # "none"
          BY <5>1, <5>3, SendPartStates
        <5> QED
          BY <3>3, <4>2, <5>4 DEF StartSend, t
      <4> QED
        BY <4>1, <4>2
    <3> QED
      BY <2>1, <3>1, <3>2, <3>3 DEF Start
  <2>2. ASSUME Receive(c) PROVE \E t : Becomes(c, t) /\ t.state # "none"
    <3>1. transfer[c] \in Transfer /\ Fitting(transfer[c])
      BY DEF FilesInv, Typed
    <3>2. ASSUME ReceivePart(c) PROVE \E t : Becomes(c, t) /\ t.state # "none"
      <4> DEFINE x == transfer[c]
                 s == IF x.offset + 1 < Parts[x.file] THEN "load" ELSE "done"
                 pos == IF x.at = Closed THEN 0 ELSE x.at
                 t == [x EXCEPT !.at = pos + 1, !.offset = @ + 1,
                                !.state = IF x.offset + 1 < Parts[x.file]
                                          THEN @ ELSE "done"]
      <4>1. Becomes(c, t) /\ x.state = "load"
        BY <3>2 DEF ReceivePart
      <4>2. t.state = s /\ s # "none"
        BY <3>1, <4>1 DEF Transfer
      <4> HIDE DEF s, t
      <4> QED
        BY <4>1, <4>2
    <3>3. ASSUME PartSaved(c) PROVE \E t : Becomes(c, t) /\ t.state # "none"
      <4>1. transfer[c].state = "part" /\ SendFits(transfer[c])
        BY <3>1, <3>3 DEF PartSaved, Fitting, FittingIn
      <4> QED
        BY <3>1, <3>3, <4>1, SendPartStates DEF PartSaved
    <3>4. ASSUME MessageSent(c) \/ Fail(c)
          PROVE  \E t : Becomes(c, t) /\ t.state # "none"
      BY <3>1, <3>4 DEF MessageSent, Fail, Transfer
    <3> QED
      BY <2>2, <3>2, <3>3, <3>4 DEF Receive
  <2> QED
    BY <2>1, <2>2 DEF Becomes
<1>3. /\ \A d \in Call : d # c => transfer'[d] = transfer[d]
      /\ transfer'[c].state # "none"
  BY <1>2 DEF FilesInv, Typed
<1>4. FilesInv'
  BY <1>1, FilesInductive
<1>5. transfer'[c] \in Transfer /\ transfer'[c].state # "aborted"
  BY <1>4 DEF FilesInv, Typed, Fitting, FittingIn
<1> QED
  BY <1>1, <1>3, <1>4, <1>5 DEF Transfer, Going, Over

LEMMA DoKeeps ==
  ASSUME QueueInv, Do
  PROVE  QueueInv' /\ [FilesNext]_fileVars
<1> DEFINE c == words[at + 2].call
           f == Functions[words[at + 2].name]
           last == at + 2 + f.takes
           freed == {k \in at + 3 .. last : k \in flag}
           lost == {words[k].call : k \in {j \in freed :
                                             words[j].holds = "record"}}
<1>1. CASE words[at + 1].holds # "length" \/ f.does = "fail"
  <2>1. UNCHANGED <<fileVars, words, flag, at, turn, asked, held, strings,
                    back, doomed, misused>>
    BY <1>1 DEF Do
  <2> QED
    BY <2>1, QueueSame
<1>2. CASE words[at + 1].holds = "length" /\ f.does # "fail"
  <2> DEFINE h == at + 1
             lw == LastWord(words, h)
  <2>1. at < Len(words) /\ turn
    BY DEF Do
  <2>2. /\ h \in Heads(words) /\ at \in Nat /\ Len(words) \in Nat
        /\ c = words[h].call /\ f.params = ParamsAt(words, h)
        /\ f.does \in {"ask", "load", "send"}
        /\ f.takes \in {Len(f.params), Len(f.params) + 1}
        /\ c \in Call /\ c \in accepted /\ c \notin back /\ c \notin asked
        /\ transfer[c].state = "none"
        /\ lw = at + 3 + Len(f.params)
        /\ Len(f.params) \in Nat /\ lw <= Len(words)
        /\ \A k \in at + 2 .. lw : words[k].call = c
    BY <1>2, <2>1, NextCall
  <2>3. /\ CASE f.does = "ask" -> UNCHANGED fileVars
             [] f.does = "load" ->
                  LoadNothing(c) \/ \E g \in File : StartLoad(c, g)
             [] f.does = "send" -> \E g \in DOMAIN Source : StartSend(c, g)
        /\ asked' = IF f.does = "ask" THEN asked \cup {c} ELSE asked
        /\ script' = (transfer'[c].state \in Over)
        /\ IF script' THEN CallBack(c) ELSE UNCHANGED <<back, misused>>
        /\ held' = (held \ lost) \ (IF script' THEN {c} ELSE {})
        /\ doomed' = doomed \cup lost
        /\ strings' = strings \ {<<c, k - at - 3>> : k \in freed}
        /\ at' = last /\ words' = words /\ flag' = flag /\ turn' = turn
    BY <1>2 DEF Do
  <2>4. last \in Nat /\ at < last /\ last <= lw /\ lw \in Nat
    BY <2>2
  <2>5. lost \subseteq {c}
    <3> SUFFICES ASSUME NEW k \in at + 3 .. last PROVE words[k].call = c
      OBVIOUS
    <3>1. k \in at + 2 .. lw
      BY <2>2, <2>4
    <3> QED
      BY <2>2, <3>1
  <2> HIDE DEF c, f, lost, last, lw, freed
  <2>6. /\ f.does = "ask" => UNCHANGED fileVars
        /\ f.does # "ask" => Start(c)
    BY <2>2, <2>3 DEF Start
  <2>7. /\ \A d \in Call : d # c => transfer'[d] = transfer[d]
        /\ [FilesNext]_fileVars /\ FilesInv'
    <3>1. CASE f.does = "ask"
      BY <2>6, <3>1, FilesInductive DEF fileVars, QueueInv
    <3>2. CASE f.does # "ask"
      BY <2>2, <2>6, <3>2, OnlyItsTransfer DEF QueueInv
    <3> QED
      BY <3>1, <3>2
  <2>8. f.does = "ask" => transfer'[c].state = "none" /\ ~script'
    BY <2>2, <2>3, <2>6 DEF fileVars, Over
  <2>9. /\ back' = IF script' THEN back \cup {c} ELSE back
        /\ misused' = IF script' /\ c \notin held THEN misused \cup {c}
                      ELSE misused
    BY <2>3 DEF CallBack
  <2>10. accepted' = accepted
    <3>1. c \in held \/ c \in doomed
      BY <2>2 DEF accepted
    <3>2. ASSUME NEW d, d \in accepted PROVE d \in accepted'
      BY <2>3, <2>5, <2>9, <3>1, <3>2 DEF accepted
    <3>3. ASSUME NEW d, d \in accepted' PROVE d \in accepted
      BY <2>2, <2>3, <2>5, <2>9, <3>3 DEF accepted
    <3> QED
      BY <3>2, <3>3
  <2>11. Owed'
    <3> SUFFICES
          ASSUME NEW g \in Heads(words)
          PROVE  /\ words[g].call \in accepted'
                 /\ g > at' => /\ words[g].call \notin back'
                               /\ words[g].call \notin asked'
                               /\ transfer'[words[g].call].state = "none"
      BY <2>3 DEF Owed
    <3>1. words[g].call \in accepted'
      BY <2>10 DEF QueueInv, Owed
    <3>2. ASSUME g > at'
          PROVE  /\ words[g].call \notin back' /\ words[g].call \notin asked'
                 /\ transfer'[words[g].call].state = "none"
      <4>1. g \in Nat /\ words[g].call \in Call
        BY HeadsFit DEF QueueInv
      <4>2. g # h /\ g > at
        BY <2>2, <2>3, <2>4, <3>2, <4>1
      <4>3. words[g].call # c
        BY <2>2, <4>2 DEF QueueInv, Blocks
      <4>4. /\ words[g].call \notin back /\ words[g].call \notin asked
            /\ transfer[words[g].call].state = "none"
        BY <4>2 DEF QueueInv, Owed
      <4> QED
        BY <2>3, <2>7, <2>9, <4>1, <4>3, <4>4
    <3> QED
      BY <3>1, <3>2
  <2>12. Copies'
    <3> SUFFICES ASSUME NEW s \in strings'
                 PROVE  \E g \in Heads(words) :
                          \E j \in DOMAIN ParamsAt(words, g) :
                            /\ s = <<words[g].call, j>> /\ g + 2 + j > at'
                            /\ ParamsAt(words, g)[j] = "string"
      BY <2>3 DEF Copies
    <3>1. s \in strings
      BY <2>3
    <3>2. PICK g \in Heads(words) : \E j \in DOMAIN ParamsAt(words, g) :
            /\ s = <<words[g].call, j>> /\ g + 2 + j > at
            /\ ParamsAt(words, g)[j] = "string"
      BY <3>1 DEF QueueInv, Copies
    <3>3. PICK j \in DOMAIN ParamsAt(words, g) :
            /\ s = <<words[g].call, j>> /\ g + 2 + j > at
            /\ ParamsAt(words, g)[j] = "string"
      BY <3>2
    <3>4. /\ g \in Nat /\ j \in Nat /\ j > 0 /\ LastWord(words, g) \in Nat
          /\ g + 2 + j \in g + 1 .. LastWord(words, g)
          /\ LastWord(words, g) <= Len(words)
      <4>1. words \in Seq(QueueWord)
        BY DEF QueueInv
      <4> QED
        BY <4>1, HeadsFit DEF QueueInv, Blocks, WholeCall
    <3>5. ASSUME g + 2 + j <= last PROVE FALSE
      <4>1. g = h
        <5>1. ~(g < h)
          <6>1. g < h => LastWord(words, g) < h
            BY <2>2, CallsApart
          <6> QED
            BY <2>2, <3>3, <3>4, <6>1
        <5>2. ~(h < g)
          <6>1. h < g => lw < g
            BY <2>2, CallsApart DEF lw
          <6> QED
            BY <2>2, <2>4, <3>4, <3>5, <6>1
        <5> QED
          BY <2>2, <3>4, <5>1, <5>2
      <4> DEFINE k == g + 2 + j
      <4>2. words[k].holds = "string" /\ k \in DOMAIN words
        <5>1. words[k].holds = ParamsAt(words, g)[j]
          BY DEF QueueInv, Blocks, WholeCall
        <5>2. k \in 1 .. Len(words)
          BY <2>2, <3>4
        <5> QED
          BY <3>3, <5>1, <5>2 DEF QueueInv
      <4>3. k \in flag
        BY <4>2 DEF QueueInv, Flagged
      <4>4. k \in at + 3 .. last /\ k - at - 3 = j
        BY <2>2, <3>4, <3>5, <4>1 DEF h
      <4>5. <<c, j>> = s
        BY <2>2, <3>3, <4>1
      <4> QED
        BY <2>3, <4>3, <4>4, <4>5 DEF freed
    <3>6. g + 2 + j > at'
      BY <2>3, <2>4, <3>4, <3>5
    <3> QED
      BY <3>3, <3>6
  <2>13. Records'
    <3>1. (\E n \in Nat : accepted' = 1 .. n) /\ accepted' \subseteq Call
      BY <2>10 DEF QueueInv, Records
    <3>2. ASSUME NEW d \in Call
          PROVE  /\ d \notin accepted' =>
                      d \notin asked' /\ transfer'[d].state = "none"
                 /\ d \in back' =>
                      d \notin asked' /\ transfer'[d].state \notin Going
                 /\ d \in asked' => transfer'[d].state = "none"
      <4>1. CASE d = c
        <5>1. script' => transfer'[c].state \notin Going
          BY <2>3 DEF Over, Going
        <5> QED
          BY <2>2, <2>3, <2>8, <2>9, <2>10, <4>1, <5>1
      <4>2. CASE d # c
        BY <2>3, <2>7, <2>9, <2>10, <4>2 DEF QueueInv, Records
      <4> QED
        BY <4>1, <4>2
    <3>3. held' \cap back' = {}
      BY <2>3, <2>9 DEF QueueInv, Records
    <3>4. asked' \subseteq Call
      BY <2>2, <2>3 DEF QueueInv, Records
    <3>5. misused' \subseteq doomed'
      BY <2>2, <2>3, <2>9 DEF QueueInv, Records, accepted
    <3> QED
      BY <3>1, <3>2, <3>3, <3>4, <3>5 DEF Records
  <2>14. Placed'
    <3> SUFFICES ASSUME NEW d \in accepted \ back'
                 PROVE  \/ d \in asked'
                        \/ transfer'[d].state \in Going
                        \/ \E g \in Heads(words) :
                             g > at' /\ words[g].call = d
      BY <2>3, <2>10 DEF Placed
    <3>1. CASE d = c
      <4>1. f.does # "ask" => transfer'[c].state \in Going \cup Over
        BY <2>2, <2>6, OnlyItsTransfer DEF QueueInv
      <4>2. ~script'
        BY <2>9, <3>1
      <4> QED
        BY <2>3, <3>1, <4>1, <4>2
    <3>2. CASE d # c
      <4>1. d \in accepted \ back /\ d \in Call
        BY <2>9, <3>2 DEF QueueInv, Records
      <4>2. \/ d \in asked
            \/ transfer[d].state \in Going
            \/ \E g \in Heads(words) : g > at /\ words[g].call = d
        BY <4>1 DEF QueueInv, Placed
      <4>3. ASSUME NEW g \in Heads(words), g > at, words[g].call = d
            PROVE  g > at'
        <5>1. g \in Nat
          BY HeadsFit DEF QueueInv
        <5>2. h < g
          BY <2>2, <3>2, <4>3, <5>1
        <5>3. lw < g
          BY <2>2, <5>2, CallsApart DEF lw
        <5> QED
          BY <2>2, <2>3, <2>4, <5>1, <5>3
      <4>4. CASE d \in asked
        BY <2>3, <4>4
      <4>5. CASE transfer[d].state \in Going
        BY <2>7, <3>2, <4>1, <4>5
      <4>6. CASE \E g \in Heads(words) : g > at /\ words[g].call = d
        BY <4>3, <4>6
      <4> QED
        BY <4>2, <4>4, <4>5, <4>6
    <3> QED
      BY <3>1, <3>2
  <2>15. /\ words' \in Seq(QueueWord) /\ at' \in 0 .. Len(words')
         /\ (~turn' => at' = 0) /\ Blocks(words') /\ Flagged'
    BY <2>1, <2>2, <2>3, <2>4 DEF QueueInv, Flagged
  <2> QED
    BY <2>7, <2>11, <2>12, <2>13, <2>14, <2>15 DEF QueueInv
<1> QED
  BY <1>1, <1>2

LEMMA AnswerKeeps ==
  ASSUME QueueInv, NEW c \in Call, Answer(c)
  PROVE  QueueInv' /\ [FilesNext]_fileVars
<1>1. /\ ~turn /\ at = 0 /\ words' = words /\ flag' = flag /\ at' = at
      /\ turn' = turn /\ strings' = strings /\ doomed' = doomed
  BY DEF Answer, QueueInv
<1>2. /\ [FilesNext]_fileVars /\ FilesInv'
      /\ \A d \in Call : d # c => transfer'[d] = transfer[d]
      /\ c \notin back /\ c \in accepted
      /\ \/ /\ back' = back \cup {c} /\ held' = held \ {c}
            /\ misused' = IF c \in held THEN misused ELSE misused \cup {c}
            /\ transfer'[c].state \notin Going
         \/ /\ back' = back /\ misused' = misused /\ held' = held
            /\ transfer'[c].state \in Going
      /\ \A d \in asked : d # c => d \in asked'
      /\ asked' \subseteq asked /\ c \notin asked'
      /\ c \in asked \/ transfer[c].state # "none"
  <2>1. CASE c \in asked /\ asked' = asked \ {c} /\ CallBack(c)
             /\ held' = held \ {c} /\ UNCHANGED fileVars
    BY <2>1, FilesInductive
       DEF QueueInv, Records, CallBack, fileVars, Going
  <2>2. CASE /\ Receive(c) /\ asked' = asked
             /\ IF transfer'[c].state \in Over
                THEN CallBack(c) /\ held' = held \ {c}
                ELSE UNCHANGED <<back, misused, held>>
    <3>1. transfer[c].state \in Going
      BY <2>2 DEF Receive, ReceivePart, PartSaved, MessageSent, Fail, Going
    <3>2. c \notin back /\ c \notin asked /\ c \in accepted
      BY <3>1 DEF QueueInv, Records, Going
    <3>3. /\ FilesNext /\ FilesInv'
          /\ \A d \in Call : d # c => transfer'[d] = transfer[d]
          /\ transfer'[c].state \in Going \cup Over
      BY <2>2, OnlyItsTransfer DEF QueueInv
    <3> QED
      BY <2>2, <3>1, <3>2, <3>3 DEF CallBack, Going, Over
  <2> QED
    BY <2>1, <2>2 DEF Answer
<1>3. accepted' = accepted
  BY <1>1, <1>2 DEF accepted
<1>4. Owed'
  <2> SUFFICES
        ASSUME NEW g \in Heads(words)
        PROVE  /\ words[g].call \in accepted'
               /\ g > at' => /\ words[g].call \notin back'
                             /\ words[g].call \notin asked'
                             /\ transfer'[words[g].call].state = "none"
    BY <1>1 DEF Owed
  <2>1. g \in Nat /\ g > 0 /\ words[g].call \in Call
    BY HeadsFit DEF QueueInv
  <2>2. /\ words[g].call \in accepted /\ words[g].call \notin back
        /\ words[g].call \notin asked
        /\ transfer[words[g].call].state = "none"
    BY <1>1, <2>1 DEF QueueInv, Owed
  <2>3. words[g].call # c
    BY <1>2, <2>2
  <2> QED
    BY <1>2, <1>3, <2>1, <2>2, <2>3
<1>5. Copies'
  BY <1>1 DEF QueueInv, Copies
<1>6. Records'
  <2>1. (\E n \in Nat : accepted' = 1 .. n) /\ accepted' \subseteq Call
    BY <1>3 DEF QueueInv, Records
  <2>2. ASSUME NEW d \in Call
        PROVE  /\ d \notin accepted' =>
                    d \notin asked' /\ transfer'[d].state = "none"
               /\ d \in back' =>
                    d \notin asked' /\ transfer'[d].state \notin Going
               /\ d \in asked' => transfer'[d].state = "none"
    <3>1. CASE d = c
      BY <1>2, <1>3, <3>1
    <3>2. CASE d # c
      BY <1>2, <1>3, <3>2 DEF QueueInv, Records
    <3> QED
      BY <3>1, <3>2
  <2>3. held' \cap back' = {} /\ asked' \subseteq Call
    BY <1>2 DEF QueueInv, Records
  <2>4. misused' \subseteq doomed'
    BY <1>1, <1>2 DEF QueueInv, Records, accepted
  <2> QED
    BY <2>1, <2>2, <2>3, <2>4 DEF Records
<1>7. Flagged'
  BY <1>1 DEF QueueInv, Flagged
<1>8. Placed'
  <2> SUFFICES ASSUME NEW d \in accepted \ back'
               PROVE  \/ d \in asked'
                      \/ transfer'[d].state \in Going
                      \/ \E g \in Heads(words) : g > at /\ words[g].call = d
    BY <1>1, <1>3 DEF Placed
  <2>1. CASE d = c
    BY <1>2, <2>1
  <2>2. CASE d # c
    <3>1. d \in Call /\ d \in accepted \ back
      BY <1>2, <2>2 DEF QueueInv, Records
    <3> QED
      BY <1>2, <2>2, <3>1 DEF QueueInv, Placed
  <2> QED
    BY <2>1, <2>2
<1> QED
  BY <1>1, <1>2, <1>4, <1>5, <1>6, <1>7, <1>8 DEF QueueInv

LEMMA QueueInitially == Init => QueueInv /\ FilesInit
<1> SUFFICES ASSUME Init PROVE QueueInv /\ FilesInit
  OBVIOUS
<1>1. FilesInit /\ FilesInv
  BY FilesInitially DEF Init
<1>2. \A c \in Call : transfer[c].state = "none"
  BY <1>1 DEF FilesInit, None
<1>3. /\ words \in Seq(QueueWord) /\ DOMAIN words = {} /\ Len(words) = 0
      /\ at = 0
  BY DEF Init
<1>4. Heads(words) = {} /\ Blocks(words) /\ Flagged /\ Owed
  BY <1>3 DEF Heads, Blocks, Flagged, Owed
<1>5. Copies
  BY DEF Init, Copies
<1>6. accepted = {} /\ {} = 1 .. 0
  BY DEF Init, accepted
<1>7. Records
  BY <1>2, <1>6 DEF Init, Records
<1>8. Placed
  BY <1>6 DEF Placed
<1> QED
  BY <1>1, <1>3, <1>4, <1>5, <1>7, <1>8 DEF QueueInv

LEMMA QueueInductive ==
  QueueInv /\ [Next]_vars => QueueInv' /\ [FilesNext]_fileVars
<1> SUFFICES ASSUME QueueInv, [Next]_vars
             PROVE  QueueInv' /\ [FilesNext]_fileVars
  OBVIOUS
<1>1. ASSUME NEW name \in Names, Accept(name)
      PROVE  QueueInv' /\ [FilesNext]_fileVars
  BY <1>1, AcceptKeeps DEF Accept
<1>2. ASSUME NEW name \in Names, NEW bad \in DOMAIN Functions[name].params,
             Refuse(name, bad)
      PROVE  QueueInv' /\ [FilesNext]_fileVars
  BY <1>2, RefuseKeeps DEF Refuse
<1>3. CASE StartTurn
  BY <1>3, StartTurnKeeps DEF StartTurn
<1>4. CASE Do
  BY <1>4, DoKeeps
<1>5. CASE EndTurn
  BY <1>5, EndTurnKeeps DEF EndTurn
<1>6. ASSUME NEW c \in Call, Answer(c)
      PROVE  QueueInv' /\ [FilesNext]_fileVars
  BY <1>6, AnswerKeeps
<1>7. CASE UNCHANGED vars
  BY <1>7, QueueSame DEF vars, queueVars
<1> QED
  BY <1>1, <1>2, <1>3, <1>4, <1>5, <1>6, <1>7 DEF Next

LEMMA QueueImplied == QueueInv => RecordsOwed
<1> SUFFICES ASSUME QueueInv PROVE RecordsOwed
  OBVIOUS
<1>1. misused \subseteq doomed /\ held \cap back = {}
  BY DEF QueueInv, Records
<1>2. ASSUME ~turn, NEW k \in DOMAIN words
      PROVE  words[k].call \in accepted \ back
  <2>1. PICK h \in Heads(words) : k \in h .. LastWord(words, h)
    BY DEF QueueInv, Blocks
  <2>2. h \in Nat /\ h > 0 /\ LastWord(words, h) \in Nat
    BY HeadsFit DEF QueueInv
  <2>3. words[k].call = words[h].call
    <3>1. k = h \/ k \in h + 1 .. LastWord(words, h)
      BY <2>1, <2>2
    <3> QED
      BY <3>1 DEF QueueInv, Blocks, WholeCall
  <2>4. h > at
    BY <1>2, <2>2 DEF QueueInv
  <2> QED
    BY <2>3, <2>4 DEF QueueInv, Owed
<1>3. ASSUME NEW c \in Call, c \in asked \/ transfer[c].state \in Going
      PROVE  c \in accepted \ back
  BY <1>3 DEF QueueInv, Records, Going
<1>4. asked \subseteq Call
  BY DEF QueueInv, Records
<1>5. ASSUME ~turn, NEW c \in accepted \ back
      PROVE  \/ c \in {words[k].call : k \in DOMAIN words}
             \/ c \in asked
             \/ c \in {d \in Call : transfer[d].state \in Going}
  BY DEF QueueInv, Records, Placed, Heads
<1>6. ASSUME NEW s \in strings
      PROVE  s \in {<<words[k].call, j>> : k \in DOMAIN words, j \in 1 .. 3}
  <2>1. PICK h \in Heads(words) : \E j \in DOMAIN ParamsAt(words, h) :
          s = <<words[h].call, j>>
    BY DEF QueueInv, Copies
  <2>2. DOMAIN ParamsAt(words, h) \subseteq 1 .. 3 /\ h \in DOMAIN words
    <3>1. words \in Seq(QueueWord)
      BY DEF QueueInv
    <3>2. /\ DOMAIN ParamsAt(words, h) = 1 .. Len(ParamsAt(words, h))
          /\ Len(ParamsAt(words, h)) \in 0 .. 3
      BY <3>1, HeadsFit
    <3> QED
      BY <3>2 DEF Heads
  <2> QED
    BY <2>1, <2>2
<1> QED
  <2> DEFINE queued == {words[k].call : k \in DOMAIN words}
             going == {c \in Call : transfer[c].state \in Going}
  <2>1. ~turn => queued \cup asked \cup going = accepted \ back
    <3> SUFFICES ASSUME ~turn
                 PROVE  queued \cup asked \cup going = accepted \ back
      OBVIOUS
    <3>1. queued \subseteq accepted \ back
      BY <1>2
    <3>2. asked \subseteq accepted \ back /\ going \subseteq accepted \ back
      BY <1>3, <1>4
    <3>3. accepted \ back \subseteq queued \cup asked \cup going
      BY <1>5
    <3> HIDE DEF queued, going
    <3> QED
      BY <3>1, <3>2, <3>3
  <2>2. strings \subseteq {<<words[k].call, j>> : k \in DOMAIN words,
                                                 j \in 1 .. 3}
    BY <1>6
  <2> QED
    BY <1>1, <2>1, <2>2 DEF RecordsOwed

\* What the queue does to the files is what Files says: a call starts one
\* transfer, once, when lua_do_all comes to it, and each answer is a step of
\* the transfer that it is for.
THEOREM QueueRunsFiles == Spec => FilesSpec
<1>1. Spec => []QueueInv
  BY QueueInitially, QueueInductive, PTL DEF Spec
<1> QED
  BY <1>1, QueueInitially, QueueInductive, PTL DEF Spec, FilesSpec

\* FilesAreWhole, of the files that a script loads and sends.
THEOREM ScriptsFilesWhole == Spec => []FilesAreWhole
BY QueueRunsFiles, FilesWhole, PTL

\* RecordsOwed: for any number of calls of any of the functions, of any length
\* of the queue, between turns a record is allocated for exactly the calls that
\* the program owes a callback, no call is called back twice, no callback
\* reads a record that was freed unless lua_do_all took it for a string, and
\* no string is left over.
THEOREM RecordsKept == Spec => []RecordsOwed
<1>1. Spec => []QueueInv
  BY QueueInitially, QueueInductive, PTL DEF Spec
<1> QED
  BY <1>1, QueueImplied, PTL

---------------------------------------------------------------------------
(* The bot's work on a message                                             *)

Reason == {"flood", "checks", "fwd", "filter"}
Db == [banned : SUBSET (Chat \X User), gbanned : SUBSET User, log : BOOLEAN,
       spams : [User -> Nat], msgs : [User -> Nat],
       added : [Chat \X User -> Nat]]
Globals == [kicktable : SUBSET User, bots : Mark, filter : Mark]
Past == [ordered : SUBSET (Chat \X User), condemned : SUBSET User,
         window : SUBSET User, strikes : [User -> Nat],
         adds : [Chat \X User -> Nat]]
Works == [db : Db, lua : Globals, past : Past,
          message : {"whole", "empty", "dropped", "failed"},
          kicked : SUBSET User, deleted : SUBSET Reason, obeyed : BOOLEAN,
          asked : SUBSET Lookup]

\* Bans have their reasons in the history.  Of a user it has counted no fewer
\* kicks for flooding than spams; who was struck in this window is in kicktable
\* and is not struck again.
Earned(d, l, p) ==
  /\ \A k \in d.banned : k \in p.ordered \/ p.adds[k] >= BanAfter
  /\ \A u \in d.gbanned : u \in p.condemned \/ p.strikes[u] >= GbanAfter
  /\ \A k \in Chat \X User : d.added[k] <= p.adds[k]
  /\ \A u \in User :
       /\ d.spams[u] < GbanAfter
       /\ \/ p.strikes[u] >= GbanAfter
          \/ /\ d.spams[u] <= p.strikes[u]
             /\ u \in p.window => u \in l.kicktable

\* A lookup that may ban was ordered by who might order it.
Warranted(ls, p) ==
  \A l \in ls :
    /\ l.cmd \in {"ban", "banReply"} => <<l.chat, l.whom>> \in p.ordered
    /\ l.cmd = "banall" => l.whom \in p.condemned
    /\ l.cmd = "banReply" => l.from \in Admin

\* What does not touch the records
Leaves(s, t) ==
  /\ t.db = s.db /\ t.lua = s.lua /\ t.past = s.past
  /\ t.asked = s.asked /\ t.obeyed = s.obeyed

\* Kicks nobody but these.
Spares(s, t, who) == t.kicked \subseteq s.kicked \cup who

\* Deletes nothing for a filter.
Unfiltered(s, t) == "filter" \in t.deleted => "filter" \in s.deleted

\* What was taken is not given back.
Takes(s, t) == t.message = "whole" => s.message = "whole"

Mild(s, t, who) == Leaves(s, t) /\ Spares(s, t, who) /\ Unfiltered(s, t)
                   /\ Takes(s, t)

\* kick_user changes the kicks and nothing else.
LEMMA KickIs ==
  ASSUME NEW s \in Works, NEW u \in User, NEW safe
  PROVE  LET t == KickUser(s, u, safe)
         IN t \in Works /\ Mild(s, t, {u}) /\ t.message = s.message
            /\ t.deleted = s.deleted
BY DEF KickUser, Works, Mild, Leaves, Spares, Unfiltered, Takes

\* A deletion changes what is deleted and nothing else.
LEMMA DeleteIs ==
  ASSUME NEW s \in Works, NEW why \in Reason \ {"filter"}
  PROVE  LET t == Delete(s, why)
         IN t \in Works /\ Mild(s, t, {}) /\ t.message = s.message
BY DEF Delete, Works, Mild, Leaves, Spares, Unfiltered, Takes, Reason

\* A message that was dropped, or on which a plugin failed, goes no further.
LEMMA DropIs ==
  ASSUME NEW s \in Works
  PROVE  /\ Drop(s) \in Works /\ Mild(s, Drop(s), {}) /\ ~Goes(Drop(s))
         /\ Fails(s) \in Works /\ Mild(s, Fails(s), {}) /\ ~Goes(Fails(s))
BY DEF Drop, Fails, Works, Mild, Leaves, Spares, Unfiltered, Takes, Goes

\* Two mild steps make one.
LEMMA MildThenMild ==
  ASSUME NEW s, NEW t, NEW v, NEW who, NEW more,
         Mild(s, t, who), Mild(t, v, more)
  PROVE  Mild(s, v, who \cup more)
BY DEF Mild, Leaves, Spares, Unfiltered, Takes

\* A step that may kick some may kick more.
LEMMA MildMore ==
  ASSUME NEW s, NEW t, NEW who, NEW more, Mild(s, t, who), who \subseteq more
  PROVE  Mild(s, t, more)
BY DEF Mild, Spares

\* Doing nothing is mild.
LEMMA MildSelf ==
  ASSUME NEW s, NEW who
  PROVE  Mild(s, s, who)
BY DEF Mild, Leaves, Spares, Unfiltered, Takes

\* Every message names users and a chat, and a command an order.
LEMMA MessageIs ==
  ASSUME NEW m \in Messages
  PROVE  /\ m.from \in User /\ m.chat \in Chat /\ m.whom \in User
         /\ Group(m) \in Chat
         /\ m.kind = "command" =>
              m.trait \in Order /\ m.by \in {"number", "name", "reply"}
         /\ m.kind = "owners" =>
              m.chat = Pm /\ m.trait \in {"kick", "ban", "unban"}
<1>1. m \in Message
  BY Given
<1>2. CASE m \in [from : User, chat : Chat,
                  kind : {"text", "media", "forward"} \cup Service,
                  trait : TextTrait \cup MediaTrait \cup {"plain", "long"},
                  whom : User]
  BY <1>2 DEF Service, Group
<1>3. CASE m \in [from : User, chat : Chat, kind : {"command"},
                  trait : Order, by : {"number", "name", "reply"},
                  whom : User]
  BY <1>3 DEF Group
<1>4. CASE m \in [from : User, chat : {Pm}, kind : {"owners"},
                  group : Chat, trait : {"kick", "ban", "unban"},
                  whom : User]
  BY <1>4, Chats DEF Group
<1> QED BY <1>1, <1>2, <1>3, <1>4 DEF Message

\* A punishment falls on the sender.
LEMMA PunishIs ==
  ASSUME NEW s \in Works, NEW m \in Messages
  PROVE  Punish(s, m) \in Works /\ Mild(s, Punish(s, m), {m.from})
<1> DEFINE t == Delete(s, "checks")
<1>1. t \in Works /\ Mild(s, t, {m.from})
  <2>1. t \in Works /\ Mild(s, t, {})
    BY DeleteIs DEF Reason
  <2> QED BY <2>1, MildMore
<1>2. ASSUME Has(m.chat, "strict")
      PROVE  /\ KickUser(t, m.from, Admin) \in Works
             /\ Mild(s, KickUser(t, m.from, Admin), {m.from})
  <2> HIDE DEF t
  <2>1. KickUser(t, m.from, Admin) \in Works
        /\ Mild(t, KickUser(t, m.from, Admin), {m.from})
    BY <1>1, KickIs, MessageIs
  <2>2. Mild(s, KickUser(t, m.from, Admin), {m.from} \cup {m.from})
    BY <1>1, <2>1, MildThenMild
  <2> QED BY <2>1, <2>2
<1> QED BY <1>1, <1>2 DEF Punish

\* So does a deletion.
LEMMA CheckDeletes ==
  ASSUME NEW s \in Works, NEW m
  PROVE  /\ Delete(s, "checks") \in Works
         /\ Mild(s, Delete(s, "checks"), {m.from})
<1>1. Delete(s, "checks") \in Works /\ Mild(s, Delete(s, "checks"), {})
  BY DeleteIs DEF Reason
<1> QED BY <1>1, MildMore

\* Silence costs the message only.
LEMMA CheckMutedIs ==
  ASSUME NEW s \in Works, NEW m \in Messages
  PROVE  CheckMuted(s, m) \in Works /\ Mild(s, CheckMuted(s, m), {m.from})
BY CheckDeletes, MildSelf DEF CheckMuted

\* The text may cost the sender his place, and no other.
LEMMA CheckTextIs ==
  ASSUME NEW s \in Works, NEW m \in Messages
  PROVE  CheckText(s, m) \in Works /\ Mild(s, CheckText(s, m), {m.from})
<1> DEFINE offends == /\ m.kind # "add"
                      /\ m.trait = "rtl" \/ s.message # "empty"
                      /\ \/ m.trait = "control"
                         \/ /\ m.trait \in DOMAIN TextLock
                            /\ Has(m.chat, TextLock[m.trait])
           t == IF offends THEN Punish(s, m) ELSE s
<1>1. t \in Works /\ Mild(s, t, {m.from})
  BY PunishIs, MildSelf
<1>2. /\ Delete(t, "checks") \in Works
      /\ Mild(s, Delete(t, "checks"), {m.from})
  <2> HIDE DEF t
  <2>1. Delete(t, "checks") \in Works
        /\ Mild(t, Delete(t, "checks"), {m.from})
    BY <1>1, CheckDeletes
  <2>2. Mild(s, Delete(t, "checks"), {m.from} \cup {m.from})
    BY <1>1, <2>1, MildThenMild
  <2> QED BY <2>1, <2>2
<1>3. CheckText(s, m) = t \/ CheckText(s, m) = Delete(t, "checks")
  BY DEF CheckText
<1> QED BY <1>1, <1>2, <1>3

\* So may what a message carries,
LEMMA CheckMediaIs ==
  ASSUME NEW s \in Works, NEW m \in Messages
  PROVE  CheckMedia(s, m) \in Works /\ Mild(s, CheckMedia(s, m), {m.from})
BY PunishIs, CheckDeletes, MildSelf DEF CheckMedia

\* and what was forwarded costs the message only.
LEMMA CheckForwardIs ==
  ASSUME NEW s \in Works, NEW m \in Messages
  PROVE  CheckForward(s, m) \in Works /\ Mild(s, CheckForward(s, m), {m.from})
BY CheckDeletes, MildSelf DEF CheckForward

\* Who a message may cost his place in msg_checks.
Blamed(m) == IF m.kind \in Service THEN User ELSE {m.from}

\* A service message may cost the place of who came.
LEMMA CheckServiceIs ==
  ASSUME NEW s \in Works, NEW m \in Messages
  PROVE  CheckService(s, m) \in Works /\ Mild(s, CheckService(s, m), Blamed(m))
<1>1. CASE m.kind \notin Service
  BY <1>1, MildSelf DEF CheckService
<1>2. CASE m.kind \in Service
  <2> DEFINE new == IF m.kind = "join" THEN m.from ELSE m.whom
             t == IF Has(m.chat, "lock_tgservice") THEN Delete(s, "checks")
                  ELSE s
             v == IF m.kind = "join" /\ m.trait = "long" THEN Punish(t, m)
                  ELSE t
             w == IF m.trait = "rtl" /\ Has(m.chat, "lock_rtl")
                  THEN KickUser(v, new, Admin) ELSE v
             x == Delete(w, "checks")
             y == KickUser(x, new, Admin)
  <2>1. new \in User /\ m.from \in User
    BY MessageIs
  <2>2. CheckService(s, m) = w \/ CheckService(s, m) = y
    BY <1>2 DEF CheckService
  <2> HIDE DEF new
  <2>3. t \in Works /\ Mild(s, t, User)
    <3>1. t \in Works /\ Mild(s, t, {m.from})
      BY CheckDeletes, MildSelf
    <3> HIDE DEF t
    <3> QED BY <2>1, <3>1, MildMore
  <2> HIDE DEF t
  <2>4. v \in Works /\ Mild(t, v, User)
    <3>1. v \in Works /\ Mild(t, v, {m.from})
      BY <2>3, PunishIs, MildSelf
    <3> HIDE DEF v
    <3> QED BY <2>1, <3>1, MildMore
  <2> HIDE DEF v
  <2>5. w \in Works /\ Mild(v, w, User)
    <3>1. w \in Works /\ Mild(v, w, {new})
      BY <2>1, <2>4, KickIs, MildSelf
    <3> HIDE DEF w
    <3> QED BY <2>1, <3>1, MildMore
  <2> HIDE DEF w
  <2>6. x \in Works /\ Mild(w, x, User)
    <3>1. x \in Works /\ Mild(w, x, {m.from})
      BY <2>5, CheckDeletes
    <3> HIDE DEF x
    <3> QED BY <2>1, <3>1, MildMore
  <2> HIDE DEF x
  <2>7. y \in Works /\ Mild(x, y, User)
    <3>1. y \in Works /\ Mild(x, y, {new})
      BY <2>1, <2>6, KickIs
    <3> HIDE DEF y
    <3> QED BY <2>1, <3>1, MildMore
  <2> HIDE DEF y
  <2>8. Mild(s, v, User \cup User)
    BY <2>3, <2>4, MildThenMild
  <2>9. Mild(s, w, User \cup User \cup User)
    BY <2>5, <2>8, MildThenMild
  <2>10. Mild(s, x, User \cup User \cup User \cup User)
    BY <2>6, <2>9, MildThenMild
  <2>11. Mild(s, y, User \cup User \cup User \cup User \cup User)
    BY <2>7, <2>10, MildThenMild
  <2>12. Mild(s, w, User) /\ Mild(s, y, User)
    BY <2>9, <2>11
  <2> QED BY <1>2, <2>2, <2>5, <2>7, <2>12 DEF Blamed
<1> QED BY <1>1, <1>2

\* msg_checks works on the messages of plain users, and changes no record.
LEMMA MsgChecksIs ==
  ASSUME NEW s \in Works, NEW m \in Messages
  PROVE  /\ MsgChecks(s, m) \in Works
         /\ \/ Mild(s, MsgChecks(s, m), Blamed(m)) /\ ~IsMomod(m.from, m.chat)
            \/ Mild(s, MsgChecks(s, m), {})
<1>1. CASE \/ m.chat \notin Basic \cup Registered
           \/ IsMomod(m.from, m.chat) \/ m.from \in Whitelisted
  BY <1>1, MildSelf DEF MsgChecks
<1>2. CASE /\ m.chat \in Basic \cup Registered
           /\ ~IsMomod(m.from, m.chat) /\ m.from \notin Whitelisted
           /\ m.chat \notin Registered
  BY <1>2, DropIs DEF MsgChecks
<1>3. CASE /\ m.chat \in Basic \cup Registered
           /\ ~IsMomod(m.from, m.chat) /\ m.from \notin Whitelisted
           /\ m.chat \in Registered
  <2>1. PICK a : a = CheckMuted(s, m)
    OBVIOUS
  <2>2. PICK b : b = CheckText(a, m)
    OBVIOUS
  <2>3. PICK c : c = CheckMedia(b, m)
    OBVIOUS
  <2>4. PICK d : d = CheckForward(c, m)
    OBVIOUS
  <2>5. PICK e : e = CheckService(d, m)
    OBVIOUS
  <2>6. MsgChecks(s, m) = e
    BY <1>3, <2>1, <2>2, <2>3, <2>4, <2>5 DEF MsgChecks
  <2>7. a \in Works /\ Mild(s, a, {m.from})
    BY <2>1, CheckMutedIs
  <2>8. b \in Works /\ Mild(a, b, {m.from})
    BY <2>2, <2>7, CheckTextIs
  <2>9. c \in Works /\ Mild(b, c, {m.from})
    BY <2>3, <2>8, CheckMediaIs
  <2>10. d \in Works /\ Mild(c, d, {m.from})
    BY <2>4, <2>9, CheckForwardIs
  <2>11. e \in Works /\ Mild(d, e, Blamed(m))
    BY <2>5, <2>10, CheckServiceIs
  <2>12. Mild(s, b, {m.from} \cup {m.from})
    BY <2>7, <2>8, MildThenMild
  <2>13. Mild(b, d, {m.from} \cup {m.from})
    BY <2>9, <2>10, MildThenMild
  <2>14. Mild(s, d, {m.from} \cup {m.from} \cup ({m.from} \cup {m.from}))
    BY <2>12, <2>13, MildThenMild
  <2>15. Mild(s, d, Blamed(m))
    <3>1. {m.from} \cup {m.from} \cup ({m.from} \cup {m.from})
            \subseteq Blamed(m)
      BY MessageIs DEF Blamed
    <3> QED BY <2>14, <3>1, MildMore
  <2>16. Mild(s, e, Blamed(m) \cup Blamed(m))
    BY <2>11, <2>15, MildThenMild
  <2>17. Mild(s, e, Blamed(m))
    <3>1. Blamed(m) \cup Blamed(m) \subseteq Blamed(m)
      OBVIOUS
    <3> QED BY <2>16, <3>1, MildMore
  <2> QED BY <1>3, <2>6, <2>11, <2>17
<1> QED BY <1>1, <1>2, <1>3

\* What the work keeps true of the records: a ban is earned, and a lookup that
\* may ban is warranted.
Sound(s) ==
  /\ s \in Works /\ Earned(s.db, s.lua, s.past) /\ Warranted(s.asked, s.past)
  /\ past.ordered \subseteq s.past.ordered
  /\ past.condemned \subseteq s.past.condemned

\* Records that nobody touches stay sound.
LEMMA LeavesSound ==
  ASSUME NEW s, NEW t \in Works, Sound(s), Leaves(s, t)
  PROVE  Sound(t)
BY DEF Sound, Leaves

\* No new ban.
Steady(s, t) == t.db.banned = s.db.banned /\ t.db.gbanned = s.db.gbanned

\* A plain user has no rank of any kind.
LEMMA RankIs ==
  ASSUME NEW u, NEW c, ~IsMomod(u, c)
  PROVE  u \notin Admin /\ ~IsOwner(u, c) /\ ~IsMomodText(u, c)
BY DEF IsMomod, IsOwner, IsMomodText

\* One count more, or again none.
LEMMA SpamsIs ==
  ASSUME NEW d \in Db, NEW u \in User, NEW n \in Nat
  PROVE  LET e == [d EXCEPT !.spams[u] = n]
         IN /\ e \in Db /\ e.spams = [d.spams EXCEPT ![u] = n]
            /\ e.banned = d.banned /\ e.gbanned = d.gbanned
            /\ e.added = d.added
<1>1. PICK f : f = [d.spams EXCEPT ![u] = n]
  OBVIOUS
<1>2. f \in [User -> Nat]
  BY <1>1 DEF Db
<1>3. PICK e : e = [d EXCEPT !.spams = f]
  OBVIOUS
<1>4. e \in Db /\ e.spams = f /\ e.banned = d.banned
      /\ e.gbanned = d.gbanned /\ e.added = d.added
  BY <1>2, <1>3 DEF Db
<1>5. e = [d EXCEPT !.spams[u] = n]
  BY <1>1, <1>3
<1> QED BY <1>1, <1>4, <1>5

\* The count of messages concerns no other record.
LEMMA MsgsIs ==
  ASSUME NEW d \in Db, NEW u \in User, NEW n \in Nat
  PROVE  LET e == [d EXCEPT !.msgs[u] = n]
         IN /\ e \in Db /\ e.spams = d.spams
            /\ e.banned = d.banned /\ e.gbanned = d.gbanned
            /\ e.added = d.added
<1>1. PICK f : f = [d.msgs EXCEPT ![u] = n]
  OBVIOUS
<1>2. f \in [User -> Nat]
  BY <1>1 DEF Db
<1>3. PICK e : e = [d EXCEPT !.msgs = f]
  OBVIOUS
<1>4. e \in Db /\ e.spams = d.spams /\ e.banned = d.banned
      /\ e.gbanned = d.gbanned /\ e.added = d.added
  BY <1>2, <1>3 DEF Db
<1>5. e = [d EXCEPT !.msgs[u] = n]
  BY <1>1, <1>3
<1> QED BY <1>1, <1>4, <1>5

\* The work with other records.
LEMMA DbIs ==
  ASSUME NEW s \in Works, NEW d \in Db
  PROVE  LET t == [s EXCEPT !.db = d]
         IN /\ t \in Works /\ t.db = d /\ t.lua = s.lua /\ t.past = s.past
            /\ t.message = s.message /\ t.kicked = s.kicked
            /\ t.deleted = s.deleted /\ t.obeyed = s.obeyed
            /\ t.asked = s.asked
BY DEF Works

\* With another history.
LEMMA PastIs ==
  ASSUME NEW s \in Works, NEW p \in Past
  PROVE  LET t == [s EXCEPT !.past = p]
         IN /\ t \in Works /\ t.db = s.db /\ t.lua = s.lua /\ t.past = p
            /\ t.message = s.message /\ t.kicked = s.kicked
            /\ t.deleted = s.deleted /\ t.obeyed = s.obeyed
            /\ t.asked = s.asked
BY DEF Works

\* With other globals.
LEMMA LuaIs ==
  ASSUME NEW s \in Works, NEW l \in Globals
  PROVE  LET t == [s EXCEPT !.lua = l]
         IN /\ t \in Works /\ t.db = s.db /\ t.lua = l /\ t.past = s.past
            /\ t.message = s.message /\ t.kicked = s.kicked
            /\ t.deleted = s.deleted /\ t.obeyed = s.obeyed
            /\ t.asked = s.asked
BY DEF Works

\* The types of the parts of the work.
LEMMA FieldsAre ==
  ASSUME NEW s \in Works
  PROVE  /\ s.db \in Db /\ s.lua \in Globals /\ s.past \in Past
         /\ s.db.spams \in [User -> Nat] /\ s.db.msgs \in [User -> Nat]
         /\ s.db.added \in [Chat \X User -> Nat]
         /\ s.past.strikes \in [User -> Nat]
         /\ s.past.adds \in [Chat \X User -> Nat]
BY DEF Works, Db, Past

\* A counted message changes msgs and nothing else.
LEMMA CountIs ==
  ASSUME NEW s \in Works, NEW u \in User
  PROVE  LET t == CountMessage(s, u)
         IN /\ t \in Works /\ t.lua = s.lua /\ t.past = s.past
            /\ t.message = s.message /\ t.kicked = s.kicked
            /\ t.deleted = s.deleted /\ t.obeyed = s.obeyed
            /\ t.asked = s.asked /\ t.db.spams = s.db.spams
            /\ t.db.banned = s.db.banned /\ t.db.gbanned = s.db.gbanned
            /\ t.db.added = s.db.added
<1>1. PICK n \in Nat : n = s.db.msgs[u] + 1
  BY FieldsAre
<1>2. PICK d : d = [s.db EXCEPT !.msgs[u] = n]
  OBVIOUS
<1>3. /\ d \in Db /\ d.spams = s.db.spams
      /\ d.banned = s.db.banned /\ d.gbanned = s.db.gbanned
      /\ d.added = s.db.added
  BY <1>2, MsgsIs, FieldsAre
<1>4. CountMessage(s, u) = [s EXCEPT !.db = d]
  BY <1>1, <1>2 DEF CountMessage
<1> QED BY <1>3, <1>4, DbIs

\* One strike more.
Struck(p, u) == [p EXCEPT !.window = @ \cup {u}, !.strikes[u] = @ + 1]

\* It changes no other part of the history.
LEMMA StrikeIs ==
  ASSUME NEW p \in Past, NEW u \in User, NEW q, q = Struck(p, u)
  PROVE  /\ q \in Past /\ q.window = p.window \cup {u}
         /\ q.strikes = [p.strikes EXCEPT ![u] = @ + 1]
         /\ q.ordered = p.ordered /\ q.condemned = p.condemned
         /\ q.adds = p.adds
<1>1. PICK f : f = [p.strikes EXCEPT ![u] = @ + 1]
  OBVIOUS
<1>2. f \in [User -> Nat]
  BY <1>1 DEF Past
<1>3. PICK r : r = [p EXCEPT !.window = @ \cup {u}, !.strikes = f]
  OBVIOUS
<1>4. /\ r \in Past /\ r.window = p.window \cup {u} /\ r.strikes = f
      /\ r.ordered = p.ordered /\ r.condemned = p.condemned
      /\ r.adds = p.adds
  BY <1>2, <1>3 DEF Past
<1>5. q = r
  BY <1>1, <1>3, <1>4 DEF Past, Struck
<1> QED BY <1>1, <1>4, <1>5

\* A strike is counted once until kicktable is cleared.
LEMMA FloodEarned ==
  ASSUME NEW d \in Db, NEW l \in Globals, NEW p \in Past,
         NEW e \in Db, NEW k \in Globals, NEW q \in Past,
         NEW u \in User, Earned(d, l, p), u \notin l.kicktable,
         e.banned = d.banned, e.added = d.added,
         q.ordered = p.ordered, q.condemned = p.condemned, q.adds = p.adds,
         \/ u \in p.window /\ q = p
         \/ /\ u \notin p.window /\ q.window = p.window \cup {u}
            /\ q.strikes = [p.strikes EXCEPT ![u] = @ + 1],
         \/ /\ d.spams[u] + 1 # GbanAfter /\ e.gbanned = d.gbanned
            /\ e.spams = [d.spams EXCEPT ![u] = @ + 1]
            /\ k.kicktable = l.kicktable \cup {u}
         \/ /\ d.spams[u] + 1 = GbanAfter /\ e.gbanned = d.gbanned \cup {u}
            /\ e.spams = [d.spams EXCEPT ![u] = 0]
            /\ k.kicktable \in {l.kicktable, l.kicktable \cup {u}}
  PROVE  Earned(e, k, q)
<1>1. GbanAfter \in Nat \ {0} /\ BanAfter \in Nat \ {0}
  BY Limits
<1>2. /\ d.spams \in [User -> Nat] /\ e.spams \in [User -> Nat]
      /\ p.strikes \in [User -> Nat] /\ q.strikes \in [User -> Nat]
      /\ d.gbanned \in SUBSET User
  BY DEF Db, Past
<1>3. \A x \in User : p.strikes[x] <= q.strikes[x]
                      /\ (x # u => q.strikes[x] = p.strikes[x])
  BY <1>2
<1>4. \A x \in User : x # u => e.spams[x] = d.spams[x]
  BY <1>2
<1>5. \A x \in User : x # u =>
        /\ x \in q.window <=> x \in p.window
        /\ x \in l.kicktable => x \in k.kicktable
  OBVIOUS
<1>6. d.spams[u] < GbanAfter
      /\ \/ p.strikes[u] >= GbanAfter
         \/ d.spams[u] <= p.strikes[u] /\ u \notin p.window
  BY DEF Earned
<1>7. \/ q.strikes[u] >= GbanAfter
      \/ /\ u \notin p.window /\ q.strikes[u] = p.strikes[u] + 1
         /\ d.spams[u] + 1 <= q.strikes[u]
  <2>1. CASE p.strikes[u] >= GbanAfter
    <3>1. p.strikes[u] \in Nat /\ q.strikes[u] \in Nat
          /\ p.strikes[u] <= q.strikes[u]
      BY <1>2, <1>3
    <3> QED BY <1>1, <2>1, <3>1
  <2>2. CASE d.spams[u] <= p.strikes[u] /\ u \notin p.window
    <3>1. q.strikes[u] = p.strikes[u] + 1
      BY <1>2, <2>2
    <3>2. p.strikes[u] \in Nat /\ d.spams[u] \in Nat
      BY <1>2
    <3> QED BY <2>2, <3>1, <3>2
  <2> QED BY <1>6, <2>1, <2>2
<1>8. ASSUME NEW x \in User
      PROVE  /\ e.spams[x] < GbanAfter
             /\ \/ q.strikes[x] >= GbanAfter
                \/ /\ e.spams[x] <= q.strikes[x]
                   /\ x \in q.window => x \in k.kicktable
  <2>1. CASE x # u
    BY <1>3, <1>4, <1>5, <2>1 DEF Earned
  <2>2. CASE x = u /\ d.spams[u] + 1 # GbanAfter
    <3>1. e.spams[u] = d.spams[u] + 1 /\ u \in k.kicktable
          /\ d.spams[u] \in Nat
      BY <1>2, <2>2
    <3>2. d.spams[u] + 1 < GbanAfter
      BY <1>1, <1>6, <2>2, <3>1
    <3> QED BY <1>7, <2>2, <3>1, <3>2
  <2>3. CASE x = u /\ d.spams[u] + 1 = GbanAfter
    <3>1. e.spams[u] = 0
      BY <1>2, <2>3
    <3>2. q.strikes[u] >= GbanAfter
      BY <1>7, <2>3
    <3> QED BY <1>1, <2>3, <3>1, <3>2
  <2> QED BY <2>1, <2>2, <2>3
<1>9. ASSUME NEW x \in e.gbanned
      PROVE  x \in q.condemned \/ q.strikes[x] >= GbanAfter
  <2>1. CASE x \in d.gbanned
    <3>1. x \in User /\ (x \in p.condemned \/ p.strikes[x] >= GbanAfter)
      BY <1>2, <2>1 DEF Earned
    <3>2. p.strikes[x] \in Nat /\ q.strikes[x] \in Nat
          /\ p.strikes[x] <= q.strikes[x]
      BY <1>2, <1>3, <3>1
    <3> QED BY <1>1, <3>1, <3>2
  <2>2. CASE x = u /\ d.spams[u] + 1 = GbanAfter
    BY <1>7, <2>2
  <2> QED BY <2>1, <2>2
<1> QED BY <1>8, <1>9 DEF Earned

\* A flood kicks a plain user and ends the work; the global ban comes when
\* there were strikes enough.
LEMMA FloodedIs ==
  ASSUME NEW s, NEW m \in Messages, Sound(s), ~IsMomod(m.from, m.chat),
         m.from \notin s.lua.kicktable, Goes(s)
  PROVE  LET r == Flooded(s, m)
         IN Sound(r) /\ Spares(s, r, {m.from}) /\ Unfiltered(s, r)
            /\ ~Goes(r) /\ r.obeyed = s.obeyed
<1>1. PICK u \in User : u = m.from
  BY MessageIs
<1>2. s \in Works /\ u \notin Admin /\ ~IsOwner(u, m.chat)
  BY <1>1, RankIs DEF Sound
<1>3. PICK k : k = KickUser(Delete(s, "flood"), u, Admin)
  OBVIOUS
<1>4. k \in Works /\ Mild(s, k, {u}) /\ k.message = s.message
  <2>1. PICK e : e = Delete(s, "flood")
    OBVIOUS
  <2>2. e \in Works /\ Mild(s, e, {}) /\ e.message = s.message
    BY <1>2, <2>1, DeleteIs DEF Reason
  <2>3. k = KickUser(e, u, Admin)
    BY <1>3, <2>1
  <2>4. k \in Works /\ Mild(e, k, {u}) /\ k.message = e.message
    BY <2>2, <2>3, KickIs
  <2>5. Mild(s, k, {} \cup {u})
    BY <2>2, <2>4, MildThenMild
  <2>6. {} \cup {u} = {u}
    OBVIOUS
  <2> QED BY <2>2, <2>4, <2>5, <2>6
<1>5. PICK t : t = Strike(k, u)
  OBVIOUS
<1>6. /\ t \in Works /\ t.db = s.db /\ t.lua = s.lua /\ t.asked = s.asked
      /\ t.message = s.message
      /\ t.obeyed = s.obeyed /\ t.kicked = k.kicked /\ t.deleted = k.deleted
      /\ \/ u \in s.past.window /\ t.past = s.past
         \/ /\ u \notin s.past.window
            /\ t.past = Struck(s.past, u)
  <2>1. k.past = s.past /\ k.db = s.db /\ k.lua = s.lua /\ k.asked = s.asked
        /\ k.obeyed = s.obeyed
    BY <1>4 DEF Mild, Leaves
  <2>2. CASE u \in s.past.window
    BY <1>4, <1>5, <2>1, <2>2 DEF Strike
  <2>3. CASE u \notin s.past.window
    <3>1. PICK q : q = Struck(s.past, u)
      OBVIOUS
    <3>2. q \in Past
      BY <1>2, <3>1, StrikeIs, FieldsAre
    <3>3. t = [k EXCEPT !.past = q]
      <4>1. t = [k EXCEPT !.past.window = @ \cup {u},
                          !.past.strikes[u] = @ + 1]
        BY <1>5, <2>1, <2>3 DEF Strike
      <4>2. [k EXCEPT !.past.window = @ \cup {u}, !.past.strikes[u] = @ + 1]
              = [k EXCEPT !.past = [k.past EXCEPT !.window = @ \cup {u},
                                                  !.strikes[u] = @ + 1]]
        BY <1>4 DEF Works, Past
      <4> QED BY <2>1, <3>1, <4>1, <4>2 DEF Struck
    <3> QED BY <1>4, <2>1, <2>3, <3>1, <3>2, <3>3, PastIs
  <2> QED BY <2>2, <2>3
<1>7. PICK w : w = [t EXCEPT !.db.spams[u] = @ + 1]
  OBVIOUS
<1>8. /\ w \in Works /\ w.lua = t.lua /\ w.past = t.past
      /\ w.asked = t.asked /\ w.obeyed = t.obeyed /\ w.kicked = t.kicked
      /\ w.deleted = t.deleted /\ w.message = t.message
      /\ w.db.spams = [s.db.spams EXCEPT ![u] = @ + 1]
      /\ w.db.banned = s.db.banned /\ w.db.gbanned = s.db.gbanned
      /\ w.db.added = s.db.added
  <2>1. PICK n \in Nat : n = s.db.spams[u] + 1
    BY <1>2, FieldsAre
  <2>2. PICK d : d = [s.db EXCEPT !.spams[u] = n]
    OBVIOUS
  <2>3. /\ d \in Db /\ d.spams = [s.db.spams EXCEPT ![u] = n]
        /\ d.banned = s.db.banned /\ d.gbanned = s.db.gbanned
        /\ d.added = s.db.added
    BY <1>2, <2>2, SpamsIs, FieldsAre
  <2>4. w = [t EXCEPT !.db = d]
    BY <1>6, <1>7, <2>1, <2>2
  <2> QED BY <1>6, <2>1, <2>3, <2>4, DbIs
<1>9. w.db.spams[u] = s.db.spams[u] + 1 /\ w.db.spams \in [User -> Nat]
  BY <1>2, <1>8, FieldsAre
<1>10. PICK v : v = GlobalBan(w, m)
  OBVIOUS
<1>11. /\ v \in Works /\ v.lua = w.lua /\ v.past = w.past
       /\ v.asked = w.asked /\ v.obeyed = w.obeyed /\ v.kicked = w.kicked
       /\ v.deleted = w.deleted
       /\ v.db.banned = s.db.banned /\ v.db.added = s.db.added
       /\ \/ /\ s.db.spams[u] + 1 # GbanAfter /\ v = w
          \/ /\ s.db.spams[u] + 1 = GbanAfter
             /\ v.db.gbanned = s.db.gbanned \cup {u}
             /\ v.db.spams = [s.db.spams EXCEPT ![u] = 0]
  <2>1. CASE s.db.spams[u] + 1 # GbanAfter
    <3>1. v = w
      BY <1>1, <1>9, <1>10, <2>1 DEF GlobalBan
    <3> QED BY <1>8, <1>9, <2>1, <3>1
  <2>2. CASE s.db.spams[u] + 1 = GbanAfter
    <3>1. PICK d : d = [w.db EXCEPT !.spams[u] = 0]
      OBVIOUS
    <3>2. /\ d \in Db /\ d.spams = [w.db.spams EXCEPT ![u] = 0]
          /\ d.banned = w.db.banned /\ d.gbanned = w.db.gbanned
          /\ d.added = w.db.added
      BY <1>8, <3>1, SpamsIs, FieldsAre
    <3>3. PICK b : b = [w EXCEPT !.db = d]
      OBVIOUS
    <3>4. /\ b \in Works /\ b.db = d /\ b.lua = w.lua /\ b.past = w.past
          /\ b.asked = w.asked /\ b.obeyed = w.obeyed
          /\ b.kicked = w.kicked /\ b.deleted = w.deleted
      BY <1>8, <3>2, <3>3, DbIs
    <3>5. b = [w EXCEPT !.db.spams[u] = 0]
      BY <3>1, <3>3
    <3>6. PICK e : e = [d EXCEPT !.gbanned = @ \cup {u}]
      OBVIOUS
    <3>7. /\ e \in Db /\ e.spams = d.spams /\ e.banned = d.banned
          /\ e.gbanned = d.gbanned \cup {u} /\ e.added = d.added
      BY <3>2, <3>6 DEF Db
    <3>8. PICK a : a = [b EXCEPT !.db = e]
      OBVIOUS
    <3>9. /\ a \in Works /\ a.db = e /\ a.lua = w.lua /\ a.past = w.past
          /\ a.asked = w.asked /\ a.obeyed = w.obeyed
          /\ a.kicked = w.kicked /\ a.deleted = w.deleted
      BY <3>4, <3>7, <3>8, DbIs
    <3>10. a = BanallUser(b, u, Admin)
      BY <1>2, <3>4, <3>6, <3>8 DEF BanallUser
    <3>11. v = a \/ v = Fails(a)
      BY <1>1, <1>2, <1>9, <1>10, <2>2, <3>5, <3>10 DEF GlobalBan
    <3>12. /\ Fails(a) \in Works /\ Mild(a, Fails(a), {})
           /\ Fails(a).kicked = a.kicked /\ Fails(a).deleted = a.deleted
      BY <3>9, DropIs DEF Fails, Works
    <3>13. /\ v \in Works /\ v.db = e /\ v.lua = w.lua /\ v.past = w.past
           /\ v.asked = w.asked /\ v.obeyed = w.obeyed
           /\ v.kicked = w.kicked /\ v.deleted = w.deleted
      BY <3>9, <3>11, <3>12 DEF Mild, Leaves
    <3>14. [[s.db.spams EXCEPT ![u] = @ + 1] EXCEPT ![u] = 0]
             = [s.db.spams EXCEPT ![u] = 0]
      OBVIOUS
    <3> QED BY <1>8, <2>2, <3>2, <3>7, <3>13, <3>14
  <2> QED BY <2>1, <2>2
<1>12. PICK r : r = Flooded(s, m)
  OBVIOUS
<1>13. PICK x : x = [v EXCEPT !.lua.kicktable = @ \cup {u}]
  OBVIOUS
<1>14. /\ x \in Works /\ x.db = v.db /\ x.past = v.past
       /\ x.asked = v.asked /\ x.obeyed = v.obeyed
       /\ x.kicked = v.kicked /\ x.deleted = v.deleted
       /\ x.lua.kicktable = v.lua.kicktable \cup {u}
  <2>1. PICK l : l = [v.lua EXCEPT !.kicktable = @ \cup {u}]
    OBVIOUS
  <2>2. l \in Globals /\ l.kicktable = v.lua.kicktable \cup {u}
    BY <1>11, <2>1 DEF Works, Globals
  <2>3. x = [v EXCEPT !.lua = l]
    BY <1>13, <2>1
  <2> QED BY <1>11, <2>2, <2>3, LuaIs
<1>15. PICK y : y = CountMessage(x, u)
  OBVIOUS
<1>16. /\ y \in Works /\ y.lua = x.lua /\ y.past = x.past
       /\ y.asked = x.asked /\ y.obeyed = x.obeyed
       /\ y.kicked = x.kicked /\ y.deleted = x.deleted
       /\ y.db.banned = x.db.banned /\ y.db.gbanned = x.db.gbanned
       /\ y.db.spams = x.db.spams /\ y.db.added = x.db.added
  BY <1>14, <1>15, CountIs
<1>17. \/ r = v /\ ~Goes(v)
       \/ r = Drop(y) /\ Goes(v)
  BY <1>1, <1>3, <1>5, <1>7, <1>10, <1>12, <1>13, <1>15 DEF Flooded
<1>18. /\ r \in Works /\ ~Goes(r) /\ r.past = t.past
       /\ r.asked = s.asked /\ r.obeyed = s.obeyed
       /\ r.kicked = k.kicked /\ r.deleted = k.deleted
       /\ r.db.banned = s.db.banned /\ r.db.added = s.db.added
       /\ r.db.gbanned = v.db.gbanned /\ r.db.spams = v.db.spams
       /\ r.lua.kicktable \in {s.lua.kicktable, s.lua.kicktable \cup {u}}
       /\ Goes(v) => r.lua.kicktable = s.lua.kicktable \cup {u}
  <2>1. CASE r = v /\ ~Goes(v)
    BY <1>6, <1>8, <1>11, <2>1
  <2>2. CASE r = Drop(y) /\ Goes(v)
    <3>1. /\ r \in Works /\ Mild(y, r, {}) /\ ~Goes(r)
          /\ r.kicked = y.kicked /\ r.deleted = y.deleted
      BY <1>16, <2>2, DropIs DEF Drop, Works
    <3>2. r.db = y.db /\ r.lua = y.lua /\ r.past = y.past
          /\ r.asked = y.asked /\ r.obeyed = y.obeyed
      BY <3>1 DEF Mild, Leaves
    <3> QED BY <1>6, <1>8, <1>11, <1>14, <1>16, <3>1, <3>2
  <2> QED BY <1>17, <2>1, <2>2
<1>19. s.db.spams[u] + 1 # GbanAfter => Goes(v)
  BY <1>6, <1>8, <1>11 DEF Goes
<1>20. /\ r.past.ordered = s.past.ordered
       /\ r.past.condemned = s.past.condemned
       /\ r.past.adds = s.past.adds
       /\ \/ u \in s.past.window /\ r.past = s.past
          \/ /\ u \notin s.past.window
             /\ r.past.window = s.past.window \cup {u}
             /\ r.past.strikes = [s.past.strikes EXCEPT ![u] = @ + 1]
  <2>1. CASE u \in s.past.window /\ t.past = s.past
    BY <1>18, <2>1
  <2>2. CASE /\ u \notin s.past.window
             /\ t.past = Struck(s.past, u)
    <3>1. PICK p \in Past : p = s.past
      BY <1>2, FieldsAre
    <3>2. PICK q : q = t.past
      OBVIOUS
    <3>3. q = Struck(p, u)
      BY <2>2, <3>1, <3>2
    <3>4. r.past = q
      BY <1>18, <3>2
    <3>5. /\ q.window = p.window \cup {u}
          /\ q.strikes = [p.strikes EXCEPT ![u] = @ + 1]
          /\ q.ordered = p.ordered /\ q.condemned = p.condemned
          /\ q.adds = p.adds
      BY <3>3, StrikeIs
    <3> QED BY <2>2, <3>1, <3>4, <3>5
  <2> QED BY <1>6, <2>1, <2>2
<1>21. Earned(r.db, r.lua, r.past)
  <2>1. \/ /\ s.db.spams[u] + 1 # GbanAfter /\ r.db.gbanned = s.db.gbanned
           /\ r.db.spams = [s.db.spams EXCEPT ![u] = @ + 1]
           /\ r.lua.kicktable = s.lua.kicktable \cup {u}
        \/ /\ s.db.spams[u] + 1 = GbanAfter
           /\ r.db.gbanned = s.db.gbanned \cup {u}
           /\ r.db.spams = [s.db.spams EXCEPT ![u] = 0]
           /\ r.lua.kicktable \in {s.lua.kicktable, s.lua.kicktable \cup {u}}
    BY <1>8, <1>11, <1>18, <1>19
  <2>2. Earned(s.db, s.lua, s.past) /\ u \notin s.lua.kicktable
    BY <1>1 DEF Sound
  <2>3. /\ s.db \in Db /\ s.lua \in Globals /\ s.past \in Past
        /\ r.db \in Db /\ r.lua \in Globals /\ r.past \in Past
    BY <1>2, <1>18, FieldsAre
  <2> QED BY <1>18, <1>20, <2>1, <2>2, <2>3, FloodEarned
<1>22. Sound(r)
  BY <1>18, <1>20, <1>21 DEF Sound, Warranted
<1>23. Spares(s, r, {u}) /\ Unfiltered(s, r)
  BY <1>4, <1>18 DEF Mild, Spares, Unfiltered
<1> QED BY <1>1, <1>12, <1>18, <1>22, <1>23

\* Who may be kicked over a message whatever his rank.
Allowed(d, u, m) ==
  \/ m.from \in Admin \/ m.kind \in Service \/ IsBanned(d, u, Group(m))
  \/ /\ m.kind = "owners"
     /\ u = m.from \/ IsOwner(m.from, Group(m))

Excused(s, u, m) == IsMomodText(u, Group(m)) => Allowed(s.db, u, m)

\* What a plugin that looks at a message does with the work.
Looked(s, t, m) ==
  /\ Sound(t) /\ t.obeyed = s.obeyed
  /\ \A u \in t.kicked \ s.kicked : Excused(s, u, m)
  /\ Unfiltered(s, t) /\ Takes(s, t)
  /\ Goes(t) /\ m.kind \notin Service => Steady(s, t)

\* A look that bans nobody and kicks only whom it may.
LEMMA MildLooked ==
  ASSUME NEW s, NEW t \in Works, NEW m, NEW who, Sound(s), Mild(s, t, who),
         \A u \in who : Excused(s, u, m)
  PROVE  Looked(s, t, m)
<1>1. Sound(t)
  BY LeavesSound DEF Mild
<1>2. t.kicked \ s.kicked \subseteq who
  BY DEF Mild, Spares
<1> QED BY <1>1, <1>2 DEF Looked, Mild, Leaves, Steady

\* A count of the message in redis changes no ban.
LEMMA CountSound ==
  ASSUME NEW s, NEW u \in User, Sound(s)
  PROVE  Sound(CountMessage(s, u)) /\ Steady(s, CountMessage(s, u))
<1>1. s \in Works
  BY DEF Sound
<1>2. PICK t : t = CountMessage(s, u)
  OBVIOUS
<1>3. /\ t \in Works /\ t.lua = s.lua /\ t.past = s.past
      /\ t.asked = s.asked /\ t.db.spams = s.db.spams
      /\ t.db.banned = s.db.banned /\ t.db.gbanned = s.db.gbanned
      /\ t.db.added = s.db.added
  BY <1>1, <1>2, CountIs
<1>4. Earned(t.db, t.lua, t.past)
  BY <1>3 DEF Sound, Earned
<1>5. Sound(t)
  BY <1>3, <1>4 DEF Sound
<1> QED BY <1>2, <1>3, <1>5 DEF Steady

\* anti_spam: whoever it kicks is a plain user.
LEMMA AntiSpamIs ==
  ASSUME NEW s, NEW m \in Messages, Sound(s), Goes(s)
  PROVE  Looked(s, AntiSpam(s, m), m)
<1>1. PICK u \in User : u = m.from
  BY MessageIs
<1>2. s \in Works
  BY DEF Sound
<1>3. PICK t : t = AntiSpam(s, m)
  OBVIOUS
<1>4. \/ t = s
      \/ t = CountMessage(s, u)
      \/ t = Drop(s)
      \/ t = Flooded(s, m) /\ ~IsMomod(u, m.chat) /\ u \notin s.lua.kicktable
  BY <1>1, <1>3 DEF AntiSpam
<1> SUFFICES Looked(s, t, m)
  BY <1>3
<1>5. CASE t = s
  <2>1. Mild(s, t, {})
    BY <1>5, MildSelf
  <2> QED BY <1>2, <1>5, <2>1, MildLooked
<1>6. CASE t = CountMessage(s, u)
  <2>1. t.obeyed = s.obeyed /\ t.kicked = s.kicked /\ t.deleted = s.deleted
        /\ t.message = s.message
    BY <1>2, <1>6, CountIs
  <2>2. Sound(t) /\ Steady(s, t)
    BY <1>6, CountSound
  <2> QED BY <2>1, <2>2 DEF Looked, Unfiltered, Takes
<1>7. CASE t = Drop(s)
  <2>1. t \in Works /\ Mild(s, t, {})
    BY <1>2, <1>7, DropIs
  <2> QED BY <2>1, MildLooked
<1>8. CASE t = Flooded(s, m) /\ ~IsMomod(u, m.chat) /\ u \notin s.lua.kicktable
  <2>1. Sound(t) /\ Spares(s, t, {u}) /\ Unfiltered(s, t) /\ ~Goes(t)
        /\ t.obeyed = s.obeyed
    BY <1>1, <1>8, FloodedIs
  <2>2. Excused(s, u, m)
    BY <1>1, <1>8, RankIs DEF Excused, Allowed, Group
  <2>3. Takes(s, t)
    BY <2>1 DEF Takes, Goes
  <2> QED BY <2>1, <2>2, <2>3 DEF Looked, Spares
<1> QED BY <1>4, <1>5, <1>6, <1>7, <1>8

\* ban_user: one ban more at most, and one kick.
LEMMA BanIs ==
  ASSUME NEW s \in Works, NEW u \in User, NEW c \in Chat, NEW safe
  PROVE  LET t == BanUser(s, u, c, safe)
         IN /\ t \in Works /\ t.lua = s.lua /\ t.past = s.past
            /\ t.message = s.message /\ t.kicked \subseteq s.kicked \cup {u}
            /\ t.deleted = s.deleted /\ t.obeyed = s.obeyed
            /\ t.asked = s.asked /\ t.db.spams = s.db.spams
            /\ t.db.banned \subseteq s.db.banned \cup {<<c, u>>}
            /\ t.db.gbanned = s.db.gbanned /\ t.db.added = s.db.added
<1>1. CASE u \in safe
  BY <1>1 DEF BanUser
<1>2. CASE u \notin safe
  <2>1. PICK d : d = [s.db EXCEPT !.banned = @ \cup {<<c, u>>}]
    OBVIOUS
  <2>2. /\ d \in Db /\ d.spams = s.db.spams /\ d.gbanned = s.db.gbanned
        /\ d.banned = s.db.banned \cup {<<c, u>>} /\ d.added = s.db.added
    BY <2>1, FieldsAre DEF Db
  <2>3. PICK v : v = [s EXCEPT !.db = d]
    OBVIOUS
  <2>4. /\ v \in Works /\ v.db = d /\ v.lua = s.lua /\ v.past = s.past
        /\ v.message = s.message /\ v.kicked = s.kicked
        /\ v.deleted = s.deleted /\ v.obeyed = s.obeyed
        /\ v.asked = s.asked
    BY <2>2, <2>3, DbIs
  <2>5. v = [s EXCEPT !.db.banned = @ \cup {<<c, u>>}]
    BY <2>1, <2>3
  <2>6. PICK t : t = KickUser(v, u, safe)
    OBVIOUS
  <2>7. t \in Works /\ Mild(v, t, {u}) /\ t.message = v.message
        /\ t.deleted = v.deleted
    BY <2>4, <2>6, KickIs
  <2>8. BanUser(s, u, c, safe) = t
    BY <1>2, <2>5, <2>6 DEF BanUser
  <2> QED BY <2>2, <2>4, <2>7, <2>8 DEF Mild, Leaves, Spares
<1> QED BY <1>1, <1>2

\* banall_user: one global ban more at most.
LEMMA BanallIs ==
  ASSUME NEW s \in Works, NEW u \in User, NEW safe
  PROVE  LET t == BanallUser(s, u, safe)
         IN /\ t \in Works /\ t.lua = s.lua /\ t.past = s.past
            /\ t.message = s.message /\ t.kicked = s.kicked
            /\ t.deleted = s.deleted /\ t.obeyed = s.obeyed
            /\ t.asked = s.asked /\ t.db.spams = s.db.spams
            /\ t.db.banned = s.db.banned /\ t.db.added = s.db.added
            /\ t.db.gbanned \subseteq s.db.gbanned \cup {u}
<1>1. CASE u \in safe
  BY <1>1 DEF BanallUser
<1>2. CASE u \notin safe
  <2>1. PICK d : d = [s.db EXCEPT !.gbanned = @ \cup {u}]
    OBVIOUS
  <2>2. /\ d \in Db /\ d.spams = s.db.spams /\ d.banned = s.db.banned
        /\ d.gbanned = s.db.gbanned \cup {u} /\ d.added = s.db.added
    BY <2>1, FieldsAre DEF Db
  <2>3. BanallUser(s, u, safe) = [s EXCEPT !.db = d]
    BY <1>2, <2>1 DEF BanallUser
  <2> QED BY <2>2, <2>3, DbIs
<1> QED BY <1>1, <1>2

\* Bans that are earned one by one.
LEMMA EarnedSound ==
  ASSUME NEW s, NEW t \in Works, Sound(s), t.lua = s.lua, t.past = s.past,
         t.asked = s.asked, t.db.spams = s.db.spams, t.db.added = s.db.added,
         \A k \in t.db.banned : \/ k \in s.db.banned \/ k \in s.past.ordered
                                \/ s.past.adds[k] >= BanAfter,
         \A u \in t.db.gbanned : \/ u \in s.db.gbanned
                                 \/ u \in s.past.condemned
  PROVE  Sound(t)
<1>1. Earned(t.db, t.lua, t.past)
  BY DEF Sound, Earned
<1> QED BY <1>1 DEF Sound

\* A kick changes no record.
LEMMA KickSound ==
  ASSUME NEW s, NEW u \in User, NEW safe, Sound(s)
  PROVE  LET t == KickUser(s, u, safe)
         IN /\ Sound(t) /\ t.obeyed = s.obeyed /\ t.message = s.message
            /\ t.deleted = s.deleted /\ t.db = s.db /\ t.past = s.past
            /\ t.asked = s.asked /\ t.lua = s.lua
            /\ t.kicked \subseteq s.kicked \cup {u}
<1>1. s \in Works
  BY DEF Sound
<1>2. PICK t : t = KickUser(s, u, safe)
  OBVIOUS
<1>3. t \in Works /\ Mild(s, t, {u}) /\ t.message = s.message
      /\ t.deleted = s.deleted
  BY <1>1, <1>2, KickIs
<1>4. Sound(t)
  BY <1>3, LeavesSound DEF Mild
<1> QED BY <1>2, <1>3, <1>4 DEF Mild, Leaves, Spares

\* Over a service message anybody may be kicked.
Calm(s, t) == t.obeyed = s.obeyed /\ t.message = s.message
              /\ t.deleted = s.deleted

\* Two calm steps make one.
LEMMA CalmThenCalm ==
  ASSUME NEW s, NEW t, NEW v, Calm(s, t), Calm(t, v)
  PROVE  Calm(s, v)
BY DEF Calm

\* A calm step over a service message is one that a plugin may take.
LEMMA ServiceLooked ==
  ASSUME NEW s, NEW t, NEW m, m.kind \in Service, Sound(t), Calm(s, t)
  PROVE  Looked(s, t, m)
BY DEF Looked, Excused, Allowed, Calm, Unfiltered, Takes

\* One addition more, and the count anew.
OneMore(s, key, n) ==
  [s EXCEPT !.db.added[key] = n, !.past.adds[key] = @ + 1]
Anew(s, key) == [s EXCEPT !.db.added[key] = 0]

\* One count of an addition.
LEMMA AddedIs ==
  ASSUME NEW s, NEW t, NEW key \in Chat \X User, NEW n, Sound(s),
         n = s.db.added[key] + 1,
         t = OneMore(s, key, n)
  PROVE  /\ Sound(t) /\ Calm(s, t)
         /\ t.db.added[key] = n /\ n <= t.past.adds[key]
<1>1. s \in Works
  BY DEF Sound
<1>2. n \in Nat
  BY <1>1, FieldsAre
<1>3. PICK f : f = [s.db.added EXCEPT ![key] = n]
  OBVIOUS
<1>4. f \in [Chat \X User -> Nat] /\ f[key] = n
      /\ \A k \in Chat \X User : k # key => f[k] = s.db.added[k]
  BY <1>1, <1>2, <1>3, FieldsAre
<1>5. PICK d : d = [s.db EXCEPT !.added = f]
  OBVIOUS
<1>6. /\ d \in Db /\ d.spams = s.db.spams /\ d.banned = s.db.banned
      /\ d.gbanned = s.db.gbanned /\ d.added = f
  BY <1>1, <1>4, <1>5, FieldsAre DEF Db
<1>7. PICK g : g = [s.past.adds EXCEPT ![key] = @ + 1]
  OBVIOUS
<1>8. g \in [Chat \X User -> Nat] /\ g[key] = s.past.adds[key] + 1
      /\ \A k \in Chat \X User : k # key => g[k] = s.past.adds[k]
  BY <1>1, <1>7, FieldsAre
<1>9. PICK p : p = [s.past EXCEPT !.adds = g]
  OBVIOUS
<1>10. /\ p \in Past /\ p.ordered = s.past.ordered /\ p.adds = g
       /\ p.condemned = s.past.condemned /\ p.window = s.past.window
       /\ p.strikes = s.past.strikes
  BY <1>1, <1>8, <1>9, FieldsAre DEF Past
<1>11. PICK a : a = [s EXCEPT !.db = d]
  OBVIOUS
<1>12. /\ a \in Works /\ a.db = d /\ a.lua = s.lua /\ a.past = s.past
       /\ a.message = s.message /\ a.kicked = s.kicked
       /\ a.deleted = s.deleted /\ a.obeyed = s.obeyed
       /\ a.asked = s.asked
  BY <1>1, <1>6, <1>11, DbIs
<1>13. PICK b : b = [a EXCEPT !.past = p]
  OBVIOUS
<1>14. /\ b \in Works /\ b.db = d /\ b.lua = s.lua /\ b.past = p
       /\ b.message = s.message /\ b.kicked = s.kicked
       /\ b.deleted = s.deleted /\ b.obeyed = s.obeyed
       /\ b.asked = s.asked
  BY <1>10, <1>12, <1>13, PastIs
<1>15. t = b
  BY <1>1, <1>3, <1>5, <1>7, <1>9, <1>11, <1>13 DEF Works, OneMore
<1>16. /\ \A k \in Chat \X User : s.past.adds[k] \in Nat
       /\ \A k \in Chat \X User : s.db.added[k] \in Nat
       /\ \A k \in Chat \X User : s.db.added[k] <= s.past.adds[k]
       /\ s.db.banned \subseteq Chat \X User
  <2>1. Earned(s.db, s.lua, s.past) /\ s.db \in Db /\ s.past \in Past
    BY <1>1, FieldsAre DEF Sound
  <2> QED BY <2>1 DEF Earned, Db, Past
<1>17. \A k \in Chat \X User : s.past.adds[k] <= g[k] /\ f[k] <= g[k]
  BY <1>4, <1>8, <1>16
<1>18. BanAfter \in Nat
  BY Limits
<1>19. \A k \in d.banned : k \in p.ordered \/ p.adds[k] >= BanAfter
  <2>1. TAKE k \in d.banned
  <2>2. k \in Chat \X User
    BY <1>6, <1>16
  <2>3. k \in p.ordered \/ s.past.adds[k] >= BanAfter
    BY <1>6, <1>10, <2>1 DEF Sound, Earned
  <2>4. s.past.adds[k] \in Nat /\ g[k] \in Nat /\ s.past.adds[k] <= g[k]
    BY <1>8, <1>16, <1>17, <2>2
  <2> QED BY <1>10, <1>18, <2>3, <2>4
<1>20. Earned(d, s.lua, p)
  <2>1. \A k \in Chat \X User : d.added[k] <= p.adds[k]
    BY <1>6, <1>10, <1>17
  <2>2. Earned(s.db, s.lua, s.past)
    BY DEF Sound
  <2> QED BY <1>6, <1>10, <1>19, <2>1, <2>2 DEF Earned
<1>21. Sound(b)
  BY <1>10, <1>14, <1>20 DEF Sound, Warranted
<1>22. n <= g[key]
  BY <1>4, <1>17
<1> QED BY <1>4, <1>6, <1>10, <1>14, <1>15, <1>21, <1>22 DEF Calm

\* The ban for additions comes when they were enough, and begins to count
\* them again.
LEMMA AddedBannedIs ==
  ASSUME NEW s, NEW m \in Messages, Sound(s)
  PROVE  Sound(AddedBanned(s, m)) /\ Calm(s, AddedBanned(s, m))
<1> DEFINE u == m.from
           w == m.whom
           c == m.chat
           key == <<c, u>>
           n == s.db.added[key] + 1
           a == OneMore(s, key, n)
           t == KickUser(a, w, Admin)
           v == IF n >= KickAfter THEN KickUser(t, u, Admin) ELSE t
           b == BanUser(v, u, c, Admin)
           z == Anew(b, key)
<1>1. AddedBanned(s, m) = IF IsOwner(u, c) THEN t
                          ELSE IF n < BanAfter THEN v ELSE z
  BY DEF AddedBanned, OneMore, Anew
<1>2. u \in User /\ w \in User /\ c \in Chat
  BY MessageIs
<1>3. s \in Works
  BY DEF Sound
<1>4. key \in Chat \X User
  BY <1>2
<1>5. n \in Nat
  <2> HIDE DEF key
  <2> QED BY <1>3, <1>4, FieldsAre
<1>6. (n < BanAfter \/ n >= BanAfter) /\ BanAfter \in Nat
  <2> HIDE DEF n
  <2> QED BY <1>5, Limits
<1> HIDE DEF u, w, c
<1>7. Sound(a) /\ Calm(s, a) /\ a.db.added[key] = n /\ n <= a.past.adds[key]
  <2> HIDE DEF key
  <2> QED BY <1>4, AddedIs
<1> HIDE DEF key, a
<1>9. Sound(t) /\ Calm(a, t) /\ t.db = a.db /\ t.past = a.past
  BY <1>2, <1>7, KickSound DEF Calm
<1> HIDE DEF t
<1>11. Sound(v) /\ Calm(t, v) /\ v.db = t.db /\ v.past = t.past
  BY <1>2, <1>9, KickSound DEF Calm
<1> HIDE DEF n, v, b, z
<1>14. \/ AddedBanned(s, m) = t \/ AddedBanned(s, m) = v
       \/ AddedBanned(s, m) = z /\ n >= BanAfter
  BY <1>1, <1>6
<1>15. ASSUME n >= BanAfter PROVE Sound(z) /\ Calm(v, z)
  <2>1. v \in Works
    BY <1>11 DEF Sound
  <2>2. /\ b \in Works /\ b.lua = v.lua /\ b.past = v.past
        /\ b.message = v.message /\ b.deleted = v.deleted
        /\ b.obeyed = v.obeyed
        /\ b.asked = v.asked /\ b.db.spams = v.db.spams
        /\ b.db.banned \subseteq v.db.banned \cup {<<c, u>>}
        /\ b.db.gbanned = v.db.gbanned /\ b.db.added = v.db.added
    BY <1>2, <2>1, BanIs DEF b
  <2>3. v.past.adds[key] >= BanAfter
    <3>1. n <= v.past.adds[key]
      BY <1>7, <1>9, <1>11
    <3>2. v.past.adds[key] \in Nat
      BY <1>4, <2>1, FieldsAre
    <3> QED BY <1>5, <1>6, <1>15, <3>1, <3>2
  <2>4. Sound(b)
    BY <1>11, <2>2, <2>3, EarnedSound DEF key
  <2>5. PICK f : f = [b.db.added EXCEPT ![key] = 0]
    OBVIOUS
  <2>6. f \in [Chat \X User -> Nat] /\ f[key] = 0
        /\ \A k \in Chat \X User : k # key => f[k] = b.db.added[k]
    BY <1>4, <2>2, <2>5, FieldsAre
  <2>7. PICK d : d = [b.db EXCEPT !.added = f]
    OBVIOUS
  <2>8. /\ d \in Db /\ d.spams = b.db.spams /\ d.banned = b.db.banned
        /\ d.gbanned = b.db.gbanned /\ d.added = f
    BY <2>2, <2>6, <2>7, FieldsAre DEF Db
  <2>9. z = [b EXCEPT !.db = d]
    BY <2>5, <2>7 DEF z, Anew
  <2>10. /\ z \in Works /\ z.db = d /\ z.lua = b.lua /\ z.past = b.past
         /\ z.message = b.message /\ z.deleted = b.deleted
         /\ z.obeyed = b.obeyed /\ z.asked = b.asked
    BY <2>2, <2>8, <2>9, DbIs
  <2>11. \A k \in Chat \X User : f[k] <= b.past.adds[k]
    <3>1. \A k \in Chat \X User : b.past.adds[k] \in Nat
      BY <2>2, FieldsAre
    <3>2. \A k \in Chat \X User : b.db.added[k] <= b.past.adds[k]
      BY <2>4 DEF Sound, Earned
    <3> QED BY <2>6, <3>1, <3>2
  <2>12. Earned(d, b.lua, b.past)
    BY <2>4, <2>8, <2>11 DEF Sound, Earned
  <2>13. Sound(z)
    BY <2>4, <2>10, <2>12 DEF Sound
  <2> QED BY <2>2, <2>10, <2>13 DEF Calm
<1>16. Calm(s, t) /\ Calm(s, v)
  BY <1>7, <1>9, <1>11, CalmThenCalm
<1> QED BY <1>9, <1>11, <1>14, <1>15, <1>16, CalmThenCalm

\* The settings have three values.
LEMMA SettingIs ==
  ASSUME NEW c \in Chat, NEW lock \in Lock, setting \in Settings
  PROVE  setting[c][lock] \in Mark
BY Given

\* Only the global of the lock changes.
LEMMA BotsProtectionIs ==
  ASSUME NEW s, NEW m \in Messages, Sound(s), setting \in Settings
  PROVE  Sound(BotsProtection(s, m)) /\ Calm(s, BotsProtection(s, m))
<1>1. PICK mark \in Mark : mark = setting[m.chat]["lock_bots"]
  BY MessageIs, SettingIs DEF Lock
<1>2. PICK l : l = [s.lua EXCEPT !.bots = mark]
  OBVIOUS
<1>3. s \in Works
  BY DEF Sound
<1>4. l \in Globals /\ l.kicktable = s.lua.kicktable
  BY <1>2, <1>3, FieldsAre DEF Globals
<1>5. PICK t : t = [s EXCEPT !.lua = l]
  OBVIOUS
<1>6. /\ t \in Works /\ t.db = s.db /\ t.lua = l /\ t.past = s.past
      /\ t.message = s.message /\ t.deleted = s.deleted
      /\ t.obeyed = s.obeyed /\ t.asked = s.asked
  BY <1>3, <1>4, <1>5, LuaIs
<1>7. Sound(t)
  BY <1>4, <1>6 DEF Sound, Earned
<1>8. BotsProtection(s, m) = s \/ BotsProtection(s, m) = t
  BY <1>1, <1>2, <1>5 DEF BotsProtection
<1> QED BY <1>6, <1>7, <1>8 DEF Calm

\* An addition changes the counts, the bans they earn and a global.
LEMMA AddedSomebodyIs ==
  ASSUME NEW s, NEW m \in Messages, Sound(s), setting \in Settings
  PROVE  Sound(AddedSomebody(s, m)) /\ Calm(s, AddedSomebody(s, m))
<1>1. PICK t : t = IF \/ /\ <<m.chat, m.whom>> \in s.db.banned
                         /\ ~IsMomod(m.from, m.chat)
                      \/ m.whom \in s.db.gbanned /\ m.from \notin Admin
                   THEN AddedBanned(s, m) ELSE s
  OBVIOUS
<1>2. Sound(t) /\ Calm(s, t)
  BY <1>1, AddedBannedIs DEF Calm
<1>3. PICK v : v = BotsProtection(t, m)
  OBVIOUS
<1>4. Sound(v) /\ Calm(s, v)
  BY <1>2, <1>3, BotsProtectionIs, CalmThenCalm
<1>5. PICK w : w = KickUser(v, m.whom, Admin)
  OBVIOUS
<1>6. Sound(w) /\ Calm(s, w)
  <2>1. Sound(w) /\ Calm(v, w)
    BY <1>4, <1>5, MessageIs, KickSound DEF Calm
  <2> QED BY <1>4, <2>1, CalmThenCalm
<1>7. AddedSomebody(s, m) = v \/ AddedSomebody(s, m) = w
  BY <1>1, <1>3, <1>5 DEF AddedSomebody
<1> QED BY <1>4, <1>6, <1>7

\* banhammer takes the text of a banned user.
LEMMA BanhammerIs ==
  ASSUME NEW s, NEW m \in Messages, Sound(s), setting \in Settings
  PROVE  /\ Looked(s, Banhammer(s, m), m)
         /\ m.kind \notin Service /\ m.chat # Pm
              /\ IsBanned(s.db, m.from, m.chat)
            => Banhammer(s, m).message = "empty"
<1>1. CASE m.kind = "join"
  <2>1. Banhammer(s, m) = s \/ Banhammer(s, m) = KickUser(s, m.from, Admin)
    BY <1>1 DEF Banhammer
  <2>2. Sound(Banhammer(s, m)) /\ Calm(s, Banhammer(s, m))
    BY <2>1, KickSound, MessageIs DEF Calm
  <2> QED BY <1>1, <2>2, ServiceLooked DEF Service
<1>2. CASE m.kind = "add"
  <2>1. Banhammer(s, m) = AddedSomebody(s, m)
    BY <1>2 DEF Banhammer
  <2> QED BY <1>2, <2>1, AddedSomebodyIs, ServiceLooked DEF Service
<1>3. CASE m.kind \notin Service
  <2>1. Banhammer(s, m) = BannedTalking(s, m)
    BY <1>3 DEF Banhammer, Service
  <2>2. CASE m.chat # Pm /\ IsBanned(s.db, m.from, m.chat)
    <3>1. s \in Works
      BY DEF Sound
    <3>2. PICK e : e = [s EXCEPT !.message = "empty"]
      OBVIOUS
    <3>3. e \in Works /\ Mild(s, e, {}) /\ e.message = "empty"
      BY <3>1, <3>2 DEF Works, Mild, Leaves, Spares, Unfiltered, Takes
    <3>4. PICK t : t = KickUser(e, m.from, Admin)
      OBVIOUS
    <3>5. t \in Works /\ Mild(e, t, {m.from}) /\ t.message = "empty"
      BY <3>3, <3>4, MessageIs, KickIs
    <3>6. Mild(s, t, {} \cup {m.from})
      BY <3>3, <3>5, MildThenMild
    <3>7. Banhammer(s, m) = t
      BY <2>1, <2>2, <3>2, <3>4 DEF BannedTalking
    <3>8. \A u \in {} \cup {m.from} : Excused(s, u, m)
      BY <2>2 DEF Excused, Allowed, Group
    <3>9. Looked(s, t, m)
      BY <3>5, <3>6, <3>8, MildLooked
    <3> QED BY <3>5, <3>7, <3>9
  <2>3. CASE ~(m.chat # Pm /\ IsBanned(s.db, m.from, m.chat))
    <3>1. Banhammer(s, m) = s
      BY <2>1, <2>3 DEF BannedTalking
    <3>2. Mild(s, s, {}) /\ s \in Works
      BY MildSelf DEF Sound
    <3>3. Looked(s, s, m)
      BY <3>2, MildLooked
    <3> QED BY <2>3, <3>1, <3>3
  <2> QED BY <2>2, <2>3
<1> QED BY <1>1, <1>2, <1>3 DEF Service

\* Each plugin that looks at a message.
LEMMA PreProcessIs ==
  ASSUME NEW s, NEW m \in Messages, NEW plugin, Sound(s),
         setting \in Settings
  PROVE  /\ Looked(s, PreProcess(s, m, plugin), m)
         /\ plugin = "banhammer" /\ Goes(s) /\ m.kind \notin Service
              /\ m.chat # Pm /\ IsBanned(s.db, m.from, m.chat)
            => PreProcess(s, m, plugin).message = "empty"
<1>1. s \in Works /\ Mild(s, s, {})
  BY MildSelf DEF Sound
<1>2. Looked(s, s, m)
  BY <1>1, MildLooked
<1>3. CASE ~Goes(s)
  BY <1>2, <1>3 DEF PreProcess
<1>4. CASE Goes(s) /\ plugin = "anti_spam"
  <2>1. PreProcess(s, m, plugin) = AntiSpam(s, m)
    BY <1>4 DEF PreProcess
  <2> QED BY <1>4, <2>1, AntiSpamIs
<1>5. CASE Goes(s) /\ plugin = "banhammer"
  <2>1. PreProcess(s, m, plugin) = Banhammer(s, m)
    BY <1>5 DEF PreProcess
  <2> QED BY <2>1, BanhammerIs
<1>6. CASE Goes(s) /\ plugin = "msg_checks"
  <2>1. PICK t : t = MsgChecks(s, m)
    OBVIOUS
  <2>2. PreProcess(s, m, plugin) = t
    BY <1>6, <2>1 DEF PreProcess
  <2>3. t \in Works
    BY <1>1, <2>1, MsgChecksIs
  <2>4. CASE Mild(s, t, Blamed(m)) /\ ~IsMomod(m.from, m.chat)
    <3>1. \A u \in Blamed(m) : Excused(s, u, m)
      BY <2>4, RankIs DEF Blamed, Excused, Allowed, Group
    <3>2. Looked(s, t, m)
      BY <2>3, <2>4, <3>1, MildLooked
    <3> QED BY <1>6, <2>2, <3>2
  <2>5. CASE Mild(s, t, {})
    <3>1. Looked(s, t, m)
      BY <2>3, <2>5, MildLooked
    <3> QED BY <1>6, <2>2, <3>1
  <2> QED BY <1>1, <2>1, <2>4, <2>5, MsgChecksIs
<1>7. CASE Goes(s) /\ plugin = "fwd"
  <2>1. PICK d : d = Delete(s, "fwd")
    OBVIOUS
  <2>2. d \in Works /\ Mild(s, d, {})
    BY <1>1, <2>1, DeleteIs DEF Reason
  <2>3. Fails(d) \in Works /\ Mild(d, Fails(d), {})
    BY <2>2, DropIs
  <2>4. Mild(s, Fails(d), {} \cup {})
    BY <2>2, <2>3, MildThenMild
  <2>5. Looked(s, Fails(d), m)
    BY <2>3, <2>4, MildLooked
  <2>6. PreProcess(s, m, plugin) \in {s, Fails(d)}
    BY <1>7, <2>1 DEF PreProcess, ForwardLock
  <2> QED BY <1>2, <1>7, <2>5, <2>6
<1>8. CASE Goes(s) /\ plugin = "run"
  <2>1. Fails(s) \in Works /\ Mild(s, Fails(s), {})
    BY <1>1, DropIs
  <2>2. Looked(s, Fails(s), m)
    BY <2>1, MildLooked
  <2>3. PreProcess(s, m, plugin) \in {s, Fails(s)}
    BY <1>8 DEF PreProcess, RunPre
  <2> QED BY <1>2, <1>8, <2>2, <2>3
<1>9. CASE Goes(s) /\ plugin \notin {"anti_spam", "banhammer", "msg_checks",
                                     "fwd", "run"}
  BY <1>2, <1>9 DEF PreProcess
<1> QED BY <1>3, <1>4, <1>5, <1>6, <1>7, <1>8, <1>9

\* What a plugin does whose pattern matches.
Ran(s, t, m) ==
  /\ Sound(t) /\ Takes(s, t)
  /\ \A u \in t.kicked \ s.kicked :
       IsMomodText(u, Group(m)) =>
         \/ m.from \in Admin \/ m.kind \in Service
         \/ m.kind = "owners" /\ IsOwner(m.from, Group(m))
  /\ "filter" \in t.deleted \ s.deleted =>
       setting[Group(m)]["filter"] # "no"
  /\ t.obeyed => \/ s.obeyed
                 \/ /\ m.kind = "command" /\ m.chat # Pm
                    /\ s.message = "whole"
                 \/ m.kind = "owners" /\ IsOwner(m.from, Group(m))

\* What is noted makes the bans it asks for earned.
LEMMA NotedIs ==
  ASSUME NEW s, NEW m \in Messages, Sound(s)
  PROVE  LET t == Noted(s, m)
         IN /\ Sound(t) /\ t.message = s.message /\ t.kicked = s.kicked
            /\ t.deleted = s.deleted /\ t.db = s.db
            /\ m.trait = "ban" => <<Group(m), m.whom>> \in t.past.ordered
            /\ m.trait = "banall" => m.whom \in t.past.condemned
<1>1. s \in Works
  BY DEF Sound
<1>2. PICK o : o = IF m.trait = "ban"
                   THEN s.past.ordered \cup {<<Group(m), m.whom>>}
                   ELSE s.past.ordered
  OBVIOUS
<1>3. PICK d : d = IF m.trait = "banall" THEN s.past.condemned \cup {m.whom}
                   ELSE s.past.condemned
  OBVIOUS
<1>4. PICK p : p = [s.past EXCEPT !.ordered = o, !.condemned = d]
  OBVIOUS
<1>5. /\ s.past.ordered \subseteq Chat \X User
      /\ s.past.condemned \subseteq User
  BY <1>1, FieldsAre DEF Past
<1>6. o \subseteq Chat \X User /\ d \subseteq User
  BY <1>2, <1>3, <1>5, MessageIs
<1>7. /\ p \in Past /\ p.ordered = o /\ p.condemned = d
      /\ p.adds = s.past.adds /\ p.strikes = s.past.strikes
      /\ p.window = s.past.window
  BY <1>1, <1>4, <1>6, FieldsAre DEF Past
<1>8. PICK t : t = [s EXCEPT !.past = p, !.obeyed = TRUE]
  OBVIOUS
<1>9. /\ t \in Works /\ t.message = s.message /\ t.kicked = s.kicked
      /\ t.deleted = s.deleted /\ t.db = s.db /\ t.lua = s.lua
      /\ t.asked = s.asked /\ t.past = p
  BY <1>1, <1>7, <1>8 DEF Works
<1>10. Noted(s, m) = t
  BY <1>1, <1>2, <1>3, <1>4, <1>8, <1>9 DEF Noted, Works, Past
<1>11. s.past.ordered \subseteq o /\ s.past.condemned \subseteq d
  BY <1>2, <1>3
<1>12. Earned(t.db, t.lua, t.past)
  BY <1>7, <1>9, <1>11 DEF Sound, Earned
<1>13. Warranted(t.asked, t.past)
  BY <1>7, <1>9, <1>11 DEF Sound, Warranted
<1>14. Sound(t)
  BY <1>7, <1>9, <1>11, <1>12, <1>13 DEF Sound
<1> QED BY <1>2, <1>3, <1>7, <1>9, <1>10, <1>14

\* How an order is carried out.
Carried(s, t, m) ==
  /\ Sound(t) /\ Takes(s, t) /\ t.deleted = s.deleted
  /\ \A u \in t.kicked \ s.kicked :
       IsMomodText(u, m.chat) => m.from \in Admin

\* An order that is refused, or on which the plugin fails.
LEMMA CarriedNothing ==
  ASSUME NEW s, NEW m, Sound(s)
  PROVE  Carried(s, s, m) /\ Carried(s, Fails(s), m)
<1>1. s \in Works
  BY DEF Sound
<1>2. PICK f : f = Fails(s)
  OBVIOUS
<1>3. f \in Works /\ Mild(s, f, {}) /\ f.deleted = s.deleted
  BY <1>1, <1>2, DropIs DEF Fails, Works
<1>4. Sound(f)
  BY <1>3, LeavesSound DEF Mild
<1>5. Carried(s, f, m)
  BY <1>3, <1>4 DEF Carried, Mild, Spares
<1> QED BY <1>2, <1>5 DEF Carried, Takes

\* A ban by number is noted, and spares those with a rank unless an admin
\* gives it.
LEMMA ByNumberIs ==
  ASSUME NEW s, NEW m \in Messages, Sound(s), m.kind = "command",
         m.trait = "ban" => <<m.chat, m.whom>> \in s.past.ordered,
         m.trait = "banall" => m.whom \in s.past.condemned
  PROVE  Carried(s, ByNumber(s, m), m)
<1> DEFINE safe == Admin \ Sudo
           refused == \/ m.from \notin Admin /\ IsMomodText(m.whom, m.chat)
                      \/ m.whom = m.from
<1>1. s \in Works
  BY DEF Sound
<1>2. PICK w \in User : w = m.whom
  BY MessageIs
<1>3. PICK c \in Chat : c = m.chat
  BY MessageIs
<1>4. m.trait \in Order
  BY MessageIs
<1>5. CASE m.trait = "ban" /\ ~refused
  <2> DEFINE t == BanUser(s, w, c, safe)
  <2>1. ByNumber(s, m) = t
    BY <1>2, <1>3, <1>5 DEF ByNumber
  <2>2. /\ t \in Works /\ t.lua = s.lua /\ t.past = s.past
        /\ t.message = s.message /\ t.kicked \subseteq s.kicked \cup {w}
        /\ t.deleted = s.deleted
        /\ t.asked = s.asked /\ t.db.spams = s.db.spams
        /\ t.db.banned \subseteq s.db.banned \cup {<<c, w>>}
        /\ t.db.gbanned = s.db.gbanned /\ t.db.added = s.db.added
    <3> HIDE DEF safe
    <3> QED BY <1>1, BanIs
  <2> HIDE DEF t
  <2>3. <<c, w>> \in s.past.ordered
    BY <1>2, <1>3, <1>5
  <2>4. Sound(t)
    BY <2>2, <2>3, EarnedSound
  <2>5. IsMomodText(w, c) => m.from \in Admin
    BY <1>2, <1>3, <1>5
  <2> QED BY <1>2, <1>3, <2>1, <2>2, <2>4, <2>5 DEF Carried, Takes
<1>6. CASE m.trait = "kick" /\ ~refused
  <2> DEFINE t == KickUser(s, w, safe)
  <2>1. ByNumber(s, m) = t
    BY <1>2, <1>3, <1>6 DEF ByNumber
  <2>2. /\ Sound(t) /\ t.message = s.message /\ t.deleted = s.deleted
        /\ t.kicked \subseteq s.kicked \cup {w}
    <3> HIDE DEF safe
    <3> QED BY KickSound
  <2> HIDE DEF t
  <2>3. IsMomodText(w, c) => m.from \in Admin
    BY <1>2, <1>3, <1>6
  <2> QED BY <1>2, <1>3, <2>1, <2>2, <2>3 DEF Carried, Takes
<1>7. CASE m.trait = "unban"
  <2>1. PICK d : d = [s.db EXCEPT !.banned = @ \ {<<c, w>>}]
    OBVIOUS
  <2>2. /\ d \in Db /\ d.spams = s.db.spams /\ d.gbanned = s.db.gbanned
        /\ d.banned \subseteq s.db.banned /\ d.added = s.db.added
    BY <1>1, <2>1, FieldsAre DEF Db
  <2>3. PICK t : t = [s EXCEPT !.db = d]
    OBVIOUS
  <2>4. /\ t \in Works /\ t.db = d /\ t.lua = s.lua /\ t.past = s.past
        /\ t.message = s.message /\ t.kicked = s.kicked
        /\ t.deleted = s.deleted /\ t.asked = s.asked
    BY <1>1, <2>2, <2>3, DbIs
  <2>5. ByNumber(s, m) = t
    BY <1>2, <1>3, <1>7, <2>1, <2>3 DEF ByNumber
  <2>6. Sound(t)
    BY <2>2, <2>4, EarnedSound
  <2> QED BY <2>4, <2>5, <2>6 DEF Carried, Takes
<1>8. CASE m.trait = "banall"
  <2> DEFINE t == BanallUser(s, w, safe)
  <2>1. ByNumber(s, m) = t
    BY <1>2, <1>3, <1>8 DEF ByNumber
  <2>2. /\ t \in Works /\ t.lua = s.lua /\ t.past = s.past
        /\ t.message = s.message /\ t.kicked = s.kicked
        /\ t.deleted = s.deleted
        /\ t.asked = s.asked /\ t.db.spams = s.db.spams
        /\ t.db.banned = s.db.banned /\ t.db.added = s.db.added
        /\ t.db.gbanned \subseteq s.db.gbanned \cup {w}
    <3> HIDE DEF safe
    <3> QED BY <1>1, BanallIs
  <2> HIDE DEF t
  <2>3. w \in s.past.condemned
    BY <1>2, <1>8
  <2>4. Sound(t)
    BY <2>2, <2>3, EarnedSound
  <2> QED BY <2>1, <2>2, <2>4 DEF Carried, Takes
<1>9. CASE m.trait = "unbanall"
  <2>1. PICK d : d = [s.db EXCEPT !.gbanned = @ \ {w}]
    OBVIOUS
  <2>2. /\ d \in Db /\ d.spams = s.db.spams /\ d.banned = s.db.banned
        /\ d.gbanned \subseteq s.db.gbanned /\ d.added = s.db.added
    BY <1>1, <2>1, FieldsAre DEF Db
  <2>3. PICK t : t = [s EXCEPT !.db = d]
    OBVIOUS
  <2>4. /\ t \in Works /\ t.db = d /\ t.lua = s.lua /\ t.past = s.past
        /\ t.message = s.message /\ t.kicked = s.kicked
        /\ t.deleted = s.deleted /\ t.asked = s.asked
    BY <1>1, <2>2, <2>3, DbIs
  <2>5. ByNumber(s, m) = t
    BY <1>2, <1>3, <1>9, <2>1, <2>3 DEF ByNumber
  <2>6. Sound(t)
    BY <2>2, <2>4, EarnedSound
  <2> QED BY <2>4, <2>5, <2>6 DEF Carried, Takes
<1>10. CASE m.trait \in {"ban", "kick"} /\ refused
  <2>1. ByNumber(s, m) = s
    BY <1>10 DEF ByNumber
  <2> QED BY <2>1, CarriedNothing
<1> QED BY <1>4, <1>5, <1>6, <1>7, <1>8, <1>9, <1>10 DEF Order

\* What is asked for was ordered by who might order it.
LEMMA AskIs ==
  ASSUME NEW s, NEW m \in Messages, NEW cmd \in Order \cup {"banReply"},
         Sound(s),
         cmd \in {"ban", "banReply"} => <<m.chat, m.whom>> \in s.past.ordered,
         cmd = "banall" => m.whom \in s.past.condemned,
         cmd = "banReply" => m.from \in Admin
  PROVE  Carried(s, Ask(s, m, cmd), m)
<1>1. s \in Works
  BY DEF Sound
<1>2. PICK l : l = [cmd |-> cmd, from |-> m.from, chat |-> m.chat,
                    whom |-> m.whom]
  OBVIOUS
<1>3. /\ l \in Lookup /\ l.cmd = cmd /\ l.from = m.from /\ l.chat = m.chat
      /\ l.whom = m.whom
  BY <1>2, MessageIs DEF Lookup
<1>4. PICK t : t = [s EXCEPT !.asked = {l}]
  OBVIOUS
<1>5. /\ t \in Works /\ t.db = s.db /\ t.lua = s.lua /\ t.past = s.past
      /\ t.message = s.message /\ t.kicked = s.kicked
      /\ t.deleted = s.deleted /\ t.asked = {l}
  BY <1>1, <1>3, <1>4 DEF Works
<1>6. Ask(s, m, cmd) = t
  BY <1>2, <1>4 DEF Ask
<1>7. Warranted({l}, s.past)
  BY <1>3 DEF Warranted
<1>8. Sound(t)
  BY <1>5, <1>7 DEF Sound
<1> QED BY <1>5, <1>6, <1>8 DEF Carried, Takes

\* An order, by number, name or reply.
LEMMA ObeyIs ==
  ASSUME NEW s, NEW m \in Messages, Sound(s), s.message = "whole"
  PROVE  Ran(s, Obey(s, m), m)
<1>1. CASE m.kind # "command" \/ m.chat = Pm \/ ~MayOrder(m)
  <2>1. Obey(s, m) = s
    BY <1>1 DEF Obey
  <2> QED BY <2>1 DEF Ran, Takes
<1>2. CASE m.kind = "command" /\ m.chat # Pm /\ MayOrder(m)
  <2>1. PICK t : t = Noted(s, m)
    OBVIOUS
  <2>2. /\ Sound(t) /\ t.message = s.message /\ t.kicked = s.kicked
        /\ t.deleted = s.deleted
        /\ m.trait = "ban" => <<m.chat, m.whom>> \in t.past.ordered
        /\ m.trait = "banall" => m.whom \in t.past.condemned
    BY <1>2, <2>1, NotedIs DEF Group
  <2>3. PICK v : v = Obey(s, m)
    OBVIOUS
  <2>4. m.trait \in Order /\ m.by \in {"number", "name", "reply"}
    BY <1>2, MessageIs
  <2>0. Group(m) = m.chat
    BY <1>2 DEF Group
  <2>5. CASE m.by = "number"
    <3>1. v = ByNumber(t, m)
      BY <1>2, <2>1, <2>3, <2>5 DEF Obey
    <3>2. Carried(t, v, m)
      BY <1>2, <2>2, <3>1, ByNumberIs
    <3> QED BY <1>2, <2>0, <2>2, <2>3, <3>2 DEF Carried, Ran, Takes
  <2>6. CASE m.by = "name"
    <3>1. v = Ask(t, m, m.trait)
      BY <1>2, <2>1, <2>3, <2>6 DEF Obey
    <3>2. m.trait # "banReply"
      BY <2>4 DEF Order
    <3>3. Carried(t, v, m)
      BY <2>2, <2>4, <3>1, <3>2, AskIs
    <3> QED BY <1>2, <2>0, <2>2, <2>3, <3>3 DEF Carried, Ran, Takes
  <2>7. CASE m.by = "reply"
    <3>1. v = ByReply(t, m)
      BY <1>2, <2>1, <2>3, <2>7 DEF Obey
    <3>2. CASE m.trait = "ban" /\ m.from \in Admin
      <4>1. v = Ask(t, m, "banReply")
        BY <3>1, <3>2 DEF ByReply
      <4>2. Carried(t, v, m)
        BY <2>2, <3>2, <4>1, AskIs
      <4> QED BY <1>2, <2>0, <2>2, <2>3, <4>2 DEF Carried, Ran, Takes
    <3>3. CASE ~(m.trait = "ban" /\ m.from \in Admin)
      <4>1. v = t \/ v = Fails(t)
        BY <3>1, <3>3 DEF ByReply
      <4>2. Carried(t, v, m)
        BY <2>2, <4>1, CarriedNothing
      <4> QED BY <1>2, <2>0, <2>2, <2>3, <4>2 DEF Carried, Ran, Takes
    <3> QED BY <3>2, <3>3
  <2> QED BY <2>4, <2>5, <2>6, <2>7
<1> QED BY <1>1, <1>2

\* The owner of a group, in the private chat.
LEMMA OwnersOrderIs ==
  ASSUME NEW s, NEW m \in Messages, Sound(s), s.message = "whole"
  PROVE  Ran(s, OwnersOrder(s, m), m)
<1> DEFINE may == /\ m.kind = "owners" /\ IsOwner(m.from, m.group)
                  /\ m.whom # m.from
<1>1. CASE ~may
  <2>1. OwnersOrder(s, m) = s
    BY <1>1 DEF OwnersOrder
  <2> QED BY <2>1 DEF Ran, Takes
<1>2. CASE may
  <2>1. /\ m.kind = "owners" /\ Group(m) = m.group
        /\ IsOwner(m.from, Group(m)) /\ m.trait \in {"kick", "ban", "unban"}
    BY <1>2, MessageIs DEF Group
  <2>2. PICK w \in User : w = m.whom
    BY MessageIs
  <2>3. PICK c \in Chat : c = Group(m)
    BY MessageIs
  <2>4. PICK safe : safe = Admin \ Sudo
    OBVIOUS
  <2>5. PICK t : t = Noted(s, m)
    OBVIOUS
  <2>6. /\ Sound(t) /\ t.message = s.message /\ t.kicked = s.kicked
        /\ t.deleted = s.deleted
        /\ m.trait = "ban" => <<c, w>> \in t.past.ordered
    BY <2>2, <2>3, <2>5, NotedIs
  <2>7. t \in Works
    BY <2>6 DEF Sound
  <2>8. PICK v : v = OwnersOrder(s, m)
    OBVIOUS
  <2>9. Sound(v) /\ v.message = t.message /\ v.deleted = t.deleted
    <3>1. CASE m.trait = "ban"
      <4>1. v = BanUser(t, w, c, safe)
        BY <1>2, <2>1, <2>2, <2>3, <2>4, <2>5, <2>8, <3>1 DEF OwnersOrder
      <4>2. /\ v \in Works /\ v.lua = t.lua /\ v.past = t.past
            /\ v.message = t.message /\ v.deleted = t.deleted
            /\ v.asked = t.asked /\ v.db.spams = t.db.spams
            /\ v.db.banned \subseteq t.db.banned \cup {<<c, w>>}
            /\ v.db.gbanned = t.db.gbanned /\ v.db.added = t.db.added
        BY <2>7, <4>1, BanIs
      <4>3. Sound(v)
        BY <2>6, <3>1, <4>2, EarnedSound
      <4> QED BY <4>2, <4>3
    <3>2. CASE m.trait = "kick"
      <4>1. v = KickUser(t, w, safe)
        BY <1>2, <2>2, <2>4, <2>5, <2>8, <3>2 DEF OwnersOrder
      <4> QED BY <2>6, <4>1, KickSound
    <3>3. CASE m.trait = "unban"
      <4>1. PICK d : d = [t.db EXCEPT !.banned = @ \ {<<c, w>>}]
        OBVIOUS
      <4>2. /\ d \in Db /\ d.spams = t.db.spams /\ d.gbanned = t.db.gbanned
            /\ d.banned \subseteq t.db.banned /\ d.added = t.db.added
        BY <2>7, <4>1, FieldsAre DEF Db
      <4>3. v = [t EXCEPT !.db = d]
        BY <1>2, <2>1, <2>2, <2>3, <2>5, <2>8, <3>3, <4>1 DEF OwnersOrder
      <4>4. /\ v \in Works /\ v.db = d /\ v.lua = t.lua /\ v.past = t.past
            /\ v.message = t.message /\ v.deleted = t.deleted
            /\ v.asked = t.asked
        BY <2>7, <4>2, <4>3, DbIs
      <4>5. Sound(v)
        BY <2>6, <4>2, <4>4, EarnedSound
      <4> QED BY <4>4, <4>5
    <3> QED BY <2>1, <3>1, <3>2, <3>3
  <2> QED BY <2>1, <2>6, <2>8, <2>9 DEF Ran, Takes
<1> QED BY <1>1, <1>2

\* The filter obeys the setting of the chat, where it has one.
LEMMA FilterIs ==
  ASSUME NEW s, NEW m \in Messages, Sound(s), setting \in Settings
  PROVE  Ran(s, Filter(s, m), m)
<1>1. s \in Works
  BY DEF Sound
<1>2. PICK mark : mark = Judged(s, m)
  OBVIOUS
<1>3. mark \in Mark
  <2>1. s.lua.filter \in Mark
    BY <1>1, FieldsAre DEF Globals
  <2>2. setting[m.chat]["filter"] \in Mark
    BY MessageIs, SettingIs DEF Lock
  <2> QED BY <1>2, <2>1, <2>2 DEF Judged
<1>4. PICK l : l = [s.lua EXCEPT !.filter = mark]
  OBVIOUS
<1>5. l \in Globals /\ l.kicktable = s.lua.kicktable /\ l.filter = mark
  BY <1>1, <1>3, <1>4, FieldsAre DEF Globals
<1>6. PICK t : t = [s EXCEPT !.lua = l]
  OBVIOUS
<1>7. /\ t \in Works /\ t.db = s.db /\ t.lua = l /\ t.past = s.past
      /\ t.message = s.message /\ t.kicked = s.kicked
      /\ t.deleted = s.deleted /\ t.obeyed = s.obeyed
      /\ t.asked = s.asked
  BY <1>1, <1>5, <1>6, LuaIs
<1>8. Sound(t)
  BY <1>5, <1>7 DEF Sound, Earned
<1>9. PICK d : d = Delete(t, "filter")
  OBVIOUS
<1>10. /\ d \in Works /\ Leaves(t, d) /\ d.message = t.message
       /\ d.kicked = t.kicked
  BY <1>7, <1>9 DEF Delete, Works, Leaves, Reason
<1>11. Sound(d)
  BY <1>8, <1>10, LeavesSound
<1>12. \/ Filter(s, m) = s \/ Filter(s, m) = t
       \/ Filter(s, m) = d /\ mark = "yes" /\ m.trait = "ad"
  <2>1. t = [s EXCEPT !.lua.filter = Judged(s, m)]
    BY <1>2, <1>4, <1>6
  <2> QED BY <1>5, <1>7, <1>9, <2>1 DEF Filter
<1>13. mark = "yes" => setting[m.chat]["filter"] # "no"
  BY <1>2 DEF Judged
<1>17. m.trait = "ad" => Group(m) = m.chat
  BY MessageIs DEF Group
<1>14. Ran(s, s, m)
  BY DEF Ran, Takes
<1>15. Ran(s, t, m)
  BY <1>7, <1>8 DEF Ran, Takes
<1>16. mark = "yes" /\ m.trait = "ad" => Ran(s, d, m)
  BY <1>7, <1>10, <1>11, <1>13, <1>17 DEF Ran, Takes, Leaves
<1> QED BY <1>12, <1>14, <1>15, <1>16

\* Each plugin that runs.
LEMMA RunPluginIs ==
  ASSUME NEW s, NEW m \in Messages, NEW plugin, Sound(s),
         setting \in Settings
  PROVE  Ran(s, RunPlugin(s, m, plugin), m)
<1>1. Ran(s, s, m)
  BY DEF Ran, Takes
<1>2. CASE s.message # "whole"
  BY <1>1, <1>2 DEF RunPlugin
<1>3. CASE s.message = "whole" /\ plugin = "banhammer"
  BY <1>3, ObeyIs DEF RunPlugin
<1>4. CASE s.message = "whole" /\ plugin = "filter"
  BY <1>4, FilterIs DEF RunPlugin
<1>5. CASE s.message = "whole" /\ plugin = "join"
  <2>1. PICK t : t = KickUser(s, m.from, Admin)
    OBVIOUS
  <2>2. Sound(t) /\ t.obeyed = s.obeyed /\ t.message = s.message
        /\ t.deleted = s.deleted
    BY <2>1, MessageIs, KickSound
  <2>3. m.kind = "join" => Ran(s, t, m)
    BY <2>2 DEF Ran, Takes, Service
  <2>4. RunPlugin(s, m, plugin) = JoinLock(s, m)
    BY <1>5 DEF RunPlugin
  <2> QED BY <1>1, <2>1, <2>3, <2>4 DEF JoinLock
<1>6. CASE s.message = "whole" /\ plugin = "run"
  <2>1. PICK t : t = Fails(s)
    OBVIOUS
  <2>2. t \in Works /\ Mild(s, t, {}) /\ t.deleted = s.deleted
    <3>1. s \in Works
      BY DEF Sound
    <3> QED BY <2>1, <3>1, DropIs DEF Fails, Works
  <2>3. Sound(t)
    BY <2>2, LeavesSound DEF Mild
  <2>4. Ran(s, t, m)
    BY <2>2, <2>3 DEF Ran, Mild, Leaves, Spares
  <2>5. RunPlugin(s, m, plugin) \in {s, t}
    BY <1>6, <2>1 DEF RunPlugin, RunScript
  <2> QED BY <1>1, <2>4, <2>5
<1>7. CASE s.message = "whole"
           /\ plugin \notin {"banhammer", "filter", "join", "run",
                             "owners"}
  BY <1>1, <1>7 DEF RunPlugin
<1>8. CASE s.message = "whole" /\ plugin = "owners"
  BY <1>8, OwnersOrderIs DEF RunPlugin
<1> QED BY <1>2, <1>3, <1>4, <1>5, <1>6, <1>7, <1>8

---------------------------------------------------------------------------
(* The turns one after another                                             *)

\* Banned before the message came, in a chat where that counts.
Barred(m) == IsBanned(db, m.from, m.chat) /\ m.chat # Pm

\* banhammer has looked at the message by turn i.
Seen(i) == \E j \in 1 .. Len(order) : j <= i /\ order[j] = "banhammer"

\* What the work is worth after turn i.
Good(s, m, i) ==
  /\ Sound(s)
  /\ \A u \in s.kicked : IsMomodText(u, Group(m)) => Allowed(db, u, m)
  /\ "filter" \in s.deleted => setting[Group(m)]["filter"] # "no"
  /\ s.obeyed => \/ m.kind = "command" /\ m.chat # Pm /\ ~Barred(m)
                 \/ m.kind = "owners" /\ IsOwner(m.from, Group(m))
  /\ i <= Len(order) =>
       /\ ~s.obeyed
       /\ Goes(s) /\ m.kind \notin Service =>
            s.db.banned = db.banned /\ s.db.gbanned = db.gbanned
  /\ Barred(m) /\ m.kind = "command" /\ Seen(i) => s.message # "whole"

\* One turn more: banhammer has looked at the message of a banned user before
\* the first plugin runs, since no turn of pre_process lifts a ban.
LEMMA GoodTurn ==
  ASSUME NEW s, NEW m \in Messages, NEW i \in 1 .. 2 * Len(order),
         order \in Orders, setting \in Settings, Good(s, m, i - 1)
  PROVE  Good(Turn(s, m, i), m, i)
<1>1. Len(order) \in Nat /\ order \in Seq(Plugin)
  BY OrdersAreWhole
<1>2. PICK t : t = Turn(s, m, i)
  OBVIOUS
<1>3. CASE i <= Len(order)
  <2>1. i \in 1 .. Len(order) /\ i - 1 <= Len(order)
    BY <1>1, <1>3
  <2>2. t = PreProcess(s, m, order[i])
    BY <1>2, <1>3 DEF Turn
  <2>3. Looked(s, t, m)
    BY <2>2, PreProcessIs DEF Good
  <2>4. /\ ~s.obeyed
        /\ Goes(s) /\ m.kind \notin Service =>
             s.db.banned = db.banned /\ s.db.gbanned = db.gbanned
    BY <2>1 DEF Good
  <2>5. \A u \in s.kicked : IsMomodText(u, Group(m)) => Allowed(db, u, m)
    BY DEF Good
  <2>6. t = s \/ Goes(s)
    BY <2>2 DEF PreProcess
  <2>7. \A u \in t.kicked : IsMomodText(u, Group(m)) => Allowed(db, u, m)
    <3>1. TAKE u \in t.kicked
    <3>2. CASE u \in s.kicked
      BY <2>5, <3>2
    <3>3. CASE u \notin s.kicked
      <4>1. Excused(s, u, m) /\ Goes(s)
        BY <2>3, <2>6, <3>3 DEF Looked
      <4> QED BY <2>4, <4>1 DEF Excused, Allowed, IsBanned
    <3> QED BY <3>2, <3>3
  <2>8. "filter" \in t.deleted => setting[Group(m)]["filter"] # "no"
    BY <2>3 DEF Looked, Unfiltered, Good
  <2>9. ~t.obeyed
    BY <2>3, <2>4 DEF Looked
  <2>10. Goes(t) /\ m.kind \notin Service =>
           t.db.banned = db.banned /\ t.db.gbanned = db.gbanned
    BY <2>3, <2>4, <2>6 DEF Looked, Steady
  <2>11. Barred(m) /\ m.kind = "command" /\ Seen(i) => t.message # "whole"
    <3>1. HAVE Barred(m) /\ m.kind = "command" /\ Seen(i)
    <3>2. CASE Seen(i - 1)
      <4>1. s.message # "whole"
        BY <3>1, <3>2 DEF Good
      <4> QED BY <2>3, <4>1 DEF Looked, Takes
    <3>3. CASE ~Seen(i - 1)
      <4>1. order[i] = "banhammer"
        <5>1. PICK j \in 1 .. Len(order) : j <= i /\ order[j] = "banhammer"
          BY <3>1 DEF Seen
        <5>2. ~(j <= i - 1)
          BY <3>3, <5>1 DEF Seen
        <5>3. j = i
          BY <2>1, <5>1, <5>2
        <5> QED BY <5>1, <5>3
      <4>2. CASE ~Goes(s)
        BY <2>3, <4>2 DEF Looked, Takes, Goes
      <4>3. CASE Goes(s)
        <5>1. m.kind \notin Service
          BY <3>1 DEF Service
        <5>2. IsBanned(s.db, m.from, m.chat) /\ m.chat # Pm
          BY <2>4, <3>1, <4>3, <5>1 DEF Barred, IsBanned
        <5>3. t.message = "empty"
          BY <2>2, <4>1, <4>3, <5>1, <5>2, PreProcessIs DEF Good
        <5> QED BY <5>3
      <4> QED BY <4>2, <4>3
    <3> QED BY <3>2, <3>3
  <2>12. Sound(t)
    BY <2>3 DEF Looked
  <2> QED BY <1>2, <2>7, <2>8, <2>9, <2>10, <2>11, <2>12 DEF Good
<1>4. CASE ~(i <= Len(order))
  <2>1. PICK plugin : plugin = order[i - Len(order)]
    OBVIOUS
  <2>2. t = RunPlugin(s, m, plugin)
    BY <1>2, <1>4, <2>1 DEF Turn
  <2>3. Ran(s, t, m)
    BY <2>2, RunPluginIs DEF Good
  <2>4. Seen(i - 1)
    <3>1. "banhammer" \in ToSet(order)
      BY OrdersAreWhole DEF Plugin
    <3>2. PICK j \in 1 .. Len(order) : order[j] = "banhammer"
      BY <1>1, <3>1 DEF ToSet
    <3>3. j <= i - 1
      BY <1>1, <1>4, <3>2
    <3> QED BY <3>2, <3>3 DEF Seen
  <2>5. Barred(m) /\ m.kind = "command" => s.message # "whole"
    BY <2>4 DEF Good
  <2>6. t.obeyed => \/ m.kind = "command" /\ m.chat # Pm /\ ~Barred(m)
                    \/ m.kind = "owners" /\ IsOwner(m.from, Group(m))
    BY <2>3, <2>5 DEF Ran, Good
  <2>7. Barred(m) /\ m.kind = "command" => t.message # "whole"
    BY <2>3, <2>5 DEF Ran, Takes
  <2>8. \A u \in t.kicked : IsMomodText(u, Group(m)) => Allowed(db, u, m)
    BY <2>3 DEF Ran, Good, Allowed
  <2>9. "filter" \in t.deleted => setting[Group(m)]["filter"] # "no"
    BY <2>3 DEF Ran, Good
  <2>10. Sound(t)
    BY <2>3 DEF Ran
  <2> QED BY <1>2, <1>4, <2>6, <2>7, <2>8, <2>9, <2>10 DEF Good
<1> QED BY <1>3, <1>4

\* A set of numbers that is not empty has a least one.
LEMMA LeastNumber ==
  ASSUME NEW T \in SUBSET Nat, T # {}
  PROVE  \E x \in T : \A y \in T : x <= y
<1>1. PICK x \in T : \A y \in T : ~(<<y, x>> \in OpToRel(<, Nat))
  BY NatLessThanWellFounded, WFMin
<1>2. ASSUME NEW y \in T PROVE ~(y < x)
  <2>1. y \in Nat /\ x \in Nat
    OBVIOUS
  <2> QED BY <1>1, <2>1 DEF OpToRel
<1> QED BY <1>2


\* The states of the work, up to turn n.
Follows(f, m, n) ==
  f = [i \in 0 .. n |-> IF i = 0 THEN Work ELSE Turn(f[i - 1], m, i)]

\* The turns can be taken one further.
LEMMA WorkGoesOn ==
  ASSUME NEW m, NEW n \in Nat, NEW f, Follows(f, m, n)
  PROVE  \E g : Follows(g, m, n + 1)
<1> DEFINE g == [i \in 0 .. n + 1 |->
                   IF i <= n THEN f[i] ELSE Turn(f[n], m, i)]
           h == [i \in 0 .. n + 1 |->
                   IF i = 0 THEN Work ELSE Turn(g[i - 1], m, i)]
<1>1. ASSUME NEW i \in 0 .. n + 1
      PROVE  g[i] = IF i = 0 THEN Work ELSE Turn(g[i - 1], m, i)
  <2>1. CASE i = 0
    <3>1. f[0] = Work
      BY DEF Follows
    <3> QED BY <2>1, <3>1
  <2>2. CASE i # 0 /\ i <= n
    <3>1. i \in 0 .. n /\ i - 1 \in 0 .. n + 1 /\ i - 1 <= n
      BY <2>2
    <3>2. f[i] = Turn(f[i - 1], m, i)
      BY <2>2, <3>1 DEF Follows
    <3> QED BY <2>2, <3>1, <3>2
  <2>3. CASE i = n + 1
    <3>1. i - 1 = n /\ n \in 0 .. n + 1 /\ ~(i <= n) /\ i # 0
      BY <2>3
    <3> QED BY <3>1
  <2> QED BY <2>1, <2>2, <2>3
<1>2. g = h
  BY <1>1
<1> QED BY <1>2 DEF Follows

\* Every number of turns can be taken: else there is a least that cannot.
LEMMA WorkFollows ==
  ASSUME NEW m, NEW n \in Nat
  PROVE  \E f : Follows(f, m, n)
<1> DEFINE T == {k \in Nat : ~ \E f : Follows(f, m, k)}
<1>1. ASSUME T # {} PROVE FALSE
  <2>1. PICK k \in T : \A y \in T : k <= y
    <3> HIDE DEF T
    <3>1. T \subseteq Nat
      BY DEF T
    <3> QED BY <1>1, <3>1, LeastNumber
  <2>2. k # 0
    <3> DEFINE f == [i \in 0 .. 0 |-> Work]
    <3>1. f = [i \in 0 .. 0 |-> IF i = 0 THEN Work ELSE Turn(f[i - 1], m, i)]
      OBVIOUS
    <3>2. Follows(f, m, 0)
      BY <3>1 DEF Follows
    <3> QED BY <2>1, <3>2
  <2>3. k - 1 \in Nat /\ k - 1 + 1 = k /\ ~(k <= k - 1)
    BY <2>1, <2>2
  <2>4. PICK f : Follows(f, m, k - 1)
    BY <2>1, <2>3
  <2>5. \E g : Follows(g, m, k - 1 + 1)
    BY <2>3, <2>4, WorkGoesOn
  <2> QED BY <2>1, <2>3, <2>5
<1> QED BY <1>1

\* The work that is done is the last of its states.
LEMMA WorkedIs ==
  ASSUME NEW m, Len(order) \in Nat
  PROVE  \E f : Follows(f, m, 2 * Len(order)) /\ Worked(m) = f[2 * Len(order)]
<1> DEFINE n == 2 * Len(order)
<1>1. \E f : Follows(f, m, n)
  BY WorkFollows
<1>2. PICK f : f = CHOOSE g : Follows(g, m, n)
  OBVIOUS
<1>3. Follows(f, m, n)
  BY <1>1, <1>2
<1>4. Worked(m) = f[n]
  BY <1>2 DEF Worked, Follows
<1> QED BY <1>3, <1>4

---------------------------------------------------------------------------
(* The inductive invariant                                                 *)

GuardInv ==
  /\ GuardTypeOK /\ db \in Db /\ past \in Past
  /\ Earned(db, lua, past) /\ Warranted(lookups, past)

\* At the beginning nothing is done and the records are as they are.
LEMMA WorkIs ==
  ASSUME GuardInv
  PROVE  /\ Work \in Works /\ Sound(Work) /\ Work.kicked = {}
         /\ Work.deleted = {} /\ ~Work.obeyed /\ Work.db = db
         /\ Work.message = "whole" /\ Work.past = past /\ Work.lua = lua
<1>1. lua \in Globals /\ db \in Db /\ past \in Past
  BY DEF GuardInv, GuardTypeOK, Globals
<1>2. Work \in Works
  BY <1>1 DEF Work, Works
<1>3. Sound(Work)
  BY <1>2 DEF Sound, Work, GuardInv, Warranted
<1> QED BY <1>2, <1>3 DEF Work

\* The work is good before the first turn.
LEMMA WorkGood ==
  ASSUME GuardInv, NEW m \in Messages
  PROVE  Good(Work, m, 0)
<1>1. ~Seen(0)
  BY DEF Seen
<1> QED BY <1>1, WorkIs DEF Good

\* Every turn leaves the work good: else there is a first one that does not.
LEMMA WorkedGood ==
  ASSUME GuardInv, NEW m \in Messages
  PROVE  Good(Worked(m), m, 2 * Len(order))
<1>1. Len(order) \in Nat /\ order \in Orders /\ setting \in Settings
  BY OrdersAreWhole DEF GuardInv, GuardTypeOK
<1>2. PICK n \in Nat : n = 2 * Len(order)
  BY <1>1
<1>3. PICK f : Follows(f, m, n) /\ Worked(m) = f[n]
  BY <1>1, <1>2, WorkedIs
<1>4. f[0] = Work /\ \A i \in 1 .. n : f[i] = Turn(f[i - 1], m, i)
  BY <1>3 DEF Follows
<1> DEFINE T == {i \in 0 .. n : ~Good(f[i], m, i)}
<1>5. ASSUME T # {} PROVE FALSE
  <2>1. PICK i \in T : \A j \in T : i <= j
    <3>1. T \subseteq Nat
      OBVIOUS
    <3> HIDE DEF T
    <3> QED BY <1>5, <3>1, LeastNumber
  <2>2. i # 0
    BY <1>4, <2>1, WorkGood
  <2>3. i \in 1 .. n /\ i - 1 \in 0 .. n /\ ~(i <= i - 1)
    BY <2>1, <2>2
  <2>4. Good(f[i - 1], m, i - 1)
    BY <2>1, <2>3
  <2>5. Good(Turn(f[i - 1], m, i), m, i)
    BY <1>1, <1>2, <2>3, <2>4, GoodTurn
  <2> QED BY <1>4, <2>1, <2>3, <2>5
<1>6. n \in 0 .. n
  BY <1>2
<1> QED BY <1>2, <1>3, <1>5, <1>6

\* What an answer does to whom was named.
LEMMA FoundIs ==
  ASSUME GuardInv, NEW l \in lookups, NEW s,
         \/ s = Found(l) /\ l.cmd # "banReply"
         \/ s = BanUser(Work, l.whom, l.chat, Admin) /\ l.cmd = "banReply"
         \/ s = Work
  PROVE  /\ s \in Works /\ Earned(s.db, lua, past)
         /\ s.deleted = {} /\ ~s.obeyed
         /\ \A u \in s.kicked :
              IsMomodText(u, l.chat) => l.from \in Admin
<1>1. l \in Lookup
  BY DEF GuardInv, GuardTypeOK
<1>2. PICK w \in User : w = l.whom
  BY <1>1 DEF Lookup
<1>3. PICK c \in Chat : c = l.chat
  BY <1>1 DEF Lookup
<1>4. PICK z \in Works : z = Work
  BY WorkIs
<1>5. Sound(z) /\ z.kicked = {} /\ z.deleted = {} /\ ~z.obeyed
      /\ z.past = past /\ z.lua = lua
  BY <1>4, WorkIs
<1>6. CASE s = z
  BY <1>4, <1>5, <1>6 DEF Sound
<1>7. CASE /\ s = BanUser(z, w, c, Admin)
           /\ \/ l.cmd = "ban" /\ ~IsMomod(w, c)
              \/ l.cmd = "banReply"
  <2>1. /\ s \in Works /\ s.lua = z.lua /\ s.past = z.past
        /\ s.kicked \subseteq z.kicked \cup {w}
        /\ s.deleted = z.deleted /\ s.obeyed = z.obeyed
        /\ s.asked = z.asked /\ s.db.spams = z.db.spams
        /\ s.db.banned \subseteq z.db.banned \cup {<<c, w>>}
        /\ s.db.gbanned = z.db.gbanned /\ s.db.added = z.db.added
    BY <1>7, BanIs
  <2>2. <<c, w>> \in past.ordered
    BY <1>2, <1>3, <1>7 DEF GuardInv, Warranted
  <2>3. Sound(s)
    BY <1>5, <2>1, <2>2, EarnedSound
  <2>4. IsMomodText(w, c) => l.from \in Admin
    BY <1>7, RankIs DEF GuardInv, Warranted
  <2> QED BY <1>3, <1>5, <2>1, <2>3, <2>4 DEF Sound
<1>8. CASE s = KickUser(z, w, Admin) /\ ~IsMomod(w, c)
  <2>1. /\ Sound(s) /\ s.obeyed = z.obeyed /\ s.deleted = z.deleted
        /\ s.past = z.past /\ s.lua = z.lua
        /\ s.kicked \subseteq z.kicked \cup {w}
    BY <1>5, <1>8, KickSound
  <2> QED BY <1>3, <1>5, <1>8, <2>1, RankIs DEF Sound
<1>9. CASE s = [z EXCEPT !.db.banned = @ \ {<<c, w>>}]
  <2>1. PICK d : d = [z.db EXCEPT !.banned = @ \ {<<c, w>>}]
    OBVIOUS
  <2>2. /\ d \in Db /\ d.spams = z.db.spams /\ d.gbanned = z.db.gbanned
        /\ d.banned \subseteq z.db.banned /\ d.added = z.db.added
    BY <2>1, FieldsAre DEF Db
  <2>3. s = [z EXCEPT !.db = d]
    BY <1>9, <2>1
  <2>4. /\ s \in Works /\ s.db = d /\ s.lua = z.lua /\ s.past = z.past
        /\ s.kicked = z.kicked /\ s.deleted = z.deleted
        /\ s.obeyed = z.obeyed /\ s.asked = z.asked
    BY <2>2, <2>3, DbIs
  <2>5. Sound(s)
    BY <1>5, <2>2, <2>4, EarnedSound
  <2> QED BY <1>5, <2>4, <2>5 DEF Sound
<1>10. CASE s = BanallUser(z, w, Admin) /\ l.cmd = "banall"
  <2>1. /\ s \in Works /\ s.lua = z.lua /\ s.past = z.past
        /\ s.kicked = z.kicked /\ s.deleted = z.deleted
        /\ s.obeyed = z.obeyed
        /\ s.asked = z.asked /\ s.db.spams = z.db.spams
        /\ s.db.banned = z.db.banned /\ s.db.added = z.db.added
        /\ s.db.gbanned \subseteq z.db.gbanned \cup {w}
    BY <1>10, BanallIs
  <2>2. w \in past.condemned
    BY <1>2, <1>10 DEF GuardInv, Warranted
  <2>3. Sound(s)
    BY <1>5, <2>1, <2>2, EarnedSound
  <2> QED BY <1>5, <2>1, <2>3 DEF Sound
<1>11. CASE s = [z EXCEPT !.db.gbanned = @ \ {w}]
  <2>1. PICK d : d = [z.db EXCEPT !.gbanned = @ \ {w}]
    OBVIOUS
  <2>2. /\ d \in Db /\ d.spams = z.db.spams /\ d.banned = z.db.banned
        /\ d.gbanned \subseteq z.db.gbanned /\ d.added = z.db.added
    BY <2>1, FieldsAre DEF Db
  <2>3. s = [z EXCEPT !.db = d]
    BY <1>11, <2>1
  <2>4. /\ s \in Works /\ s.db = d /\ s.lua = z.lua /\ s.past = z.past
        /\ s.kicked = z.kicked /\ s.deleted = z.deleted
        /\ s.obeyed = z.obeyed /\ s.asked = z.asked
    BY <2>2, <2>3, DbIs
  <2>5. Sound(s)
    BY <1>5, <2>2, <2>4, EarnedSound
  <2> QED BY <1>5, <2>4, <2>5 DEF Sound
<1>12. s = Found(l) /\ l.cmd # "banReply" =>
         \/ s = z
         \/ s = BanUser(z, w, c, Admin) /\ l.cmd = "ban" /\ ~IsMomod(w, c)
         \/ s = KickUser(z, w, Admin) /\ ~IsMomod(w, c)
         \/ s = [z EXCEPT !.db.banned = @ \ {<<c, w>>}]
         \/ s = BanallUser(z, w, Admin) /\ l.cmd = "banall"
         \/ s = [z EXCEPT !.db.gbanned = @ \ {w}]
  BY <1>2, <1>3, <1>4 DEF Found
<1> QED BY <1>2, <1>3, <1>4, <1>6, <1>7, <1>8, <1>9, <1>10, <1>11, <1>12

\* Nobody has so many kicks for flooding counted that the next one is late.
LEMMA SpamsBounded ==
  ASSUME NEW d \in Db, NEW l, NEW p, Earned(d, l, p)
  PROVE  d.spams \in [User -> 0 .. GbanAfter]
<1>1. d.spams \in [User -> Nat]
  BY DEF Db
<1>2. \A u \in User : d.spams[u] < GbanAfter
  BY DEF Earned
<1>3. GbanAfter \in Nat
  BY Limits
<1> QED BY <1>1, <1>2, <1>3

\* The invariant holds at the start,
LEMMA GuardInvInit == GuardInit => GuardInv
<1> SUFFICES ASSUME GuardInit PROVE GuardInv
  OBVIOUS
<1>1. /\ db.banned = {} /\ db.gbanned = {} /\ db.log \in BOOLEAN
      /\ db.spams = [u \in User |-> 0] /\ db.msgs = [u \in User |-> 0]
      /\ db.added = [k \in Chat \X User |-> 0]
      /\ db = [banned |-> {}, gbanned |-> {}, log |-> db.log,
               spams |-> db.spams, msgs |-> db.msgs, added |-> db.added]
  BY DEF GuardInit
<1>2. db \in Db
  BY <1>1 DEF Db
<1>3. past \in Past
  BY DEF GuardInit, Past
<1>4. lua \in Globals /\ mods \in [Chat -> SUBSET User]
  BY DEF GuardInit, Globals, Mark
<1>5. Earned(db, lua, past)
  <2>1. GbanAfter \in Nat \ {0}
    BY Limits
  <2> QED BY <1>1, <2>1 DEF GuardInit, Earned
<1>6. Warranted(lookups, past) /\ lookups \subseteq Lookup
  BY DEF GuardInit, Warranted
<1>7. db.spams \in [User -> 0 .. GbanAfter]
  BY <1>2, <1>5, SpamsBounded
<1> QED BY <1>2, <1>3, <1>4, <1>5, <1>6, <1>7
        DEF GuardInit, GuardInv, GuardTypeOK, Db, Globals

\* is kept by the work on a message,
LEMMA ReceiveKeeps ==
  ASSUME GuardInv, NEW m \in Messages, OnMsgReceive(m)
  PROVE  GuardInv'
<1>1. PICK s : s = Worked(m)
  OBVIOUS
<1>2. Sound(s)
  BY <1>1, WorkedGood DEF Good
<1>3. /\ db' = s.db /\ lua' = s.lua /\ past' = s.past
      /\ lookups' = lookups \cup s.asked
      /\ order' = order /\ setting' = setting /\ mods' = mods
  BY <1>1 DEF OnMsgReceive
<1>4. /\ s.db \in Db /\ s.lua \in Globals /\ s.past \in Past
      /\ s.asked \subseteq Lookup
  BY <1>2, FieldsAre DEF Sound, Works
<1>5. Warranted(lookups \cup s.asked, s.past)
  BY <1>2 DEF GuardInv, Sound, Warranted
<1>6. Earned(s.db, s.lua, s.past)
  BY <1>2 DEF Sound
<1>7. /\ order \in Orders /\ setting \in Settings
      /\ mods \in [Chat -> SUBSET User] /\ lookups \subseteq Lookup
  BY DEF GuardInv, GuardTypeOK
<1>8. /\ order' \in Orders /\ setting' \in Settings
      /\ mods' \in [Chat -> SUBSET User] /\ lookups' \subseteq Lookup
      /\ db' \in Db /\ lua' \in Globals /\ past' \in Past
      /\ Earned(db', lua', past') /\ Warranted(lookups', past')
  BY <1>3, <1>4, <1>5, <1>6, <1>7
<1>9. db'.spams \in [User -> 0 .. GbanAfter]
  BY <1>8, SpamsBounded
<1> QED BY <1>8, <1>9 DEF GuardInv, GuardTypeOK, Db, Globals

\* by an answer that bans whom it may,
LEMMA SettleKeeps ==
  ASSUME GuardInv, NEW l \in lookups, NEW s \in Works,
         Earned(s.db, lua, past), Settle(l, s)
  PROVE  GuardInv'
<1>1. db' = s.db /\ lua' = lua /\ past' = past /\ lookups' \subseteq lookups
      /\ order' = order /\ setting' = setting /\ mods' = mods
  BY DEF Settle
<1>2. s.db \in Db
  BY FieldsAre
<1>3. db'.spams \in [User -> 0 .. GbanAfter]
  BY <1>1, <1>2, SpamsBounded
<1>4. Warranted(lookups', past')
  BY <1>1 DEF GuardInv, Warranted
<1> QED BY <1>1, <1>2, <1>3, <1>4 DEF GuardInv, GuardTypeOK, Db, Globals

\* The step in which an answer comes.
LEMMA AnswerIs ==
  ASSUME GuardInv, NEW l \in lookups,
         NameFound(l) \/ MessageFound(l) \/ LookupFails(l)
  PROVE  \E s \in Works :
           /\ Settle(l, s) /\ Earned(s.db, lua, past)
           /\ s.deleted = {} /\ ~s.obeyed
           /\ \A u \in s.kicked : IsMomodText(u, l.chat) => l.from \in Admin
<1>1. CASE NameFound(l)
  <2>1. PICK s : s = Found(l)
    OBVIOUS
  <2>2. l.cmd # "banReply" /\ Settle(l, s)
    BY <1>1, <2>1 DEF NameFound
  <2> QED BY <2>1, <2>2, FoundIs
<1>2. CASE MessageFound(l)
  <2>1. PICK s : s = BanUser(Work, l.whom, l.chat, Admin)
    OBVIOUS
  <2>2. l.cmd = "banReply" /\ Settle(l, s)
    BY <1>2, <2>1 DEF MessageFound
  <2> QED BY <2>1, <2>2, FoundIs
<1>3. CASE LookupFails(l)
  <2>1. PICK s : s = Work
    OBVIOUS
  <2>2. Settle(l, s)
    BY <1>3, <2>1 DEF LookupFails
  <2> QED BY <2>1, <2>2, FoundIs
<1> QED BY <1>1, <1>2, <1>3

\* kicktable and the windows are cleared together.
LEMMA ClearedEarned ==
  ASSUME NEW d, NEW l, NEW k, NEW p \in Past, NEW q, Earned(d, l, p),
         q = [p EXCEPT !.window = {}]
  PROVE  q \in Past /\ Earned(d, k, q) /\ q.ordered = p.ordered
         /\ q.condemned = p.condemned
<1>1. /\ q \in Past /\ q.window = {} /\ q.ordered = p.ordered
      /\ q.condemned = p.condemned /\ q.adds = p.adds
      /\ q.strikes = p.strikes
  BY DEF Past
<1>2. Earned(d, k, q)
  BY <1>1 DEF Earned
<1> QED BY <1>1, <1>2

\* and by every step.
LEMMA GuardInvStep == GuardInv /\ [GuardNext]_guardVars => GuardInv'
<1> SUFFICES ASSUME GuardInv, [GuardNext]_guardVars PROVE GuardInv'
  OBVIOUS
<1>1. CASE \E m \in Messages : OnMsgReceive(m)
  BY <1>1, ReceiveKeeps
<1>2. ASSUME NEW l \in lookups,
             NameFound(l) \/ MessageFound(l) \/ LookupFails(l)
      PROVE  GuardInv'
  BY <1>2, AnswerIs, SettleKeeps
<1>3. ASSUME NEW u \in User, Expire(u) PROVE GuardInv'
  <2>1. PICK d : d = [db EXCEPT !.msgs[u] = 0]
    OBVIOUS
  <2>2. /\ d \in Db /\ d.spams = db.spams /\ d.added = db.added
        /\ d.banned = db.banned /\ d.gbanned = db.gbanned
    BY <2>1, MsgsIs DEF GuardInv
  <2>3. db' = d /\ UNCHANGED <<order, setting, mods, lua, lookups, past>>
    BY <1>3, <2>1 DEF Expire
  <2>4. Earned(db', lua', past')
    BY <2>2, <2>3 DEF GuardInv, Earned
  <2>5. db'.spams \in [User -> 0 .. GbanAfter]
    BY <2>2, <2>3, <2>4, SpamsBounded
  <2>6. Warranted(lookups', past')
    BY <2>3 DEF GuardInv, Warranted
  <2> QED BY <2>2, <2>3, <2>4, <2>5, <2>6 DEF GuardInv, GuardTypeOK, Db
<1>4. ASSUME NEW l \in Globals, NEW rest \in SUBSET lookups,
             order' \in Orders, lua' = l, lookups' = rest,
             past' = [past EXCEPT !.window = {}],
             UNCHANGED <<setting, mods, db>>
      PROVE  GuardInv'
  <2>1. past' \in Past /\ Earned(db', lua', past')
        /\ past'.ordered = past.ordered /\ past'.condemned = past.condemned
    BY <1>4, ClearedEarned DEF GuardInv
  <2>2. Warranted(lookups', past')
    BY <1>4, <2>1 DEF GuardInv, Warranted
  <2> QED BY <1>4, <2>1, <2>2 DEF GuardInv, GuardTypeOK, Globals
<1>5. CASE Cron
  <2>1. [lua EXCEPT !.kicktable = {}] \in Globals
    BY DEF GuardInv, GuardTypeOK, Globals
  <2>2. order \in Orders
    BY DEF GuardInv, GuardTypeOK
  <2> QED BY <1>4, <1>5, <2>1, <2>2 DEF Cron
<1>6. ASSUME NEW o \in Orders, Reload(o) PROVE GuardInv'
  <2>1. [lua EXCEPT !.kicktable = {}] \in Globals
    BY DEF GuardInv, GuardTypeOK, Globals
  <2> QED BY <1>4, <1>6, <2>1 DEF Reload
<1>7. ASSUME NEW o \in Orders, Restart(o) PROVE GuardInv'
  <2>1. [kicktable |-> {}, bots |-> "unset", filter |-> "unset"] \in Globals
    BY DEF Globals, Mark
  <2> QED BY <1>4, <1>7, <2>1 DEF Restart
<1>8. ASSUME NEW u \in User, NEW c \in Registered, ChangeRank(u, c)
      PROVE  GuardInv'
  <2>1. mods' \in [Chat -> SUBSET User]
    BY <1>8 DEF ChangeRank, GuardInv, GuardTypeOK
  <2> QED BY <1>8, <2>1 DEF ChangeRank, GuardInv, GuardTypeOK
<1>9. CASE UNCHANGED guardVars
  BY <1>9 DEF guardVars, GuardInv, GuardTypeOK
<1> QED BY <1>1, <1>2, <1>3, <1>5, <1>6, <1>7, <1>8, <1>9 DEF GuardNext

\* The invariant holds always.
LEMMA GuardInvHolds == GuardSpec => []GuardInv
BY GuardInvInit, GuardInvStep, PTL DEF GuardSpec

---------------------------------------------------------------------------
(* The theorems                                                            *)

\* The records of the plugins (redis, the globals, the lookups) keep their
\* types; no user has more kicks for flooding counted than the limit.
THEOREM GuardTypeCorrect == GuardSpec => []GuardTypeOK
<1>1. GuardInv => GuardTypeOK
  BY DEF GuardInv
<1> QED BY <1>1, GuardInvHolds, PTL

\* A ban was ordered by somebody who might order it, or its victim has added
\* banned users often enough; a global ban was ordered by an admin, or its
\* victim was kicked for flooding in so many windows of kicktable: in whatever
\* order pairs() takes the plugins, whatever fails and is looked up late.
THEOREM EveryBanIsEarned == GuardSpec => []BansAreEarned
<1>1. GuardInv => BansAreEarned
  BY DEF GuardInv, Earned, BansAreEarned
<1> QED BY <1>1, GuardInvHolds, PTL

\* What became of the message or the answer of a step.
LEMMA FateIs ==
  ASSUME GuardInv, [GuardNext]_guardVars
  PROVE  \/ fate' = NoFate \/ UNCHANGED guardVars
         \/ \E m \in Messages : \E s :
              /\ fate' = FateOf(s, m.from, Group(m), m.kind)
              /\ Good(s, m, 2 * Len(order))
         \/ \E l \in lookups : \E s :
              /\ fate' = FateOf(s, l.from, l.chat, "answer")
              /\ s.deleted = {} /\ ~s.obeyed
              /\ \A u \in s.kicked :
                   IsMomodText(u, l.chat) => l.from \in Admin
<1>1. ASSUME NEW m \in Messages, OnMsgReceive(m)
      PROVE  \E s : /\ fate' = FateOf(s, m.from, Group(m), m.kind)
                    /\ Good(s, m, 2 * Len(order))
  BY <1>1, WorkedGood DEF OnMsgReceive
<1>2. ASSUME NEW l \in lookups,
             NameFound(l) \/ MessageFound(l) \/ LookupFails(l)
      PROVE  \E s : /\ fate' = FateOf(s, l.from, l.chat, "answer")
                    /\ s.deleted = {} /\ ~s.obeyed
                    /\ \A u \in s.kicked :
                         IsMomodText(u, l.chat) => l.from \in Admin
  BY <1>2, AnswerIs DEF Settle
<1>3. CASE \/ \E u \in User : Expire(u)
           \/ Cron
           \/ \E o \in Orders : Reload(o) \/ Restart(o)
           \/ \E u \in User, c \in Registered : ChangeRank(u, c)
  BY <1>3 DEF Expire, Cron, Reload, Restart, ChangeRank, Change
<1> QED BY <1>1, <1>2, <1>3 DEF GuardNext

\* A command of a banned user is not obeyed, whatever his rank and whatever
\* the order in which the plugins see it: pre_process of all comes before run
\* of any.  Only what the owner of a group orders in the private chat is, where
\* no plugin looks at bans.
THEOREM NoBannedIsObeyed == GuardSpec => BannedIsNotObeyed
<1>1. GuardInv /\ [GuardNext]_guardVars =>
        [fate'.obeyed =>
           \/ ~IsBanned(db, fate'.from, fate'.chat)
           \/ /\ fate'.kind = "owners"
              /\ IsOwner(fate'.from, fate'.chat)]_guardVars
  <2> SUFFICES ASSUME GuardInv, [GuardNext]_guardVars, fate'.obeyed
               PROVE  \/ ~IsBanned(db, fate'.from, fate'.chat)
                      \/ /\ fate'.kind = "owners"
                         /\ IsOwner(fate'.from, fate'.chat)
                      \/ UNCHANGED guardVars
    OBVIOUS
  <2>1. fate' # NoFate
    BY DEF NoFate
  <2>2. ASSUME NEW m \in Messages, NEW s,
               fate' = FateOf(s, m.from, Group(m), m.kind),
               Good(s, m, 2 * Len(order))
        PROVE  \/ ~IsBanned(db, fate'.from, fate'.chat)
               \/ /\ fate'.kind = "owners"
                  /\ IsOwner(fate'.from, fate'.chat)
    BY <2>2 DEF FateOf, Good, Barred, Group
  <2>3. ASSUME NEW l \in lookups, NEW s,
               fate' = FateOf(s, l.from, l.chat, "answer"), ~s.obeyed
        PROVE  FALSE
    BY <2>3 DEF FateOf
  <2> QED BY <2>1, <2>2, <2>3, FateIs
<1> QED BY <1>1, GuardInvHolds, PTL DEF GuardSpec, BannedIsNotObeyed

\* Nobody with a rank is kicked by a plugin or by a late answer, even if he
\* got the rank after the order: unless an admin ordered it, or the owner in
\* the private chat, or he was banned before, or for joining or adding
\* somebody.
THEOREM RanksAreNotKicked == GuardSpec => RanksAreSpared
<1>1. GuardInv /\ [GuardNext]_guardVars =>
        [\A u \in fate'.kicked :
           IsMomodText(u, fate'.chat) =>
             \/ fate'.from \in Admin \/ fate'.kind \in Service
             \/ IsBanned(db, u, fate'.chat)
             \/ /\ fate'.kind = "owners"
                /\ u = fate'.from \/ IsOwner(fate'.from, fate'.chat)]_guardVars
  <2> SUFFICES ASSUME GuardInv, [GuardNext]_guardVars, ~UNCHANGED guardVars,
                      NEW u \in fate'.kicked, IsMomodText(u, fate'.chat)
               PROVE  \/ fate'.from \in Admin \/ fate'.kind \in Service
                      \/ IsBanned(db, u, fate'.chat)
                      \/ /\ fate'.kind = "owners"
                         /\ u = fate'.from \/ IsOwner(fate'.from, fate'.chat)
    OBVIOUS
  <2>1. fate' # NoFate
    BY DEF NoFate
  <2>2. ASSUME NEW m \in Messages, NEW s,
               fate' = FateOf(s, m.from, Group(m), m.kind),
               Good(s, m, 2 * Len(order))
        PROVE  \/ fate'.from \in Admin \/ fate'.kind \in Service
               \/ IsBanned(db, u, fate'.chat)
               \/ /\ fate'.kind = "owners"
                  /\ u = fate'.from \/ IsOwner(fate'.from, fate'.chat)
    BY <2>2 DEF FateOf, Good, Allowed
  <2>3. ASSUME NEW l \in lookups, NEW s,
               fate' = FateOf(s, l.from, l.chat, "answer"),
               \A w \in s.kicked :
                 IsMomodText(w, l.chat) => l.from \in Admin
        PROVE  fate'.from \in Admin
    BY <2>3 DEF FateOf
  <2> QED BY <2>1, <2>2, <2>3, FateIs
<1> QED BY <1>1, GuardInvHolds, PTL DEF GuardSpec, RanksAreSpared

\* A chat that has unlocked a filter loses no message to it, although the
\* plugin keeps the setting of the chat before in a global.
THEOREM UnlockedLosesNothing == GuardSpec => OwnSettingWins
<1>1. GuardInv /\ [GuardNext]_guardVars =>
        [\A c \in Chat : fate'.chat = c /\ "filter" \in fate'.deleted
                         => setting[c]["filter"] # "no"]_guardVars
  <2> SUFFICES ASSUME GuardInv, [GuardNext]_guardVars, ~UNCHANGED guardVars,
                      NEW c \in Chat, fate'.chat = c,
                      "filter" \in fate'.deleted
               PROVE  setting[c]["filter"] # "no"
    OBVIOUS
  <2>1. fate' # NoFate
    BY DEF NoFate
  <2>2. ASSUME NEW m \in Messages, NEW s,
               fate' = FateOf(s, m.from, Group(m), m.kind),
               Good(s, m, 2 * Len(order))
        PROVE  setting[c]["filter"] # "no"
    BY <2>2 DEF FateOf, Good
  <2>3. ASSUME NEW l \in lookups, NEW s,
               fate' = FateOf(s, l.from, l.chat, "answer"), s.deleted = {}
        PROVE  FALSE
    BY <2>3 DEF FateOf
  <2> QED BY <2>1, <2>2, <2>3, FateIs
<1> QED BY <1>1, GuardInvHolds, PTL DEF GuardSpec, OwnSettingWins
=============================================================================
