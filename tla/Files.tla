------------------------------- MODULE Files --------------------------------
(***************************************************************************)
(* Files loaded from the server and files sent to it (queries.c): one      *)
(* request for each part, the next one when the part before is there.      *)
(* Contents are numbers of parts: what matters is which part is written    *)
(* where.  Decryption, the counters of the prompt and changes of a local   *)
(* file while it is sent are left out.                                     *)
(***************************************************************************)
EXTENDS Integers, SequencesExt

CONSTANTS
  Call,     \* the requests that the program may make
  File,     \* documents, each loaded into a file of its own
  Parts,    \* how many parts a document has
  Source    \* local files to send, each with a length in halves of a part

ASSUME FilesAssumption ==
  /\ Parts \in [File -> Nat \ {0}]
  /\ Source \in [DOMAIN Source -> Nat]
  /\ File \cap DOMAIN Source = {} /\ "none" \notin File \cup DOMAIN Source

VARIABLES
  transfer, \* what each request is doing
  disk,     \* the parts in each loaded file, in the order of the file
  resumed   \* history: files on which a load went on from what it found

fileVars == <<transfer, disk, resumed>>

\* struct download and struct send_file.  offset counts what was received or
\* read, at is the position in the open file, parts counts the parts sent.
Closed == -1
None == [state |-> "none", file |-> "none", offset |-> 0, at |-> Closed,
         parts |-> 0]
Started(state, f) == [None EXCEPT !.state = state, !.file = f]

\* load     a part is asked for         part     a part is being saved
\* media    the message is being sent   done, failed    the callback is called
\* aborted  an assertion failed
Going == {"load", "part", "media"}
Over == {"done", "failed"}

Whole(f) == [k \in 1 .. Parts[f] |-> k]

FilesInit ==
  /\ transfer = [c \in Call |-> None]
  /\ disk = [f \in File |-> <<>>]
  /\ resumed = {}

Becomes(c, t) == transfer' = [transfer EXCEPT ![c] = t]

(***************************************************************************)
(* Loading.                                                                *)
(***************************************************************************)
\* load_next_part at the first part: the file that is there says where to go
\* on, and the load is over when that is the end.
StartLoad(c, f) ==
  LET there == Len(disk[f])
  IN /\ Becomes(c, [Started(IF there >= Parts[f] THEN "done" ELSE "load", f)
                      EXCEPT !.offset = there])
     /\ resumed' = IF there \in 1 .. Parts[f] - 1 THEN resumed \cup {f}
                   ELSE resumed
     /\ UNCHANGED disk

\* The message is not known, or has no document.
LoadNothing(c) == Becomes(c, Started("failed", "none"))
                  /\ UNCHANGED <<disk, resumed>>

\* write () at the position at
Written(s, at, k) == IF at < Len(s) THEN [s EXCEPT ![at + 1] = k]
                     ELSE Append(s, k)

\* mutant: the file is opened to append
ReceivePartAppend(c) ==
  LET t == transfer[c]
      f == t.file
  IN /\ t.state = "load"
     /\ disk' = [disk EXCEPT ![f] = Append(@, t.offset + 1)]
     /\ Becomes(c, [t EXCEPT !.at = @ + 1, !.offset = @ + 1,
                             !.state = IF t.offset + 1 < Parts[f] THEN @
                                       ELSE "done"])
     /\ UNCHANGED resumed

\* download_on_answer: the file is opened at the first answer, at its beginning
ReceivePart(c) ==
  LET t == transfer[c]
      f == t.file
      at == IF t.at = Closed THEN 0 ELSE t.at
  IN /\ t.state = "load"
     /\ disk' = [disk EXCEPT ![f] = Written(@, at, t.offset + 1)]
     /\ Becomes(c, [t EXCEPT !.at = at + 1, !.offset = @ + 1,
                             !.state = IF t.offset + 1 < Parts[f] THEN @
                                       ELSE "done"])
     /\ UNCHANGED resumed

(***************************************************************************)
(* Sending.                                                                *)
(***************************************************************************)
\* send_part: read and save the next part, or send the message when the file
\* is closed; a read of nothing, or of a short part before the end, fails an
\* assertion.
SendPart(t) ==
  LET left == Source[t.file] - t.offset
      x == IF left > 2 THEN 2 ELSE left
  IN CASE t.at = Closed -> [t EXCEPT !.state = "media"]
       [] t.at # Closed /\ (x <= 0 \/ (x = 1 /\ left # x)) ->
            [t EXCEPT !.state = "aborted"]
       [] t.at # Closed /\ x > 0 /\ (x = 2 \/ left = x) ->
            [t EXCEPT !.state = "part", !.offset = @ + x, !.parts = @ + 1,
                      !.at = IF left = x THEN Closed ELSE @ + x]

\* _tgl_do_send_photo: an empty file is refused at once.
StartSend(c, f) ==
  /\ Becomes(c, IF Source[f] = 0 THEN Started("failed", f)
                ELSE SendPart([Started("part", f) EXCEPT !.at = 0]))
  /\ UNCHANGED <<disk, resumed>>

\* send_file_part_on_answer
PartSaved(c) ==
  /\ transfer[c].state = "part"
  /\ Becomes(c, SendPart(transfer[c]))
  /\ UNCHANGED <<disk, resumed>>

\* send_msgs_on_answer
MessageSent(c) ==
  /\ transfer[c].state = "media"
  /\ Becomes(c, [transfer[c] EXCEPT !.state = "done"])
  /\ UNCHANGED <<disk, resumed>>

(***************************************************************************)
(* Both.                                                                   *)
(***************************************************************************)
\* download_on_error (or a file that cannot be opened), send_file_part_on_error
\* and send_msgs_on_error
Fail(c) ==
  /\ transfer[c].state \in Going
  /\ Becomes(c, [transfer[c] EXCEPT !.state = "failed"])
  /\ UNCHANGED <<disk, resumed>>

Start(c) == /\ transfer[c].state = "none"
            /\ \/ LoadNothing(c)
               \/ \E f \in File : StartLoad(c, f)
               \/ \E f \in DOMAIN Source : StartSend(c, f)
Receive(c) == ReceivePart(c) \/ PartSaved(c) \/ MessageSent(c) \/ Fail(c)

FilesNext == \E c \in Call : Start(c) \/ Receive(c)

FilesSpec == FilesInit /\ [][FilesNext]_fileVars
-----------------------------------------------------------------------------
Loads(f) == {c \in Call : transfer[c].file = f}

\* The types of the state; a load never has more than the document, nor an
\* upload more than the file.
FilesTypeOK ==
  /\ \A c \in Call :
       LET t == transfer[c]
       IN /\ t.state \in Going \cup Over \cup {"none", "aborted"}
          /\ t.file \in File => t.offset \in 0 .. Parts[t.file]
          /\ t.file \in DOMAIN Source => t.offset \in 0 .. Source[t.file]
  /\ disk \in [File -> Seq(Nat)] /\ resumed \subseteq File

\* Loading: the parts of a file are in order from the first, and all are there
\* when one of the loads reports success.
LoadedIsWhole(f) ==
  /\ \A k \in DOMAIN disk[f] : disk[f][k] = k
  /\ \A c \in Loads(f) : transfer[c].state = "done" => disk[f] = Whole(f)

\* Sending: no assertion on the parts fails, and when the message is sent the
\* parts, each saved once, are as many as the file has.
SentIsWhole(f) ==
  \A c \in Loads(f) :
    /\ transfer[c].state # "aborted"
    /\ transfer[c].state = "media" =>
         2 * transfer[c].parts \in Source[f] .. Source[f] + 1

\* Whatever loads of a file there are at the same time and whichever fail, it is
\* whole when one of them reports success, unless a load went on with what an
\* earlier one had left; and a message with a file is sent when all parts of
\* the file are saved.
FilesAreWhole ==
  /\ \A f \in File \ resumed : LoadedIsWhole(f)
  /\ \A f \in DOMAIN Source : SentIsWhole(f)

=============================================================================
