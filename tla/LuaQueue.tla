------------------------------ MODULE LuaQueue ------------------------------
(***************************************************************************)
(* Calls of a Lua script (lua-tg.c): words of lua_ptr hold them until the  *)
(* network loop calls lua_do_all; a record with the script's callback goes *)
(* with each to the library and comes back once.  Calls that load or send  *)
(* files are those of Files, the others are requests that Queries answers  *)
(* once.  Only the first word of a call's arguments may be the record.     *)
(***************************************************************************)
EXTENDS Files

CONSTANTS
  Names,    \* the functions that the script uses
  Size      \* MAX_LUA_COMMANDS

VARIABLES
  words,    \* lua_ptr [0 .. pos - 1]
  flag,     \* the words whose flags say that they hold a string
  at,       \* p of lua_do_all
  turn,     \* lua_do_all is running
  script,   \* the script has just been called back from lua_do_all
  asked,    \* calls whose request is not answered
  held,     \* records that are allocated, by call
  strings,  \* copies of strings that are allocated: call and word
  back,     \* calls that were called back
  doomed,   \* history: calls whose record was freed as a string
  misused,  \* history: calls whose callback read a freed record
  stopped   \* an assertion failed

queueVars == <<words, flag, at, turn, script, asked, held, strings, back,
               doomed, misused, stopped>>
vars == <<queueVars, fileVars>>

\* A sample of functions[]: parameters, words that lua_do_all takes, counted
\* from the record, and what it calls.  send_document2 names the case of
\* send_document, and restore_msg has no case.
Functions ==
  [get_contact_list |-> [params |-> <<>>, takes |-> 1, does |-> "ask"],
   send_typing |-> [params |-> <<"value">>, takes |-> 2, does |-> "ask"],
   send_msg |-> [params |-> <<"value", "string">>, takes |-> 3,
                 does |-> "ask"],
   send_photo2 |-> [params |-> <<"value", "string", "string">>, takes |-> 4,
                    does |-> "send"],
   add_contact |-> [params |-> <<"string", "string", "string">>, takes |-> 4,
                    does |-> "ask"],
   load_document |-> [params |-> <<"value">>, takes |-> 2, does |-> "load"],
   send_document |-> [params |-> <<"value", "string">>, takes |-> 3,
                      does |-> "send"],
   send_document2 |-> [params |-> <<"value", "string", "string">>, takes |-> 3,
                       does |-> "send"],
   restore_msg |-> [params |-> <<"value">>, takes |-> 0, does |-> "fail"]]

ASSUME LuaAssumption == Names \subseteq DOMAIN Functions /\ Size \in Nat
                        /\ Call = 1 .. Cardinality(Call)

Word(holds, c, name, n) ==
  [holds |-> holds, call |-> c, name |-> name, n |-> n]

Init ==
  /\ FilesInit
  /\ words = <<>> /\ flag = {} /\ at = 0
  /\ turn = FALSE /\ script = FALSE /\ stopped = FALSE
  /\ asked = {} /\ held = {} /\ strings = {} /\ back = {}
  /\ doomed = {} /\ misused = {}

accepted == held \cup back \cup doomed

(***************************************************************************)
(* The script makes a call: parse_lua_function.                            *)
(***************************************************************************)
\* A script runs for an update, or is called back.
Runs == ~stopped /\ (turn => script)

Words(c, name) ==
  LET params == Functions[name].params
  IN <<Word("length", c, name, Len(params) + 1), Word("type", c, name, 0),
       Word("record", c, name, 0)>>
     \o [i \in DOMAIN params |-> Word(params[i], c, name, 0)]

\* Words of parameters get their flags, the header keeps what it has.
Flags(name, bad) ==
  LET params == Functions[name].params
      word(i) == Len(words) + 3 + i
  IN (flag \ {word(i) : i \in DOMAIN params})
       \cup {word(i) : i \in {j \in DOMAIN params :
                                params[j] = "string" /\ j # bad}}

Fits(name) == Len(words) + 3 + Len(Functions[name].params) < Size

Accept(name) ==
  LET c == Cardinality(accepted) + 1
      params == Functions[name].params
  IN /\ Runs /\ c \in Call
     /\ IF Fits(name)
        THEN /\ words' = words \o Words(c, name)
             /\ flag' = Flags(name, 0)
             /\ held' = held \cup {c}
             /\ strings' = strings \cup {<<c, i>> : i \in
                  {j \in DOMAIN params : params[j] = "string"}}
             /\ UNCHANGED stopped
        ELSE stopped' = TRUE /\ UNCHANGED <<words, flag, held, strings>>
     /\ UNCHANGED <<at, turn, script, asked, back, doomed, misused, fileVars>>

\* mutant: pos stays behind the header
RefuseKeepsHeader(name, bad) ==
  LET c == Cardinality(accepted) + 1
  IN /\ Runs /\ Fits(name) /\ c \in Call
     /\ flag' = Flags(name, bad)
     /\ words' = words \o SubSeq(Words(c, name), 1, 3)
     /\ UNCHANGED <<at, turn, script, asked, held, strings, back, doomed,
                    misused, stopped, fileVars>>

\* A parameter is not what the function takes: pos goes back.
Refuse(name, bad) ==
  /\ Runs /\ Fits(name) /\ accepted # Call
  /\ flag' = Flags(name, bad)
  /\ UNCHANGED <<words, at, turn, script, asked, held, strings, back, doomed,
                 misused, stopped, fileVars>>

(***************************************************************************)
(* Callbacks: the script is run and the record freed.                      *)
(***************************************************************************)
CallBack(c) ==
  /\ back' = back \cup {c}
  /\ misused' = IF c \in held THEN misused ELSE misused \cup {c}

(***************************************************************************)
(* net_loop and lua_do_all.                                                *)
(***************************************************************************)
StartTurn ==
  /\ ~turn /\ ~stopped /\ words # <<>>
  /\ turn' = TRUE /\ at' = 0
  /\ UNCHANGED <<words, flag, script, asked, held, strings, back, doomed,
                 misused, stopped, fileVars>>

\* One case of the switch: the library is called, then the words up to p are
\* gone through.
Do ==
  LET head == words[at + 1]
      c == words[at + 2].call
      does == Functions[words[at + 2].name]
      last == at + 2 + does.takes
      freed == {k \in at + 3 .. last : k \in flag}
      lost == {words[k].call : k \in {j \in freed : words[j].holds = "record"}}
  IN /\ turn /\ ~stopped /\ at < Len(words)
     /\ IF head.holds # "length" \/ does.does = "fail"
        THEN /\ stopped' = TRUE
             /\ UNCHANGED <<at, script, asked, held, strings, back, doomed,
                            misused, fileVars>>
        ELSE /\ CASE does.does = "ask" -> UNCHANGED fileVars
                  [] does.does = "load" ->
                       LoadNothing(c) \/ \E f \in File : StartLoad(c, f)
                  [] does.does = "send" ->
                       \E f \in DOMAIN Source : StartSend(c, f)
             /\ asked' = IF does.does = "ask" THEN asked \cup {c} ELSE asked
             /\ script' = (transfer'[c].state \in Over)
             /\ IF script' THEN CallBack(c) ELSE UNCHANGED <<back, misused>>
             /\ held' = (held \ lost) \ (IF script' THEN {c} ELSE {})
             /\ doomed' = doomed \cup lost
             /\ strings' = strings \ {<<c, k - at - 3>> : k \in freed}
             /\ at' = last
             /\ UNCHANGED stopped
     /\ UNCHANGED <<words, flag, turn>>

\* mutant: a callback ends the turn
EndTurnEarly ==
  /\ turn /\ ~stopped /\ (script \/ at >= Len(words))
  /\ turn' = FALSE /\ script' = FALSE
  /\ words' = <<>> /\ at' = 0
  /\ UNCHANGED <<flag, asked, held, strings, back, doomed, misused, stopped,
                 fileVars>>

EndTurn ==
  /\ turn /\ ~stopped /\ at >= Len(words)
  /\ turn' = FALSE /\ script' = FALSE
  /\ words' = <<>> /\ at' = 0
  /\ UNCHANGED <<flag, asked, held, strings, back, doomed, misused, stopped,
                 fileVars>>

\* event_base_loop: a request of a call is answered, with a result or an error.
Answer(c) ==
  /\ ~turn /\ ~stopped
  /\ \/ /\ c \in asked
        /\ asked' = asked \ {c}
        /\ CallBack(c)
        /\ held' = held \ {c}
        /\ UNCHANGED <<stopped, fileVars>>
     \/ /\ Receive(c)
        /\ stopped' = (transfer'[c].state = "aborted")
        /\ IF transfer'[c].state \in Over
           THEN CallBack(c) /\ held' = held \ {c}
           ELSE UNCHANGED <<back, misused, held>>
        /\ UNCHANGED asked
  /\ UNCHANGED <<words, flag, at, turn, script, strings, doomed>>

Next ==
  \/ \E name \in Names : Accept(name)
  \/ \E name \in Names : \E bad \in DOMAIN Functions[name].params :
       Refuse(name, bad)
  \/ StartTurn \/ Do \/ EndTurn
  \/ \E c \in Call : Answer(c)

Spec == Init /\ [][Next]_vars

\* The loop turns, and the server answers every request (QueryContract).
Fairness == WF_vars(StartTurn) /\ WF_vars(Do) /\ WF_vars(EndTurn)
            /\ \A c \in Call : WF_vars(Answer(c))

LiveSpec == Spec /\ Fairness
-----------------------------------------------------------------------------
\* The types of the state.
TypeOK ==
  /\ FilesTypeOK
  /\ Len(words) <= Size /\ at \in 0 .. Len(words) /\ flag \subseteq 1 .. Size
  /\ turn \in BOOLEAN /\ script \in BOOLEAN /\ stopped \in BOOLEAN
  /\ asked \subseteq Call /\ held \subseteq Call /\ back \subseteq Call
  /\ doomed \subseteq Call /\ misused \subseteq Call

\* Between turns a record is allocated for exactly the calls that the program
\* owes a callback, each callback is called once and reads its record, and the
\* copies of strings are those of the queued calls; except for a call whose
\* record took a word that was flagged as a string by an earlier call.
RecordsOwed ==
  /\ misused \subseteq doomed
  /\ (held \cap back) \subseteq doomed
  /\ ~turn =>
       /\ {words[k].call : k \in DOMAIN words} \cup asked
            \cup {c \in Call : transfer[c].state \in Going}
            = accepted \ back
       /\ strings \subseteq {<<words[k].call, j>> : k \in DOMAIN words,
                                                    j \in 1 .. 3}

\* Every call is called back, unless an assertion stops the program.
CalledBack == \A c \in Call : c \in held ~> (c \in back \/ stopped)
=============================================================================
