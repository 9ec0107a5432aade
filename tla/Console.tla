------------------------------- MODULE Console -------------------------------
(***************************************************************************)
(* The command line program: the terminal and the connections to its       *)
(* socket, the commands they give, the answers and the words that come     *)
(* later, and the end of the program (loop.c, interface.c).  A connection  *)
(* (struct in_ev) is counted by the socket, by each command of its that is *)
(* not answered, and by being the one that gets the updates; who lowers    *)
(* the count to 0 frees it.                                                *)
(*                                                                         *)
(* What a line is, and what its handler does, is in Commands; the words    *)
(* that a command asks for are typed in the dialogue of Login.             *)
(***************************************************************************)
EXTENDS Commands, Login

CONSTANTS
  Conns,      \* connections, each accepted once
  Ops,        \* bound: places for commands that are not answered, 1..n
  MaxTokens,  \* bound: tokens of a line
  MaxKept,    \* bound: commands that are never answered
  Daemon,     \* BOOLEAN values: daemonize
  Given       \* BOOLEAN values: start_command is there

Terminal == "terminal"

ASSUME ConsoleAssumption ==
  /\ IsFiniteSet(Conns) /\ Terminal \notin Conns
  /\ IsFiniteSet(Ops) /\ Ops \subseteq Nat \ {0} /\ 1 \in Ops
  /\ {MaxTokens, MaxKept} \subseteq Nat
  /\ Daemon \subseteq BOOLEAN /\ Given \subseteq BOOLEAN

VARIABLES
  link,       \* of a connection: "none", "open", "deaf" (a line too long has
              \* come), "closed" (bev is 0) or "freed"
  refcnt,     \* of a connection
  ops,        \* commands not answered: who gave it, its callbacks, its wait
  kept,       \* of a connection: commands never to be answered
  notify_ev,  \* who gets the updates
  listening,  \* there is a socket (sfd, usfd)
  safe_quit, daemonize, start_command,
  over        \* "no", "halted", "aborted" or "crashed"

peers == <<link, refcnt, kept, notify_ev>>
modes == <<listening, safe_quit, daemonize, start_command>>
consoleVars == <<loginVars, peers, ops, modes, over>>

NoOp == [by |-> Terminal, flow |-> "none", at |-> "none"]
Op(by, flow) == [by |-> by, flow |-> flow, at |-> "asked"]

ConsoleStart ==
  /\ LoginInit
  /\ link = [c \in Conns |-> "none"] /\ refcnt = [c \in Conns |-> 0]
  /\ kept = [c \in Conns |-> 0] /\ notify_ev = Terminal
  /\ ops = [i \in Ops |-> NoOp]
  /\ safe_quit = FALSE /\ listening \in BOOLEAN
  /\ daemonize \in Daemon /\ start_command \in Given
ConsoleInit == ConsoleStart /\ over = "no"

Running == over = "no" /\ login \notin {"failed", "aborted", "unwritten"}
Speakers == {Terminal} \cup {c \in Conns : link[c] = "open"}

\* bound: until the login is over one command waits at a time.
Places == IF login = "started" THEN Ops ELSE {1}
Free == {i \in Places : ops[i] = NoOp}
Taken(n) == {i \in Free : Cardinality({j \in Free : j <= i}) <= n}

\* Everything that the lines of a few tokens can do, and the lines in
\* parentheses (interpreter_ex), which are queries.
Lines == UNION {[1..n -> Tokens] : n \in 0..MaxTokens}
HowsOf(c) ==
  UNION {Outcomes(c, line, mods) : line \in Lines, mods \in Modifiers}
Hows == SendExtf \cup UNION {HowsOf(c) : c \in Commands}

-----------------------------------------------------------------------------
(* References.                                                             *)

\* A callback of a command (print_success_gw and the others): it answers, or
\* frees the connection and answers nobody.
Drop(c) ==
  IF c = Terminal THEN UNCHANGED <<link, refcnt>>
  ELSE /\ refcnt' = [refcnt EXCEPT ![c] = @ - 1]
       /\ link' = [link EXCEPT ![c] =
                     IF refcnt[c] = 1 THEN "freed" ELSE @]

\* mutant: a command that is repeated holds it once
HoldOnce(c, n) ==
  refcnt' = IF c = Terminal \/ n = 0 THEN refcnt
            ELSE [refcnt EXCEPT ![c] = @ + 1]

\* The command holds its connection, n times over. (if (ev) { ev->refcnt ++; })
Hold(c, n) ==
  refcnt' = IF c = Terminal THEN refcnt
            ELSE [refcnt EXCEPT ![c] = @ + n]

-----------------------------------------------------------------------------
(* Connections.                                                            *)

\* accept_incoming.
Accept(c) ==
  /\ listening /\ link[c] = "none"
  /\ link' = [link EXCEPT ![c] = "open"]
  /\ refcnt' = [refcnt EXCEPT ![c] = 1]
  /\ UNCHANGED <<kept, notify_ev, ops, modes, over>>

\* read_incoming: a line of 4096 bytes fills the buffer, which is never
\* emptied again.
Overflow(c) ==
  /\ link[c] = "open"
  /\ link' = [link EXCEPT ![c] = "deaf"]
  /\ UNCHANGED <<refcnt, kept, notify_ev, ops, modes, over>>

\* event_incoming.
Close(c) ==
  /\ link[c] \in {"open", "deaf"}
  /\ refcnt' = [refcnt EXCEPT ![c] = @ - 1]
  /\ link' = [link EXCEPT ![c] = IF refcnt[c] = 1 THEN "freed" ELSE "closed"]
  /\ UNCHANGED <<kept, notify_ev, ops, modes, over>>

-----------------------------------------------------------------------------
(* Lines.                                                                  *)

Nothing == UNCHANGED <<peers, ops, modes, over>>

\* The process ends, and what it held is gone with it.
EndProgram(how) ==
  /\ over' = how
  /\ link' = [c \in Conns |-> "none"] /\ notify_ev' = Terminal
  /\ refcnt' = [c \in Conns |-> 0] /\ kept' = refcnt'
  /\ ops' = [i \in Ops |-> NoOp]
  /\ UNCHANGED modes

\* A query can be sent once the home DC has a key, which it may have for a
\* while before it is authorized: tglq_send_query_ex asserts it.
HasKey == home \in signed \cup keyed

NoKey(n) == ~HasKey /\ n > 0 /\ EndProgram("aborted")

\* n commands of the same line wait for answers.
Wait(c, flow, n) ==
  \/ /\ Cardinality(Free) >= n
     /\ ops' = [i \in Ops |-> IF i \in Taken(n) THEN Op(c, flow) ELSE ops[i]]
     /\ Hold(c, n)
     /\ UNCHANGED <<link, kept, notify_ev, modes, over>>
  \/ NoKey(n)

\* Its query may be sent, but its callback is lost for good.
\* bound: a few times.
Keep(c, n) ==
  \/ /\ Hold(c, n)
     /\ kept' = IF c = Terminal THEN kept ELSE [kept EXCEPT ![c] = @ + n]
     /\ \A d \in Conns : kept'[d] <= MaxKept
     /\ UNCHANGED <<link, notify_ev, ops, modes, over>>
  \/ NoKey(n)

\* do_main_session: the updates go to c, and the connection that got them is
\* let go of.
MainSession(c) ==
  /\ notify_ev' = c
  /\ refcnt' = [d \in Conns |-> refcnt[d] + (IF d = c THEN 1 ELSE 0)
                                       - (IF d = notify_ev THEN 1 ELSE 0)]
  /\ link' = [d \in Conns |-> IF link[d] = "closed" /\ refcnt'[d] = 0
                             THEN "freed" ELSE link[d]]
  /\ UNCHANGED <<kept, ops, modes, over>>

\* do_quit and do_safe_quit.  A daemon closes the connection that asks, and
\* goes on to read from it; for the terminal it has none to close.  do_halt
\* does not end a daemon.
Quit == IF daemonize THEN EndProgram("crashed") ELSE EndProgram("halted")
SafeQuit ==
  IF daemonize THEN EndProgram("crashed")
  ELSE /\ safe_quit' = TRUE
       /\ UNCHANGED <<peers, ops, listening, daemonize, start_command,
                      over>>

\* The terminal's prompt is to show a name, which who is chatted with need not
\* have (get_default_prompt); without readline it shows none.
ChatWith(c) ==
  \/ Nothing
  \/ c = Terminal /\ EndProgram("aborted")

\* A handler, called n times: [xn] before a command repeats it.
Effect(c, how, n) ==
  \/ /\ how \in {"says", "fails", "knows", "quiet", "chat_with_peer"}
     /\ Nothing
  \/ how = "asks" /\ Wait(c, "plain", n)
  \/ how = "asks_password" /\ Wait(c, "password", n)
  \/ how = "asks_phone" /\ Wait(c, "phone", n)
  \/ how = "aborts_late" /\ Wait(c, "doomed", n)
  \/ how = "keeps" /\ Keep(c, n)
  \/ how = "aborts" /\ EndProgram("aborted")
  \/ how = "chat_with_anybody" /\ ChatWith(c)
  \/ how = "main_session" /\ MainSession(c)
  \/ how = "quit" /\ Quit
  \/ how = "safe_quit" /\ SafeQuit
  \/ how = "clear" /\ EndProgram("halted")

\* interpreter_ex, from a connection or from the terminal, which reads
\* commands while no words are asked for (stdin_read_callback).
Line(c, how, n) ==
  /\ c # Terminal \/ dialogue = Nobody
  /\ Effect(c, how, n)

\* The terminal ends.  Without readline it is only not read from any more.
EndOfInput ==
  /\ dialogue = Nobody /\ ~safe_quit
  /\ SafeQuit \/ Nothing

-----------------------------------------------------------------------------
(* Answers, and the words that two of the commands ask for.                *)

\* The command is done: its callback is called.
Call(i) ==
  /\ ops' = [ops EXCEPT ![i] = NoOp]
  /\ Drop(ops[i].by)
  /\ UNCHANGED <<kept, notify_ev, modes, over, dialogue>>

\* The words are for the command.  When others ask, it never gets them.
Asking(i) == ops[i].at = "words"

\* mutant: of two words that differ it asks no others
AskForNothing(i) ==
  /\ ops' = [ops EXCEPT ![i].at = "words"]
  /\ dialogue' = Nobody
  /\ UNCHANGED <<peers, modes, over>>

\* The command asks for words, from whoever is at the terminal.
AskFor(i) ==
  /\ ops' = [j \in Ops |-> IF j = i THEN [ops[j] EXCEPT !.at = "words"]
                          ELSE IF Asking(j) THEN [ops[j] EXCEPT !.at = "lost"]
                          ELSE ops[j]]
  /\ Ask(i, ops[i].flow)
  /\ UNCHANGED <<peers, modes, over>>

\* An answer or an error. tgl_set_number_result reads a success that nobody
\* gave it, and may ask once more.
AnswerTo(i) ==
  /\ ops[i].at \in {"asked", "set"}
  /\ \/ Call(i)
     \/ /\ ops[i].flow \in {"password", "phone"} /\ ops[i].at = "asked"
        /\ AskFor(i)
     \/ ops[i].flow = "phone" /\ ops[i].at = "set" /\ AskFor(i)
     \/ ops[i].flow = "doomed" /\ EndProgram("aborted") /\ UNCHANGED dialogue

\* tgl_on_new_pwd, tgl_on_old_pwd: two words that differ are asked for again,
\* one of more than 128 characters fails an assertion.  tgl_set_number_code.
TypeFor(i, entry) ==
  /\ dialogue = [who |-> i, what |-> ops[i].flow]
  /\ CASE entry = "same" ->
            /\ ops' = [ops EXCEPT ![i].at = "set"] /\ dialogue' = Nobody
            /\ UNCHANGED <<peers, modes, over>>
       [] entry = "differ" ->
            /\ ops[i].flow = "password" /\ AskFor(i)
       [] entry = "long" ->
            /\ ops[i].flow = "password" /\ dialogue' = Nobody
            /\ EndProgram("aborted")

-----------------------------------------------------------------------------
\* The queries that net_loop waits for before it ends (active_queries).  For a
\* part of the time that a DC takes to get its keys, there is none.
ActiveLogin ==
  \/ login \in {"code is sent", "signing in", "bot", "difference", "dialogs",
                "channels"}
  \/ login = "exporting" /\ \E d \in DOMAIN export : export[d] # "none"
ActiveQueries == ActiveLogin \/ \E i \in Ops : ops[i].at \in {"asked", "set"}

\* net_loop, when the safe quit has nothing to wait for.
Halt ==
  /\ safe_quit /\ ~ActiveQueries
  /\ IF daemonize
       THEN /\ safe_quit' = FALSE
            /\ UNCHANGED <<peers, ops, listening, daemonize, start_command,
                           over>>
       ELSE EndProgram("halted")

\* on_started gives the lines of the command line, and then quits when they
\* are answered.
StartCommand ==
  /\ start_command' = FALSE /\ safe_quit' = TRUE
  /\ UNCHANGED <<peers, listening, daemonize, over>>
  /\ \/ UNCHANGED ops
     \/ /\ Free # {}
        /\ ops' = [i \in Ops |->
                     IF i \in Taken(1) THEN Op(Terminal, "plain") ELSE ops[i]]

LoginStep(A) ==
  /\ Running /\ A
  /\ IF login' = "started" /\ login # "started" /\ start_command
       THEN StartCommand
       ELSE /\ ops' = [i \in Ops |->
                         IF dialogue' # Nobody /\ Asking(i)
                         THEN [ops[i] EXCEPT !.at = "lost"] ELSE ops[i]]
            /\ UNCHANGED <<peers, modes, over>>

Step(A) == Running /\ A /\ UNCHANGED loginVars
WordStep(A) ==
  /\ Running /\ A
  /\ UNCHANGED <<bot, accounts, login, right, waits, behind, logins>>

ConsoleNext ==
  \/ LoginStep(LoginNext)
  \/ \E c \in Conns : Step(Accept(c)) \/ Step(Overflow(c)) \/ Step(Close(c))
  \/ \E c \in Speakers, how \in Hows, n \in 0..2 :
       Step(Line(c, how, n))
  \/ Step(EndOfInput) \/ Step(Halt)
  \/ \E i \in Ops : WordStep(AnswerTo(i))
  \/ \E i \in Ops, entry \in {"same", "differ", "long"} :
       WordStep(TypeFor(i, entry))

\* The DCs make their keys, queries are answered (Queries), and who is asked
\* types the right words in the end.  Nobody has to give a command, or to
\* close a connection.
ConsoleFairness ==
  /\ \A d \in Dcs \cup {Late} : WF_consoleVars(LoginStep(Authorize(d)))
  /\ WF_consoleVars(LoginStep(CheckAuthorized))
  /\ WF_consoleVars(LoginStep(LoginAnswered))
  /\ SF_consoleVars(LoginStep(TypePhone(TRUE)))
  /\ SF_consoleVars(LoginStep(TypeCode(TRUE)))
  /\ SF_consoleVars(LoginStep(TypeHash(TRUE)))
  /\ SF_consoleVars(LoginStep(TypeRegistration("names")))
  /\ \A i \in Ops : /\ WF_consoleVars(WordStep(AnswerTo(i)))
                    /\ SF_consoleVars(WordStep(TypeFor(i, "same")))

-----------------------------------------------------------------------------
\* The lines that end the program, which may be of any command.
Ending == {"aborts", "aborts_late", "chat_with_anybody"}
Fatal ==
  UNION {{<<c, line>> : line \in
            {l \in Lines : \E mods \in Modifiers, how \in Ending :
                             how \in Outcomes(c, l, mods)}} :
           c \in Commands}

\* The commands that do not look for the secret chat that they are given the
\* printed id of, and the arguments with which they and two others take what
\* they do not know for what they do.
Trusting ==
  {"visualize_key", "send_location", "post_location"} \cup FileCommands
TakesOnTrust(c, a) ==
  \/ c \in Trusting /\ \E i \in DOMAIN a : a[i] = "unheard"
  \/ c = "chat_with_peer" /\ \E i \in DOMAIN a : a[i] \notin Known
  \/ c = "reply_audio"

\* The lines of which it is known.
Excused(c, line) ==
  \/ c = "fwd" /\ Len(line) = 1
  \/ c = "broadcast" /\ \A i \in DOMAIN line : line[i] \in Users
  \/ /\ c = "create_channel"
     /\ \E i \in DOMAIN line :
          /\ i > 2 /\ line[i] \in Quoted
          /\ \A j \in 3 .. i - 1 : line[j] \in Users
  \/ Len(line) >= Room
  \/ TakesOnTrust(c, Read(Takes(c), line).args)
Unexpected == {f \in Fatal : ~Excused(f[1], f[2])}

\* Whatever line the running program is given, its handler and the operation
\* that it calls get the arguments that they assert and use. Except for three
\* commands whose row of the table asks for less than their handler, or for more
\* than a line can give: fwd and broadcast without what they are to send, and
\* create_channel with a word in quotes after the users, which is looked for for
\* ever; for a line of more words than there is room for; for reply_audio, whose
\* handler is that of send_audio; and for the printed id of a peer that the
\* client does not know, where a file, a location or the picture of the key is
\* asked of a secret chat, or somebody is chatted with. (interpreter_ex against
\* the assertions of the do_ and tgl_do_ functions)
HandlersGetTheirArguments == Running => Unexpected = {}

\* Wherever it starts from, the login gets to its end. Except that a DC that
\* is learned of while the others are being signed is never signed itself,
\* that a command that asks for words takes the login's dialogue from it, and
\* that the program ends. (tgl_login and what follows it)
Starts == <>(LoginOver \/ Overwritten \/ LeftOver \/ ~Running)

Owed(c) == Cardinality({i \in Ops : ops[i] # NoOp /\ ops[i].by = c})

\* A connection is counted exactly as often as something will still use it,
\* and is there as long: nothing frees it twice, uses it after it was freed
\* or forgets it. (the callbacks of interface.c, event_incoming and
\* do_main_session)
RefsAreHeld ==
  \A c \in Conns :
    /\ refcnt[c] = Owed(c) + kept[c]
                   + (IF link[c] \in {"open", "deaf"} THEN 1 ELSE 0)
                   + (IF notify_ev = c THEN 1 ELSE 0)
    /\ link[c] \in {"none", "freed"} <=> refcnt[c] = 0

\* A connection that was closed is freed in the end, once its commands are
\* answered. Except that it gets the updates for ever, that a command of its
\* is never answered, that its words are asked for by nobody any more, and
\* that a new phone number may be asked about for ever.
Forgotten(c) ==
  \/ kept[c] > 0 \/ notify_ev = c
  \/ \E i \in Ops :
       /\ ops[i].by = c
       /\ ops[i].flow = "phone" \/ ops[i].at = "lost"
LetsGo ==
  \A c \in Conns :
    link[c] = "closed" ~> link[c] = "freed" \/ Forgotten(c) \/ ~Running
=============================================================================
