-------------------------------- MODULE Login --------------------------------
(***************************************************************************)
(* From the start of the program to the end of its login: the data centres *)
(* (DCs) get their keys, the words that identify the account are asked for *)
(* on the terminal, the authorization is exported from the home DC to the  *)
(* others, the state of the account is fetched (tgl_login and what follows *)
(* it in queries.c; on_login, on_started and do_get_values in loop.c).     *)
(*                                                                         *)
(* How a DC gets its keys is in Auth, how a query is sent again, and asks  *)
(* for the password of the account, in Queries.  There is one dialogue     *)
(* for the whole program: whoever asks takes it from the one before.       *)
(***************************************************************************)
EXTENDS Naturals, FiniteSets

CONSTANTS
  Dcs,       \* the data centres in the auth file, or built in
  Late,      \* one that the server tells of only later
  HomeDC,    \* DC_working at the start
  HasFile,   \* BOOLEAN values: the auth file can be read
  Bots       \* kinds of start: "no", "asks" or "given" (bot, bot_hash)

ASSUME LoginAssumption ==
  /\ HomeDC \in Dcs /\ Late \notin Dcs /\ IsFiniteSet(Dcs)
  /\ HasFile \subseteq BOOLEAN /\ Bots \subseteq {"no", "asks", "given"}

VARIABLES
  bot,      \* is_bot, and whether bot_hash is set
  home,     \* DC_working
  known,    \* DC_list
  keyed,    \* those with flag 4: they have their keys and configuration
  signed,   \* those with TGLDCF_LOGGED_IN
  export,   \* of a known DC: the query about its authorization
  login,    \* what the login waits for
  right,    \* the server will accept the words typed last
  dialogue, \* one_string_cb and its argument: who gets the words, which words
  waits,    \* wait_dialog_list
  behind,   \* a pushed hole took TGL_LOCK_DIFF
  logins    \* how often on_login wrote the auth file

accounts == <<home, known, keyed, signed, export>>
loginVars == <<bot, accounts, login, right, dialogue, waits, behind, logins>>

\* Who asks is a command, by its number, or the login, which is 0.
Nobody == [who |-> 0, what |-> "nothing"]
Ask(who, what) == dialogue' = [who |-> who, what |-> what]
Prompt(what) == login' = "prompt" /\ Ask(0, what)

\* The auth file, which is written of DCs that are all signed, is read before
\* tgl_login, which then has nothing to do but to get the difference.
LoginInit ==
  /\ \E file \in HasFile :
       /\ signed = (IF file THEN Dcs ELSE {})
       /\ login = (IF file THEN "difference" ELSE "keys")
       /\ logins = (IF file THEN 1 ELSE 0)
  /\ bot \in Bots /\ waits \in BOOLEAN
  /\ home = HomeDC /\ known = Dcs /\ keyed = {}
  /\ export = [d \in Dcs \cup {Late} |-> "none"]
  /\ right = FALSE /\ dialogue = Nobody /\ behind = FALSE

-----------------------------------------------------------------------------
(* Parts of handlers.                                                      *)

Unsigned(done) == known \ done

\* The account is logged in on every DC: on_login writes the auth file, and
\* asserts of every DC that it is signed; then the difference is asked for,
\* unless one is under way: on_failed_login ends the program.
LoggedIn(done) ==
  /\ IF Unsigned(done) # {} THEN login' = "unwritten" /\ UNCHANGED logins
     ELSE /\ logins' = logins + 1
          /\ login' = IF behind THEN "failed" ELSE "difference"

\* tgl_export_all_auth: one export for each DC not signed.
ExportAll(done) ==
  IF Unsigned(done) = {} THEN LoggedIn(done) /\ UNCHANGED export
  ELSE /\ login' = "exporting" /\ UNCHANGED logins
       /\ export' = [d \in DOMAIN export |->
                       IF d \in Unsigned(done) THEN "export" ELSE export[d]]

\* tgl_sign_in, of a home DC not signed: the first prompt, or a hash that is
\* there already (do_get_values calls back at once).
SignIn ==
  CASE bot = "no" -> Prompt("phone number")
    [] bot = "asks" -> Prompt("bot hash")
    [] bot = "given" -> login' = "bot" /\ UNCHANGED dialogue

\* tgl_login asks for the phone again after a registration was declined: the
\* DCs have their keys since.
Authorized == \A d \in known : d \in signed \cup keyed

-----------------------------------------------------------------------------
(* Keys and configuration.                                                 *)

\* bound: the keys are of interest until the authorization is there.
Early == login \notin {"difference", "dialogs", "channels", "started"}

\* A DC gets its keys and its configuration.
Authorize(d) ==
  /\ Early
  /\ d \in known \ keyed
  /\ keyed' = keyed \cup {d}
  /\ UNCHANGED <<bot, home, known, signed, export, login, right, dialogue,
                 waits, behind, logins>>

\* fetch_dc_option: a configuration, asked for with each key, names one more.
Learn ==
  /\ Early
  /\ known' = known \cup {Late} /\ known' # known
  /\ keyed # {}
  /\ UNCHANGED <<bot, home, keyed, signed, export, login, right, dialogue,
                 waits, behind, logins>>

\* tgl_login, or check_authorized ten times a second.
CheckAuthorized ==
  /\ login = "keys" /\ Authorized
  /\ SignIn
  /\ UNCHANGED <<bot, accounts, right, waits, behind, logins>>

-----------------------------------------------------------------------------
(* The words.  A whole entry is typed at a time, of one string or three.   *)

Typing(what) ==
  /\ dialogue = [who |-> 0, what |-> what]
  /\ UNCHANGED <<bot, accounts, waits, behind, logins>>

\* tgl_sign_in_phone.
TypePhone(ok) ==
  /\ Typing("phone number")
  /\ right' = ok /\ dialogue' = Nobody /\ login' = "code is sent"

\* tgl_sign_in_code, tgl_sign_up_code.
TypeCode(ok) ==
  /\ Typing("code")
  /\ right' = ok /\ dialogue' = Nobody /\ login' = "signing in"

\* tgl_register_cb: names no, no name, or something else is asked again;
\* "n" goes back to tgl_login.
TypeRegistration(entry) ==
  /\ Typing("registration")
  /\ CASE entry = "names" -> Prompt("code")
       [] entry = "unclear" -> Prompt("registration")
       [] entry = "n" /\ Authorized -> SignIn
       [] entry = "n" /\ ~Authorized -> login' = "keys" /\ dialogue' = Nobody
  /\ UNCHANGED right

\* tgl_bot_hash_cb.
TypeHash(ok) ==
  /\ Typing("bot hash")
  /\ right' = ok /\ dialogue' = Nobody /\ login' = "bot"

-----------------------------------------------------------------------------
(* Answers.                                                                *)

\* The phone lives at another DC: the query is sent again there (Queries).
Migrate(d) ==
  /\ login = "code is sent" /\ home = HomeDC /\ d \in keyed \ {home}
  /\ home' = d
  /\ UNCHANGED <<bot, known, keyed, signed, export, login, right, dialogue,
                 waits, behind, logins>>

\* tgl_sign_in_phone_cb.
CodeSent(registered) ==
  /\ login = "code is sent"
  /\ Prompt(IF ~right THEN "phone number"
            ELSE IF registered THEN "code" ELSE "registration")
  /\ UNCHANGED <<bot, accounts, right, waits, behind, logins>>

\* mutant: the words are not asked for again
WrongWordsDropped(what) == UNCHANGED <<login, dialogue>>

WrongWords(what) == Prompt(what)

\* sign_in_on_answer signs the home DC; sign_in_on_error. (tgl_sign_in_result,
\* tgl_sign_up_result, tgl_sign_in_bot_cb)
SignedIn ==
  /\ login \in {"signing in", "bot"}
  /\ \/ /\ right \/ bot = "given"
        /\ signed' = signed \cup {home}
        /\ ExportAll(signed') /\ UNCHANGED dialogue
     \/ /\ ~right /\ bot # "given"
        /\ WrongWords(IF bot = "no" THEN "code" ELSE "bot hash")
        /\ UNCHANGED <<signed, export, logins>>
  /\ UNCHANGED <<bot, home, known, keyed, right, waits, behind>>

\* export_auth_on_answer sends the import to the other DC, which asserts that
\* there is a key for it.
Exported(d) ==
  /\ login = "exporting" /\ export[d] = "export"
  /\ export' = [export EXCEPT ![d] = "import"]
  /\ login' = IF d \in keyed \cup Dcs THEN login ELSE "aborted"
  /\ UNCHANGED <<bot, home, known, keyed, signed, right, dialogue, waits,
                 behind, logins>>

\* mutant: the first DC to be signed ends the login
AllSignedLax(done) == TRUE

\* The loop of tgl_export_auth_callback.
AllSigned(done) == Unsigned(done) = {}

\* import_auth_on_answer.
Imported(d) ==
  /\ login = "exporting" /\ export[d] = "import"
  /\ signed' = signed \cup {d}
  /\ export' = [export EXCEPT ![d] = "none"]
  /\ IF AllSigned(signed') THEN LoggedIn(signed')
     ELSE UNCHANGED <<login, logins>>
  /\ UNCHANGED <<bot, home, known, keyed, right, dialogue, waits, behind>>

\* fail_on_error.
ExportRefused(d) ==
  /\ login = "exporting" /\ export[d] # "none"
  /\ login' = "aborted"
  /\ UNCHANGED <<bot, accounts, right, dialogue, waits, behind, logins>>

\* The server pushes an update with a hole before it (Updates), or answers
\* about one.
Push ==
  /\ login = "exporting"
  /\ behind' = ~behind
  /\ UNCHANGED <<bot, accounts, login, right, dialogue, waits, logins>>

\* tgl_started_cb, and on_started, which may ask for the dialogs and then for
\* the channels first.
Difference(ok) ==
  /\ login = "difference"
  /\ login' = IF ~ok THEN "failed" ELSE IF waits THEN "dialogs"
              ELSE "started"
  /\ waits' = FALSE
  /\ UNCHANGED <<bot, accounts, right, dialogue, behind, logins>>

\* dlist_cb and clist_cb, whatever the answer is.
DialogsListed ==
  /\ login \in {"dialogs", "channels"}
  /\ login' = IF login = "dialogs" THEN "channels" ELSE "started"
  /\ UNCHANGED <<bot, accounts, right, dialogue, waits, behind, logins>>

LoginAnswered ==
  \/ \E registered \in BOOLEAN : CodeSent(registered)
  \/ SignedIn
  \/ \E d \in Dcs \cup {Late} : Exported(d) \/ Imported(d)
  \/ Difference(TRUE)
  \/ DialogsListed

\* A person types at the login's prompt.
LoginTyped ==
  \/ \E ok \in BOOLEAN : TypePhone(ok) \/ TypeCode(ok) \/ TypeHash(ok)
  \/ \E entry \in {"names", "unclear", "n"} : TypeRegistration(entry)

LoginNext ==
  \/ Learn \/ CheckAuthorized
  \/ \E d \in Dcs \cup {Late} : Authorize(d) \/ Migrate(d) \/ ExportRefused(d)
  \/ LoginTyped \/ LoginAnswered \/ Push \/ Difference(FALSE)

-----------------------------------------------------------------------------
\* The auth file is written once in a login, when every DC that was known at
\* the start is signed and no query about an authorization is left open: the
\* answers about the other DCs, in any order, neither end the login too early,
\* where write_dc would fail its assertion, nor twice; nor does a registration
\* that was declined and begun again. (tgl_export_auth_callback, on_login)
LogsInOnce ==
  /\ login # "unwritten"
  /\ logins = (IF login \in {"failed", "difference", "dialogs", "channels",
                            "started"} THEN 1 ELSE 0)
  /\ logins = 1 => /\ Dcs \subseteq signed
                   /\ \A d \in DOMAIN export : export[d] = "none"

\* The login is over, or the program is.
LoginOver == login \in {"started", "failed", "aborted", "unwritten"}

\* A prompt of the login whose words go to somebody else.
Overwritten ==
  login = "prompt" /\ (dialogue.who # 0 \/ dialogue = Nobody)

\* A DC that was learned of while the others were being signed.
LeftOver ==
  /\ login = "exporting"
  /\ Late \in known \ signed /\ export[Late] = "none"
=============================================================================
