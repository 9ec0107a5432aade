------------------------------ MODULE MCClient ------------------------------
(***************************************************************************)
(* Two parts of the client that do not meet, in one run: a list fetched    *)
(* page by page, of every kind, with limits and (but for the dialogs)      *)
(* offsets inside, at and past the end of it and of the pages; and the     *)
(* program itself, where a socket is only listened to when the account is  *)
(* in the auth file.                                                       *)
(***************************************************************************)
EXTENDS Paging, Console

MCKinds == {"history", "channel history", "local", "search", "global search",
            "dialogs", "channels", "members"}
MCLimits == 1..7
MCOffsets == {0, 1, 2, 4, 6}
MCLengths == 0..6

\* A call that is over, and a program that has ended.
NoCall ==
  /\ kind = "history" /\ limit = 1 /\ offset = 0
  /\ list = <<>> /\ got = <<>> /\ first = <<>>
  /\ E = [offset |-> 0, limit |-> 1, max_id |-> 0] /\ phase = "done"
NoProgram ==
  /\ ConsoleStart /\ over = "halted"
  /\ bot = "no" /\ signed = {} /\ ~waits
  /\ ~listening /\ ~daemonize /\ ~start_command

ClientInit ==
  \/ Init /\ NoProgram
  \/ /\ NoCall /\ ConsoleInit
     /\ listening => login # "keys" /\ ~waits /\ ~start_command
     /\ daemonize => listening

ClientNext ==
  \/ Next /\ UNCHANGED consoleVars
  \/ ConsoleNext /\ UNCHANGED vars

ClientSpec ==
  /\ ClientInit /\ [][ClientNext]_<<vars, consoleVars>>
  /\ Fairness /\ ConsoleFairness
=============================================================================
