---------------------------- MODULE EventStream ----------------------------
(***************************************************************************)
(* What keeping up with the server promises to the rest of the program: it *)
(* reads two numbered streams of events front to back.  A process goes on  *)
(* where the saved position says, takes every event from there exactly     *)
(* once and in order, and skips events only while it has no position yet.  *)
(***************************************************************************)
EXTENDS Integers

CONSTANTS Box, MaxNumber

VARIABLES
  events,  \* what happened, each event with its box and its number at
  upto,    \* the position of the running process in each box
  saved,   \* the position the next process starts from
  seen     \* the events the running process has taken

vars == <<events, upto, saved, seen>>

Init == /\ events = {} /\ seen = {}
        /\ upto = [b \in Box |-> 0] /\ saved = upto

\* Something happens, beyond every position.
Publish ==
  /\ events \subseteq events'
  /\ \A e \in events' \ events : e.at > upto[e.box] /\ e.at > saved[e.box]
  /\ UNCHANGED <<upto, saved, seen>>

\* The process moves on; while its position in pts is 0 it may skip.
Take ==
  \E from \in [Box -> 0 .. MaxNumber] :
    /\ \A b \in Box : upto[b] <= from[b] /\ from[b] <= upto'[b]
    /\ upto["pts"] # 0 => from = upto
    /\ seen' = seen \cup
         {e \in events : from[e.box] < e.at /\ e.at <= upto'[e.box]}
    /\ UNCHANGED <<events, saved>>

Save == saved' = upto /\ UNCHANGED <<events, upto, seen>>

Again == upto' = saved /\ seen' = {} /\ UNCHANGED <<events, saved>>

Next == Publish \/ Take \/ Save \/ Again

Spec == Init /\ [][Next]_vars
=============================================================================
