--------------------------- MODULE QueryContract ---------------------------
(***************************************************************************)
(* What the query engine promises to the rest of the program: a request    *)
(* that was made is completed exactly once, by a call of its callback, and *)
(* the program that was told to quit safely does so when every request is  *)
(* complete.                                                               *)
(***************************************************************************)
CONSTANT Query

VARIABLES
  pending,   \* requests made and not completed
  complete,  \* requests whose callback was called
  quit       \* the program has quit

cvars == <<pending, complete, quit>>

Init == pending = {} /\ complete = {} /\ quit = FALSE

\* The program makes a request.
Request(q) ==
  /\ ~quit
  /\ q \notin pending \cup complete
  /\ pending' = pending \cup {q}
  /\ UNCHANGED <<complete, quit>>

\* Its callback is called, with an answer or an error.
Complete(q) ==
  /\ ~quit
  /\ q \in pending
  /\ pending' = pending \ {q}
  /\ complete' = complete \cup {q}
  /\ UNCHANGED quit

\* "Waits for all queries to end, then quits."
Quit ==
  /\ ~quit
  /\ pending = {}
  /\ quit' = TRUE
  /\ UNCHANGED <<pending, complete>>

Next == Quit \/ \E q \in Query : Request(q) \/ Complete(q)

\* A pending request is completed in the end; nobody has to quit.
Spec == Init /\ [][Next]_cvars /\ \A q \in Query : WF_cvars(Complete(q))
=============================================================================
