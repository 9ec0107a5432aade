----------------------------- MODULE MCRequests ----------------------------
(***************************************************************************)
(* Two parts that do not meet, in one run: requests, as in MCQueries; and  *)
(* the peers that answers and updates tell of, some of which are called    *)
(* alike, with usernames that stay where they are or go from one to        *)
(* another.                                                                *)
(***************************************************************************)
EXTENDS Queries, Peers

CONSTANTS q1, q2, d1

MCFirstSession == [d \in DC |-> 1]

MCUser == {"ann", "bob"}
MCGroup == {"chat"}
MCChannel == {"news"}
MCSecret == {"secret"}
MCPartner == [s \in MCSecret |-> "ann"]
MCTitle == {"A", "!A"}
MCUsername == {"x", "y"}
\* Somebody is called what the secret chat with A is called.
MCPrinted == [t \in MCTitle |-> IF t = "A" THEN "A" ELSE "!_A"]
MCBang ==
  [t \in MCTitle \cup {NoTitle} \cup MCUser |->
     IF t = NoTitle THEN "!" ELSE IF t = "A" THEN "!_A"
     ELSE IF t = "!A" THEN "!_!A" ELSE "!_user"]
Past(ann, bob, channel) ==
  [i \in MCUser \cup MCChannel |->
     IF i = "ann" THEN ann ELSE IF i = "bob" THEN bob ELSE channel]
\* The last is that of a program without peers.
MCPasts ==
  {Past({"x", ""}, {}, {"y"}), Past({"x", ""}, {"x", ""}, {}),
   Past({}, {}, {})}
NoPeers == had = Past({}, {}, {})

\* A program that makes no requests any more.
NoRequests == Fresh /\ process = "aborted"

RequestsInit == PeersInit /\ (IF NoPeers THEN Init ELSE NoRequests)

RequestsNext ==
  \/ NoPeers /\ Next /\ UNCHANGED peerVars
  \/ ~NoPeers /\ PeersNext /\ UNCHANGED vars

RequestsSpec ==
  RequestsInit /\ [][RequestsNext]_<<vars, peerVars>> /\ Fairness
=============================================================================
