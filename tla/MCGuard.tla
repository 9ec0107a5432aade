------------------------------- MODULE MCGuard -------------------------------
(* The pipeline of messages with an admin, a moderator, a plain user and    *)
(* somebody who is banned soon, in two supergroups that set different locks. *)
EXTENDS Guard, TLC

CONSTANTS boss, ann, bob, c1, c2, old, pm

MCUser == {boss, ann, bob}
MCChat == {c1, c2, old, pm}
MCOwners == [c \in MCChat |-> IF c = c1 THEN {ann} ELSE {}]
MCFloodMax == [c \in MCChat |-> IF c = c1 THEN 1 ELSE 0]

\* The plugins that work on every message, first and last.
MCOrders ==
  {<<"anti_spam", "banhammer", "msg_checks", "fwd", "run", "filter", "join",
     "owners">>,
   <<"owners", "join", "filter", "run", "fwd", "msg_checks", "banhammer",
     "anti_spam">>}

Set(yes, no) ==
  [l \in Lock |->
     IF l \in yes THEN "yes" ELSE IF l \in no THEN "no" ELSE "unset"]

\* One group with all locks, and one that has opened a filter.
MCSettings ==
  {[c \in MCChat |-> CASE c = c1 -> Set(Lock \ {"All"}, {})
                       [] c = c2 -> Set({"flood"}, {"filter"})
                       [] OTHER -> Set({}, {})]}

Msg(u, c, kind, trait, w) ==
  [from |-> u, chat |-> c, kind |-> kind, trait |-> trait, whom |-> w]
Private(u, g, cmd, w) ==
  [from |-> u, chat |-> pm, kind |-> "owners", group |-> g, trait |-> cmd,
   whom |-> w]
Cmd(u, c, cmd, by, w) ==
  [from |-> u, chat |-> c, kind |-> "command", trait |-> cmd, by |-> by,
   whom |-> w]

MCMessages ==
  {Msg(bob, c1, "text", "ad", bob), Msg(bob, c2, "text", "ad", bob),
   Msg(bob, c2, "forward", "plain", bob), Msg(bob, c1, "join", "rtl", bob),
   Msg(bob, old, "media", "audio", bob), Msg(ann, c2, "add", "plain", bob),
   Cmd(ann, c1, "ban", "name", bob), Cmd(ann, c1, "ban", "number", bob),
   Cmd(bob, c1, "kick", "name", ann), Cmd(boss, c1, "ban", "reply", ann),
   Cmd(boss, c2, "banall", "number", bob),
   Cmd(boss, pm, "ban", "number", bob),
   Private(ann, c1, "ban", bob), Private(ann, c1, "unban", bob)}
=============================================================================
