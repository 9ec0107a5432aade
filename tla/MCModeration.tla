---------------------------- MODULE MCModeration ----------------------------
(* The moderation record with a bot, an admin, two users and two groups. *)
EXTENDS Moderation, TLC

CONSTANTS us, boss, ann, bob, c1, c2

MCUser == {us, boss, ann, bob}
MCAdmin == {boss}
MCSudo == {boss}
MCSupport == {}
MCNameless == {bob}
MCChat == {c1, c2}
MCLock == {"lock_spam"}
MCText == {"rules"}
MCKind == {"Audio"}

Symmetric == Permutations(MCChat)
=============================================================================
