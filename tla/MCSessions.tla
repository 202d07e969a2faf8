----------------------------- MODULE MCSessions -----------------------------
(* Two mailboxes, one of them with an account of an old Google sign-in, and *)
(* two tabs.  Mailboxes without an account are interchangeable, tabs too.   *)
EXTENDS Sessions, TLC

CONSTANTS old, new

MCMailboxes == {old, new}
MCLegacy == <<old>>
MCSymmetry == Permutations(Tabs)
=============================================================================
