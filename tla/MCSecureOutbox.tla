--------------------------- MODULE MCSecureOutbox ---------------------------
(* Instances of SecureOutbox: the sender "me", the reader "you", and for the *)
(* group "they".  Device mine is the sender's and yours the reader's from    *)
(* the start.  Device theirs is that of "they", or in the instance with two  *)
(* windows the sender's tablet; there device late may be registered by       *)
(* either while messages are under way.                                      *)
EXTENDS SecureOutbox, TLC

CONSTANTS me, you, they, mine, yours, theirs, late, chat

DirectChat == chat :> "direct"
GroupChat == chat :> "group"

TwoDevices == (mine :> me) @@ (yours :> you)
TabletDevice == TwoDevices @@ (theirs :> me) @@ (late :> NoUser)
ThreeDevices == TwoDevices @@ (theirs :> they)

\* The windows of a client are interchangeable.
WindowSymmetry == Permutations(Tab)
==============================================================================
