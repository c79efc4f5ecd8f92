---------------------------- MODULE MCSecureInbox ----------------------------
(* Instances of SecureInbox: the users "me" and "you" with a device each, a  *)
(* direct chat and a group.                                                  *)
EXTENDS SecureInbox, TLC

CONSTANTS me, you, mine, yours, direct, group, w1, w2, w3

Kinds == (direct :> "direct") @@ (group :> "group")
DirectKind == direct :> "direct"

Owners == (mine :> me) @@ (yours :> you)
BothInBoth == [c \in Conv |-> User]

\* One window on each device; two on the reader's; a third on the other one.
WindowEach == (w1 :> yours) @@ (w2 :> mine)
TwoWindows == (w1 :> yours) @@ (w2 :> yours)
ThreeWindows == TwoWindows @@ (w3 :> mine)
==============================================================================
