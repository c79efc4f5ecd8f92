---------------------------- MODULE MCSecureRelay ----------------------------
(* A small instance of SecureRelay: a direct chat, a group and one user's    *)
(* Personal Notes.                                                           *)
EXTENDS SecureRelay, TLC

CONSTANTS direct, group, notes

AllKinds == (direct :> "direct") @@ (group :> "group") @@ (notes :> "notes")

\* Users, devices and dispatch ids are interchangeable; conversations are not.
RelaySymmetry == Permutations(User) \cup Permutations(Device) \cup Permutations(Id)
==============================================================================
