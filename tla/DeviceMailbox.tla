---------------------------- MODULE DeviceMailbox ----------------------------
(* What encrypted delivery promises a receiving device: deliveries come once *)
(* each, in the order in which the server accepted them, and only a delivery *)
(* that was taken back (a block, a departure) may be missing from the order. *)
(* docs/ENCRYPTED_MESSAGING.md, "Persistence, receipts, and retries".        *)
EXTENDS Sequences, SequencesExt, Naturals

CONSTANTS Device, Id

VARIABLES
  addressed,  \* [Device -> deliveries accepted for the device, in order]
  got,        \* [Device -> deliveries in its local history, in order]
  revoked     \* [Device -> deliveries taken back before it had them]

mailboxVars == <<addressed, got, revoked>>

MailboxInit ==
  /\ addressed = [d \in Device |-> <<>>]
  /\ got = [d \in Device |-> <<>>]
  /\ revoked = [d \in Device |-> {}]

\* One delivery is accepted for the devices D.
Post(i, D) ==
  /\ \A d \in Device : i \notin ToSet(addressed[d])
  /\ addressed' = [d \in Device |-> IF d \in D THEN Append(addressed[d], i)
                                    ELSE addressed[d]]
  /\ UNCHANGED <<got, revoked>>

\* Deliveries are taken back, from any number of devices at once.
Revoke ==
  /\ \A d \in Device : /\ revoked[d] \subseteq revoked'[d]
                       /\ revoked'[d] \subseteq ToSet(addressed[d]) \ ToSet(got[d])
  /\ revoked' = [d \in Device |-> revoked'[d]]
  /\ UNCHANGED <<addressed, got>>

\* Device d stores delivery i, every earlier one being stored or taken back and no
\* later one stored.  One already fetched when it is taken back may still be stored,
\* and then also late.
Deliver(d, i) ==
  /\ i \in ToSet(addressed[d]) \ ToSet(got[d])
  /\ \A k, n \in 1..Len(addressed[d]) :
       k < n /\ addressed[d][n] = i => addressed[d][k] \in ToSet(got[d]) \cup revoked[d]
  /\ i \notin revoked[d] => \A k, n \in 1..Len(addressed[d]) :
       k < n /\ addressed[d][k] = i => addressed[d][n] \notin ToSet(got[d])
  /\ got' = [got EXCEPT ![d] = Append(@, i)]
  /\ revoked' = [revoked EXCEPT ![d] = @ \ {i}]
  /\ UNCHANGED addressed

MailboxNext ==
  \/ \E i \in Id, D \in SUBSET Device : Post(i, D)
  \/ Revoke
  \/ \E d \in Device, i \in Id : Deliver(d, i)

MailboxSpec == MailboxInit /\ [][MailboxNext]_mailboxVars
==============================================================================
