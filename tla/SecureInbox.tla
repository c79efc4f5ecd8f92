----------------------------- MODULE SecureInbox -----------------------------
(***************************************************************************)
(* The receiving half of the encrypted client: syncSecureInbox in          *)
(* mobile/src/utils/secureMessaging.js and _receiveSecureDelivery in       *)
(* mobile/src/store/messageStore.js, against the relay of SecureRelay.     *)
(*                                                                         *)
(* A device reads its inbox from one window, or in a browser from several. *)
(* Windows share the local history and the deduplication markers, and have *)
(* their own table of running syncs; no lock keeps two of them apart.      *)
(*                                                                         *)
(* Abstracted: what a delivery does to the local history.  A message, an   *)
(* edit, a deletion and a reaction are read alike, and storing one again   *)
(* before anything later is stored changes nothing.  So messages stand for *)
(* all of them here.  A delivery that cannot be decrypted is not modelled. *)
(***************************************************************************)
EXTENDS SecureRelay, SequencesExt

CONSTANTS
  Window, WindowDevice,  \* windows, and the device each belongs to
  BatchSize,             \* envelopes per GET /inbox: 50 in secure.js
  StartOwner,            \* deviceOwner at the start
  StartMembers,          \* members at the start
  MaxFaults              \* bound: interrupted syncs

ASSUME InboxAssumption ==
  /\ WindowDevice \in [Window -> Device]
  /\ BatchSize \in Nat \ {0}
  /\ StartOwner \in [Device -> User \cup {NoUser}]
  /\ StartMembers \in [Conv -> SUBSET User]
  /\ MaxFaults \in Nat

VARIABLES
  addressed,  \* [Device -> dispatches accepted for the device, in order]
  log,        \* durable [Device -> dispatches in the local history, in order]
  seen,       \* durable [Device -> dispatches with a deduplication marker]
  revoked,    \* history [Device -> dispatches taken back before it had them]
  pc,         \* [Window -> step of the running sync]
  batch,      \* [Window -> fetched deliveries not yet done with]
  faults      \* syncs interrupted so far

readerVars == <<log, seen, pc, batch, faults>>
mailVars == <<addressed, revoked>>
inboxVars == <<relayVars, mailVars, readerVars>>

InboxTypeOK ==
  /\ TypeOK
  /\ addressed \in [Device -> Seq(Id)]
  /\ log \in [Device -> Seq(Id)]
  /\ seen \in [Device -> SUBSET Id]
  /\ revoked \in [Device -> SUBSET Id]
  /\ pc \in [Window -> {"idle", "look", "open", "store", "mark", "ack"}]
  /\ batch \in [Window -> Seq(Id)]
  /\ \A w \in Window : pc[w] = "idle" <=> batch[w] = <<>>
  /\ faults \in 0..MaxFaults

InboxInit ==
  /\ accounts = User
  /\ deviceOwner = StartOwner
  /\ live = Conv
  /\ members = StartMembers
  /\ blocks = {}
  /\ dispatch = [i \in Id |-> NoDispatch]
  /\ envelopes = [i \in Id |-> {}]
  /\ payloads = {}
  /\ addressed = [d \in Device |-> <<>>]
  /\ log = [d \in Device |-> <<>>]
  /\ seen = [d \in Device |-> {}]
  /\ revoked = [d \in Device |-> {}]
  /\ pc = [w \in Window |-> "idle"]
  /\ batch = [w \in Window |-> <<>>]
  /\ faults = 0

Stored(d) == ToSet(log[d])

------------------------------------------------------------------------------
(* The relay's side.                                                       *)

\* A message is accepted; createdAt orders the dispatches of the single writer.
PostMessage(u, i) ==
  \E c \in live, d \in DevicesOf(u), x \in Cipher :
    LET r == [conv |-> c, message |-> i, kind |-> "message", device |-> d,
              recipients |-> Roster(c) \ {d}, cipher |-> x]
    IN  /\ Upload(u, i, r)
        /\ addressed' = [e \in Device |-> IF e \in r.recipients
                                          THEN Append(addressed[e], i)
                                          ELSE addressed[e]]
        /\ UNCHANGED <<revoked, readerVars>>

\* What others do to a device's queue.
RosterChange ==
  /\ \/ \E u, v \in User : Block(u, v) \/ Unblock(u, v)
     \/ \E u \in User, c \in Conv : AddMember(u, c) \/ RemoveParticipant(u, c)
  /\ revoked' = [d \in Device |-> revoked[d] \cup
                    {i \in Id : d \in envelopes[i] \ envelopes'[i] /\ i \notin Stored(d)}]
  /\ UNCHANGED <<addressed, readerVars>>

\* Positions of the deliveries owed to d in conversations its user is in.
Owed(d) ==
  {n \in DOMAIN addressed[d] :
     LET i == addressed[d][n]
     IN  d \in envelopes[i] /\ deviceOwner[d] \in members[dispatch[i].request.conv]}

Accessible(d, n) == MayAccess(deviceOwner[d], dispatch[addressed[d][n]].request.conv)

\* Mutant of Listing: the newest deliveries come first.
ListingNewestFirst(d) ==
  {n \in Owed(d) : /\ Cardinality({k \in Owed(d) : k > n}) < BatchSize
                   /\ Accessible(d, n)}

\* GET /inbox: the oldest envelopes, up to BatchSize; those in conversations the
\* user may not access are then left out.
Listing(d) ==
  {n \in Owed(d) : /\ Cardinality({k \in Owed(d) : k < n}) < BatchSize
                   /\ Accessible(d, n)}

\* The positions of S, from the first to the last.
Ascending(S) ==
  {p \in [1..Cardinality(S) -> S] : \A j, k \in DOMAIN p : j < k => p[j] < p[k]}

------------------------------------------------------------------------------
(* One sync: syncSecureInbox.                                              *)

Abandon(w) ==
  /\ pc' = [pc EXCEPT ![w] = "idle"]
  /\ batch' = [batch EXCEPT ![w] = <<>>]

\* The page becomes the window's batch.
Take(w) ==
  LET d == WindowDevice[w]
  IN  /\ \E page \in Ascending(Listing(d)) :
           batch' = [batch EXCEPT ![w] = [k \in DOMAIN page |-> addressed[d][page[k]]]]
      /\ pc' = [pc EXCEPT ![w] = "look"]
      /\ UNCHANGED <<relayVars, mailVars, log, seen, faults>>

\* Mutant of Fetch: an empty inbox is not recognised.
FetchAny(w) == pc[w] = "idle" /\ Take(w)

\* A sync starts, or goes round its loop, with a fresh page of the inbox.
Fetch(w) == pc[w] = "idle" /\ Listing(WindowDevice[w]) # {} /\ Take(w)

\* A delivery with a marker is only acknowledged.
Look(w) ==
  /\ pc[w] = "look"
  /\ pc' = [pc EXCEPT ![w] = IF Head(batch[w]) \in seen[WindowDevice[w]]
                             THEN "ack" ELSE "open"]
  /\ UNCHANGED <<relayVars, mailVars, log, seen, batch, faults>>

\* GET /payload.  Without its envelope, or without access, the sync fails.
Open(w) ==
  LET i == Head(batch[w])
      d == WindowDevice[w]
  IN  /\ pc[w] = "open"
      /\ IF d \in envelopes[i] /\ MayAccess(deviceOwner[d], dispatch[i].request.conv)
         THEN pc' = [pc EXCEPT ![w] = "store"] /\ UNCHANGED batch
         ELSE Abandon(w)
      /\ UNCHANGED <<relayVars, mailVars, log, seen, faults>>

\* Mutant of Store: an interrupted write is not noticed.
StoreSometimes(w) ==
  LET i == Head(batch[w])
      d == WindowDevice[w]
  IN  /\ pc[w] = "store"
      /\ \/ UNCHANGED log
         \/ i \notin Stored(d) /\ log' = [log EXCEPT ![d] = Append(@, i)]
      /\ pc' = [pc EXCEPT ![w] = "mark"]
      /\ UNCHANGED <<relayVars, mailVars, seen, batch, faults>>

\* The delivery is written to the local history.
Store(w) ==
  LET i == Head(batch[w])
      d == WindowDevice[w]
  IN  /\ pc[w] = "store"
      /\ log' = IF i \in Stored(d) THEN log ELSE [log EXCEPT ![d] = Append(@, i)]
      /\ revoked' = [revoked EXCEPT ![d] = @ \ {i}]
      /\ pc' = [pc EXCEPT ![w] = "mark"]
      /\ UNCHANGED <<relayVars, addressed, seen, batch, faults>>

\* The deduplication marker is written.
Mark(w) ==
  /\ pc[w] = "mark"
  /\ seen' = [seen EXCEPT ![WindowDevice[w]] = @ \cup {Head(batch[w])}]
  /\ pc' = [pc EXCEPT ![w] = "ack"]
  /\ UNCHANGED <<relayVars, mailVars, log, batch, faults>>

\* Mutant of Acknowledge: the sync goes on without acknowledging.
AcknowledgeNothing(w) ==
  /\ pc[w] = "ack"
  /\ batch' = [batch EXCEPT ![w] = Tail(@)]
  /\ pc' = [pc EXCEPT ![w] = IF Len(batch[w]) = 1 THEN "idle" ELSE "look"]
  /\ UNCHANGED <<relayVars, mailVars, log, seen, faults>>

\* POST /ack.  A repeated one is answered without a write.  Access is checked as
\* in Ack and never missing: no envelope outlives its reader's access.
Acknowledge(w) ==
  LET i == Head(batch[w])
      d == WindowDevice[w]
  IN  /\ pc[w] = "ack"
      /\ \/ /\ d \in envelopes[i]
            /\ Ack(deviceOwner[d], i, d)
         \/ d \notin envelopes[i] /\ UNCHANGED relayVars
      /\ batch' = [batch EXCEPT ![w] = Tail(@)]
      /\ pc' = [pc EXCEPT ![w] = IF Len(batch[w]) = 1 THEN "idle" ELSE "look"]
      /\ UNCHANGED <<mailVars, log, seen, faults>>

\* The sync stops wherever it is: the window closes or signs out, the network or
\* the local storage fails.
Interrupt(w) ==
  /\ pc[w] # "idle"
  /\ faults < MaxFaults
  /\ faults' = faults + 1
  /\ Abandon(w)
  /\ UNCHANGED <<relayVars, mailVars, log, seen>>

------------------------------------------------------------------------------

ReadStep(w) ==
  \/ Fetch(w) \/ Look(w) \/ Open(w) \/ Store(w) \/ Mark(w)
  \/ Acknowledge(w)

InboxNext ==
  \/ \E u \in User, i \in Id : PostMessage(u, i)
  \/ RosterChange
  \/ \E w \in Window : ReadStep(w) \/ Interrupt(w)

InboxSpec == InboxInit /\ [][InboxNext]_inboxVars

\* A running sync goes on; the 8-second timer, a reconnection or a hint from the
\* server starts the next one.
FairInboxSpec == InboxSpec /\ \A w \in Window : WF_inboxVars(ReadStep(w))

------------------------------------------------------------------------------
(* Properties.                                                             *)

\* The server forgets a delivery only when the device has it in its history and
\* has its marker, or when the delivery is taken back.
AcknowledgedOnlyIfKept ==
  [][UNCHANGED rosterVars =>
       \A d \in Device, i \in Id :
         d \in envelopes[i] \ envelopes'[i] => i \in seen[d] /\ i \in Stored(d)]_inboxVars

\* What is stored a second time is the latest delivery of the history, so that
\* nothing stored after it can be undone by it.
OnlyLatestStoredAgain ==
  \A w \in Window :
    LET d == WindowDevice[w]
    IN  pc[w] = "store" /\ Head(batch[w]) \in Stored(d) => Head(batch[w]) = Last(log[d])

\* The device's history is what DeviceMailbox promises.
Mailbox == INSTANCE DeviceMailbox WITH got <- log

ImplementsMailbox == Mailbox!MailboxSpec

\* Every queued ciphertext is in the end fetched by all its devices, or discarded,
\* and deleted from the server.
EventuallyFlushed == \A i \in Id : i \in payloads ~> i \notin payloads

\* docs/ENCRYPTED_MESSAGING.md: "Duplicate ACK retries do not reapply committed
\* content".  A delivery whose marker is committed is not stored again.
CommittedNeverReapplied ==
  [][\A w \in Window : pc[w] = "store" /\ pc'[w] = "mark" =>
       Head(batch[w]) \notin seen[WindowDevice[w]]]_inboxVars
==============================================================================
