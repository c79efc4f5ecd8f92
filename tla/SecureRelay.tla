----------------------------- MODULE SecureRelay -----------------------------
(***************************************************************************)
(* The encrypted relay of the LoopTalk server: device registration, the    *)
(* upload of an encrypted dispatch, its per-device envelopes and its one   *)
(* payload, acknowledgement, and every other handler that deletes relay    *)
(* rows (leaving or being removed from a group, blocking, account          *)
(* deletion).  Sources: server/src/routes/secure.js, utils/secureRelay.js, *)
(* and the row-deleting parts of routes/conversations.js, users.js and     *)
(* auth.js.                                                                *)
(*                                                                         *)
(* Every mutation of the relay runs inside secureTransaction, a queue of   *)
(* interactive transactions over a single-writer database; one commit is   *)
(* one step here.  A rejected request changes no row and is not a step of  *)
(* this module; its reply is Verdict, which SecureOutbox hands to the      *)
(* client.                                                                 *)
(*                                                                         *)
(* Abstracted: key bytes, nonces and signatures (a public key is fixed by  *)
(* its device, which is immutable), lastMessageAt, socket and push hints   *)
(* (best effort, and the client polls as well), group roles, and how a     *)
(* one-to-one conversation is found again.                                 *)
(***************************************************************************)
EXTENDS FiniteSets, Naturals

CONSTANTS
  User,         \* accounts
  Device,       \* encryption device ids (SecureDevice.deviceId)
  Conv,         \* conversation ids
  ConvKind,     \* [Conv -> {"direct", "group", "notes"}]
  Id,           \* dispatch ids; a logical message id is the id of a dispatch
  Cipher,       \* encrypted payloads
  MaxDevices,   \* devices one user may register: 32 in secure.js
  NoUser,       \* deviceOwner of a device id that is not registered
  NoDispatch    \* dispatch of an id that was never accepted

OpKind == {"message", "edit", "delete", "reaction", "history"}

\* What an upload says of itself; with the sender this is what the server hashes.
Request == [conv: Conv, message: Id, kind: OpKind, device: Device,
            recipients: SUBSET Device, cipher: Cipher]

\* A SecureDispatch row: the request it recorded and the user who sent it.
Dispatch == [request: Request, sender: User]

ASSUME RelayAssumption ==
  /\ ConvKind \in [Conv -> {"direct", "group", "notes"}]
  /\ NoUser \notin User
  /\ NoDispatch \notin Dispatch
  /\ MaxDevices \in Nat
  /\ IsFiniteSet(Device)

VARIABLES
  accounts,     \* users that exist
  deviceOwner,  \* [Device -> User or NoUser]: SecureDevice rows
  live,         \* conversations that exist
  members,      \* [Conv -> set of users]: ConversationParticipant rows
  blocks,       \* pairs <<u, v>>: u has blocked v
  dispatch,     \* [Id -> Dispatch or NoDispatch]: content-free receipts
  envelopes,    \* [Id -> set of devices with an undelivered envelope]
  payloads      \* ids whose ciphertext the server still holds

relayVars == <<accounts, deviceOwner, live, members, blocks, dispatch,
               envelopes, payloads>>

rosterVars == <<accounts, deviceOwner, live, members, blocks>>
queueVars == <<dispatch, envelopes, payloads>>

TypeOK ==
  /\ accounts \in SUBSET User
  /\ deviceOwner \in [Device -> User \cup {NoUser}]
  /\ live \in SUBSET Conv
  /\ members \in [Conv -> SUBSET User]
  /\ blocks \in SUBSET (User \X User)
  /\ dispatch \in [Id -> Dispatch \cup {NoDispatch}]
  /\ envelopes \in [Id -> SUBSET Device]
  /\ payloads \in SUBSET Id

Init ==
  /\ accounts = User
  /\ deviceOwner = [d \in Device |-> NoUser]
  /\ live = {}
  /\ members = [c \in Conv |-> {}]
  /\ blocks = {}
  /\ dispatch = [i \in Id |-> NoDispatch]
  /\ envelopes = [i \in Id |-> {}]
  /\ payloads = {}

------------------------------------------------------------------------------
(* Lookups the handlers share.                                             *)

DevicesOf(u) == {d \in Device : deviceOwner[d] = u}

Accepted(i) == dispatch[i] # NoDispatch

\* Accepted dispatches of a conversation.
DispatchedIn(c) == {i \in Id : Accepted(i) /\ dispatch[i].request.conv = c}

\* A block in either direction between the two members of a direct chat.
DirectBlocked(c) ==
  /\ ConvKind[c] = "direct"
  /\ \E x, y \in members[c] : <<x, y>> \in blocks

\* membership() does not throw for user u in conversation c.
MayAccess(u, c) == c \in live /\ u \in members[c] /\ ~DirectBlocked(c)

\* Devices of all participants.
Roster(c) == {d \in Device : deviceOwner[d] \in members[c]}

SomeoneHasNoDevice(c) == \E u \in members[c] : DevicesOf(u) = {}

\* Mutant of Expected: a history transfer is not restricted to own devices.
ExpectedOfAnyOwner(u, r) ==
  IF r.kind = "history" THEN r.recipients \ {r.device}
  ELSE Roster(r.conv) \ {r.device}

\* The devices an upload must address: a history transfer reaches only the
\* listed own devices, everything else exactly the other devices of the roster.
Expected(u, r) ==
  IF r.kind = "history"
  THEN (r.recipients \cap DevicesOf(u)) \ {r.device}
  ELSE Roster(r.conv) \ {r.device}

\* The dispatch that created logical message r.message in r.conv, if any.
Original(r) ==
  {i \in DispatchedIn(r.conv) : /\ dispatch[i].request.kind = "message"
                                /\ dispatch[i].request.message = r.message}

\* Mutant of TargetVerdict: anyone in the conversation may edit or delete.
TargetVerdictAnySender(u, r) ==
  IF r.kind = "message" /\ Original(r) # {} THEN "MESSAGE_EXISTS"
  ELSE IF r.kind \in {"edit", "delete", "reaction"} /\ Original(r) = {}
       THEN "MESSAGE_NOT_FOUND"
  ELSE "created"

\* The checks against the logical message that the upload creates or changes.
TargetVerdict(u, r) ==
  IF r.kind = "message" /\ Original(r) # {} THEN "MESSAGE_EXISTS"
  ELSE IF r.kind \in {"edit", "delete", "reaction"} /\ Original(r) = {}
       THEN "MESSAGE_NOT_FOUND"
  ELSE IF /\ r.kind \in {"edit", "delete"}
          /\ \E o \in Original(r) : dispatch[o].sender # u
       THEN "OPERATION_NOT_AUTHORIZED"
  ELSE "created"

\* The reply to user u uploading request r under dispatch id i: the checks of
\* the handler in the order in which it makes them.
Verdict(u, i, r) ==
  IF deviceOwner[r.device] # u THEN "DEVICE_NOT_OWNED"
  ELSE IF ~MayAccess(u, r.conv) THEN "NOT_PARTICIPANT_OR_BLOCKED"
  ELSE IF Accepted(i)
       THEN IF dispatch[i] = [request |-> r, sender |-> u]
            THEN "duplicate" ELSE "DISPATCH_CONFLICT"
  ELSE IF r.kind = "history" /\ ConvKind[r.conv] # "notes"
       THEN "HISTORY_OWN_DEVICES_ONLY"
  ELSE IF r.kind = "history" /\ Expected(u, r) = {}
       THEN "HISTORY_RECIPIENT_REQUIRED"
  ELSE IF r.kind # "history" /\ SomeoneHasNoDevice(r.conv)
       THEN "MISSING_RECIPIENT_DEVICES"
  ELSE IF Expected(u, r) # r.recipients THEN "RECIPIENTS_CHANGED"
  ELSE TargetVerdict(u, r)

------------------------------------------------------------------------------
(* Accounts' devices and conversations.                                    *)

\* POST /devices.  Registering the same device again is answered without a
\* write; another owner for it is refused.
RegisterDevice(u, d) ==
  /\ u \in accounts
  /\ deviceOwner[d] = NoUser
  /\ Cardinality(DevicesOf(u)) < MaxDevices
  /\ deviceOwner' = [deviceOwner EXCEPT ![d] = u]
  /\ UNCHANGED <<accounts, live, members, blocks, queueVars>>

CreateConversation(c, S) ==
  /\ c \notin live
  /\ live' = live \cup {c}
  /\ members' = [members EXCEPT ![c] = S]
  /\ UNCHANGED <<accounts, deviceOwner, blocks, queueVars>>

\* POST /conversations/direct/:userId.  The block lookup, the search for an
\* existing chat and the insert are separate statements outside any
\* transaction, so at the insert the pair may have blocked each other or may
\* already share a chat.
CreateDirect(u, v, c) ==
  /\ ConvKind[c] = "direct"
  /\ u # v
  /\ {u, v} \subseteq accounts
  /\ CreateConversation(c, {u, v})

\* POST /conversations: a group of its creator and at least one other.
CreateGroup(u, S, c) ==
  /\ ConvKind[c] = "group"
  /\ u \in accounts
  /\ S \subseteq accounts
  /\ S \ {u} # {}
  /\ CreateConversation(c, S \cup {u})

\* GET /conversations upserts the caller's one Personal Notes conversation.
OpenNotes(u, c) ==
  /\ ConvKind[c] = "notes"
  /\ u \in accounts
  /\ \A n \in live : ConvKind[n] = "notes" => members[n] # {u}
  /\ CreateConversation(c, {u})

\* POST /conversations/:id/members: the insert.  Its role check came earlier.
AddMember(v, c) ==
  /\ c \in live
  /\ ConvKind[c] = "group"
  /\ v \in accounts \ members[c]
  /\ members' = [members EXCEPT ![c] = @ \cup {v}]
  /\ UNCHANGED <<accounts, deviceOwner, live, blocks, queueVars>>

------------------------------------------------------------------------------
(* Messages.                                                               *)

\* Mutant of Upload: the receipt does not record the sender.
UploadWithoutSender(u, i, r) ==
  /\ Verdict(u, i, r) = "created"
  /\ dispatch' = [dispatch EXCEPT ![i] = r]
  /\ envelopes' = [envelopes EXCEPT ![i] = r.recipients]
  /\ payloads' = IF r.recipients = {} THEN payloads ELSE payloads \cup {i}
  /\ UNCHANGED rosterVars

\* POST /conversations/:id/messages that is accepted for the first time.  An
\* upload nobody else has to receive leaves only its receipt.
Upload(u, i, r) ==
  /\ Verdict(u, i, r) = "created"
  /\ dispatch' = [dispatch EXCEPT ![i] = [request |-> r, sender |-> u]]
  /\ envelopes' = [envelopes EXCEPT ![i] = r.recipients]
  /\ payloads' = IF r.recipients = {} THEN payloads ELSE payloads \cup {i}
  /\ UNCHANGED rosterVars

\* POST /messages/:id/ack: the last envelope takes the payload with it.
Ack(u, i, d) ==
  /\ deviceOwner[d] = u
  /\ d \in envelopes[i]
  /\ MayAccess(u, dispatch[i].request.conv)
  /\ envelopes' = [envelopes EXCEPT ![i] = @ \ {d}]
  /\ payloads' = IF envelopes'[i] = {} THEN payloads \ {i} ELSE payloads
  /\ UNCHANGED <<rosterVars, dispatch>>

------------------------------------------------------------------------------
(* Handlers that take deliveries back.                                     *)

\* Mutants of Prune: emptied payloads stay; nothing is pruned.
PruneKeepsPayloads(c, u) ==
  /\ envelopes' = [i \in Id |-> IF i \in DispatchedIn(c)
                                THEN envelopes[i] \ DevicesOf(u)
                                ELSE envelopes[i]]
  /\ UNCHANGED <<payloads, dispatch>>
PruneNothing(c, u) == UNCHANGED queueVars

\* pruneSecureRecipient: the user's envelopes in the conversation go, then
\* every payload of the conversation that has no envelope left.
Prune(c, u) ==
  /\ envelopes' = [i \in Id |-> IF i \in DispatchedIn(c)
                                THEN envelopes[i] \ DevicesOf(u)
                                ELSE envelopes[i]]
  /\ payloads' = {i \in payloads : i \in DispatchedIn(c) => envelopes'[i] # {}}
  /\ UNCHANGED dispatch

\* The transaction that leaving a group (conversations.js:518) and removing a
\* member (conversations.js:467) share: the participant row and the pruning.
RemoveParticipant(u, c) ==
  /\ c \in live
  /\ ConvKind[c] = "group"
  /\ u \in members[c]
  /\ members' = [members EXCEPT ![c] = @ \ {u}]
  /\ Prune(c, u)
  /\ UNCHANGED <<accounts, deviceOwner, live, blocks>>

\* The rows of conversations D are deleted, and by cascade all they own.
CascadeConversations(D) ==
  LET gone == UNION {DispatchedIn(c) : c \in D}
  IN  /\ live' = live \ D
      /\ dispatch' = [i \in Id |-> IF i \in gone THEN NoDispatch ELSE dispatch[i]]

\* POST /:id/leave by the last member deletes the group.  That nobody else is in
\* it was read before and outside any transaction: by now somebody may be.
DismissGroup(c) ==
  /\ c \in live
  /\ ConvKind[c] = "group"
  /\ CascadeConversations({c})
  /\ members' = [members EXCEPT ![c] = {}]
  /\ envelopes' = [i \in Id |-> IF i \in DispatchedIn(c) THEN {} ELSE envelopes[i]]
  /\ payloads' = payloads \ DispatchedIn(c)
  /\ UNCHANGED <<accounts, deviceOwner, blocks>>

\* Mutants of Block: the queues are left as they are; the receipts go with them.
BlockOnly(u, v) ==
  /\ u # v
  /\ {u, v} \subseteq accounts
  /\ blocks' = blocks \cup {<<u, v>>}
  /\ UNCHANGED <<accounts, deviceOwner, live, members, queueVars>>
BlockDropsReceipts(u, v) ==
  /\ u # v
  /\ {u, v} \subseteq accounts
  /\ blocks' = blocks \cup {<<u, v>>}
  /\ LET shared == {c \in live : ConvKind[c] = "direct" /\ {u, v} \subseteq members[c]}
         dropped == UNION {DispatchedIn(c) : c \in shared}
     IN  /\ dispatch' = [i \in Id |-> IF i \in dropped THEN NoDispatch ELSE dispatch[i]]
         /\ envelopes' = [i \in Id |-> IF i \in dropped THEN {} ELSE envelopes[i]]
         /\ payloads' = payloads \ dropped
  /\ UNCHANGED <<accounts, deviceOwner, live, members>>

\* POST /users/:userId/block empties the queues of the pair's direct chats.
Block(u, v) ==
  /\ u # v
  /\ {u, v} \subseteq accounts
  /\ blocks' = blocks \cup {<<u, v>>}
  /\ LET shared == {c \in live : ConvKind[c] = "direct" /\ {u, v} \subseteq members[c]}
         dropped == UNION {DispatchedIn(c) : c \in shared}
     IN  /\ envelopes' = [i \in Id |-> IF i \in dropped THEN {} ELSE envelopes[i]]
         /\ payloads' = payloads \ dropped
  /\ UNCHANGED <<accounts, deviceOwner, live, members, dispatch>>

\* POST /users/:userId/unblock never requeues anything.
Unblock(u, v) ==
  /\ <<u, v>> \in blocks
  /\ blocks' = blocks \ {<<u, v>>}
  /\ UNCHANGED <<accounts, deviceOwner, live, members, queueVars>>

\* DELETE /account.  Each membership is pruned; its conversation goes too unless
\* it is a group somebody else is still in; then the user row goes, and by
\* cascade its memberships, blocks, devices and their envelopes.
DeleteAccount(u) ==
  LET joined == {c \in live : u \in members[c]}
      dead == {c \in joined : ConvKind[c] # "group" \/ members[c] = {u}}
      pruned == UNION {DispatchedIn(c) : c \in joined}
      gone == UNION {DispatchedIn(c) : c \in dead}
  IN  /\ u \in accounts
      /\ accounts' = accounts \ {u}
      /\ deviceOwner' = [d \in Device |-> IF deviceOwner[d] = u THEN NoUser
                                          ELSE deviceOwner[d]]
      /\ members' = [c \in Conv |-> IF c \in dead THEN {} ELSE members[c] \ {u}]
      /\ blocks' = {b \in blocks : b[1] # u /\ b[2] # u}
      /\ CascadeConversations(dead)
      /\ envelopes' = [i \in Id |-> IF i \in gone THEN {}
                                    ELSE envelopes[i] \ DevicesOf(u)]
      /\ payloads' = {i \in payloads \ gone : i \in pruned => envelopes'[i] # {}}

------------------------------------------------------------------------------

RosterStep ==
  \/ \E u \in User, d \in Device : RegisterDevice(u, d)
  \/ \E u, v \in User, c \in Conv : CreateDirect(u, v, c)
  \/ \E u \in User, S \in SUBSET User, c \in Conv : CreateGroup(u, S, c)
  \/ \E u \in User, c \in Conv : OpenNotes(u, c)
  \/ \E u \in User, c \in Conv : AddMember(u, c)
  \/ \E u \in User, c \in Conv : RemoveParticipant(u, c)
  \/ \E c \in Conv : DismissGroup(c)
  \/ \E u, v \in User : Block(u, v)
  \/ \E u, v \in User : Unblock(u, v)
  \/ \E u \in User : DeleteAccount(u)

\* The requests of user u that can get past the first checks: from one of its
\* devices, in a conversation it is in, to registered devices.
Requests(u) ==
  UNION {[conv: {c}, message: Id, kind: OpKind, device: DevicesOf(u),
          recipients: SUBSET {d \in Device : deviceOwner[d] # NoUser}, cipher: Cipher] :
         c \in {c \in live : u \in members[c]}}

\* What is uploaded under an id: anything at first; once it is accepted the same
\* again, every other request being refused as a conflict.
Uploads(u, i) == IF Accepted(i) THEN {dispatch[i].request} ELSE Requests(u)

Next ==
  \/ RosterStep
  \/ \E u \in User, i \in Id : \E r \in Uploads(u, i) : Upload(u, i, r)
  \/ \E u \in User, i \in Id, d \in Device : Ack(u, i, d)

Spec == Init /\ [][Next]_relayVars

------------------------------------------------------------------------------
(* Properties.                                                             *)

\* A ciphertext is held exactly as long as some device still has to fetch it:
\* an acknowledgement, a departure, a block or a deletion neither strands a
\* payload nor takes it from a device that is still owed it.
PayloadIffOwed == \A i \in Id : i \in payloads <=> envelopes[i] # {}

\* An envelope waits only for a device of a current participant, and never for
\* the device that sent the dispatch: nothing is left for a revoked recipient.
OwedOnlyToMembers ==
  \A i \in Id : \A d \in envelopes[i] :
    /\ Accepted(i)
    /\ dispatch[i].request.conv \in live
    /\ deviceOwner[d] \in members[dispatch[i].request.conv]
    /\ d # dispatch[i].request.device

\* While either of two users blocks the other, nothing waits in their direct
\* chats, so no delivery sits in a queue that its reader may not open.
BlockedPairHasNothingQueued ==
  \A i \in Id : envelopes[i] # {} => ~DirectBlocked(dispatch[i].request.conv)

\* A logical message has one original.  Every accepted edit or delete has one in
\* its conversation, by the same sender, and every reaction has one, also after
\* the sender has left or deleted the account.
OperationsHaveAnOriginal ==
  \A i \in Id : Accepted(i) =>
    LET r == dispatch[i].request
    IN  /\ \A o, p \in Original(r) : o = p
        /\ r.kind \in {"edit", "delete", "reaction"} => Original(r) # {}
        /\ r.kind \in {"edit", "delete"} =>
             \A o \in Original(r) : dispatch[o].sender = dispatch[i].sender

\* A history transfer is owed to nobody but the devices of its sender.
HistoryStaysWithOwner ==
  \A i \in Id : Accepted(i) /\ dispatch[i].request.kind = "history" =>
    \A d \in envelopes[i] : deviceOwner[d] = dispatch[i].sender

\* Receipts prevent replays: an accepted id keeps its receipt for as long as its
\* conversation exists, and no step gives one of its devices an envelope again,
\* whether it was acknowledged, pruned, or discarded by a block since lifted.
NeverRequeued ==
  [][\A i \in Id : Accepted(i) /\ dispatch[i].request.conv \in live' =>
       /\ dispatch'[i] = dispatch[i]
       /\ envelopes'[i] \subseteq envelopes[i]]_relayVars
==============================================================================
