# LoopTalk: a verification development

TLA+ models of LoopTalk, an invitation-only messenger with end-to-end encrypted
delivery (`server/`: Express, Socket.IO and Prisma over SQLite; `mobile/`: one
Expo client for phones and browsers; `app/`: a Next site; `desktop/`: a shell).
The models follow the code, not the documents; where code and documents
disagree, a run shows it (section 6).

Contents: 1 inventory, 2 modules, 3 how they correspond to the code, 4 runs and
bounds, 5 proofs, 6 disagreements found, 7 hazards, 8 plan, 9 what is left out.

## 1. The system

A message travels like this. The sender's client writes it to a durable outbox,
encrypts it once for the exact set of devices in the conversation, saves the
ciphertext, stores its own copy, and uploads. The relay checks the sender, the
roster and the logical message, and in one transaction creates a content-free
receipt, one envelope per addressed device, and one payload. Each addressed
device lists its envelopes, fetches and decrypts the payload, stores it, writes
a deduplication marker, and acknowledges; the last acknowledgement deletes the
payload. Leaving, removal, blocking and account deletion take deliveries back.

| component | state | operations | interacts with | hard because | right when |
|---|---|---|---|---|---|
| Encrypted relay (`routes/secure.js`, `utils/secureRelay.js`) | devices, dispatch receipts, envelopes, payloads | register, upload, list, fetch, acknowledge, prune | everything that changes members or blocks | deletions by five handlers; replays; authorization from receipts alone | a payload is held exactly while owed; nothing waits for the revoked; receipts stop replays and authorize operations |
| Outbox and sends (`store/messageStore.js`, `utils/secureMessaging.js`) | outbox, prepared ciphertext, local copy, delivery state, table of running sends, running flush | compose, operate, send, flush, retry, sign out | relay, over an unreliable network; other windows, through shared storage | crashes between writes; lost replies; two windows; a flush over a snapshot | nothing composed is lost; retries are duplicates; states shown are true; the outbox drains |
| Inbox (`utils/secureMessaging.js`, `store/messageStore.js`) | local history, markers, running sync | fetch, look, open, store, mark, acknowledge | relay; other windows | interruption anywhere; queue emptied meanwhile; no lock between windows | each delivery once and in order; nothing acknowledged unkept |
| Conversations and groups (`routes/conversations.js`) | conversations, participants, roles | create, add, promote, remove, leave | relay pruning | reads outside the transaction that uses them | a group has one owner; one chat per pair |
| Blocks, account deletion (`routes/users.js`, `routes/auth.js`) | blocks, accounts | block, unblock, delete | relay queues, calls, groups, invitations | races with uploads; cascades | nothing is queued behind a block, nothing outlives its owner |
| Local history (`messageStore.js`, `storage/`) | messages per conversation | merge, edit, delete, react, transfer history | inbox, outbox | operations twice or out of order; transfer against deletion | devices converge; the deleted stays deleted |
| Call signaling and call client (`server.js`, `callInfrastructure.js`, `callStore.js`) | active and pending calls, grace timers; call, peer connection, ring, connect and reconnect timers | invite, answer, offer, decline, end, resume, recover | sockets, blocks, push | timers against late answers; handlers suspended at awaits; two phones of one user | both ends leave a call; no call rings for ever |
| Presence (`utils/presence.js`) | active flag per socket | connect, set, disconnect, snapshot | all clients | concurrent publications and a snapshot that is read earlier than it arrives | the last word is the truth |
| Owner vault (`utils/ownerVault.js`, `routes/users.js`) | encrypted vault, revision; open session, chained writes | open, update, sign out, recover | other devices | compare-and-swap against sign-out and recovery | no update is lost silently |
| Registration, login, invitations (`routes/privateAuth.js`, `routes/invitations.js`) | accounts, credentials, invitations, allowances, challenges | register, join, issue, challenge, login, link, recover | each other | limits under concurrency; writes after a stale proof | an invitation is not used more often than allowed; a challenge once |
| Invitation traffic (`utils/invitationTraffic.js`) | ring of recent samples | record, read | relay | cursor against pruning | no sample is counted twice |
| Plaintext welcome messages, forum, reports, admin, contacts, push, website, desktop, scripts, cryptography | | | | single writes, I/O, presentation or pure functions | see section 9 |

## 2. The modules

| module | what it is | extends |
|---|---|---|
| `SecureRelay` | the relay and every handler that deletes its rows | |
| `SecureRelayProofs` | theorems about it | `SecureRelay`, TLAPS |
| `SecureOutbox` | the sending client against the relay | `SecureRelay` |
| `SecureOutboxProofs` | theorems about it | `SecureOutbox`, `SecureRelayProofs` |
| `SecureInbox` | the receiving client against the relay | `SecureRelay` |
| `SecureInboxProofs` | theorems about it | `SecureInbox`, `SecureRelayProofs` |
| `DeviceMailbox` | what delivery promises a device, abstractly | |
| `CallSignaling` | two participants, their phones, and the server's call tables | |
| `CallSignalingProofs` | theorems about it | `CallSignaling`, TLAPS |
| `OwnerVault` | the vault row of an account and the copies its devices work on | |
| `OwnerVaultProofs` | theorems about it | `OwnerVault`, TLAPS |
| `GroupRoles` | the roles in one group, reads apart from commits | |
| `GroupRolesProofs` | theorems about it | `GroupRoles`, TLAPS |
| `Presence` | publications and snapshots, and what a watcher shows | |
| `MessageHistory` | one message with its edits and deletions on every device, and history transfer | |
| `ClientViewProofs` | theorems about both | `Presence`, `MessageHistory`, TLAPS |
| `AccountAccess` | challenges, sign-in, credentials, linked sign-ins, recovery | |
| `Invitations` | issuing, registering, joining, deletion | |
| `AccountsProofs` | theorems about both | `AccountAccess`, `Invitations`, TLAPS |
| `MCSecureRelay`, `MCSecureOutbox`, `MCSecureInbox` | instances for TLC | one of the first three components, TLC |
| `MCServices` | instances of the seven others for TLC | those seven, TLC |

`SecureOutbox` and `SecureInbox` compose the client with the relay: their
states contain the relay's, and an upload or an acknowledgement is the relay's
own action. They compose separately because a sender's replies do not depend on
acknowledgements, and a receiver is indifferent to how an upload came about.
`SecureInbox` implements `DeviceMailbox` (`got <- log`).

The seven components of `MCServices` share no state: a call touches no vault, a
role no invitation. Their interleavings would say nothing more than each of them
does alone, so `MCServices` is their sum, not their product: `part` names the
one that runs, the others stay where they start. Where two of them touch the
same row of the database (a recovery replaces key and vault; the deletion of an
account ends its roles and its invitations) each has its own view of the
statement that does.

Each module keeps, next to the operator it mutates and marked as such, a
variant with a plausible bug. No specification uses them; `PROJECT.json` says
which property each must break, so that no property is vacuous.

## 3. Model and code

**SecureRelay.** A variable per table (`deviceOwner` is SecureDevice, `members`
ConversationParticipant, `dispatch` SecureDispatch, and so on), an action per
handler that commits a change. `Verdict` is the chain of checks of the upload
handler in its order; an upload is a step only when its verdict is `"created"`,
all other verdicts leave every row alone. All mutations go through
`secureTransaction`, a queue of serializable transactions over a database with
one writer, so a commit is one step. Where a handler checks something *before*
its transaction (the block lookup of a new direct chat, the role check of
`AddMember`, the "last member" test of `DismissGroup`), the model lets the
write happen without the check: by then it may no longer hold. A logical message
is named by the id of its dispatch, as in the client. Names
such as `Personal Notes` become `ConvKind`.

**SecureOutbox.** The durable records (`outbox`, `prepared`, `local`, `shown`)
are shared by the windows `Tab`; `task`, `todo`, `waiting`, `composing` and
`screen` are each window's memory and vanish in a `Crash`. `screen` is
`get().messages`, reduced to what the code asks of it (`ScreenOf`): which messages
have an id `pending:...`, which show "queued" or "failed", and which can be edited.
A window writes its screen when it opens or reloads the chat and when it stores
something itself (`Display`); what another window stores since is not on it, so a
screen may be behind the conversation. The flush recovers entries from it
(`Recovered`), and the retry and the operations choose from it. `restored` records
the ids that were put back into the outbox that way. One send is the sequence of steps
between which the code awaits something:

| step | code |
|---|---|
| `StartSend` / `Begin` | `sendMessage` after its first await; `_sendOutboxEntry` when the id is not in flight |
| `Prepare` | `performSecureSend` under `navigator.locks`: use the saved dispatch, or fetch the roster, encrypt and save |
| `Persist` | the `persist` callback and the start of the upload |
| `Serve` | the relay's handler; `wire` holds uploads on their way |
| `HandleReply` | accept and show; on `RECIPIENTS_CHANGED`, once, discard and prepare again; otherwise fail |
| `Drop`, `Clear` | remove the outbox entry, then the ciphertext |
| `Settle`, `ShowSettled` | record the failure in the entry, then in the message |

`LoseReply` is a connection error or the 180-second timeout: the upload was
never sent, was handled, or is still to be handled (`tab = NoTab`), possibly
after the client's next attempt: the client's connections, a proxy, and the
server's workers keep no order between the two. `encrypted` counts encryptions,
so that two ciphertexts of one message differ. `SendOperation` has the guards of
the store (`encrypted` copy) and of `ChatScreen` (no delivery state).
Write queues are per window and per record: within a window the optimistic copy of
a new entry is stored before that window's flush can send it (the guard of
`SendFirst`), but another window may find the entry in the outbox, send it and
deliver it first. The optimistic copy is then merged over the stored one, which
keeps its content and gets the id `pending:...` back (`Optimistic`:
`"overwritten"`), until a later send stores the copy again. Left out: the loading of
media before a conversation is shown, which makes screens older still, even with
one window; such an entry would be in `restored` too.
Signing in again is the same account; `_receiveSecureDelivery` is one step with
the account check that precedes it.

**SecureInbox.** `ReadStep` is one round of `syncSecureInbox`, a step per await.
`Interrupt` stops it anywhere (a closed window, sign-out, an I/O error). Storing
is idempotent, as `mergeMessage` is, so `log` records the first time. `revoked`
is a history variable: what was taken back before the device had it.
`addressed` is the relay's order of acceptance.

**CallSignaling.** An action per event handler and per timer of `callStore.js`,
and one per await of `startCall` (`StartRings`, `StartArms`, `StartInvites`) and
`acceptCall` (`AcceptCaptures`, `AcceptOpensPeer`, `AcceptAnswers`); a task whose
`callEpoch` or peer connection has been replaced is no longer `fresh`, which is
what the code compares. An event a phone emits becomes a member of `requests`:
a handler that waits for its membership read and may be overtaken by later ones,
even by one of the same socket. `Invite` is the first part of its handler, `Save`
the part after the second read. `mail` is what a socket has been sent:
`Recover` is Socket.IO's connection recovery (the same socket, missed events
first), `Reconnect` a new socket with the replay of `pending`; `GraceExpires` is
the timer of a lost connection. The following is reachable (the first with more
phones attended than in the run) and allowed:

- two phones of one user accept at once: each is told that the call was answered
  elsewhere, and each ends it; a busy phone's refusal ends the ring of the other;
- an end that overtakes its invitation leaves a ringing phone, until its timer;
- "answered elsewhere" is sent to a new socket of the phone that answered;
- the offer of an ICE restart that is lost leaves the caller waiting for its
  answer, until the reconnect timer; a recovered socket may ring a second time;
- an answer or offer still being handled registers a call for an old socket.

Abstracted: time (a set timer may fire at any moment, but the connection takes
longer to fail than a call that is over stays on the screen, and the grace of 45
seconds outlasts the handling of an event); whether an invitation has expired (a
choice); media and candidates (two connections connect when each has the
description of the other). One server process: the Redis tables and
adapter are left out.

**OwnerVault.** The row is `account`; `session` is the open session with the
revision it was read at; `writes` are the running updates with their `at`
(request under way, answered, told of a conflict, latest row read), `waiting`
the chain of promises behind them, `gen` the counter by which a signed-out
session disowns its writes. A renewal of the session that is refused is a
`SignOut`. A vault is the set of changes in it, sealed with a key. A request
whose reply was given up may still be handled later (`Abandoned`). Session
tokens outlive the account key, as in the code; only the revision stands between
an old device and a recovered account.

**GroupRoles.** Every handler is a read of its own row, a read of its target
(or, leaving, of all others), and a commit that names the rows read; a commit
whose row is gone fails. Rows are numbered as they are created and never reused.
Reachable, and allowed: two last members who leave at once leave an empty group;
the last member's departure deletes whoever was added meanwhile.

**Presence.** One watched user and one watcher. `presenceActive` is the flag on a
socket; `publishing` counts publications that wait for the database and will
announce what the sockets show then. The snapshot is `asked`, then `read`, then
queued behind the announcements of that time. The watcher's merge (what it heard
since it connected wins over the snapshot) is `messageStore.js`.

**MessageHistory.** `MergeMessage`, `EditSpec` and `DeleteSpec` are
`mergeMessage` and the operations of `messageStore.js` on one copy. `taken`, a
history variable in each copy, is the set of operations it has met. Deliveries
wait in the relay's order, a delivery stored but not acknowledged is stored
again after `Restart`, and `ReadHistory` / `SendHistory` are the two halves of a
transfer between devices of the author. Authors and readers run the same code,
so the instance has two devices of the author, who alone can edit; larger
instances (three devices and two stamps, 1.2 million states; two devices and
three stamps, 8.4 million) have been run and hold. Two behaviours worth knowing
are reachable and contradict no document. A copy read for a new device *before*
an edit or deletion that this device then receives without having the message is
stored when it arrives: the operation has already been acknowledged, and the
device shows the old version for good (`secureMessaging.js:206`). And an entry
that is still queued or has failed is transferred like any other: the other
device may edit it before the relay has it, the operation is refused, and the
edit stays on that device. Abstracted: reactions, media files, two edits in the
same millisecond, and the refusal of the message itself.

**AccountAccess.** A challenge is consumed in one statement; reading the account
comes before (`/credentials`, `/social-link`) or after (`/login`) it, and the
write later still. A request is signed with a key, and carries the key it wraps;
`Unlocks` says that the stored wrapper opens to the account's key.

**Invitations.** `Reserve` takes a place in the inviter's allowance
(`privateIssuance`) before the first await; `Insert` creates the row, or
`RefuseDaily` ends the request, and the place stays taken. Redeeming is one
serializable transaction. `RestartServer` forgets the allowances, `WindowPasses`
resets one. Reachable, and allowed: requests handled at once exceed the daily
limit, because it is compared before the row is created; a restart lets the same
user issue as many again; a registration whose reply is lost uses the invitation
up.

## 4. Runs

Instances are the smallest in which the interesting case happens: two accounts
(three for the group of `outbox_group`, so that its roster changes while two
remain), a device more than accounts where a roster changes, two messages where
order matters, two windows where windows compete. More of each repeats cases:
every relay handler touches one conversation, one user or one dispatch, and
windows are interchangeable.

| run | instance | shows |
|---|---|---|
| `relay` | 2 accounts, 3 devices, a chat, a group and notes, 2 dispatches | relay invariants through joins, removals, dismissal, blocks, unblocks, deletions, history transfers |
| `outbox_windows` | 2 windows, a direct chat, 1 message, 1 fault, a tablet of the sender, a device registered late | retries of what was not put back from a screen are duplicates; the sender keeps what is accepted, or an overwritten copy of it |
| `outbox_live` | 1 window, a direct chat, 2 entries, 1 fault, fairness | nothing is lost; "sent" is true; operations do not overtake messages; the outbox drains |
| `outbox_group` | 3 accounts, changing members, 1 message, 2 faults, 1 tap | nothing is lost while the roster changes under the send |
| `inbox_delivery` | a window per device, chat and group, 2 deliveries, pages of 1, 1 interruption, fairness | storing again undoes nothing; every payload leaves the server |
| `inbox_windows` | 2 windows on one device, 1 on the other, a chat, 3 deliveries, pages of 2, 1 interruption | delivery implements the mailbox and nothing unkept is acknowledged, even without a lock |
| `services` | the seven components of `MCServices`, below | calls end on both sides; vaults agree and keep what was saved; one owner; the watcher is right; a challenge works once; invitations form a tree within their allowance; devices agree, and the deleted stays deleted |
| `outbox_stale_flush`, `outbox_lost_reply`, `inbox_reapplied`, `vault_recovery`, `call_late_capture` | the smallest that fail | section 6 |

The instances of `services`:

| component | instance |
|---|---|
| calls | one call to a user with two phones, one of them attended, and no trouble; or to one phone, with one trouble (a hang-up, failed media, a block, a lost connection, a failed restart); or two phones that call each other, unanswered. The caller has two sockets, the callee's phone recovers its own |
| vault | 2 devices that have the key saved, each with its app open or not, 2 changes, 2 account keys (one recovery), 2 setbacks (lost replies, crashes, sign-ins, sign-outs) |
| roles | 3 users, 2 of them founders, 3 rows, 2 requests at a time, 1 deleted account |
| presence | 2 sockets, 1 change between foreground and background, the watcher connects twice |
| access | 1 account, 2 keys, 2 credentials, 2 challenges, 3 proofs (the second account of a recovery would only add an independent one) |
| invitations | 3 guests, 2 codes, 1 per user and 2 per day, 2 requests at a time, 2 windows or server lives |
| history | 2 devices of the author, one registered later, 2 stamps, 1 transfer |

Larger calls have been run too and hold: two phones that call each other and
answer (1.1 million states), and a user with two phones who answers on both
(740,000). Two of each is what the races need: two phones, writers, requests,
publications or proofs. The third guest and the third user are those who are
invited or added while two others compete.

Bounds, all in constants: `Id` (dispatches), `Cipher` (in `SecureOutbox`, how
often one entry is encrypted; two are enough in a direct chat whose devices are
fixed, and every change of roster may cost one more), `MaxDevices` (32 in the
code), `MaxFaults`, `MaxTaps`, `MaxTrouble`, `MaxSockets`, `MaxSetbacks`,
`MaxKey`, `MaxRow`, `MaxRequests`, `MaxDeleted`, `MaxChange`, `MaxWatch`,
`MaxAccountKey`, `MaxChallenge`, `MaxProof`, `MaxIssuing`, `MaxWindow`,
`MaxStamp`, `MaxTransfers` (each named where it is declared), `BatchSize` (50 in
the code: pages of one or two make the queue longer than a page). The relay run
uses symmetry of users, devices and dispatches, and `outbox_windows` that of its
windows, which no definition tells apart; the runs with liveness use none. Deadlock is not checked (`CHECK_DEADLOCK
FALSE`): an instance ends when its ids are used up and its queues are empty, as
the system rests when nobody writes.

Fairness. `FairOutboxSpec` assumes of each window that a started send goes on
(its continuations are on the event loop), that the flush starts and goes on (an
8-second timer and every reconnection call it), and of the server that it
answers an upload somebody still waits for. `FairInboxSpec` assumes that a
running sync goes on and that the timer starts the next. Nothing is assumed of
users, other accounts, abandoned uploads, signing in, or faults, which are
bounded. `ServicesSpec` assumes of each phone (`Patience`) that its timers fire,
and that a start or an accept goes on past the steps that wait for neither user
nor network; and of each device (`Progress`) that its own vault writes go on
and are answered. Nothing is assumed of the call server, of sockets or of
the other phone: what ends a call for certain is the phone's own timers.
`EventuallySettled` lets "signed out" stand for settled, since nothing
drains the outbox then.

## 5. Proofs

Every theorem holds for any sets of users, devices, conversations, dispatches,
ciphertexts, windows, phones, credentials and codes, and for any bounds on
faults, recoveries, requests, windows and stamps; `OneWindowStoresInOrder` and
`RetriesAreTheSame` have the hypotheses explained below.
The assumptions on the constants only say that the "none" values are none, that `ConvKind` and the
starting owners have their types, that devices are finitely many, that ids and
ciphertexts are numbers where they are counted, that a window belongs to a
device, that limits and bounds are natural numbers, that the founders of a group
differ, that a direct chat has two participants, and that two accounts do not
start with one key.

| module | theorem | property |
|---|---|---|
| `SecureRelayProofs` | `RelayTypeOK` | `TypeOK` |
| | `PayloadsHeldIffOwed` | `PayloadIffOwed` |
| | `EnvelopesOnlyForMembers` | `OwedOnlyToMembers` |
| | `NothingQueuedBehindABlock` | `BlockedPairHasNothingQueued` |
| | `OriginalsExist` | `OperationsHaveAnOriginal` |
| | `HistoryIsPrivate` | `HistoryStaysWithOwner` |
| | `ReceiptsPreventReplays` | `NeverRequeued` |
| `SecureOutboxProofs` | `OutboxIsWellTyped` | `OutboxTypeOK` |
| | `NothingComposedIsLost` | `NothingLost` |
| | `ShownAsSentIsAccepted` | `SentMeansAccepted` |
| | `AcceptedIsKept` | `KeptBeforeAccepted` |
| | `OperationsFollowMessages` | `OperationsFindTheirMessage` |
| | `RelayHoldsWhileSending` | `RelayInv` |
| | `RetriesAreTheSame` | `RetriesAreDuplicates` |
| `SecureInboxProofs` | `InboxIsWellTyped` | `InboxTypeOK` |
| | `NothingUnkeptAcknowledged` | `AcknowledgedOnlyIfKept` |
| | `InboxImplementsMailbox` | `ImplementsMailbox` |
| | `OneWindowStoresInOrder` | `OnlyLatestStoredAgain` |
| `CallSignalingProofs` | `CallsWellTyped` | `CallTypeOK` |
| | `WaitingEnds` | `WaitingHasTimer` |
| | `RingsCalledOff` | `RingingIsCalledOff` |
| | `CallInvariant` | `CallInv` |
| `OwnerVaultProofs` | `VaultType` | `VaultTypeOK` |
| | `CopiesAlwaysAgree` | `CopiesAgree` |
| | `AlwaysSealedForTheAccount` | `SealedForTheAccount` |
| | `SavedChangesAlwaysStay` | `SavedChangesStay` |
| | `CopiesInvariant` | `CopyInv` |
| `GroupRolesProofs` | `RolesType` | `RolesTypeOK` |
| | `NeverTwoOwners` | `AtMostOneOwner` |
| | `OwnerStays` | `OwnerLostOnlyToStaleReads` |
| | `RolesInvariant` | `RolesInv` |
| `ClientViewProofs` | `ViewSettles` | `SettledViewIsRight` |
| | `DeletedStaysDeleted` | `DeletionIsFinal` |
| | `OperationsConverge` | `SameOperationsSameMessage` |
| | `PresenceInvariant` | `PresenceTypeOK`, `PresenceInv` |
| `AccountsProofs` | `AcceptedOnce` | `ChallengeUsedOnce` |
| | `CredentialsUnlock` | `WrapperLostOnlyToStaleProof` |
| | `AccessInvariant` | `AccessInv` |
| | `AlwaysATree` | `InvitationsFormATree` |
| | `AlwaysWithinAllowance` | `WithinAllowance` |
| | `InvitationsInvariant` | `PlacesRight`, `TreeInv` |

**The relay.** The inductive invariant `RelayInv` is the type invariant and
those properties, which lean on each other. That a payload is held iff owed is
not inductive alone: account deletion deletes envelopes by the cascade from
devices, but collects payloads by membership, and only `OwedOnlyToMembers` says
that these are the same dispatches. That nothing waits behind a block needs that
nobody joins a direct chat. Each `Step...` lemma proves one part, with one case
per action (`StepCases` reduces the ways to create a conversation to one);
`DispatchStep` says once what any step may do to receipts, and `DirectStep` and
`BlocksStep` what it may do to chats and blocks.

**The outbox.** `OutboxCases` lists the eighteen kinds of step, and one lemma
per variable (`WireStep`, `OutboxStep`, `ShownStep`, ...) says what any of them
may do to one entry's part of it; `Onward` is the table of what a send may
become. The invariant `OutboxInv` then follows the order of one send. `Known`:
an id under which nothing was composed occurs nowhere, on no screen either.
`Fresh`: between the durable entry and its first send a window does not send it
itself; with a single window nobody does. `KeptBeforeUpload`: what is on the wire is
in the sender's history, and so is what is accepted, as delivered or, with several
windows only, overwritten by an optimistic copy that came late (`Stored`,
`StoredStays`). `RepliesAreTrue`:
whoever holds a reply of acceptance, or acts on it, was accepted; so dropping the
entry loses nothing and "sent" is true. `ScreensAreTrue`: a screen, however old, has
as sent only accepted messages (`ScreenStep`: it was the conversation once).
`Targets` and `Deliveries`: an operation's message was accepted when the operation
was composed, and every ciphertext saved, in hand, on the wire or recorded is that of
its entry; so the relay finds the original. None of this needs the lock between
windows.

`RetriesAreDuplicates` does. It speaks of the entries outside `restored`: those
that have not left the outbox, or have and were not put back from a window's
screen, be it by the flush or by a tap. Its theorem has one hypothesis: the chat is
not a group, so that its roster only grows (`RosterGrows`) and a delivery that misses
a device now misses it for ever (`StaleStays`). §6 says what happens in a group, and
to an entry that is put back. The strengthening is `RetryInv`. `Awaited` and `OneHolder`: one
window at a time holds the lock, and only for the upload it waits for
(`HolderStep` lists how a window can come to hold it). `HolderSendsSaved`: what
that window has in hand or waits for is the saved ciphertext. `OthersAreStale`:
every other upload of the id still under way, left behind by a lost reply or a
closed window, misses a device, so that the relay can only accept the saved one.
`RefusalsAreFinal`: when a window is told `RECIPIENTS_CHANGED` the saved ciphertext
has become stale too, so that replacing it cannot contradict a receipt.
`ClearedLast`: the ciphertext is discarded after the entry.

**The inbox.** `InboxInv` is the type invariant, `RelayInv`, `Kept` and
`InOrder`. `Kept`: a marked delivery is in the history, a window about to mark one
has stored it, and a window about to acknowledge one has marked it. Histories
and markers only grow, so another window cannot undo what this one relies on.
That the relay's part moves only as the relay may (`InboxRelayStep`) brings the
relay's invariant into the composition: an upload cannot replace a queue,
because only accepted dispatches have one, and a second block of the same pair
finds nothing left to discard. `InOrder` relates each queue to the history of
its device (`Queued`: what is addressed waits, is stored or was taken back, and
nothing is stored before what precedes it) and each batch to the queue
(`Batched`: what waits before a delivery of the batch is in the batch). That a
page is the oldest part of the queue (`ListingIsInitial`) makes a fresh batch so,
and the refinement follows action by action: an upload is `Post`, a change of the
roster `Revoke`, a first store `Deliver`, and everything else a stutter.

`OneWindowStoresInOrder` has a hypothesis, `OneWindowEach`: no two windows read
for one device. With two, a slow window stores again what is no longer the latest
(section 6, item 4). `Orderly` is what a window without company can rely
on: of the stored deliveries that still wait on the server, at most the latest
of the history has no marker, which is what an interrupted sync leaves.

**Calls.** `CallInv` says four things that need one another. `TimersRight`: what
ends the waiting of a phone in each phase. It is `WaitingHasTimer`, except that a
start that is yet to set the timer is that of a call the phone places (so no
accept, which replaces the peer connection and so disowns the other tasks, can
take it away), and that the timer of a reconnection outlasts no call that is
over. `TasksRight` and `CallRight`: a phone starts only calls it places, and
rings for or accepts only calls of the participant who is called, and only while
it is connected. `MailRight` and `TablesRight`: invitations are sent to, kept for
and answered by that participant only, from `StartInvites` to the last replay.
`Becomes` is what a step of a phone may leave it with, one lemma per family of
handlers; `PhoneStepTables`, `PhoneStepRequests`, `PhoneStepMail` and the lemmas
`ServerStep...` say the same of each table.

That a call is called off needs two more. `TokensRight`: a call is unplaced, a
running start, or a request to invite or save it, one of these at a time and
once; while it is one of them (`Unsaved`), no table, mail, phone or request of the
callee knows of it (`Reached`). So a call that has been answered is never saved
again, which is what would make it ring anew. `NewsRight`: a settled call is kept
for nobody, and in the mail of every phone but the one that settled it each of
its invitations is followed by its end, also for a phone that rings already. A
recovered connection appends its replay, a new one starts from it; neither holds
the call any more. That there are two participants is what a direct chat is
(`CallAssumption`): the other phones are the caller's, which are never invited, or
the callee's, which are told.

**The vault.** `Agrees(n, k, data)` says of a copy read at revision `n` under key
`k` that it is not ahead of the row, and equals it if the revision is still the
row's. `CopyInv` claims it of every session, every reply and every running
write, in the form that fits how far the write is; since every accepted write
raises the revision, a copy that is not the writer's own falls behind and the
claim becomes empty. That a recovery is safe follows from the same line: its
revision is one higher, so an old device's write is refused.

**Group roles.** Two owners would need two rows that both become the owner's.
`Holds` counts a row as the owner's if it is, or if a request to leave has read
it as such and may still promote somebody in its place; `OneHolder` says that at
most one row does. `ReadRight` says what a read row can still differ in: its
role, never its user or its id. `OwnerStays` is exact about the one gap: a
request that decided by a role read before the row became the owner's.

**Presence and history.** `NewsRight`: when no publication is under way, the newest
of what the watcher heard, what is queued for it, and what the snapshot holds is
what the server knows. `HistoryInv`: every copy, kept, queued or read for
another device, is `Right`: deleted iff it has met a deletion, and otherwise showing
the greatest stamp it has met. Equal sets of operations then give equal
messages.

**Access and invitations.** `ChallengesRight`: a challenge is waiting, held by one
sign-in, or accepted for one request, never two of these. `PlacesRight`: a place
in an allowance is used once, and those of a window that is over are not given
again; so the rows of one inviter and window inject into `1..limit`
(`PlacesBound`). `TreeInv`: whoever issues has joined, whoever has not joined
has not been accepted; so that acceptance adds a leaf.

Only model-checked: the liveness properties (`EventuallySettled`,
`EventuallyFlushed`, `NobodyWaitsForever`, `ChangesSettle`): the prover has no
fairness.

## 6. Disagreements with documents and labels

1. `outbox_stale_flush`. `flushOutbox` reads the outbox once. A send that was
   already running removes its entry and its ciphertext; the flush then sends
   the entry of its snapshot, finds no ciphertext, encrypts again under the
   accepted id, is refused with `DISPATCH_CONFLICT`, and marks the delivered
   message as failed. `docs/ENCRYPTED_MESSAGING.md:180`: "Retrying an accepted
   dispatch reuses identical ciphertext."
   The same ends in other ways, which have no run of their own:
   - With two windows, the second may have the message on its screen as pending from
     before the first delivered it, dropped the entry and cleared the ciphertext.
     Its next flush puts the accepted entry back (`messageStore.js:764-785`) and
     encrypts anew. A tap on retry puts an entry back the same way
     (`messageStore.js:809-828`). These are the entries `RetriesAreDuplicates`
     excepts, as `restored`; without the exception the two-window instance
     violates it.
   - With two windows, the second may have started its send and wait for the lock
     while the first delivers and clears.
   - In a group, `RECIPIENTS_CHANGED` proves that the dispatch *had* not been
     accepted, but an upload the client gave up can still arrive, and be accepted if
     the roster has changed back, after the client discarded that ciphertext (a
     member removed and added again while a timed-out upload is held up). The
     comment at `secureMessaging.js:91` and `docs/ENCRYPTED_MESSAGING.md:180-182`
     rule it out. So `RetriesAreDuplicates` is a property of the direct-chat run.

   With two windows the sender's copy of an accepted message may also get the id
   `pending:...` back: the window that composed it stores its optimistic copy only
   after the outbox entry (`messageStore.js:609-610`), and another may send the entry
   in between. `KeptBeforeAccepted` names that case; such a copy looks undelivered to
   the recovery of a later flush.
2. `outbox_lost_reply`. A refusal counts as final although an earlier upload
   may have been accepted: a block or removal is checked before the earlier
   dispatch is looked up. The chat then says "Not sent".
3. `call_late_capture`. `acceptCall` waits for the microphone and then compares
   only the identifier of the call. One that is over keeps its identifier for
   the 1.5 to 2.5 seconds it stays on the screen; a stream captured then is kept, a peer
   connection opened, the answer sent, and nothing tears them down.
   `mobile/README.md:161`: "Cancelled calls invalidate pending media requests and
   release late captures." (`startCall` compares `callEpoch`, and does.)
4. `inbox_reapplied`. Two windows can both see no marker; the slower one stores a
   delivery again after its marker is committed, and possibly after later
   deliveries. `docs/ENCRYPTED_MESSAGING.md:188`: "Duplicate ACK retries do not
   reapply committed content."
5. `vault_recovery`. `/social-recover` stores the new vault under the next revision of
   the account, while the client sealed it with revision 1. `setVaultSession`
   compares the two and refuses: the device that replaced the key stays
   signed out, and the new key was never saved. The test "social recovery signs
   in with a fresh device key and an empty vault" (`mobile/test/private-auth.test.cjs:206`)
   uses a stand-in for the vault.

`retryMessage` also passes on an undeclared `options` (`messageStore.js:835`), so
that "Tap to retry" throws after it has put the entry back; `RetryMessage` is
modelled accordingly, and the next flush sends the entry.

## 7. Hazards

`PROJECT.json` lists them with their lines and the properties that cover them.
Without a property: a late upload under a roster that has changed back and the
throwing retry (section 6); reactions, which carry no stamp and may end
differently on two devices; the second of two status writes lost in a crash, which
no document forbids; empty groups and doubled direct chats; the daily limit, and allowances forgotten in a restart
(section 3). Not listed, for want of a claim to hold them against: a delivery
that cannot be decrypted or stored blocks the inbox behind it, by design
(`secureMessaging.js:306`); a change between foreground and background during
the handshake of a socket is lost until the next one
(`presenceLifecycle.js:12`); a transaction retried after a lock conflict is one
commit here (`secureRelay.js:23`); a device identity is created in several
writes of the native store, by one caller at a time (`deviceIdentity.js:13`).

## 8. Plan

Done: the relay, both clients, calls, vault, roles, presence, history, access and
invitations, with the runs and proofs above. What is left, in order:

1. Reactions in `MessageHistory`: they are toggled without stamps, so what their
   devices promise each other has to be stated first.
2. The Redis tables of calls, for several server processes; group calls.
3. `InvitationTraffic`, and the plaintext welcome conversation.

## 9. What is not modelled

Cryptography (a ciphertext is a value; authenticity is assumed), attachments and
media files, the plaintext WELCOME conversation and the renaming of ids older
than the UUID format, key pinning, failing local storage (a failed write counts
as a crash or an interrupted sync), push and socket hints (the 8-second timer
makes them unnecessary for the properties here), media controls, screen
sharing and native call screens, the forum, reports, administration and contacts
(single writes under unique constraints), the website, the desktop shell and
maintenance scripts. Most lines of the repository are of this kind: screens,
components, translations, styles and pages, whose state is what they show. A
model of them would restate the code, and the share of the source that is
mapped stays accordingly small.
