---------------------------- MODULE SecureOutbox ----------------------------
(***************************************************************************)
(* The sending half of the encrypted client: the durable outbox, the       *)
(* prepared ciphertext of each dispatch, and the sends that drain it into  *)
(* the relay of module SecureRelay.  Sources: mobile/src/store/            *)
(* messageStore.js and mobile/src/utils/secureMessaging.js.                *)
(*                                                                         *)
(* One account, Me, sends from one device, MyDevice, in one conversation,  *)
(* Chat.  A browser runs the client in several tabs: they share the        *)
(* durable records but neither the table of running sends, nor the flush,  *)
(* nor the messages on screen, and exclude each other only by the lock of  *)
(* sendSecureDelivery.  A window's screen is the conversation as that      *)
(* window last read or wrote it: what another window stores since is not   *)
(* on it.  A native client is the case of a single tab.                    *)
(*                                                                         *)
(* Abstracted: contents and attachments, the plaintext WELCOME path, the   *)
(* renaming of ids older than the UUID format, key pinning, notification,  *)
(* the reading of the inbox, and the loading of media between a read of    *)
(* the conversation and its showing (it makes a screen older still, and    *)
(* so adds to the ids put back from one; see restored).  An operation on a *)
(* message whose id is "pending:..." is left out: the relay refuses it as  *)
(* no UUID.                                                                *)
(* Envelopes are never acknowledged here: no reply to a sender depends on  *)
(* them.                                                                   *)
(***************************************************************************)
EXTENDS SecureRelay

CONSTANTS
  Me, MyDevice, Chat,
  StartOwner,    \* deviceOwner when the client starts
  Tab,           \* windows of the client
  NoTab,         \* for a request whose window no longer waits for it
  NoEntry, NoRequest,
  NoChat,        \* for a window that does not have the chat on screen
  MaxFaults,     \* bound: crashes and lost or late replies
  MaxTaps        \* bound: taps on "Not sent - Tap to retry"

Entry == [kind: {"message", "edit", "delete", "reaction"}, message: Id]

\* The copy of a message or operation in the conversation: "pending" has the id
\* "pending:..." of the optimistic copy, "kept" is stored as delivered, and
\* "overwritten" is a kept copy that got the pending id back.
Copy == {"none", "pending", "kept", "overwritten"}

DeliveryState == {"none", "sending", "sent", "queued", "failed"}

\* The messages of the chat as a window last read them: those with a pending id,
\* those it can retry, and those it can edit, delete or react to.
Screen == [pending: SUBSET Id, unsent: SUBSET Id, sent: SUBSET Id]

\* A dispatch id is the number of its outbox entry in order of composition.
ASSUME OutboxAssumption ==
  /\ Id \subseteq Nat \ {0}
  /\ Cipher \subseteq Nat
  /\ Me \in User /\ MyDevice \in Device /\ Chat \in Conv
  /\ StartOwner \in [Device -> User \cup {NoUser}]
  /\ StartOwner[MyDevice] = Me
  /\ NoTab \notin Tab
  /\ NoRequest \notin Request
  /\ NoEntry \notin Entry
  /\ NoChat \notin Screen
  /\ MaxFaults \in Nat /\ MaxTaps \in Nat

VARIABLES
  entry,      \* [Id -> Entry or NoEntry]: what was composed under the id
  outbox,     \* durable [Id -> status of the entry, or "none"]
  prepared,   \* durable [Id -> Request or NoRequest]: the saved ciphertext
  local,      \* durable [Id -> Copy]: the local copy
  shown,      \* durable [Id -> DeliveryState]: that of the message in the chat
  screen,     \* [Tab -> Screen, or NoChat]: get().messages of the window
  task,       \* [Tab -> [Id -> the send in flight]]
  composing,  \* [Tab -> ids saved to the outbox whose send has yet to start]
  todo,       \* [Tab -> ids left of the running flush's snapshot]
  waiting,    \* [Tab -> the id whose send the flush awaits, or 0]
  signedIn,   \* tabs with an active user
  wire,       \* uploads sent and not yet handled by the server
  encrypted,  \* [Id -> number of times the id was encrypted]
  restored,   \* ids put back into the outbox from a window's screen
  faults,     \* crashes and losses so far
  taps        \* [Id -> taps on retry so far]

chatVars == <<local, shown, screen>>
durableVars == <<entry, outbox, prepared, local, shown, encrypted>>
sendVars == <<task, wire>>
flushVars == <<todo, waiting>>
historyVars == <<restored, faults, taps>>
clientVars == <<durableVars, screen, sendVars, composing, flushVars, signedIn, historyVars>>
outboxVars == <<relayVars, clientVars>>

\* The replies to an upload: the values of Verdict.
Reply == {"created", "duplicate", "DEVICE_NOT_OWNED", "NOT_PARTICIPANT_OR_BLOCKED",
          "DISPATCH_CONFLICT", "HISTORY_OWN_DEVICES_ONLY", "HISTORY_RECIPIENT_REQUIRED",
          "MISSING_RECIPIENT_DEVICES", "RECIPIENTS_CHANGED", "MESSAGE_EXISTS",
          "MESSAGE_NOT_FOUND", "OPERATION_NOT_AUTHORIZED"}

\* Where a send is, between two awaits.
Place == {"idle", "prepare", "upload", "wait", "reply", "drop", "clear", "failed",
          "queued", "show failed", "show queued"}

Send == [pc: Place, request: Request \cup {NoRequest}, reply: Reply \cup {"none"},
         retried: BOOLEAN]

Idle == [pc |-> "idle", request |-> NoRequest, reply |-> "none", retried |-> FALSE]

OutboxTypeOK ==
  /\ TypeOK
  /\ entry \in [Id -> Entry \cup {NoEntry}]
  /\ outbox \in [Id -> {"none", "queued", "failed"}]
  /\ prepared \in [Id -> Request \cup {NoRequest}]
  /\ local \in [Id -> Copy]
  /\ shown \in [Id -> DeliveryState]
  /\ screen \in [Tab -> Screen \cup {NoChat}]
  /\ task \in [Tab -> [Id -> Send]]
  /\ composing \in [Tab -> SUBSET Id]
  /\ todo \in [Tab -> SUBSET Id]
  /\ waiting \in [Tab -> Id \cup {0}]
  /\ signedIn \subseteq Tab
  /\ wire \subseteq [id: Id, request: Request, tab: Tab \cup {NoTab}]
  /\ encrypted \in [Id -> Nat]
  /\ restored \subseteq Id
  /\ faults \in 0..MaxFaults
  /\ taps \in [Id -> 0..MaxTaps]

OutboxInit ==
  /\ accounts = User
  /\ deviceOwner = StartOwner
  /\ live = {Chat}
  /\ members = [c \in Conv |-> IF c = Chat THEN User ELSE {}]
  /\ blocks = {}
  /\ dispatch = [i \in Id |-> NoDispatch]
  /\ envelopes = [i \in Id |-> {}]
  /\ payloads = {}
  /\ entry = [i \in Id |-> NoEntry]
  /\ outbox = [i \in Id |-> "none"]
  /\ prepared = [i \in Id |-> NoRequest]
  /\ local = [i \in Id |-> "none"]
  /\ shown = [i \in Id |-> "none"]
  /\ screen = [t \in Tab |-> NoChat]
  /\ task = [t \in Tab |-> [i \in Id |-> Idle]]
  /\ composing = [t \in Tab |-> {}]
  /\ todo = [t \in Tab |-> {}]
  /\ waiting = [t \in Tab |-> 0]
  /\ signedIn = Tab
  /\ wire = {}
  /\ encrypted = [i \in Id |-> 0]
  /\ restored = {}
  /\ faults = 0
  /\ taps = [i \in Id |-> 0]

------------------------------------------------------------------------------
(* Records and sends.                                                      *)

Composed(i) == entry[i] # NoEntry

HasChat(t) == screen[t] # NoChat

\* What the program asks of the messages on screen.
ScreenOf(copies, states) ==
  [pending |-> {i \in Id : copies[i] \in {"pending", "overwritten"}},
   unsent |-> {i \in Id : states[i] \in {"queued", "failed"}},
   sent |-> {i \in Id : copies[i] = "kept" /\ states[i] = "sent"}]

\* A window that has the chat on screen shows what it has just stored.
Display(t, copies, states) ==
  screen' = IF HasChat(t) THEN [screen EXCEPT ![t] = ScreenOf(copies, states)] ELSE screen

\* _setOutboxDeliveryState finds the message by its id; an operation has none.
Show(t, i, state) ==
  /\ shown' = IF entry[i].kind = "message" /\ local[i] # "none"
              THEN [shown EXCEPT ![i] = state] ELSE shown
  /\ Display(t, local, shown')

\* Mutant of Mark: the entry gets the delivery state instead of its status.
MarkAsSending(i, status) == outbox' = [outbox EXCEPT ![i] = "sending"]

\* An update of the entry's status changes nothing if the entry is gone.
Mark(i, status) ==
  outbox' = IF outbox[i] = "none" THEN outbox ELSE [outbox EXCEPT ![i] = status]

At(t, i, pc) == task[t][i].pc = pc
Put(t, i, send) == task' = [task EXCEPT ![t][i] = send]
GoTo(t, i, pc) == Put(t, i, [task[t][i] EXCEPT !.pc = pc])

\* sendsInFlight has the id: whoever wants to send it again awaits that send.
InFlight(t, i) == ~At(t, i, "idle")

\* The tab is inside performSecureSend for the id and holds its lock.
Holds(t, i) == /\ task[t][i].pc \in {"prepare", "upload", "wait", "reply"}
               /\ At(t, i, "prepare") => task[t][i].retried

\* _sendOutboxEntry for an id that is not in flight.
Begin(t, i) ==
  /\ Put(t, i, [Idle EXCEPT !.pc = "prepare"])
  /\ Show(t, i, "sending")

------------------------------------------------------------------------------
(* Composing.                                                              *)

\* The entry is durable before anything is sent.
Enqueue(t, i, e) ==
  /\ t \in signedIn
  /\ entry[i] = NoEntry
  /\ \A j \in Id : j < i => Composed(j)
  /\ entry' = [entry EXCEPT ![i] = e]
  /\ outbox' = [outbox EXCEPT ![i] = "queued"]
  /\ composing' = [composing EXCEPT ![t] = @ \cup {i}]
  /\ UNCHANGED <<relayVars, prepared, chatVars, encrypted, sendVars, flushVars,
                 signedIn, historyVars>>

\* sendMessage up to its first await.
Compose(t, i) == Enqueue(t, i, [kind |-> "message", message |-> i])

\* Mutant of SendOperation: any message in the chat can be edited.
SendOperationEarly(t, i, kind, m) ==
  /\ HasChat(t) /\ m \in screen[t].pending \cup screen[t].unsent \cup screen[t].sent
  /\ Enqueue(t, i, [kind |-> kind, message |-> m])

\* _sendSecureOperation.  The chat offers it only for a message that shows no
\* delivery state, and the store only for an encrypted copy.
SendOperation(t, i, kind, m) ==
  /\ HasChat(t) /\ m \in screen[t].sent
  /\ Enqueue(t, i, [kind |-> kind, message |-> m])

\* mergeMessage of the optimistic copy: a stored one keeps all but its id.
Optimistic(copy) == IF copy \in {"kept", "overwritten"} THEN "overwritten" ELSE "pending"

\* The rest of sendMessage: the optimistic copy, then the first send.  Another
\* window may have found the entry in the outbox and sent it before.  Without an
\* active user both steps give up and the entry stays where it is.
StartSend(t, i) ==
  /\ i \in composing[t]
  /\ composing' = [composing EXCEPT ![t] = @ \ {i}]
  /\ IF t \notin signedIn
     THEN UNCHANGED <<chatVars, task>>
     ELSE IF entry[i].kind = "message"
     THEN /\ local' = [local EXCEPT ![i] = Optimistic(@)]
          /\ shown' = [shown EXCEPT ![i] = "sending"]
          /\ Display(t, local', shown')
          /\ Put(t, i, [Idle EXCEPT !.pc = "prepare"])
     ELSE Begin(t, i) /\ UNCHANGED local
  /\ UNCHANGED <<relayVars, entry, outbox, prepared, encrypted, wire, flushVars,
                 signedIn, historyVars>>

------------------------------------------------------------------------------
(* One send: performSecureSend inside _performOutboxEntry.                 *)

\* The delivery encrypted for the roster as it is now.
Encrypted(i) ==
  [conv |-> Chat, message |-> entry[i].message, kind |-> entry[i].kind,
   device |-> MyDevice, recipients |-> Roster(Chat) \ {MyDevice},
   cipher |-> encrypted[i] + 1]

\* Mutant of Prepare: tabs do not exclude each other.
PrepareUnlocked(t, i) ==
  /\ At(t, i, "prepare")
  /\ \/ /\ prepared[i] # NoRequest
        /\ Put(t, i, [task[t][i] EXCEPT !.pc = "upload", !.request = prepared[i]])
        /\ UNCHANGED <<prepared, encrypted>>
     \/ /\ encrypted[i] + 1 \in Cipher
        /\ prepared' = [prepared EXCEPT ![i] = Encrypted(i)]
        /\ encrypted' = [encrypted EXCEPT ![i] = @ + 1]
        /\ Put(t, i, [task[t][i] EXCEPT !.pc = "upload", !.request = Encrypted(i)])
  /\ UNCHANGED <<relayVars, entry, outbox, chatVars, wire, composing, flushVars,
                 signedIn, historyVars>>

\* Under the lock: a saved dispatch is sent as it is; otherwise the roster is
\* fetched, the delivery encrypted for it and saved, or the roster is refused.
Prepare(t, i) ==
  /\ At(t, i, "prepare")
  /\ \A s \in Tab \ {t} : ~Holds(s, i)
  /\ \/ /\ prepared[i] # NoRequest
        /\ Put(t, i, [task[t][i] EXCEPT !.pc = "upload", !.request = prepared[i]])
        /\ UNCHANGED <<prepared, encrypted>>
     \/ /\ prepared[i] = NoRequest
        /\ MayAccess(Me, Chat) /\ ~SomeoneHasNoDevice(Chat)
        /\ encrypted[i] + 1 \in Cipher
        /\ prepared' = [prepared EXCEPT ![i] = Encrypted(i)]
        /\ encrypted' = [encrypted EXCEPT ![i] = @ + 1]
        /\ Put(t, i, [task[t][i] EXCEPT !.pc = "upload", !.request = Encrypted(i)])
     \/ /\ prepared[i] = NoRequest
        /\ ~MayAccess(Me, Chat) \/ SomeoneHasNoDevice(Chat)
        /\ GoTo(t, i, "failed")
        /\ UNCHANGED <<prepared, encrypted>>
  /\ UNCHANGED <<relayVars, entry, outbox, chatVars, wire, composing, flushVars,
                 signedIn, historyVars>>

\* Mutant of Persist: the upload goes out without a local copy.
PersistLater(t, i) ==
  /\ At(t, i, "upload")
  /\ wire' = wire \cup {[id |-> i, request |-> task[t][i].request, tab |-> t]}
  /\ Put(t, i, [task[t][i] EXCEPT !.pc = "wait", !.request = NoRequest])
  /\ UNCHANGED <<relayVars, durableVars, screen, composing, flushVars, signedIn, historyVars>>

\* The local copy or operation is stored, then the upload goes out.  If the
\* account was signed out meanwhile the send is refused, and refused for good.
Persist(t, i) ==
  /\ At(t, i, "upload")
  /\ IF t \in signedIn
     THEN /\ local' = [local EXCEPT ![i] = "kept"]
          /\ shown' = IF entry[i].kind = "message"
                      THEN [shown EXCEPT ![i] = "sending"] ELSE shown
          /\ Display(t, local', shown')
          /\ wire' = wire \cup {[id |-> i, request |-> task[t][i].request, tab |-> t]}
          /\ Put(t, i, [task[t][i] EXCEPT !.pc = "wait", !.request = NoRequest])
     ELSE /\ Put(t, i, [task[t][i] EXCEPT !.pc = "failed", !.request = NoRequest])
          /\ UNCHANGED <<chatVars, wire>>
  /\ UNCHANGED <<relayVars, entry, outbox, prepared, encrypted, composing, flushVars,
                 signedIn, historyVars>>

\* The server handles an upload; its reply reaches the window if one waits.
Serve(w) ==
  /\ w \in wire
  /\ wire' = wire \ {w}
  /\ IF Verdict(Me, w.id, w.request) = "created"
     THEN Upload(Me, w.id, w.request) ELSE UNCHANGED relayVars
  /\ IF w.tab = NoTab THEN UNCHANGED task
     ELSE Put(w.tab, w.id, [task[w.tab][w.id] EXCEPT
                              !.pc = "reply", !.reply = Verdict(Me, w.id, w.request)])
  /\ UNCHANGED <<durableVars, screen, composing, flushVars, signedIn, historyVars>>

\* No reply: the connection or the 180 seconds are gone.  The server may never
\* have had the request, have handled it, or have it still to handle.
LoseReply(t, i) ==
  /\ faults < MaxFaults
  /\ faults' = faults + 1
  /\ \/ At(t, i, "prepare") /\ UNCHANGED wire
     \/ At(t, i, "reply") /\ UNCHANGED wire
     \/ \E w \in wire : /\ w.id = i /\ w.tab = t
                        /\ wire' = (wire \ {w}) \cup {[w EXCEPT !.tab = NoTab]}
  /\ Put(t, i, [Idle EXCEPT !.pc = "queued"])
  /\ UNCHANGED <<relayVars, durableVars, screen, composing, flushVars, signedIn, restored, taps>>

\* Mutant of HandleReply: a refused upload is taken for a duplicate.
HandleAnyReply(t, i) ==
  /\ At(t, i, "reply")
  /\ Put(t, i, [Idle EXCEPT !.pc = "drop"])
  /\ Show(t, i, "sent")
  /\ UNCHANGED <<relayVars, entry, outbox, prepared, local, encrypted, wire, composing,
                 flushVars, signedIn, historyVars>>

\* Acceptance is shown first.  A changed roster allows one new encryption within
\* the send; every other refusal is final.
HandleReply(t, i) ==
  LET reply == task[t][i].reply
  IN  /\ At(t, i, "reply")
      /\ \/ /\ reply \in {"created", "duplicate"}
            /\ Put(t, i, [Idle EXCEPT !.pc = "drop"])
            /\ Show(t, i, "sent")
            /\ UNCHANGED prepared
         \/ /\ reply = "RECIPIENTS_CHANGED" /\ ~task[t][i].retried
            /\ prepared' = [prepared EXCEPT ![i] = NoRequest]
            /\ Put(t, i, [Idle EXCEPT !.pc = "prepare", !.retried = TRUE])
            /\ UNCHANGED <<shown, screen>>
         \/ /\ reply \notin {"created", "duplicate"}
            /\ ~(reply = "RECIPIENTS_CHANGED" /\ ~task[t][i].retried)
            /\ Put(t, i, [Idle EXCEPT !.pc = "failed"])
            /\ UNCHANGED <<prepared, shown, screen>>
      /\ UNCHANGED <<relayVars, entry, outbox, local, encrypted, wire, composing,
                     flushVars, signedIn, historyVars>>

\* The entry leaves the outbox ...
Drop(t, i) ==
  /\ At(t, i, "drop")
  /\ outbox' = [outbox EXCEPT ![i] = "none"]
  /\ GoTo(t, i, "clear")
  /\ UNCHANGED <<relayVars, entry, prepared, chatVars, encrypted, wire, composing,
                 flushVars, signedIn, historyVars>>

\* ... and then clearSecureDispatch discards the ciphertext.
Clear(t, i) ==
  /\ At(t, i, "clear")
  /\ prepared' = [prepared EXCEPT ![i] = NoRequest]
  /\ GoTo(t, i, "idle")
  /\ UNCHANGED <<relayVars, entry, outbox, chatVars, encrypted, wire, composing,
                 flushVars, signedIn, historyVars>>

\* A send that did not succeed records its status in the outbox ...
Settle(t, i) ==
  /\ \E status \in {"failed", "queued"} :
       /\ At(t, i, status)
       /\ Mark(i, status)
       /\ GoTo(t, i, IF status = "failed" THEN "show failed" ELSE "show queued")
  /\ UNCHANGED <<relayVars, entry, prepared, chatVars, encrypted, wire, composing,
                 flushVars, signedIn, historyVars>>

\* Mutant of ShowSettled: the send is never taken off the table of running sends.
ShowSettledInFlight(t, i) ==
  /\ \/ At(t, i, "show failed") /\ Show(t, i, "failed")
     \/ At(t, i, "show queued") /\ Show(t, i, "queued")
  /\ GoTo(t, i, "settled")
  /\ UNCHANGED <<relayVars, entry, outbox, prepared, local, encrypted, wire, composing,
                 flushVars, signedIn, historyVars>>

\* ... and then in the message.
ShowSettled(t, i) ==
  /\ \/ At(t, i, "show failed") /\ Show(t, i, "failed")
     \/ At(t, i, "show queued") /\ Show(t, i, "queued")
  /\ Put(t, i, Idle)
  /\ UNCHANGED <<relayVars, entry, outbox, prepared, local, encrypted, wire, composing,
                 flushVars, signedIn, historyVars>>

------------------------------------------------------------------------------
(* Flushing, retrying, signing out, crashing.                              *)

FlushIdle(t) ==
  todo[t] = {} /\ (waiting[t] # 0 => ~InFlight(t, waiting[t]))

\* The first entry of S is sent, or its running send awaited.  The writes of one
\* window to one record are queued, so the window stores the optimistic copy of an
\* entry it is still composing before its own flush gets to it.
SendFirst(t, S) ==
  \E i \in S :
      /\ \A j \in S : i <= j
      /\ i \notin composing[t]
      /\ todo' = [todo EXCEPT ![t] = S \ {i}]
      /\ waiting' = [waiting EXCEPT ![t] = i]
      /\ IF InFlight(t, i) THEN UNCHANGED <<task, shown, screen>> ELSE Begin(t, i)

\* Messages that the window's screen has with a pending id, without an entry.
\* The screen may be behind the conversation, which another window writes too.
Recovered(t) ==
  IF HasChat(t) THEN {i \in screen[t].pending : outbox[i] = "none"} ELSE {}

\* They are put back, then the outbox is read once: the flush works on this
\* snapshot, statuses included.
FlushStart(t) ==
  /\ t \in signedIn
  /\ FlushIdle(t)
  /\ outbox' = [i \in Id |-> IF i \in Recovered(t) THEN "queued" ELSE outbox[i]]
  /\ restored' = restored \cup Recovered(t)
  /\ \E i \in Id : outbox'[i] = "queued"
  /\ SendFirst(t, {i \in Id : outbox'[i] = "queued"})
  /\ UNCHANGED <<relayVars, entry, prepared, local, encrypted, wire, composing,
                 signedIn, faults, taps>>

\* The flush goes on when the send it awaited has ended, however it ended.
FlushNext(t) ==
  /\ todo[t] # {}
  /\ ~InFlight(t, waiting[t])
  /\ IF t \notin signedIn
     THEN /\ todo' = [todo EXCEPT ![t] = {}]
          /\ UNCHANGED <<waiting, task, shown, screen>>
     ELSE SendFirst(t, todo[t])
  /\ UNCHANGED <<relayVars, entry, outbox, prepared, local, encrypted, wire,
                 composing, signedIn, historyVars>>

\* retryMessage puts a missing entry back and then reads an undeclared variable
\* in the call that would start the send: the call throws and nothing is sent.
RetryMessage(t, i) ==
  /\ t \in signedIn
  /\ HasChat(t) /\ i \in screen[t].unsent
  /\ taps[i] < MaxTaps
  /\ taps' = [taps EXCEPT ![i] = @ + 1]
  /\ IF outbox[i] = "none"
     THEN /\ outbox' = [outbox EXCEPT ![i] = "queued"]
          /\ restored' = restored \cup {i}
     ELSE UNCHANGED <<outbox, restored>>
  /\ UNCHANGED <<relayVars, entry, prepared, chatVars, encrypted, sendVars,
                 composing, flushVars, signedIn, faults>>

\* cleanup: running sends and the flush go on until they look at the account.
Logout(t) ==
  /\ t \in signedIn
  /\ signedIn' = signedIn \ {t}
  /\ screen' = [screen EXCEPT ![t] = NoChat]
  /\ UNCHANGED <<relayVars, durableVars, sendVars, composing, flushVars, historyVars>>

Login(t) ==
  /\ t \notin signedIn
  /\ signedIn' = signedIn \cup {t}
  /\ UNCHANGED <<relayVars, durableVars, screen, sendVars, composing, flushVars, historyVars>>

\* The chat is opened, or read again for a delivery received.
LoadMessages(t) ==
  /\ t \in signedIn
  /\ screen' = [screen EXCEPT ![t] = ScreenOf(local, shown)]
  /\ UNCHANGED <<relayVars, durableVars, sendVars, composing, flushVars, signedIn,
                 historyVars>>

LeaveConversation(t) ==
  /\ HasChat(t)
  /\ screen' = [screen EXCEPT ![t] = NoChat]
  /\ UNCHANGED <<relayVars, durableVars, sendVars, composing, flushVars, signedIn,
                 historyVars>>

\* The window is closed or killed and opened again.
Crash(t) ==
  /\ faults < MaxFaults
  /\ faults' = faults + 1
  /\ task' = [task EXCEPT ![t] = [i \in Id |-> Idle]]
  /\ wire' = {[w EXCEPT !.tab = IF @ = t THEN NoTab ELSE @] : w \in wire}
  /\ composing' = [composing EXCEPT ![t] = {}]
  /\ todo' = [todo EXCEPT ![t] = {}]
  /\ waiting' = [waiting EXCEPT ![t] = 0]
  /\ screen' = [screen EXCEPT ![t] = NoChat]
  /\ UNCHANGED <<relayVars, durableVars, signedIn, restored, taps>>

------------------------------------------------------------------------------

\* What the others do meanwhile, as far as a sender can notice: blocks count only
\* in a direct chat.
OthersStep ==
  /\ \/ \E u \in User, d \in Device : RegisterDevice(u, d)
     \/ ConvKind[Chat] = "direct" /\ \E u, v \in User : Block(u, v) \/ Unblock(u, v)
     \/ \E u \in User \ {Me} : AddMember(u, Chat)
     \/ \E u \in User \ {Me} : RemoveParticipant(u, Chat)
  /\ UNCHANGED clientVars

SendStep(t, i) ==
  \/ Prepare(t, i) \/ Persist(t, i) \/ HandleReply(t, i)
  \/ Drop(t, i) \/ Clear(t, i) \/ Settle(t, i) \/ ShowSettled(t, i)

UserStep(t) ==
  \/ \E i \in Id : Compose(t, i) \/ RetryMessage(t, i)
  \/ \E i, m \in Id, kind \in {"edit", "delete", "reaction"} : SendOperation(t, i, kind, m)
  \/ Logout(t) \/ Login(t) \/ LoadMessages(t) \/ LeaveConversation(t)

OutboxNext ==
  \/ \E t \in Tab : UserStep(t) \/ FlushStart(t) \/ FlushNext(t) \/ Crash(t)
  \/ \E t \in Tab, i \in Id : StartSend(t, i) \/ SendStep(t, i) \/ LoseReply(t, i)
  \/ \E w \in wire : Serve(w)
  \/ OthersStep

OutboxSpec == OutboxInit /\ [][OutboxNext]_outboxVars

\* The event loop runs started sends, the 8-second timer flushes the outbox, and
\* the server answers whoever still waits.  Users and faults owe nothing.
OutboxFairness ==
  /\ \A t \in Tab, i \in Id :
       /\ WF_outboxVars(StartSend(t, i) \/ SendStep(t, i))
       /\ WF_outboxVars(\E w \in wire : w.tab = t /\ w.id = i /\ Serve(w))
  /\ \A t \in Tab : WF_outboxVars(FlushStart(t)) /\ WF_outboxVars(FlushNext(t))

FairOutboxSpec == OutboxSpec /\ OutboxFairness

------------------------------------------------------------------------------
(* Properties.                                                             *)

\* Nothing composed is lost: it is in the outbox until the relay has accepted it,
\* whatever crashes, lost replies, sign-outs and competing windows come between.
NothingLost == \A i \in Id : Composed(i) => outbox[i] # "none" \/ Accepted(i)

\* A message shown without a delivery state was accepted by the relay.
SentMeansAccepted == \A i \in Id : shown[i] = "sent" => Accepted(i)

\* Whatever the relay has accepted, the sender has in its own history, stored as
\* delivered.  There is one exception: with several windows, one may send the entry
\* that another is still composing, and the late optimistic copy of that one then
\* takes the id of the kept copy away.
SeveralTabs == \E s, t \in Tab : s # t
KeptBeforeAccepted ==
  \A i \in Id : Accepted(i) =>
    local[i] = "kept" \/ (local[i] = "overwritten" /\ SeveralTabs)

\* While the outbox can still retry an accepted dispatch, the ciphertext it will
\* send is the accepted one, so that the retry is recognised as a duplicate, however
\* many windows send the entry at once.  The only way out is to have left the outbox
\* and to be put back from a window's screen.
RetriesAreDuplicates ==
  \A i \in Id \ restored :
    outbox[i] # "none" /\ Accepted(i) => prepared[i] = dispatch[i].request

\* An edit, deletion or reaction never overtakes the message it changes.
OperationsFindTheirMessage ==
  \A t \in Tab, i \in Id : task[t][i].reply # "MESSAGE_NOT_FOUND"

\* A queued entry does not stay queued for ever while somebody is signed in: it
\* is accepted, or refused and marked as failed.
EventuallySettled ==
  \A i \in Id : outbox[i] = "queued" ~> (outbox[i] # "queued" \/ signedIn = {})

\* docs/ENCRYPTED_MESSAGING.md, "Retrying an accepted dispatch reuses identical
\* ciphertext": whatever is sent for an accepted id is what was accepted.
AcceptedNeverReencrypted ==
  \A w \in wire : Accepted(w.id) => w.request = dispatch[w.id].request

\* The label of a failed message, "Not sent": the relay does not have it.
FailedMeansNotSent == \A i \in Id : shown[i] = "failed" => ~Accepted(i)
==============================================================================
