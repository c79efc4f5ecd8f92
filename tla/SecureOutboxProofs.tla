-------------------------- MODULE SecureOutboxProofs -------------------------
(* Proofs about the sending client, for any number of windows, entries and   *)
(* devices, any conversation, and any number of faults, taps and sign-outs;  *)
(* only the retries, at the end, are about chats that are not groups.  Of a  *)
(* window's screen they use no more than that it was the conversation once.  *)
EXTENDS SecureOutbox, SecureRelayProofs

------------------------------------------------------------------------------
(* The steps of the client.                                                *)

\* What may be composed under id i: a message, or an operation on a message that
\* some window shows as sent.
NewEntry(i, e) ==
  \/ e.kind = "message" /\ e.message = i
  \/ /\ e.kind \in {"edit", "delete", "reaction"}
     /\ \E t \in Tab : HasChat(t) /\ e.message \in screen[t].sent

\* A step of a window that changes nothing but its session and its screen.
SessionStep(t) ==
  /\ UNCHANGED <<relayVars, durableVars, sendVars, composing, flushVars, historyVars>>
  /\ signedIn' \subseteq signedIn \cup {t}
  /\ screen' \in {screen, [screen EXCEPT ![t] = NoChat],
                  [screen EXCEPT ![t] = ScreenOf(local, shown)]}

\* The steps of the composition, one case each.
LEMMA OutboxCases ==
  ASSUME [OutboxNext]_outboxVars
  PROVE  \/ \E t \in Tab, i \in Id, e \in Entry : Enqueue(t, i, e) /\ NewEntry(i, e)
         \/ \E t \in Tab, i \in Id : StartSend(t, i)
         \/ \E t \in Tab, i \in Id : Prepare(t, i)
         \/ \E t \in Tab, i \in Id : Persist(t, i)
         \/ \E w \in wire : Serve(w)
         \/ \E t \in Tab, i \in Id : LoseReply(t, i)
         \/ \E t \in Tab, i \in Id : HandleReply(t, i)
         \/ \E t \in Tab, i \in Id : Drop(t, i)
         \/ \E t \in Tab, i \in Id : Clear(t, i)
         \/ \E t \in Tab, i \in Id : Settle(t, i)
         \/ \E t \in Tab, i \in Id : ShowSettled(t, i)
         \/ \E t \in Tab : FlushStart(t)
         \/ \E t \in Tab : FlushNext(t)
         \/ \E t \in Tab, i \in Id : RetryMessage(t, i)
         \/ \E t \in Tab : SessionStep(t)
         \/ \E t \in Tab : Crash(t)
         \/ OthersStep
         \/ UNCHANGED outboxVars
  <1>1. ASSUME NEW t \in Tab, NEW i \in Id, Compose(t, i)
        PROVE  \E e \in Entry : Enqueue(t, i, e) /\ NewEntry(i, e)
    BY <1>1 DEF Compose, Entry, NewEntry
  <1>2. ASSUME NEW t \in Tab, NEW i \in Id, NEW m \in Id,
               NEW kind \in {"edit", "delete", "reaction"}, SendOperation(t, i, kind, m)
        PROVE  \E e \in Entry : Enqueue(t, i, e) /\ NewEntry(i, e)
    BY <1>2 DEF SendOperation, Entry, NewEntry
  <1>3. ASSUME NEW t \in Tab,
               Logout(t) \/ Login(t) \/ LoadMessages(t) \/ LeaveConversation(t)
        PROVE  SessionStep(t)
    BY <1>3 DEF Logout, Login, LoadMessages, LeaveConversation, SessionStep
  <1> QED BY <1>1, <1>2, <1>3 DEF OutboxNext, UserStep, SendStep

------------------------------------------------------------------------------
(* Entries that do not exist yet.                                          *)

\* A window shows message i as one that it has yet to send, or could not send.
Pictured(i) ==
  \E t \in Tab : HasChat(t) /\ i \in screen[t].pending \cup screen[t].unsent

\* An id under which nothing was composed occurs nowhere.
Known ==
  \A i \in Id : ~Composed(i) =>
    /\ outbox[i] = "none" /\ local[i] = "none" /\ shown[i] = "none" /\ ~Pictured(i)
    /\ \A t \in Tab : i \notin composing[t] /\ i \notin todo[t] /\ task[t][i].pc = "idle"
    /\ \A w \in wire : w.id # i
    /\ ~Accepted(i)

\* What a send can be made of is well typed.
LEMMA EncryptedIsRequest ==
  ASSUME OutboxTypeOK, NEW i \in Id, Composed(i), encrypted[i] + 1 \in Cipher
  PROVE  Encrypted(i) \in Request
  BY OutboxAssumption DEF OutboxTypeOK, Encrypted, Composed, Entry, Request, OpKind, Roster

\* The initial state is well typed.
LEMMA InitOutboxTypeOK == OutboxInit => OutboxTypeOK
  BY OutboxAssumption DEF OutboxInit, OutboxTypeOK, TypeOK, Send, Place, Idle, Copy,
     DeliveryState

\* An upload that is accepted was waiting as a request of the relay.
LEMMA ServeIsUpload ==
  ASSUME OutboxTypeOK, NEW w \in wire, Serve(w)
  PROVE  \/ UNCHANGED relayVars
         \/ \E r \in Uploads(Me, w.id) : Upload(Me, w.id, r)
  <1>1. CASE Upload(Me, w.id, w.request)
    <2>1. Verdict(Me, w.id, w.request) = "created"
      BY <1>1 DEF Upload
    <2>2. w.id \in Id /\ w.request \in Request
      BY DEF OutboxTypeOK
    <2>3. /\ deviceOwner[w.request.device] = Me
          /\ MayAccess(Me, w.request.conv)
          /\ ~Accepted(w.id)
          /\ Expected(Me, w.request) = w.request.recipients
      BY <2>1, CreatedVerdict
    <2>4. w.request.recipients \subseteq {d \in Device : deviceOwner[d] # NoUser}
      BY <2>2, <2>3, RelayAssumption, OutboxAssumption
         DEF Expected, Roster, DevicesOf, OutboxTypeOK, TypeOK, MayAccess
    <2>5. w.request \in Requests(Me)
      BY <2>2, <2>3, <2>4 DEF Requests, Request, MayAccess, DevicesOf
    <2> QED BY <1>1, <2>3, <2>5 DEF Uploads
  <1>2. CASE UNCHANGED relayVars
    BY <1>2
  <1> QED BY <1>1, <1>2 DEF Serve

\* Every step of the composition is a step of the relay, or leaves it alone.
LEMMA OutboxRelayStep ==
  ASSUME OutboxTypeOK, [OutboxNext]_outboxVars
  PROVE  [Next]_relayVars
  <1>1. CASE \E w \in wire : Serve(w)
    BY <1>1, ServeIsUpload, OutboxAssumption DEF Next, OutboxTypeOK
  <1>2. CASE OthersStep
    BY <1>2, OutboxAssumption DEF OthersStep, Next, RosterStep
  <1>3. CASE UNCHANGED relayVars
    BY <1>3
  <1>4. (\E w \in wire : Serve(w)) \/ OthersStep \/ UNCHANGED relayVars
    BY OutboxCases DEF Enqueue, StartSend, Prepare, Persist, LoseReply, HandleReply,
       Drop, Clear, Settle, ShowSettled, FlushStart, FlushNext, RetryMessage,
       SessionStep, Crash, outboxVars
  <1> QED BY <1>1, <1>2, <1>3, <1>4

\* A window has not sent what it is still composing.  Another one may have.
Fresh ==
  \A t \in Tab, i \in Id : i \in composing[t] =>
    /\ task[t][i].pc = "idle"
    /\ \A w \in wire : w.id = i => w.tab # t
    /\ SeveralTabs \/ (~Accepted(i) /\ \A w \in wire : w.id # i)

------------------------------------------------------------------------------
(* What the steps do to sends.                                             *)

\* A send that is replaced is replaced alone.
LEMMA PutSend ==
  ASSUME OutboxTypeOK, NEW t \in Tab, NEW i \in Id, NEW x \in Send, Put(t, i, x)
  PROVE  /\ task' \in [Tab -> [Id -> Send]]
         /\ task'[t][i] = x
         /\ \A s \in Tab, j \in Id : s # t \/ j # i => task'[s][j] = task[s][j]
  BY DEF OutboxTypeOK, Put

\* A send may be moved.
LEMMA MovedSend ==
  ASSUME NEW x \in Send, NEW p \in Place
  PROVE  /\ [x EXCEPT !.pc = p] \in Send
         /\ [x EXCEPT !.pc = p].pc = p
         /\ [x EXCEPT !.pc = p].request = x.request
         /\ [x EXCEPT !.pc = p].reply = x.reply
  BY DEF Send

\* A send begins, or begins again, with nothing in hand.
LEMMA IdleSend ==
  ASSUME NEW p \in Place
  PROVE  /\ Idle \in Send /\ Idle.pc = "idle"
         /\ Idle.request = NoRequest /\ Idle.reply = "none"
         /\ [Idle EXCEPT !.pc = p] \in Send
         /\ [Idle EXCEPT !.pc = p].pc = p
         /\ [Idle EXCEPT !.pc = p].request = NoRequest
         /\ [Idle EXCEPT !.pc = p].reply = "none"
         /\ [Idle EXCEPT !.pc = p, !.retried = TRUE] \in Send
         /\ [Idle EXCEPT !.pc = p, !.retried = TRUE].pc = p
         /\ [Idle EXCEPT !.pc = p, !.retried = TRUE].request = NoRequest
         /\ [Idle EXCEPT !.pc = p, !.retried = TRUE].reply = "none"
  BY DEF Send, Idle, Place

\* The verdicts are the replies.
LEMMA VerdictIsReply ==
  ASSUME NEW u, NEW i, NEW r
  PROVE  Verdict(u, i, r) \in Reply
  BY DEF Verdict, TargetVerdict, Reply


\* What is new on the wire comes from a send at its upload.
LEMMA WireStep ==
  ASSUME OutboxTypeOK, [OutboxNext]_outboxVars, NEW w \in wire'
  PROVE  \/ \E v \in wire : /\ v.id = w.id /\ v.request = w.request
                            /\ w.tab \in {v.tab, NoTab}
         \/ \E t \in Tab : /\ At(t, w.id, "upload")
                           /\ w.request = task[t][w.id].request /\ w.tab = t
                           /\ local'[w.id] = "kept"
  <1>1. ASSUME NEW t \in Tab, NEW i \in Id, Persist(t, i), w \notin wire
        PROVE  /\ w.id = i /\ At(t, i, "upload") /\ w.request = task[t][i].request
               /\ w.tab = t /\ local'[i] = "kept"
    BY <1>1 DEF Persist, OutboxTypeOK
  <1>2. ASSUME NEW t \in Tab, NEW i \in Id, LoseReply(t, i), w \notin wire
        PROVE  \E v \in wire : v.id = w.id /\ v.request = w.request /\ w.tab = NoTab
    <2>1. PICK v \in wire : w = [v EXCEPT !.tab = NoTab]
      BY <1>2 DEF LoseReply
    <2>2. v \in [id: Id, request: Request, tab: Tab \cup {NoTab}]
      BY DEF OutboxTypeOK
    <2> QED BY <2>1, <2>2
  <1>3. ASSUME NEW t \in Tab, Crash(t)
        PROVE  \E v \in wire : /\ v.id = w.id /\ v.request = w.request
                              /\ w.tab \in {v.tab, NoTab}
    BY <1>3 DEF Crash, OutboxTypeOK
  <1>4. w \in wire \/ (\E t \in Tab : Crash(t))
        \/ (\E t \in Tab, i \in Id : Persist(t, i) \/ LoseReply(t, i))
    BY OutboxCases DEF Enqueue, StartSend, Prepare, Serve, HandleReply, Drop, Clear,
       Settle, ShowSettled, FlushStart, FlushNext, RetryMessage, SessionStep,
       OthersStep, outboxVars, clientVars, sendVars
  <1> QED BY <1>1, <1>2, <1>3, <1>4

\* A receipt is written once, for an upload on the wire, and stays.
LEMMA DispatchStepOfOutbox ==
  ASSUME OutboxTypeOK, [OutboxNext]_outboxVars, NEW i \in Id
  PROVE  \/ dispatch'[i] = dispatch[i]
         \/ /\ ~Accepted(i) /\ Accepted(i)'
            /\ \E w \in wire : w.id = i /\ dispatch'[i].request = w.request
  <1>1. ASSUME NEW w \in wire, Serve(w), dispatch'[i] # dispatch[i]
        PROVE  /\ ~Accepted(i) /\ Accepted(i)'
               /\ w.id = i /\ dispatch'[i].request = w.request
    <2>1. Upload(Me, w.id, w.request)
      BY <1>1 DEF Serve, relayVars
    <2>2. ~Accepted(w.id)
      BY <2>1, CreatedVerdict DEF Upload
    <2>3. dispatch' = [dispatch EXCEPT ![w.id] = [request |-> w.request, sender |-> Me]]
      BY <2>1 DEF Upload
    <2>4. w.id = i /\ dispatch'[i] = [request |-> w.request, sender |-> Me]
      BY <1>1, <2>3 DEF OutboxTypeOK, TypeOK
    <2>5. dispatch'[i] \in Dispatch
      BY <2>4, OutboxAssumption DEF Dispatch, OutboxTypeOK
    <2> QED BY <2>2, <2>4, <2>5, RelayAssumption DEF Accepted
  <1>2. CASE OthersStep
    BY <1>2 DEF OthersStep, RegisterDevice, Block, Unblock, AddMember, RemoveParticipant,
       Prune, queueVars
  <1>3. UNCHANGED dispatch \/ OthersStep \/ \E w \in wire : Serve(w)
    BY OutboxCases DEF Enqueue, StartSend, Prepare, Persist, LoseReply, HandleReply,
       Drop, Clear, Settle, ShowSettled, FlushStart, FlushNext, RetryMessage,
       SessionStep, Crash, outboxVars, relayVars
  <1> QED BY <1>1, <1>2, <1>3

\* An entry is composed once, under an id not used so far, and stays.
LEMMA EntryStep ==
  ASSUME OutboxTypeOK, [OutboxNext]_outboxVars, NEW i \in Id
  PROVE  \/ entry'[i] = entry[i]
         \/ /\ ~Composed(i) /\ Composed(i)' /\ entry'[i] \in Entry
            /\ NewEntry(i, entry'[i]) /\ outbox'[i] = "queued"
  <1>1. ASSUME NEW t \in Tab, NEW j \in Id, NEW e \in Entry, Enqueue(t, j, e), NewEntry(j, e)
        PROVE  \/ entry'[i] = entry[i]
               \/ /\ ~Composed(i) /\ Composed(i)' /\ entry'[i] = e /\ i = j
                  /\ outbox'[i] = "queued"
    BY <1>1, OutboxAssumption DEF Enqueue, Composed, OutboxTypeOK
  <1>2. UNCHANGED entry
        \/ \E t \in Tab, j \in Id, e \in Entry : Enqueue(t, j, e) /\ NewEntry(j, e)
    BY OutboxCases DEF StartSend, Prepare, Persist, Serve, LoseReply, HandleReply,
       Drop, Clear, Settle, ShowSettled, FlushStart, FlushNext, RetryMessage,
       SessionStep, Crash, OthersStep, outboxVars, clientVars, durableVars
  <1> QED BY <1>1, <1>2

\* A window takes an id into composition only when it composes the entry.
LEMMA ComposingStep ==
  ASSUME OutboxTypeOK, [OutboxNext]_outboxVars, NEW t \in Tab, NEW i \in Id,
         i \in composing'[t]
  PROVE  \/ i \in composing[t]
         \/ ~Composed(i) /\ Composed(i)' /\ UNCHANGED <<dispatch, task, wire>>
  <1>1. ASSUME NEW s \in Tab, NEW j \in Id, NEW e \in Entry, Enqueue(s, j, e)
        PROVE  \/ i \in composing[t]
               \/ ~Composed(i) /\ Composed(i)' /\ UNCHANGED <<dispatch, task, wire>>
    BY <1>1, OutboxAssumption DEF Enqueue, Composed, OutboxTypeOK, relayVars, sendVars
  <1>2. CASE \E s \in Tab, j \in Id : StartSend(s, j)
    BY <1>2 DEF StartSend, OutboxTypeOK
  <1>3. CASE \E s \in Tab : Crash(s)
    BY <1>3 DEF Crash, OutboxTypeOK
  <1>4. CASE UNCHANGED composing
    BY <1>4
  <1>5. \/ UNCHANGED composing \/ (\E s \in Tab : Crash(s))
        \/ (\E s \in Tab, j \in Id : StartSend(s, j))
        \/ \E s \in Tab, j \in Id, e \in Entry : Enqueue(s, j, e)
    BY OutboxCases DEF Prepare, Persist, Serve, LoseReply, HandleReply, Drop, Clear,
       Settle, ShowSettled, FlushStart, FlushNext, RetryMessage, SessionStep,
       OthersStep, outboxVars, clientVars
  <1> QED BY <1>1, <1>2, <1>3, <1>4, <1>5

\* What is left of a flush's snapshot was queued when the flush began.
LEMMA TodoStep ==
  ASSUME OutboxTypeOK, [OutboxNext]_outboxVars, NEW t \in Tab, NEW i \in todo'[t]
  PROVE  i \in todo[t] \/ outbox'[i] = "queued"
  <1>1. ASSUME NEW s \in Tab, NEW S \in SUBSET Id, SendFirst(s, S)
        PROVE  i \in todo[t] \/ (s = t /\ i \in S)
    BY <1>1 DEF SendFirst, OutboxTypeOK
  <1>2. CASE \E s \in Tab : FlushStart(s)
    BY <1>1, <1>2 DEF FlushStart
  <1>3. CASE \E s \in Tab : FlushNext(s)
    BY <1>1, <1>3 DEF FlushNext, OutboxTypeOK
  <1>4. CASE \E s \in Tab : Crash(s)
    BY <1>4 DEF Crash, OutboxTypeOK
  <1>5. \/ UNCHANGED todo \/ (\E s \in Tab : Crash(s))
        \/ (\E s \in Tab : FlushStart(s)) \/ \E s \in Tab : FlushNext(s)
    BY OutboxCases DEF Enqueue, StartSend, Prepare, Persist, Serve, LoseReply,
       HandleReply, Drop, Clear, Settle, ShowSettled, RetryMessage, SessionStep,
       OthersStep, outboxVars, clientVars, flushVars
  <1> QED BY <1>2, <1>3, <1>4, <1>5

\* A local copy is written when the entry's first send starts, and at each upload.
LEMMA LocalStep ==
  ASSUME OutboxTypeOK, [OutboxNext]_outboxVars, NEW i \in Id
  PROVE  \/ local'[i] = local[i]
         \/ local'[i] = "kept" /\ \E t \in Tab : At(t, i, "upload")
         \/ /\ local'[i] = Optimistic(local[i]) /\ \E t \in Tab : i \in composing[t]
            /\ UNCHANGED <<dispatch, wire, outbox>>
  <1>1. ASSUME NEW t \in Tab, NEW j \in Id, StartSend(t, j), local'[i] # local[i]
        PROVE  /\ local'[i] = Optimistic(local[i]) /\ i \in composing[t]
               /\ UNCHANGED <<dispatch, wire, outbox>>
    BY <1>1 DEF StartSend, OutboxTypeOK, Begin, relayVars, chatVars
  <1>2. ASSUME NEW t \in Tab, NEW j \in Id, Persist(t, j), local'[i] # local[i]
        PROVE  local'[i] = "kept" /\ At(t, i, "upload")
    BY <1>2 DEF Persist, OutboxTypeOK, chatVars
  <1>3. UNCHANGED local \/ (\E t \in Tab, j \in Id : StartSend(t, j) \/ Persist(t, j))
    BY OutboxCases DEF Enqueue, Prepare, Serve, LoseReply, HandleReply, Drop, Clear,
       Settle, ShowSettled, FlushStart, FlushNext, RetryMessage, SessionStep, Crash,
       OthersStep, outboxVars, clientVars, durableVars, chatVars
  <1> QED BY <1>1, <1>2, <1>3

\* An entry leaves the outbox only after a send that was accepted.
LEMMA OutboxStep ==
  ASSUME OutboxTypeOK, [OutboxNext]_outboxVars, NEW i \in Id
  PROVE  \/ outbox'[i] = outbox[i]
         \/ outbox'[i] = "none" /\ \E t \in Tab : At(t, i, "drop")
         \/ /\ outbox'[i] \in {"queued", "failed"}
            /\ outbox[i] # "none" \/ Pictured(i) \/ Composed(i)'
  <1>1. ASSUME NEW t \in Tab, NEW j \in Id, NEW e \in Entry, Enqueue(t, j, e)
        PROVE  \/ outbox'[i] = outbox[i]
               \/ outbox'[i] = "queued" /\ Composed(i)'
    BY <1>1, OutboxAssumption DEF Enqueue, Composed, OutboxTypeOK
  <1>2. ASSUME NEW t \in Tab, NEW j \in Id, Drop(t, j)
        PROVE  outbox'[i] = outbox[i] \/ (outbox'[i] = "none" /\ At(t, i, "drop"))
    BY <1>2 DEF Drop, OutboxTypeOK
  <1>3. ASSUME NEW t \in Tab, NEW j \in Id, Settle(t, j)
        PROVE  outbox'[i] = outbox[i]
               \/ (outbox'[i] \in {"queued", "failed"} /\ outbox[i] # "none")
    BY <1>3 DEF Settle, Mark, OutboxTypeOK
  <1>4. ASSUME NEW t \in Tab, FlushStart(t)
        PROVE  outbox'[i] = outbox[i] \/ (outbox'[i] = "queued" /\ Pictured(i))
    BY <1>4 DEF FlushStart, Recovered, Pictured
  <1>5. ASSUME NEW t \in Tab, NEW j \in Id, RetryMessage(t, j)
        PROVE  outbox'[i] = outbox[i] \/ (outbox'[i] = "queued" /\ Pictured(i))
    BY <1>5 DEF RetryMessage, Pictured, OutboxTypeOK
  <1>6. \/ UNCHANGED outbox \/ (\E t \in Tab : FlushStart(t))
        \/ (\E t \in Tab, j \in Id : Drop(t, j) \/ Settle(t, j) \/ RetryMessage(t, j))
        \/ \E t \in Tab, j \in Id, e \in Entry : Enqueue(t, j, e)
    BY OutboxCases DEF StartSend, Prepare, Persist, Serve, LoseReply,
       HandleReply, Clear, ShowSettled, FlushNext, SessionStep, Crash,
       OthersStep, outboxVars, clientVars, durableVars
  <1> QED BY <1>1, <1>2, <1>3, <1>4, <1>5, <1>6

\* A message is shown as sent only when the reply says that it was accepted.
LEMMA ShownStep ==
  ASSUME OutboxTypeOK, [OutboxNext]_outboxVars, NEW i \in Id
  PROVE  \/ shown'[i] = shown[i]
         \/ /\ shown'[i] \in {"sending", "queued", "failed"}
            /\ \/ local[i] # "none"
               \/ \E t \in Tab : i \in composing[t] \/ At(t, i, "upload")
            /\ entry[i].kind = "message"
         \/ /\ shown'[i] = "sent" /\ entry[i].kind = "message"
            /\ \E t \in Tab : At(t, i, "reply")
                              /\ task[t][i].reply \in {"created", "duplicate"}
  <1> USE DEF chatVars
  <1> DEFINE Busy == \/ local[i] # "none"
                     \/ \E t \in Tab : i \in composing[t] \/ At(t, i, "upload")
  <1> DEFINE Goal == \/ shown'[i] = shown[i]
                     \/ /\ shown'[i] \in {"sending", "queued", "failed"}
                        /\ Busy /\ entry[i].kind = "message"
                     \/ /\ shown'[i] = "sent" /\ entry[i].kind = "message"
                        /\ \E t \in Tab : At(t, i, "reply")
                              /\ task[t][i].reply \in {"created", "duplicate"}
  <1>1. ASSUME NEW s \in Tab, NEW j \in Id, NEW v, Show(s, j, v)
        PROVE  shown'[i] = shown[i] \/ (i = j /\ shown'[i] = v /\ local[i] # "none"
                                           /\ entry[i].kind = "message")
    BY <1>1 DEF Show, OutboxTypeOK
  <1>2. ASSUME NEW s \in Tab, NEW S \in SUBSET Id, SendFirst(s, S) PROVE Goal
    BY <1>1, <1>2 DEF SendFirst, Begin
  <1>3. ASSUME NEW t \in Tab, NEW j \in Id, StartSend(t, j) PROVE Goal
    BY <1>1, <1>3 DEF StartSend, OutboxTypeOK, Begin
  <1>4. ASSUME NEW t \in Tab, NEW j \in Id, Persist(t, j) PROVE Goal
    BY <1>4 DEF Persist, OutboxTypeOK
  <1>5. ASSUME NEW t \in Tab, NEW j \in Id, HandleReply(t, j) PROVE Goal
    BY <1>1, <1>5 DEF HandleReply
  <1>6. ASSUME NEW t \in Tab, NEW j \in Id, ShowSettled(t, j) PROVE Goal
    BY <1>1, <1>6 DEF ShowSettled
  <1>7. ASSUME NEW t \in Tab, FlushStart(t) PROVE Goal
    BY <1>2, <1>7 DEF FlushStart
  <1>8. ASSUME NEW t \in Tab, FlushNext(t) PROVE Goal
    BY <1>2, <1>8 DEF FlushNext, OutboxTypeOK
  <1>9. \/ UNCHANGED shown
        \/ (\E t \in Tab : FlushStart(t)) \/ (\E t \in Tab : FlushNext(t))
        \/ \E t \in Tab, j \in Id : \/ StartSend(t, j) \/ Persist(t, j)
                                   \/ HandleReply(t, j) \/ ShowSettled(t, j)
    BY OutboxCases DEF Enqueue, Prepare, Serve, LoseReply, Drop, Clear, Settle,
       RetryMessage, SessionStep, Crash, OthersStep, outboxVars, clientVars,
       durableVars
  <1> QED BY <1>3, <1>4, <1>5, <1>6, <1>7, <1>8, <1>9

\* A screen is closed, or becomes the conversation as it now is.
LEMMA ScreenStep ==
  ASSUME OutboxTypeOK, [OutboxNext]_outboxVars
  PROVE  \/ screen' = screen
         \/ \E t \in Tab : screen' \in {[screen EXCEPT ![t] = NoChat],
                                       [screen EXCEPT ![t] = ScreenOf(local', shown')]}
  <1> DEFINE Goal == \/ screen' = screen
                     \/ \E t \in Tab :
                          screen' \in {[screen EXCEPT ![t] = NoChat],
                                      [screen EXCEPT ![t] = ScreenOf(local', shown')]}
  <1> USE DEF chatVars
  <1>1. ASSUME NEW t \in Tab, Display(t, local', shown') PROVE Goal
    BY <1>1 DEF Display
  <1>2. ASSUME NEW t \in Tab, NEW j, NEW v, Show(t, j, v), UNCHANGED local PROVE Goal
    BY <1>2 DEF Show, Display
  <1>3. ASSUME NEW t \in Tab, NEW S, SendFirst(t, S), UNCHANGED local PROVE Goal
    BY <1>2, <1>3 DEF SendFirst, Begin
  <1>4. ASSUME NEW t \in Tab, NEW i \in Id, StartSend(t, i) PROVE Goal
    BY <1>1, <1>2, <1>4 DEF StartSend, Begin
  <1>5. ASSUME NEW t \in Tab, NEW i \in Id, Persist(t, i) PROVE Goal
    BY <1>1, <1>5 DEF Persist
  <1>6. ASSUME NEW t \in Tab, NEW i \in Id, HandleReply(t, i) \/ ShowSettled(t, i)
        PROVE  Goal
    BY <1>2, <1>6 DEF HandleReply, ShowSettled
  <1>7. ASSUME NEW t \in Tab, FlushStart(t) \/ FlushNext(t) PROVE Goal
    BY <1>3, <1>7 DEF FlushStart, FlushNext
  <1>8. ASSUME NEW t \in Tab, SessionStep(t) \/ Crash(t) PROVE Goal
    BY <1>8 DEF SessionStep, Crash, durableVars
  <1>9. \/ UNCHANGED screen
        \/ \E t \in Tab : FlushStart(t) \/ FlushNext(t)
        \/ \E t \in Tab : SessionStep(t) \/ Crash(t)
        \/ \E t \in Tab, i \in Id : \/ StartSend(t, i) \/ Persist(t, i)
                                   \/ HandleReply(t, i) \/ ShowSettled(t, i)
    BY OutboxCases DEF Enqueue, Prepare, Serve, LoseReply, Drop, Clear, Settle,
       RetryMessage, OthersStep, outboxVars, clientVars
  <1> QED BY <1>4, <1>5, <1>6, <1>7, <1>8, <1>9

\* What one window has on screen after a step.
LEMMA ScreenOfWindow ==
  ASSUME OutboxTypeOK, [OutboxNext]_outboxVars
  PROVE  /\ screen' \in [Tab -> Screen \cup {NoChat}]
         /\ \A t \in Tab : screen'[t] \in {screen[t], NoChat, ScreenOf(local', shown')}
  <1>1. ScreenOf(local', shown') \in Screen
    BY DEF ScreenOf, Screen
  <1>2. PICK x : x = ScreenOf(local', shown') /\ x \in Screen
    BY <1>1
  <1>3. \/ screen' = screen
        \/ \E t \in Tab : screen' \in {[screen EXCEPT ![t] = NoChat], [screen EXCEPT ![t] = x]}
    BY ScreenStep, <1>2
  <1> QED BY <1>2, <1>3 DEF OutboxTypeOK

------------------------------------------------------------------------------
(* What becomes of a send.                                                 *)

\* Send x may take the place of the send of i in window t.
Onward(t, i, x) ==
  /\ x.request \in {NoRequest, task[t][i].request, prepared'[i]}
  /\ \/ x.pc = "idle" /\ x.reply \in {"none", task[t][i].reply}
     \/ /\ x.pc = "drop" /\ x.reply = "none"
        /\ At(t, i, "reply") /\ task[t][i].reply \in {"created", "duplicate"}
     \/ /\ x.pc = "reply"
        /\ \E w \in wire : /\ Serve(w) /\ w.id = i /\ w.tab = t
                          /\ x.reply = Verdict(Me, i, w.request)
     \/ /\ x.pc \notin {"idle", "drop", "reply"}
        /\ x.reply \in {"none", task[t][i].reply}
        /\ x.pc = "upload" => x.request # NoRequest
        /\ \/ InFlight(t, i)
           \/ \E w \in wire : w.id = i /\ w.tab = t
           \/ i \in composing[t] /\ composing' = [composing EXCEPT ![t] = @ \ {i}]
           \/ /\ UNCHANGED composing /\ i \notin composing[t]
              /\ i \in todo[t] \/ outbox'[i] = "queued"

\* Entry i has a send x, and every other send is left as it is.
Onwards(t, i) == \E x \in Send : Put(t, i, x) /\ Onward(t, i, x)

\* A flush begins a send, or awaits one.
LEMMA FirstOnward ==
  ASSUME OutboxTypeOK, NEW t \in Tab, NEW S \in SUBSET Id, SendFirst(t, S),
         UNCHANGED composing, S = todo[t] \/ \A i \in S : outbox'[i] = "queued"
  PROVE  UNCHANGED task \/ \E i \in Id : Onwards(t, i)
  <1>1. PICK i \in S : /\ i \notin composing[t]
                       /\ (UNCHANGED task) \/ Begin(t, i)
    BY DEF SendFirst
  <1>2. CASE Begin(t, i)
    <2> DEFINE x == [Idle EXCEPT !.pc = "prepare"]
    <2>1. x \in Send /\ x.pc = "prepare" /\ x.reply = "none" /\ x.request = NoRequest
      BY IdleSend DEF Place
    <2>2. Put(t, i, x)
      BY <1>2 DEF Begin
    <2>3. i \in Id /\ (i \in todo[t] \/ outbox'[i] = "queued")
      OBVIOUS
    <2> HIDE DEF x
    <2>4. Onward(t, i, x)
      BY <1>1, <2>1, <2>3 DEF Onward
    <2> QED BY <2>1, <2>2, <2>3, <2>4 DEF Onwards
  <1> QED BY <1>1, <1>2

\* The steps of one send.
LEMMA SendOnward ==
  ASSUME OutboxTypeOK, Known, NEW t \in Tab, NEW i \in Id,
         StartSend(t, i) \/ SendStep(t, i) \/ LoseReply(t, i)
  PROVE  UNCHANGED task \/ Onwards(t, i)
  <1>1. PICK now \in Send : now = task[t][i]
    BY DEF OutboxTypeOK
  <1>2. CASE StartSend(t, i)
    <2>1. CASE Put(t, i, [Idle EXCEPT !.pc = "prepare"])
      <3> DEFINE x == [Idle EXCEPT !.pc = "prepare"]
      <3>1. x \in Send /\ x.pc = "prepare" /\ x.reply = "none" /\ x.request = NoRequest
        BY IdleSend DEF Place
      <3>2. Put(t, i, x)
        BY <2>1
      <3>3. i \in composing[t] /\ composing' = [composing EXCEPT ![t] = @ \ {i}]
        BY <1>2 DEF StartSend
      <3> HIDE DEF x
      <3>4. Onward(t, i, x)
        BY <3>1, <3>3 DEF Onward
      <3> QED BY <3>1, <3>2, <3>4 DEF Onwards
    <2> QED BY <1>2, <2>1 DEF StartSend, Begin
  <1>3. CASE Prepare(t, i)
    <2>1. PICK p \in Place, r \in Request \cup {NoRequest} :
            \/ /\ p = "upload" /\ r # NoRequest /\ r = prepared'[i]
               /\ Put(t, i, [now EXCEPT !.pc = p, !.request = r])
            \/ p = "failed" /\ Put(t, i, [now EXCEPT !.pc = p])
      <3>1. Composed(i)
        BY <1>3 DEF Prepare, At, Known
      <3>2. encrypted[i] + 1 \in Cipher => Encrypted(i) \in Request
        BY <3>1, EncryptedIsRequest
      <3>3. prepared[i] \in Request \cup {NoRequest} /\ NoRequest \notin Request
        BY OutboxAssumption DEF OutboxTypeOK
      <3>4. CASE prepared[i] # NoRequest
        BY <1>1, <1>3, <3>3, <3>4 DEF Prepare, Place
      <3>5. CASE prepared[i] = NoRequest
        <4>1. CASE GoTo(t, i, "failed")
          BY <1>1, <4>1 DEF GoTo, Place
        <4>2. CASE /\ encrypted[i] + 1 \in Cipher
                   /\ prepared' = [prepared EXCEPT ![i] = Encrypted(i)]
                   /\ Put(t, i, [task[t][i] EXCEPT !.pc = "upload", !.request = Encrypted(i)])
          <5>1. PICK r \in Request : r = Encrypted(i)
            BY <3>2, <4>2
          <5>2. r = prepared'[i]
            BY <4>2, <5>1 DEF OutboxTypeOK
          <5> QED BY <1>1, <3>3, <4>2, <5>1, <5>2 DEF Place
        <4> QED BY <1>3, <3>5, <4>1, <4>2 DEF Prepare
      <3> QED BY <3>4, <3>5
    <2>2. InFlight(t, i)
      BY <1>3 DEF Prepare, At, InFlight
    <2> DEFINE x == IF p = "upload" THEN [now EXCEPT !.pc = p, !.request = r]
                    ELSE [now EXCEPT !.pc = p]
    <2>3. /\ x \in Send /\ x.pc = p /\ x.reply = now.reply
          /\ x.request = IF p = "upload" THEN r ELSE now.request
      <3>1. CASE p = "upload"
        <4>1. x = [now EXCEPT !.pc = p, !.request = r]
          BY <3>1
        <4> QED BY <3>1, <4>1 DEF Send
      <3>2. CASE p # "upload"
        <4>1. x = [now EXCEPT !.pc = p]
          BY <3>2
        <4> QED BY <3>2, <4>1, MovedSend
      <3> QED BY <3>1, <3>2
    <2>4. Put(t, i, x)
      BY <2>1
    <2> HIDE DEF x
    <2>5. Onward(t, i, x)
      BY <1>1, <2>1, <2>2, <2>3 DEF Onward
    <2> QED BY <2>3, <2>4, <2>5 DEF Onwards
  <1>4. CASE Persist(t, i)
    <2>1. PICK p \in {"wait", "failed"} : Put(t, i, [now EXCEPT !.pc = p, !.request = NoRequest])
      BY <1>1, <1>4 DEF Persist
    <2> DEFINE x == [now EXCEPT !.pc = p, !.request = NoRequest]
    <2>2. x \in Send /\ x.pc = p /\ x.reply = now.reply /\ x.request = NoRequest
      <3>1. p \in Place
        BY DEF Place
      <3> QED BY <3>1 DEF Send
    <2>3. InFlight(t, i) /\ Put(t, i, x)
      BY <1>4, <2>1 DEF Persist, At, InFlight
    <2> HIDE DEF x
    <2>4. Onward(t, i, x)
      BY <1>1, <2>2, <2>3 DEF Onward
    <2> QED BY <2>2, <2>3, <2>4 DEF Onwards
  <1>5. CASE LoseReply(t, i)
    <2> DEFINE x == [Idle EXCEPT !.pc = "queued"]
    <2>1. x \in Send /\ x.pc = "queued" /\ x.reply = "none" /\ x.request = NoRequest /\ Put(t, i, x)
      BY <1>5, IdleSend DEF LoseReply, Place
    <2>2. InFlight(t, i) \/ \E w \in wire : w.id = i /\ w.tab = t
      BY <1>5 DEF LoseReply, At, InFlight
    <2> HIDE DEF x
    <2>3. Onward(t, i, x)
      BY <2>1, <2>2 DEF Onward
    <2> QED BY <2>1, <2>3 DEF Onwards
  <1>6. CASE HandleReply(t, i)
    <2>1. InFlight(t, i) /\ At(t, i, "reply")
      BY <1>6 DEF HandleReply, At, InFlight
    <2>2. CASE now.reply \in {"created", "duplicate"} /\ Put(t, i, [Idle EXCEPT !.pc = "drop"])
      <3> DEFINE x == [Idle EXCEPT !.pc = "drop"]
      <3>1. x \in Send /\ x.pc = "drop" /\ x.reply = "none" /\ x.request = NoRequest /\ Put(t, i, x)
        BY <2>2, IdleSend DEF Place
      <3> HIDE DEF x
      <3>2. Onward(t, i, x)
        BY <1>1, <2>1, <2>2, <3>1 DEF Onward
      <3> QED BY <3>1, <3>2 DEF Onwards
    <2>3. CASE \/ Put(t, i, [Idle EXCEPT !.pc = "prepare", !.retried = TRUE])
               \/ Put(t, i, [Idle EXCEPT !.pc = "failed"])
      <3>1. PICK x \in Send : /\ x.pc \in {"prepare", "failed"}
                             /\ x.reply = "none" /\ x.request = NoRequest
                             /\ Put(t, i, x)
        BY <2>3, IdleSend DEF Place
      <3>2. Onward(t, i, x)
        BY <2>1, <3>1 DEF Onward
      <3> QED BY <3>1, <3>2 DEF Onwards
    <2> QED BY <1>1, <1>6, <2>2, <2>3 DEF HandleReply
  <1>7. CASE ShowSettled(t, i)
    <2>1. Put(t, i, Idle)
      BY <1>7 DEF ShowSettled
    <2>2. Idle \in Send /\ Idle.pc = "idle" /\ Idle.reply = "none" /\ Idle.request = NoRequest
      BY IdleSend DEF Place
    <2> QED BY <2>1, <2>2 DEF Onwards, Onward
  <1>8. CASE Drop(t, i) \/ Settle(t, i)
    <2>1. PICK p \in {"clear", "show failed", "show queued"} : Put(t, i, [now EXCEPT !.pc = p])
      BY <1>1, <1>8 DEF Drop, Settle, GoTo
    <2> DEFINE x == [now EXCEPT !.pc = p]
    <2>2. x \in Send /\ x.pc = p /\ x.reply = now.reply /\ x.request = now.request
      <3>1. p \in Place
        BY DEF Place
      <3> QED BY <3>1, MovedSend
    <2>3. InFlight(t, i) /\ Put(t, i, x)
      BY <1>8, <2>1 DEF Drop, Settle, At, InFlight
    <2> HIDE DEF x
    <2>4. Onward(t, i, x)
      BY <1>1, <2>2, <2>3 DEF Onward
    <2> QED BY <2>2, <2>3, <2>4 DEF Onwards
  <1>9. CASE Clear(t, i)
    <2> DEFINE x == [now EXCEPT !.pc = "idle"]
    <2>1. x \in Send /\ x.pc = "idle" /\ x.reply = now.reply /\ x.request = now.request
      BY MovedSend DEF Place
    <2>2. Put(t, i, x)
      BY <1>1, <1>9 DEF Clear, GoTo
    <2> HIDE DEF x
    <2>3. Onward(t, i, x)
      BY <1>1, <2>1 DEF Onward
    <2> QED BY <2>1, <2>2, <2>3 DEF Onwards
  <1> QED BY <1>2, <1>3, <1>4, <1>5, <1>6, <1>7, <1>8, <1>9 DEF SendStep

\* A served request leaves its verdict with the window that waits for it.
LEMMA ServeOnward ==
  ASSUME OutboxTypeOK, NEW w \in wire, Serve(w)
  PROVE  UNCHANGED task \/ \E t \in Tab, i \in Id : Onwards(t, i)
  <1>1. CASE w.tab = NoTab
    BY <1>1 DEF Serve
  <1>2. CASE w.tab # NoTab
    <2>1. w.tab \in Tab /\ w.id \in Id
      BY <1>2 DEF OutboxTypeOK
    <2>2. PICK t \in Tab, i \in Id : w.tab = t /\ w.id = i
      BY <2>1
    <2>3. PICK now \in Send : now = task[t][i]
      BY DEF OutboxTypeOK
    <2>4. PICK v \in Reply : v = Verdict(Me, i, w.request)
      BY VerdictIsReply
    <2> DEFINE x == [now EXCEPT !.pc = "reply", !.reply = v]
    <2>5. Put(t, i, x)
      BY <1>2, <2>2, <2>3, <2>4 DEF Serve
    <2>6. x \in Send /\ x.pc = "reply" /\ x.reply = v /\ x.request = now.request
      BY DEF Send, Place
    <2> HIDE DEF x
    <2>7. Onward(t, i, x)
      BY <2>2, <2>3, <2>4, <2>6 DEF Onward
    <2> QED BY <2>5, <2>6, <2>7 DEF Onwards
  <1> QED BY <1>1, <1>2

\* The sends change one at a time, or all of a window's at once.
LEMMA TaskCases ==
  ASSUME OutboxTypeOK, Known, [OutboxNext]_outboxVars
  PROVE  UNCHANGED task \/ (\E t \in Tab : Crash(t)) \/ \E t \in Tab, i \in Id : Onwards(t, i)
  <1>1. CASE \E t \in Tab, i \in Id : StartSend(t, i) \/ SendStep(t, i) \/ LoseReply(t, i)
    BY <1>1, SendOnward
  <1>2. CASE \E w \in wire : Serve(w)
    BY <1>2, ServeOnward
  <1>3. CASE \E t \in Tab : FlushStart(t)
    <2>1. PICK t \in Tab : FlushStart(t)
      BY <1>3
    <2>2. SendFirst(t, {i \in Id : outbox'[i] = "queued"}) /\ UNCHANGED composing
      BY <2>1 DEF FlushStart
    <2> QED BY <2>2, FirstOnward
  <1>4. CASE \E t \in Tab : FlushNext(t)
    <2>1. PICK t \in Tab : FlushNext(t)
      BY <1>4
    <2>2. CASE SendFirst(t, todo[t])
      <3>1. todo[t] \in SUBSET Id /\ UNCHANGED composing
        BY <2>1 DEF FlushNext, OutboxTypeOK
      <3> QED BY <2>2, <3>1, FirstOnward
    <2> QED BY <2>1, <2>2 DEF FlushNext
  <1>5. \/ UNCHANGED task \/ (\E t \in Tab : Crash(t))
        \/ \E t \in Tab, i \in Id : StartSend(t, i) \/ SendStep(t, i) \/ LoseReply(t, i)
        \/ (\E w \in wire : Serve(w))
        \/ (\E t \in Tab : FlushStart(t)) \/ (\E t \in Tab : FlushNext(t))
    BY OutboxCases DEF SendStep, Enqueue, RetryMessage, SessionStep, OthersStep,
       outboxVars, clientVars, sendVars
  <1> QED BY <1>1, <1>2, <1>3, <1>4, <1>5

\* Every send goes on as above, or is left as it is.
LEMMA TaskStep ==
  ASSUME OutboxTypeOK, Known, [OutboxNext]_outboxVars
  PROVE  /\ task' \in [Tab -> [Id -> Send]]
         /\ \A t \in Tab, i \in Id :
              task'[t][i] = task[t][i] \/ Onward(t, i, task'[t][i])
  <1>1. CASE UNCHANGED task
    BY <1>1 DEF OutboxTypeOK
  <1>2. CASE \E t \in Tab : Crash(t)
    <2>1. PICK s \in Tab : task' = [task EXCEPT ![s] = [i \in Id |-> Idle]]
      BY <1>2 DEF Crash
    <2>2. Idle \in Send /\ Idle.pc = "idle" /\ Idle.reply = "none" /\ Idle.request = NoRequest
      BY IdleSend DEF Place
    <2>3. task' \in [Tab -> [Id -> Send]]
      BY <2>1, <2>2 DEF OutboxTypeOK
    <2>4. ASSUME NEW t \in Tab, NEW i \in Id
          PROVE  task'[t][i] = task[t][i] \/ task'[t][i] = Idle
      BY <2>1 DEF OutboxTypeOK
    <2> QED BY <2>2, <2>3, <2>4 DEF Onward
  <1>3. CASE \E t \in Tab, i \in Id : Onwards(t, i)
    <2>1. PICK s \in Tab, j \in Id, x \in Send : Put(s, j, x) /\ Onward(s, j, x)
      BY <1>3 DEF Onwards
    <2>2. /\ task' \in [Tab -> [Id -> Send]]
          /\ task'[s][j] = x
          /\ \A t \in Tab, i \in Id : t # s \/ i # j => task'[t][i] = task[t][i]
      BY <2>1, PutSend
    <2> QED BY <2>1, <2>2
  <1> QED BY <1>1, <1>2, <1>3, TaskCases

------------------------------------------------------------------------------
(* Types.                                                                  *)

\* A send that is about to upload has its ciphertext.
Loaded == \A t \in Tab, i \in Id : At(t, i, "upload") => task[t][i].request # NoRequest

\* Every step keeps the state well typed.
LEMMA StepOutboxTypeOK ==
  OutboxTypeOK /\ Known /\ Loaded /\ [OutboxNext]_outboxVars => OutboxTypeOK'
  <1> SUFFICES ASSUME OutboxTypeOK, Known, Loaded, [OutboxNext]_outboxVars
               PROVE  OutboxTypeOK'
    OBVIOUS
  <1>1. TypeOK'
    BY OutboxRelayStep, StepTypeOK DEF OutboxTypeOK
  <1>2. task' \in [Tab -> [Id -> Send]] /\ screen' \in [Tab -> Screen \cup {NoChat}]
    BY TaskStep, ScreenOfWindow
  <1> USE DEF OutboxTypeOK, chatVars, historyVars, Copy, DeliveryState
  <1>3. ASSUME NEW t \in Tab, NEW i \in Id, NEW e \in Entry, Enqueue(t, i, e)
        PROVE  OutboxTypeOK'
    BY <1>1, <1>2, <1>3 DEF Enqueue, flushVars, sendVars
  <1>4. ASSUME NEW t \in Tab, NEW i \in Id, StartSend(t, i)
        PROVE  OutboxTypeOK'
    BY <1>1, <1>2, <1>4 DEF StartSend, Begin, Show, Optimistic, flushVars
  <1>5. ASSUME NEW t \in Tab, NEW i \in Id, Prepare(t, i)
        PROVE  OutboxTypeOK'
    <2>1. Composed(i)
      BY <1>5 DEF Prepare, At, Known
    <2>2. encrypted[i] + 1 \in Cipher => Encrypted(i) \in Request
      BY <2>1, EncryptedIsRequest
    <2>3. prepared' \in [Id -> Request \cup {NoRequest}] /\ encrypted' \in [Id -> Nat]
      <3>1. CASE UNCHANGED <<prepared, encrypted>>
        BY <3>1
      <3>2. CASE /\ prepared' = [prepared EXCEPT ![i] = Encrypted(i)]
                 /\ encrypted' = [encrypted EXCEPT ![i] = @ + 1]
                 /\ encrypted[i] + 1 \in Cipher
        <4>1. PICK r \in Request : r = Encrypted(i)
          BY <2>2, <3>2
        <4>2. prepared' = [prepared EXCEPT ![i] = r]
          BY <3>2, <4>1
        <4>3. encrypted[i] + 1 \in Nat
          OBVIOUS
        <4> QED BY <3>2, <4>2, <4>3
      <3> QED BY <1>5, <3>1, <3>2 DEF Prepare
    <2> QED BY <1>1, <1>2, <1>5, <2>3 DEF Prepare, flushVars
  <1>6. ASSUME NEW t \in Tab, NEW i \in Id, Persist(t, i)
        PROVE  OutboxTypeOK'
    <2>1. task[t][i].request \in Request
      BY <1>6 DEF Persist, Loaded, Send
    <2>2. wire' \subseteq [id: Id, request: Request, tab: Tab \cup {NoTab}]
      BY <1>6, <2>1 DEF Persist
    <2>3. local' \in [Id -> Copy] /\ shown' \in [Id -> DeliveryState]
      BY <1>6 DEF Persist
    <2> QED BY <1>1, <1>2, <1>6, <2>2, <2>3 DEF Persist, flushVars
  <1>7. ASSUME NEW w \in wire, Serve(w)
        PROVE  OutboxTypeOK'
    <2>1. wire' \subseteq [id: Id, request: Request, tab: Tab \cup {NoTab}]
      <3>1. wire' \subseteq wire
        BY <1>7 DEF Serve
      <3> QED BY <3>1
    <2>2. UNCHANGED <<durableVars, composing, flushVars, signedIn, historyVars>>
      BY <1>7 DEF Serve
    <2> QED BY <1>1, <1>2, <2>1, <2>2 DEF flushVars, durableVars
  <1>8. ASSUME NEW t \in Tab, NEW i \in Id, LoseReply(t, i)
        PROVE  OutboxTypeOK'
    <2>1. wire' \subseteq [id: Id, request: Request, tab: Tab \cup {NoTab}]
      <3>1. ASSUME NEW w \in wire
            PROVE  [w EXCEPT !.tab = NoTab] \in [id: Id, request: Request, tab: Tab \cup {NoTab}]
        OBVIOUS
      <3> QED BY <1>8, <3>1 DEF LoseReply
    <2>2. UNCHANGED <<durableVars, composing, flushVars, signedIn, restored, taps>>
      BY <1>8 DEF LoseReply
    <2>3. faults' \in 0..MaxFaults
      BY <1>8, OutboxAssumption DEF LoseReply
    <2> QED BY <1>1, <1>2, <2>1, <2>2, <2>3 DEF flushVars, durableVars
  <1>9. ASSUME NEW t \in Tab, NEW i \in Id, HandleReply(t, i)
        PROVE  OutboxTypeOK'
    BY <1>1, <1>2, <1>9 DEF HandleReply, Show, flushVars
  <1>10. ASSUME NEW t \in Tab, NEW i \in Id, \/ Drop(t, i) \/ Clear(t, i)
                                            \/ Settle(t, i) \/ ShowSettled(t, i)
         PROVE  OutboxTypeOK'
    BY <1>1, <1>2, <1>10 DEF Drop, Clear, Settle, ShowSettled, Mark, Show, flushVars
  <1>11. ASSUME NEW t \in Tab, NEW S \in SUBSET Id, SendFirst(t, S)
         PROVE  /\ todo' \in [Tab -> SUBSET Id]
                /\ waiting' \in [Tab -> Id \cup {0}]
                /\ shown' \in [Id -> DeliveryState]
    BY <1>11 DEF SendFirst, Begin, Show
  <1>12. ASSUME NEW t \in Tab, FlushStart(t)
         PROVE  OutboxTypeOK'
    <2>1. SendFirst(t, {i \in Id : outbox'[i] = "queued"})
      BY <1>12 DEF FlushStart
    <2>2. /\ todo' \in [Tab -> SUBSET Id]
          /\ waiting' \in [Tab -> Id \cup {0}]
          /\ shown' \in [Id -> DeliveryState]
      BY <1>11, <2>1
    <2>3. restored' \subseteq Id
      BY <1>12 DEF FlushStart, Recovered, HasChat, Screen
    <2> QED BY <1>1, <1>2, <1>12, <2>2, <2>3 DEF FlushStart
  <1>13. ASSUME NEW t \in Tab, FlushNext(t)
         PROVE  OutboxTypeOK'
    <2>1. /\ todo' \in [Tab -> SUBSET Id]
          /\ waiting' \in [Tab -> Id \cup {0}]
          /\ shown' \in [Id -> DeliveryState]
      BY <1>11, <1>13 DEF FlushNext
    <2> QED BY <1>1, <1>2, <1>13, <2>1 DEF FlushNext
  <1>14. ASSUME NEW t \in Tab, NEW i \in Id, RetryMessage(t, i)
         PROVE  OutboxTypeOK'
    <2>1. outbox' \in [Id -> {"none", "queued", "failed"}] /\ restored' \subseteq Id
      BY <1>14 DEF RetryMessage
    <2>2. taps' \in [Id -> 0..MaxTaps]
      BY <1>14, OutboxAssumption DEF RetryMessage
    <2> QED BY <1>1, <1>2, <1>14, <2>1, <2>2 DEF RetryMessage, flushVars, sendVars
  <1>15. ASSUME NEW t \in Tab, SessionStep(t)
         PROVE  OutboxTypeOK'
    BY <1>1, <1>2, <1>15 DEF SessionStep, flushVars, sendVars, durableVars
  <1>16. ASSUME NEW t \in Tab, Crash(t)
         PROVE  OutboxTypeOK'
    <2>1. wire' \subseteq [id: Id, request: Request, tab: Tab \cup {NoTab}]
      <3>1. ASSUME NEW w \in wire
            PROVE  [w EXCEPT !.tab = IF @ = t THEN NoTab ELSE @]
                     \in [id: Id, request: Request, tab: Tab \cup {NoTab}]
        OBVIOUS
      <3> QED BY <1>16, <3>1 DEF Crash
    <2>2. UNCHANGED <<durableVars, signedIn, restored, taps>> /\ faults' \in 0..MaxFaults
      BY <1>16, OutboxAssumption DEF Crash
    <2>3. /\ composing' \in [Tab -> SUBSET Id]
          /\ todo' \in [Tab -> SUBSET Id]
          /\ waiting' \in [Tab -> Id \cup {0}]
      BY <1>16 DEF Crash
    <2> QED BY <1>1, <1>2, <2>1, <2>2, <2>3 DEF durableVars
  <1>17. CASE OthersStep
    BY <1>1, <1>2, <1>17 DEF OthersStep, clientVars, flushVars, sendVars, durableVars
  <1>18. CASE UNCHANGED outboxVars
    BY <1>1, <1>2, <1>18 DEF outboxVars, clientVars, flushVars, sendVars, durableVars
  <1> QED BY OutboxCases, <1>3, <1>4, <1>5, <1>6, <1>7, <1>8, <1>9, <1>10, <1>12, <1>13,
             <1>14, <1>15, <1>16, <1>17, <1>18

------------------------------------------------------------------------------
(* What the invariant is made of.                                          *)

\* Whoever has the reply of an acceptance, or acts on it, was accepted.
RepliesAreTrue ==
  \A t \in Tab, i \in Id :
    task[t][i].reply \in {"created", "duplicate"} \/ At(t, i, "drop") => Accepted(i)

\* The sender's own history has i as delivered, but for a copy that another window
\* wrote over it.
Stored(i) == local[i] = "kept" \/ (local[i] = "overwritten" /\ SeveralTabs)

\* What is on its way to the relay is in the sender's own history.
KeptBeforeUpload == \A w \in wire : Stored(w.id)

\* Nothing composed so far is known before it is composed.
LEMMA StepKnown == OutboxTypeOK /\ Known /\ [OutboxNext]_outboxVars => Known'
  <1> SUFFICES ASSUME OutboxTypeOK, Known, [OutboxNext]_outboxVars,
                      NEW i \in Id, ~Composed(i)'
               PROVE  /\ outbox'[i] = "none" /\ local'[i] = "none" /\ shown'[i] = "none"
                      /\ ~Pictured(i)'
                      /\ \A t \in Tab : /\ i \notin composing'[t] /\ i \notin todo'[t]
                                       /\ task'[t][i].pc = "idle"
                      /\ \A w \in wire' : w.id # i
                      /\ ~Accepted(i)'
    BY DEF Known
  <1>1. ~Composed(i)
    BY EntryStep DEF Composed
  <1>2. /\ outbox[i] = "none" /\ local[i] = "none" /\ shown[i] = "none" /\ ~Pictured(i)
        /\ \A t \in Tab : i \notin composing[t] /\ i \notin todo[t] /\ task[t][i].pc = "idle"
        /\ \A w \in wire : w.id # i
        /\ ~Accepted(i)
    BY <1>1 DEF Known
  <1>3. outbox'[i] = "none"
    BY <1>2, OutboxStep
  <1>4. local'[i] = "none"
    BY <1>2, LocalStep DEF At
  <1>5. shown'[i] = "none"
    BY <1>2, ShownStep DEF At
  <1>6. ASSUME NEW t \in Tab
        PROVE  i \notin composing'[t] /\ i \notin todo'[t]
    BY <1>2, <1>3, ComposingStep, TodoStep
  <1>7. ASSUME NEW t \in Tab
        PROVE  task'[t][i].pc = "idle"
    <2>1. task'[t][i] = task[t][i] \/ Onward(t, i, task'[t][i])
      BY TaskStep
    <2> QED BY <1>2, <1>3, <2>1 DEF Onward, At, InFlight
  <1>8. \A w \in wire' : w.id # i
    BY <1>2, WireStep DEF At
  <1>9. ~Accepted(i)'
    BY <1>2, DispatchStepOfOutbox DEF Accepted
  <1>10. ~Pictured(i)'
    <2>1. i \notin ScreenOf(local', shown').pending \cup ScreenOf(local', shown').unsent
      BY <1>4, <1>5 DEF ScreenOf
    <2>2. ASSUME NEW t \in Tab, screen'[t] # NoChat
          PROVE  i \notin screen'[t].pending \cup screen'[t].unsent
      <3>1. screen'[t] \in {screen[t], ScreenOf(local', shown')}
        BY <2>2, ScreenOfWindow
      <3> QED BY <1>2, <2>1, <2>2, <3>1 DEF Pictured, HasChat
    <2> QED BY <2>2 DEF Pictured, HasChat
  <1> QED BY <1>3, <1>4, <1>5, <1>6, <1>7, <1>8, <1>9, <1>10

\* Until it starts the first send of an entry, a window does not send it.
LEMMA StepFresh == OutboxTypeOK /\ Known /\ Fresh /\ [OutboxNext]_outboxVars => Fresh'
  <1> SUFFICES ASSUME OutboxTypeOK, Known, Fresh, [OutboxNext]_outboxVars,
                      NEW t \in Tab, NEW i \in Id, i \in composing'[t]
               PROVE  /\ task'[t][i].pc = "idle"
                      /\ \A w \in wire' : w.id = i => w.tab # t
                      /\ SeveralTabs \/ (~Accepted(i)' /\ \A w \in wire' : w.id # i)
    BY DEF Fresh, SeveralTabs
  <1>1. CASE i \notin composing[t]
    <2>1. ~Composed(i) /\ UNCHANGED <<dispatch, task, wire>>
      BY <1>1, ComposingStep
    <2> QED BY <2>1 DEF Known, Accepted
  <1>2. CASE i \in composing[t]
    <2>1. /\ task[t][i].pc = "idle"
          /\ \A w \in wire : w.id = i => w.tab # t
          /\ SeveralTabs \/ (~Accepted(i) /\ \A w \in wire : w.id # i)
      BY <1>2 DEF Fresh
    <2>2. task'[t][i].pc = "idle"
      <3>1. task'[t][i] = task[t][i] \/ Onward(t, i, task'[t][i])
        BY TaskStep
      <3>2. ~(composing' = [composing EXCEPT ![t] = @ \ {i}])
        BY DEF OutboxTypeOK
      <3> QED BY <1>2, <2>1, <3>1, <3>2 DEF Onward, At, InFlight
    <2>3. ASSUME NEW w \in wire', w.id = i
          PROVE  w.tab # t
      BY <2>1, <2>3, WireStep, OutboxAssumption DEF At
    <2>4. ASSUME ~SeveralTabs
          PROVE  ~Accepted(i)' /\ \A w \in wire' : w.id # i
      <3>1. ~Accepted(i) /\ \A w \in wire : w.id # i
        BY <2>1, <2>4
      <3>2. \A s \in Tab : ~At(s, i, "upload")
        BY <2>1, <2>4 DEF SeveralTabs, At
      <3>3. \A w \in wire' : w.id # i
        BY <3>1, <3>2, WireStep
      <3>4. ~Accepted(i)'
        BY <3>1, DispatchStepOfOutbox DEF Accepted
      <3> QED BY <3>3, <3>4
    <2> QED BY <2>2, <2>3, <2>4
  <1> QED BY <1>1, <1>2

\* A send gets its ciphertext before it uploads.
LEMMA StepLoaded == OutboxTypeOK /\ Known /\ Loaded /\ [OutboxNext]_outboxVars => Loaded'
  <1> SUFFICES ASSUME OutboxTypeOK, Known, Loaded, [OutboxNext]_outboxVars,
                      NEW t \in Tab, NEW i \in Id, task'[t][i].pc = "upload"
               PROVE  task'[t][i].request # NoRequest
    BY DEF Loaded, At
  <1>1. task'[t][i] = task[t][i] \/ Onward(t, i, task'[t][i])
    BY TaskStep
  <1> QED BY <1>1 DEF Loaded, At, Onward

\* A copy stored as delivered is overwritten only by a window that composes the
\* entry while another one sends it.
LEMMA StoredStays ==
  ASSUME OutboxTypeOK, Fresh, [OutboxNext]_outboxVars, NEW i \in Id, Stored(i),
         Accepted(i) \/ \E w \in wire : w.id = i
  PROVE  Stored(i)'
  <1>1. ASSUME NEW t \in Tab, i \in composing[t]
        PROVE  SeveralTabs
    BY <1>1 DEF Fresh
  <1>2. Optimistic(local[i]) = "overwritten"
    BY DEF Optimistic, Stored
  <1> QED BY <1>1, <1>2, LocalStep DEF Stored, SeveralTabs

\* The local copy is written with the upload, and stays.
LEMMA StepKept ==
  /\ OutboxTypeOK /\ Fresh /\ KeptBeforeUpload /\ KeptBeforeAccepted
  /\ [OutboxNext]_outboxVars
  => KeptBeforeUpload' /\ KeptBeforeAccepted'
  <1> SUFFICES ASSUME OutboxTypeOK, Fresh, KeptBeforeUpload, KeptBeforeAccepted,
                      [OutboxNext]_outboxVars
               PROVE  KeptBeforeUpload' /\ KeptBeforeAccepted'
    OBVIOUS
  <1>1. ASSUME NEW w \in wire'
        PROVE  local'[w.id] = "kept" \/ (local'[w.id] = "overwritten" /\ SeveralTabs)
    <2>1. ASSUME NEW v \in wire, v.id = w.id
          PROVE  local'[w.id] = "kept" \/ (local'[w.id] = "overwritten" /\ SeveralTabs)
      <3>1. PICK i \in Id : i = v.id
        BY DEF OutboxTypeOK
      <3>2. Stored(i)
        BY <3>1 DEF KeptBeforeUpload
      <3>3. Stored(i)'
        BY <3>1, <3>2, StoredStays
      <3> QED BY <2>1, <3>1, <3>3 DEF Stored, SeveralTabs
    <2> QED BY <2>1, WireStep
  <1>2. ASSUME NEW i \in Id, Accepted(i)'
        PROVE  Stored(i)'
    <2>1. Accepted(i) \/ \E w \in wire : w.id = i
      BY <1>2, DispatchStepOfOutbox DEF Accepted
    <2>2. Stored(i)
      BY <2>1 DEF KeptBeforeUpload, KeptBeforeAccepted, Stored
    <2> QED BY <2>1, <2>2, StoredStays
  <1> QED BY <1>1, <1>2 DEF KeptBeforeUpload, KeptBeforeAccepted, Stored, SeveralTabs

\* What is accepted stays accepted.
LEMMA AcceptedStays ==
  ASSUME OutboxTypeOK, [OutboxNext]_outboxVars, NEW i \in Id, Accepted(i)
  PROVE  Accepted(i)'
  BY DispatchStepOfOutbox DEF Accepted

\* Only an accepted dispatch is answered as a duplicate.
LEMMA DuplicateVerdict ==
  ASSUME NEW u, NEW i, NEW r, Verdict(u, i, r) = "duplicate"
  PROVE  Accepted(i)
  BY DEF Verdict, TargetVerdict

\* Serving a request that is answered with acceptance leaves it accepted.
LEMMA StepReplies ==
  OutboxTypeOK /\ Known /\ RepliesAreTrue /\ [OutboxNext]_outboxVars => RepliesAreTrue'
  <1> SUFFICES ASSUME OutboxTypeOK, Known, RepliesAreTrue, [OutboxNext]_outboxVars,
                      NEW t \in Tab, NEW i \in Id,
                      task'[t][i].reply \in {"created", "duplicate"} \/ task'[t][i].pc = "drop"
               PROVE  Accepted(i)'
    BY DEF RepliesAreTrue, At
  <1>1. CASE \E w \in wire : /\ Serve(w) /\ w.id = i
                            /\ Verdict(Me, i, w.request) \in {"created", "duplicate"}
    <2>1. PICK w \in wire : /\ Serve(w) /\ w.id = i
                           /\ Verdict(Me, i, w.request) \in {"created", "duplicate"}
      BY <1>1
    <2>2. CASE Verdict(Me, i, w.request) = "duplicate"
      BY <2>2, DuplicateVerdict, AcceptedStays
    <2>3. CASE Verdict(Me, i, w.request) = "created"
      <3>1. Upload(Me, i, w.request)
        BY <2>1, <2>3 DEF Serve
      <3>2. dispatch'[i] = [request |-> w.request, sender |-> Me]
        BY <3>1 DEF Upload, OutboxTypeOK, TypeOK
      <3>3. dispatch'[i] \in Dispatch
        BY <3>2, OutboxAssumption DEF Dispatch, OutboxTypeOK
      <3> QED BY <3>3, RelayAssumption DEF Accepted
    <2> QED BY <2>1, <2>2, <2>3
  <1>2. CASE Accepted(i)
    BY <1>2, AcceptedStays
  <1>3. task'[t][i] = task[t][i] \/ Onward(t, i, task'[t][i])
    BY TaskStep
  <1> QED BY <1>1, <1>2, <1>3 DEF Onward, RepliesAreTrue, At

\* An entry leaves the outbox only after the acceptance.
LEMMA StepNothingLost ==
  OutboxTypeOK /\ RepliesAreTrue /\ NothingLost /\ [OutboxNext]_outboxVars => NothingLost'
  <1> SUFFICES ASSUME OutboxTypeOK, RepliesAreTrue, NothingLost, [OutboxNext]_outboxVars,
                      NEW i \in Id, Composed(i)', ~Accepted(i)'
               PROVE  outbox'[i] # "none"
    BY DEF NothingLost
  <1>1. ~Accepted(i)
    BY AcceptedStays
  <1>2. \A t \in Tab : ~At(t, i, "drop")
    BY <1>1 DEF RepliesAreTrue
  <1>3. CASE entry'[i] = entry[i]
    <2>1. outbox[i] # "none"
      BY <1>1, <1>3 DEF NothingLost, Composed
    <2> QED BY <1>2, <2>1, OutboxStep
  <1>4. CASE outbox'[i] = "queued"
    BY <1>4
  <1> QED BY <1>3, <1>4, EntryStep

\* A message is shown as sent on an acceptance.
LEMMA StepSent ==
  OutboxTypeOK /\ RepliesAreTrue /\ SentMeansAccepted /\ [OutboxNext]_outboxVars
  => SentMeansAccepted'
  <1> SUFFICES ASSUME OutboxTypeOK, RepliesAreTrue, SentMeansAccepted,
                      [OutboxNext]_outboxVars, NEW i \in Id, shown'[i] = "sent"
               PROVE  Accepted(i)'
    BY DEF SentMeansAccepted
  <1>1. Accepted(i)
    BY ShownStep DEF SentMeansAccepted, RepliesAreTrue
  <1> QED BY <1>1, AcceptedStays

------------------------------------------------------------------------------
(* Operations and their messages.                                          *)

\* Only messages have a delivery state.
OnlyMessagesShown == \A i \in Id : shown[i] # "none" => entry[i].kind = "message"

\* What a window shows as sent, be it long ago, is a message that was accepted.
ScreensAreTrue ==
  \A t \in Tab : HasChat(t) =>
    \A i \in screen[t].sent : Accepted(i) /\ Composed(i) /\ entry[i].kind = "message"

\* A message creates itself; an operation changes a message accepted before.
Targets ==
  \A i \in Id : Composed(i) =>
    \/ entry[i].kind = "message" /\ entry[i].message = i
    \/ /\ entry[i].kind \in {"edit", "delete", "reaction"}
       /\ entry[entry[i].message].kind = "message"
       /\ Accepted(entry[i].message)

\* The request is the delivery of entry e.
Delivers(e, r) ==
  e # NoEntry /\ r.conv = Chat /\ r.kind = e.kind /\ r.message = e.message

\* Whatever is saved, in hand, under way or recorded under an id delivers it.
Deliveries ==
  \A i \in Id :
    /\ prepared[i] # NoRequest => Delivers(entry[i], prepared[i])
    /\ \A t \in Tab : task[t][i].request # NoRequest => Delivers(entry[i], task[t][i].request)
    /\ \A w \in wire : w.id = i => Delivers(entry[i], w.request)
    /\ Accepted(i) => Delivers(entry[i], dispatch[i].request)

\* A delivery stays what it is.
LEMMA DeliversStays ==
  ASSUME OutboxTypeOK, [OutboxNext]_outboxVars, NEW i \in Id, NEW r, Delivers(entry[i], r)
  PROVE  Delivers(entry'[i], r)
  <1>1. entry'[i] = entry[i]
    BY EntryStep DEF Delivers, Composed
  <1> QED BY <1>1

\* The saved ciphertext changes only to the delivery of its entry, or is discarded.
LEMMA PreparedStep ==
  ASSUME OutboxTypeOK, Known, [OutboxNext]_outboxVars, NEW i \in Id
  PROVE  prepared'[i] \in {prepared[i], NoRequest} \/ Delivers(entry[i], prepared'[i])
  <1>1. ASSUME NEW t \in Tab, NEW j \in Id, Prepare(t, j), prepared'[i] # prepared[i]
        PROVE  Delivers(entry[i], prepared'[i])
    <2>1. i = j /\ prepared'[i] = Encrypted(i)
      BY <1>1 DEF Prepare, OutboxTypeOK
    <2>2. Composed(i)
      BY <1>1, <2>1 DEF Prepare, At, Known
    <2> QED BY <2>1, <2>2 DEF Encrypted, Delivers, Composed
  <1>2. ASSUME NEW t \in Tab, NEW j \in Id, HandleReply(t, j) \/ Clear(t, j)
        PROVE  prepared'[i] \in {prepared[i], NoRequest}
    BY <1>2 DEF HandleReply, Clear, OutboxTypeOK
  <1>3. UNCHANGED prepared
        \/ \E t \in Tab, j \in Id : Prepare(t, j) \/ HandleReply(t, j) \/ Clear(t, j)
    BY OutboxCases DEF Enqueue, StartSend, Persist, Serve, LoseReply, Drop, Settle,
       ShowSettled, FlushStart, FlushNext, RetryMessage, SessionStep, Crash,
       OthersStep, outboxVars, clientVars, durableVars
  <1> QED BY <1>1, <1>2, <1>3

\* Every step keeps the deliveries.
LEMMA StepDeliveries ==
  OutboxTypeOK /\ Known /\ Loaded /\ Deliveries /\ [OutboxNext]_outboxVars => Deliveries'
  <1> SUFFICES ASSUME OutboxTypeOK, Known, Loaded, Deliveries, [OutboxNext]_outboxVars,
                      NEW i \in Id
               PROVE  /\ prepared'[i] # NoRequest => Delivers(entry'[i], prepared'[i])
                      /\ \A t \in Tab : task'[t][i].request # NoRequest
                                        => Delivers(entry'[i], task'[t][i].request)
                      /\ \A w \in wire' : w.id = i => Delivers(entry'[i], w.request)
                      /\ Accepted(i)' => Delivers(entry'[i], dispatch'[i].request)
    BY DEF Deliveries
  <1>1. prepared'[i] # NoRequest => Delivers(entry[i], prepared'[i])
    BY PreparedStep DEF Deliveries
  <1>2. ASSUME NEW t \in Tab, task'[t][i].request # NoRequest
        PROVE  Delivers(entry[i], task'[t][i].request)
    <2>1. task'[t][i] = task[t][i] \/ Onward(t, i, task'[t][i])
      BY TaskStep
    <2>2. task'[t][i].request \in {task[t][i].request, prepared'[i]}
      BY <1>2, <2>1 DEF Onward
    <2> QED BY <1>1, <1>2, <2>2 DEF Deliveries
  <1>3. ASSUME NEW w \in wire', w.id = i
        PROVE  Delivers(entry[i], w.request)
    BY <1>3, WireStep DEF Deliveries, Loaded
  <1>4. ASSUME Accepted(i)'
        PROVE  Delivers(entry[i], dispatch'[i].request)
    BY <1>4, DispatchStepOfOutbox DEF Deliveries, Accepted
  <1> QED BY <1>1, <1>2, <1>3, <1>4, DeliversStays DEF Accepted

\* Every step keeps operations with the messages they change.
LEMMA StepTargets ==
  /\ OutboxTypeOK /\ Known /\ RepliesAreTrue /\ SentMeansAccepted /\ OnlyMessagesShown
  /\ ScreensAreTrue /\ Targets /\ [OutboxNext]_outboxVars
  => OnlyMessagesShown' /\ ScreensAreTrue' /\ Targets'
  <1> SUFFICES ASSUME OutboxTypeOK, Known, RepliesAreTrue, SentMeansAccepted,
                      OnlyMessagesShown, ScreensAreTrue, Targets, [OutboxNext]_outboxVars
               PROVE  OnlyMessagesShown' /\ ScreensAreTrue' /\ Targets'
    OBVIOUS
  <1>1. ASSUME NEW i \in Id, shown'[i] # "none"
        PROVE  entry'[i].kind = "message"
    <2>1. entry[i].kind = "message" /\ Composed(i)
      BY <1>1, ShownStep DEF OnlyMessagesShown, Known, At
    <2> QED BY <2>1, EntryStep
  <1>2. ASSUME NEW m \in Id, Composed(m), entry[m].kind = "message", Accepted(m)
        PROVE  entry'[m].kind = "message" /\ Accepted(m)'
    BY <1>2, EntryStep, AcceptedStays
  <1>3. ASSUME NEW i \in Id, Composed(i)'
        PROVE  \/ entry'[i].kind = "message" /\ entry'[i].message = i
               \/ /\ entry'[i].kind \in {"edit", "delete", "reaction"}
                  /\ entry'[entry'[i].message].kind = "message"
                  /\ dispatch'[entry'[i].message] # NoDispatch
    <2> DEFINE m == entry'[i].message
    <2>1. CASE entry'[i] = entry[i]
      <3>1. Composed(i) /\ m \in Id
        BY <1>3, <2>1 DEF Composed, OutboxTypeOK, Entry
      <3>2. CASE entry[i].kind = "message" /\ entry[i].message = i
        BY <2>1, <3>2
      <3>3. CASE /\ entry[i].kind \in {"edit", "delete", "reaction"}
                 /\ entry[m].kind = "message" /\ Accepted(m)
        <4>1. Composed(m)
          BY <3>1, <3>3 DEF Known
        <4>2. entry'[m].kind = "message" /\ dispatch'[m] # NoDispatch
          BY <1>2, <3>1, <3>3, <4>1 DEF Accepted
        <4> QED BY <2>1, <3>3, <4>2
      <3> QED BY <2>1, <3>1, <3>2, <3>3 DEF Targets
    <2>2. CASE entry'[i] \in Entry /\ NewEntry(i, entry'[i])
      <3>1. m \in Id
        BY <2>2 DEF Entry
      <3>2. CASE /\ entry'[i].kind \in {"edit", "delete", "reaction"}
                 /\ \E t \in Tab : HasChat(t) /\ m \in screen[t].sent
        <4>1. Accepted(m) /\ entry[m].kind = "message" /\ Composed(m)
          BY <3>2 DEF ScreensAreTrue
        <4>2. entry'[m].kind = "message" /\ dispatch'[m] # NoDispatch
          BY <1>2, <3>1, <4>1 DEF Accepted
        <4> QED BY <3>2, <4>2
      <3> QED BY <2>2, <3>2 DEF NewEntry
    <2> QED BY <2>1, <2>2, EntryStep
  <1>4. ASSUME NEW i \in Id, shown'[i] = "sent"
        PROVE  Accepted(i)' /\ Composed(i)' /\ entry'[i].kind = "message"
    <2>1. SentMeansAccepted'
      BY StepSent
    <2>2. Accepted(i)'
      BY <1>4, <2>1 DEF SentMeansAccepted
    <2>3. Composed(i)
      BY <1>4, ShownStep DEF Known, At
    <2>4. Composed(i)'
      BY <2>3, EntryStep DEF Composed
    <2> QED BY <1>1, <1>4, <2>2, <2>4
  <1>5. ASSUME NEW t \in Tab, screen'[t] # NoChat, NEW i \in screen'[t].sent
        PROVE  Accepted(i)' /\ Composed(i)' /\ entry'[i].kind = "message"
    <2>1. screen'[t] \in {screen[t], ScreenOf(local', shown')}
      BY <1>5, ScreenOfWindow
    <2>2. CASE i \in screen[t].sent /\ screen[t] # NoChat
      <3>1. Accepted(i) /\ Composed(i) /\ entry[i].kind = "message"
        BY <2>2 DEF ScreensAreTrue, HasChat
      <3>2. i \in Id
        BY <2>2 DEF OutboxTypeOK, Screen
      <3>3. Composed(i)'
        BY <3>1, <3>2, EntryStep DEF Composed
      <3> QED BY <1>2, <3>1, <3>2, <3>3
    <2>3. CASE i \in ScreenOf(local', shown').sent
      <3>1. i \in Id /\ shown'[i] = "sent"
        BY <2>3 DEF ScreenOf
      <3> QED BY <1>4, <3>1
    <2> QED BY <1>5, <2>1, <2>2, <2>3
  <1>6. ScreensAreTrue'
    BY <1>5 DEF ScreensAreTrue, HasChat
  <1> QED BY <1>1, <1>3, <1>6 DEF OnlyMessagesShown, Targets, Accepted

\* The relay knows the message that a delivered operation changes.
LEMMA OriginalIsThere ==
  ASSUME OutboxTypeOK, Targets, Deliveries, NEW i \in Id, NEW r \in Request, Delivers(entry[i], r)
  PROVE  Verdict(Me, i, r) # "MESSAGE_NOT_FOUND"
  <1> SUFFICES ASSUME r.kind \in {"edit", "delete", "reaction"} PROVE Original(r) # {}
    BY DEF Verdict, TargetVerdict
  <1> DEFINE m == entry[i].message
  <1>1. m \in Id /\ m = r.message
    BY DEF Delivers, Composed, OutboxTypeOK, Entry
  <1>2. entry[m].kind = "message" /\ Accepted(m)
    BY <1>1 DEF Delivers, Targets, Composed
  <1>3. Delivers(entry[m], dispatch[m].request)
    BY <1>1, <1>2 DEF Deliveries
  <1>4. entry[m].message = m
    BY <1>1, <1>2, <1>3 DEF Targets, Delivers, Composed
  <1>5. m \in Original(r)
    BY <1>1, <1>2, <1>3, <1>4 DEF Original, DispatchedIn, Delivers
  <1> QED BY <1>5

\* No operation is refused for want of its message.
LEMMA StepOperations ==
  /\ OutboxTypeOK /\ Known /\ Targets /\ Deliveries /\ OperationsFindTheirMessage
  /\ [OutboxNext]_outboxVars
  => OperationsFindTheirMessage'
  <1> SUFFICES ASSUME OutboxTypeOK, Known, Targets, Deliveries, OperationsFindTheirMessage,
                      [OutboxNext]_outboxVars, NEW t \in Tab, NEW i \in Id
               PROVE  task'[t][i].reply # "MESSAGE_NOT_FOUND"
    BY DEF OperationsFindTheirMessage
  <1>1. ASSUME NEW w \in wire, w.id = i
        PROVE  Verdict(Me, i, w.request) # "MESSAGE_NOT_FOUND"
    BY <1>1, OriginalIsThere DEF Deliveries, OutboxTypeOK
  <1>2. task'[t][i] = task[t][i] \/ Onward(t, i, task'[t][i])
    BY TaskStep
  <1> QED BY <1>1, <1>2 DEF Onward, OperationsFindTheirMessage

------------------------------------------------------------------------------
(* The theorems.                                                           *)

\* The inductive invariant.  The order of one send carries the proof: the copy is
\* kept before the upload, the reply is true when it arrives, and only then does
\* anything show the message as sent or take it out of the outbox.
OutboxInv ==
  /\ OutboxTypeOK /\ Known /\ Fresh /\ Loaded
  /\ KeptBeforeUpload /\ KeptBeforeAccepted
  /\ RepliesAreTrue /\ NothingLost /\ SentMeansAccepted
  /\ OnlyMessagesShown /\ ScreensAreTrue /\ Targets /\ Deliveries
  /\ OperationsFindTheirMessage

\* The invariant holds of a client that has composed nothing.
LEMMA InitOutboxInv == OutboxInit => OutboxInv
  <1> SUFFICES ASSUME OutboxInit PROVE OutboxInv
    OBVIOUS
  <1>1. OutboxTypeOK
    BY InitOutboxTypeOK
  <1>2. Known /\ Fresh /\ Loaded
    BY DEF OutboxInit, Known, Pictured, HasChat, Fresh, Loaded, Accepted, At, Idle
  <1>3. KeptBeforeUpload /\ KeptBeforeAccepted /\ RepliesAreTrue /\ NothingLost
    BY DEF OutboxInit, KeptBeforeUpload, KeptBeforeAccepted, RepliesAreTrue,
       NothingLost, Accepted, At, Idle, Composed
  <1>4. /\ SentMeansAccepted /\ OnlyMessagesShown /\ ScreensAreTrue /\ Targets
        /\ OperationsFindTheirMessage
    BY DEF OutboxInit, SentMeansAccepted, OnlyMessagesShown, ScreensAreTrue, HasChat,
       Targets, OperationsFindTheirMessage, Idle, Composed
  <1>5. Deliveries
    BY DEF OutboxInit, Deliveries, Idle, Accepted
  <1> QED BY <1>1, <1>2, <1>3, <1>4, <1>5 DEF OutboxInv

\* Every step keeps the invariant.
LEMMA StepOutboxInv == OutboxInv /\ [OutboxNext]_outboxVars => OutboxInv'
  BY StepOutboxTypeOK, StepKnown, StepFresh, StepLoaded, StepKept, StepReplies,
     StepNothingLost, StepSent, StepTargets, StepDeliveries, StepOperations DEF OutboxInv

\* The invariant holds throughout.
LEMMA OutboxInvariant == OutboxSpec => []OutboxInv
  BY InitOutboxInv, StepOutboxInv, PTL DEF OutboxSpec

\* Types: in particular every reply is one of Verdict's, and whatever is uploaded,
\* saved or recorded is a request of the relay.
THEOREM OutboxIsWellTyped == OutboxSpec => []OutboxTypeOK
  <1>1. OutboxInv => OutboxTypeOK
    BY DEF OutboxInv
  <1> QED BY OutboxInvariant, <1>1, PTL

\* Nothing composed is lost, whatever crashes, lost replies, sign-outs and
\* competing windows come between.
THEOREM NothingComposedIsLost == OutboxSpec => []NothingLost
  <1>1. OutboxInv => NothingLost
    BY DEF OutboxInv
  <1> QED BY OutboxInvariant, <1>1, PTL

\* A message is shown as sent only if the relay accepted it.
THEOREM ShownAsSentIsAccepted == OutboxSpec => []SentMeansAccepted
  <1>1. OutboxInv => SentMeansAccepted
    BY DEF OutboxInv
  <1> QED BY OutboxInvariant, <1>1, PTL

\* The sender has whatever the relay has accepted in its own history, stored as
\* delivered, but for a copy that the optimistic one of another window is written
\* over; with a single window there is no such copy.
THEOREM AcceptedIsKept == OutboxSpec => []KeptBeforeAccepted
  <1>1. OutboxInv => KeptBeforeAccepted
    BY DEF OutboxInv
  <1> QED BY OutboxInvariant, <1>1, PTL

\* The relay never has to refuse an edit, a deletion or a reaction because it has
\* not seen the message.
THEOREM OperationsFollowMessages == OutboxSpec => []OperationsFindTheirMessage
  <1>1. OutboxInv => OperationsFindTheirMessage
    BY DEF OutboxInv
  <1> QED BY OutboxInvariant, <1>1, PTL

\* The relay's own invariants hold in the company of a sending client that starts
\* with devices already registered.
THEOREM RelayHoldsWhileSending == OutboxSpec => []RelayInv
  <1>1. OutboxInit => RelayInv
    BY InitOutboxTypeOK DEF OutboxInit, OutboxTypeOK, RelayInv, PayloadIffOwed,
       OwedOnlyToMembers, BlockedPairHasNothingQueued, OperationsHaveAnOriginal,
       HistoryStaysWithOwner, Accepted
  <1>2. OutboxInv /\ RelayInv /\ [OutboxNext]_outboxVars => RelayInv'
    BY OutboxRelayStep, StepRelayInv DEF OutboxInv
  <1> QED BY OutboxInvariant, <1>1, <1>2, PTL DEF OutboxSpec
------------------------------------------------------------------------------
(* Retries.  In a chat that is not a group the roster only grows: that and the *)
(* lock make every retry an exact one, as long as the entry has not left the   *)
(* outbox and been put back from a window's screen.                            *)

\* The entry can still be retried, and was not put back.
Live(i) == outbox[i] # "none" /\ i \notin restored

\* The delivery is from this device to others of the roster ...
Mine(x) == x.device = MyDevice /\ x.recipients \subseteq Roster(Chat) \ {MyDevice}

\* ... but not to all of them: the relay cannot accept it.
Stale(x) == x.recipients # Roster(Chat) \ {MyDevice}

\* Whatever is saved, in hand or under way was made by this device for its roster.
AllMine ==
  \A i \in Id :
    /\ prepared[i] # NoRequest => Mine(prepared[i])
    /\ \A t \in Tab : task[t][i].request # NoRequest => Mine(task[t][i].request)
    /\ \A w \in wire : w.id = i => Mine(w.request)

\* A reply on its way is awaited, by one window and for one upload.
Awaited ==
  \A w \in wire : w.tab # NoTab =>
    /\ At(w.tab, w.id, "wait")
    /\ \A v \in wire : v.id = w.id /\ v.tab = w.tab => v = w

\* One window at a time holds the lock of an id.
OneHolder == \A s, t \in Tab, i \in Id : Holds(s, i) /\ Holds(t, i) => s = t

\* The ciphertext is discarded only when the entry has left the outbox.
ClearedLast == \A t \in Tab, i \in Id : At(t, i, "clear") => ~Live(i)

\* The window that holds the lock sends, and waits for, the saved ciphertext.
HolderSendsSaved ==
  /\ \A t \in Tab, i \in Id : Live(i) /\ At(t, i, "upload") => task[t][i].request = prepared[i]
  /\ \A w \in wire : Live(w.id) /\ w.tab # NoTab => w.request = prepared[w.id]

\* An upload under way that is not the saved ciphertext can no longer be accepted.
OthersAreStale ==
  \A w \in wire : Live(w.id) => w.request = prepared[w.id] \/ Stale(w.request)

\* Whoever is told that the recipients changed: the saved ciphertext was not
\* accepted and cannot be any more.
RefusalsAreFinal ==
  \A t \in Tab, i \in Id :
    Live(i) /\ At(t, i, "reply") /\ task[t][i].reply = "RECIPIENTS_CHANGED" =>
      ~Accepted(i) /\ prepared[i] # NoRequest /\ Stale(prepared[i])

RetryInv ==
  /\ AllMine /\ Awaited /\ OneHolder /\ ClearedLast
  /\ HolderSendsSaved /\ OthersAreStale /\ RefusalsAreFinal /\ RetriesAreDuplicates

\* Outside a group the roster only grows.
LEMMA RosterGrows ==
  ASSUME OutboxTypeOK, ConvKind[Chat] # "group", [OutboxNext]_outboxVars
  PROVE  Roster(Chat) \subseteq Roster(Chat)'
  <1>1. ASSUME NEW u \in User, NEW d \in Device, RegisterDevice(u, d)
        PROVE  Roster(Chat) \subseteq Roster(Chat)'
    BY <1>1, RelayAssumption, OutboxAssumption
       DEF RegisterDevice, Roster, OutboxTypeOK, TypeOK
  <1>2. CASE UNCHANGED <<deviceOwner, members>>
    BY <1>2 DEF Roster
  <1>3. ASSUME OthersStep
        PROVE  \/ UNCHANGED <<deviceOwner, members>>
               \/ \E u \in User, d \in Device : RegisterDevice(u, d)
    BY <1>3 DEF OthersStep, Block, Unblock, AddMember, RemoveParticipant
  <1>4. UNCHANGED <<deviceOwner, members>> \/ OthersStep
    BY OutboxCases DEF Enqueue, StartSend, Prepare, Persist, Serve, LoseReply, HandleReply,
       Drop, Clear, Settle, ShowSettled, FlushStart, FlushNext, RetryMessage,
       SessionStep, Crash, outboxVars, relayVars, Upload, rosterVars
  <1> QED BY <1>1, <1>2, <1>3, <1>4

\* So a delivery that misses a device of the roster will always miss it.
LEMMA StaleStays ==
  ASSUME OutboxTypeOK, ConvKind[Chat] # "group", [OutboxNext]_outboxVars, NEW x, Mine(x)
  PROVE  Mine(x)' /\ (Stale(x) => Stale(x)')
  <1>1. Roster(Chat) \subseteq Roster(Chat)'
    BY RosterGrows
  <1>2. Mine(x)'
    BY <1>1 DEF Mine
  <1>3. ASSUME Stale(x) PROVE Stale(x)'
    BY <1>1, <1>3 DEF Mine, Stale
  <1> QED BY <1>2, <1>3

\* An entry that can be retried could be before, or is composed just now.
LEMMA LiveStep ==
  ASSUME OutboxInv, [OutboxNext]_outboxVars, NEW i \in Id, Live(i)'
  PROVE  Live(i) \/ (~Composed(i) /\ UNCHANGED <<dispatch, wire, task, prepared>>)
  <1> USE DEF Live
  <1>0. OutboxTypeOK
    BY DEF OutboxInv
  <1>1. ASSUME NEW t \in Tab, NEW j \in Id, NEW e \in Entry, Enqueue(t, j, e)
        PROVE  Live(i) \/ (~Composed(i) /\ UNCHANGED <<dispatch, wire, task, prepared>>)
    BY <1>0, <1>1 DEF Enqueue, Composed, OutboxTypeOK, relayVars, sendVars,
       historyVars
  <1>2. ASSUME NEW t \in Tab, FlushStart(t)
        PROVE  Live(i) \/ (~Composed(i) /\ UNCHANGED <<dispatch, wire, task, prepared>>)
    <2>1. i \notin Recovered(t) /\ i \notin restored
      BY <1>2 DEF FlushStart
    <2>2. outbox'[i] = outbox[i]
      BY <1>2, <2>1 DEF FlushStart
    <2> QED BY <2>1, <2>2
  <1>3. ASSUME NEW t \in Tab, NEW j \in Id, RetryMessage(t, j)
        PROVE  Live(i)
    BY <1>0, <1>3 DEF RetryMessage, OutboxTypeOK
  <1>4. ASSUME NEW t \in Tab, NEW j \in Id, Drop(t, j) \/ Settle(t, j)
        PROVE  Live(i)
    BY <1>0, <1>4 DEF Drop, Settle, Mark, OutboxTypeOK, historyVars
  <1>5. \/ UNCHANGED <<outbox, restored>> \/ (\E t \in Tab : FlushStart(t))
        \/ (\E t \in Tab, j \in Id : Drop(t, j) \/ Settle(t, j) \/ RetryMessage(t, j))
        \/ \E t \in Tab, j \in Id, e \in Entry : Enqueue(t, j, e)
    BY OutboxCases DEF StartSend, Prepare, Persist, Serve, LoseReply,
       HandleReply, Clear, ShowSettled, FlushNext, SessionStep, Crash,
       OthersStep, outboxVars, clientVars, durableVars,
       historyVars
  <1> QED BY <1>1, <1>2, <1>3, <1>4, <1>5

\* What a step may do to the saved ciphertext.
LEMMA SavedStep ==
  ASSUME OutboxTypeOK, [OutboxNext]_outboxVars, NEW i \in Id
  PROVE  \/ prepared'[i] = prepared[i]
         \/ \E t \in Tab : /\ Prepare(t, i)
                           /\ prepared[i] = NoRequest /\ prepared'[i] = Encrypted(i)
         \/ \E t \in Tab : /\ At(t, i, "reply") /\ task[t][i].reply = "RECIPIENTS_CHANGED"
                           /\ prepared'[i] = NoRequest /\ task'[t][i].pc = "prepare"
                           /\ UNCHANGED <<dispatch, wire>>
         \/ \E t \in Tab : At(t, i, "clear") /\ prepared'[i] = NoRequest
  <1>1. ASSUME NEW t \in Tab, NEW j \in Id, Prepare(t, j), prepared'[i] # prepared[i]
        PROVE  i = j /\ prepared[i] = NoRequest /\ prepared'[i] = Encrypted(i)
    BY <1>1 DEF Prepare, OutboxTypeOK
  <1>2. ASSUME NEW t \in Tab, NEW j \in Id, HandleReply(t, j), prepared'[i] # prepared[i]
        PROVE  /\ i = j /\ At(t, i, "reply") /\ task[t][i].reply = "RECIPIENTS_CHANGED"
               /\ prepared'[i] = NoRequest /\ task'[t][i].pc = "prepare"
               /\ UNCHANGED <<dispatch, wire>>
    <2>1. /\ i = j /\ At(t, i, "reply") /\ task[t][i].reply = "RECIPIENTS_CHANGED"
          /\ prepared'[i] = NoRequest
          /\ Put(t, i, [Idle EXCEPT !.pc = "prepare", !.retried = TRUE])
          /\ UNCHANGED <<dispatch, wire>>
      BY <1>2 DEF HandleReply, OutboxTypeOK, relayVars
    <2> DEFINE x == [Idle EXCEPT !.pc = "prepare", !.retried = TRUE]
    <2>2. x \in Send /\ x.pc = "prepare" /\ Put(t, i, x)
      BY <2>1, IdleSend DEF Place
    <2> HIDE DEF x
    <2>3. task'[t][i].pc = "prepare"
      BY <2>2, PutSend
    <2> QED BY <2>1, <2>3
  <1>3. ASSUME NEW t \in Tab, NEW j \in Id, Clear(t, j), prepared'[i] # prepared[i]
        PROVE  At(t, i, "clear") /\ prepared'[i] = NoRequest
    BY <1>3 DEF Clear, OutboxTypeOK
  <1>4. UNCHANGED prepared
        \/ \E t \in Tab, j \in Id : Prepare(t, j) \/ HandleReply(t, j) \/ Clear(t, j)
    BY OutboxCases DEF Enqueue, StartSend, Persist, Serve, LoseReply, Drop, Settle,
       ShowSettled, FlushStart, FlushNext, RetryMessage, SessionStep, Crash,
       OthersStep, outboxVars, clientVars, durableVars
  <1> QED BY <1>1, <1>2, <1>3, <1>4

\* Who changes a send.
LEMMA TaskChange ==
  ASSUME OutboxTypeOK, [OutboxNext]_outboxVars, NEW t \in Tab, NEW i \in Id,
         task'[t][i] # task[t][i]
  PROVE  \/ StartSend(t, i) \/ SendStep(t, i) \/ LoseReply(t, i)
         \/ \E w \in wire : Serve(w) /\ w.tab = t /\ w.id = i
         \/ ~InFlight(t, i) /\ Put(t, i, [Idle EXCEPT !.pc = "prepare"])
         \/ Crash(t)
  <1> DEFINE Goal ==
        \/ StartSend(t, i) \/ SendStep(t, i) \/ LoseReply(t, i)
        \/ \E w \in wire : Serve(w) /\ w.tab = t /\ w.id = i
        \/ ~InFlight(t, i) /\ Put(t, i, [Idle EXCEPT !.pc = "prepare"])
        \/ Crash(t)
  <1>1. ASSUME NEW s \in Tab, NEW j \in Id, NEW x, Put(s, j, x)
        PROVE  s = t /\ j = i
    BY <1>1 DEF Put, OutboxTypeOK
  <1>2. ASSUME NEW s \in Tab, NEW j \in Id, StartSend(s, j) PROVE Goal
    BY <1>1, <1>2 DEF StartSend, Begin
  <1>3. ASSUME NEW s \in Tab, NEW j \in Id, SendStep(s, j) PROVE Goal
    <2>1. \E x : Put(s, j, x)
      BY <1>3 DEF SendStep, Prepare, Persist, HandleReply, Drop, Clear, Settle,
         ShowSettled, GoTo
    <2> QED BY <1>1, <1>3, <2>1
  <1>4. ASSUME NEW s \in Tab, NEW j \in Id, LoseReply(s, j) PROVE Goal
    <2>1. \E x : Put(s, j, x)
      BY <1>4 DEF LoseReply
    <2> QED BY <1>1, <1>4, <2>1
  <1>5. ASSUME NEW w \in wire, Serve(w) PROVE Goal
    <2>1. w.tab # NoTab /\ \E x : Put(w.tab, w.id, x)
      BY <1>5 DEF Serve
    <2>2. w.tab \in Tab /\ w.id \in Id
      BY <2>1 DEF OutboxTypeOK
    <2> QED BY <1>1, <1>5, <2>1, <2>2
  <1>6. ASSUME NEW s \in Tab, NEW S \in SUBSET Id, SendFirst(s, S) PROVE Goal
    <2>1. PICK j \in S : ~InFlight(s, j) /\ Put(s, j, [Idle EXCEPT !.pc = "prepare"])
      BY <1>6 DEF SendFirst, Begin
    <2> QED BY <1>1, <2>1
  <1>7. ASSUME NEW s \in Tab, FlushStart(s) PROVE Goal
    BY <1>6, <1>7 DEF FlushStart
  <1>8. ASSUME NEW s \in Tab, FlushNext(s) PROVE Goal
    BY <1>6, <1>8 DEF FlushNext, OutboxTypeOK
  <1>9. ASSUME NEW s \in Tab, Crash(s) PROVE Goal
    <2>1. s = t
      BY <1>9 DEF Crash, OutboxTypeOK
    <2> QED BY <1>9, <2>1
  <1>10. \/ UNCHANGED task
         \/ (\E s \in Tab, j \in Id : StartSend(s, j) \/ SendStep(s, j) \/ LoseReply(s, j))
         \/ (\E w \in wire : Serve(w))
         \/ \E s \in Tab : FlushStart(s) \/ FlushNext(s) \/ Crash(s)
    BY OutboxCases DEF SendStep, Enqueue, RetryMessage, SessionStep, OthersStep,
       outboxVars, clientVars, sendVars
  <1> QED BY <1>2, <1>3, <1>4, <1>5, <1>7, <1>8, <1>9, <1>10

\* Only a window that has the saved ciphertext in hand holds the lock, and it
\* takes it when nobody else does.  It discards the ciphertext after the entry.
LEMMA HolderStep ==
  ASSUME OutboxTypeOK, [OutboxNext]_outboxVars, NEW t \in Tab, NEW i \in Id,
         task'[t][i] # task[t][i], Holds(t, i)' \/ task'[t][i].pc = "clear"
  PROVE  \/ /\ At(t, i, "prepare")
            /\ \A s \in Tab \ {t} : ~Holds(s, i) /\ task'[s][i] = task[s][i]
            /\ task'[t][i].pc = "upload" /\ task'[t][i].request = prepared'[i]
         \/ At(t, i, "upload") /\ task'[t][i].pc = "wait"
         \/ At(t, i, "reply") /\ task'[t][i].pc = "prepare"
         \/ \E w \in wire : /\ Serve(w) /\ w.tab = t /\ w.id = i
                            /\ task'[t][i].pc = "reply"
                            /\ task'[t][i].reply = Verdict(Me, i, w.request)
         \/ task'[t][i].pc = "clear" /\ outbox'[i] = "none"
  <1> USE DEF Holds, At
  <1>1. PICK now \in Send : now = task[t][i]
    BY DEF OutboxTypeOK
  <1>2. ASSUME NEW x \in Send, Put(t, i, x)
        PROVE  task'[t][i] = x
    BY <1>2, PutSend
  <1>3. ASSUME NEW p \in Place, Put(t, i, [Idle EXCEPT !.pc = p])
        PROVE  task'[t][i].pc = p /\ task'[t][i].retried = FALSE
    <2>1. [Idle EXCEPT !.pc = p].retried = FALSE
      BY DEF Idle
    <2>2. [Idle EXCEPT !.pc = p] \in Send /\ [Idle EXCEPT !.pc = p].pc = p
      BY IdleSend
    <2>3. task'[t][i] = [Idle EXCEPT !.pc = p]
      BY <1>2, <1>3, <2>2
    <2> QED BY <2>1, <2>2, <2>3
  <1>4. ASSUME NEW p \in Place, GoTo(t, i, p)
        PROVE  task'[t][i].pc = p
    <2>1. [now EXCEPT !.pc = p] \in Send /\ [now EXCEPT !.pc = p].pc = p
      BY MovedSend
    <2>2. task'[t][i] = [now EXCEPT !.pc = p]
      BY <1>1, <1>2, <1>4, <2>1 DEF GoTo
    <2> QED BY <2>1, <2>2
  <1>5. ~StartSend(t, i) /\ ~LoseReply(t, i)
    BY <1>3 DEF StartSend, Begin, LoseReply, Place
  <1>6. ~Put(t, i, [Idle EXCEPT !.pc = "prepare"])
    BY <1>3 DEF Place
  <1>7. ~Crash(t)
    <2>1. Crash(t) => task'[t][i] = Idle
      BY DEF Crash, OutboxTypeOK
    <2> QED BY <2>1, IdleSend DEF Place
  <1>8. ~Clear(t, i) /\ ~Settle(t, i)
    BY <1>4 DEF Clear, Settle, Place
  <1>9. ~ShowSettled(t, i)
    <2>1. ShowSettled(t, i) => task'[t][i] = Idle
      BY <1>2, IdleSend DEF ShowSettled, Place
    <2> QED BY <2>1, IdleSend DEF Place
  <1>10. CASE HandleReply(t, i)
    <2>1. ~Put(t, i, [Idle EXCEPT !.pc = "drop"]) /\ ~Put(t, i, [Idle EXCEPT !.pc = "failed"])
      BY <1>3 DEF Place
    <2>2. At(t, i, "reply") /\ Put(t, i, [Idle EXCEPT !.pc = "prepare", !.retried = TRUE])
      BY <1>10, <2>1 DEF HandleReply
    <2> DEFINE x == [Idle EXCEPT !.pc = "prepare", !.retried = TRUE]
    <2>3. x \in Send /\ x.pc = "prepare"
      BY IdleSend DEF Place
    <2>4. task'[t][i] = x
      BY <1>2, <2>2, <2>3
    <2> QED BY <2>2, <2>3, <2>4
  <1>11. CASE Persist(t, i)
    <2>1. PICK p \in {"wait", "failed"} : Put(t, i, [now EXCEPT !.pc = p, !.request = NoRequest])
      BY <1>1, <1>11 DEF Persist
    <2> DEFINE x == [now EXCEPT !.pc = p, !.request = NoRequest]
    <2>2. x \in Send /\ x.pc = p
      <3>1. p \in Place
        BY DEF Place
      <3> QED BY <3>1 DEF Send
    <2>3. task'[t][i] = x
      BY <1>2, <2>1, <2>2
    <2>4. task'[t][i].pc = p
      BY <2>2, <2>3
    <2> QED BY <1>11, <2>4 DEF Persist
  <1>12. CASE Prepare(t, i)
    <2>1. ~GoTo(t, i, "failed")
      BY <1>4 DEF Place
    <2>2. PICK r : /\ Put(t, i, [now EXCEPT !.pc = "upload", !.request = r])
                   /\ r = prepared'[i]
      BY <1>1, <1>12, <2>1 DEF Prepare, OutboxTypeOK
    <2> DEFINE x == [now EXCEPT !.pc = "upload", !.request = r]
    <2>3. task'[t][i] = x
      BY <2>2 DEF Put, OutboxTypeOK
    <2>4. x.pc = "upload" /\ x.request = r
      BY DEF Send
    <2>5. \A s \in Tab \ {t} : task'[s][i] = task[s][i]
      BY <2>2 DEF Put, OutboxTypeOK
    <2> QED BY <1>12, <2>2, <2>3, <2>4, <2>5 DEF Prepare
  <1>13. ASSUME NEW w \in wire, Serve(w), w.tab = t, w.id = i
         PROVE  task'[t][i].pc = "reply" /\ task'[t][i].reply = Verdict(Me, i, w.request)
    <2>1. PICK v \in Reply : v = Verdict(Me, i, w.request)
      BY VerdictIsReply
    <2> DEFINE x == [now EXCEPT !.pc = "reply", !.reply = v]
    <2>2. Put(t, i, x)
      BY <1>1, <1>13, <2>1, OutboxAssumption DEF Serve
    <2>3. x \in Send /\ x.pc = "reply" /\ x.reply = v
      BY DEF Send, Place
    <2>4. task'[t][i] = x
      BY <1>2, <2>2, <2>3
    <2> QED BY <2>1, <2>3, <2>4
  <1>14. CASE Drop(t, i)
    BY <1>4, <1>14 DEF Drop, Place, OutboxTypeOK
  <1> QED BY TaskChange, <1>5, <1>6, <1>7, <1>8, <1>9, <1>10, <1>11, <1>12, <1>13, <1>14
          DEF SendStep

\* A window stays at its lock's work unless it gives it up.
LEMMA WaiterStep ==
  ASSUME OutboxTypeOK, Fresh, [OutboxNext]_outboxVars, NEW t \in Tab, NEW i \in Id,
         At(t, i, "wait")
  PROVE  \/ task'[t][i] = task[t][i]
         \/ \E w \in wire : Serve(w) /\ w.tab = t /\ w.id = i
         \/ LoseReply(t, i)
         \/ Crash(t)
  BY TaskChange DEF Fresh, At, StartSend, InFlight, SendStep, Prepare, Persist, HandleReply,
     Drop, Clear, Settle, ShowSettled

\* A window that waits was waiting, or has just sent what it had in hand.
LEMMA WaitedWire ==
  ASSUME OutboxTypeOK, [OutboxNext]_outboxVars, NEW w \in wire', w.tab # NoTab
  PROVE  \/ w \in wire
         \/ /\ w.tab \in Tab /\ w.id \in Id
            /\ At(w.tab, w.id, "upload") /\ task'[w.tab][w.id].pc = "wait"
            /\ w = [id |-> w.id, request |-> task[w.tab][w.id].request, tab |-> w.tab]
            /\ prepared' = prepared
  <1>1. ASSUME NEW t \in Tab, NEW i \in Id, Persist(t, i), w \notin wire
        PROVE  /\ w = [id |-> i, request |-> task[t][i].request, tab |-> t]
               /\ At(t, i, "upload") /\ task'[t][i].pc = "wait"
               /\ prepared' = prepared
    <2>1. /\ w = [id |-> i, request |-> task[t][i].request, tab |-> t]
          /\ At(t, i, "upload") /\ prepared' = prepared
          /\ Put(t, i, [task[t][i] EXCEPT !.pc = "wait", !.request = NoRequest])
      BY <1>1 DEF Persist
    <2>2. PICK now \in Send : now = task[t][i]
      BY DEF OutboxTypeOK
    <2> DEFINE x == [now EXCEPT !.pc = "wait", !.request = NoRequest]
    <2>3. x \in Send /\ x.pc = "wait" /\ Put(t, i, x)
      BY <2>1, <2>2 DEF Send, Place
    <2>4. task'[t][i] = x
      BY <2>3, PutSend
    <2> QED BY <2>1, <2>3, <2>4
  <1>2. ASSUME NEW t \in Tab, NEW i \in Id, LoseReply(t, i)
        PROVE  w \in wire
    <2>1. ASSUME NEW v \in wire, w = [v EXCEPT !.tab = NoTab] PROVE FALSE
      BY <2>1 DEF OutboxTypeOK
    <2> QED BY <1>2, <2>1 DEF LoseReply
  <1>3. ASSUME NEW t \in Tab, Crash(t)
        PROVE  w \in wire
    <2>1. PICK v \in wire : w = [v EXCEPT !.tab = IF @ = t THEN NoTab ELSE @]
      BY <1>3 DEF Crash
    <2>2. v \in [id: Id, request: Request, tab: Tab \cup {NoTab}]
      BY DEF OutboxTypeOK
    <2>3. v.tab # t
      BY <2>1, <2>2
    <2>4. w = v
      BY <2>1, <2>2, <2>3
    <2> QED BY <2>4
  <1>4. w \in wire \/ (\E t \in Tab : Crash(t))
        \/ (\E t \in Tab, i \in Id : Persist(t, i) \/ LoseReply(t, i))
    BY OutboxCases DEF Enqueue, StartSend, Prepare, Serve, HandleReply, Drop, Clear,
       Settle, ShowSettled, FlushStart, FlushNext, RetryMessage, SessionStep,
       OthersStep, outboxVars, clientVars, sendVars
  <1>5. ASSUME NEW t \in Tab, NEW i \in Id,
               w = [id |-> i, request |-> task[t][i].request, tab |-> t]
        PROVE  w.id = i /\ w.tab = t
    BY <1>5
  <1> QED BY <1>1, <1>2, <1>3, <1>4, <1>5

\* Uploads under way, saved ciphertexts and those in hand are made by this device.
LEMMA StepAllMine ==
  OutboxInv /\ AllMine /\ ConvKind[Chat] # "group" /\ [OutboxNext]_outboxVars => AllMine'
  <1> DEFINE Own(x) == x.device = MyDevice /\ x.recipients \subseteq Roster(Chat) \ {MyDevice}
             Still(x) == x.device = MyDevice /\ x.recipients \subseteq Roster(Chat)' \ {MyDevice}
  <1> SUFFICES ASSUME OutboxInv, AllMine, ConvKind[Chat] # "group", [OutboxNext]_outboxVars,
                      NEW i \in Id
               PROVE  /\ prepared'[i] # NoRequest => Still(prepared'[i])
                      /\ \A t \in Tab : task'[t][i].request # NoRequest
                                        => Still(task'[t][i].request)
                      /\ \A w \in wire' : w.id = i => Still(w.request)
    BY DEF AllMine, Mine
  <1>0. OutboxTypeOK /\ Known /\ Loaded
    BY DEF OutboxInv
  <1>1. \A x : Own(x) => Still(x)
    BY <1>0, RosterGrows
  <1>2. prepared'[i] # NoRequest => Own(prepared'[i])
    <2>1. Own(Encrypted(i))
      BY DEF Encrypted
    <2> QED BY <1>0, <2>1, SavedStep DEF AllMine, Mine
  <1>3. ASSUME NEW t \in Tab, task'[t][i].request # NoRequest
        PROVE  Own(task'[t][i].request)
    <2>1. task'[t][i] = task[t][i] \/ Onward(t, i, task'[t][i])
      BY <1>0, TaskStep
    <2>2. task'[t][i].request \in {task[t][i].request, prepared'[i]}
      BY <1>3, <2>1 DEF Onward
    <2> QED BY <1>2, <1>3, <2>2 DEF AllMine, Mine
  <1>4. ASSUME NEW w \in wire', w.id = i
        PROVE  Own(w.request)
    BY <1>0, <1>4, WireStep DEF AllMine, Mine, Loaded
  <1> QED BY <1>1, <1>2, <1>3, <1>4

\* Every reply on its way is awaited.
LEMMA StepAwaited == OutboxInv /\ Awaited /\ [OutboxNext]_outboxVars => Awaited'
  <1> SUFFICES ASSUME OutboxInv, Awaited, [OutboxNext]_outboxVars,
                      NEW w \in wire', w.tab # NoTab
               PROVE  /\ task'[w.tab][w.id].pc = "wait"
                      /\ \A v \in wire' : v.id = w.id /\ v.tab = w.tab => v = w
    BY DEF Awaited, At
  <1>0. OutboxTypeOK /\ Fresh
    BY DEF OutboxInv
  <1>1. ASSUME NEW v \in wire', v.id = w.id, v.tab = w.tab
        PROVE  v = w
    <2>1. CASE v \in wire /\ w \in wire
      BY <1>1, <2>1 DEF Awaited
    <2>2. CASE v \in wire /\ w \notin wire
      <3>1. At(w.tab, w.id, "upload")
        BY <1>0, <2>2, WaitedWire
      <3> QED BY <1>1, <2>2, <3>1 DEF Awaited, At
    <2>3. CASE v \notin wire /\ w \in wire
      <3>1. At(v.tab, v.id, "upload")
        BY <1>0, <1>1, <2>3, WaitedWire
      <3> QED BY <1>1, <2>3, <3>1 DEF Awaited, At
    <2>4. CASE v \notin wire /\ w \notin wire
      <3>1. w = [id |-> w.id, request |-> task[w.tab][w.id].request, tab |-> w.tab]
        BY <1>0, <2>4, WaitedWire
      <3>2. v = [id |-> v.id, request |-> task[v.tab][v.id].request, tab |-> v.tab]
        BY <1>0, <1>1, <2>4, WaitedWire
      <3> QED BY <1>1, <3>1, <3>2
    <2> QED BY <2>1, <2>2, <2>3, <2>4
  <1>2. CASE w \in wire
    <2>1. PICK t \in Tab, i \in Id : w.tab = t /\ w.id = i
      BY <1>0, <1>2 DEF OutboxTypeOK
    <2>2. At(t, i, "wait") /\ \A v \in wire : v.id = i /\ v.tab = t => v = w
      BY <1>2, <2>1 DEF Awaited
    <2>3. ASSUME NEW v \in wire, Serve(v), v.tab = t, v.id = i
          PROVE  FALSE
      <3>1. v = w
        BY <2>2, <2>3
      <3>2. w \notin wire'
        BY <2>3, <3>1 DEF Serve
      <3> QED BY <3>2
    <2>4. ~LoseReply(t, i)
      <3>1. ASSUME NEW v \in wire, v.id = i, v.tab = t,
                   wire' = (wire \ {v}) \cup {[v EXCEPT !.tab = NoTab]}
            PROVE  FALSE
        <4>1. v = w
          BY <2>2, <3>1
        <4>2. [v EXCEPT !.tab = NoTab].tab = NoTab
          BY <1>0 DEF OutboxTypeOK
        <4> QED BY <3>1, <4>1, <4>2
      <3> QED BY <2>2, <3>1 DEF LoseReply, At
    <2>5. ~Crash(t)
      <3>1. ASSUME NEW v \in wire, w = [v EXCEPT !.tab = IF @ = t THEN NoTab ELSE @]
            PROVE  FALSE
        <4>1. w.tab = IF v.tab = t THEN NoTab ELSE v.tab
          BY <1>0, <3>1 DEF OutboxTypeOK
        <4> QED BY <2>1, <4>1, OutboxAssumption
      <3> QED BY <3>1 DEF Crash
    <2>6. task'[t][i] = task[t][i]
      BY <1>0, <2>2, <2>3, <2>4, <2>5, WaiterStep
    <2> QED BY <1>1, <2>1, <2>2, <2>6 DEF At
  <1>3. CASE w \notin wire
    <2>1. task'[w.tab][w.id].pc = "wait"
      BY <1>0, <1>3, WaitedWire
    <2> QED BY <1>1, <2>1
  <1> QED BY <1>2, <1>3

\* A window does not get past its lock while another one is there.
LEMMA StepOneHolder ==
  OutboxInv /\ Awaited /\ OneHolder /\ [OutboxNext]_outboxVars => OneHolder'
  <1> SUFFICES ASSUME OutboxInv, Awaited, OneHolder, [OutboxNext]_outboxVars,
                      NEW s \in Tab, NEW t \in Tab, NEW i \in Id,
                      Holds(s, i)', Holds(t, i)', s # t
               PROVE  FALSE
    BY DEF OneHolder
  <1>0. OutboxTypeOK
    BY DEF OutboxInv
  <1> DEFINE Taken(r) == \A q \in Tab \ {r} : ~Holds(q, i) /\ task'[q][i] = task[q][i]
  <1>1. ASSUME NEW r \in Tab, Holds(r, i)'
        PROVE  Holds(r, i) \/ Taken(r)
    <2>1. CASE task'[r][i] = task[r][i]
      BY <1>1, <2>1 DEF Holds, At
    <2>2. ASSUME NEW w \in wire, w.tab = r, w.id = i
          PROVE  Holds(r, i)
      <3>1. At(r, i, "wait")
        BY <2>2, OutboxAssumption DEF Awaited
      <3> QED BY <3>1 DEF Holds, At
    <2>3. CASE task'[r][i] # task[r][i]
      <3>1. At(r, i, "upload") \/ At(r, i, "reply") => Holds(r, i)
        BY DEF Holds, At
      <3>2. task'[r][i].pc # "clear"
        BY <1>1 DEF Holds, At
      <3> QED BY <1>0, <1>1, <2>2, <2>3, <3>1, <3>2, HolderStep
    <2> QED BY <2>1, <2>3
  <1>2. ASSUME NEW r \in Tab, NEW q \in Tab, r # q, Holds(q, i)', Taken(r)
        PROVE  FALSE
    <2>1. ~Holds(q, i) /\ task'[q][i] = task[q][i]
      BY <1>2
    <2> QED BY <1>2, <2>1 DEF Holds, At
  <1>3. Holds(s, i) /\ Holds(t, i)
    BY <1>1, <1>2
  <1> QED BY <1>3 DEF OneHolder

\* An entry's ciphertext is discarded once no retry can need it.
LEMMA StepClearedLast ==
  OutboxInv /\ ClearedLast /\ [OutboxNext]_outboxVars => ClearedLast'
  <1> SUFFICES ASSUME OutboxInv, ClearedLast, [OutboxNext]_outboxVars,
                      NEW t \in Tab, NEW i \in Id, task'[t][i].pc = "clear", Live(i)'
               PROVE  FALSE
    BY DEF ClearedLast, At
  <1>0. OutboxTypeOK /\ Known
    BY DEF OutboxInv
  <1>1. Live(i) /\ ~At(t, i, "clear")
    <2>1. Live(i) \/ (~Composed(i) /\ UNCHANGED <<dispatch, wire, task, prepared>>)
      BY LiveStep
    <2>2. ~Composed(i) => task[t][i].pc # "clear"
      BY <1>0 DEF Known
    <2> QED BY <2>1, <2>2 DEF ClearedLast, At
  <1>2. task'[t][i] # task[t][i]
    BY <1>1 DEF At
  <1>3. outbox'[i] # "none"
    BY DEF Live
  <1> QED BY <1>0, <1>2, <1>3, HolderStep

\* Nobody touches the saved ciphertext while another window holds the lock.
LEMMA SavedStays ==
  ASSUME OutboxInv, OneHolder, ClearedLast, [OutboxNext]_outboxVars,
         NEW t \in Tab, NEW i \in Id, Live(i), Holds(t, i),
         ~At(t, i, "prepare"), At(t, i, "reply") => task'[t][i].pc # "prepare"
  PROVE  prepared'[i] = prepared[i]
  <1>0. OutboxTypeOK
    BY DEF OutboxInv
  <1>1. ASSUME NEW s \in Tab, Prepare(s, i)
        PROVE  FALSE
    <2>1. s # t
      BY <1>1 DEF Prepare
    <2> QED BY <1>1, <2>1 DEF Prepare
  <1>2. ASSUME NEW s \in Tab, At(s, i, "reply"), task'[s][i].pc = "prepare"
        PROVE  FALSE
    <2>1. Holds(s, i)
      BY <1>2 DEF Holds, At
    <2> QED BY <1>2, <2>1 DEF OneHolder
  <1>3. \A s \in Tab : ~At(s, i, "clear")
    BY DEF ClearedLast
  <1> QED BY <1>0, <1>1, <1>2, <1>3, SavedStep

\* What the relay accepts is the delivery to the whole roster.
LEMMA CreatedIsNotStale ==
  ASSUME OutboxInv, AllMine, NEW w \in wire
  PROVE  LET v == Verdict(Me, w.id, w.request)
         IN  /\ v = "created" => ~Stale(w.request)
             /\ v = "RECIPIENTS_CHANGED" => ~Accepted(w.id) /\ Stale(w.request)
  <1>0. w.id \in Id /\ w.request \in Request
    BY DEF OutboxInv, OutboxTypeOK
  <1>1. Delivers(entry[w.id], w.request) /\ Mine(w.request)
    BY <1>0 DEF OutboxInv, Deliveries, AllMine
  <1>2. entry[w.id] \in Entry
    BY <1>0, <1>1 DEF Delivers, OutboxInv, OutboxTypeOK
  <1>3. w.request.kind # "history"
    BY <1>1, <1>2 DEF Delivers, Entry
  <1>4. Expected(Me, w.request) = Roster(Chat) \ {MyDevice}
    BY <1>1, <1>3 DEF Expected, Delivers, Mine
  <1>5. ASSUME Verdict(Me, w.id, w.request) = "created"
        PROVE  ~Stale(w.request)
    BY <1>4, <1>5, CreatedVerdict DEF Stale
  <1>6. ASSUME Verdict(Me, w.id, w.request) = "RECIPIENTS_CHANGED"
        PROVE  ~Accepted(w.id) /\ Stale(w.request)
    BY <1>4, <1>6 DEF Verdict, TargetVerdict, Stale
  <1> QED BY <1>5, <1>6

\* What is accepted now was on the wire, and was not stale.
LEMMA AcceptStep ==
  ASSUME OutboxInv, AllMine, OthersAreStale, [OutboxNext]_outboxVars, NEW i \in Id,
         Live(i), ~Accepted(i), Accepted(i)'
  PROVE  /\ ~Stale(prepared[i])
         /\ dispatch'[i].request = prepared[i] /\ prepared'[i] = prepared[i]
  <1>0. OutboxTypeOK
    BY DEF OutboxInv
  <1>1. PICK w \in wire : Serve(w)
    <2>1. UNCHANGED dispatch \/ OthersStep \/ \E w \in wire : Serve(w)
      BY OutboxCases DEF Enqueue, StartSend, Prepare, Persist, LoseReply, HandleReply,
         Drop, Clear, Settle, ShowSettled, FlushStart, FlushNext, RetryMessage,
         SessionStep, Crash, outboxVars, relayVars
    <2>2. OthersStep => UNCHANGED dispatch
      BY DEF OthersStep, RegisterDevice, Block, Unblock, AddMember, RemoveParticipant,
         Prune, queueVars
    <2> QED BY <2>1, <2>2 DEF Accepted
  <1>2. Verdict(Me, w.id, w.request) = "created" /\ Upload(Me, w.id, w.request)
    BY <1>1 DEF Serve, relayVars, Accepted
  <1>3. dispatch' = [dispatch EXCEPT ![w.id] = [request |-> w.request, sender |-> Me]]
    BY <1>2 DEF Upload
  <1>4. w.id = i /\ dispatch'[i].request = w.request
    BY <1>0, <1>3 DEF OutboxTypeOK, TypeOK, Accepted
  <1>5. ~Stale(w.request)
    BY <1>2, CreatedIsNotStale
  <1>6. w.request = prepared[i]
    BY <1>4, <1>5 DEF OthersAreStale
  <1>7. prepared' = prepared
    BY <1>1 DEF Serve, durableVars
  <1> QED BY <1>4, <1>5, <1>6, <1>7

\* The window that holds the lock sends, and waits for, the saved ciphertext.
LEMMA StepHolderSendsSaved ==
  /\ OutboxInv /\ Awaited /\ OneHolder /\ ClearedLast /\ HolderSendsSaved
  /\ [OutboxNext]_outboxVars
  => HolderSendsSaved'
  <1> SUFFICES ASSUME OutboxInv, Awaited, OneHolder, ClearedLast, HolderSendsSaved,
                      [OutboxNext]_outboxVars
               PROVE  HolderSendsSaved'
    OBVIOUS
  <1>0. OutboxTypeOK /\ Known
    BY DEF OutboxInv
  <1>1. ASSUME NEW t \in Tab, NEW i \in Id, Live(i)', task'[t][i].pc = "upload"
        PROVE  task'[t][i].request = prepared'[i]
    <2>1. CASE task'[t][i] = task[t][i]
      <3>1. At(t, i, "upload") /\ Holds(t, i) /\ ~At(t, i, "prepare")
        BY <1>1, <2>1 DEF At, Holds
      <3>2. Live(i)
        BY <1>0, <1>1, <3>1, LiveStep DEF Known, At
      <3>3. prepared'[i] = prepared[i]
        BY <3>1, <3>2, SavedStays DEF At
      <3> QED BY <2>1, <3>1, <3>2, <3>3 DEF HolderSendsSaved
    <2>2. CASE task'[t][i] # task[t][i]
      <3>1. Holds(t, i)'
        BY <1>1 DEF Holds, At
      <3> QED BY <1>0, <1>1, <2>2, <3>1, HolderStep
    <2> QED BY <2>1, <2>2
  <1>2. ASSUME NEW w \in wire', w.tab # NoTab, Live(w.id)'
        PROVE  w.request = prepared'[w.id]
    <2>1. CASE w \in wire
      <3>1. PICK t \in Tab, i \in Id : w.tab = t /\ w.id = i
        BY <1>0, <1>2, <2>1 DEF OutboxTypeOK
      <3>2. At(t, i, "wait") /\ Holds(t, i) /\ ~At(t, i, "prepare")
        BY <1>2, <2>1, <3>1 DEF Awaited, At, Holds
      <3>3. Live(i)
        BY <1>0, <1>2, <3>1, <3>2, LiveStep DEF Known, At
      <3>4. prepared'[i] = prepared[i]
        BY <3>2, <3>3, SavedStays DEF At
      <3> QED BY <1>2, <2>1, <3>1, <3>3, <3>4 DEF HolderSendsSaved
    <2>2. CASE w \notin wire
      <3>1. PICK t \in Tab, i \in Id : w.tab = t /\ w.id = i
        BY <1>0, <1>2, <2>2, WaitedWire
      <3>2. At(t, i, "upload") /\ prepared' = prepared /\ w.request = task[t][i].request
        BY <1>0, <1>2, <2>2, <3>1, WaitedWire
      <3>3. Live(i)
        BY <1>0, <1>2, <3>1, <3>2, LiveStep DEF Known, At
      <3> QED BY <3>1, <3>2, <3>3 DEF HolderSendsSaved
    <2> QED BY <2>1, <2>2
  <1> QED BY <1>1, <1>2 DEF HolderSendsSaved, At

\* An upload that is not the saved ciphertext stays unacceptable, and the saved
\* ciphertext is replaced only when it has become so.
LEMMA StepOthersAreStale ==
  /\ OutboxInv /\ AllMine /\ OneHolder /\ ClearedLast /\ HolderSendsSaved
  /\ OthersAreStale /\ RefusalsAreFinal /\ ConvKind[Chat] # "group"
  /\ [OutboxNext]_outboxVars
  => OthersAreStale'
  <1> DEFINE Missed(x) == x.recipients # Roster(Chat)' \ {MyDevice}
  <1> SUFFICES ASSUME OutboxInv, AllMine, OneHolder, ClearedLast, HolderSendsSaved,
                      OthersAreStale, RefusalsAreFinal, ConvKind[Chat] # "group",
                      [OutboxNext]_outboxVars, NEW w \in wire', Live(w.id)'
               PROVE  w.request = prepared'[w.id] \/ Missed(w.request)
    BY DEF OthersAreStale, Stale
  <1>0. OutboxTypeOK /\ Known
    BY DEF OutboxInv
  <1>1. \A x : Mine(x) /\ Stale(x) => Missed(x)
    BY <1>0, RosterGrows DEF Mine, Stale
  <1>2. CASE \E v \in wire : v.id = w.id /\ v.request = w.request
    <2>1. PICK v \in wire : v.id = w.id /\ v.request = w.request
      BY <1>2
    <2>2. PICK i \in Id : i = w.id
      BY <1>0, <2>1 DEF OutboxTypeOK
    <2>3. w.request \in Request /\ Mine(w.request)
      BY <1>0, <2>1 DEF OutboxTypeOK, AllMine
    <2>4. Live(i)
      BY <1>0, <2>1, <2>2, LiveStep DEF Known
    <2>5. w.request = prepared[i] \/ Stale(w.request)
      BY <2>1, <2>2, <2>4 DEF OthersAreStale
    <2>6. CASE Stale(w.request)
      BY <1>1, <2>3, <2>6
    <2>7. CASE w.request = prepared[i] /\ prepared'[i] # prepared[i]
      <3>1. prepared[i] # NoRequest
        BY <2>3, <2>7, OutboxAssumption
      <3>2. PICK t \in Tab : /\ At(t, i, "reply") /\ task[t][i].reply = "RECIPIENTS_CHANGED"
        BY <1>0, <2>4, <2>7, <3>1, SavedStep DEF ClearedLast
      <3>3. Stale(prepared[i])
        BY <2>4, <3>2 DEF RefusalsAreFinal
      <3> QED BY <1>1, <2>3, <2>7, <3>3
    <2> QED BY <2>2, <2>5, <2>6, <2>7
  <1>3. CASE \E t \in Tab : At(t, w.id, "upload") /\ w.request = task[t][w.id].request
    <2>1. PICK t \in Tab : At(t, w.id, "upload") /\ w.request = task[t][w.id].request
      BY <1>3
    <2>2. CASE w \in wire
      BY <1>2, <2>2
    <2>3. CASE w \notin wire
      <3>1. w.id \in Id
        BY <1>0, StepOutboxInv DEF OutboxInv, OutboxTypeOK
      <3>2. Live(w.id)
        BY <1>0, <2>1, <3>1, LiveStep DEF Known, At
      <3>3. Holds(t, w.id)
        BY <2>1 DEF Holds, At
      <3>4. prepared'[w.id] = prepared[w.id]
        BY <2>1, <3>1, <3>2, <3>3, SavedStays DEF At
      <3> QED BY <2>1, <3>1, <3>2, <3>4 DEF HolderSendsSaved
    <2> QED BY <2>2, <2>3
  <1> QED BY <1>0, <1>2, <1>3, WireStep

\* A window told that the recipients changed is told so of the saved ciphertext.
LEMMA StepRefusals ==
  /\ OutboxInv /\ RetryInv /\ ConvKind[Chat] # "group" /\ [OutboxNext]_outboxVars
  => RefusalsAreFinal'
  <1> DEFINE Missed(x) == x.recipients # Roster(Chat)' \ {MyDevice}
  <1> SUFFICES ASSUME OutboxInv, RetryInv, ConvKind[Chat] # "group", [OutboxNext]_outboxVars,
                      NEW t \in Tab, NEW i \in Id, Live(i)', task'[t][i].pc = "reply",
                      task'[t][i].reply = "RECIPIENTS_CHANGED"
               PROVE  ~Accepted(i)' /\ prepared'[i] # NoRequest /\ Missed(prepared'[i])
    BY DEF RefusalsAreFinal, Stale, At
  <1> USE DEF RetryInv
  <1>0. OutboxTypeOK /\ Known
    BY DEF OutboxInv
  <1>1. \A x : Mine(x) /\ Stale(x) => Missed(x)
    BY <1>0, RosterGrows DEF Mine, Stale
  <1>2. CASE task'[t][i] = task[t][i]
    <2>1. At(t, i, "reply") /\ Holds(t, i) /\ ~At(t, i, "prepare")
      BY <1>2 DEF At, Holds
    <2>2. Live(i)
      BY <1>0, <2>1, LiveStep DEF Known, At
    <2>3. ~Accepted(i) /\ prepared[i] # NoRequest /\ Stale(prepared[i])
      BY <1>2, <2>1, <2>2 DEF RefusalsAreFinal
    <2>4. prepared'[i] = prepared[i]
      BY <2>1, <2>2, SavedStays
    <2>5. ~Accepted(i)'
      BY <2>2, <2>3, AcceptStep
    <2>6. Mine(prepared[i])
      BY <2>3 DEF AllMine
    <2> QED BY <1>1, <2>3, <2>4, <2>5, <2>6
  <1>3. CASE task'[t][i] # task[t][i]
    <2>1. Holds(t, i)'
      BY DEF Holds, At
    <2>2. PICK w \in wire : /\ Serve(w) /\ w.tab = t /\ w.id = i
                            /\ task'[t][i].reply = Verdict(Me, i, w.request)
      BY <1>0, <1>3, <2>1, HolderStep
    <2>3. Verdict(Me, i, w.request) = "RECIPIENTS_CHANGED"
      BY <2>2
    <2>4. ~Accepted(i) /\ Stale(w.request)
      BY <2>2, <2>3, CreatedIsNotStale
    <2>5. Live(i)
      BY <1>0, <2>2, LiveStep DEF Known
    <2>6. w.request = prepared[i] /\ w.request \in Request /\ Mine(w.request)
      BY <1>0, <2>2, <2>5, OutboxAssumption DEF HolderSendsSaved, OutboxTypeOK, AllMine
    <2>7. prepared' = prepared /\ dispatch' = dispatch
      BY <2>2, <2>3 DEF Serve, durableVars, relayVars
    <2> QED BY <1>1, <2>4, <2>6, <2>7, OutboxAssumption DEF Accepted
  <1> QED BY <1>2, <1>3

\* The ciphertext of an accepted dispatch is kept for as long as it may be sent.
LEMMA StepRetries ==
  OutboxInv /\ RetryInv /\ [OutboxNext]_outboxVars => RetriesAreDuplicates'
  <1> SUFFICES ASSUME OutboxInv, RetryInv, [OutboxNext]_outboxVars,
                      NEW i \in Id, Live(i)', Accepted(i)'
               PROVE  prepared'[i] = dispatch'[i].request
    BY DEF RetriesAreDuplicates, Live
  <1> USE DEF RetryInv
  <1>0. OutboxTypeOK /\ Known
    BY DEF OutboxInv
  <1>1. Live(i)
    BY <1>0, LiveStep DEF Known, Accepted
  <1>2. CASE ~Accepted(i)
    BY <1>1, <1>2, AcceptStep
  <1>3. CASE Accepted(i)
    <2>1. dispatch'[i] = dispatch[i]
      BY <1>0, <1>3, DispatchStepOfOutbox
    <2>2. prepared[i] = dispatch[i].request
      BY <1>1, <1>3 DEF RetriesAreDuplicates, Live
    <2>3. dispatch[i].request # NoRequest
      BY <1>0, <1>3, OutboxAssumption DEF OutboxTypeOK, TypeOK, Accepted, Dispatch
    <2>4. prepared'[i] = prepared[i]
      BY <1>0, <1>1, <1>3, <2>2, <2>3, SavedStep DEF RefusalsAreFinal, ClearedLast
    <2> QED BY <2>1, <2>2, <2>4
  <1> QED BY <1>2, <1>3

\* The invariant of retries holds throughout, outside groups.
LEMMA RetryInvariant == ConvKind[Chat] # "group" => (OutboxSpec => []RetryInv)
  <1> SUFFICES ASSUME ConvKind[Chat] # "group" PROVE OutboxSpec => []RetryInv
    OBVIOUS
  <1>1. ASSUME OutboxInit PROVE RetryInv
    <2>1. \A t \in Tab, i \in Id : task[t][i] = Idle
      BY <1>1 DEF OutboxInit
    <2>2. Idle.pc = "idle" /\ Idle.request = NoRequest
      BY DEF Idle
    <2>3. wire = {} /\ \A i \in Id : prepared[i] = NoRequest /\ outbox[i] = "none"
      BY <1>1 DEF OutboxInit
    <2> QED BY <2>1, <2>2, <2>3 DEF RetryInv, AllMine, Awaited, OneHolder, ClearedLast,
            HolderSendsSaved, OthersAreStale, RefusalsAreFinal, RetriesAreDuplicates, Live, At, Holds
  <1>2. OutboxInv /\ RetryInv /\ [OutboxNext]_outboxVars => RetryInv'
    BY StepAllMine, StepAwaited, StepOneHolder, StepClearedLast, StepHolderSendsSaved,
       StepOthersAreStale, StepRefusals, StepRetries DEF RetryInv
  <1> QED BY OutboxInvariant, <1>1, <1>2, PTL DEF OutboxSpec

\* In a chat that is not a group, for any number of windows, crashes, lost and late
\* replies and taps: as long as an entry that has not been put back from a screen can
\* be sent again, what will be sent is what the relay has accepted.
THEOREM RetriesAreTheSame ==
  ConvKind[Chat] # "group" => (OutboxSpec => []RetriesAreDuplicates)
  <1>1. RetryInv => RetriesAreDuplicates
    BY DEF RetryInv
  <1> QED BY RetryInvariant, <1>1, PTL

==============================================================================
