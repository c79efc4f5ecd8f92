-------------------------- MODULE SecureRelayProofs --------------------------
(* Proofs that the relay's state is well typed and that its queues are       *)
(* consistent, for any sets of users, devices, conversations and dispatches. *)
EXTENDS SecureRelay, TLAPS

\* What an upload has passed when it is accepted for the first time.
LEMMA CreatedVerdict ==
  ASSUME NEW u, NEW i, NEW r, Verdict(u, i, r) = "created"
  PROVE  /\ deviceOwner[r.device] = u
         /\ MayAccess(u, r.conv)
         /\ ~Accepted(i)
         /\ Expected(u, r) = r.recipients
         /\ r.kind = "message" => Original(r) = {}
         /\ r.kind \in {"edit", "delete", "reaction"} => Original(r) # {}
         /\ r.kind \in {"edit", "delete"} =>
              \A o \in Original(r) : dispatch[o].sender = u
  BY DEF Verdict, TargetVerdict

\* A request that can be uploaded is a request.
LEMMA UploadsAreRequests ==
  ASSUME TypeOK, NEW u \in User, NEW i \in Id, NEW r \in Uploads(u, i)
  PROVE  r \in Request
  <1>1. CASE Accepted(i)
    BY <1>1 DEF TypeOK, Uploads, Accepted, Dispatch
  <1>2. CASE ~Accepted(i)
    BY <1>2 DEF TypeOK, Uploads, Requests, Request, DevicesOf, Roster
  <1> QED BY <1>1, <1>2

\* The steps of the relay, the three ways to create a conversation taken as one.
LEMMA StepCases ==
  ASSUME TypeOK, [Next]_relayVars
  PROVE  \/ UNCHANGED relayVars
         \/ \E u \in User, d \in Device : RegisterDevice(u, d)
         \/ \E c \in Conv, S \in SUBSET User : CreateConversation(c, S)
         \/ \E v \in User, c \in Conv : AddMember(v, c)
         \/ \E u \in User, c \in Conv : RemoveParticipant(u, c)
         \/ \E c \in Conv : DismissGroup(c)
         \/ \E u, v \in User : Block(u, v)
         \/ \E u, v \in User : Unblock(u, v)
         \/ \E u \in User : DeleteAccount(u)
         \/ \E u \in User, i \in Id, r \in Request : Upload(u, i, r)
         \/ \E u \in User, i \in Id, d \in Device : Ack(u, i, d)
  <1>1. CASE RosterStep
    <2>1. ASSUME NEW u \in User, NEW v \in User, NEW c \in Conv, CreateDirect(u, v, c)
          PROVE  \E cc \in Conv, S \in SUBSET User : CreateConversation(cc, S)
      BY <2>1 DEF CreateDirect
    <2>2. ASSUME NEW u \in User, NEW S \in SUBSET User, NEW c \in Conv, CreateGroup(u, S, c)
          PROVE  \E cc \in Conv, T \in SUBSET User : CreateConversation(cc, T)
      <3>1. S \cup {u} \in SUBSET User
        OBVIOUS
      <3> QED BY <2>2, <3>1 DEF CreateGroup
    <2>3. ASSUME NEW u \in User, NEW c \in Conv, OpenNotes(u, c)
          PROVE  \E cc \in Conv, S \in SUBSET User : CreateConversation(cc, S)
      BY <2>3 DEF OpenNotes
    <2> QED BY <1>1, <2>1, <2>2, <2>3 DEF RosterStep
  <1>2. CASE \E u \in User, i \in Id : \E r \in Uploads(u, i) : Upload(u, i, r)
    BY <1>2, UploadsAreRequests
  <1> QED BY <1>1, <1>2 DEF Next

------------------------------------------------------------------------------
(* Type correctness.                                                       *)

\* The initial state is well typed.
LEMMA InitTypeOK == Init => TypeOK
  BY DEF Init, TypeOK

\* Every step keeps the state well typed.
LEMMA StepTypeOK == TypeOK /\ [Next]_relayVars => TypeOK'
  <1> SUFFICES ASSUME TypeOK, [Next]_relayVars PROVE TypeOK'
    OBVIOUS
  <1> USE DEF TypeOK
  <1>1. CASE UNCHANGED relayVars
    BY <1>1 DEF relayVars
  <1>2. CASE \E u \in User, d \in Device : RegisterDevice(u, d)
    BY <1>2 DEF RegisterDevice, queueVars
  <1>3. CASE \E c \in Conv, S \in SUBSET User : CreateConversation(c, S)
    BY <1>3 DEF CreateConversation, queueVars
  <1>4. CASE \E v \in User, c \in Conv : AddMember(v, c)
    BY <1>4 DEF AddMember, queueVars
  <1>5. CASE \E u \in User, c \in Conv : RemoveParticipant(u, c)
    BY <1>5 DEF RemoveParticipant, Prune
  <1>6. CASE \E c \in Conv : DismissGroup(c)
    BY <1>6 DEF DismissGroup, CascadeConversations
  <1>7. CASE \E u, v \in User : Block(u, v)
    BY <1>7 DEF Block
  <1>8. CASE \E u, v \in User : Unblock(u, v)
    BY <1>8 DEF Unblock, queueVars
  <1>9. CASE \E u \in User : DeleteAccount(u)
    BY <1>9 DEF DeleteAccount, CascadeConversations
  <1>10. CASE \E u \in User, i \in Id, r \in Request : Upload(u, i, r)
    BY <1>10 DEF Upload, Request, Dispatch, rosterVars
  <1>11. CASE \E u \in User, i \in Id, d \in Device : Ack(u, i, d)
    BY <1>11 DEF Ack, rosterVars
  <1> QED BY <1>1, <1>2, <1>3, <1>4, <1>5, <1>6, <1>7, <1>8, <1>9, <1>10, <1>11,
             StepCases

\* The relay's rows keep their types: whatever the interleaving of handlers,
\* every envelope, receipt and membership names existing kinds of things.
THEOREM RelayTypeOK == Spec => []TypeOK
  BY InitTypeOK, StepTypeOK, PTL DEF Spec

------------------------------------------------------------------------------
(* What one step can do to one dispatch, and to one direct chat.           *)

\* A step accepts dispatch i, or only takes envelopes of i away, keeping its
\* receipt unless nothing is left of it.
LEMMA DispatchStep ==
  ASSUME TypeOK, [Next]_relayVars, NEW i \in Id
  PROVE  \/ \E u \in User, r \in Request : Upload(u, i, r)
         \/ /\ envelopes'[i] \subseteq envelopes[i]
            /\ \/ dispatch'[i] = dispatch[i]
               \/ /\ Accepted(i)
                  /\ dispatch'[i] = NoDispatch
                  /\ dispatch[i].request.conv \notin live'
                  /\ envelopes'[i] = {}
  <1> USE DEF TypeOK, DispatchedIn, Accepted
  <1>1. CASE UNCHANGED relayVars
    BY <1>1 DEF relayVars
  <1>2. CASE \E u \in User, d \in Device : RegisterDevice(u, d)
    BY <1>2 DEF RegisterDevice, queueVars
  <1>3. CASE \E c \in Conv, S \in SUBSET User : CreateConversation(c, S)
    BY <1>3 DEF CreateConversation, queueVars
  <1>4. CASE \E v \in User, c \in Conv : AddMember(v, c)
    BY <1>4 DEF AddMember, queueVars
  <1>5. CASE \E u \in User, c \in Conv : RemoveParticipant(u, c)
    BY <1>5 DEF RemoveParticipant, Prune
  <1>6. CASE \E c \in Conv : DismissGroup(c)
    BY <1>6 DEF DismissGroup, CascadeConversations
  <1>7. CASE \E u, v \in User : Block(u, v)
    BY <1>7 DEF Block
  <1>8. CASE \E u, v \in User : Unblock(u, v)
    BY <1>8 DEF Unblock, queueVars
  <1>9. CASE \E u \in User : DeleteAccount(u)
    BY <1>9 DEF DeleteAccount, CascadeConversations
  <1>10. CASE \E u \in User, j \in Id, r \in Request : Upload(u, j, r)
    <2>1. PICK u \in User, j \in Id, r \in Request : Upload(u, j, r)
      BY <1>10
    <2>2. CASE j = i
      BY <2>1, <2>2
    <2>3. CASE j # i
      BY <2>1, <2>3 DEF Upload
    <2> QED BY <2>2, <2>3
  <1>11. CASE \E u \in User, j \in Id, d \in Device : Ack(u, j, d)
    <2>1. PICK u \in User, j \in Id, d \in Device : Ack(u, j, d)
      BY <1>11
    <2>2. envelopes' = [envelopes EXCEPT ![j] = @ \ {d}] /\ UNCHANGED dispatch
      BY <2>1 DEF Ack
    <2> QED BY <2>2
  <1> QED BY <1>1, <1>2, <1>3, <1>4, <1>5, <1>6, <1>7,
             <1>8, <1>9, <1>10, <1>11, StepCases

\* Nobody joins a direct chat that exists.
LEMMA DirectStep ==
  ASSUME TypeOK, [Next]_relayVars, NEW c \in live, ConvKind[c] = "direct"
  PROVE  members'[c] \subseteq members[c]
  <1> USE DEF TypeOK
  <1>1. CASE UNCHANGED relayVars
    BY <1>1 DEF relayVars
  <1>2. CASE \E u \in User, d \in Device : RegisterDevice(u, d)
    BY <1>2 DEF RegisterDevice, queueVars
  <1>3. CASE \E cc \in Conv, S \in SUBSET User : CreateConversation(cc, S)
    BY <1>3 DEF CreateConversation, queueVars
  <1>4. CASE \E v \in User, cc \in Conv : AddMember(v, cc)
    BY <1>4 DEF AddMember, queueVars
  <1>5. CASE \E u \in User, cc \in Conv : RemoveParticipant(u, cc)
    BY <1>5 DEF RemoveParticipant, Prune
  <1>6. CASE \E cc \in Conv : DismissGroup(cc)
    BY <1>6 DEF DismissGroup, CascadeConversations
  <1>7. CASE \E u, v \in User : Block(u, v)
    BY <1>7 DEF Block
  <1>8. CASE \E u, v \in User : Unblock(u, v)
    BY <1>8 DEF Unblock, queueVars
  <1>9. CASE \E u \in User : DeleteAccount(u)
    BY <1>9 DEF DeleteAccount, CascadeConversations
  <1>10. CASE \E u \in User, i \in Id, r \in Request : Upload(u, i, r)
    BY <1>10 DEF Upload, rosterVars
  <1>11. CASE \E u \in User, i \in Id, d \in Device : Ack(u, i, d)
    BY <1>11 DEF Ack, rosterVars
  <1> QED BY <1>1, <1>2, <1>3, <1>4, <1>5, <1>6, <1>7,
             <1>8, <1>9, <1>10, <1>11, StepCases

\* Only Block adds a block.
LEMMA BlocksStep ==
  ASSUME TypeOK, [Next]_relayVars
  PROVE  blocks' \subseteq blocks \/ \E u, v \in User : Block(u, v)
  <1> USE DEF TypeOK
  <1>1. CASE UNCHANGED relayVars
    BY <1>1 DEF relayVars
  <1>2. CASE \E u \in User, d \in Device : RegisterDevice(u, d)
    BY <1>2 DEF RegisterDevice, queueVars
  <1>3. CASE \E c \in Conv, S \in SUBSET User : CreateConversation(c, S)
    BY <1>3 DEF CreateConversation, queueVars
  <1>4. CASE \E v \in User, c \in Conv : AddMember(v, c)
    BY <1>4 DEF AddMember, queueVars
  <1>5. CASE \E u \in User, c \in Conv : RemoveParticipant(u, c)
    BY <1>5 DEF RemoveParticipant, Prune
  <1>6. CASE \E c \in Conv : DismissGroup(c)
    BY <1>6 DEF DismissGroup, CascadeConversations
  <1>7. CASE \E u, v \in User : Block(u, v)
    BY <1>7 DEF Block
  <1>8. CASE \E u, v \in User : Unblock(u, v)
    BY <1>8 DEF Unblock, queueVars
  <1>9. CASE \E u \in User : DeleteAccount(u)
    BY <1>9 DEF DeleteAccount, CascadeConversations
  <1>10. CASE \E u \in User, i \in Id, r \in Request : Upload(u, i, r)
    BY <1>10 DEF Upload, rosterVars
  <1>11. CASE \E u \in User, i \in Id, d \in Device : Ack(u, i, d)
    BY <1>11 DEF Ack, rosterVars
  <1> QED BY <1>1, <1>2, <1>3, <1>4, <1>5, <1>6, <1>7,
             <1>8, <1>9, <1>10, <1>11, StepCases

------------------------------------------------------------------------------
(* The parts of the inductive invariant, one lemma each.                   *)

\* A payload stays exactly as long as its envelopes, whatever the handler.
LEMMA StepPayloadIffOwed ==
  TypeOK /\ PayloadIffOwed /\ OwedOnlyToMembers /\ [Next]_relayVars => PayloadIffOwed'
  <1> SUFFICES ASSUME TypeOK, PayloadIffOwed, OwedOnlyToMembers, [Next]_relayVars
               PROVE  PayloadIffOwed'
    OBVIOUS
  <1> USE DEF TypeOK, PayloadIffOwed, OwedOnlyToMembers, DispatchedIn, DevicesOf, Accepted
  <1>1. CASE UNCHANGED relayVars
    BY <1>1 DEF relayVars
  <1>2. CASE \E u \in User, d \in Device : RegisterDevice(u, d)
    BY <1>2 DEF RegisterDevice, queueVars
  <1>3. CASE \E c \in Conv, S \in SUBSET User : CreateConversation(c, S)
    BY <1>3 DEF CreateConversation, queueVars
  <1>4. CASE \E v \in User, c \in Conv : AddMember(v, c)
    BY <1>4 DEF AddMember, queueVars
  <1>5. CASE \E u \in User, c \in Conv : RemoveParticipant(u, c)
    BY <1>5 DEF RemoveParticipant, Prune
  <1>6. CASE \E c \in Conv : DismissGroup(c)
    BY <1>6 DEF DismissGroup, CascadeConversations
  <1>7. CASE \E u, v \in User : Block(u, v)
    BY <1>7 DEF Block
  <1>8. CASE \E u, v \in User : Unblock(u, v)
    BY <1>8 DEF Unblock, queueVars
  <1>9. CASE \E u \in User : DeleteAccount(u)
    BY <1>9 DEF DeleteAccount, CascadeConversations
  <1>10. CASE \E u \in User, i \in Id, r \in Request : Upload(u, i, r)
    BY <1>10, CreatedVerdict DEF Upload, rosterVars
  <1>11. CASE \E u \in User, i \in Id, d \in Device : Ack(u, i, d)
    BY <1>11 DEF Ack, rosterVars
  <1> QED BY <1>1, <1>2, <1>3, <1>4, <1>5, <1>6, <1>7,
             <1>8, <1>9, <1>10, <1>11, StepCases

\* Every handler that ends a membership or a device ends its envelopes too.
LEMMA StepOwedOnlyToMembers == TypeOK /\ OwedOnlyToMembers /\ [Next]_relayVars => OwedOnlyToMembers'
  <1> SUFFICES ASSUME TypeOK, OwedOnlyToMembers, [Next]_relayVars PROVE OwedOnlyToMembers'
    OBVIOUS
  <1> USE DEF TypeOK, OwedOnlyToMembers, DispatchedIn, DevicesOf, Accepted, Dispatch, Request
  <1>1. CASE UNCHANGED relayVars
    BY <1>1 DEF relayVars
  <1>2. CASE \E u \in User, d \in Device : RegisterDevice(u, d)
    <2>1. PICK u \in User, d \in Device : RegisterDevice(u, d)
      BY <1>2
    <2>2. ASSUME NEW i \in Id, NEW e \in envelopes[i]
          PROVE  e \in Device /\ e # d
      BY <2>1, RelayAssumption DEF RegisterDevice
    <2> QED BY <2>1, <2>2 DEF RegisterDevice, queueVars
  <1>3. CASE \E c \in Conv, S \in SUBSET User : CreateConversation(c, S)
    BY <1>3 DEF CreateConversation, queueVars
  <1>4. CASE \E v \in User, c \in Conv : AddMember(v, c)
    BY <1>4 DEF AddMember, queueVars
  <1>5. CASE \E u \in User, c \in Conv : RemoveParticipant(u, c)
    BY <1>5 DEF RemoveParticipant, Prune
  <1>6. CASE \E c \in Conv : DismissGroup(c)
    BY <1>6 DEF DismissGroup, CascadeConversations
  <1>7. CASE \E u, v \in User : Block(u, v)
    BY <1>7 DEF Block
  <1>8. CASE \E u, v \in User : Unblock(u, v)
    BY <1>8 DEF Unblock, queueVars
  <1>9. CASE \E u \in User : DeleteAccount(u)
    BY <1>9 DEF DeleteAccount, CascadeConversations
  <1>10. CASE \E u \in User, i \in Id, r \in Request : Upload(u, i, r)
    <2>1. PICK u \in User, i \in Id, r \in Request : Upload(u, i, r)
      BY <1>10
    <2>2. /\ MayAccess(u, r.conv)
          /\ Expected(u, r) = r.recipients
          /\ deviceOwner[r.device] = u
      BY <2>1, CreatedVerdict DEF Upload
    <2>3. ASSUME NEW d \in r.recipients
          PROVE  /\ deviceOwner[d] \in members[r.conv]
                 /\ d # r.device
      BY <2>2 DEF Expected, Roster, MayAccess
    <2>4. /\ r.conv \in live
          /\ dispatch'[i].request = r
          /\ dispatch'[i] # NoDispatch
      BY <2>1, <2>2, RelayAssumption DEF Upload, MayAccess
    <2>5. ASSUME NEW j \in Id, j # i
          PROVE  dispatch'[j] = dispatch[j] /\ envelopes'[j] = envelopes[j]
      BY <2>1, <2>5 DEF Upload
    <2>6. envelopes'[i] = r.recipients /\ UNCHANGED rosterVars
      BY <2>1 DEF Upload
    <2> QED BY <2>3, <2>4, <2>5, <2>6 DEF rosterVars
  <1>11. CASE \E u \in User, i \in Id, d \in Device : Ack(u, i, d)
    BY <1>11 DEF Ack, rosterVars
  <1> QED BY <1>1, <1>2, <1>3, <1>4, <1>5, <1>6, <1>7,
             <1>8, <1>9, <1>10, <1>11, StepCases

\* A block empties the queue, and nothing is accepted behind one.
LEMMA StepBlockedPair ==
  /\ TypeOK /\ OwedOnlyToMembers /\ BlockedPairHasNothingQueued
  /\ [Next]_relayVars
  => BlockedPairHasNothingQueued'
  <1> SUFFICES ASSUME TypeOK, OwedOnlyToMembers, BlockedPairHasNothingQueued,
                      [Next]_relayVars,
                      NEW i \in Id, envelopes'[i] # {}
               PROVE  ~DirectBlocked(dispatch[i].request.conv)'
    BY DEF BlockedPairHasNothingQueued
  <1>1. CASE \E u \in User, r \in Request : Upload(u, i, r)
    <2>1. PICK u \in User, r \in Request : Upload(u, i, r)
      BY <1>1
    <2>2. ~DirectBlocked(r.conv)
      BY <2>1, CreatedVerdict DEF Upload, MayAccess
    <2>3. dispatch'[i].request = r
      BY <2>1 DEF Upload, TypeOK
    <2>4. UNCHANGED <<members, blocks>>
      BY <2>1 DEF Upload, rosterVars
    <2> QED BY <2>2, <2>3, <2>4 DEF DirectBlocked
  <1>2. CASE ~ \E u \in User, r \in Request : Upload(u, i, r)
    <2> DEFINE c == dispatch[i].request.conv
    <2>1. /\ dispatch'[i] = dispatch[i]
          /\ envelopes'[i] \subseteq envelopes[i]
      BY <1>2, DispatchStep
    <2>2. Accepted(i) /\ c \in live
      BY <2>1 DEF OwedOnlyToMembers, TypeOK
    <2>3. ~DirectBlocked(c)
      BY <2>1 DEF BlockedPairHasNothingQueued
    <2>4. SUFFICES ASSUME ConvKind[c] = "direct"
                   PROVE  ~ \E x, y \in members'[c] : <<x, y>> \in blocks'
      BY <2>1 DEF DirectBlocked
    <2>5. members'[c] \subseteq members[c]
      BY <2>2, <2>4, DirectStep
    <2>6. CASE blocks' \subseteq blocks
      BY <2>3, <2>4, <2>5, <2>6 DEF DirectBlocked
    <2>7. CASE \E u, v \in User : Block(u, v)
      <3>1. PICK u \in User, v \in User : Block(u, v)
        BY <2>7
      <3>2. ~ ({u, v} \subseteq members[c])
        BY <3>1, <2>2, <2>4 DEF Block, DispatchedIn, TypeOK
      <3>3. blocks' = blocks \cup {<<u, v>>}
        BY <3>1 DEF Block
      <3> QED BY <2>3, <2>4, <2>5, <3>2, <3>3 DEF DirectBlocked
    <2> QED BY <2>6, <2>7, BlocksStep
  <1> QED BY <1>1, <1>2

\* Receipts go only with their whole conversation, the originals with them.
LEMMA StepOriginal ==
  TypeOK /\ OperationsHaveAnOriginal /\ [Next]_relayVars => OperationsHaveAnOriginal'
  <1> SUFFICES ASSUME TypeOK, OperationsHaveAnOriginal, [Next]_relayVars
               PROVE  OperationsHaveAnOriginal'
    OBVIOUS
  <1> USE DEF TypeOK, OperationsHaveAnOriginal, Original, DispatchedIn, Accepted,
              Dispatch, Request
  <1>1. CASE UNCHANGED dispatch
    BY <1>1
  <1>2. CASE \E D \in SUBSET Conv : CascadeConversations(D)
    <2>1. PICK D \in SUBSET Conv : CascadeConversations(D)
      BY <1>2
    <2>2. ASSUME NEW i \in Id
          PROVE  dispatch'[i] = IF Accepted(i) /\ dispatch[i].request.conv \in D
                                THEN NoDispatch ELSE dispatch[i]
      BY <2>1 DEF CascadeConversations
    <2> QED BY <2>2
  <1>3. CASE \E u \in User, i \in Id, r \in Request : Upload(u, i, r)
    BY <1>3, CreatedVerdict, RelayAssumption DEF Upload
  <1>4. \/ UNCHANGED dispatch
        \/ \E D \in SUBSET Conv : CascadeConversations(D)
        \/ \E u \in User, i \in Id, r \in Request : Upload(u, i, r)
    <2>1. ASSUME NEW c \in Conv, DismissGroup(c)
          PROVE  \E D \in SUBSET Conv : CascadeConversations(D)
      BY <2>1 DEF DismissGroup
    <2>2. ASSUME NEW u \in User, DeleteAccount(u)
          PROVE  \E D \in SUBSET Conv : CascadeConversations(D)
      BY <2>2 DEF DeleteAccount
    <2> QED BY StepCases, <2>1, <2>2
            DEF relayVars, queueVars, RegisterDevice, CreateConversation, AddMember,
                RemoveParticipant, Prune, Block, Unblock, Ack
  <1> QED BY <1>1, <1>2, <1>3, <1>4

\* A history dispatch addresses own devices, and a device never changes its owner.
LEMMA StepHistory ==
  /\ TypeOK /\ OwedOnlyToMembers /\ HistoryStaysWithOwner
  /\ [Next]_relayVars
  => HistoryStaysWithOwner'
  <1> SUFFICES ASSUME TypeOK, OwedOnlyToMembers, HistoryStaysWithOwner,
                      [Next]_relayVars,
                      NEW i \in Id, Accepted(i)',
                      dispatch'[i].request.kind = "history",
                      NEW d \in envelopes'[i]
               PROVE  deviceOwner'[d] = dispatch'[i].sender
    BY DEF HistoryStaysWithOwner
  <1>1. CASE \E u \in User, r \in Request : Upload(u, i, r)
    <2>1. PICK u \in User, r \in Request : Upload(u, i, r)
      BY <1>1
    <2>2. Expected(u, r) = r.recipients
      BY <2>1, CreatedVerdict DEF Upload
    <2>3. /\ dispatch'[i] = [request |-> r, sender |-> u]
          /\ envelopes'[i] = r.recipients
          /\ UNCHANGED deviceOwner
      BY <2>1 DEF Upload, TypeOK, rosterVars
    <2> QED BY <2>2, <2>3 DEF Expected, DevicesOf
  <1>2. CASE ~ \E u \in User, r \in Request : Upload(u, i, r)
    <2>1. dispatch'[i] = dispatch[i] /\ envelopes'[i] \subseteq envelopes[i]
      BY <1>2, DispatchStep DEF Accepted
    <2>2. /\ deviceOwner[d] = dispatch[i].sender
          /\ deviceOwner[d] \in User
          /\ d \in Device
      BY <2>1 DEF Accepted, HistoryStaysWithOwner, OwedOnlyToMembers, TypeOK,
         Dispatch, Request
    <2>3. CASE UNCHANGED deviceOwner
      BY <2>1, <2>2, <2>3
    <2>4. CASE \E u \in User, e \in Device : RegisterDevice(u, e)
      BY <2>1, <2>2, <2>4, RelayAssumption DEF RegisterDevice, TypeOK
    <2>5. CASE \E u \in User : DeleteAccount(u)
      BY <2>1, <2>2, <2>5 DEF DeleteAccount, DevicesOf, TypeOK
    <2>6. UNCHANGED deviceOwner \/ (\E u \in User, e \in Device : RegisterDevice(u, e))
          \/ (\E u \in User : DeleteAccount(u))
      BY StepCases DEF relayVars, CreateConversation, AddMember, RemoveParticipant,
         DismissGroup, Block, Unblock, Upload, Ack, rosterVars
    <2> QED BY <2>3, <2>4, <2>5, <2>6
  <1> QED BY <1>1, <1>2

------------------------------------------------------------------------------
(* The theorems.                                                           *)

\* The inductive invariant.  PayloadIffOwed needs OwedOnlyToMembers: deleting an
\* account cascades to its envelopes everywhere but drops emptied payloads only
\* in the conversations the account is in.  So do the blocks and the history.
RelayInv ==
  /\ TypeOK
  /\ PayloadIffOwed
  /\ OwedOnlyToMembers
  /\ BlockedPairHasNothingQueued
  /\ OperationsHaveAnOriginal
  /\ HistoryStaysWithOwner

\* The invariant holds of a server without any data.
LEMMA InitRelayInv == Init => RelayInv
  BY DEF Init, RelayInv, TypeOK, PayloadIffOwed, OwedOnlyToMembers,
     BlockedPairHasNothingQueued, OperationsHaveAnOriginal, HistoryStaysWithOwner,
     Accepted

\* Every step keeps the invariant.
LEMMA StepRelayInv == RelayInv /\ [Next]_relayVars => RelayInv'
  BY StepTypeOK, StepPayloadIffOwed, StepOwedOnlyToMembers, StepBlockedPair,
     StepOriginal, StepHistory DEF RelayInv

\* The invariant holds throughout.
LEMMA RelayInvariant == Spec => []RelayInv
  BY InitRelayInv, StepRelayInv, PTL DEF Spec

\* No acknowledgement, departure, block or account deletion strands a ciphertext
\* or takes it from a device that is still owed it.
THEOREM PayloadsHeldIffOwed == Spec => []PayloadIffOwed
  <1>1. RelayInv => PayloadIffOwed
    BY DEF RelayInv
  <1> QED BY RelayInvariant, <1>1, PTL

\* Nothing ever waits for a device of somebody who is not in the conversation.
THEOREM EnvelopesOnlyForMembers == Spec => []OwedOnlyToMembers
  <1>1. RelayInv => OwedOnlyToMembers
    BY DEF RelayInv
  <1> QED BY RelayInvariant, <1>1, PTL

\* Nothing ever waits in the direct chats of a pair with a block between them.
THEOREM NothingQueuedBehindABlock == Spec => []BlockedPairHasNothingQueued
  <1>1. RelayInv => BlockedPairHasNothingQueued
    BY DEF RelayInv
  <1> QED BY RelayInvariant, <1>1, PTL

\* Edits, deletions and reactions always refer to the one message they change,
\* and edits and deletions to a message of the same sender.
THEOREM OriginalsExist == Spec => []OperationsHaveAnOriginal
  <1>1. RelayInv => OperationsHaveAnOriginal
    BY DEF RelayInv
  <1> QED BY RelayInvariant, <1>1, PTL

\* History is only ever queued for the devices of the account that sent it.
THEOREM HistoryIsPrivate == Spec => []HistoryStaysWithOwner
  <1>1. RelayInv => HistoryStaysWithOwner
    BY DEF RelayInv
  <1> QED BY RelayInvariant, <1>1, PTL

\* No step requeues an accepted dispatch or rewrites its receipt.
THEOREM ReceiptsPreventReplays == Spec => NeverRequeued
  <1> DEFINE Keep == \A i \in Id : Accepted(i) /\ dispatch[i].request.conv \in live' =>
                       /\ dispatch'[i] = dispatch[i]
                       /\ envelopes'[i] \subseteq envelopes[i]
  <1>1. TypeOK /\ [Next]_relayVars => [Keep]_relayVars
    <2> SUFFICES ASSUME TypeOK, [Next]_relayVars,
                        NEW i \in Id, Accepted(i), dispatch[i].request.conv \in live'
                 PROVE  /\ dispatch'[i] = dispatch[i]
                        /\ envelopes'[i] \subseteq envelopes[i]
      OBVIOUS
    <2>1. ~ \E u \in User, r \in Request : Upload(u, i, r)
      BY CreatedVerdict DEF Upload
    <2> QED BY <2>1, DispatchStep
  <1> QED BY RelayTypeOK, <1>1, PTL DEF Spec, NeverRequeued
==============================================================================
