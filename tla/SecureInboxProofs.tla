-------------------------- MODULE SecureInboxProofs --------------------------
(* Proofs that a device keeps what it acknowledges, for any number of        *)
(* windows, and that the relay's invariants hold in its company.             *)
EXTENDS SecureInbox, SecureRelayProofs, SequenceTheorems, FiniteSetTheorems

------------------------------------------------------------------------------
(* The relay in the composition.                                           *)

\* A step of a window leaves the relay alone, or acknowledges a delivery.
LEMMA ReadStepOfRelay ==
  ASSUME InboxTypeOK, NEW w \in Window, ReadStep(w)
  PROVE  \/ UNCHANGED relayVars
         \/ /\ pc[w] = "ack"
            /\ \E u \in User : Ack(u, Head(batch[w]), WindowDevice[w])
            /\ Head(batch[w]) \in Id
            /\ WindowDevice[w] \in Device
  <1>1. CASE Acknowledge(w)
    <2> DEFINE i == Head(batch[w])
    <2> DEFINE d == WindowDevice[w]
    <2>1. d \in Device
      BY InboxAssumption
    <2>2. i \in Id
      <3>1. batch[w] \in Seq(Id) /\ batch[w] # <<>>
        BY <1>1 DEF Acknowledge, InboxTypeOK
      <3> QED BY <3>1, HeadTailProperties
    <2>3. CASE d \in envelopes[i] /\ Ack(deviceOwner[d], i, d)
      <3>1. deviceOwner[d] \in User
        BY <2>1, <2>2, <2>3 DEF Ack, MayAccess, InboxTypeOK, TypeOK
      <3> QED BY <1>1, <2>1, <2>2, <2>3, <3>1 DEF Acknowledge
    <2>4. CASE UNCHANGED relayVars
      BY <2>4
    <2> QED BY <1>1, <2>3, <2>4 DEF Acknowledge
  <1>2. CASE Fetch(w)
    BY <1>2 DEF Fetch, Take
  <1>3. CASE Look(w)
    BY <1>3 DEF Look
  <1>4. CASE Open(w)
    BY <1>4 DEF Open
  <1>5. CASE Store(w)
    BY <1>5 DEF Store
  <1>6. CASE Mark(w)
    BY <1>6 DEF Mark
  <1> QED BY <1>1, <1>2, <1>3, <1>4, <1>5, <1>6 DEF ReadStep

\* What is posted here is an upload of the relay.
LEMMA PostMessageIsUpload ==
  ASSUME TypeOK, NEW u \in User, NEW i \in Id, PostMessage(u, i)
  PROVE  \E r \in Uploads(u, i) : Upload(u, i, r)
  <1>1. PICK c \in live, d \in DevicesOf(u), x \in Cipher :
          Upload(u, i, [conv |-> c, message |-> i, kind |-> "message", device |-> d,
                        recipients |-> Roster(c) \ {d}, cipher |-> x])
    BY DEF PostMessage
  <1> DEFINE r == [conv |-> c, message |-> i, kind |-> "message", device |-> d,
                   recipients |-> Roster(c) \ {d}, cipher |-> x]
  <1>2. MayAccess(u, c) /\ ~Accepted(i)
    BY <1>1, CreatedVerdict DEF Upload
  <1>3. Roster(c) \subseteq {e \in Device : deviceOwner[e] # NoUser}
    BY RelayAssumption DEF Roster, TypeOK
  <1>4. r \in Requests(u)
    BY <1>2, <1>3 DEF Requests, MayAccess, OpKind
  <1> QED BY <1>1, <1>2, <1>4 DEF Uploads

\* Every step of the composition is a step of the relay, or leaves it alone.
LEMMA InboxRelayStep ==
  ASSUME InboxTypeOK, [InboxNext]_inboxVars
  PROVE  [Next]_relayVars
  <1>1. CASE \E u \in User, i \in Id : PostMessage(u, i)
    BY <1>1, PostMessageIsUpload DEF InboxTypeOK, Next
  <1>2. CASE RosterChange
    BY <1>2 DEF RosterChange, Next, RosterStep
  <1>3. CASE \E w \in Window : ReadStep(w)
    BY <1>3, ReadStepOfRelay DEF Next
  <1>4. CASE \E w \in Window : Interrupt(w)
    BY <1>4 DEF Interrupt
  <1>5. CASE UNCHANGED inboxVars
    BY <1>5 DEF inboxVars
  <1> QED BY <1>1, <1>2, <1>3, <1>4, <1>5 DEF InboxNext

------------------------------------------------------------------------------
(* Types.                                                                  *)

\* What a device has appended to stays in it.
LEMMA AppendToSet ==
  ASSUME NEW S, NEW s \in Seq(S), NEW x \in S
  PROVE  ToSet(Append(s, x)) = ToSet(s) \cup {x}
  BY AppendProperties, LenProperties DEF ToSet

\* The initial state of the composition is well typed.
LEMMA InitInboxTypeOK == InboxInit => InboxTypeOK
  BY InboxAssumption DEF InboxInit, InboxTypeOK, TypeOK

\* What a window reads from the positions of a page.
Read(d, page) == [k \in DOMAIN page |-> addressed[d][page[k]]]

\* A page is finite, and the batch read from it lists every position of the page
\* once, in order.
LEMMA PageOfListing ==
  ASSUME InboxTypeOK, NEW d \in Device, NEW page \in Ascending(Listing(d))
  PROVE  /\ Read(d, page) \in Seq(Id)
         /\ DOMAIN page = 1..Len(Read(d, page))
         /\ \A k \in DOMAIN page : page[k] \in Listing(d)
         /\ \A k \in DOMAIN page : Read(d, page)[k] = addressed[d][page[k]]
         /\ \A j, k \in DOMAIN page : j < k => page[j] < page[k]
         /\ \A n \in Listing(d) : \E k \in DOMAIN page : page[k] = n
         /\ Listing(d) # {} => Read(d, page) # <<>>
  <1> DEFINE S == Listing(d)
  <1> DEFINE N == Cardinality(S)
  <1>1. addressed[d] \in Seq(Id) /\ DOMAIN addressed[d] = 1..Len(addressed[d])
    BY LenProperties DEF InboxTypeOK
  <1>2. S \subseteq 1..Len(addressed[d]) /\ Len(addressed[d]) \in Nat
    BY <1>1, LenProperties DEF Listing, Owed
  <1>3. IsFiniteSet(S) /\ N \in Nat
    <2> DEFINE I == 1..Len(addressed[d])
    <2>1. IsFiniteSet(I) /\ S \in SUBSET I
      BY <1>2, FS_Interval
    <2>2. IsFiniteSet(S)
      <3> HIDE DEF I, S
      <3> QED BY <2>1, FS_Subset
    <2> HIDE DEF S
    <2> QED BY <2>2, FS_CardinalityType
  <1>4. /\ page \in [1..N -> S]
        /\ \A j, k \in 1..N : j < k => page[j] < page[k]
    BY DEF Ascending
  <1>5. page \in Injection(1..N, S)
    <2>1. \A j, k \in 1..N : page[j] = page[k] => j = k
      <3> TAKE j, k \in 1..N
      <3> page[j] \in Nat /\ page[k] \in Nat
        BY <1>2, <1>4
      <3> QED BY <1>3, <1>4
    <2> QED BY <1>4, <2>1 DEF Injection, IsInjective
  <1>6. page \in Surjection(1..N, S)
    <2>1. IsFiniteSet(1..N) /\ Cardinality(1..N) = N
      BY <1>3, FS_Interval
    <2> QED BY <1>3, <1>5, <2>1, FS_Injection
  <1>7. \A n \in S : \E k \in 1..N : page[k] = n
    BY <1>6 DEF Surjection
  <1>8. Read(d, page) = [k \in 1..N |-> addressed[d][page[k]]]
    BY <1>4 DEF Read
  <1>9. Read(d, page) \in [1..N -> Id]
    BY <1>1, <1>2, <1>4, <1>8, ElementOfSeq
  <1>10. Read(d, page) \in Seq(Id) /\ Len(Read(d, page)) = N
    BY <1>3, <1>9, SeqDef, LenProperties
  <1>11. S # {} => N # 0
    BY <1>3, FS_EmptySet
  <1>12. Read(d, page) = <<>> => N = 0
    BY <1>10, EmptySeq
  <1> QED BY <1>4, <1>7, <1>8, <1>10, <1>11, <1>12

\* A window's step keeps its batch and its place in it well typed.
LEMMA ReadStepTypes ==
  ASSUME InboxTypeOK, NEW w \in Window, ReadStep(w)
  PROVE  /\ addressed' \in [Device -> Seq(Id)]
         /\ log' \in [Device -> Seq(Id)]
         /\ seen' \in [Device -> SUBSET Id]
         /\ revoked' \in [Device -> SUBSET Id]
         /\ pc' \in [Window -> {"idle", "look", "open", "store", "mark", "ack"}]
         /\ batch' \in [Window -> Seq(Id)]
         /\ \A v \in Window : pc'[v] = "idle" <=> batch'[v] = <<>>
         /\ faults' \in 0..MaxFaults
  <1> DEFINE d == WindowDevice[w]
  <1> USE DEF InboxTypeOK
  <1>1. d \in Device
    BY InboxAssumption
  <1>2. pc[w] # "idle" => Head(batch[w]) \in Id /\ Tail(batch[w]) \in Seq(Id)
    BY HeadTailProperties
  <1>3. CASE Fetch(w)
    <2>1. PICK page \in Ascending(Listing(d)) :
            batch' = [batch EXCEPT ![w] = Read(d, page)]
      BY <1>3 DEF Fetch, Take, Read
    <2>2. Read(d, page) \in Seq(Id) \ {<<>>}
      BY <1>1, <1>3, <2>1, PageOfListing DEF Fetch
    <2> QED BY <1>3, <2>1, <2>2 DEF Fetch, Take, mailVars
  <1>4. CASE Look(w)
    BY <1>4 DEF Look, mailVars
  <1>5. CASE Open(w)
    BY <1>5, EmptySeq DEF Open, Abandon, mailVars
  <1>6. CASE Store(w)
    BY <1>1, <1>2, <1>6, AppendProperties DEF Store
  <1>7. CASE Mark(w)
    BY <1>1, <1>2, <1>7 DEF Mark, mailVars
  <1>8. CASE Acknowledge(w)
    <2>1. Tail(batch[w]) = <<>> <=> Len(batch[w]) = 1
      <3>1. batch[w] \in Seq(Id) /\ batch[w] # <<>>
        BY <1>8 DEF Acknowledge
      <3>2. Len(Tail(batch[w])) = Len(batch[w]) - 1 /\ Tail(batch[w]) \in Seq(Id)
        BY <3>1, HeadTailProperties
      <3>3. Len(batch[w]) \in Nat \ {0}
        BY <3>1, EmptySeq
      <3>4. Tail(batch[w]) # <<>> => Len(Tail(batch[w])) # 0
        BY <3>2, EmptySeq
      <3>5. Tail(batch[w]) = <<>> => Len(Tail(batch[w])) = 0
        BY EmptySeq
      <3>6. Tail(batch[w]) = <<>> <=> Len(Tail(batch[w])) = 0
        BY <3>4, <3>5
      <3> HIDE DEF InboxTypeOK
      <3> QED BY <3>2, <3>3, <3>6
    <2> QED BY <1>2, <1>8, <2>1 DEF Acknowledge, mailVars
  <1> QED BY <1>3, <1>4, <1>5, <1>6, <1>7, <1>8 DEF ReadStep

\* Every step keeps the state well typed.
LEMMA StepInboxTypeOK == InboxTypeOK /\ [InboxNext]_inboxVars => InboxTypeOK'
  <1> SUFFICES ASSUME InboxTypeOK, [InboxNext]_inboxVars PROVE InboxTypeOK'
    OBVIOUS
  <1>1. TypeOK'
    BY InboxRelayStep, StepTypeOK DEF InboxTypeOK
  <1> USE DEF InboxTypeOK
  <1>2. CASE \E u \in User, i \in Id : PostMessage(u, i)
    BY <1>1, <1>2, AppendProperties DEF PostMessage, readerVars
  <1>3. CASE RosterChange
    BY <1>1, <1>3 DEF RosterChange, readerVars
  <1>4. CASE \E w \in Window : ReadStep(w)
    BY <1>1, <1>4, ReadStepTypes
  <1>5. CASE \E w \in Window : Interrupt(w)
    BY <1>1, <1>5, EmptySeq, InboxAssumption DEF Interrupt, Abandon, mailVars
  <1>6. CASE UNCHANGED inboxVars
    BY <1>1, <1>6 DEF inboxVars, mailVars, readerVars
  <1> QED BY <1>2, <1>3, <1>4, <1>5, <1>6 DEF InboxNext

------------------------------------------------------------------------------
(* What a window relies on when it acknowledges.                           *)

\* A marker stands for a delivery in the history, and a window that is about to
\* write a marker, or to acknowledge, has what it needs, however far the other
\* windows of its device have come.
Kept ==
  /\ \A d \in Device : seen[d] \subseteq Stored(d)
  /\ \A w \in Window :
       /\ pc[w] = "mark" => Head(batch[w]) \in Stored(WindowDevice[w])
       /\ pc[w] = "ack" => Head(batch[w]) \in seen[WindowDevice[w]]

\* Markers and histories only grow.
LEMMA NothingForgotten ==
  ASSUME InboxTypeOK, [InboxNext]_inboxVars, NEW d \in Device
  PROVE  /\ seen[d] \subseteq seen'[d]
         /\ Stored(d) \subseteq Stored(d)'
  <1>1. CASE UNCHANGED <<log, seen>>
    BY <1>1 DEF Stored
  <1>2. ASSUME NEW w \in Window, Store(w)
        PROVE  seen' = seen /\ Stored(d) \subseteq Stored(d)'
    <2>1. Head(batch[w]) \in Id
      BY <1>2, HeadTailProperties DEF Store, InboxTypeOK
    <2> QED BY <1>2, <2>1, AppendToSet, InboxAssumption DEF Store, Stored, InboxTypeOK
  <1>3. ASSUME NEW w \in Window, Mark(w)
        PROVE  seen[d] \subseteq seen'[d] /\ log' = log
    BY <1>3, InboxAssumption DEF Mark, InboxTypeOK
  <1>4. UNCHANGED <<log, seen>> \/ \E w \in Window : Store(w) \/ Mark(w)
    BY DEF InboxNext, PostMessage, RosterChange, ReadStep, Fetch, Take, Look, Open,
       Acknowledge, Interrupt, inboxVars, readerVars
  <1> QED BY <1>1, <1>2, <1>3, <1>4 DEF Stored

\* One window's step keeps what every window relies on.
LEMMA ReadStepKept ==
  ASSUME InboxTypeOK, Kept, NEW w \in Window, ReadStep(w)
  PROVE  Kept'
  <1> DEFINE d == WindowDevice[w]
  <1> DEFINE i == Head(batch[w])
  <1>0. d \in Device /\ \A v \in Window : WindowDevice[v] \in Device
    BY InboxAssumption
  <1> [InboxNext]_inboxVars
    BY DEF InboxNext
  <1>1. \A v \in Window \ {w} : pc'[v] = pc[v] /\ batch'[v] = batch[v]
    BY DEF ReadStep, Fetch, Take, Look, Open, Store, Mark, Acknowledge, Abandon, InboxTypeOK
  <1>2. \A v \in Window \ {w} :
          /\ pc'[v] = "mark" => Head(batch'[v]) \in Stored(WindowDevice[v])'
          /\ pc'[v] = "ack" => Head(batch'[v]) \in seen'[WindowDevice[v]]
    BY <1>0, <1>1, NothingForgotten DEF Kept
  <1>3. SUFFICES /\ \A e \in Device : seen'[e] \subseteq Stored(e)'
                 /\ pc'[w] = "mark" => Head(batch'[w]) \in Stored(d)'
                 /\ pc'[w] = "ack" => Head(batch'[w]) \in seen'[d]
    BY <1>2 DEF Kept
  <1>4. CASE Fetch(w)
    BY <1>4, <1>0 DEF Fetch, Take, Kept, Stored, InboxTypeOK
  <1>5. CASE Look(w)
    BY <1>5, <1>0 DEF Look, Kept, Stored, InboxTypeOK
  <1>6. CASE Open(w)
    BY <1>6, <1>0 DEF Open, Abandon, Kept, Stored, InboxTypeOK
  <1>7. CASE Store(w)
    <2>1. i \in Id
      BY <1>7, HeadTailProperties DEF Store, InboxTypeOK
    <2>2. i \in Stored(d)'
      BY <1>0, <1>7, <2>1, AppendToSet DEF Store, Stored, InboxTypeOK
    <2>3. pc'[w] = "mark" /\ batch' = batch /\ seen' = seen
      BY <1>7 DEF Store, InboxTypeOK
    <2>4. \A e \in Device : seen'[e] \subseteq Stored(e)'
      BY <2>3, NothingForgotten DEF Kept
    <2> QED BY <2>2, <2>3, <2>4
  <1>8. CASE Mark(w)
    BY <1>8, <1>0 DEF Mark, Kept, Stored, InboxTypeOK
  <1>9. CASE Acknowledge(w)
    BY <1>9, <1>0 DEF Acknowledge, Kept, Stored, InboxTypeOK
  <1> QED BY <1>4, <1>5, <1>6, <1>7, <1>8, <1>9 DEF ReadStep

\* Every step keeps what the windows rely on.
LEMMA StepKept ==
  ASSUME InboxTypeOK, Kept, [InboxNext]_inboxVars
  PROVE  Kept'
  <1>1. CASE \E w \in Window : ReadStep(w)
    BY <1>1, ReadStepKept
  <1>2. CASE \E w \in Window : Interrupt(w)
    BY <1>2 DEF Interrupt, Abandon, Kept, Stored, InboxTypeOK
  <1>3. CASE UNCHANGED readerVars
    BY <1>3 DEF readerVars, Kept, Stored
  <1>4. \/ \E w \in Window : ReadStep(w) \/ Interrupt(w)
        \/ UNCHANGED readerVars
    BY DEF InboxNext, PostMessage, RosterChange, inboxVars
  <1> QED BY <1>1, <1>2, <1>3, <1>4

------------------------------------------------------------------------------
(* The order of deliveries.                                                *)

\* Delivery j was accepted for device d before delivery i.
Before(d, j, i) ==
  \E k, n \in 1..Len(addressed[d]) : k < n /\ addressed[d][k] = j /\ addressed[d][n] = i

Addressed(d) == ToSet(addressed[d])

\* What each device is owed, has stored and was taken back, in the order in which
\* the server accepted it.
Queued(d) ==
  \* A dispatch is accepted once, so the device is addressed once.
  /\ \A k, n \in 1..Len(addressed[d]) : addressed[d][k] = addressed[d][n] => k = n
  /\ \A i \in Addressed(d) : Accepted(i)
  \* An addressed delivery waits on the server, is stored or is taken back, ...
  /\ \A i \in Id : d \in envelopes[i] => i \in Addressed(d)
  /\ \A i \in Addressed(d) : d \in envelopes[i] \/ i \in Stored(d) \cup revoked[d]
  \* ... and what is taken back does not wait.
  /\ Stored(d) \cup revoked[d] \subseteq Addressed(d)
  /\ Stored(d) \cap revoked[d] = {}
  /\ \A i \in revoked[d] : d \notin envelopes[i]
  \* Nothing is stored before what precedes it, unless that is taken back.
  /\ \A i \in Stored(d), j \in Id : Before(d, j, i) => j \in Stored(d) \cup revoked[d]

\* A batch is in order, and what waits before a delivery of it is in the batch too.
Batched(w) ==
  LET d == WindowDevice[w]
      b == batch[w]
  IN  /\ \A k \in 1..Len(b) : b[k] \in Addressed(d)
      /\ \A k, n \in 1..Len(b) : k < n => Before(d, b[k], b[n])
      /\ \A n \in 1..Len(b), j \in Id :
           Before(d, j, b[n]) /\ d \in envelopes[j] => \E k \in 1..(n - 1) : b[k] = j

InOrder == (\A d \in Device : Queued(d)) /\ (\A w \in Window : Batched(w))

\* The positions of a queue order its deliveries.
LEMMA BeforeIsAnOrder ==
  ASSUME InboxTypeOK, NEW d \in Device, Queued(d)
  PROVE  /\ \A i, j \in Id : Before(d, j, i) => ~Before(d, i, j) /\ i # j
         /\ \A i, j, k \in Id : Before(d, i, j) /\ Before(d, j, k) => Before(d, i, k)
         /\ \A i, j \in Addressed(d) : i = j \/ Before(d, i, j) \/ Before(d, j, i)
         /\ \A i, j : Before(d, j, i) => i \in Addressed(d) /\ j \in Addressed(d)
         /\ Addressed(d) = {addressed[d][n] : n \in 1..Len(addressed[d])}
  <1>1. addressed[d] \in [1..Len(addressed[d]) -> Id] /\ Len(addressed[d]) \in Nat
    BY LenProperties DEF InboxTypeOK
  <1>2. Addressed(d) = {addressed[d][n] : n \in 1..Len(addressed[d])}
    BY <1>1 DEF Addressed, ToSet
  <1>3. \A k, n \in 1..Len(addressed[d]) : addressed[d][k] = addressed[d][n] => k = n
    BY DEF Queued
  <1> HIDE DEF Queued
  <1>4. \A i, j \in Id : Before(d, j, i) => ~Before(d, i, j) /\ i # j
    BY <1>1, <1>3 DEF Before
  <1>5. \A i, j, k \in Id : Before(d, i, j) /\ Before(d, j, k) => Before(d, i, k)
    BY <1>1, <1>3 DEF Before
  <1>6. \A i, j \in Addressed(d) : i = j \/ Before(d, i, j) \/ Before(d, j, i)
    BY <1>1, <1>2 DEF Before
  <1>7. \A i, j : Before(d, j, i) => i \in Addressed(d) /\ j \in Addressed(d)
    BY <1>2 DEF Before
  <1> QED BY <1>2, <1>4, <1>5, <1>6, <1>7

\* A message that is accepted comes after everything accepted before.
LEMMA PostMessageEffect ==
  ASSUME InboxTypeOK, RelayInv, NEW u \in User, NEW i \in Id, PostMessage(u, i)
  PROVE  /\ ~Accepted(i) /\ Accepted(i)'
         /\ \A j \in Id \ {i} : dispatch'[j] = dispatch[j] /\ envelopes'[j] = envelopes[j]
         /\ envelopes[i] = {}
         /\ \A d \in Device : addressed'[d] = IF d \in envelopes'[i]
                                              THEN Append(addressed[d], i)
                                              ELSE addressed[d]
         /\ UNCHANGED <<log, revoked, seen, pc, batch>>
  <1>1. PICK c \in live, d \in DevicesOf(u), x \in Cipher :
          LET r == [conv |-> c, message |-> i, kind |-> "message", device |-> d,
                    recipients |-> Roster(c) \ {d}, cipher |-> x]
          IN  /\ Upload(u, i, r)
              /\ addressed' = [e \in Device |-> IF e \in r.recipients
                                                THEN Append(addressed[e], i)
                                                ELSE addressed[e]]
              /\ UNCHANGED <<revoked, readerVars>>
    BY DEF PostMessage
  <1> DEFINE r == [conv |-> c, message |-> i, kind |-> "message", device |-> d,
                   recipients |-> Roster(c) \ {d}, cipher |-> x]
  <1>2. Upload(u, i, r)
    BY <1>1
  <1>3. \E q \in Uploads(u, i) : Upload(u, i, q)
    BY PostMessageIsUpload DEF InboxTypeOK
  <1>4. ~Accepted(i)
    BY <1>2, CreatedVerdict DEF Upload
  <1>5. Accepted(i)'
    <2>1. dispatch'[i] = [request |-> r, sender |-> u]
      BY <1>2 DEF Upload, InboxTypeOK, TypeOK
    <2>2. TypeOK'
      BY StepInboxTypeOK DEF InboxNext, InboxTypeOK
    <2>3. dispatch'[i] # NoDispatch
      <3>1. [request |-> r, sender |-> u] \in Dispatch
        <4>1. PICK q \in Uploads(u, i) : Upload(u, i, q)
          BY <1>3
        <4>2. dispatch'[i] = [request |-> q, sender |-> u]
          BY <4>1 DEF Upload, InboxTypeOK, TypeOK
        <4>3. q = r
          BY <2>1, <4>2
        <4>4. q \in Request
          BY <4>1, UploadsAreRequests DEF InboxTypeOK
        <4> HIDE DEF r
        <4> QED BY <4>3, <4>4 DEF Dispatch
      <3> QED BY <2>1, <3>1, RelayAssumption
    <2> QED BY <2>3 DEF Accepted
  <1>6. envelopes'[i] = r.recipients
    BY <1>2 DEF Upload, InboxTypeOK, TypeOK
  <1>7. envelopes[i] = {}
    BY <1>4 DEF RelayInv, OwedOnlyToMembers, InboxTypeOK, TypeOK
  <1>8. \A j \in Id \ {i} : dispatch'[j] = dispatch[j] /\ envelopes'[j] = envelopes[j]
    BY <1>2 DEF Upload, InboxTypeOK, TypeOK
  <1>9. \A e \in Device : addressed'[e] = IF e \in envelopes'[i]
                                          THEN Append(addressed[e], i) ELSE addressed[e]
    BY <1>1, <1>6
  <1>10. UNCHANGED <<log, revoked, seen, pc, batch>>
    BY <1>1 DEF readerVars
  <1> QED BY <1>4, <1>5, <1>7, <1>8, <1>9, <1>10

\* The queues grow at their ends, by a delivery that was not in them.
LEMMA PostMessageExtends ==
  ASSUME InboxTypeOK, RelayInv, InOrder, NEW u \in User, NEW i \in Id,
         PostMessage(u, i), NEW d \in Device
  PROVE  /\ i \notin Addressed(d)
         /\ Addressed(d)' = IF d \in envelopes'[i] THEN Addressed(d) \cup {i}
                            ELSE Addressed(d)
         /\ \A j, k : Before(d, j, k) => Before(d, j, k)'
         /\ \A j, k : Before(d, j, k)' /\ k # i => Before(d, j, k)
         /\ \A k, n \in 1..Len(addressed'[d]) : addressed'[d][k] = addressed'[d][n] => k = n
  <1> DEFINE s == addressed[d]
  <1>1. s \in Seq(Id) /\ Len(s) \in Nat
    BY LenProperties DEF InboxTypeOK
  <1>2. i \notin Addressed(d) /\ \A k, n \in 1..Len(s) : s[k] = s[n] => k = n
    BY PostMessageEffect DEF InOrder, Queued
  <1>3. CASE d \notin envelopes'[i]
    <2>1. addressed'[d] = addressed[d]
      BY <1>3, PostMessageEffect
    <2> QED BY <1>2, <1>3, <2>1 DEF Addressed, Before
  <1>4. CASE d \in envelopes'[i]
    <2>1. addressed'[d] = Append(s, i)
      BY <1>4, PostMessageEffect
    <2> DEFINE t == Append(s, i)
    <2>2. /\ Len(t) = Len(s) + 1
          /\ \A k \in 1..Len(s) : t[k] = s[k]
          /\ t[Len(s) + 1] = i
      BY <1>1, AppendProperties
    <2>3. Addressed(d)' = Addressed(d) \cup {i}
      BY <1>1, <2>1, AppendToSet DEF Addressed
    <2>4. \A k \in 1..Len(s) : s[k] # i
      BY <1>1, <1>2, LenProperties DEF Addressed, ToSet
    <2> HIDE DEF t, s
    <2>5. \A k, n \in 1..Len(t) : t[k] = t[n] => k = n
      BY <1>1, <1>2, <2>2, <2>4
    <2>6. \A j, k : (\E m, n \in 1..Len(s) : m < n /\ s[m] = j /\ s[n] = k)
                      => (\E m, n \in 1..Len(t) : m < n /\ t[m] = j /\ t[n] = k)
      BY <1>1, <2>2
    <2>7. \A j, k : (\E m, n \in 1..Len(t) : m < n /\ t[m] = j /\ t[n] = k) /\ k # i
                      => (\E m, n \in 1..Len(s) : m < n /\ s[m] = j /\ s[n] = k)
      BY <1>1, <2>2
    <2> USE DEF t, s
    <2> QED BY <1>2, <1>4, <2>1, <2>3, <2>5, <2>6, <2>7 DEF Before
  <1> QED BY <1>3, <1>4

LEMMA PostMessageInOrder ==
  ASSUME InboxTypeOK, RelayInv, InOrder, NEW u \in User, NEW i \in Id, PostMessage(u, i)
  PROVE  InOrder'
  <1>1. /\ UNCHANGED <<log, revoked, seen, pc, batch>>
        /\ \A j \in Id \ {i} : dispatch'[j] = dispatch[j] /\ envelopes'[j] = envelopes[j]
        /\ Accepted(i)' /\ envelopes[i] = {}
    BY PostMessageEffect
  <1>2. ASSUME NEW d \in Device PROVE Queued(d)'
    <2>1. /\ i \notin Addressed(d)
          /\ Addressed(d)' = IF d \in envelopes'[i] THEN Addressed(d) \cup {i}
                             ELSE Addressed(d)
          /\ \A j, k : Before(d, j, k)' /\ k # i => Before(d, j, k)
          /\ \A k, n \in 1..Len(addressed'[d]) : addressed'[d][k] = addressed'[d][n] => k = n
      BY PostMessageExtends
    <2>2. Stored(d)' = Stored(d) /\ revoked'[d] = revoked[d]
      BY <1>1 DEF Stored
    <2>3. Addressed(d) \subseteq Id
      BY DEF Addressed, ToSet, InboxTypeOK
    <2>4. Queued(d)
      BY DEF InOrder
    <2>5. Stored(d) \cup revoked[d] \subseteq Addressed(d)
      BY <2>4 DEF Queued
    <2>6. \A j \in Addressed(d)' : Accepted(j)'
      BY <1>1, <2>1, <2>3, <2>4 DEF Queued, Accepted
    <2>7. \A j \in Id : d \in envelopes'[j] => j \in Addressed(d)'
      BY <1>1, <2>1, <2>4 DEF Queued
    <2>8. \A j \in Addressed(d)' : d \in envelopes'[j] \/ j \in Stored(d)' \cup revoked'[d]
      BY <1>1, <2>1, <2>2, <2>3, <2>4 DEF Queued
    <2>9. \A j \in revoked'[d] : d \notin envelopes'[j]
      BY <1>1, <2>1, <2>2, <2>3, <2>4, <2>5 DEF Queued
    <2>10. \A j \in Stored(d)', k \in Id : Before(d, k, j)' => k \in Stored(d)' \cup revoked'[d]
      BY <2>1, <2>2, <2>4, <2>5 DEF Queued
    <2> QED BY <2>1, <2>2, <2>4, <2>6, <2>7, <2>8, <2>9, <2>10 DEF Queued
  <1>3. ASSUME NEW w \in Window PROVE Batched(w)'
    <2> DEFINE d == WindowDevice[w]
    <2>0. d \in Device /\ Batched(w)
      BY InboxAssumption DEF InOrder
    <2>1. /\ i \notin Addressed(d)
          /\ Addressed(d) \subseteq Addressed(d)'
          /\ \A j, k : Before(d, j, k) => Before(d, j, k)'
          /\ \A j, k : Before(d, j, k)' /\ k # i => Before(d, j, k)
      BY <2>0, PostMessageExtends
    <2>2. \A j, k : Before(d, j, k) => j \in Addressed(d)
      BY <2>0, BeforeIsAnOrder DEF InOrder
    <2>3. batch' = batch
      BY <1>1
    <2> HIDE DEF d
    <2> QED BY <1>1, <2>0, <2>1, <2>2, <2>3 DEF Batched, d
  <1> QED BY <1>2, <1>3 DEF InOrder

\* A change of the roster takes deliveries back and accepts none.
LEMMA RosterChangeEffect ==
  ASSUME InboxTypeOK, RosterChange
  PROVE  /\ \A i \in Id : envelopes'[i] \subseteq envelopes[i]
         /\ revoked' = [d \in Device |-> revoked[d] \cup
                 {i \in Id : d \in envelopes[i] \ envelopes'[i] /\ i \notin Stored(d)}]
         /\ UNCHANGED <<dispatch, addressed, log, seen, pc, batch>>
  <1>1. (\A i \in Id : envelopes'[i] \subseteq envelopes[i]) /\ dispatch' = dispatch
    <2> USE DEF InboxTypeOK, TypeOK
    <2>1. CASE \E u, v \in User : Block(u, v)
      BY <2>1 DEF Block
    <2>2. CASE \E u \in User, c \in Conv : RemoveParticipant(u, c)
      BY <2>2 DEF RemoveParticipant, Prune
    <2>3. CASE UNCHANGED queueVars
      BY <2>3 DEF queueVars
    <2> QED BY <2>1, <2>2, <2>3 DEF RosterChange, Unblock, AddMember
  <1> QED BY <1>1 DEF RosterChange, readerVars

LEMMA RosterChangeInOrder ==
  ASSUME InboxTypeOK, InOrder, RosterChange
  PROVE  InOrder'
  <1>1. /\ \A i \in Id : envelopes'[i] \subseteq envelopes[i]
        /\ \A d \in Device : revoked'[d] = revoked[d] \cup
             {i \in Id : d \in envelopes[i] \ envelopes'[i] /\ i \notin Stored(d)}
        /\ UNCHANGED <<dispatch, addressed, log, batch>>
    BY RosterChangeEffect
  <1>2. ASSUME NEW d \in Device PROVE Queued(d)'
    <2>1. /\ Addressed(d)' = Addressed(d) /\ Stored(d)' = Stored(d)
          /\ \A j, k : Before(d, j, k)' <=> Before(d, j, k)
          /\ \A i : Accepted(i)' <=> Accepted(i)
          /\ addressed'[d] = addressed[d]
      BY <1>1 DEF Addressed, Stored, Before, Accepted
    <2>2. revoked'[d] = revoked[d] \cup
            {i \in Id : d \in envelopes[i] \ envelopes'[i] /\ i \notin Stored(d)}
      BY <1>1
    <2>3. Queued(d) /\ Addressed(d) \subseteq Id
      BY DEF InOrder, Addressed, ToSet, InboxTypeOK
    <2> QED BY <1>1, <2>1, <2>2, <2>3 DEF Queued
  <1>3. ASSUME NEW w \in Window PROVE Batched(w)'
    <2>1. /\ \A d : Addressed(d)' = Addressed(d)
          /\ \A d, j, k : Before(d, j, k)' <=> Before(d, j, k)
          /\ batch' = batch
      BY <1>1 DEF Addressed, Before
    <2>2. Batched(w) /\ WindowDevice[w] \in Device
      BY InboxAssumption DEF InOrder
    <2> QED BY <1>1, <2>1, <2>2 DEF Batched
  <1> QED BY <1>2, <1>3 DEF InOrder

\* A listing leaves out nothing that waits before what it contains.
LEMMA ListingIsInitial ==
  ASSUME InboxTypeOK, RelayInv, NEW d \in Device, NEW n \in Listing(d),
         NEW m \in 1..Len(addressed[d]), m < n, d \in envelopes[addressed[d][m]]
  PROVE  m \in Listing(d)
  <1> DEFINE i == addressed[d][m]
  <1> DEFINE Ahead(q) == {k \in Owed(d) : k < q}
  <1>1. /\ addressed[d] \in Seq(Id) /\ Len(addressed[d]) \in Nat
        /\ DOMAIN addressed[d] = 1..Len(addressed[d])
    BY LenProperties DEF InboxTypeOK
  <1>2. i \in Id
    BY <1>1, ElementOfSeq
  <1>3. /\ dispatch[i].request.conv \in live
        /\ deviceOwner[d] \in members[dispatch[i].request.conv]
        /\ ~DirectBlocked(dispatch[i].request.conv)
    BY <1>2 DEF RelayInv, OwedOnlyToMembers, BlockedPairHasNothingQueued
  <1>4. m \in Owed(d)
    BY <1>1, <1>3 DEF Owed
  <1>5. Accessible(d, m)
    BY <1>3 DEF Accessible, MayAccess
  <1>6. Owed(d) \subseteq 1..Len(addressed[d])
    BY <1>1 DEF Owed
  <1>7. IsFiniteSet(Ahead(n)) /\ Ahead(m) \in SUBSET Ahead(n)
    <2> DEFINE I == 1..Len(addressed[d])
    <2>1. IsFiniteSet(I) /\ Ahead(n) \in SUBSET I
      BY <1>1, <1>6, FS_Interval
    <2>2. IsFiniteSet(Ahead(n))
      <3> HIDE DEF I, Ahead
      <3> QED BY <2>1, FS_Subset
    <2>3. n \in Int /\ \A k \in Owed(d) : k \in Int
      BY <1>1, <1>6 DEF Listing
    <2> QED BY <2>2, <2>3
  <1>8. /\ Cardinality(Ahead(m)) <= Cardinality(Ahead(n))
        /\ Cardinality(Ahead(m)) \in Nat /\ Cardinality(Ahead(n)) \in Nat
    <2> HIDE DEF Ahead
    <2> QED BY <1>7, FS_Subset, FS_CardinalityType
  <1>9. Cardinality(Ahead(n)) < BatchSize
    BY DEF Listing
  <1>10. Cardinality(Ahead(m)) < BatchSize
    <2> HIDE DEF Ahead
    <2> QED BY <1>8, <1>9, InboxAssumption
  <1> QED BY <1>4, <1>5, <1>10 DEF Listing

\* What is fetched is in order, and complete from its start.
LEMMA FetchBatched ==
  ASSUME InboxTypeOK, RelayInv, InOrder, NEW w \in Window, Fetch(w)
  PROVE  /\ Batched(w)'
         /\ \A k \in 1..Len(batch'[w]) : /\ batch'[w][k] \in Id
                                         /\ WindowDevice[w] \in envelopes[batch'[w][k]]
  <1> DEFINE d == WindowDevice[w]
  <1> DEFINE s == addressed[d]
  <1>1. d \in Device /\ Queued(d)
    BY InboxAssumption DEF InOrder
  <1>2. PICK page \in Ascending(Listing(d)) :
          batch' = [batch EXCEPT ![w] = Read(d, page)]
    BY DEF Fetch, Take, Read
  <1> DEFINE b == Read(d, page)
  <1>3. batch'[w] = b
    BY <1>2 DEF InboxTypeOK
  <1>4. /\ b \in Seq(Id) /\ Len(b) \in Nat
        /\ \A k \in 1..Len(b) : page[k] \in Listing(d) /\ b[k] = s[page[k]]
        /\ \A j, k \in 1..Len(b) : j < k => page[j] < page[k]
        /\ \A n \in Listing(d) : \E k \in 1..Len(b) : page[k] = n
    BY <1>1, PageOfListing, LenProperties
  <1>5. /\ s \in [1..Len(s) -> Id] /\ Len(s) \in Nat
        /\ DOMAIN s = 1..Len(s)
    BY <1>1, LenProperties DEF InboxTypeOK
  <1>6. \A n \in Listing(d) : n \in 1..Len(s) /\ d \in envelopes[s[n]]
    BY <1>5 DEF Listing, Owed
  <1>7. \A m, n \in 1..Len(s) : s[m] = s[n] => m = n
    BY <1>1 DEF Queued
  <1>8. \A n \in Listing(d), m \in 1..Len(s) :
          m < n /\ d \in envelopes[s[m]] => m \in Listing(d)
    BY <1>1, ListingIsInitial
  <1>9. \A k \in 1..Len(b) : b[k] \in Id /\ d \in envelopes[b[k]] /\ page[k] \in 1..Len(s)
    BY <1>4, <1>5, <1>6
  <1>10. \A k \in 1..Len(b) : b[k] \in Addressed(d)
    BY <1>1, <1>9 DEF Queued
  <1>11. \A k, n \in 1..Len(b) : k < n => Before(d, b[k], b[n])
    BY <1>4, <1>9 DEF Before
  <1>12. ASSUME NEW n \in 1..Len(b), NEW j \in Id, Before(d, j, b[n]), d \in envelopes[j]
         PROVE  \E k \in 1..(n - 1) : b[k] = j
    <2>1. PICK m, q \in 1..Len(s) : m < q /\ s[m] = j /\ s[q] = b[n]
      BY <1>12 DEF Before
    <2>2. q = page[n]
      BY <1>4, <1>7, <1>9, <2>1
    <2>3. m \in Listing(d)
      BY <1>4, <1>8, <1>12, <2>1, <2>2
    <2>4. PICK k \in 1..Len(b) : page[k] = m
      BY <1>4, <2>3
    <2>5. k < n
      <3>1. CASE n < k
        BY <1>4, <1>9, <2>1, <2>2, <2>4, <3>1
      <3>2. CASE n = k
        BY <1>9, <2>1, <2>2, <2>4, <3>2
      <3> QED BY <1>4, <3>1, <3>2
    <2>6. b[k] = j
      BY <1>4, <2>1, <2>4
    <2> QED BY <1>4, <2>5, <2>6
  <1>13. \A j, k : Before(d, j, k)' <=> Before(d, j, k)
    BY DEF Fetch, Take, mailVars, Before
  <1>14. Addressed(d)' = Addressed(d) /\ envelopes' = envelopes
    BY DEF Fetch, Take, mailVars, relayVars, Addressed
  <1> HIDE DEF b
  <1> QED BY <1>3, <1>9, <1>10, <1>11, <1>12, <1>13, <1>14 DEF Batched

\* A window that does not fetch keeps what remains of its batch.
LEMMA BatchMovesOn ==
  ASSUME InboxTypeOK, InOrder, NEW w \in Window,
         \A d \in Device : addressed'[d] = addressed[d],
         \A i \in Id : envelopes'[i] \subseteq envelopes[i],
         \/ batch'[w] = batch[w]
         \/ batch'[w] = <<>>
         \/ /\ batch[w] # <<>> /\ batch'[w] = Tail(batch[w])
            /\ WindowDevice[w] \notin envelopes'[Head(batch[w])]
  PROVE  Batched(w)'
  <1> DEFINE d == WindowDevice[w]
  <1> DEFINE b == batch[w]
  <1> DEFINE t == batch'[w]
  <1>1. d \in Device /\ Batched(w)
    BY InboxAssumption DEF InOrder
  <1>2. /\ \A j, k : Before(d, j, k)' <=> Before(d, j, k)
        /\ Addressed(d)' = Addressed(d)
    BY <1>1 DEF Before, Addressed
  <1>3. /\ \A k \in 1..Len(b) : b[k] \in Addressed(d)
        /\ \A k, n \in 1..Len(b) : k < n => Before(d, b[k], b[n])
        /\ \A n \in 1..Len(b), j \in Id :
             Before(d, j, b[n]) /\ d \in envelopes[j] => \E k \in 1..(n - 1) : b[k] = j
    BY <1>1 DEF Batched
  <1>4. b \in Seq(Id) /\ Len(b) \in Nat
    BY LenProperties DEF InboxTypeOK
  <1>5. CASE t = b
    BY <1>2, <1>3, <1>5 DEF Batched
  <1>6. CASE t = <<>>
    <2>1. Len(t) = 0
      BY <1>6, EmptySeq
    <2> QED BY <2>1 DEF Batched
  <1>7. CASE b # <<>> /\ t = Tail(b) /\ d \notin envelopes'[Head(b)]
    <2>1. /\ Len(t) = Len(b) - 1 /\ Len(t) \in Nat
          /\ \A k \in 1..Len(t) : t[k] = b[k + 1]
      BY <1>4, <1>7, HeadTailProperties, EmptySeq
    <2>2. Head(b) = b[1]
      BY <1>4, <1>7
    <2>3. \A k \in 1..Len(t) : t[k] \in Addressed(d)
      BY <1>3, <1>4, <2>1
    <2>4. \A k, n \in 1..Len(t) : k < n => Before(d, t[k], t[n])
      BY <1>3, <1>4, <2>1
    <2>5. ASSUME NEW n \in 1..Len(t), NEW j \in Id, Before(d, j, t[n]), d \in envelopes'[j]
          PROVE  \E k \in 1..(n - 1) : t[k] = j
      <3>1. \E k \in 1..n : b[k] = j
        <4>1. n + 1 \in 1..Len(b) /\ t[n] = b[n + 1]
          BY <1>4, <2>1
        <4>2. \E k \in 1..((n + 1) - 1) : b[k] = j
          BY <1>3, <2>5, <4>1
        <4> QED BY <4>2
      <3>2. PICK k \in 1..n : b[k] = j
        BY <3>1
      <3>3. k # 1
        BY <1>7, <2>2, <2>5, <3>2
      <3>4. k - 1 \in 1..(n - 1) /\ t[k - 1] = b[k]
        BY <1>4, <2>1, <3>2, <3>3
      <3> QED BY <3>2, <3>4
    <2> QED BY <1>2, <2>3, <2>4, <2>5 DEF Batched
  <1> QED BY <1>5, <1>6, <1>7

\* The steps of a window that is not storing leave the history and what was taken
\* back alone, and those that do not fetch or acknowledge leave the queue alone.
LEMMA ReadStepEffect ==
  ASSUME InboxTypeOK, Kept, NEW w \in Window, ReadStep(w)
  PROVE  /\ \A v \in Window \ {w} : batch'[v] = batch[v]
         /\ UNCHANGED <<addressed, dispatch>>
         /\ \A i \in Id : envelopes'[i] \subseteq envelopes[i]
         /\ \/ Fetch(w)
            \/ batch'[w] \in {batch[w], <<>>}
            \/ /\ batch[w] # <<>> /\ batch'[w] = Tail(batch[w])
               /\ WindowDevice[w] \notin envelopes'[Head(batch[w])]
         /\ \A i \in Id, e \in Device : e \in envelopes[i] \ envelopes'[i] => i \in Stored(e)
         /\ Store(w) \/ UNCHANGED <<log, revoked>>
  <1> USE DEF InboxTypeOK, TypeOK
  <1>1. CASE Acknowledge(w)
    <2> DEFINE i == Head(batch[w])
    <2> DEFINE d == WindowDevice[w]
    <2>1. i \in Id /\ batch[w] # <<>> /\ d \in Device
      BY <1>1, HeadTailProperties, InboxAssumption DEF Acknowledge
    <2>2. i \in Stored(d)
      BY <1>1, <2>1 DEF Acknowledge, Kept
    <2>3. \/ envelopes' = [envelopes EXCEPT ![i] = @ \ {d}] /\ dispatch' = dispatch
          \/ d \notin envelopes[i] /\ UNCHANGED <<envelopes, dispatch>>
      BY <1>1 DEF Acknowledge, Ack, relayVars
    <2>4. /\ batch' = [batch EXCEPT ![w] = Tail(@)]
          /\ UNCHANGED <<addressed, log, revoked>>
      BY <1>1 DEF Acknowledge, mailVars
    <2>5. \A v \in Window \ {w} : batch'[v] = batch[v]
      BY <2>4
    <2>6. /\ \A j \in Id : envelopes'[j] \subseteq envelopes[j]
          /\ d \notin envelopes'[i]
          /\ \A j \in Id, e \in Device : e \in envelopes[j] \ envelopes'[j] => j = i /\ e = d
      <3>1. envelopes \in [Id -> SUBSET Device]
        OBVIOUS
      <3> HIDE DEF i, d, InboxTypeOK, TypeOK
      <3>2. CASE envelopes' = [envelopes EXCEPT ![i] = @ \ {d}]
        BY <2>1, <3>1, <3>2
      <3>3. CASE d \notin envelopes[i] /\ envelopes' = envelopes
        BY <3>3
      <3> QED BY <2>3, <3>2, <3>3
    <2>7. \A j \in Id, e \in Device : e \in envelopes[j] \ envelopes'[j] => j \in Stored(e)
      <3> HIDE DEF i, d
      <3> QED BY <2>2, <2>6
    <2>8. batch'[w] = Tail(batch[w])
      BY <2>4
    <2> QED BY <2>1, <2>3, <2>4, <2>5, <2>6, <2>7, <2>8
  <1>2. CASE Fetch(w)
    BY <1>2 DEF Fetch, Take, mailVars, relayVars
  <1>3. CASE Look(w)
    BY <1>3 DEF Look, mailVars, relayVars
  <1>4. CASE Open(w)
    BY <1>4 DEF Open, Abandon, mailVars, relayVars
  <1>5. CASE Store(w)
    BY <1>5 DEF Store, relayVars
  <1>6. CASE Mark(w)
    BY <1>6 DEF Mark, mailVars, relayVars
  <1> QED BY <1>1, <1>2, <1>3, <1>4, <1>5, <1>6 DEF ReadStep

\* Storing appends to the history what is not yet in it, and nothing that waits
\* precedes it.
LEMMA StoreEffect ==
  ASSUME InboxTypeOK, InOrder, NEW w \in Window, Store(w),
         NEW i, i = Head(batch[w]), NEW d, d = WindowDevice[w]
  PROVE  /\ i \in Id /\ i \in Addressed(d) /\ d \in Device
         /\ Stored(d)' = Stored(d) \cup {i}
         /\ revoked'[d] = revoked[d] \ {i}
         /\ \A e \in Device \ {d} : Stored(e)' = Stored(e) /\ revoked'[e] = revoked[e]
         /\ \A j \in Id : Before(d, j, i) => j \in Stored(d) \cup revoked[d]
         /\ UNCHANGED <<addressed, envelopes, dispatch, batch, seen>>
  <1>1. d \in Device /\ Queued(d) /\ Batched(w)
    BY InboxAssumption DEF InOrder
  <1>2. batch[w] \in Seq(Id) /\ batch[w] # <<>>
    BY DEF Store, InboxTypeOK
  <1>3. Len(batch[w]) \in Nat \ {0} /\ i = batch[w][1] /\ i \in Id
    BY <1>2, EmptySeq, HeadTailProperties
  <1>4. i \in Addressed(d)
    BY <1>1, <1>3 DEF Batched
  <1>5. \A j \in Id : Before(d, j, i) => d \notin envelopes[j]
    BY <1>1, <1>3 DEF Batched
  <1>6. \A j \in Id : Before(d, j, i) => j \in Addressed(d)
    BY <1>1, BeforeIsAnOrder
  <1>7. \A j \in Id : Before(d, j, i) => j \in Stored(d) \cup revoked[d]
    BY <1>1, <1>5, <1>6 DEF Queued
  <1>8. Stored(d)' = Stored(d) \cup {i}
    <2>1. CASE i \in Stored(d)
      BY <2>1 DEF Store, Stored
    <2>2. CASE i \notin Stored(d)
      BY <1>1, <1>3, <2>2, AppendToSet DEF Store, Stored, InboxTypeOK
    <2> QED BY <2>1, <2>2
  <1>9. \A e \in Device \ {d} : Stored(e)' = Stored(e) /\ revoked'[e] = revoked[e]
    BY <1>1 DEF Store, Stored, InboxTypeOK
  <1>10. revoked'[d] = revoked[d] \ {i}
    BY <1>1 DEF Store, InboxTypeOK
  <1>11. UNCHANGED <<addressed, envelopes, dispatch, batch, seen>>
    BY DEF Store, relayVars
  <1> QED BY <1>1, <1>3, <1>4, <1>7, <1>8, <1>9, <1>10, <1>11

LEMMA ReadStepInOrder ==
  ASSUME InboxTypeOK, RelayInv, Kept, InOrder, NEW w \in Window, ReadStep(w)
  PROVE  InOrder'
  <1>1. /\ \A v \in Window \ {w} : batch'[v] = batch[v]
        /\ UNCHANGED <<addressed, dispatch>>
        /\ \A i \in Id : envelopes'[i] \subseteq envelopes[i]
    BY ReadStepEffect
  <1>2. ASSUME NEW v \in Window PROVE Batched(v)'
    <2>1. CASE v = w /\ Fetch(w)
      BY <2>1, FetchBatched
    <2>2. CASE ~(v = w /\ Fetch(w))
      BY <1>1, <2>2, BatchMovesOn, ReadStepEffect
    <2> QED BY <2>1, <2>2
  <1>3. ASSUME NEW d \in Device PROVE Queued(d)'
    <2>1. /\ Addressed(d)' = Addressed(d) /\ Addressed(d) \subseteq Id
          /\ \A j, k : Before(d, j, k)' <=> Before(d, j, k)
          /\ \A i : Accepted(i)' <=> Accepted(i)
          /\ addressed'[d] = addressed[d]
      BY <1>1 DEF Addressed, Before, Accepted, ToSet, InboxTypeOK
    <2>2. Queued(d)
      BY DEF InOrder
    <2>3. \A i \in Id : d \in envelopes[i] \ envelopes'[i] => i \in Stored(d)
      BY ReadStepEffect
    <2>4. CASE UNCHANGED <<log, revoked>>
      <3>1. Stored(d)' = Stored(d) /\ revoked'[d] = revoked[d]
        BY <2>4 DEF Stored
      <3> QED BY <1>1, <2>1, <2>2, <2>3, <3>1 DEF Queued
    <2>5. CASE Store(w) /\ d = WindowDevice[w]
      <3> DEFINE i == Head(batch[w])
      <3>1. /\ i \in Id /\ i \in Addressed(d)
            /\ Stored(d)' = Stored(d) \cup {i}
            /\ revoked'[d] = revoked[d] \ {i}
            /\ \A j \in Id : Before(d, j, i) => j \in Stored(d) \cup revoked[d]
            /\ envelopes' = envelopes
        BY <2>5, StoreEffect
      <3> HIDE DEF i
      <3> QED BY <2>1, <2>2, <3>1 DEF Queued
    <2>6. CASE Store(w) /\ d # WindowDevice[w]
      <3>1. Stored(d)' = Stored(d) /\ revoked'[d] = revoked[d] /\ envelopes' = envelopes
        BY <2>6, StoreEffect
      <3> QED BY <2>1, <2>2, <3>1 DEF Queued
    <2> QED BY <2>4, <2>5, <2>6, ReadStepEffect
  <1> QED BY <1>2, <1>3 DEF InOrder

\* Every step keeps the order of deliveries.
LEMMA StepInOrder ==
  ASSUME InboxTypeOK, RelayInv, Kept, InOrder, [InboxNext]_inboxVars
  PROVE  InOrder'
  <1>1. CASE \E u \in User, i \in Id : PostMessage(u, i)
    BY <1>1, PostMessageInOrder
  <1>2. CASE RosterChange
    BY <1>2, RosterChangeInOrder
  <1>3. CASE \E w \in Window : ReadStep(w)
    BY <1>3, ReadStepInOrder
  <1>4. CASE \/ \E w \in Window : Interrupt(w)
             \/ UNCHANGED inboxVars
    <2>1. /\ UNCHANGED <<addressed, dispatch, envelopes, log, revoked>>
          /\ \A w \in Window : batch'[w] \in {batch[w], <<>>}
      BY <1>4 DEF Interrupt, Abandon, mailVars, relayVars, inboxVars, readerVars,
         InboxTypeOK
    <2>2. \A w \in Window : Batched(w)'
      BY <2>1, BatchMovesOn
    <2>3. ASSUME NEW d \in Device PROVE Queued(d)'
      <3>1. /\ Addressed(d)' = Addressed(d) /\ Stored(d)' = Stored(d)
            /\ \A j, k : Before(d, j, k)' <=> Before(d, j, k)
            /\ \A i : Accepted(i)' <=> Accepted(i)
        BY <2>1 DEF Addressed, Before, Stored, Accepted
      <3> QED BY <2>1, <3>1 DEF InOrder, Queued
    <2> QED BY <2>2, <2>3 DEF InOrder
  <1> QED BY <1>1, <1>2, <1>3, <1>4 DEF InboxNext

------------------------------------------------------------------------------
(* The theorems.                                                           *)

\* The inductive invariant.  The relay's part of it is needed for what is taken
\* back (a repeated block finds the queues it would empty already empty) and for
\* what is listed (whatever waits may be read).
InboxInv == InboxTypeOK /\ RelayInv /\ Kept /\ InOrder

\* The invariant holds throughout.
LEMMA InboxInvariant == InboxSpec => []InboxInv
  <1>1. InboxInit => InboxInv
    <2> SUFFICES ASSUME InboxInit PROVE InboxInv
      OBVIOUS
    <2>1. InboxTypeOK
      BY InitInboxTypeOK
    <2>2. RelayInv
      BY <2>1 DEF InboxInit, InboxTypeOK, RelayInv, PayloadIffOwed, OwedOnlyToMembers,
         BlockedPairHasNothingQueued, OperationsHaveAnOriginal, HistoryStaysWithOwner,
         Accepted
    <2>3. Kept
      BY DEF InboxInit, Kept
    <2>4. InOrder
      <3>1. \A d \in Device : Len(addressed[d]) = 0 /\ Addressed(d) = {} /\ Stored(d) = {}
        BY DEF InboxInit, Addressed, Stored, ToSet
      <3>2. ASSUME NEW d \in Device PROVE Queued(d)
        BY <3>1 DEF InboxInit, Queued
      <3>3. ASSUME NEW w \in Window PROVE Batched(w)
        BY DEF InboxInit, Batched
      <3> QED BY <3>2, <3>3 DEF InOrder
    <2> QED BY <2>1, <2>2, <2>3, <2>4 DEF InboxInv
  <1>2. InboxInv /\ [InboxNext]_inboxVars => InboxInv'
    BY StepInboxTypeOK, InboxRelayStep, StepRelayInv, StepKept, StepInOrder DEF InboxInv
  <1> QED BY <1>1, <1>2, PTL DEF InboxSpec

\* The inbox of any number of windows and devices is well typed.
THEOREM InboxIsWellTyped == InboxSpec => []InboxTypeOK
  <1>1. InboxInv => InboxTypeOK
    BY DEF InboxInv
  <1> QED BY InboxInvariant, <1>1, PTL

\* Windows that read at their own pace, stop anywhere and share only the history
\* and the markers never make the server forget what their device has not kept.
THEOREM NothingUnkeptAcknowledged == InboxSpec => AcknowledgedOnlyIfKept
  <1> DEFINE Forgets == \A d \in Device, i \in Id :
        d \in envelopes[i] \ envelopes'[i] => i \in seen[d] /\ i \in Stored(d)
  <1>1. InboxInv /\ [InboxNext]_inboxVars => [UNCHANGED rosterVars => Forgets]_inboxVars
    <2> SUFFICES ASSUME InboxInv, InboxNext, UNCHANGED rosterVars,
                        NEW d \in Device, NEW i \in Id, d \in envelopes[i] \ envelopes'[i]
                 PROVE  i \in seen[d] /\ i \in Stored(d)
      OBVIOUS
    <2> USE DEF InboxInv, InboxTypeOK
    <2>1. CASE \E u \in User, j \in Id : PostMessage(u, j)
      <3>1. PICK u \in User, j \in Id : \E r \in Uploads(u, j) : Upload(u, j, r)
        BY <2>1, PostMessageIsUpload
      <3>2. ~Accepted(j)
        BY <3>1, CreatedVerdict DEF Upload
      <3>3. i # j
        BY <3>2 DEF RelayInv, OwedOnlyToMembers
      <3> QED BY <3>1, <3>3 DEF Upload, TypeOK
    <2>2. CASE RosterChange
      <3>1. CASE \E u, v \in User : Block(u, v)
        <4>1. PICK u \in User, v \in User : Block(u, v)
          BY <3>1
        <4>2. PICK c \in live : /\ ConvKind[c] = "direct"
                                /\ {u, v} \subseteq members[c]
                                /\ i \in DispatchedIn(c)
          BY <4>1 DEF Block
        <4>3. <<u, v>> \in blocks
          BY <4>1 DEF Block, rosterVars
        <4> QED BY <4>2, <4>3 DEF RelayInv, BlockedPairHasNothingQueued, DirectBlocked,
                   DispatchedIn
      <3>2. CASE \E u \in User, c \in Conv : RemoveParticipant(u, c)
        BY <3>2 DEF RemoveParticipant, rosterVars, TypeOK
      <3>3. CASE UNCHANGED queueVars
        BY <3>3 DEF queueVars
      <3> QED BY <2>2, <3>1, <3>2, <3>3 DEF RosterChange, Unblock, AddMember
    <2>3. CASE \E w \in Window : ReadStep(w)
      <3>1. PICK w \in Window : ReadStep(w)
        BY <2>3
      <3>2. PICK u \in User : Ack(u, Head(batch[w]), WindowDevice[w])
        BY <3>1, ReadStepOfRelay DEF relayVars
      <3>3. pc[w] = "ack" /\ i = Head(batch[w]) /\ d = WindowDevice[w]
        BY <3>1, <3>2, ReadStepOfRelay DEF Ack, relayVars, TypeOK
      <3> QED BY <3>3 DEF Kept
    <2>4. CASE \E w \in Window : Interrupt(w)
      BY <2>4 DEF Interrupt, relayVars
    <2> QED BY <2>1, <2>2, <2>3, <2>4 DEF InboxNext
  <1> QED BY InboxInvariant, <1>1, PTL DEF InboxSpec, AcknowledgedOnlyIfKept

------------------------------------------------------------------------------
(* The mailbox.                                                            *)

\* The mailbox reads sequences as the inbox does.
LEMMA SameToSet == \A s : Mailbox!ToSet(s) = ToSet(s)
  BY DEF Mailbox!ToSet, ToSet

\* Posting a message is an abstract post to the devices that are owed it.
LEMMA PostMessageIsPost ==
  ASSUME InboxInv, NEW u \in User, NEW i \in Id, PostMessage(u, i)
  PROVE  Mailbox!MailboxNext
  <1> USE DEF InboxInv
  <1> DEFINE D == {d \in Device : d \in envelopes'[i]}
  <1>1. \A d \in Device : i \notin ToSet(addressed[d])
    BY PostMessageExtends DEF Addressed
  <1>2. addressed' = [d \in Device |-> IF d \in D THEN Append(addressed[d], i)
                                       ELSE addressed[d]]
    <2>1. addressed' = [d \in Device |-> addressed'[d]]
      BY StepInboxTypeOK DEF InboxNext, InboxTypeOK
    <2> QED BY <2>1, PostMessageEffect
  <1>3. UNCHANGED <<log, revoked>>
    BY PostMessageEffect
  <1>4. Mailbox!Post(i, D)
    BY <1>1, <1>2, <1>3, SameToSet DEF Mailbox!Post
  <1>5. D \in SUBSET Device
    OBVIOUS
  <1> HIDE DEF D
  <1> QED BY <1>4, <1>5 DEF Mailbox!MailboxNext

\* A change of the roster is an abstract revocation, possibly of nothing.
LEMMA RosterChangeIsRevoke ==
  ASSUME InboxInv, RosterChange
  PROVE  Mailbox!MailboxNext
  <1> USE DEF InboxInv
  <1>1. ASSUME NEW d \in Device
        PROVE  /\ revoked[d] \subseteq revoked'[d]
               /\ revoked'[d] \subseteq ToSet(addressed[d]) \ ToSet(log[d])
    <2>1. revoked'[d] = revoked[d] \cup
            {i \in Id : d \in envelopes[i] \ envelopes'[i] /\ i \notin Stored(d)}
      BY RosterChangeEffect
    <2>2. Queued(d)
      BY DEF InOrder
    <2> QED BY <2>1, <2>2 DEF Queued, Addressed, Stored
  <1>2. revoked' = [d \in Device |-> revoked'[d]]
    BY StepInboxTypeOK DEF InboxNext, InboxTypeOK
  <1>3. UNCHANGED <<addressed, log>>
    BY RosterChangeEffect
  <1> QED BY <1>1, <1>2, <1>3, SameToSet DEF Mailbox!MailboxNext, Mailbox!Revoke

\* Storing a delivery for the first time is an abstract delivery; storing it again
\* is no step.
LEMMA StoreIsDeliver ==
  ASSUME InboxInv, NEW w \in Window, Store(w)
  PROVE  [Mailbox!MailboxNext]_<<addressed, log, revoked>>
  <1> USE DEF InboxInv
  <1> DEFINE i == Head(batch[w])
  <1> DEFINE d == WindowDevice[w]
  <1>1. /\ i \in Id /\ i \in Addressed(d) /\ d \in Device
        /\ \A j \in Id : Before(d, j, i) => j \in Stored(d) \cup revoked[d]
        /\ addressed' = addressed
    BY StoreEffect
  <1>2. Queued(d)
    BY <1>1 DEF InOrder
  <1>3. CASE i \in Stored(d)
    <2>1. log' = log
      BY <1>3 DEF Store
    <2>2. i \notin revoked[d]
      BY <1>2, <1>3 DEF Queued
    <2>3. revoked' = revoked
      BY <2>2, <1>1 DEF Store, InboxTypeOK
    <2> QED BY <1>1, <2>1, <2>3
  <1>4. CASE i \notin Stored(d)
    <2>1. /\ addressed[d] \in [1..Len(addressed[d]) -> Id]
          /\ Len(addressed[d]) \in Nat
      BY <1>1, LenProperties DEF InboxTypeOK
    <2>2. ASSUME NEW k \in 1..Len(addressed[d]), NEW n \in 1..Len(addressed[d]),
                 k < n, addressed[d][n] = i
          PROVE  addressed[d][k] \in ToSet(log[d]) \cup revoked[d]
      <3>1. Before(d, addressed[d][k], i) /\ addressed[d][k] \in Id
        BY <2>1, <2>2 DEF Before
      <3> HIDE DEF i, d
      <3> QED BY <1>1, <3>1 DEF Stored
    <2>3. ASSUME i \notin revoked[d],
                 NEW k \in 1..Len(addressed[d]), NEW n \in 1..Len(addressed[d]),
                 k < n, addressed[d][k] = i
          PROVE  addressed[d][n] \notin ToSet(log[d])
      <3>1. Before(d, i, addressed[d][n])
        BY <2>3 DEF Before
      <3> QED BY <1>1, <1>2, <1>4, <2>3, <3>1 DEF Queued, Stored
    <2>4. i \in ToSet(addressed[d]) \ ToSet(log[d])
      BY <1>1, <1>4 DEF Addressed, Stored
    <2>5. /\ log' = [log EXCEPT ![d] = Append(@, i)]
          /\ revoked' = [revoked EXCEPT ![d] = @ \ {i}]
      BY <1>4 DEF Store
    <2> HIDE DEF i, d
    <2>6. Mailbox!Deliver(d, i)
      BY <1>1, <2>2, <2>3, <2>4, <2>5, SameToSet DEF Mailbox!Deliver
    <2> QED BY <1>1, <2>6 DEF Mailbox!MailboxNext
  <1> QED BY <1>3, <1>4

\* Any number of windows give their device the deliveries the server accepted for
\* it, once each and in order, but for those taken back: whatever the windows do,
\* wherever they stop and however they overlap, the history is a mailbox.
THEOREM InboxImplementsMailbox == InboxSpec => ImplementsMailbox
  <1>1. InboxInit => Mailbox!MailboxInit
    BY DEF InboxInit, Mailbox!MailboxInit
  <1>2. InboxInv /\ [InboxNext]_inboxVars => [Mailbox!MailboxNext]_(Mailbox!mailboxVars)
    <2> SUFFICES ASSUME InboxInv, [InboxNext]_inboxVars
                 PROVE  [Mailbox!MailboxNext]_<<addressed, log, revoked>>
      BY DEF Mailbox!mailboxVars
    <2>1. CASE \E u \in User, i \in Id : PostMessage(u, i)
      BY <2>1, PostMessageIsPost
    <2>2. CASE RosterChange
      BY <2>2, RosterChangeIsRevoke
    <2>3. CASE \E w \in Window : Store(w)
      BY <2>3, StoreIsDeliver
    <2>4. CASE \E w \in Window : ReadStep(w) /\ ~Store(w)
      BY <2>4, ReadStepEffect DEF InboxInv
    <2>5. CASE \E w \in Window : Interrupt(w)
      BY <2>5 DEF Interrupt, mailVars
    <2>6. CASE UNCHANGED inboxVars
      BY <2>6 DEF inboxVars, mailVars, readerVars
    <2> QED BY <2>1, <2>2, <2>3, <2>4, <2>5, <2>6 DEF InboxNext
  <1> QED BY InboxInvariant, <1>1, <1>2, PTL DEF InboxSpec, ImplementsMailbox,
             Mailbox!MailboxSpec

------------------------------------------------------------------------------
(* One window a device.                                                    *)

\* Nobody else reads for the device of a window.
OneWindowEach == \A v, w \in Window : WindowDevice[v] = WindowDevice[w] => v = w

\* A window without company knows which deliveries of its device have no marker:
\* at most the latest of the history, which is what an interrupted sync leaves.
Orderly(w) ==
  LET d == WindowDevice[w]
      b == batch[w]
  IN  /\ pc[w] \in {"open", "store", "mark"} => Head(b) \notin seen[d]
      /\ pc[w] = "mark" => Head(b) = Last(log[d])
      /\ \A i \in Stored(d) : d \in envelopes[i] /\ i \notin seen[d] => i = Last(log[d])
      /\ \A k \in 1..Len(b) :
           b[k] \in Stored(d) /\ b[k] \notin seen[d] => b[k] = Last(log[d])
      \* What precedes a stored delivery is stored before it, or no longer fetched.
      /\ \A k \in 1..Len(b), x \in Stored(d) : Before(d, b[k], x) => b[k] \in Stored(d)

\* Steps of others leave a window what it knows.
LEMMA OrderlyUnaffected ==
  ASSUME NEW w \in Window, Orderly(w), NEW d, d = WindowDevice[w],
         pc'[w] = pc[w], batch'[w] = batch[w], log'[d] = log[d], seen'[d] = seen[d],
         \A i \in Stored(d) : d \in envelopes'[i] => d \in envelopes[i],
         \A j, x : x \in Stored(d) /\ Before(d, j, x)' => Before(d, j, x)
  PROVE  Orderly(w)'
  <1>1. Stored(d)' = Stored(d)
    BY DEF Stored
  <1> QED BY <1>1 DEF Orderly

\* Storing what its device has not stored makes it the only one without a marker.
LEMMA StoreOrderly ==
  ASSUME InboxTypeOK, InOrder, NEW w \in Window, Orderly(w), Store(w)
  PROVE  Orderly(w)'
  <1> DEFINE d == WindowDevice[w]
  <1> DEFINE b == batch[w]
  <1> DEFINE i == Head(b)
  <1>1. /\ i \in Id /\ i \in Addressed(d) /\ d \in Device
        /\ Stored(d)' = Stored(d) \cup {i}
        /\ UNCHANGED <<addressed, envelopes, batch, seen>>
    BY StoreEffect
  <1>2. pc[w] = "store" /\ pc'[w] = "mark" /\ log \in [Device -> Seq(Id)]
    BY DEF Store, InboxTypeOK
  <1>3. b \in Seq(Id) /\ Len(b) \in Nat \ {0} /\ i = b[1]
    BY <1>2, EmptySeq DEF InboxTypeOK
  <1>4. /\ \A j, k : Before(d, j, k)' <=> Before(d, j, k)
        /\ \A k \in 1..Len(b) : b[k] \in Id
    BY <1>1, <1>3, ElementOfSeq DEF Before
  <1>5. i \notin seen[d]
    BY <1>2 DEF Orderly
  <1>6. CASE i \in Stored(d)
    <2>1. log' = log /\ Stored(d)' = Stored(d)
      BY <1>1, <1>6 DEF Store, Stored
    <2>2. i = Last(log[d])
      BY <1>3, <1>5, <1>6 DEF Orderly
    <2>3. /\ \A x \in Stored(d)' :
               d \in envelopes'[x] /\ x \notin seen'[d] => x = Last(log'[d])
          /\ \A k \in 1..Len(b) :
               b[k] \in Stored(d)' /\ b[k] \notin seen'[d] => b[k] = Last(log'[d])
          /\ \A k \in 1..Len(b), x \in Stored(d)' :
               Before(d, b[k], x)' => b[k] \in Stored(d)'
      <3> HIDE DEF i
      <3> QED BY <1>1, <1>4, <2>1 DEF Orderly
    <2> QED BY <1>1, <1>2, <1>5, <2>1, <2>2, <2>3 DEF Orderly
  <1>7. CASE i \notin Stored(d)
    <2>1. log'[d] = Append(log[d], i)
      BY <1>1, <1>2, <1>7 DEF Store
    <2>2. Last(log'[d]) = i
      BY <1>1, <1>2, <2>1, AppendProperties DEF Last
    <2>3. \A x \in Stored(d) : ~Before(d, i, x)
      BY <1>3, <1>7 DEF Orderly
    <2>4. Queued(d) /\ Batched(w)
      BY <1>1 DEF InOrder
    <2>5. \A x \in Stored(d) : x \in Id /\ Before(d, x, i)
      <3>1. \A x \in Stored(d) : x \in Addressed(d) /\ x # i
        BY <1>7, <2>4 DEF Queued
      <3>2. Addressed(d) \subseteq Id
        BY <1>1 DEF Addressed, ToSet, InboxTypeOK
      <3> QED BY <1>1, <2>3, <2>4, <3>1, <3>2, BeforeIsAnOrder
    <2>6. \A x \in Stored(d) : d \notin envelopes[x]
      BY <1>3, <2>4, <2>5 DEF Batched
    <2>7. ASSUME NEW k \in 1..Len(b), k # 1 PROVE b[k] # i /\ b[k] \notin Stored(d)
      <3>1. Before(d, i, b[k])
        BY <1>3, <2>4, <2>7 DEF Batched
      <3> QED BY <1>1, <1>4, <2>3, <2>4, <3>1, BeforeIsAnOrder
    <2>8. \A k \in 1..Len(b) : ~Before(d, b[k], i)
      BY <1>1, <1>3, <1>4, <2>4, BeforeIsAnOrder DEF Batched
    <2> HIDE DEF i
    <2>9. \A x \in Stored(d)' : d \in envelopes'[x] => x = i
      BY <1>1, <2>6
    <2>10. \A k \in 1..Len(b) : b[k] \in Stored(d)' => b[k] = i
      BY <1>1, <1>3, <2>7
    <2>11. \A k \in 1..Len(b), x \in Stored(d)' :
             Before(d, b[k], x)' => b[k] \in Stored(d)'
      BY <1>1, <1>4, <2>8 DEF Orderly
    <2> USE DEF i
    <2> QED BY <1>1, <1>2, <1>5, <2>2, <2>9, <2>10, <2>11 DEF Orderly
  <1> QED BY <1>6, <1>7

\* A fetched page holds at most one delivery that is stored but has no marker.
LEMMA FetchOrderly ==
  ASSUME InboxTypeOK, RelayInv, InOrder, NEW w \in Window, Orderly(w), Fetch(w)
  PROVE  Orderly(w)'
  <1> DEFINE d == WindowDevice[w]
  <1> DEFINE b == batch'[w]
  <1>1. d \in Device /\ Queued(d)
    BY InboxAssumption DEF InOrder
  <1>2. \A k \in 1..Len(b) : b[k] \in Id /\ d \in envelopes[b[k]]
    BY FetchBatched
  <1>3. /\ pc'[w] = "look"
        /\ UNCHANGED <<addressed, envelopes, log, seen>>
    BY DEF Fetch, Take, mailVars, relayVars, InboxTypeOK
  <1>4. /\ Stored(d)' = Stored(d)
        /\ \A j, k : Before(d, j, k)' <=> Before(d, j, k)
    BY <1>3 DEF Stored, Before
  <1>5. \A k \in 1..Len(b) : b[k] \notin revoked[d]
    BY <1>1, <1>2 DEF Queued
  <1>6. \A k \in 1..Len(b), x \in Stored(d) : Before(d, b[k], x) => b[k] \in Stored(d)
    BY <1>1, <1>2, <1>5 DEF Queued
  <1>7. /\ \A i \in Stored(d) : d \in envelopes[i] /\ i \notin seen[d] => i = Last(log[d])
        /\ \A k \in 1..Len(b) :
             b[k] \in Stored(d) /\ b[k] \notin seen[d] => b[k] = Last(log[d])
    BY <1>2 DEF Orderly
  <1> QED BY <1>3, <1>4, <1>6, <1>7 DEF Orderly

\* The window's own steps.
LEMMA ReadStepOrderly ==
  ASSUME InboxTypeOK, RelayInv, InOrder, NEW w \in Window, Orderly(w), ReadStep(w)
  PROVE  Orderly(w)'
  <1> DEFINE d == WindowDevice[w]
  <1>0. d \in Device
    BY InboxAssumption
  <1>1. CASE Fetch(w)
    BY <1>1, FetchOrderly
  <1>2. CASE Store(w)
    BY <1>2, StoreOrderly
  <1>3. CASE Look(w)
    <2>1. /\ pc'[w] = IF Head(batch[w]) \in seen[d] THEN "ack" ELSE "open"
          /\ UNCHANGED <<addressed, envelopes, log, seen, batch>>
      BY <1>3 DEF Look, mailVars, relayVars, InboxTypeOK
    <2> QED BY <2>1 DEF Orderly, Before, Stored
  <1>4. CASE Open(w)
    <2>1. /\ pc[w] = "open"
          /\ \/ pc'[w] = "store" /\ batch' = batch
             \/ pc'[w] = "idle" /\ batch'[w] = <<>>
          /\ UNCHANGED <<addressed, envelopes, log, seen>>
      BY <1>4 DEF Open, Abandon, mailVars, relayVars, InboxTypeOK
    <2> QED BY <2>1 DEF Orderly, Before, Stored
  <1>5. CASE Mark(w)
    <2>1. /\ pc'[w] = "ack"
          /\ seen[d] \subseteq seen'[d]
          /\ UNCHANGED <<addressed, envelopes, log, batch>>
      BY <1>0, <1>5 DEF Mark, mailVars, relayVars, InboxTypeOK
    <2> QED BY <2>1 DEF Orderly, Before, Stored
  <1>6. CASE Acknowledge(w)
    <2> DEFINE b == batch[w]
    <2> DEFINE t == batch'[w]
    <2>1. /\ pc'[w] \in {"idle", "look"}
          /\ t = Tail(b)
          /\ UNCHANGED <<addressed, log, seen>>
      BY <1>6 DEF Acknowledge, mailVars, InboxTypeOK
    <2>2. \A i \in Id : envelopes'[i] \subseteq envelopes[i]
      BY <1>6 DEF Acknowledge, Ack, relayVars, InboxTypeOK, TypeOK
    <2>3. /\ Len(t) = Len(b) - 1 /\ Len(t) \in Nat
          /\ \A k \in 1..Len(t) : t[k] = b[k + 1] /\ k + 1 \in 1..Len(b)
      <3>1. b \in Seq(Id) /\ b # <<>>
        BY <1>6 DEF Acknowledge, InboxTypeOK
      <3> QED BY <2>1, <3>1, HeadTailProperties, EmptySeq
    <2>4. Stored(d)' = Stored(d) /\ \A j, k : Before(d, j, k)' <=> Before(d, j, k)
      BY <2>1 DEF Stored, Before
    <2>5. Stored(d) \subseteq Id
      BY <1>0 DEF Stored, ToSet, InboxTypeOK
    <2> QED BY <2>1, <2>2, <2>3, <2>4, <2>5 DEF Orderly
  <1> QED BY <1>1, <1>2, <1>3, <1>4, <1>5, <1>6 DEF ReadStep

\* Every step keeps what a window without company knows.
LEMMA StepOrderly ==
  ASSUME OneWindowEach, InboxInv, \A w \in Window : Orderly(w), [InboxNext]_inboxVars
  PROVE  \A w \in Window : Orderly(w)'
  <1> USE DEF InboxInv
  <1> SUFFICES ASSUME NEW w \in Window PROVE Orderly(w)'
    OBVIOUS
  <1> DEFINE d == WindowDevice[w]
  <1>0. d \in Device /\ Stored(d) \subseteq Id /\ Queued(d)
    BY InboxAssumption DEF Stored, ToSet, InOrder, InboxTypeOK
  <1>1. CASE \E u \in User, i \in Id : PostMessage(u, i)
    <2>1. PICK u \in User, i \in Id : PostMessage(u, i)
      BY <1>1
    <2>2. i \notin Stored(d)
      BY <1>0, <2>1, PostMessageExtends DEF Queued
    <2>3. /\ UNCHANGED <<log, seen, pc, batch>>
          /\ \A j \in Stored(d) : envelopes'[j] = envelopes[j]
      BY <1>0, <2>1, <2>2, PostMessageEffect
    <2>4. \A j, x : x \in Stored(d) /\ Before(d, j, x)' => Before(d, j, x)
      BY <1>0, <2>1, <2>2, PostMessageExtends
    <2> QED BY <2>3, <2>4, OrderlyUnaffected
  <1>2. CASE RosterChange
    <2>1. /\ UNCHANGED <<addressed, log, seen, pc, batch>>
          /\ \A j \in Stored(d) : envelopes'[j] \subseteq envelopes[j]
      BY <1>0, <1>2, RosterChangeEffect
    <2> QED BY <2>1, OrderlyUnaffected DEF Before
  <1>3. CASE ReadStep(w)
    BY <1>3, ReadStepOrderly
  <1>4. ASSUME NEW v \in Window \ {w}, ReadStep(v) PROVE Orderly(w)'
    <2>1. WindowDevice[v] # d
      BY DEF OneWindowEach
    <2>2. pc'[w] = pc[w] /\ log'[d] = log[d] /\ seen'[d] = seen[d]
      BY <1>0, <1>4, <2>1 DEF ReadStep, Fetch, Take, Look, Open, Store, Mark, Acknowledge,
         Abandon, InboxTypeOK
    <2>3. /\ batch'[w] = batch[w]
          /\ addressed' = addressed
          /\ \A j \in Stored(d) : envelopes'[j] \subseteq envelopes[j]
      BY <1>0, <1>4, ReadStepEffect
    <2> QED BY <2>2, <2>3, OrderlyUnaffected DEF Before
  <1>5. ASSUME NEW v \in Window, Interrupt(v) PROVE Orderly(w)'
    <2>1. /\ UNCHANGED <<addressed, log, seen, envelopes>>
          /\ \/ pc'[w] = pc[w] /\ batch'[w] = batch[w]
             \/ pc'[w] = "idle" /\ batch'[w] = <<>>
      BY <1>5 DEF Interrupt, Abandon, mailVars, relayVars, InboxTypeOK
    <2>2. CASE pc'[w] = pc[w] /\ batch'[w] = batch[w]
      BY <2>1, <2>2, OrderlyUnaffected DEF Before
    <2>3. CASE pc'[w] = "idle" /\ batch'[w] = <<>>
      BY <2>1, <2>3, EmptySeq DEF Orderly, Stored
    <2> QED BY <2>1, <2>2, <2>3
  <1>6. CASE UNCHANGED inboxVars
    <2>1. UNCHANGED <<addressed, envelopes, log, seen, pc, batch>>
      BY <1>6 DEF inboxVars, mailVars, readerVars, relayVars
    <2> QED BY <2>1, OrderlyUnaffected DEF Before
  <1> QED BY <1>1, <1>2, <1>3, <1>4, <1>5, <1>6 DEF InboxNext

\* A device that is read from one window stores nothing a second time but the
\* latest delivery of its history, wherever syncs are interrupted.
THEOREM OneWindowStoresInOrder ==
  ASSUME OneWindowEach
  PROVE  InboxSpec => []OnlyLatestStoredAgain
  <1> DEFINE AllOrderly == \A w \in Window : Orderly(w)
  <1>1. InboxInit => AllOrderly
    BY InboxAssumption DEF InboxInit, Orderly, Stored, ToSet
  <1>2. InboxInv /\ AllOrderly /\ [InboxNext]_inboxVars => AllOrderly'
    BY StepOrderly
  <1>3. InboxInv /\ AllOrderly => OnlyLatestStoredAgain
    <2> SUFFICES ASSUME InboxInv, AllOrderly, NEW w \in Window, pc[w] = "store",
                        Head(batch[w]) \in Stored(WindowDevice[w])
                 PROVE  Head(batch[w]) = Last(log[WindowDevice[w]])
      BY DEF OnlyLatestStoredAgain
    <2>1. Len(batch[w]) \in Nat \ {0} /\ Head(batch[w]) = batch[w][1]
      BY EmptySeq DEF InboxInv, InboxTypeOK
    <2> QED BY <2>1 DEF Orderly
  <1> QED BY InboxInvariant, <1>1, <1>2, <1>3, PTL DEF InboxSpec
==============================================================================
