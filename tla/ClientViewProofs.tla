--------------------------- MODULE ClientViewProofs ---------------------------
(***************************************************************************)
(* What a client shows of others: who is online (Presence), for any number *)
(* of connections, changes and publications under way, and what became of  *)
(* a message (MessageHistory), for any devices, stamps and deliveries.     *)
(***************************************************************************)
EXTENDS Presence, MessageHistory, TLAPS

-----------------------------------------------------------------------------
(* Presence.                                                               *)

\* No announcement is still to come.
Quiet == \A c \in Connection : publishing[c] = 0

StatusAt(i) == i \in DOMAIN channel /\ channel[i].ev = "status"

NoStatus == \A i \in DOMAIN channel : channel[i].ev # "status"

\* Once all is announced, the newest thing the watcher has heard, is about to
\* hear, or will be told by the snapshot, is what the server knows.
NewsRight ==
  /\ \A i \in DOMAIN channel : StatusAt(i) /\ (\A j \in DOMAIN channel : StatusAt(j) => j <= i) =>
       channel[i].shows = Shown
  /\ NoStatus /\ watcher.heard # "none" => watcher.heard = Shown
  /\ NoStatus /\ watcher.heard = "none" =>
       /\ snapshot.at = "read" => snapshot.shows = Shown
       /\ \A i \in DOMAIN channel : channel[i].shows = Shown
       /\ watcher.ready => (watcher.online <=> IsOnline)

PresenceInv ==
  /\ watcher.heard # "none" => (watcher.online <=> watcher.heard = "online")
  /\ ~watcher.up => ~watcher.ready /\ channel = <<>> /\ snapshot.at = "none"
  /\ watcher.up /\ Quiet => NewsRight

-----------------------------------------------------------------------------
LEMMA PresenceTypeStep ==
  ASSUME PresenceTypeOK, PresenceInv, [PresenceNext]_presenceVars
  PROVE  PresenceTypeOK'
  <1>1. MaxChange \in Nat /\ MaxWatch \in Nat /\ Shown \in News /\ "none" \in News
    BY PresenceAssumption DEF Shown, News
  <1>2. CASE UNCHANGED presenceVars
    BY <1>2 DEF presenceVars, PresenceTypeOK
  <1>3. ASSUME NEW c \in Connection, NEW on \in BOOLEAN,
               Connected(c, on) \/ SetActive(c, on) \/ LostConnection(c)
        PROVE  PresenceTypeOK'
    <2>1. publishing' \in [Connection -> Nat]
      BY <1>3 DEF Connected, SetActive, LostConnection, Publish, PresenceTypeOK
    <2>2. conn' \in [Connection -> {"new", "open", "gone"}]
      BY <1>3 DEF Connected, SetActive, LostConnection, PresenceTypeOK
    <2>3. presenceActive' \in [Connection -> BOOLEAN]
      BY <1>3 DEF Connected, SetActive, LostConnection, PresenceTypeOK
    <2>4. changes' \in 0..MaxChange
      BY <1>1, <1>3 DEF Connected, SetActive, LostConnection, PresenceTypeOK
    <2>5. UNCHANGED <<snapshot, channel, watcher, watches>>
      BY <1>3 DEF Connected, SetActive, LostConnection, Watched
    <2> QED BY <2>1, <2>2, <2>3, <2>4, <2>5 DEF PresenceTypeOK
  <1>4. ASSUME NEW c \in Connection, Announce(c)
        PROVE  PresenceTypeOK'
    <2>1. publishing' \in [Connection -> Nat]
      BY <1>4 DEF Announce, PresenceTypeOK
    <2>2. [ev |-> "status", shows |-> Shown] \in Event
      BY <1>1 DEF Event
    <2>3. channel' \in Seq(Event)
      BY <1>4, <2>2 DEF Announce, PresenceTypeOK
    <2> QED BY <1>4, <2>1, <2>3 DEF Announce, PresenceTypeOK
  <1>5. CASE Watch
    BY <1>1, <1>5 DEF Watch, Same, PresenceTypeOK
  <1>6. CASE Unwatch
    BY <1>1, <1>6 DEF Unwatch, Same, PresenceTypeOK, NoSnapshot
  <1>7. CASE ReadOnlineUsers
    BY <1>1, <1>7 DEF ReadOnlineUsers, Same, PresenceTypeOK
  <1>8. CASE EmitSnapshot
    <2>1. [ev |-> "snapshot", shows |-> snapshot.shows] \in Event
      BY DEF PresenceTypeOK, Event
    <2>2. channel' \in Seq(Event)
      BY <1>8, <2>1 DEF EmitSnapshot, PresenceTypeOK
    <2> QED BY <1>1, <1>8, <2>2 DEF EmitSnapshot, Same, PresenceTypeOK, NoSnapshot
  <1>9. CASE Handle
    <2>1. Head(channel) \in Event
          /\ Tail(channel) \in Seq(Event)
      BY <1>9 DEF Handle, PresenceTypeOK
    <2>2. watcher' \in [up : BOOLEAN, ready : BOOLEAN, online : BOOLEAN, heard : News]
      BY <1>9, <2>1 DEF Handle, StatusChanged, PresenceSnapshot, PresenceTypeOK, Event
    <2> QED BY <1>9, <2>1, <2>2 DEF Handle, Same, PresenceTypeOK
  <1> QED BY <1>2, <1>3, <1>4, <1>5, <1>6, <1>7, <1>8, <1>9 DEF PresenceNext

\* A publication under way leaves nothing to show yet.
LEMMA PublishStep ==
  ASSUME PresenceTypeOK, PresenceInv, NEW c \in Connection, Publish(c), Watched
  PROVE  PresenceInv'
  <1>1. ~Quiet'
    <2>1. publishing'[c] = publishing[c] + 1 /\ publishing[c] \in Nat
      BY DEF Publish, PresenceTypeOK
    <2> QED BY <2>1 DEF Quiet
  <1> QED BY <1>1 DEF PresenceInv, Watched

LEMMA AnnounceStep ==
  ASSUME PresenceTypeOK, PresenceInv, NEW c \in Connection, Announce(c)
  PROVE  PresenceInv'
  <1>1. CASE ~watcher.up
    BY <1>1 DEF Announce, PresenceInv
  <1>3. Shown \in News
    BY DEF Shown, News
  <1>2. CASE watcher.up
    <2> DEFINE m == [ev |-> "status", shows |-> Shown]
    <2>1. channel' = Append(channel, m) /\ UNCHANGED <<conn, presenceActive, watcher, snapshot>>
      BY <1>2 DEF Announce
    <2>7. m \in Event
      BY <1>3 DEF Event
    <2> HIDE DEF m
    <2>8. /\ DOMAIN channel' = 1..(Len(channel) + 1) /\ Len(channel) \in Nat
          /\ channel'[Len(channel) + 1] = m
      BY <2>1, <2>7 DEF PresenceTypeOK
    <2>2. \E n \in Nat : DOMAIN channel' = 1..(n + 1) /\ channel'[n + 1] = m
      BY <2>8
    <2>9. PICK n \in Nat : DOMAIN channel' = 1..(n + 1) /\ channel'[n + 1] = m
      BY <2>2
    <2>3. Shown' = Shown /\ m.ev = "status" /\ m.shows = Shown
      BY <2>1 DEF Shown, IsOnline, m
    <2>4. StatusAt(n + 1)' /\ ~NoStatus'
      BY <2>3, <2>9 DEF StatusAt, NoStatus
    <2>5. ASSUME NEW i \in DOMAIN channel', \A j \in DOMAIN channel' : StatusAt(j)' => j <= i
          PROVE  i = n + 1
      <3>1. i \in 1..(n + 1)
        BY <2>5, <2>9
      <3>2. n + 1 <= i
        BY <2>4, <2>5, <2>9
      <3> QED BY <3>1, <3>2
    <2>6. NewsRight'
      BY <2>3, <2>4, <2>5, <2>9 DEF NewsRight
    <2> QED BY <1>2, <2>1, <2>6 DEF PresenceInv
  <1> QED BY <1>1, <1>2 DEF PresenceTypeOK

LEMMA EmitStep ==
  ASSUME PresenceTypeOK, PresenceInv, EmitSnapshot
  PROVE  PresenceInv'
  <1> DEFINE m == [ev |-> "snapshot", shows |-> snapshot.shows]
  <1>1. /\ channel' = Append(channel, m) /\ snapshot.at = "read" /\ snapshot' = NoSnapshot
        /\ UNCHANGED <<conn, presenceActive, watcher, publishing>>
    BY DEF EmitSnapshot, Same
  <1>2. watcher.up /\ watcher'.up
    BY <1>1 DEF PresenceInv
  <1>3. SUFFICES ASSUME Quiet PROVE NewsRight'
    BY <1>1, <1>2 DEF PresenceInv, Quiet
  <1>4. NewsRight
    BY <1>2, <1>3 DEF PresenceInv
  <1>5. /\ DOMAIN channel' = 1..(Len(channel) + 1) /\ DOMAIN channel = 1..Len(channel)
        /\ Len(channel) \in Nat /\ channel'[Len(channel) + 1] = m
        /\ \A i \in DOMAIN channel : i \in DOMAIN channel' /\ channel'[i] = channel[i]
    BY <1>1 DEF PresenceTypeOK
  <1>6. m.ev = "snapshot" /\ m.shows = snapshot.shows /\ Shown' = Shown /\ IsOnline' = IsOnline
    BY <1>1 DEF Shown, IsOnline
  <1>7. \A i : StatusAt(i)' <=> StatusAt(i)
    BY <1>5, <1>6 DEF StatusAt
  <1>8. NoStatus' <=> NoStatus
    BY <1>5, <1>6 DEF NoStatus
  <1>9. \A i \in DOMAIN channel' : i \in DOMAIN channel \/ channel'[i] = m
    BY <1>5
  <1>10. ASSUME NEW i \in DOMAIN channel', StatusAt(i)',
                \A j \in DOMAIN channel' : StatusAt(j)' => j <= i
         PROVE  channel'[i].shows = Shown'
    BY <1>4, <1>5, <1>6, <1>7, <1>10 DEF NewsRight, StatusAt
  <1>11. NoStatus' /\ watcher'.heard = "none" =>
           \A i \in DOMAIN channel' : channel'[i].shows = Shown'
    BY <1>1, <1>4, <1>5, <1>6, <1>8, <1>9 DEF NewsRight
  <1>12. snapshot'.at = "none"
    BY <1>1 DEF NoSnapshot
  <1> QED BY <1>1, <1>4, <1>6, <1>8, <1>10, <1>11, <1>12 DEF NewsRight

\* An event that is handled leaves the rest in its order.
LEMMA HandleStep ==
  ASSUME PresenceTypeOK, PresenceInv, Handle
  PROVE  PresenceInv'
  <1>1. PICK m \in Event :
          /\ m = Head(channel) /\ channel # <<>> /\ channel' = Tail(channel)
          /\ IF m.ev = "status" THEN StatusChanged(m) ELSE PresenceSnapshot(m)
          /\ UNCHANGED <<conn, presenceActive, publishing, snapshot>>
    BY DEF Handle, Same, PresenceTypeOK
  <1>2. PICK n \in Nat :
          /\ DOMAIN channel = 1..(n + 1) /\ DOMAIN channel' = 1..n /\ channel[1] = m
          /\ \A i \in 1..n : channel'[i] = channel[i + 1]
    <2>1. Len(channel) \in Nat \ {0}
      BY <1>1 DEF PresenceTypeOK
    <2>2. Len(channel) - 1 \in Nat
      BY <2>1
    <2>3. /\ DOMAIN channel = 1..((Len(channel) - 1) + 1)
          /\ DOMAIN channel' = 1..(Len(channel) - 1) /\ channel[1] = m
          /\ \A i \in 1..(Len(channel) - 1) : channel'[i] = channel[i + 1]
      BY <1>1, <2>1 DEF PresenceTypeOK
    <2> QED BY <2>2, <2>3
  <1>3. watcher.up /\ watcher'.up /\ m.ev \in {"status", "snapshot"} /\ m.shows \in News
    BY <1>1 DEF PresenceInv, StatusChanged, PresenceSnapshot, PresenceTypeOK, Event
  <1>4. Shown' = Shown /\ IsOnline' = IsOnline /\ (IsOnline <=> Shown = "online")
    BY <1>1 DEF Shown, IsOnline
  <1>5. watcher'.heard # "none" => (watcher'.online <=> watcher'.heard = "online")
    BY <1>1, <1>3 DEF PresenceInv, StatusChanged, PresenceSnapshot, PresenceTypeOK
  <1>6. SUFFICES ASSUME Quiet PROVE NewsRight'
    BY <1>1, <1>3, <1>5 DEF PresenceInv, Quiet
  <1>7. NewsRight
    BY <1>3, <1>6 DEF PresenceInv
  <1>8. \A i \in 1..n : /\ i + 1 \in DOMAIN channel /\ i \in DOMAIN channel'
                        /\ StatusAt(i)' <=> StatusAt(i + 1)
    BY <1>2 DEF StatusAt
  <1>9. ASSUME NEW i \in DOMAIN channel', StatusAt(i)',
               \A j \in DOMAIN channel' : StatusAt(j)' => j <= i
        PROVE  channel'[i].shows = Shown'
    <2>1. i \in 1..n /\ i + 1 \in DOMAIN channel /\ StatusAt(i + 1)
      BY <1>2, <1>8, <1>9
    <2>2. ASSUME NEW j \in DOMAIN channel, StatusAt(j)
          PROVE  j <= i + 1
      <3>1. CASE j = 1
        BY <2>1, <3>1
      <3>2. CASE j # 1
        <4>1. j - 1 \in 1..n /\ (j - 1) + 1 = j
          BY <1>2, <2>2, <3>2
        <4>2. StatusAt((j - 1) + 1)
          BY <2>2, <4>1
        <4>3. \A k \in 1..n : StatusAt(k + 1) => k <= i
          BY <1>8, <1>9
        <4>4. j - 1 <= i
          BY <4>1, <4>2, <4>3
        <4> QED BY <1>2, <2>1, <4>4
      <3> QED BY <3>1, <3>2
    <2> QED BY <1>2, <1>4, <1>7, <2>1, <2>2 DEF NewsRight
  <1>10. CASE m.ev = "status"
    <2>1. watcher'.heard = m.shows /\ (watcher'.online <=> m.shows = "online")
      BY <1>1, <1>10 DEF StatusChanged, PresenceTypeOK
    <2>2. ASSUME NoStatus' PROVE m.shows = Shown
      <3>1. \A j \in DOMAIN channel : StatusAt(j) => j = 1
        <4>1. TAKE j \in DOMAIN channel
        <4>2. j # 1 => j - 1 \in 1..n /\ (j - 1) + 1 = j
          BY <1>2
        <4>3. \A i \in 1..n : ~StatusAt(i + 1)
          BY <1>8, <2>2 DEF NoStatus, StatusAt
        <4> QED BY <4>2, <4>3
      <3>2. StatusAt(1) /\ 1 \in DOMAIN channel
        BY <1>2, <1>10 DEF StatusAt
      <3> QED BY <1>2, <1>7, <3>1, <3>2 DEF NewsRight
    <2>3. Shown # "none"
      BY DEF Shown
    <2> QED BY <1>4, <1>9, <2>1, <2>2, <2>3 DEF NewsRight
  <1>11. CASE m.ev = "snapshot"
    <2>1. /\ watcher'.heard = watcher.heard
          /\ watcher.heard = "none" => (watcher'.online <=> m.shows = "online")
      BY <1>1, <1>11 DEF PresenceSnapshot, PresenceTypeOK
    <2>2. NoStatus' => NoStatus
      <3>1. SUFFICES ASSUME NoStatus', NEW j \in DOMAIN channel PROVE channel[j].ev # "status"
        BY DEF NoStatus
      <3>2. CASE j = 1
        BY <1>2, <1>11, <3>2
      <3>3. CASE j # 1
        <4>1. j - 1 \in 1..n /\ (j - 1) + 1 = j
          BY <1>2, <3>3
        <4>2. channel'[j - 1] = channel[j]
          BY <1>2, <4>1
        <4> QED BY <1>2, <3>1, <4>1, <4>2 DEF NoStatus
      <3> QED BY <3>2, <3>3
    <2>3. NoStatus' /\ watcher'.heard = "none" =>
            /\ m.shows = Shown
            /\ \A i \in DOMAIN channel' : channel'[i].shows = Shown
      BY <1>2, <1>7, <1>8, <2>1, <2>2 DEF NewsRight
    <2>4. NoStatus' /\ watcher'.heard = "none" => (watcher'.online <=> IsOnline)
      BY <1>4, <2>1, <2>3
    <2> QED BY <1>1, <1>4, <1>7, <1>9, <2>1, <2>2, <2>3, <2>4 DEF NewsRight
  <1> QED BY <1>3, <1>10, <1>11

LEMMA PresenceStep ==
  ASSUME PresenceTypeOK, PresenceInv, [PresenceNext]_presenceVars
  PROVE  PresenceInv'
  <1>1. CASE UNCHANGED presenceVars
    BY <1>1 DEF presenceVars, PresenceInv, NewsRight, StatusAt, NoStatus, Quiet, Shown, IsOnline
  <1>2. ASSUME NEW c \in Connection, NEW on \in BOOLEAN,
               Connected(c, on) \/ SetActive(c, on) \/ LostConnection(c)
        PROVE  PresenceInv'
    BY <1>2, PublishStep DEF Connected, SetActive, LostConnection
  <1>3. ASSUME NEW c \in Connection, Announce(c)
        PROVE  PresenceInv'
    BY <1>3, AnnounceStep
  <1>4. CASE Watch
    <2>1. /\ watcher'.up /\ ~watcher'.ready /\ watcher'.heard = "none"
          /\ channel' = <<>> /\ snapshot'.at = "asked"
      BY <1>4 DEF Watch
    <2>2. NewsRight'
      BY <2>1 DEF NewsRight, StatusAt
    <2> QED BY <2>1, <2>2 DEF PresenceInv
  <1>5. CASE Unwatch
    <2>1. /\ ~watcher'.up /\ ~watcher'.ready /\ watcher'.heard = "none"
          /\ channel' = <<>> /\ snapshot'.at = "none"
      BY <1>5 DEF Unwatch, NoSnapshot
    <2> QED BY <2>1 DEF PresenceInv
  <1>6. CASE ReadOnlineUsers
    <2>1. /\ snapshot'.shows = Shown /\ Shown' = Shown /\ IsOnline' = IsOnline
          /\ snapshot.at = "asked" /\ UNCHANGED <<channel, watcher, publishing>>
      BY <1>6 DEF ReadOnlineUsers, Same, Shown, IsOnline
    <2>2. watcher.up
      BY <2>1 DEF PresenceInv
    <2>3. NewsRight => NewsRight'
      BY <2>1 DEF NewsRight, StatusAt, NoStatus
    <2> QED BY <2>1, <2>2, <2>3 DEF PresenceInv, Quiet
  <1>7. CASE EmitSnapshot
    BY <1>7, EmitStep
  <1>8. CASE Handle
    BY <1>8, HandleStep
  <1> QED BY <1>1, <1>2, <1>3, <1>4, <1>5, <1>6, <1>7, <1>8 DEF PresenceNext

-----------------------------------------------------------------------------
LEMMA PresenceStart == PresenceInit => PresenceTypeOK /\ PresenceInv
  <1> SUFFICES ASSUME PresenceInit PROVE PresenceTypeOK /\ PresenceInv
    OBVIOUS
  <1>1. PresenceTypeOK
    BY PresenceAssumption DEF PresenceInit, PresenceTypeOK, NoSnapshot, News
  <1>2. PresenceInv
    BY DEF PresenceInit, PresenceInv, NoSnapshot
  <1> QED BY <1>1, <1>2

\* What is on its way to the watcher is well formed, and once all is announced
\* its newest part is what the server knows.
THEOREM PresenceInvariant == PresenceSpec => [](PresenceTypeOK /\ PresenceInv)
  <1>1. (PresenceTypeOK /\ PresenceInv) /\ [PresenceNext]_presenceVars
          => (PresenceTypeOK /\ PresenceInv)'
    BY PresenceTypeStep, PresenceStep
  <1> QED BY <1>1, PresenceStart, PTL DEF PresenceSpec

\* When every announcement and the snapshot have arrived, the watcher shows what
\* the server knows.
THEOREM ViewSettles == PresenceSpec => []SettledViewIsRight
  <1>1. PresenceTypeOK /\ PresenceInv => SettledViewIsRight
    <2> SUFFICES ASSUME PresenceTypeOK, PresenceInv, watcher.ready, channel = <<>>, Quiet
                 PROVE  watcher.online <=> IsOnline
      BY DEF SettledViewIsRight, Quiet
    <2>1. watcher.up /\ NewsRight /\ NoStatus
      BY DEF PresenceInv, NoStatus, PresenceTypeOK
    <2>2. IsOnline <=> Shown = "online"
      BY DEF Shown
    <2>3. CASE watcher.heard = "none"
      BY <2>1, <2>3 DEF NewsRight
    <2>4. CASE watcher.heard # "none"
      BY <2>1, <2>2, <2>4 DEF NewsRight, PresenceInv
    <2> QED BY <2>3, <2>4
  <1> QED BY <1>1, PresenceInvariant, PTL

-----------------------------------------------------------------------------
(* Message history.                                                        *)

\* A copy shows what the operations it has met come to: it is deleted if one of
\* them was a deletion, and otherwise shows the last edit by stamp.
Right(c) ==
  /\ c.deleted <=> \E op \in c.taken : op.kind = "delete"
  /\ c.deleted => c.content = NoText
  /\ ~c.deleted => /\ c.content = c.editedAt
                   /\ c.editedAt = 0 \/ [kind |-> "edit", at |-> c.editedAt] \in c.taken
                   /\ \A op \in c.taken : op.at <= c.editedAt

RightCopy == {c \in Copy : Right(c)}
RightDelivery ==
  [kind : {"sent"}, of : Sent] \cup [kind : {"history"}, copy : RightCopy]

\* At most one copy, and a right one.
RightStore(copies) == copies \subseteq RightCopy /\ \A c, other \in copies : c = other

\* Every copy is right: those kept, those on their way to another device, and
\* those read for one.
HistoryInv ==
  /\ registered \subseteq Device
  /\ kept \in [Device -> SUBSET Copy]
  /\ \A d \in Device : RightStore(kept[d])
  /\ outgoing \in [OwnDevice -> SUBSET [of : Sent, kept : BOOLEAN]]
  /\ relayed \subseteq Sent
  /\ queue \in [Device -> Seq(RightDelivery)]
  /\ stored \subseteq Device /\ \A d \in stored : queue[d] # <<>>
  /\ transfers \subseteq [to : OwnDevice, copy : RightCopy]
  /\ reads \in 0..MaxTransfers

\* No text comes back to a store.
StaysDeleted(before, after) ==
  \A c \in before : c.deleted => \A now \in after : now.deleted /\ now.content = NoText

-----------------------------------------------------------------------------
\* The first copy of a message is right.
LEMMA FreshRight == Fresh \in RightCopy
  BY HistoryAssumption DEF Fresh, RightCopy, Copy, Right, Operation, Stamp

\* Merging the message into a right copy leaves what it shows.
LEMMA MergeRight ==
  ASSUME NEW c \in RightCopy
  PROVE  MergeMessage(c) \in RightCopy /\ (c.deleted => MergeMessage(c) = c)
  <1>1. c \in Copy /\ Right(c)
    BY DEF RightCopy
  <1>2. CASE c.deleted
    <2>1. c.content = NoText
      BY <1>1, <1>2 DEF Right
    <2>2. MergeMessage(c) = [c EXCEPT !.content = NoText]
      BY <1>2 DEF MergeMessage
    <2> QED BY <1>1, <2>1, <2>2 DEF RightCopy, Copy
  <1>3. CASE ~c.deleted
    <2>1. c.content = c.editedAt /\ c.editedAt \in 0..MaxStamp
      BY <1>1, <1>3 DEF Right, Copy
    <2>2. MergeMessage(c) = [c EXCEPT !.content = c.content]
      BY HistoryAssumption, <1>3, <2>1 DEF MergeMessage, Fresh
    <2> QED BY <1>1, <1>3, <2>2 DEF RightCopy, Copy
  <1> QED BY <1>2, <1>3

\* An operation on a right copy, deleted or not, stamped earlier or later than
\* those before it, leaves a right copy.
LEMMA OperationRight ==
  ASSUME NEW c \in RightCopy, NEW op \in Operation
  PROVE  Update(c, op) \in RightCopy
         /\ (c.deleted => Update(c, op).deleted /\ Update(c, op).content = NoText)
  <1> DEFINE d == Update(c, op)
  <1>1. c \in Copy /\ Right(c)
    BY DEF RightCopy
  <1>2. /\ op.kind \in {"edit", "delete"} /\ op.at \in 1..MaxStamp
        /\ op = [kind |-> op.kind, at |-> op.at]
    BY DEF Operation, Stamp
  <1>3. c.taken \cup {op} \in SUBSET Operation
    BY <1>1 DEF Copy
  <1>4. CASE op.kind = "delete"
    <2> DEFINE deleted == DeleteSpec(c, op)
    <2>1. /\ deleted.content = NoText /\ deleted.editedAt = c.editedAt
          /\ deleted.deleted = TRUE /\ deleted.taken = c.taken
          /\ deleted \in Copy
      BY <1>1 DEF DeleteSpec, Copy
    <2>2. d = [deleted EXCEPT !.taken = @ \cup {op}]
      BY <1>4 DEF Update
    <2> HIDE DEF d, deleted
    <2>3. /\ d.content = NoText /\ d.editedAt = c.editedAt /\ d.deleted = TRUE
          /\ d.taken = c.taken \cup {op} /\ d \in Copy
      BY <1>3, <2>1, <2>2 DEF Copy
    <2>4. Right(d)
      BY <1>4, <2>3 DEF Right
    <2> QED BY <2>3, <2>4 DEF d, RightCopy
  <1>5. CASE op.kind = "edit" /\ (c.deleted \/ c.editedAt >= op.at)
    <2>1. d = [content |-> c.content, editedAt |-> c.editedAt, deleted |-> c.deleted,
               taken |-> c.taken \cup {op}]
      BY <1>1, <1>5 DEF Update, EditSpec, Copy
    <2> HIDE DEF d
    <2>2. d \in Copy
      BY <1>1, <1>3, <2>1 DEF Copy
    <2>3. Right(d)
      <3>1. d.deleted <=> \E o \in d.taken : o.kind = "delete"
        BY <1>1, <1>5, <2>1 DEF Right
      <3>2. d.deleted => d.content = NoText
        BY <1>1, <2>1 DEF Right
      <3>3. ASSUME ~d.deleted
            PROVE  /\ d.content = d.editedAt
                   /\ d.editedAt = 0 \/ [kind |-> "edit", at |-> d.editedAt] \in d.taken
                   /\ \A o \in d.taken : o.at <= d.editedAt
        <4>1. ~c.deleted /\ c.editedAt \in 0..MaxStamp
          BY <1>1, <2>1, <3>3 DEF Copy
        <4>2. op.at <= d.editedAt
          BY HistoryAssumption, <1>2, <1>5, <2>1, <4>1
        <4> QED BY <1>1, <2>1, <4>1, <4>2 DEF Right
      <3> QED BY <3>1, <3>2, <3>3 DEF Right
    <2> QED BY <1>1, <2>1, <2>2, <2>3 DEF d, RightCopy, Right
  <1>6. CASE op.kind = "edit" /\ ~(c.deleted \/ c.editedAt >= op.at)
    <2>0. EditSpec(c, op) = [content |-> op.at, editedAt |-> op.at, deleted |-> c.deleted,
                             taken |-> c.taken]
      BY <1>1, <1>6 DEF EditSpec, Copy
    <2>1. d = [content |-> op.at, editedAt |-> op.at, deleted |-> c.deleted,
               taken |-> c.taken \cup {op}]
      BY <1>6, <2>0 DEF Update
    <2> HIDE DEF d
    <2>2. d \in Copy
      BY HistoryAssumption, <1>1, <1>2, <1>3, <2>1 DEF Copy
    <2>3. Right(d)
      <3>1. d.deleted <=> \E o \in d.taken : o.kind = "delete"
        BY <1>1, <1>6, <2>1 DEF Right
      <3>2. ASSUME NEW o \in d.taken
            PROVE  o.at <= d.editedAt
        <4>1. CASE o = op
          BY <1>2, <2>1, <4>1
        <4>2. CASE o \in c.taken
          <5>1. o.at <= c.editedAt /\ o \in Operation /\ c.editedAt \in 0..MaxStamp
            BY <1>1, <1>6, <4>2 DEF Right, Copy
          <5>2. o.at \in 1..MaxStamp
            BY <5>1 DEF Operation, Stamp
          <5> QED BY HistoryAssumption, <1>2, <1>6, <2>1, <5>1, <5>2
        <4> QED BY <2>1, <3>2, <4>1, <4>2
      <3>3. op = [kind |-> "edit", at |-> d.editedAt]
        BY <1>2, <1>6, <2>1
      <3>4. op \in d.taken /\ d.content = d.editedAt /\ ~d.deleted
        BY <1>1, <1>6, <2>1 DEF Copy
      <3> QED BY <3>1, <3>2, <3>3, <3>4 DEF Right
    <2> QED BY <1>6, <2>1, <2>2, <2>3 DEF d, RightCopy
  <1> QED BY <1>2, <1>4, <1>5, <1>6

LEMMA MessageOrOperation ==
  /\ \A of \in Sent : of # TheMessage => of \in Operation
  /\ TheMessage \in Sent
  BY DEF Sent

\* Storing a message or an operation keeps the store right and what is deleted
\* deleted.
LEMMA TakeKeepsRight ==
  ASSUME NEW copies, RightStore(copies), NEW of \in Sent
  PROVE  RightStore(Take(copies, of)) /\ StaysDeleted(copies, Take(copies, of))
  <1>1. CASE of # TheMessage
    <2>1. of \in Operation
      BY <1>1, MessageOrOperation
    <2>2. \A c \in copies : Update(c, of) \in RightCopy
            /\ (c.deleted => Update(c, of).deleted /\ Update(c, of).content = NoText)
      BY <2>1, OperationRight DEF RightStore
    <2>3. Take(copies, of) = {Update(c, of) : c \in copies}
      BY <1>1 DEF Take
    <2> QED BY <2>2, <2>3 DEF RightStore, StaysDeleted
  <1>2. CASE of = TheMessage /\ copies = {}
    BY <1>2, FreshRight DEF Take, RightStore, StaysDeleted
  <1>3. CASE of = TheMessage /\ copies # {}
    <2>1. Take(copies, of) = {MergeMessage(c) : c \in copies}
      BY <1>3 DEF Take
    <2>2. \A c \in copies : MergeMessage(c) \in RightCopy /\ (c.deleted => MergeMessage(c) = c)
      BY MergeRight DEF RightStore
    <2>3. \A c \in copies : c.deleted => c.content = NoText
      BY DEF RightStore, RightCopy, Right
    <2> QED BY <2>1, <2>2, <2>3 DEF RightStore, StaysDeleted
  <1> QED BY <1>1, <1>2, <1>3

LEMMA TakeHistoryKeepsRight ==
  ASSUME NEW copies, RightStore(copies), NEW c \in RightCopy
  PROVE  RightStore(TakeHistory(copies, c)) /\ StaysDeleted(copies, TakeHistory(copies, c))
  BY DEF TakeHistory, RightStore, StaysDeleted, RightCopy, Right

-----------------------------------------------------------------------------
LEMMA HistoryInitially == HistoryInit => HistoryInv
  <1> SUFFICES ASSUME HistoryInit PROVE HistoryInv
    OBVIOUS
  <1>1. \A d \in Device : RightStore(kept[d])
    BY DEF HistoryInit, RightStore
  <1>2. outgoing \in [OwnDevice -> SUBSET [of : Sent, kept : BOOLEAN]]
    <2>1. [of |-> TheMessage, kept |-> FALSE] \in [of : Sent, kept : BOOLEAN]
      BY MessageOrOperation
    <2> QED BY <2>1 DEF HistoryInit
  <1>3. queue \in [Device -> Seq(RightDelivery)]
    BY DEF HistoryInit
  <1> QED BY HistoryAssumption, <1>1, <1>2, <1>3 DEF HistoryInit, HistoryInv

\* What a step of d does to what is kept, if it does no more than that.
LEMMA KeepStep ==
  ASSUME HistoryInv, NEW d \in Device, NEW after, RightStore(after),
         StaysDeleted(kept[d], after), kept' = [kept EXCEPT ![d] = after]
  PROVE  /\ kept' \in [Device -> SUBSET Copy]
         /\ \A x \in Device : RightStore(kept'[x]) /\ StaysDeleted(kept[x], kept'[x])
  <1>1. after \in SUBSET Copy
    BY DEF RightStore, RightCopy
  <1>2. \A x \in Device : StaysDeleted(kept[x], kept[x])
    BY DEF HistoryInv, RightStore, RightCopy, Right, StaysDeleted
  <1> QED BY <1>1, <1>2 DEF HistoryInv

LEMMA QueueForRight ==
  ASSUME HistoryInv, NEW devices, NEW delivery \in RightDelivery,
         QueueFor(devices, delivery)
  PROVE  /\ queue' \in [Device -> Seq(RightDelivery)]
         /\ \A d \in stored : queue'[d] # <<>>
  <1>1. ASSUME NEW d \in Device
        PROVE  queue'[d] \in Seq(RightDelivery) /\ (d \in stored => queue'[d] # <<>>)
    <2>1. queue[d] \in Seq(RightDelivery)
      BY DEF HistoryInv
    <2>2. Append(queue[d], delivery) \in Seq(RightDelivery) /\ Append(queue[d], delivery) # <<>>
      BY <2>1
    <2>3. queue'[d] = IF d \in devices THEN Append(queue[d], delivery) ELSE queue[d]
      BY DEF QueueFor
    <2> QED BY <2>1, <2>2, <2>3 DEF HistoryInv
  <1>2. stored \subseteq Device
    BY DEF HistoryInv
  <1> QED BY <1>1, <1>2 DEF QueueFor

\* Nothing kept changes: the store stays right.
LEMMA KeptUnchanged ==
  ASSUME HistoryInv, UNCHANGED kept
  PROVE  /\ kept' \in [Device -> SUBSET Copy]
         /\ \A d \in Device : RightStore(kept'[d]) /\ StaysDeleted(kept[d], kept'[d])
  BY DEF HistoryInv, RightStore, RightCopy, Right, StaysDeleted

LEMMA HistoryStep ==
  ASSUME HistoryInv, [HistoryNext]_historyVars
  PROVE  HistoryInv' /\ \A d \in Device : StaysDeleted(kept[d], kept'[d])
  <1> USE HistoryAssumption
  <1>1. CASE UNCHANGED historyVars
    <2>1. UNCHANGED kept
      BY <1>1 DEF historyVars
    <2> QED BY <1>1, <2>1, KeptUnchanged DEF historyVars, HistoryInv
  <1>2. ASSUME NEW d \in OwnDevice, NEW op \in Operation, Operate(d, op)
        PROVE  HistoryInv' /\ \A x \in Device : StaysDeleted(kept[x], kept'[x])
    <2>1. [of |-> op, kept |-> FALSE] \in [of : Sent, kept : BOOLEAN]
      BY DEF Sent
    <2>2. outgoing' \in [OwnDevice -> SUBSET [of : Sent, kept : BOOLEAN]]
      BY <1>2, <2>1 DEF Operate, HistoryInv
    <2> QED BY <1>2, <2>2, KeptUnchanged DEF Operate, HistoryInv
  <1>3. ASSUME NEW d \in OwnDevice, NEW entry \in outgoing[d], Persist(d, entry)
        PROVE  HistoryInv' /\ \A x \in Device : StaysDeleted(kept[x], kept'[x])
    <2>1. entry \in [of : Sent, kept : BOOLEAN] /\ entry.of \in Sent /\ d \in Device
      BY DEF HistoryInv
    <2>2. outgoing' \in [OwnDevice -> SUBSET [of : Sent, kept : BOOLEAN]]
      BY <1>3, <2>1 DEF Persist, HistoryInv
    <2>3. RightStore(Take(kept[d], entry.of)) /\ StaysDeleted(kept[d], Take(kept[d], entry.of))
      BY <2>1, TakeKeepsRight DEF HistoryInv
    <2>4. kept' = [kept EXCEPT ![d] = Take(kept[d], entry.of)]
      BY <1>3, <2>1 DEF Persist, HistoryInv
    <2>5. /\ kept' \in [Device -> SUBSET Copy]
          /\ \A x \in Device : RightStore(kept'[x]) /\ StaysDeleted(kept[x], kept'[x])
      BY <2>1, <2>3, <2>4, KeepStep
    <2> QED BY <1>3, <2>2, <2>5 DEF Persist, HistoryInv
  <1>4. ASSUME NEW d \in OwnDevice, NEW entry \in outgoing[d], Upload(d, entry)
        PROVE  HistoryInv' /\ \A x \in Device : StaysDeleted(kept[x], kept'[x])
    <2>1. entry.of \in Sent
      BY DEF HistoryInv
    <2>2. [kind |-> "sent", of |-> entry.of] \in RightDelivery
      BY <2>1 DEF RightDelivery
    <2>3. queue' \in [Device -> Seq(RightDelivery)] /\ \A x \in stored : queue'[x] # <<>>
      BY <1>4, <2>2, QueueForRight DEF Upload
    <2> QED BY <1>4, <2>1, <2>3, KeptUnchanged DEF Upload, HistoryInv
  <1>5. ASSUME NEW d \in OwnDevice, NEW entry \in outgoing[d],
               Settle(d, entry) \/ Reject(d, entry)
        PROVE  HistoryInv' /\ \A x \in Device : StaysDeleted(kept[x], kept'[x])
    <2>1. outgoing' \in [OwnDevice -> SUBSET [of : Sent, kept : BOOLEAN]]
      BY <1>5 DEF Settle, Reject, HistoryInv
    <2> QED BY <1>5, <2>1, KeptUnchanged DEF Settle, Reject, HistoryInv
  <1>6. CASE RegisterLate
    BY <1>6, KeptUnchanged DEF RegisterLate, HistoryInv
  <1>7. ASSUME NEW d \in OwnDevice, NEW to \in OwnDevice, ReadHistory(d, to)
        PROVE  HistoryInv' /\ \A x \in Device : StaysDeleted(kept[x], kept'[x])
    <2>1. kept[d] \subseteq RightCopy
      BY DEF HistoryInv, RightStore
    <2>2. transfers' \subseteq [to : OwnDevice, copy : RightCopy]
      BY <1>7, <2>1 DEF ReadHistory, HistoryInv
    <2>3. reads' \in 0..MaxTransfers
      BY <1>7 DEF ReadHistory, HistoryInv
    <2> QED BY <1>7, <2>2, <2>3, KeptUnchanged DEF ReadHistory, HistoryInv
  <1>8. ASSUME NEW transfer \in transfers, SendHistory(transfer)
        PROVE  HistoryInv' /\ \A x \in Device : StaysDeleted(kept[x], kept'[x])
    <2>1. [kind |-> "history", copy |-> transfer.copy] \in RightDelivery
      BY DEF HistoryInv, RightDelivery
    <2>2. queue' \in [Device -> Seq(RightDelivery)] /\ \A x \in stored : queue'[x] # <<>>
      BY <1>8, <2>1, QueueForRight DEF SendHistory
    <2> QED BY <1>8, <2>2, KeptUnchanged DEF SendHistory, HistoryInv
  <1>9. ASSUME NEW d \in Device, Receive(d)
        PROVE  HistoryInv' /\ \A x \in Device : StaysDeleted(kept[x], kept'[x])
    <2> DEFINE delivery == Head(queue[d])
               after == IF delivery.kind = "history" THEN TakeHistory(kept[d], delivery.copy)
                        ELSE Take(kept[d], delivery.of)
    <2>1. delivery \in RightDelivery
      BY <1>9 DEF Receive, HistoryInv
    <2>2. RightStore(after) /\ StaysDeleted(kept[d], after)
      <3>1. CASE delivery.kind = "history"
        <4>1. delivery.copy \in RightCopy
          BY <2>1, <3>1 DEF RightDelivery
        <4> QED BY <3>1, <4>1, TakeHistoryKeepsRight DEF HistoryInv
      <3>2. CASE delivery.kind # "history"
        <4>1. delivery.of \in Sent
          BY <2>1, <3>2 DEF RightDelivery
        <4> QED BY <3>2, <4>1, TakeKeepsRight DEF HistoryInv
      <3> QED BY <3>1, <3>2
    <2>3. kept' = [kept EXCEPT ![d] = after]
      BY <1>9 DEF Receive, HistoryInv
    <2> HIDE DEF after
    <2>4. /\ kept' \in [Device -> SUBSET Copy]
          /\ \A x \in Device : RightStore(kept'[x]) /\ StaysDeleted(kept[x], kept'[x])
      BY <2>2, <2>3, KeepStep
    <2> QED BY <1>9, <2>4 DEF Receive, HistoryInv
  <1>10. ASSUME NEW d \in Device, Acknowledge(d) \/ Restart(d)
         PROVE  HistoryInv' /\ \A x \in Device : StaysDeleted(kept[x], kept'[x])
    <2>1. CASE Acknowledge(d)
      <3>1. Tail(queue[d]) \in Seq(RightDelivery)
        BY <2>1 DEF Acknowledge, HistoryInv
      <3>2. queue' \in [Device -> Seq(RightDelivery)]
        BY <2>1, <3>1 DEF Acknowledge, HistoryInv
      <3> QED BY <2>1, <3>2, KeptUnchanged DEF Acknowledge, HistoryInv
    <2>2. CASE Restart(d)
      BY <2>2, KeptUnchanged DEF Restart, HistoryInv
    <2> QED BY <1>10, <2>1, <2>2 DEF HistoryInv
  <1> QED BY <1>1, <1>2, <1>3, <1>4, <1>5, <1>6, <1>7, <1>8, <1>9, <1>10
          DEF HistoryNext, AuthorStep, ReaderStep

-----------------------------------------------------------------------------
LEMMA HistoryAlways == HistorySpec => []HistoryInv
  <1>1. HistoryInit => HistoryInv
    BY HistoryInitially
  <1>2. HistoryInv /\ [HistoryNext]_historyVars => HistoryInv'
    BY HistoryStep
  <1> QED BY <1>1, <1>2, PTL DEF HistorySpec

\* Whatever edits, retries, redeliveries and histories of other devices follow,
\* no device that has deleted the message shows its text again.
THEOREM DeletedStaysDeleted == HistorySpec => DeletionIsFinal
  <1>1. HistoryInv /\ [HistoryNext]_historyVars =>
          [\A d \in Device : \A c \in kept[d] : c.deleted =>
             \A now \in kept'[d] : now.deleted /\ now.content = NoText]_historyVars
    BY HistoryStep DEF StaysDeleted
  <1> QED BY <1>1, HistoryAlways, PTL DEF HistorySpec, DeletionIsFinal

\* Two right copies that have met the same operations show the same message.
LEMMA RightCopiesAgree ==
  ASSUME NEW c \in RightCopy, NEW o \in RightCopy, c.taken = o.taken
  PROVE  c.content = o.content /\ c.deleted = o.deleted
  <1>1. Right(c) /\ Right(o) /\ c \in Copy /\ o \in Copy
    BY DEF RightCopy
  <1>2. c.deleted = o.deleted
    BY <1>1 DEF Right, Copy
  <1>3. CASE c.deleted
    BY <1>1, <1>2, <1>3 DEF Right
  <1>4. CASE ~c.deleted
    <2>1. c.editedAt \in 0..MaxStamp /\ o.editedAt \in 0..MaxStamp
      BY <1>1 DEF Copy
    <2>2. c.editedAt <= o.editedAt /\ o.editedAt <= c.editedAt
      BY HistoryAssumption, <1>1, <1>2, <1>4, <2>1 DEF Right
    <2> QED BY HistoryAssumption, <1>1, <1>2, <1>4, <2>1, <2>2 DEF Right
  <1> QED BY <1>2, <1>3, <1>4

\* For any devices, stamps and orders of delivery, devices that have met the
\* same operations show the same message.
THEOREM OperationsConverge == HistorySpec => []SameOperationsSameMessage
  <1>1. HistoryInv => SameOperationsSameMessage
    BY RightCopiesAgree DEF HistoryInv, RightStore, SameOperationsSameMessage
  <1> QED BY <1>1, HistoryAlways, PTL
==============================================================================
