---------------------------- MODULE MessageHistory ----------------------------
(***************************************************************************)
(* One encrypted message as the devices of its conversation keep it: how   *)
(* messageStore.js merges the message, its edits and its deletion, and how *)
(* secureMessaging.js gives a device the history of another of the same    *)
(* owner.                                                                  *)
(*                                                                         *)
(* Deliveries wait for each device in the relay's order.  Operations carry *)
(* the clock of the device that made them, so that stamps need not follow  *)
(* the order of the edits.                                                 *)
(*                                                                         *)
(* Abstracted: the text of an edit is its stamp, the original text is 0;   *)
(* no two operations have the same stamp; reactions, media files and the   *)
(* refusal of the message itself.  The relay's checks are SecureRelay's.   *)
(***************************************************************************)
EXTENDS Naturals, Sequences

CONSTANTS
  Device,        \* the devices of the conversation
  OwnDevice,     \* those of the message's author
  Writer,        \* the one the message is written on
  LateDevice,    \* one that registers later
  MaxStamp,      \* bound: operations are stamped 1..MaxStamp
  MaxTransfers,  \* bound: copies read for another device
  NoText         \* the content of a deleted message

ASSUME HistoryAssumption ==
  /\ OwnDevice \subseteq Device /\ Writer \in OwnDevice
  /\ LateDevice \in OwnDevice \ {Writer}
  /\ MaxStamp \in Nat /\ MaxTransfers \in Nat
  /\ NoText \notin Nat

VARIABLES
  registered,  \* devices the relay knows
  kept,        \* [Device -> the stored copies of the message]
  outgoing,    \* [OwnDevice -> entries of its outbox]
  relayed,    \* what the relay has accepted
  queue,       \* [Device -> deliveries waiting for it, in order]
  stored,      \* devices that have stored the first of them, not marked it
  transfers,   \* copies read for another device, not yet sent
  reads        \* how many were read so far

historyVars ==
  <<registered, kept, outgoing, relayed, queue, stored, transfers, reads>>

Stamp == 1..MaxStamp
Operation == [kind : {"edit", "delete"}, at : Stamp]
TheMessage == [kind |-> "message", at |-> 0]
Sent == Operation \cup {TheMessage}

\* "taken" is not in the program: the operations this copy has met.
Copy == [content : {NoText} \cup 0..MaxStamp, editedAt : 0..MaxStamp,
         deleted : BOOLEAN, taken : SUBSET Operation]
Delivery == [kind : {"sent"}, of : Sent] \cup [kind : {"history"}, copy : Copy]

\* A device keeps one copy, and its outbox one entry of an operation.
HistoryTypeOK ==
  /\ registered \subseteq Device
  /\ kept \in [Device -> SUBSET Copy]
  /\ \A d \in Device : \A c, other \in kept[d] : c = other
  /\ outgoing \in [OwnDevice -> SUBSET [of : Sent, kept : BOOLEAN]]
  /\ relayed \subseteq Sent
  /\ queue \in [Device -> Seq(Delivery)]
  /\ stored \subseteq Device
  /\ transfers \subseteq [to : OwnDevice, copy : Copy]
  /\ reads \in 0..MaxTransfers

HistoryInit ==
  /\ registered = Device \ {LateDevice}
  /\ kept = [d \in Device |-> {}]
  /\ outgoing = [d \in OwnDevice |->
                   IF d = Writer THEN {[of |-> TheMessage, kept |-> FALSE]} ELSE {}]
  /\ relayed = {}
  /\ queue = [d \in Device |-> <<>>]
  /\ stored = {}
  /\ transfers = {} /\ reads = 0

Holds(d) == kept[d] # {}

-----------------------------------------------------------------------------
(* What a delivery does to the stored copy.                                *)

Fresh == [content |-> 0, editedAt |-> 0, deleted |-> FALSE, taken |-> {}]

\* Mutant of MergeMessage: a message that comes again loses its edit.
MergeMessageAnew(c) ==
  [c EXCEPT !.content = IF c.deleted THEN NoText ELSE Fresh.content]

\* A message that is kept already keeps its edit and its deletion.
MergeMessage(c) ==
  [c EXCEPT !.content = IF c.deleted THEN NoText
                        ELSE IF c.editedAt > 0 THEN @ ELSE Fresh.content]

\* Mutant of EditSpec: a deleted message can be edited.
EditSpecAfterDeletion(c, op) ==
  IF c.editedAt >= op.at THEN c
  ELSE [c EXCEPT !.content = op.at, !.editedAt = op.at]

EditSpec(c, op) ==
  IF c.deleted \/ c.editedAt >= op.at THEN c
  ELSE [c EXCEPT !.content = op.at, !.editedAt = op.at]

DeleteSpec(c, op) == [c EXCEPT !.content = NoText, !.deleted = TRUE]

Update(c, op) ==
  [(IF op.kind = "edit" THEN EditSpec(c, op) ELSE DeleteSpec(c, op))
     EXCEPT !.taken = @ \cup {op}]

\* An operation on a message the device does not have is lost to it.
Take(copies, of) ==
  IF of # TheMessage THEN {Update(c, of) : c \in copies}
  ELSE IF copies = {} THEN {Fresh} ELSE {MergeMessage(c) : c \in copies}

\* History is stored only where there is no copy.
TakeHistory(copies, c) == IF copies = {} THEN {c} ELSE copies

-----------------------------------------------------------------------------
(* The author's devices.                                                   *)

InOutbox(d) == {entry.of : entry \in outgoing[d]}
Known == relayed \cup UNION {InOutbox(d) : d \in OwnDevice}
           \cup UNION {c.taken : c \in UNION {kept[d] : d \in Device}}

\* The menu was opened on a message that is not being sent from here; the copy
\* may have changed since.
Operate(d, op) ==
  /\ Holds(d) /\ TheMessage \notin InOutbox(d)
  /\ \A other \in Known : other.at # op.at
  /\ outgoing' = [outgoing EXCEPT ![d] = @ \cup {[of |-> op, kept |-> FALSE]}]
  /\ UNCHANGED <<registered, kept, relayed, queue, stored, transfers, reads>>

\* Every attempt to send stores what it sends on the device first, once more.
Persist(d, entry) ==
  /\ entry \in outgoing[d]
  /\ kept' = [kept EXCEPT ![d] = Take(@, entry.of)]
  /\ outgoing' = [outgoing EXCEPT
       ![d] = (@ \ {entry}) \cup {[entry EXCEPT !.kept = TRUE]}]
  /\ UNCHANGED <<registered, relayed, queue, stored, transfers, reads>>

QueueFor(devices, delivery) ==
  queue' = [d \in Device |->
              IF d \in devices THEN Append(queue[d], delivery) ELSE queue[d]]

\* The entry stays until the reply has come.
Upload(d, entry) ==
  /\ entry \in outgoing[d] /\ entry.kept /\ d \in registered
  /\ entry.of \notin relayed
  /\ entry.of = TheMessage \/ TheMessage \in relayed
  /\ relayed' = relayed \cup {entry.of}
  /\ QueueFor(registered \ {d}, [kind |-> "sent", of |-> entry.of])
  /\ UNCHANGED <<registered, kept, outgoing, stored, transfers, reads>>

Settle(d, entry) ==
  /\ entry \in outgoing[d] /\ entry.of \in relayed
  /\ outgoing' = [outgoing EXCEPT ![d] = @ \ {entry}]
  /\ UNCHANGED <<registered, kept, relayed, queue, stored, transfers, reads>>

\* The relay does not have the message, or refuses for another reason: the
\* entry fails for good, what it changed here stays.
Reject(d, entry) ==
  /\ entry \in outgoing[d] /\ entry.kept
  /\ entry.of \notin relayed \cup {TheMessage}
  /\ outgoing' = [outgoing EXCEPT ![d] = @ \ {entry}]
  /\ UNCHANGED <<registered, kept, relayed, queue, stored, transfers, reads>>

-----------------------------------------------------------------------------
(* Another device of the author.                                           *)

RegisterLate ==
  /\ LateDevice \notin registered
  /\ registered' = registered \cup {LateDevice}
  /\ UNCHANGED <<kept, outgoing, relayed, queue, stored, transfers, reads>>

\* A queued message is read as well; the copy says nothing of that.
ReadHistory(from, to) ==
  /\ {from, to} \subseteq registered /\ from # to
  /\ reads < MaxTransfers
  /\ \E c \in kept[from] : transfers' = transfers \cup {[to |-> to, copy |-> c]}
  /\ reads' = reads + 1
  /\ UNCHANGED <<registered, kept, outgoing, relayed, queue, stored>>

SendHistory(transfer) ==
  /\ transfers' = transfers \ {transfer}
  /\ QueueFor({transfer.to}, [kind |-> "history", copy |-> transfer.copy])
  /\ UNCHANGED <<registered, kept, outgoing, relayed, stored, reads>>

-----------------------------------------------------------------------------
(* Every device reads its queue.                                           *)

Receive(d) ==
  /\ queue[d] # <<>> /\ d \notin stored
  /\ LET delivery == Head(queue[d]) IN
       kept' = [kept EXCEPT
         ![d] = IF delivery.kind = "history" THEN TakeHistory(@, delivery.copy)
                ELSE Take(@, delivery.of)]
  /\ stored' = stored \cup {d}
  /\ UNCHANGED <<registered, outgoing, relayed, queue, transfers, reads>>

\* The marker and the acknowledgement.
Acknowledge(d) ==
  /\ d \in stored
  /\ stored' = stored \ {d}
  /\ queue' = [queue EXCEPT ![d] = Tail(@)]
  /\ UNCHANGED <<registered, kept, outgoing, relayed, transfers, reads>>

\* Stopped before the marker was written: the delivery is read again.
Restart(d) ==
  /\ d \in stored
  /\ stored' = stored \ {d}
  /\ UNCHANGED <<registered, kept, outgoing, relayed, queue, transfers, reads>>

AuthorStep(d) ==
  \/ \E op \in Operation : Operate(d, op)
  \/ \E entry \in outgoing[d] :
       Persist(d, entry) \/ Upload(d, entry) \/ Settle(d, entry) \/ Reject(d, entry)
  \/ \E to \in OwnDevice : ReadHistory(d, to)

ReaderStep(d) == Receive(d) \/ Acknowledge(d) \/ Restart(d)

HistoryNext ==
  \/ \E d \in OwnDevice : AuthorStep(d)
  \/ RegisterLate
  \/ \E transfer \in transfers : SendHistory(transfer)
  \/ \E d \in Device : ReaderStep(d)

HistorySpec == HistoryInit /\ [][HistoryNext]_historyVars

-----------------------------------------------------------------------------
(* What a device keeps.                                                    *)

\* Once a deletion has reached a device, nothing brings the text back there:
\* no edit stamped later, no redelivered or retried message, no history of
\* another device.  mergeMessage, editOperationSpec, storeDeviceHistory.
DeletionIsFinal ==
  [][\A d \in Device : \A c \in kept[d] : c.deleted =>
       \A now \in kept'[d] : now.deleted /\ now.content = NoText]_historyVars

\* Devices whose copies have met the same operations show the same message, in
\* whatever order these came, however often they were stored again, and whether
\* through the queue or within another device's copy.
SameOperationsSameMessage ==
  \A d, e \in Device : \A c \in kept[d], o \in kept[e] :
    c.taken = o.taken => c.content = o.content /\ c.deleted = o.deleted
==============================================================================
