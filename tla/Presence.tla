------------------------------- MODULE Presence -------------------------------
(***************************************************************************)
(* Who is online: utils/presence.js at the server, and the events as the   *)
(* client of somebody else merges them (messageStore.js).                  *)
(*                                                                         *)
(* One process: a publication looks at the sockets of the user when it     *)
(* announces them, after any number of awaits.  A snapshot is read, waits  *)
(* for the database, and reaches the watching client behind the            *)
(* announcements made meanwhile.                                           *)
(*                                                                         *)
(* Abstracted: one watched user and one watcher; times of last activity.   *)
(***************************************************************************)
EXTENDS Naturals, Sequences, FiniteSets

CONSTANTS
  Connection,  \* connections of the watched user, each made once
  MaxChange,   \* bound: changes between foreground and background
  MaxWatch     \* bound: connections of the watcher

ASSUME PresenceAssumption == MaxChange \in Nat /\ MaxWatch \in Nat

VARIABLES
  conn,        \* [Connection -> "new", "open" or "gone"]
  presenceActive,      \* [Connection -> socket.data.presenceActive]
  publishing,  \* [Connection -> publications under way]
  snapshot,    \* the snapshot on its way to the watcher
  channel,     \* events emitted to the watcher, not yet handled
  watcher,     \* the watcher's client
  changes,     \* changes between foreground and background so far
  watches      \* connections of the watcher so far

presenceVars ==
  <<conn, presenceActive, publishing, snapshot, channel, watcher, changes, watches>>

News == {"none", "online", "offline"}
Event == [ev : {"status", "snapshot"}, shows : News]

\* What is on its way, and what the watcher shows, is about one user.
PresenceTypeOK ==
  /\ conn \in [Connection -> {"new", "open", "gone"}]
  /\ presenceActive \in [Connection -> BOOLEAN]
  /\ publishing \in [Connection -> Nat]
  /\ snapshot \in [at : {"none", "asked", "read"}, shows : News]
  /\ channel \in Seq(Event)
  /\ watcher \in [up : BOOLEAN, ready : BOOLEAN, online : BOOLEAN, heard : News]
  /\ changes \in 0..MaxChange /\ watches \in 0..MaxWatch

NoSnapshot == [at |-> "none", shows |-> "none"]

PresenceInit ==
  /\ conn = [c \in Connection |-> "new"]
  /\ presenceActive = [c \in Connection |-> FALSE]
  /\ publishing = [c \in Connection |-> 0]
  /\ snapshot = NoSnapshot
  /\ channel = <<>>
  /\ watcher = [up |-> FALSE, ready |-> FALSE, online |-> FALSE, heard |-> "none"]
  /\ changes = 0 /\ watches = 0

IsOnline == \E c \in Connection : conn[c] = "open" /\ presenceActive[c]
Shown == IF IsOnline THEN "online" ELSE "offline"

Publish(c) == publishing' = [publishing EXCEPT ![c] = @ + 1]

Watched == UNCHANGED <<snapshot, channel, watcher, watches>>

-----------------------------------------------------------------------------
(* The watched user.                                                       *)

Connected(c, on) ==
  /\ conn[c] = "new"
  /\ conn' = [conn EXCEPT ![c] = "open"]
  /\ presenceActive' = [presenceActive EXCEPT ![c] = on]
  /\ Publish(c)
  /\ UNCHANGED changes /\ Watched

\* A heartbeat may repeat what is known.
SetActive(c, on) ==
  /\ conn[c] = "open" /\ changes < MaxChange
  /\ presenceActive' = [presenceActive EXCEPT ![c] = on]
  /\ changes' = changes + 1
  /\ Publish(c)
  /\ UNCHANGED conn /\ Watched

LostConnection(c) ==
  /\ conn[c] = "open"
  /\ conn' = [conn EXCEPT ![c] = "gone"]
  /\ presenceActive' = [presenceActive EXCEPT ![c] = FALSE]
  /\ Publish(c)
  /\ UNCHANGED changes /\ Watched

\* The announcement reaches every connected client.
Announce(c) ==
  /\ publishing[c] > 0
  /\ publishing' = [publishing EXCEPT ![c] = @ - 1]
  /\ channel' = IF watcher.up THEN Append(channel, [ev |-> "status", shows |-> Shown])
                ELSE channel
  /\ UNCHANGED <<conn, presenceActive, snapshot, watcher, changes, watches>>

-----------------------------------------------------------------------------
(* The watcher.                                                            *)

Same == UNCHANGED <<conn, presenceActive, publishing, changes>>

\* "connect": what was known is forgotten until the snapshot comes.
Watch ==
  /\ ~watcher.up /\ watches < MaxWatch
  /\ watches' = watches + 1
  /\ watcher' = [up |-> TRUE, ready |-> FALSE, online |-> FALSE, heard |-> "none"]
  /\ snapshot' = [at |-> "asked", shows |-> "none"]
  /\ channel' = <<>>
  /\ Same

\* The sockets are read, then their accounts.
ReadOnlineUsers ==
  /\ snapshot.at = "asked"
  /\ snapshot' = [at |-> "read", shows |-> Shown]
  /\ UNCHANGED <<channel, watcher, watches>> /\ Same

EmitSnapshot ==
  /\ snapshot.at = "read"
  /\ snapshot' = NoSnapshot
  /\ channel' = Append(channel, [ev |-> "snapshot", shows |-> snapshot.shows])
  /\ UNCHANGED <<watcher, watches>> /\ Same

Unwatch ==
  /\ watcher.up
  /\ watcher' = [up |-> FALSE, ready |-> FALSE, online |-> FALSE, heard |-> "none"]
  /\ snapshot' = NoSnapshot
  /\ channel' = <<>>
  /\ UNCHANGED watches /\ Same

StatusChanged(m) ==
  watcher' = [watcher EXCEPT !.online = (m.shows = "online"), !.heard = m.shows]

\* Mutant of PresenceSnapshot: it replaces what was heard since the connection.
PresenceSnapshotAlone(m) ==
  watcher' = [watcher EXCEPT !.ready = TRUE, !.online = (m.shows = "online")]

\* Events since the connection are newer than the snapshot.
PresenceSnapshot(m) ==
  watcher' = [watcher EXCEPT !.ready = TRUE,
    !.online = IF watcher.heard = "none" THEN m.shows = "online"
               ELSE watcher.heard = "online"]

Handle ==
  /\ channel # <<>>
  /\ LET m == Head(channel) IN
       IF m.ev = "status" THEN StatusChanged(m) ELSE PresenceSnapshot(m)
  /\ channel' = Tail(channel)
  /\ UNCHANGED <<snapshot, watches>> /\ Same

PresenceNext ==
  \/ \E c \in Connection : \/ \E on \in BOOLEAN : Connected(c, on) \/ SetActive(c, on)
                           \/ LostConnection(c) \/ Announce(c)
  \/ Watch \/ Unwatch \/ ReadOnlineUsers \/ EmitSnapshot \/ Handle

PresenceSpec == PresenceInit /\ [][PresenceNext]_presenceVars

-----------------------------------------------------------------------------
\* When every announcement and the snapshot have arrived, the watcher shows what
\* the server knows, in whichever order they were read, emitted and handled.
SettledViewIsRight ==
  /\ watcher.ready /\ channel = <<>> /\ \A c \in Connection : publishing[c] = 0
  => (watcher.online <=> IsOnline)
==============================================================================
