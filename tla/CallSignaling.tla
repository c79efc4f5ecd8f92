---------------------------- MODULE CallSignaling ----------------------------
(***************************************************************************)
(* Calls in a direct chat: the client's call store (mobile callStore.js),  *)
(* the signaling handlers of server.js, and the server's tables of active  *)
(* and pending calls (callInfrastructure.js, without Redis: one process).  *)
(*                                                                         *)
(* An event a phone emits is a request: a handler that waits for its first *)
(* database read and may be overtaken by later ones.  What the server      *)
(* emits reaches a socket in order, survives a recovered connection and is *)
(* lost with a socket that is replaced.                                    *)
(*                                                                         *)
(* Abstracted: time (a timer may fire whenever it is set), media, ICE      *)
(* candidates, group calls, native call screens.  Two peer connections     *)
(* connect if each has the description of the other.                       *)
(***************************************************************************)
EXTENDS Naturals, SequencesExt

CONSTANTS
  Phone, Party, PartyOf,  \* devices, the two participants, and whose is which
  CallId, CallerOf,       \* calls, and the phone that places each
  NoId,                   \* no call, or no phone
  MaxSockets,             \* [Phone -> Nat]: bound, connections of a phone
  MaxTrouble              \* bound: hang-ups, failures, blocks, lost connections

ASSUME CallAssumption ==
  /\ PartyOf \in [Phone -> Party]
  /\ \E u, v \in Party : Party = {u, v}
  /\ CallerOf \in [CallId -> Phone]
  /\ NoId \notin CallId \cup Phone
  /\ MaxSockets \in [Phone -> Nat \ {0}]
  /\ MaxTrouble \in Nat

VARIABLES
  phone,     \* [Phone -> the call store of the phone]
  mail,      \* [Phone -> events emitted to its socket, not yet delivered]
  requests,  \* events being handled by the server
  linked,    \* sockets the server takes for connected
  active,    \* [Socket -> calls registered for it]: activeCallsBySocket
  grace,     \* sockets with a timer: callDisconnectTimers
  pending,   \* [Party -> calls replayed to a new socket]: localPendingCalls
  blocked,   \* whether the participants have blocked each other
  settled,   \* history: <<call, phone whose answer or refusal was handled>>
  placed,    \* call identifiers generated so far, some before the model starts
  attended,  \* phones somebody can answer a call on
  trouble    \* hang-ups, failures, blocks and lost connections so far

serverVars == <<linked, active, grace, pending, blocked, settled>>
callBounds == <<placed, attended, trouble>>
callVars == <<phone, mail, requests, serverVars, callBounds>>

Socket == UNION {{d} \X (1..MaxSockets[d]) : d \in Phone}
MailEvent == {"incoming", "answered", "offer", "declined", "ended"}
Mail == [ev : MailEvent, call : CallId, from : Phone \cup {NoId}]
Request == [ev : {"invite", "save", "answer", "offer", "resume", "decline", "end"},
            call : CallId, socket : Socket]
Status == {"none", "ringing", "connecting", "connected", "reconnecting",
           "declined", "ended"}
Task == [kind : {"start", "accept"},
         at : {"capture", "native", "peer", "answer"}, call : CallId,
         fresh : BOOLEAN]

NoCall == [id |-> NoId, dir |-> "none", status |-> "none"]
NoPeer == [id |-> NoId, sig |-> "none", with |-> NoId]

\* Every table of the server and of the phones holds what it is made for.
CallTypeOK ==
  /\ attended \subseteq Phone
  /\ phone \in [Phone ->
       [online : BOOLEAN, sock : Nat,
        call : [id : CallId \cup {NoId}, dir : {"none", "incoming", "outgoing"},
                status : Status],
        peer : [id : CallId \cup {NoId}, sig : {"none", "offered", "stable"},
                with : Phone \cup {NoId}],
        timers : SUBSET {"ring", "connect", "reconnect"},
        over : SUBSET CallId, tasks : SUBSET Task, stream : BOOLEAN]]
  /\ mail \in [Phone -> Seq(Mail)]
  /\ requests \subseteq Request
  /\ linked \subseteq Socket /\ grace \subseteq Socket \ linked
  /\ active \in [Socket -> SUBSET CallId]
  /\ pending \in [Party -> SUBSET CallId]
  /\ settled \subseteq CallId \X Phone
  /\ placed \subseteq CallId
  /\ blocked \in BOOLEAN
  /\ trouble \in 0..MaxTrouble

Line(d) == <<d, phone[d].sock>>

CallInit ==
  /\ attended \in SUBSET Phone
  /\ \E on \in SUBSET Phone : phone = [d \in Phone |->
       [online |-> d \in on, sock |-> 1, call |-> NoCall, peer |-> NoPeer,
        timers |-> {}, over |-> {}, tasks |-> {}, stream |-> FALSE]]
  /\ mail = [d \in Phone |-> <<>>]
  /\ requests = {}
  /\ linked = {<<d, 1>> : d \in {x \in Phone : phone[x].online}}
  /\ active = [s \in Socket |-> {}]
  /\ grace = {}
  /\ pending = [u \in Party |-> {}]
  /\ settled = {}
  /\ placed \in SUBSET CallId
  /\ blocked = FALSE
  /\ trouble \in {0, MaxTrouble}

-----------------------------------------------------------------------------
(* What the handlers of a phone do to its call store p.                    *)

Live(call) == call.status \notin {"none", "declined", "ended"}

Starting(p) == \E t \in p.tasks : t.kind = "start" /\ t.fresh

\* Running tasks find a new callEpoch, or another peer connection than theirs.
Superseded(tasks) == {[t EXCEPT !.fresh = FALSE] : t \in tasks}

Teardown(p) ==
  [p EXCEPT !.peer = NoPeer, !.timers = {}, !.stream = FALSE, !.tasks = Superseded(@)]

Dropped(p) == [Teardown(p) EXCEPT !.call = NoCall]

\* The call stays on the screen until a timer clears it.
Over(p, status) ==
  [Teardown(p) EXCEPT !.call.status = status, !.over = @ \cup {p.call.id}]

Without(p, t) == [p EXCEPT !.tasks = @ \ {t}]

Advanced(p, t, at) == [p EXCEPT !.tasks = (@ \ {t}) \cup {[t EXCEPT !.at = at]}]

Keep(d, p) == phone' = [phone EXCEPT ![d] = p]

Emit(d, ev, c) ==
  requests' = IF phone[d].online
              THEN requests \cup {[ev |-> ev, call |-> c, socket |-> Line(d)]}
              ELSE requests

Silent == UNCHANGED requests

\* Mutant of EndCall: a phone without a connection does not end its call.
EndCallOnline(d, reason) ==
  LET p == phone[d] IN
  /\ p.online
  /\ Emit(d, "end", p.call.id)
  /\ Keep(d, IF reason = "local" THEN Dropped(p) ELSE Over(p, "ended"))

EndCall(d, reason) ==
  LET p == phone[d] IN
  /\ Emit(d, "end", p.call.id)
  /\ Keep(d, IF reason = "local" THEN Dropped(p) ELSE Over(p, "ended"))

DeclineCall(d) ==
  LET p == phone[d] IN Emit(d, "decline", p.call.id) /\ Keep(d, Dropped(p))

OnPhone == UNCHANGED <<mail, serverVars, callBounds>>

Troubled == trouble < MaxTrouble /\ trouble' = trouble + 1

WithTrouble == Troubled /\ UNCHANGED <<mail, serverVars, placed, attended>>

-----------------------------------------------------------------------------
(* Placing a call.                                                         *)

StartCall(d, c) ==
  LET p == phone[d] IN
  /\ CallerOf[c] = d /\ c \notin placed
  /\ p.call = NoCall /\ ~Starting(p)
  /\ placed' = placed \cup {c}
  /\ Keep(d, [p EXCEPT !.tasks = @ \cup
       {[kind |-> "start", at |-> "capture", call |-> c, fresh |-> TRUE]}])
  /\ UNCHANGED <<mail, requests, serverVars, attended, trouble>>

\* Capture, the conversation and the connection are awaited, then the call shown.
StartRings(d, t) ==
  LET p == phone[d] IN
  /\ t.kind = "start" /\ t.at = "capture"
  /\ IF t.fresh /\ p.call = NoCall
     THEN /\ p.online
          /\ Keep(d, [Advanced(p, t, "native") EXCEPT !.stream = TRUE,
               !.call = [id |-> t.call, dir |-> "outgoing", status |-> "ringing"]])
     ELSE Keep(d, Without(p, t))
  /\ Silent /\ OnPhone

StartArms(d, t) ==
  LET p == phone[d] IN
  /\ t.kind = "start" /\ t.at = "native"
  /\ Keep(d, IF t.fresh THEN [Advanced(p, t, "peer") EXCEPT !.timers = @ \cup {"ring"}]
             ELSE Without(p, t))
  /\ Silent /\ OnPhone

StartInvites(d, t) ==
  LET p == phone[d] IN
  /\ t.kind = "start" /\ t.at = "peer"
  /\ IF p.call.id # t.call THEN Silent /\ Keep(d, Without(p, t))
     ELSE /\ p.online
          /\ Emit(d, "invite", t.call)
          /\ Keep(d, [Without(p, t) EXCEPT
                        !.peer = [id |-> t.call, sig |-> "offered", with |-> NoId]])
  /\ OnPhone

\* No permission, no connection, or an offer that cannot be made.
StartFails(d, t) ==
  LET p == phone[d] IN
  /\ t.kind = "start" /\ t.at \in {"capture", "peer"} /\ t.fresh
  /\ Keep(d, IF p.call.id = t.call THEN Dropped(Without(p, t)) ELSE Without(p, t))
  /\ Silent /\ WithTrouble

-----------------------------------------------------------------------------
(* Accepting, refusing and leaving a call.                                 *)

AcceptCall(d) ==
  LET p == phone[d] IN
  /\ d \in attended
  /\ p.call.dir = "incoming" /\ p.call.status = "ringing" /\ p.online
  /\ Keep(d, [p EXCEPT !.call.status = "connecting",
       !.timers = (@ \ {"ring"}) \cup {"connect"},
       !.tasks = @ \cup {[kind |-> "accept", at |-> "capture",
                          call |-> p.call.id, fresh |-> TRUE]}])
  /\ Silent /\ OnPhone

\* Only the identifier is compared: a call that is over but still on the screen
\* gets the stream, and then a peer connection.
AcceptCaptures(d, t) ==
  LET p == phone[d] IN
  /\ t.kind = "accept" /\ t.at = "capture"
  /\ Keep(d, IF p.call.id = t.call
             THEN [Advanced(p, t, "peer") EXCEPT !.stream = TRUE] ELSE Without(p, t))
  /\ Silent /\ OnPhone

AcceptOpensPeer(d, t) ==
  LET p == phone[d] IN
  /\ t.kind = "accept" /\ t.at = "peer"
  /\ Keep(d, IF p.call.id = t.call
             THEN [p EXCEPT !.tasks = Superseded(@ \ {t}) \cup
                                        {[t EXCEPT !.at = "answer", !.fresh = TRUE]},
                            !.peer = [id |-> t.call, sig |-> "none", with |-> NoId]]
             ELSE Without(p, t))
  /\ Silent /\ OnPhone

AcceptAnswers(d, t) ==
  LET p == phone[d] IN
  /\ t.kind = "accept" /\ t.at = "answer"
  /\ IF ~t.fresh THEN Silent /\ Keep(d, Without(p, t))
     ELSE /\ p.online
          /\ Emit(d, "answer", t.call)
          /\ Keep(d, [Without(p, t) EXCEPT !.peer.sig = "stable",
                                           !.peer.with = CallerOf[t.call]])
  /\ OnPhone

\* No permission, no connection, or an answer that cannot be made.
AcceptFails(d, t) ==
  LET p == phone[d] IN
  /\ t.kind = "accept"
  /\ IF p.call.id # t.call THEN Silent /\ Keep(d, Without(p, t))
     ELSE Emit(d, "decline", t.call) /\ Keep(d, Dropped(Without(p, t)))
  /\ WithTrouble

Decline(d) ==
  /\ phone[d].call.dir = "incoming" /\ phone[d].call.status = "ringing"
  /\ DeclineCall(d) /\ WithTrouble

HangUp(d) == Live(phone[d].call) /\ EndCall(d, "local") /\ WithTrouble

-----------------------------------------------------------------------------
(* Events delivered to a phone.                                            *)

Hears(d, ev) == phone[d].online /\ mail[d] # <<>> /\ Head(mail[d]).ev = ev

Heard(d) ==
  /\ mail' = [mail EXCEPT ![d] = Tail(@)]
  /\ UNCHANGED <<serverVars, callBounds>>

\* An invitation may have expired by the time it arrives.
Incoming(d) ==
  LET p == phone[d]
      c == Head(mail[d]).call IN
  /\ Hears(d, "incoming")
  /\ \/ Silent /\ UNCHANGED phone
     \/ /\ p.call.id # c
        /\ p.call # NoCall \/ Starting(p)
        /\ Emit(d, "decline", c) /\ UNCHANGED phone
     \/ /\ p.call = NoCall /\ ~Starting(p)
        /\ Silent
        /\ Keep(d, [p EXCEPT !.timers = @ \cup {"ring"},
             !.call = [id |-> c, dir |-> "incoming", status |-> "ringing"]])
  /\ Heard(d)

\* Mutant of Answered: a call that is now connecting has no timer.
AnsweredUntimed(d) ==
  LET p == phone[d]
      m == Head(mail[d])
      q == IF p.peer.sig = "offered"
           THEN [p EXCEPT !.peer.sig = "stable", !.peer.with = m.from] ELSE p IN
  /\ Hears(d, "answered")
  /\ Silent
  /\ IF p.call.id # m.call \/ p.peer.id # m.call THEN UNCHANGED phone
     ELSE Keep(d, IF p.call.status # "ringing" THEN q
                  ELSE [q EXCEPT !.call.status = "connecting", !.timers = @ \ {"ring"}])
  /\ Heard(d)

\* The peer connection takes the answer; a ringing call is now connecting.
Answered(d) ==
  LET p == phone[d]
      m == Head(mail[d])
      q == IF p.peer.sig = "offered"
           THEN [p EXCEPT !.peer.sig = "stable", !.peer.with = m.from] ELSE p IN
  /\ Hears(d, "answered")
  /\ Silent
  /\ IF p.call.id # m.call \/ p.peer.id # m.call THEN UNCHANGED phone
     ELSE Keep(d, IF p.call.status # "ringing" THEN q
                  ELSE [q EXCEPT !.call.status = "connecting",
                                 !.timers = (@ \ {"ring"}) \cup {"connect"}])
  /\ Heard(d)

AnswerUnusable(d) ==
  LET p == phone[d] IN
  /\ Hears(d, "answered")
  /\ p.call.id = Head(mail[d]).call /\ p.peer.id = p.call.id /\ p.peer.sig = "offered"
  /\ EndCall(d, "connection-failed")
  /\ mail' = [mail EXCEPT ![d] = Tail(@)]
  /\ Troubled /\ UNCHANGED <<serverVars, placed, attended>>

\* An ICE restart: the callee answers it, unless it is negotiating.
RemoteOffer(d) ==
  LET p == phone[d]
      c == Head(mail[d]).call IN
  /\ Hears(d, "offer")
  /\ UNCHANGED phone
  /\ IF /\ p.call.id = c /\ p.call.dir = "incoming"
        /\ p.peer.id = c /\ p.peer.sig = "stable"
     THEN Emit(d, "answer", c) ELSE Silent
  /\ Heard(d)

RemoteEnd(d) ==
  LET p == phone[d]
      m == Head(mail[d]) IN
  /\ Hears(d, "ended") \/ Hears(d, "declined")
  /\ Silent
  /\ IF p.call.id # m.call THEN UNCHANGED phone ELSE Keep(d, Over(p, m.ev))
  /\ Heard(d)

-----------------------------------------------------------------------------
(* Media, and the timers of a phone.                                       *)

\* d and the phone it talks to have each other's descriptions.
Paired(d) ==
  LET p == phone[d].peer IN
  /\ p.with # NoId /\ p.sig = "stable"
  /\ phone[p.with].peer.id = p.id /\ phone[p.with].peer.with = d

Connect(d) ==
  LET p == phone[d] IN
  /\ p.call.status \in {"connecting", "reconnecting"}
  /\ p.peer.id = p.call.id /\ Paired(d)
  /\ Keep(d, [p EXCEPT !.call.status = "connected", !.timers = {}])
  /\ Silent /\ OnPhone

\* A connection takes longer to fail than a call stays on the screen once over.
BeginRecovery(d) ==
  /\ phone[d].over = {}
  /\ Keep(d, [phone[d] EXCEPT !.call.status = "reconnecting",
                              !.timers = @ \cup {"reconnect"}])

Break(d) ==
  LET p == phone[d] IN
  /\ p.call.status \in {"connecting", "connected"}
  /\ p.peer.id = p.call.id /\ Paired(d)
  /\ BeginRecovery(d)
  /\ Silent /\ WithTrouble

\* The other side has closed or replaced its connection: ICE fails here.
PeerFails(d) ==
  LET p == phone[d] IN
  /\ p.call.status \in {"connecting", "connected"}
  /\ p.peer.id = p.call.id /\ p.peer.with # NoId /\ ~Paired(d)
  /\ BeginRecovery(d)
  /\ Silent /\ OnPhone

RestartIce(d) ==
  LET p == phone[d] IN
  /\ p.call.status = "reconnecting" /\ p.call.dir = "outgoing"
  /\ p.peer.id = p.call.id /\ p.peer.sig = "stable" /\ p.online
  /\ Emit(d, "offer", p.call.id)
  /\ Keep(d, [p EXCEPT !.peer.sig = "offered"])
  /\ WithTrouble

Fired(d, timer) == [phone[d] EXCEPT !.timers = @ \ {timer}]

RingTimeout(d) ==
  LET p == phone[d] IN
  /\ "ring" \in p.timers
  /\ IF p.call.status # "ringing" THEN Silent /\ Keep(d, Fired(d, "ring"))
     ELSE IF p.call.dir = "outgoing" THEN EndCall(d, "unanswered")
     ELSE DeclineCall(d)
  /\ OnPhone

ConnectTimeout(d) ==
  LET p == phone[d] IN
  /\ "connect" \in p.timers
  /\ IF p.call.status = "connecting" THEN EndCall(d, "connection-failed")
     ELSE Silent /\ Keep(d, Fired(d, "connect"))
  /\ OnPhone

ReconnectTimeout(d) ==
  /\ "reconnect" \in phone[d].timers
  /\ EndCall(d, "connection-lost")
  /\ OnPhone

ClearOver(d, c) ==
  LET p == phone[d] IN
  /\ c \in p.over
  /\ Keep(d, [p EXCEPT !.over = @ \ {c}, !.call = IF p.call.id = c THEN NoCall ELSE @])
  /\ Silent /\ OnPhone

-----------------------------------------------------------------------------
(* Connections.                                                            *)

ConnectionLost(d) ==
  LET p == phone[d] IN
  /\ p.online
  /\ \E sent \in SUBSET {r \in requests : r.socket = Line(d) /\ r.ev # "save"} :
       requests' = requests \ sent
  /\ Keep(d, [(IF p.call.dir = "incoming" /\ p.call.status = "ringing"
               THEN Dropped(p) ELSE p) EXCEPT !.online = FALSE])
  /\ WithTrouble

\* The server notices; calls of the socket are kept for a while.
Disconnected(s) ==
  /\ s \in linked /\ (s = Line(s[1]) => ~phone[s[1]].online)
  /\ linked' = linked \ {s}
  /\ grace' = IF active[s] = {} THEN grace ELSE grace \cup {s}
  /\ UNCHANGED <<phone, mail, requests, active, pending, blocked, settled, callBounds>>

Note(ev, c, from) == [ev |-> ev, call |-> c, from |-> from]

\* The pending calls are emitted to every connection, missed invitations or not.
Replay(d) ==
  SetToSeq({Note("incoming", c, NoId) : c \in pending[PartyOf[d]]})

\* The client resumes its call on every connection.
Resume(d, s) ==
  LET call == phone[d].call IN
  requests' = IF Live(call)
              THEN requests \cup {[ev |-> "resume", call |-> call.id, socket |-> s]}
              ELSE requests

\* Mutant of Recover: the timer of the socket goes on.
RecoverKeepsTimer(d) ==
  /\ d \in attended /\ ~phone[d].online /\ Line(d) \notin linked
  /\ Keep(d, [phone[d] EXCEPT !.online = TRUE])
  /\ linked' = linked \cup {Line(d)}
  /\ mail' = [mail EXCEPT ![d] = @ \o Replay(d)]
  /\ Resume(d, Line(d))
  /\ UNCHANGED <<grace, active, pending, blocked, settled, callBounds>>

\* The same socket: what it missed arrives first.
Recover(d) ==
  /\ d \in attended /\ ~phone[d].online /\ Line(d) \notin linked
  /\ Keep(d, [phone[d] EXCEPT !.online = TRUE])
  /\ linked' = linked \cup {Line(d)}
  /\ grace' = grace \ {Line(d)}
  /\ mail' = [mail EXCEPT ![d] = @ \o Replay(d)]
  /\ Resume(d, Line(d))
  /\ UNCHANGED <<active, pending, blocked, settled, callBounds>>

Reconnect(d) ==
  LET s == <<d, phone[d].sock + 1>> IN
  /\ d \in attended /\ ~phone[d].online /\ s \in Socket
  /\ Keep(d, [phone[d] EXCEPT !.online = TRUE, !.sock = @ + 1])
  /\ linked' = linked \cup {s}
  /\ mail' = [mail EXCEPT ![d] = Replay(d)]
  /\ Resume(d, s)
  /\ UNCHANGED <<active, grace, pending, blocked, settled, callBounds>>

-----------------------------------------------------------------------------
(* The server.                                                             *)

\* What is sent to a phone that never comes back is of no interest.
Deliver(to) ==
  mail' = [d \in Phone |-> IF phone[d].online \/ d \in attended
                           THEN mail[d] \o to[d] ELSE mail[d]]

\* Mutant of Tell: the other phones of the user are not told.
TellOthers(r, own, ev, from) ==
  Deliver([d \in Phone |->
    IF PartyOf[d] # PartyOf[r.socket[1]] THEN <<Note(ev, r.call, from)>> ELSE <<>>])

\* One event to the other participant, one to the other sockets of the user.
Tell(r, own, ev, from) ==
  Deliver([d \in Phone |->
    IF PartyOf[d] # PartyOf[r.socket[1]] THEN <<Note(ev, r.call, from)>>
    ELSE IF own /\ Line(d) # r.socket THEN <<Note("ended", r.call, NoId)>> ELSE <<>>])

Register(s, c) == active' = [active EXCEPT ![s] = @ \cup {c}]

ClearActive(c) == active' = [s \in Socket |-> active[s] \ {c}]

ClearPending(c) == pending' = [u \in Party |-> pending[u] \ {c}]

Handling(r, ev) == r \in requests /\ r.ev = ev /\ ~blocked

Done(r) == requests' = requests \ {r}

\* getOtherParticipantIds returns null: the event is dropped.
Refuse(r) ==
  /\ r \in requests /\ blocked /\ r.ev # "save"
  /\ Done(r)
  /\ UNCHANGED <<phone, mail, serverVars, callBounds>>

Invite(r) ==
  /\ Handling(r, "invite")
  /\ requests' = (requests \ {r}) \cup {[r EXCEPT !.ev = "save"]}
  /\ Register(r.socket, r.call)
  /\ UNCHANGED <<phone, mail, linked, grace, pending, blocked, settled, callBounds>>

\* After the second read: the call is kept for later sockets, and rings.
Save(r) ==
  /\ r \in requests /\ r.ev = "save" /\ Done(r)
  /\ pending' = [u \in Party |-> IF u = PartyOf[r.socket[1]] THEN pending[u]
                                ELSE pending[u] \cup {r.call}]
  /\ Tell(r, FALSE, "incoming", NoId)
  /\ UNCHANGED <<phone, linked, active, grace, blocked, settled, callBounds>>

Answer(r) ==
  /\ Handling(r, "answer") /\ Done(r)
  /\ ClearPending(r.call)
  /\ Register(r.socket, r.call)
  /\ Tell(r, TRUE, "answered", r.socket[1])
  /\ settled' = settled \cup {<<r.call, r.socket[1]>>}
  /\ UNCHANGED <<phone, linked, grace, blocked, callBounds>>

Offer(r) ==
  /\ Handling(r, "offer") /\ Done(r)
  /\ Register(r.socket, r.call)
  /\ Tell(r, FALSE, "offer", r.socket[1])
  /\ UNCHANGED <<phone, linked, grace, pending, blocked, settled, callBounds>>

\* resumeActiveCall moves the registration of a call the user owns.
ResumeCall(r) ==
  LET old == {s \in Socket : r.call \in active[s]
                /\ PartyOf[s[1]] = PartyOf[r.socket[1]] /\ s # r.socket}
      owned == old # {} \/ r.call \in active[r.socket] IN
  /\ Handling(r, "resume") /\ Done(r)
  /\ active' = [s \in Socket |->
       IF s \in old THEN active[s] \ {r.call}
       ELSE IF s = r.socket /\ owned THEN active[s] \cup {r.call} ELSE active[s]]
  /\ grace' = grace \ {s \in old : active[s] = {r.call}}
  /\ UNCHANGED <<phone, mail, linked, pending, blocked, settled, callBounds>>

Refused(r) ==
  /\ Handling(r, "decline") /\ Done(r)
  /\ ClearPending(r.call) /\ ClearActive(r.call)
  /\ Tell(r, TRUE, "declined", NoId)
  /\ settled' = settled \cup {<<r.call, r.socket[1]>>}
  /\ UNCHANGED <<phone, linked, grace, blocked, callBounds>>

End(r) ==
  /\ Handling(r, "end") /\ Done(r)
  /\ ClearPending(r.call) /\ ClearActive(r.call)
  /\ Tell(r, FALSE, "ended", NoId)
  /\ UNCHANGED <<phone, linked, grace, blocked, settled, callBounds>>

\* The grace period of 45 seconds outlasts the handling of an event.
GraceExpires(s) ==
  /\ s \in grace /\ \A r \in requests : r.socket[1] # s[1]
  /\ grace' = grace \ {s}
  /\ active' = [x \in Socket |-> active[x] \ active[s]]
  /\ Deliver([d \in Phone |->
       IF PartyOf[d] = PartyOf[s[1]] THEN <<>>
       ELSE SetToSeq({Note("ended", c, NoId) : c \in active[s]})])
  /\ UNCHANGED <<phone, requests, linked, pending, blocked, settled, callBounds>>

BlockCalls ==
  /\ ~blocked
  /\ blocked' = TRUE
  /\ Troubled
  /\ UNCHANGED <<phone, mail, requests, linked, active, grace, pending, settled,
                 placed, attended>>

-----------------------------------------------------------------------------
TaskStep(d, t) ==
  \/ StartRings(d, t) \/ StartArms(d, t) \/ StartInvites(d, t) \/ StartFails(d, t)
  \/ AcceptCaptures(d, t) \/ AcceptOpensPeer(d, t) \/ AcceptAnswers(d, t)
  \/ AcceptFails(d, t)

\* What happens on a phone by itself, sooner or later: its timers, the steps of a
\* start or an accept that wait for no user and no network, and the failure of a
\* connection without a peer.
Patience(d) ==
  \/ RingTimeout(d) \/ ConnectTimeout(d) \/ ReconnectTimeout(d)
  \/ \E c \in CallId : ClearOver(d, c)
  \/ \E t \in phone[d].tasks : t.at # "capture" /\ TaskStep(d, t)
  \/ PeerFails(d)

PhoneStep(d) ==
  \/ \E c \in CallId : StartCall(d, c)
  \/ \E t \in phone[d].tasks : TaskStep(d, t)
  \/ AcceptCall(d) \/ Decline(d) \/ HangUp(d)
  \/ Incoming(d) \/ Answered(d) \/ AnswerUnusable(d) \/ RemoteOffer(d) \/ RemoteEnd(d)
  \/ Connect(d) \/ Break(d) \/ PeerFails(d) \/ RestartIce(d)
  \/ RingTimeout(d) \/ ConnectTimeout(d) \/ ReconnectTimeout(d)
  \/ \E c \in CallId : ClearOver(d, c)
  \/ ConnectionLost(d) \/ Recover(d) \/ Reconnect(d)

ServerStep ==
  \/ \E r \in requests : \/ Refuse(r) \/ Invite(r) \/ Save(r) \/ Answer(r) \/ Offer(r)
                         \/ ResumeCall(r) \/ Refused(r) \/ End(r)
  \/ \E s \in Socket : Disconnected(s) \/ GraceExpires(s)
  \/ BlockCalls

CallNext == (\E d \in Phone : PhoneStep(d)) \/ ServerStep

CallSpec == CallInit /\ [][CallNext]_callVars

FairCallSpec == CallSpec /\ \A d \in Phone : WF_callVars(Patience(d))

-----------------------------------------------------------------------------
\* A phone that waits in a call always has something that ends the waiting: the
\* timer of its phase, or the start that is about to set it.
WaitingHasTimer ==
  \A d \in Phone :
    LET p == phone[d] IN
    /\ p.call.status = "ringing" =>
         \/ "ring" \in p.timers
         \/ \E t \in p.tasks : t.kind = "start" /\ t.at = "native" /\ t.fresh
    /\ p.call.status = "connecting" => "connect" \in p.timers
    /\ p.call.status = "reconnecting" => "reconnect" \in p.timers

\* Once the server has handled the answer or the refusal of a call by one phone,
\* another that still rings for it has the end of the call in its mail.
RingingIsCalledOff ==
  \A d, e \in Phone, c \in CallId :
    /\ <<c, e>> \in settled /\ d # e
    /\ phone[d].call = [id |-> c, dir |-> "incoming", status |-> "ringing"]
    => \E i \in DOMAIN mail[d] : mail[d][i].ev = "ended" /\ mail[d][i].call = c

\* No phone waits for ever: whatever is lost, blocked or answered late, it is
\* again and again without a call, or in one with a peer that is in it too.
NobodyWaitsForever ==
  \A d \in Phone :
    []<>(phone[d].call = NoCall \/ (phone[d].call.status = "connected" /\ Paired(d)))

\* The microphone is captured only while a call is under way: "Cancelled calls
\* invalidate pending media requests and release late captures."
LateCapturesReleased ==
  \A d \in Phone : phone[d].stream => Live(phone[d].call)
==============================================================================
