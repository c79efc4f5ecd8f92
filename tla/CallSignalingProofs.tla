-------------------------- MODULE CallSignalingProofs --------------------------
(* Proofs that a phone never waits in a call without a timer, and that a call  *)
(* answered or refused on one phone is called off on the others, for any       *)
(* phones, calls, sockets and trouble.                                         *)
EXTENDS CallSignaling, FunctionTheorems, FiniteSetTheorems, SequenceTheorems, TLAPS

-----------------------------------------------------------------------------
(* The invariants.                                                         *)

Call == [id : CallId \cup {NoId}, dir : {"none", "incoming", "outgoing"}, status : Status]
Peer == [id : CallId \cup {NoId}, sig : {"none", "offered", "stable"},
         with : Phone \cup {NoId}]
CallStore ==
  [online : BOOLEAN, sock : Nat, call : Call, peer : Peer,
   timers : SUBSET {"ring", "connect", "reconnect"},
   over : SUBSET CallId, tasks : SUBSET Task, stream : BOOLEAN]

\* Phone d belongs to the participant who is called.
Callee(d, c) == PartyOf[d] # PartyOf[CallerOf[c]]

\* A running start is for a call of the phone, one for each; a running accept for
\* one it was invited to.
TasksRight(d, p) ==
  /\ \A t \in p.tasks :
       IF t.kind = "start" THEN CallerOf[t.call] = d ELSE Callee(d, t.call)
  /\ \A s, t \in p.tasks : s.kind = "start" /\ t.kind = "start" /\ s.call = t.call => s = t

CallRight(d, p) ==
  /\ <<d, p.sock>> \in Socket
  /\ p.call.id = NoId \/ p.call.dir = "none" \/ p.call.status = "none" => p.call = NoCall
  /\ p.call.dir = "outgoing" => CallerOf[p.call.id] = d
  /\ p.call.dir = "incoming" => Callee(d, p.call.id)
  /\ p.call.dir = "incoming" /\ p.call.status = "ringing" => p.online

\* What ends the waiting of phone d in each phase of a call.  A start that is yet to
\* set the timer is that of a call the phone places, so that no accept disowns it.
TimersRight(p) ==
  /\ p.call.status = "ringing" =>
       \/ "ring" \in p.timers
       \/ /\ p.call.dir = "outgoing"
          /\ \E t \in p.tasks : t.kind = "start" /\ t.at = "native" /\ t.fresh
  /\ p.call.status = "connecting" => "connect" \in p.timers
  /\ p.call.status = "reconnecting" => "reconnect" \in p.timers
  /\ "reconnect" \in p.timers => p.over = {} /\ p.call # NoCall

PhoneRight(d, p) == p \in CallStore /\ TasksRight(d, p) /\ CallRight(d, p) /\ TimersRight(p)

PhonesRight == \A d \in Phone : PhoneRight(d, phone[d])

-----------------------------------------------------------------------------
(* What the handlers of a phone do to its call store.                      *)

LEMMA StaleTask ==
  ASSUME NEW t \in Task
  PROVE  LET u == [t EXCEPT !.fresh = FALSE] IN
         u \in Task /\ u.kind = t.kind /\ u.at = t.at /\ u.call = t.call /\ ~u.fresh
  BY DEF Task

\* Superseded tasks are those that were running, each of them once.
LEMMA SupersededTasks ==
  ASSUME NEW T \in SUBSET Task
  PROVE  \A u \in Superseded(T) :
           /\ u \in Task /\ ~u.fresh
           /\ \E t \in T : /\ u = [t EXCEPT !.fresh = FALSE]
                           /\ u.kind = t.kind /\ u.at = t.at /\ u.call = t.call
  <1> TAKE u \in Superseded(T)
  <1>1. PICK t \in T : u = [t EXCEPT !.fresh = FALSE]
    BY Zenon DEF Superseded
  <1>2. t \in Task
    OBVIOUS
  <1> QED BY <1>1, <1>2, StaleTask, Zenon

LEMMA SupersededTasksRight ==
  ASSUME NEW d \in Phone, NEW p, p.tasks \in SUBSET Task, TasksRight(d, p),
         NEW q, q.tasks \subseteq Superseded(p.tasks)
  PROVE  TasksRight(d, q)
  <1>1. ASSUME NEW u \in q.tasks
        PROVE  \E t \in p.tasks : /\ u = [t EXCEPT !.fresh = FALSE]
                                  /\ u.kind = t.kind /\ u.call = t.call
    BY SupersededTasks
  <1>2. ASSUME NEW u \in q.tasks
        PROVE  IF u.kind = "start" THEN CallerOf[u.call] = d ELSE Callee(d, u.call)
    BY <1>1 DEF TasksRight
  <1>3. ASSUME NEW u \in q.tasks, NEW v \in q.tasks,
               u.kind = "start", v.kind = "start", u.call = v.call
        PROVE  u = v
    <2>1. PICK s \in p.tasks : /\ u = [s EXCEPT !.fresh = FALSE]
                               /\ u.kind = s.kind /\ u.call = s.call
      BY <1>1
    <2>2. PICK t \in p.tasks : /\ v = [t EXCEPT !.fresh = FALSE]
                               /\ v.kind = t.kind /\ v.call = t.call
      BY <1>1
    <2>3. s = t
      BY <1>3, <2>1, <2>2, Zenon DEF TasksRight
    <2> QED BY <2>1, <2>2, <2>3, Zenon
  <1> QED BY <1>2, <1>3 DEF TasksRight

LEMMA TeardownFields ==
  ASSUME NEW p \in CallStore
  PROVE  /\ Teardown(p) \in CallStore
         /\ Teardown(p).online = p.online /\ Teardown(p).sock = p.sock
         /\ Teardown(p).call = p.call /\ Teardown(p).timers = {}
         /\ Teardown(p).over = p.over /\ Teardown(p).tasks = Superseded(p.tasks)
         /\ Teardown(p).peer = NoPeer /\ Teardown(p).stream = FALSE
  <1>1. p.tasks \in SUBSET Task
    BY DEF CallStore
  <1>2. Superseded(p.tasks) \in SUBSET Task
    BY <1>1, SupersededTasks
  <1>3. NoPeer \in Peer
    BY DEF NoPeer, Peer
  <1> QED BY <1>2, <1>3 DEF Teardown, CallStore

\* A call that is dropped leaves the phone without a call.
LEMMA DroppedRight ==
  ASSUME NEW d \in Phone, NEW p, PhoneRight(d, p)
  PROVE  /\ PhoneRight(d, Dropped(p))
         /\ Dropped(p).call = NoCall
         /\ Dropped(p).online = p.online /\ Dropped(p).sock = p.sock
         /\ Dropped(p).tasks = Superseded(p.tasks)
  <1> DEFINE q == Dropped(p)
  <1>1. p \in CallStore /\ p.tasks \in SUBSET Task
    BY DEF PhoneRight, CallStore
  <1>2. NoCall \in Call
    BY DEF NoCall, Call, Status
  <1>3. /\ q \in CallStore /\ q.call = NoCall /\ q.timers = {}
        /\ q.online = p.online /\ q.sock = p.sock
        /\ q.tasks = Superseded(p.tasks)
    BY <1>1, <1>2, TeardownFields DEF Dropped, CallStore
  <1>4. TasksRight(d, q)
    BY <1>1, <1>3, SupersededTasksRight DEF PhoneRight
  <1>5. CallRight(d, q)
    BY <1>3 DEF PhoneRight, CallRight, NoCall
  <1>6. TimersRight(q)
    BY <1>3 DEF TimersRight, NoCall
  <1> QED BY <1>3, <1>4, <1>5, <1>6 DEF PhoneRight

\* A call that is over stays, and nothing waits in it.
LEMMA OverRight ==
  ASSUME NEW d \in Phone, NEW p, PhoneRight(d, p), p.call # NoCall,
         NEW s \in {"declined", "ended"}
  PROVE  /\ PhoneRight(d, Over(p, s))
         /\ Over(p, s).call = [id |-> p.call.id, dir |-> p.call.dir, status |-> s]
         /\ Over(p, s).online = p.online /\ Over(p, s).sock = p.sock
         /\ Over(p, s).tasks = Superseded(p.tasks)
  <1> DEFINE q == Over(p, s)
  <1>1. /\ p \in CallStore /\ p.tasks \in SUBSET Task /\ p.call \in Call
        /\ p.call.id \in CallId
    BY DEF PhoneRight, CallStore, Call, CallRight
  <1>2. [p.call EXCEPT !.status = s] = [id |-> p.call.id, dir |-> p.call.dir, status |-> s]
    BY <1>1 DEF Call
  <1>3. [id |-> p.call.id, dir |-> p.call.dir, status |-> s] \in Call
    BY <1>1 DEF Call, Status
  <1>4. /\ q \in CallStore /\ q.call = [id |-> p.call.id, dir |-> p.call.dir, status |-> s]
        /\ q.timers = {} /\ q.online = p.online /\ q.sock = p.sock
        /\ q.tasks = Superseded(p.tasks)
    BY <1>1, <1>2, <1>3, TeardownFields DEF Over, CallStore
  <1>5. TasksRight(d, q)
    BY <1>1, <1>4, SupersededTasksRight DEF PhoneRight
  <1>6. CallRight(d, q)
    BY <1>1, <1>4, CallAssumption DEF PhoneRight, CallRight
  <1>7. TimersRight(q)
    BY <1>4 DEF TimersRight
  <1> QED BY <1>4, <1>5, <1>6, <1>7 DEF PhoneRight

\* A task that ends takes nothing with it, unless it was about to set the timer.
LEMMA WithoutRight ==
  ASSUME NEW d \in Phone, NEW p, PhoneRight(d, p), NEW t \in p.tasks,
         ~(t.kind = "start" /\ t.at = "native" /\ t.fresh)
  PROVE  LET q == Without(p, t) IN
         /\ PhoneRight(d, q)
         /\ q.call = p.call /\ q.over = p.over /\ q.timers = p.timers
         /\ q.peer = p.peer /\ q.online = p.online /\ q.sock = p.sock
         /\ q.tasks = p.tasks \ {t}
  BY DEF Without, PhoneRight, CallStore, TasksRight, CallRight, TimersRight

LEMMA AdvancedRight ==
  ASSUME NEW d \in Phone, NEW p, PhoneRight(d, p), NEW t \in p.tasks,
         NEW at \in {"capture", "native", "peer", "answer"}
  PROVE  LET q == Advanced(p, t, at) IN
         /\ q \in CallStore /\ TasksRight(d, q)
         /\ q.call = p.call /\ q.over = p.over /\ q.timers = p.timers
         /\ q.peer = p.peer /\ q.online = p.online /\ q.sock = p.sock
         /\ \E u \in Task : /\ u.kind = t.kind /\ u.call = t.call /\ u.at = at
                            /\ u.fresh <=> t.fresh
                            /\ q.tasks = (p.tasks \ {t}) \cup {u}
  <1> DEFINE q == Advanced(p, t, at)
  <1> DEFINE u == [t EXCEPT !.at = at]
  <1>1. p \in CallStore /\ p.tasks \in SUBSET Task /\ t \in Task
    BY DEF PhoneRight, CallStore
  <1>2. u \in Task /\ u.kind = t.kind /\ u.call = t.call /\ u.at = at /\ (u.fresh <=> t.fresh)
    BY <1>1 DEF Task
  <1>3. (p.tasks \ {t}) \cup {u} \in SUBSET Task
    BY <1>1, <1>2
  <1> HIDE DEF u
  <1>4. /\ q \in CallStore /\ q.call = p.call /\ q.over = p.over /\ q.timers = p.timers
        /\ q.peer = p.peer /\ q.online = p.online /\ q.sock = p.sock
        /\ q.tasks = (p.tasks \ {t}) \cup {u}
    BY <1>1, <1>3 DEF Advanced, CallStore, u
  <1>5. TasksRight(d, q)
    BY <1>2, <1>4 DEF PhoneRight, TasksRight
  <1> QED BY <1>2, <1>4, <1>5

-----------------------------------------------------------------------------
(* The steps of a phone.                                                   *)

\* What a task or a call of the phone comes from: it was there, it was accepted or
\* placed just now, or it is an invitation just heard.
Carries(d, p, q) ==
  /\ \A u \in q.tasks :
       \/ \E t \in p.tasks : u.kind = t.kind /\ u.call = t.call
       \/ u.kind = "accept" /\ p.call.dir = "incoming" /\ u.call = p.call.id
       \/ u.kind = "start" /\ u.call \notin placed /\ u.call \in placed'
  /\ q.call.dir = "incoming" =>
       \/ /\ p.call.dir = "incoming" /\ p.call.id = q.call.id
          /\ q.call.status = "ringing" => p.call.status = "ringing"
       \/ Hears(d, "incoming") /\ q.call.id = Head(mail[d]).call

\* What a step of phone d leaves it with.
Becomes(d, q) ==
  /\ phone' = [phone EXCEPT ![d] = q]
  /\ PhoneRight(d, q) /\ Carries(d, phone[d], q)

SameLine(d, q) == q.sock = phone[d].sock /\ q.online = phone[d].online

LEMMA CarriesSuperseded ==
  ASSUME NEW T \in SUBSET Task
  PROVE  \A u \in Superseded(T) : \E t \in T : u.kind = t.kind /\ u.call = t.call
  BY SupersededTasks

LEMMA WithoutBecomes ==
  ASSUME NEW d \in Phone, PhoneRight(d, phone[d]), NEW t \in phone[d].tasks,
         ~(t.kind = "start" /\ t.at = "native" /\ t.fresh)
  PROVE  LET p == phone[d]
             w == Without(p, t) IN
         /\ PhoneRight(d, w) /\ Carries(d, p, w) /\ SameLine(d, w)
         /\ w.call = p.call /\ w.tasks = p.tasks \ {t}
         /\ PhoneRight(d, Dropped(w)) /\ Carries(d, p, Dropped(w)) /\ SameLine(d, Dropped(w))
  <1> DEFINE p == phone[d]
  <1> DEFINE w == Without(p, t)
  <1>1. /\ PhoneRight(d, w) /\ w.call = p.call /\ w.tasks = p.tasks \ {t}
        /\ w.online = p.online /\ w.sock = p.sock
    BY WithoutRight
  <1>2. w.tasks \in SUBSET Task
    BY <1>1 DEF PhoneRight, CallStore
  <1>3. /\ PhoneRight(d, Dropped(w)) /\ Dropped(w).call = NoCall
        /\ Dropped(w).online = p.online /\ Dropped(w).sock = p.sock
        /\ Dropped(w).tasks = Superseded(w.tasks)
    BY <1>1, DroppedRight
  <1> HIDE DEF w
  <1>4. Carries(d, p, w)
    BY <1>1 DEF Carries
  <1>5. Carries(d, p, Dropped(w))
    <2>1. \A u \in Dropped(w).tasks : \E s \in w.tasks : u.kind = s.kind /\ u.call = s.call
      BY <1>2, <1>3, CarriesSuperseded
    <2>2. \A u \in Dropped(w).tasks : \E t0 \in p.tasks : u.kind = t0.kind /\ u.call = t0.call
      BY <1>1, <2>1
    <2>3. Dropped(w).call.dir # "incoming"
      BY <1>3 DEF NoCall
    <2> QED BY <2>2, <2>3 DEF Carries
  <1> QED BY <1>1, <1>3, <1>4, <1>5 DEF SameLine, w

LEMMA StartStepRight ==
  ASSUME NEW d \in Phone, PhoneRight(d, phone[d]), NEW t \in phone[d].tasks,
         \/ StartRings(d, t) \/ StartArms(d, t) \/ StartInvites(d, t) \/ StartFails(d, t)
  PROVE  \E q : Becomes(d, q) /\ SameLine(d, q)
  <1> DEFINE p == phone[d]
  <1>1. p \in CallStore /\ p.tasks \in SUBSET Task /\ t \in Task
    BY DEF PhoneRight, CallStore
  <1>2. t.call \in CallId
    BY <1>1 DEF Task
  <1> DEFINE w == Without(p, t)
  <1>3. ASSUME ~(t.kind = "start" /\ t.at = "native" /\ t.fresh)
        PROVE  /\ PhoneRight(d, w) /\ Carries(d, p, w) /\ SameLine(d, w)
               /\ w.call = p.call /\ w.tasks = p.tasks \ {t}
               /\ PhoneRight(d, Dropped(w)) /\ Carries(d, p, Dropped(w))
               /\ SameLine(d, Dropped(w))
    BY <1>3, WithoutBecomes
  <1>4. CASE StartRings(d, t)
    <2>1. CASE ~(t.fresh /\ p.call = NoCall)
      BY <1>3, <1>4, <2>1 DEF StartRings, Keep, Becomes
    <2>2. CASE t.fresh /\ p.call = NoCall
      <3> DEFINE a == Advanced(p, t, "native")
      <3> DEFINE c == [id |-> t.call, dir |-> "outgoing", status |-> "ringing"]
      <3> DEFINE q == [a EXCEPT !.stream = TRUE, !.call = c]
      <3>0. /\ a \in CallStore /\ TasksRight(d, a) /\ a.timers = p.timers
            /\ a.online = p.online /\ a.sock = p.sock
            /\ \E u \in Task : /\ u.kind = t.kind /\ u.call = t.call /\ u.at = "native"
                               /\ u.fresh <=> t.fresh
                               /\ a.tasks = (p.tasks \ {t}) \cup {u}
        BY AdvancedRight
      <3>1. PICK u \in Task : /\ u.kind = t.kind /\ u.call = t.call /\ u.at = "native"
                              /\ u.fresh <=> t.fresh
                              /\ a.tasks = (p.tasks \ {t}) \cup {u}
        BY <3>0
      <3>2. c \in Call /\ c.id = t.call /\ c.dir = "outgoing" /\ c.status = "ringing"
        BY <1>2 DEF Call, Status
      <3> HIDE DEF a, c
      <3>3. /\ q \in CallStore /\ q.call = c /\ q.timers = p.timers
            /\ q.online = p.online /\ q.sock = p.sock
            /\ q.tasks = (p.tasks \ {t}) \cup {u}
        BY <3>0, <3>1, <3>2 DEF CallStore
      <3>4. phone' = [phone EXCEPT ![d] = q] /\ t.kind = "start"
        BY <1>4, <2>2 DEF StartRings, Keep, a, c
      <3> HIDE DEF q
      <3>5. TasksRight(d, q)
        BY <3>0, <3>1, <3>3 DEF TasksRight
      <3>6. CallRight(d, q)
        BY <1>2, <3>2, <3>3, <3>4, CallAssumption DEF PhoneRight, CallRight, TasksRight
      <3>7. TimersRight(q)
        BY <2>2, <3>1, <3>2, <3>3, <3>4 DEF PhoneRight, TimersRight
      <3>8. Carries(d, p, q)
        BY <3>1, <3>2, <3>3 DEF Carries
      <3> QED BY <3>3, <3>4, <3>5, <3>6, <3>7, <3>8 DEF PhoneRight, Becomes, SameLine
    <2> QED BY <2>1, <2>2
  <1>5. CASE StartArms(d, t)
    <2>1. CASE ~t.fresh
      BY <1>3, <1>5, <2>1 DEF StartArms, Keep, Becomes
    <2>2. CASE t.fresh
      <3> DEFINE a == Advanced(p, t, "peer")
      <3> DEFINE q == [a EXCEPT !.timers = @ \cup {"ring"}]
      <3>0. /\ a \in CallStore /\ TasksRight(d, a) /\ a.timers = p.timers
            /\ a.online = p.online /\ a.sock = p.sock /\ a.call = p.call /\ a.over = p.over
            /\ \E u \in Task : /\ u.kind = t.kind /\ u.call = t.call
                               /\ a.tasks = (p.tasks \ {t}) \cup {u}
        BY AdvancedRight
      <3>1. PICK u \in Task : /\ u.kind = t.kind /\ u.call = t.call
                              /\ a.tasks = (p.tasks \ {t}) \cup {u}
        BY <3>0
      <3> HIDE DEF a
      <3>3. /\ q \in CallStore /\ q.call = p.call /\ q.timers = p.timers \cup {"ring"}
            /\ q.online = p.online /\ q.sock = p.sock /\ q.over = p.over
            /\ q.tasks = (p.tasks \ {t}) \cup {u}
        BY <3>0, <3>1 DEF CallStore
      <3>4. phone' = [phone EXCEPT ![d] = q]
        BY <1>5, <2>2 DEF StartArms, Keep, a
      <3> HIDE DEF q
      <3>5. TasksRight(d, q)
        BY <3>0, <3>1, <3>3 DEF TasksRight
      <3>6. CallRight(d, q) /\ TimersRight(q)
        BY <3>3 DEF PhoneRight, CallRight, TimersRight
      <3>7. Carries(d, p, q)
        BY <3>1, <3>3 DEF Carries
      <3> QED BY <3>3, <3>4, <3>5, <3>6, <3>7 DEF PhoneRight, Becomes, SameLine
    <2> QED BY <2>1, <2>2
  <1>6. CASE StartInvites(d, t)
    <2> DEFINE q == [w EXCEPT !.peer = [id |-> t.call, sig |-> "offered", with |-> NoId]]
    <2>1. /\ PhoneRight(d, w) /\ Carries(d, p, w) /\ SameLine(d, w)
          /\ phone' = [phone EXCEPT ![d] = IF p.call.id # t.call THEN w ELSE q]
      BY <1>3, <1>6 DEF StartInvites, Keep
    <2>2. [id |-> t.call, sig |-> "offered", with |-> NoId] \in Peer
      BY <1>2 DEF Peer
    <2> HIDE DEF w
    <2>3. /\ q \in CallStore /\ q.call = w.call /\ q.timers = w.timers /\ q.over = w.over
          /\ q.tasks = w.tasks /\ q.online = w.online /\ q.sock = w.sock
      BY <2>1, <2>2 DEF PhoneRight, CallStore
    <2>4. PhoneRight(d, q) /\ Carries(d, p, q) /\ SameLine(d, q)
      BY <2>1, <2>3 DEF PhoneRight, TasksRight, CallRight, TimersRight, Carries, SameLine
    <2> QED BY <2>1, <2>4 DEF Becomes
  <1>7. CASE StartFails(d, t)
    BY <1>3, <1>7 DEF StartFails, Keep, Becomes
  <1> QED BY <1>4, <1>5, <1>6, <1>7

LEMMA DroppedBecomes ==
  ASSUME NEW d \in Phone, PhoneRight(d, phone[d])
  PROVE  LET q == Dropped(phone[d]) IN
         PhoneRight(d, q) /\ Carries(d, phone[d], q) /\ SameLine(d, q)
  <1> DEFINE p == phone[d]
  <1> DEFINE q == Dropped(p)
  <1>1. p.tasks \in SUBSET Task
    BY DEF PhoneRight, CallStore
  <1>2. /\ PhoneRight(d, q) /\ q.call = NoCall /\ q.online = p.online /\ q.sock = p.sock
        /\ q.tasks = Superseded(p.tasks)
    BY DroppedRight
  <1>3. \A u \in q.tasks : \E s \in p.tasks : u.kind = s.kind /\ u.call = s.call
    BY <1>1, <1>2, CarriesSuperseded
  <1> QED BY <1>2, <1>3 DEF Carries, SameLine, NoCall

LEMMA OverBecomes ==
  ASSUME NEW d \in Phone, PhoneRight(d, phone[d]), phone[d].call # NoCall,
         NEW s \in {"declined", "ended"}
  PROVE  LET q == Over(phone[d], s) IN
         PhoneRight(d, q) /\ Carries(d, phone[d], q) /\ SameLine(d, q)
  <1> DEFINE p == phone[d]
  <1> DEFINE q == Over(p, s)
  <1>1. p.tasks \in SUBSET Task
    BY DEF PhoneRight, CallStore
  <1>2. /\ PhoneRight(d, q) /\ q.online = p.online /\ q.sock = p.sock
        /\ q.call = [id |-> p.call.id, dir |-> p.call.dir, status |-> s]
        /\ q.tasks = Superseded(p.tasks)
    BY OverRight
  <1>3. \A u \in q.tasks : \E t \in p.tasks : u.kind = t.kind /\ u.call = t.call
    BY <1>1, <1>2, CarriesSuperseded
  <1> HIDE DEF q
  <1>4. Carries(d, p, q)
    BY <1>2, <1>3 DEF Carries
  <1> QED BY <1>2, <1>4 DEF SameLine, q

LEMMA EndCallBecomes ==
  ASSUME NEW d \in Phone, PhoneRight(d, phone[d]), phone[d].call # NoCall, NEW reason,
         EndCall(d, reason)
  PROVE  \E q : Becomes(d, q) /\ SameLine(d, q)
  BY DroppedBecomes, OverBecomes DEF EndCall, Keep, Becomes

LEMMA DeclineCallBecomes ==
  ASSUME NEW d \in Phone, PhoneRight(d, phone[d]), DeclineCall(d)
  PROVE  \E q : Becomes(d, q) /\ SameLine(d, q)
  BY DroppedBecomes DEF DeclineCall, Keep, Becomes

\* A phone that changes nothing but its peer connection or its stream.
LEMMA SameCallBecomes ==
  ASSUME NEW d \in Phone, NEW p, PhoneRight(d, p), Carries(d, phone[d], p), SameLine(d, p),
         NEW q \in CallStore,
         q.call = p.call, q.timers = p.timers, q.over = p.over, q.tasks = p.tasks,
         q.online = p.online, q.sock = p.sock
  PROVE  PhoneRight(d, q) /\ Carries(d, phone[d], q) /\ SameLine(d, q)
  BY DEF PhoneRight, TasksRight, CallRight, TimersRight, Carries, SameLine

LEMMA AcceptStepRight ==
  ASSUME NEW d \in Phone, PhoneRight(d, phone[d]), NEW t \in phone[d].tasks,
         \/ AcceptCaptures(d, t) \/ AcceptOpensPeer(d, t) \/ AcceptAnswers(d, t)
         \/ AcceptFails(d, t)
  PROVE  \E q : Becomes(d, q) /\ SameLine(d, q)
  <1> DEFINE p == phone[d]
  <1>1. p \in CallStore /\ p.tasks \in SUBSET Task /\ t \in Task
    BY DEF PhoneRight, CallStore
  <1>2. t.call \in CallId /\ t.kind = "accept" /\ CallerOf[t.call] \in Phone
    BY <1>1, CallAssumption
       DEF Task, AcceptCaptures, AcceptOpensPeer, AcceptAnswers, AcceptFails
  <1> DEFINE w == Without(p, t)
  <1>3. /\ PhoneRight(d, w) /\ Carries(d, p, w) /\ SameLine(d, w)
        /\ w.call = p.call /\ w.tasks = p.tasks \ {t}
        /\ PhoneRight(d, Dropped(w)) /\ Carries(d, p, Dropped(w)) /\ SameLine(d, Dropped(w))
    BY <1>2, WithoutBecomes
  <1>4. CASE AcceptCaptures(d, t)
    <2>1. CASE p.call.id # t.call
      BY <1>3, <1>4, <2>1 DEF AcceptCaptures, Keep, Becomes
    <2>2. CASE p.call.id = t.call
      <3> DEFINE a == Advanced(p, t, "peer")
      <3> DEFINE q == [a EXCEPT !.stream = TRUE]
      <3>1. /\ a \in CallStore /\ TasksRight(d, a) /\ a.timers = p.timers
            /\ a.online = p.online /\ a.sock = p.sock /\ a.call = p.call /\ a.over = p.over
            /\ \E u \in Task : /\ u.kind = t.kind /\ u.call = t.call
                               /\ a.tasks = (p.tasks \ {t}) \cup {u}
        BY AdvancedRight
      <3>2. PICK u \in Task : /\ u.kind = t.kind /\ u.call = t.call
                              /\ a.tasks = (p.tasks \ {t}) \cup {u}
        BY <3>1
      <3> HIDE DEF a
      <3>3. /\ q \in CallStore /\ q.call = a.call /\ q.timers = a.timers
            /\ q.online = a.online /\ q.sock = a.sock /\ q.over = a.over
            /\ q.tasks = a.tasks
        BY <3>1 DEF CallStore
      <3>4. phone' = [phone EXCEPT ![d] = q]
        BY <1>4, <2>2 DEF AcceptCaptures, Keep, a
      <3>5. CallRight(d, a) /\ TimersRight(a)
        BY <1>2, <3>1, <3>2 DEF PhoneRight, CallRight, TimersRight
      <3>6. Carries(d, p, a) /\ SameLine(d, a)
        BY <3>1, <3>2 DEF Carries, SameLine
      <3> HIDE DEF q
      <3> QED BY <3>1, <3>3, <3>4, <3>5, <3>6, SameCallBecomes DEF PhoneRight, Becomes
    <2> QED BY <2>1, <2>2
  <1>5. CASE AcceptOpensPeer(d, t)
    <2>1. CASE p.call.id # t.call
      BY <1>3, <1>5, <2>1 DEF AcceptOpensPeer, Keep, Becomes
    <2>2. CASE p.call.id = t.call
      <3> DEFINE u == [t EXCEPT !.at = "answer", !.fresh = TRUE]
      <3> DEFINE T == Superseded(p.tasks \ {t}) \cup {u}
      <3> DEFINE r == [id |-> t.call, sig |-> "none", with |-> NoId]
      <3> DEFINE q == [p EXCEPT !.tasks = T, !.peer = r]
      <3>1. u \in Task /\ u.kind = "accept" /\ u.call = t.call
        BY <1>1, <1>2 DEF Task
      <3>2. r \in Peer
        BY <1>2 DEF Peer
      <3>3. phone' = [phone EXCEPT ![d] = q]
        BY <1>5, <2>2 DEF AcceptOpensPeer, Keep
      <3>4. p.tasks \ {t} \in SUBSET Task
        BY <1>1
      <3> HIDE DEF u, r
      <3>5. T \in SUBSET Task
        BY <3>1, <3>4, SupersededTasks
      <3> HIDE DEF T
      <3>6. /\ q \in CallStore /\ q.call = p.call /\ q.timers = p.timers
            /\ q.online = p.online /\ q.sock = p.sock /\ q.over = p.over
            /\ q.tasks = T
        BY <1>1, <3>2, <3>5 DEF CallStore
      <3> DEFINE v == [w EXCEPT !.tasks = Superseded(p.tasks \ {t})]
      <3>7. v.tasks = Superseded(p.tasks \ {t}) /\ TasksRight(d, v)
        <4>1. w \in CallStore /\ w.tasks = p.tasks \ {t} /\ TasksRight(d, w)
          BY <1>3 DEF PhoneRight
        <4> HIDE DEF w
        <4>2. v.tasks = Superseded(w.tasks)
          BY <4>1 DEF CallStore
        <4> HIDE DEF v
        <4> QED BY <3>4, <4>1, <4>2, SupersededTasksRight
      <3>8. Callee(d, t.call)
        BY <1>2 DEF PhoneRight, TasksRight
      <3> HIDE DEF q, v
      <3>9. TasksRight(d, q)
        BY <3>1, <3>6, <3>7, <3>8 DEF TasksRight, T
      <3>10. CallRight(d, q)
        BY <3>6 DEF PhoneRight, CallRight
      <3>11. TimersRight(q)
        BY <2>2, <3>6, <3>8 DEF PhoneRight, CallRight, TimersRight, Callee
      <3>12. Carries(d, p, q)
        <4>1. \A x \in Superseded(p.tasks \ {t}) :
                \E s \in p.tasks : x.kind = s.kind /\ x.call = s.call
          BY <3>4, CarriesSuperseded
        <4> QED BY <1>2, <3>1, <3>6, <4>1 DEF Carries, T
      <3> QED BY <3>3, <3>6, <3>9, <3>10, <3>11, <3>12 DEF PhoneRight, Becomes, SameLine
    <2> QED BY <2>1, <2>2
  <1>6. CASE AcceptAnswers(d, t)
    <2> DEFINE q == [w EXCEPT !.peer.sig = "stable", !.peer.with = CallerOf[t.call]]
    <2>1. phone' = [phone EXCEPT ![d] = IF ~t.fresh THEN w ELSE q]
      BY <1>6 DEF AcceptAnswers, Keep
    <2>2. w \in CallStore
      BY <1>3 DEF PhoneRight
    <2> HIDE DEF w
    <2>3. /\ q \in CallStore /\ q.call = w.call /\ q.timers = w.timers /\ q.over = w.over
          /\ q.tasks = w.tasks /\ q.online = w.online /\ q.sock = w.sock
      BY <1>2, <2>2 DEF CallStore, Peer
    <2> HIDE DEF q
    <2>4. PhoneRight(d, q) /\ Carries(d, p, q) /\ SameLine(d, q)
      BY <1>3, <2>3, SameCallBecomes
    <2> QED BY <1>3, <2>1, <2>4 DEF Becomes
  <1>7. CASE AcceptFails(d, t)
    BY <1>3, <1>7 DEF AcceptFails, Keep, Becomes
  <1> QED BY <1>4, <1>5, <1>6, <1>7

\* A phone that changes nothing.
LEMMA NothingBecomes ==
  ASSUME NEW d \in Phone, phone \in [Phone -> CallStore], PhoneRight(d, phone[d]),
         UNCHANGED phone
  PROVE  \E q : Becomes(d, q) /\ SameLine(d, q)
  <1>1. phone' = [phone EXCEPT ![d] = phone[d]]
    OBVIOUS
  <1>2. Carries(d, phone[d], phone[d]) /\ SameLine(d, phone[d])
    BY DEF Carries, SameLine
  <1> QED BY <1>1, <1>2 DEF Becomes

\* A phone whose tasks and identity of the call stay the same.
LEMMA StatusBecomes ==
  ASSUME NEW d \in Phone, PhoneRight(d, phone[d]), NEW q \in CallStore,
         phone' = [phone EXCEPT ![d] = q],
         q.tasks = phone[d].tasks, q.online = phone[d].online, q.sock = phone[d].sock,
         q.call.id = phone[d].call.id, q.call.dir = phone[d].call.dir,
         q.call.status # "none", q.call.id # NoId, q.call.status # "ringing",
         TimersRight(q)
  PROVE  \E p : Becomes(d, p) /\ SameLine(d, p)
  <1>1. TasksRight(d, q) /\ CallRight(d, q)
    BY DEF PhoneRight, TasksRight, CallRight, NoCall
  <1>2. Carries(d, phone[d], q) /\ SameLine(d, q)
    BY DEF Carries, SameLine
  <1> QED BY <1>1, <1>2 DEF PhoneRight, Becomes

LEMMA UserStepRight ==
  ASSUME NEW d \in Phone, PhoneRight(d, phone[d]),
         AcceptCall(d) \/ Decline(d) \/ HangUp(d)
  PROVE  \E q : Becomes(d, q) /\ SameLine(d, q)
  <1> DEFINE p == phone[d]
  <1>1. p \in CallStore /\ p.call \in Call
    BY DEF PhoneRight, CallStore
  <1>2. CASE AcceptCall(d)
    <2> DEFINE u == [kind |-> "accept", at |-> "capture", call |-> p.call.id, fresh |-> TRUE]
    <2> DEFINE q == [p EXCEPT !.call.status = "connecting",
                              !.timers = (@ \ {"ring"}) \cup {"connect"},
                              !.tasks = @ \cup {u}]
    <2>1. /\ p.call.dir = "incoming" /\ p.call.status = "ringing"
          /\ phone' = [phone EXCEPT ![d] = q]
      BY <1>2 DEF AcceptCall, Keep
    <2>2. p.call.id \in CallId /\ Callee(d, p.call.id)
      BY <1>1, <2>1 DEF Call, PhoneRight, CallRight, NoCall
    <2>3. u \in Task /\ u.kind = "accept" /\ u.call = p.call.id
      BY <2>2 DEF Task
    <2> HIDE DEF u
    <2>4. /\ q \in CallStore /\ q.tasks = p.tasks \cup {u}
          /\ q.timers = (p.timers \ {"ring"}) \cup {"connect"} /\ q.over = p.over
          /\ q.call.id = p.call.id /\ q.call.dir = p.call.dir /\ q.call.status = "connecting"
          /\ q.online = p.online /\ q.sock = p.sock
      BY <1>1, <2>3 DEF CallStore, Call, Status
    <2> HIDE DEF q
    <2>5. TasksRight(d, q)
      BY <2>2, <2>3, <2>4 DEF PhoneRight, TasksRight
    <2>6. CallRight(d, q)
      BY <2>1, <2>2, <2>4, CallAssumption DEF PhoneRight, CallRight
    <2>7. TimersRight(q)
      BY <2>2, <2>4, CallAssumption DEF PhoneRight, TimersRight, NoCall
    <2>8. Carries(d, p, q)
      BY <2>1, <2>3, <2>4 DEF Carries
    <2> QED BY <2>1, <2>4, <2>5, <2>6, <2>7, <2>8 DEF PhoneRight, Becomes, SameLine
  <1>3. CASE Decline(d)
    BY <1>3, DeclineCallBecomes DEF Decline
  <1>4. CASE HangUp(d)
    <2>1. p.call # NoCall
      BY <1>4 DEF HangUp, Live, NoCall
    <2> QED BY <1>4, <2>1, EndCallBecomes DEF HangUp
  <1> QED BY <1>2, <1>3, <1>4

MailRight ==
  \A d \in Phone : \A i \in DOMAIN mail[d] :
    mail[d][i].ev = "incoming" => Callee(d, mail[d][i].call)

LEMMA HeadOfMail ==
  ASSUME NEW d \in Phone, mail \in [Phone -> Seq(Mail)], NEW ev, Hears(d, ev)
  PROVE  /\ Len(mail[d]) \in Nat \ {0} /\ 1 \in DOMAIN mail[d]
         /\ Head(mail[d]) = mail[d][1] /\ Head(mail[d]) \in Mail
         /\ Head(mail[d]).ev = ev /\ Head(mail[d]).call \in CallId
  <1>1. mail[d] \in Seq(Mail) /\ mail[d] # <<>>
    BY DEF Hears
  <1>2. Len(mail[d]) \in Nat \ {0} /\ 1 \in DOMAIN mail[d] /\ Head(mail[d]) = mail[d][1]
    BY <1>1, EmptySeq
  <1>3. Head(mail[d]) \in Mail
    BY <1>1, HeadTailProperties
  <1> QED BY <1>2, <1>3 DEF Hears, Mail

LEMMA HeardStepRight ==
  ASSUME NEW d \in Phone, PhoneRight(d, phone[d]), phone \in [Phone -> CallStore],
         mail \in [Phone -> Seq(Mail)], MailRight,
         Incoming(d) \/ Answered(d) \/ AnswerUnusable(d) \/ RemoteOffer(d) \/ RemoteEnd(d)
  PROVE  \E q : Becomes(d, q) /\ SameLine(d, q)
  <1> DEFINE p == phone[d]
  <1> DEFINE m == Head(mail[d])
  <1>1. p \in CallStore /\ p.call \in Call
    BY DEF PhoneRight, CallStore
  <1>2. CASE UNCHANGED phone
    BY <1>2, NothingBecomes
  <1>3. CASE Incoming(d) /\ phone' # phone
    <2> DEFINE c == [id |-> m.call, dir |-> "incoming", status |-> "ringing"]
    <2> DEFINE q == [p EXCEPT !.timers = @ \cup {"ring"}, !.call = c]
    <2>1. /\ Hears(d, "incoming") /\ p.call = NoCall
          /\ phone' = [phone EXCEPT ![d] = q]
      BY <1>3 DEF Incoming, Keep
    <2>2. /\ m.call \in CallId /\ Callee(d, m.call) /\ p.online
      BY <2>1, HeadOfMail DEF MailRight, Hears
    <2>3. c \in Call /\ c.id = m.call /\ c.dir = "incoming" /\ c.status = "ringing"
      BY <2>2 DEF Call, Status
    <2> HIDE DEF c
    <2>4. /\ q \in CallStore /\ q.call = c /\ q.timers = p.timers \cup {"ring"}
          /\ q.tasks = p.tasks /\ q.online = p.online /\ q.sock = p.sock
      BY <1>1, <2>3 DEF CallStore
    <2> HIDE DEF q
    <2>5. TasksRight(d, q)
      BY <2>4 DEF PhoneRight, TasksRight
    <2>6. CallRight(d, q)
      BY <2>2, <2>3, <2>4, CallAssumption DEF PhoneRight, CallRight
    <2>7. TimersRight(q)
      BY <2>1, <2>3, <2>4 DEF PhoneRight, TimersRight
    <2>8. Carries(d, p, q)
      BY <2>1, <2>3, <2>4 DEF Carries
    <2> QED BY <2>1, <2>4, <2>5, <2>6, <2>7, <2>8 DEF PhoneRight, Becomes, SameLine
  <1>4. CASE Answered(d) /\ phone' # phone
    <2> DEFINE q == IF p.peer.sig = "offered"
                    THEN [p EXCEPT !.peer.sig = "stable", !.peer.with = m.from] ELSE p
    <2> DEFINE r == [q EXCEPT !.call.status = "connecting",
                              !.timers = (@ \ {"ring"}) \cup {"connect"}]
    <2>1. /\ Hears(d, "answered") /\ p.call.id = m.call
          /\ phone' = [phone EXCEPT ![d] = IF p.call.status # "ringing" THEN q ELSE r]
      BY <1>4 DEF Answered, Keep
    <2>2. m \in Mail /\ m.from \in Phone \cup {NoId} /\ m.call \in CallId
      BY <2>1, HeadOfMail DEF Mail
    <2> HIDE DEF m
    <2>3. /\ q \in CallStore /\ q.call = p.call /\ q.timers = p.timers /\ q.over = p.over
          /\ q.tasks = p.tasks /\ q.online = p.online /\ q.sock = p.sock
      BY <1>1, <2>2 DEF CallStore, Peer
    <2> HIDE DEF q
    <2>4. /\ r \in CallStore /\ r.timers = (p.timers \ {"ring"}) \cup {"connect"}
          /\ r.over = p.over /\ r.tasks = p.tasks /\ r.online = p.online /\ r.sock = p.sock
          /\ r.call.id = p.call.id /\ r.call.dir = p.call.dir /\ r.call.status = "connecting"
      BY <2>3 DEF CallStore, Call, Status
    <2> HIDE DEF r
    <2>5. CASE p.call.status # "ringing"
      <3>1. Carries(d, p, p) /\ SameLine(d, p)
        BY DEF Carries, SameLine
      <3>2. PhoneRight(d, q) /\ Carries(d, p, q) /\ SameLine(d, q)
        BY <2>3, <3>1, SameCallBecomes
      <3> QED BY <2>1, <2>5, <3>2 DEF Becomes
    <2>6. CASE p.call.status = "ringing"
      <3>1. TimersRight(r) /\ r.call.id # NoId
        BY <2>1, <2>2, <2>4, CallAssumption DEF PhoneRight, TimersRight, NoCall
      <3> QED BY <2>1, <2>4, <2>6, <3>1, StatusBecomes
    <2> QED BY <2>5, <2>6
  <1>5. CASE AnswerUnusable(d)
    <2>1. p.call # NoCall
      <3>1. p.call.id \in CallId
        BY <1>5, HeadOfMail DEF AnswerUnusable
      <3> QED BY <3>1, CallAssumption DEF NoCall
    <2> QED BY <1>5, <2>1, EndCallBecomes DEF AnswerUnusable
  <1>6. CASE RemoteEnd(d) /\ phone' # phone
    <2>1. /\ m.ev \in {"declined", "ended"} /\ m.call \in CallId /\ p.call.id = m.call
          /\ phone' = [phone EXCEPT ![d] = Over(p, m.ev)]
      <3>1. Hears(d, "ended") \/ Hears(d, "declined")
        BY <1>6 DEF RemoteEnd
      <3>2. m.ev \in {"declined", "ended"} /\ m.call \in CallId
        BY <3>1, HeadOfMail
      <3>3. p.call.id = m.call /\ phone' = [phone EXCEPT ![d] = Over(p, m.ev)]
        BY <1>6 DEF RemoteEnd, Keep
      <3> QED BY <3>2, <3>3
    <2>2. p.call # NoCall
      <3>1. p.call.id \in CallId
        BY <2>1
      <3> QED BY <3>1, CallAssumption DEF NoCall
    <2>3. PICK s \in {"declined", "ended"} : s = m.ev
      BY <2>1
    <2> DEFINE q == Over(p, s)
    <2>4. PhoneRight(d, q) /\ Carries(d, p, q) /\ SameLine(d, q)
      BY <1>1, <2>2, OverBecomes
    <2>5. phone' = [phone EXCEPT ![d] = q]
      BY <2>1, <2>3
    <2> HIDE DEF q
    <2> QED BY <2>4, <2>5 DEF Becomes
  <1> QED BY <1>2, <1>3, <1>4, <1>5, <1>6 DEF RemoteOffer

LEMMA MediaStepRight ==
  ASSUME NEW d \in Phone, PhoneRight(d, phone[d]),
         Connect(d) \/ Break(d) \/ PeerFails(d) \/ RestartIce(d)
  PROVE  \E q : Becomes(d, q) /\ SameLine(d, q)
  <1> DEFINE p == phone[d]
  <1>1. p \in CallStore /\ p.call \in Call
    BY DEF PhoneRight, CallStore
  <1>2. p.call.status \in {"connecting", "connected", "reconnecting"} => p.call.id # NoId
    BY <1>1 DEF PhoneRight, CallRight, NoCall
  <1>3. CASE Connect(d)
    <2> DEFINE q == [p EXCEPT !.call.status = "connected", !.timers = {}]
    <2>1. /\ p.call.status \in {"connecting", "reconnecting"}
          /\ phone' = [phone EXCEPT ![d] = q]
      BY <1>3 DEF Connect, Keep
    <2>2. /\ q \in CallStore /\ q.timers = {} /\ q.tasks = p.tasks
          /\ q.online = p.online /\ q.sock = p.sock
          /\ q.call.id = p.call.id /\ q.call.dir = p.call.dir /\ q.call.status = "connected"
      BY <1>1 DEF CallStore, Call, Status
    <2> HIDE DEF q
    <2>3. TimersRight(q)
      BY <2>2 DEF TimersRight
    <2> QED BY <1>2, <2>1, <2>2, <2>3, StatusBecomes
  <1>4. CASE Break(d) \/ PeerFails(d)
    <2> DEFINE q == [p EXCEPT !.call.status = "reconnecting",
                              !.timers = @ \cup {"reconnect"}]
    <2>1. /\ p.call.status \in {"connecting", "connected"} /\ p.over = {}
          /\ phone' = [phone EXCEPT ![d] = q]
      BY <1>4 DEF Break, PeerFails, BeginRecovery, Keep
    <2>2. /\ q \in CallStore /\ q.timers = p.timers \cup {"reconnect"} /\ q.over = p.over
          /\ q.tasks = p.tasks /\ q.online = p.online /\ q.sock = p.sock
          /\ q.call.id = p.call.id /\ q.call.dir = p.call.dir
          /\ q.call.status = "reconnecting"
      BY <1>1 DEF CallStore, Call, Status
    <2> HIDE DEF q
    <2>3. TimersRight(q)
      BY <2>1, <2>2 DEF TimersRight, NoCall
    <2> QED BY <1>2, <2>1, <2>2, <2>3, StatusBecomes
  <1>5. CASE RestartIce(d)
    <2> DEFINE q == [p EXCEPT !.peer.sig = "offered"]
    <2>1. phone' = [phone EXCEPT ![d] = q]
      BY <1>5 DEF RestartIce, Keep
    <2>2. /\ q \in CallStore /\ q.call = p.call /\ q.timers = p.timers /\ q.over = p.over
          /\ q.tasks = p.tasks /\ q.online = p.online /\ q.sock = p.sock
      BY <1>1 DEF CallStore, Peer
    <2> HIDE DEF q
    <2>3. Carries(d, p, p) /\ SameLine(d, p)
      BY DEF Carries, SameLine
    <2>4. PhoneRight(d, q) /\ Carries(d, p, q) /\ SameLine(d, q)
      BY <2>2, <2>3, SameCallBecomes
    <2> QED BY <2>1, <2>4 DEF Becomes
  <1> QED BY <1>3, <1>4, <1>5

LEMMA TimerStepRight ==
  ASSUME NEW d \in Phone, PhoneRight(d, phone[d]),
         \/ RingTimeout(d) \/ ConnectTimeout(d) \/ ReconnectTimeout(d)
         \/ \E c \in CallId : ClearOver(d, c)
  PROVE  \E q : Becomes(d, q) /\ SameLine(d, q)
  <1> DEFINE p == phone[d]
  <1>1. p \in CallStore /\ p.call \in Call
    BY DEF PhoneRight, CallStore
  <1>2. ASSUME NEW timer \in {"ring", "connect"},
               phone' = [phone EXCEPT ![d] = Fired(d, timer)],
               timer = "ring" => p.call.status # "ringing",
               timer = "connect" => p.call.status # "connecting"
        PROVE  \E q : Becomes(d, q) /\ SameLine(d, q)
    <2> DEFINE q == Fired(d, timer)
    <2>1. /\ q \in CallStore /\ q.call = p.call /\ q.timers = p.timers \ {timer}
          /\ q.over = p.over /\ q.tasks = p.tasks
          /\ q.online = p.online /\ q.sock = p.sock
      BY <1>1 DEF Fired, CallStore
    <2> HIDE DEF q
    <2>2. TasksRight(d, q) /\ CallRight(d, q)
      BY <2>1 DEF PhoneRight, TasksRight, CallRight
    <2>3. TimersRight(q)
      BY <1>2, <2>1 DEF PhoneRight, TimersRight
    <2>4. Carries(d, p, q) /\ SameLine(d, q)
      BY <2>1 DEF Carries, SameLine
    <2> QED BY <1>2, <2>1, <2>2, <2>3, <2>4 DEF PhoneRight, Becomes, q
  <1>3. CASE RingTimeout(d)
    <2>1. CASE p.call.status # "ringing"
      BY <1>2, <1>3, <2>1 DEF RingTimeout, Keep
    <2>2. CASE p.call.status = "ringing"
      <3>1. p.call # NoCall
        BY <2>2 DEF NoCall
      <3> QED BY <1>3, <2>2, <3>1, EndCallBecomes, DeclineCallBecomes DEF RingTimeout
    <2> QED BY <2>1, <2>2
  <1>4. CASE ConnectTimeout(d)
    <2>1. CASE p.call.status # "connecting"
      BY <1>2, <1>4, <2>1 DEF ConnectTimeout, Keep
    <2>2. CASE p.call.status = "connecting"
      <3>1. p.call # NoCall
        BY <2>2 DEF NoCall
      <3> QED BY <1>4, <2>2, <3>1, EndCallBecomes DEF ConnectTimeout
    <2> QED BY <2>1, <2>2
  <1>5. CASE ReconnectTimeout(d)
    <2>1. p.call # NoCall
      BY <1>5 DEF ReconnectTimeout, PhoneRight, TimersRight
    <2> QED BY <1>5, <2>1, EndCallBecomes DEF ReconnectTimeout
  <1>6. ASSUME NEW c \in CallId, ClearOver(d, c)
        PROVE  \E q : Becomes(d, q) /\ SameLine(d, q)
    <2> DEFINE q == [p EXCEPT !.over = @ \ {c}, !.call = IF p.call.id = c THEN NoCall ELSE @]
    <2>1. c \in p.over /\ phone' = [phone EXCEPT ![d] = q]
      BY <1>6 DEF ClearOver, Keep
    <2>2. NoCall \in Call
      BY DEF NoCall, Call, Status
    <2>3. /\ q \in CallStore /\ q.call = (IF p.call.id = c THEN NoCall ELSE p.call)
          /\ q.timers = p.timers /\ q.over = p.over \ {c} /\ q.tasks = p.tasks
          /\ q.online = p.online /\ q.sock = p.sock
      BY <1>1, <2>2 DEF CallStore
    <2> HIDE DEF q
    <2>4. TasksRight(d, q)
      BY <2>3 DEF PhoneRight, TasksRight
    <2>5. CallRight(d, q)
      BY <2>3 DEF PhoneRight, CallRight, NoCall
    <2>6. TimersRight(q)
      BY <2>1, <2>3 DEF PhoneRight, TimersRight, NoCall
    <2>7. Carries(d, p, q)
      BY <2>3 DEF Carries, NoCall
    <2> QED BY <2>1, <2>3, <2>4, <2>5, <2>6, <2>7 DEF PhoneRight, Becomes, SameLine
  <1> QED BY <1>3, <1>4, <1>5, <1>6

\* The call of an offline phone does not ring, unless the phone places it.
LEMMA ConnectionStepRight ==
  ASSUME NEW d \in Phone, PhoneRight(d, phone[d]),
         ConnectionLost(d) \/ Recover(d) \/ Reconnect(d)
  PROVE  \E q : /\ Becomes(d, q)
                /\ q.sock = phone[d].sock + (IF Reconnect(d) THEN 1 ELSE 0)
                /\ q.online <=> ~ConnectionLost(d)
  <1> DEFINE p == phone[d]
  <1>1. p \in CallStore /\ p.call \in Call /\ p.sock \in Nat
    BY DEF PhoneRight, CallStore
  <1>2. CASE ConnectionLost(d)
    <2> DEFINE w == IF p.call.dir = "incoming" /\ p.call.status = "ringing"
                    THEN Dropped(p) ELSE p
    <2> DEFINE q == [w EXCEPT !.online = FALSE]
    <2>1. /\ p.online /\ phone' = [phone EXCEPT ![d] = q]
      BY <1>2 DEF ConnectionLost, Keep
    <2>2. /\ PhoneRight(d, w) /\ Carries(d, p, w) /\ w.sock = p.sock
          /\ ~(w.call.dir = "incoming" /\ w.call.status = "ringing")
      <3>1. CASE w = p
        BY <3>1, DroppedRight DEF Carries, NoCall
      <3>2. CASE w = Dropped(p)
        <4>1. Dropped(p).call = NoCall
          BY DroppedRight
        <4> QED BY <3>2, <4>1, DroppedBecomes DEF SameLine, NoCall
      <3> QED BY <3>1, <3>2
    <2> HIDE DEF w
    <2>3. /\ q \in CallStore /\ q.call = w.call /\ q.timers = w.timers /\ q.over = w.over
          /\ q.tasks = w.tasks /\ q.online = FALSE /\ q.sock = w.sock
      BY <2>2 DEF PhoneRight, CallStore
    <2> HIDE DEF q
    <2>4. TasksRight(d, q)
      BY <2>2, <2>3 DEF PhoneRight, TasksRight
    <2>5. CallRight(d, q) /\ TimersRight(q)
      BY <2>2, <2>3 DEF PhoneRight, CallRight, TimersRight
    <2>6. Carries(d, p, q)
      BY <2>2, <2>3 DEF Carries
    <2>7. ~Reconnect(d)
      BY <2>1 DEF Reconnect
    <2>8. q.sock = p.sock + (IF Reconnect(d) THEN 1 ELSE 0)
      BY <1>1, <2>2, <2>3, <2>7
    <2>9. q.online <=> ~ConnectionLost(d)
      BY <1>2, <2>3
    <2>10. Becomes(d, q)
      BY <2>1, <2>3, <2>4, <2>5, <2>6 DEF PhoneRight, Becomes, q
    <2> QED BY <2>8, <2>9, <2>10
  <1>3. CASE Recover(d) \/ Reconnect(d)
    <2> DEFINE n == IF Reconnect(d) THEN p.sock + 1 ELSE p.sock
    <2> DEFINE q == [p EXCEPT !.online = TRUE, !.sock = n]
    <2>1. /\ ~p.online /\ <<d, n>> \in Socket /\ ~ConnectionLost(d)
      BY <1>3 DEF Recover, Reconnect, ConnectionLost, PhoneRight, CallRight
    <2>2. phone' = [phone EXCEPT ![d] = q]
      <3>1. CASE Reconnect(d)
        BY <1>1, <3>1 DEF Reconnect, Keep, CallStore
      <3>2. CASE ~Reconnect(d)
        <4>1. [p EXCEPT !.online = TRUE] = [p EXCEPT !.online = TRUE, !.sock = p.sock]
          BY <1>1 DEF CallStore
        <4> QED BY <1>3, <3>2, <4>1 DEF Recover, Keep
      <3> QED BY <3>1, <3>2
    <2>3. n \in Nat
      BY <1>1
    <2> HIDE DEF n
    <2>4. /\ q \in CallStore /\ q.call = p.call /\ q.timers = p.timers /\ q.over = p.over
          /\ q.tasks = p.tasks /\ q.online = TRUE /\ q.sock = n
      BY <1>1, <2>3 DEF CallStore
    <2> HIDE DEF q
    <2>5. TasksRight(d, q)
      BY <2>4 DEF PhoneRight, TasksRight
    <2>6. CallRight(d, q) /\ TimersRight(q)
      BY <2>1, <2>4 DEF PhoneRight, CallRight, TimersRight
    <2>7. Carries(d, p, q)
      BY <2>4 DEF Carries
    <2>8. q.sock = p.sock + (IF Reconnect(d) THEN 1 ELSE 0)
      BY <1>1, <2>4 DEF n
    <2> QED BY <2>1, <2>2, <2>4, <2>5, <2>6, <2>7, <2>8 DEF PhoneRight, Becomes
  <1> QED BY <1>2, <1>3

\* A phone starts a call it has not started before.
LEMMA StartCallRight ==
  ASSUME NEW d \in Phone, PhoneRight(d, phone[d]), NEW c \in CallId, StartCall(d, c),
         \A t \in phone[d].tasks : t.kind = "start" => t.call \in placed
  PROVE  \E q : Becomes(d, q) /\ SameLine(d, q)
  <1> DEFINE p == phone[d]
  <1> DEFINE u == [kind |-> "start", at |-> "capture", call |-> c, fresh |-> TRUE]
  <1> DEFINE q == [p EXCEPT !.tasks = @ \cup {u}]
  <1>1. /\ CallerOf[c] = d /\ c \notin placed /\ c \in placed'
        /\ phone' = [phone EXCEPT ![d] = q]
    BY DEF StartCall, Keep
  <1>2. p \in CallStore
    BY DEF PhoneRight
  <1>3. u \in Task /\ u.kind = "start" /\ u.call = c
    BY DEF Task
  <1> HIDE DEF u
  <1>4. /\ q \in CallStore /\ q.call = p.call /\ q.timers = p.timers /\ q.over = p.over
        /\ q.tasks = p.tasks \cup {u} /\ q.online = p.online /\ q.sock = p.sock
    BY <1>2, <1>3 DEF CallStore
  <1> HIDE DEF q
  <1>5. TasksRight(d, q)
    BY <1>1, <1>3, <1>4 DEF PhoneRight, TasksRight
  <1>6. CallRight(d, q) /\ TimersRight(q)
    BY <1>4 DEF PhoneRight, CallRight, TimersRight
  <1>7. Carries(d, p, q)
    BY <1>1, <1>3, <1>4 DEF Carries
  <1> QED BY <1>1, <1>4, <1>5, <1>6, <1>7 DEF PhoneRight, Becomes, SameLine

\* Starts are under way only for calls that have been placed.
StartsPlaced ==
  \A d \in Phone : \A t \in phone[d].tasks : t.kind = "start" => t.call \in placed

\* Every step of a phone leaves it as it should be, and none touches another phone.
LEMMA PhoneStepRight ==
  ASSUME NEW d \in Phone, PhonesRight, phone \in [Phone -> CallStore],
         mail \in [Phone -> Seq(Mail)], MailRight, StartsPlaced, PhoneStep(d)
  PROVE  \E q : /\ Becomes(d, q)
                /\ \/ SameLine(d, q)
                   \/ ConnectionLost(d) /\ q.sock = phone[d].sock /\ ~q.online
                   \/ Recover(d) /\ q.sock = phone[d].sock
                   \/ Reconnect(d) /\ q.sock = phone[d].sock + 1
  <1>1. PhoneRight(d, phone[d])
    BY DEF PhonesRight
  <1>2. CASE \E c \in CallId : StartCall(d, c)
    BY <1>1, <1>2, StartCallRight DEF StartsPlaced
  <1>3. CASE \E t \in phone[d].tasks : TaskStep(d, t)
    BY <1>1, <1>3, StartStepRight, AcceptStepRight DEF TaskStep
  <1>4. CASE AcceptCall(d) \/ Decline(d) \/ HangUp(d)
    BY <1>1, <1>4, UserStepRight
  <1>5. CASE Incoming(d) \/ Answered(d) \/ AnswerUnusable(d) \/ RemoteOffer(d) \/ RemoteEnd(d)
    BY <1>1, <1>5, HeardStepRight
  <1>6. CASE Connect(d) \/ Break(d) \/ PeerFails(d) \/ RestartIce(d)
    BY <1>1, <1>6, MediaStepRight
  <1>7. CASE \/ RingTimeout(d) \/ ConnectTimeout(d) \/ ReconnectTimeout(d)
             \/ \E c \in CallId : ClearOver(d, c)
    BY <1>1, <1>7, TimerStepRight
  <1>8. CASE ConnectionLost(d) \/ Recover(d) \/ Reconnect(d)
    <2>1. PICK q : /\ Becomes(d, q)
                   /\ q.sock = phone[d].sock + (IF Reconnect(d) THEN 1 ELSE 0)
                   /\ q.online <=> ~ConnectionLost(d)
      BY <1>1, <1>8, ConnectionStepRight
    <2>2. phone[d].sock + 0 = phone[d].sock
      BY DEF CallStore
    <2>3. Reconnect(d) \/ q.sock = phone[d].sock
      BY <2>1, <2>2
    <2>4. Reconnect(d) => q.sock = phone[d].sock + 1
      BY <2>1
    <2> QED BY <1>8, <2>1, <2>3, <2>4, Zenon DEF Reconnect, ConnectionLost
  <1> QED BY <1>2, <1>3, <1>4, <1>5, <1>6, <1>7, <1>8 DEF PhoneStep

-----------------------------------------------------------------------------
(* What the steps of a phone do to the rest.                               *)

\* Phone d knows of call c because it was invited to it.
InvitedTo(d, c) ==
  \/ phone[d].call.dir = "incoming" /\ phone[d].call.id = c
  \/ \E t \in phone[d].tasks : t.kind = "accept" /\ t.call = c
  \/ Hears(d, "incoming") /\ Head(mail[d]).call = c

\* What a step of a phone does to the tables of the server.
LEMMA PhoneStepTables ==
  ASSUME NEW d \in Phone, PhoneStep(d), ~Recover(d), ~Reconnect(d)
  PROVE  /\ UNCHANGED serverVars
         /\ \/ UNCHANGED mail
            \/ /\ mail' = [mail EXCEPT ![d] = Tail(@)]
               /\ \E ev \in MailEvent : Hears(d, ev)
         /\ attended' = attended
         /\ \/ placed' = placed
            \/ \E c \in CallId : CallerOf[c] = d /\ c \notin placed /\ placed' = placed \cup {c}
         /\ trouble' = trouble \/ Troubled
  <1>1. CASE \E c \in CallId : StartCall(d, c)
    BY <1>1 DEF StartCall
  <1>2. CASE \E t \in phone[d].tasks : TaskStep(d, t)
    BY <1>2 DEF TaskStep, StartRings, StartArms, StartInvites, StartFails, AcceptCaptures,
                AcceptOpensPeer, AcceptAnswers, AcceptFails, OnPhone, WithTrouble, callBounds
  <1>3. CASE AcceptCall(d) \/ Decline(d) \/ HangUp(d)
    BY <1>3 DEF AcceptCall, Decline, HangUp, OnPhone, WithTrouble, callBounds
  <1>4. CASE Incoming(d) \/ Answered(d) \/ AnswerUnusable(d) \/ RemoteOffer(d) \/ RemoteEnd(d)
    BY <1>4 DEF Incoming, Answered, AnswerUnusable, RemoteOffer, RemoteEnd, Heard, MailEvent,
                callBounds
  <1>5. CASE Connect(d) \/ Break(d) \/ PeerFails(d) \/ RestartIce(d)
    BY <1>5 DEF Connect, Break, PeerFails, RestartIce, OnPhone, WithTrouble, callBounds
  <1>6. CASE \/ RingTimeout(d) \/ ConnectTimeout(d) \/ ReconnectTimeout(d)
             \/ \E c \in CallId : ClearOver(d, c)
    BY <1>6 DEF RingTimeout, ConnectTimeout, ReconnectTimeout, ClearOver, OnPhone, callBounds
  <1>7. CASE ConnectionLost(d)
    BY <1>7 DEF ConnectionLost, WithTrouble
  <1> QED BY <1>1, <1>2, <1>3, <1>4, <1>5, <1>6, <1>7 DEF PhoneStep

LEMMA EmitAdds ==
  ASSUME NEW d \in Phone, NEW c \in CallId, NEW ev, Emit(d, ev, c)
  PROVE  \A r \in requests' \ requests :
           r = [ev |-> ev, call |-> c, socket |-> Line(d)]
  BY DEF Emit

\* What a phone may ask the server for.
MayRequest(d, r) ==
  /\ r \in Request /\ r.socket[1] = d /\ r.ev # "save"
  /\ r.ev = "invite" => \E t \in phone[d].tasks : StartInvites(d, t) /\ t.call = r.call
  /\ r.ev \in {"answer", "decline"} => InvitedTo(d, r.call)

LEMMA NewRequest ==
  ASSUME NEW d \in Phone, PhoneRight(d, phone[d]), NEW c \in CallId,
         NEW ev \in {"invite", "answer", "offer", "resume", "decline", "end"}
  PROVE  LET r == [ev |-> ev, call |-> c, socket |-> Line(d)] IN
         r \in Request /\ r.socket[1] = d /\ r.ev = ev /\ r.call = c
  BY DEF PhoneRight, CallRight, Line, Request

\* What a task asks for.
LEMMA TaskStepRequests ==
  ASSUME NEW d \in Phone, PhoneRight(d, phone[d]), NEW t \in phone[d].tasks, TaskStep(d, t),
         NEW r \in requests' \ requests
  PROVE  MayRequest(d, r)
  <1>1. t.call \in CallId
    BY DEF PhoneRight, CallStore, Task
  <1>2. CASE StartInvites(d, t) /\ Emit(d, "invite", t.call)
    <2>1. r = [ev |-> "invite", call |-> t.call, socket |-> Line(d)]
      BY <1>1, <1>2, EmitAdds
    <2>2. r \in Request /\ r.socket[1] = d /\ r.ev = "invite" /\ r.call = t.call
      BY <1>1, <2>1, NewRequest
    <2> QED BY <1>2, <2>2 DEF MayRequest
  <1>3. CASE t.kind = "accept" /\ (Emit(d, "answer", t.call) \/ Emit(d, "decline", t.call))
    <2>1. PICK ev \in {"answer", "decline"} : Emit(d, ev, t.call)
      BY <1>3
    <2>2. r = [ev |-> ev, call |-> t.call, socket |-> Line(d)]
      BY <1>1, <2>1, EmitAdds
    <2>3. r \in Request /\ r.socket[1] = d /\ r.ev = ev /\ r.call = t.call
      BY <1>1, <2>2, NewRequest
    <2> QED BY <1>3, <2>3 DEF MayRequest, InvitedTo
  <1>4. ~UNCHANGED requests
    OBVIOUS
  <1> QED BY <1>2, <1>3, <1>4
          DEF TaskStep, StartRings, StartArms, StartInvites, StartFails, AcceptCaptures,
              AcceptOpensPeer, AcceptAnswers, AcceptFails, Silent

\* The end of a call is requested by a phone in it, a refusal by one that was invited.
LEMMA EndRequests ==
  ASSUME NEW d \in Phone, PhoneRight(d, phone[d]), phone[d].call # NoCall,
         \/ \E reason : EndCall(d, reason)
         \/ phone[d].call.dir = "incoming" /\ DeclineCall(d),
         NEW r \in requests' \ requests
  PROVE  MayRequest(d, r)
  <1> DEFINE c == phone[d].call.id
  <1>1. c \in CallId
    BY DEF PhoneRight, CallRight, CallStore, Call
  <1>2. PICK ev \in {"end", "decline"} :
          Emit(d, ev, c) /\ (ev = "decline" => phone[d].call.dir = "incoming")
    BY DEF EndCall, DeclineCall
  <1>3. r = [ev |-> ev, call |-> c, socket |-> Line(d)]
    BY <1>1, <1>2, EmitAdds
  <1>4. r \in Request /\ r.socket[1] = d /\ r.ev = ev /\ r.call = c
    BY <1>1, <1>3, NewRequest
  <1> QED BY <1>2, <1>4 DEF MayRequest, InvitedTo

LEMMA HeardRequests ==
  ASSUME NEW d \in Phone, PhoneRight(d, phone[d]), mail \in [Phone -> Seq(Mail)],
         Incoming(d) \/ Answered(d) \/ AnswerUnusable(d) \/ RemoteOffer(d) \/ RemoteEnd(d),
         NEW r \in requests' \ requests
  PROVE  MayRequest(d, r)
  <1>1. ~Silent
    BY DEF Silent
  <1>2. CASE Incoming(d)
    <2> DEFINE c == Head(mail[d]).call
    <2>1. Hears(d, "incoming") /\ c \in CallId /\ Emit(d, "decline", c)
      BY <1>1, <1>2, HeadOfMail DEF Incoming
    <2>2. r = [ev |-> "decline", call |-> c, socket |-> Line(d)]
      BY <2>1, EmitAdds
    <2>3. r \in Request /\ r.socket[1] = d /\ r.ev = "decline" /\ r.call = c
      BY <2>1, <2>2, NewRequest
    <2> QED BY <2>1, <2>3 DEF MayRequest, InvitedTo
  <1>3. CASE AnswerUnusable(d)
    <2>1. phone[d].call.id \in CallId /\ EndCall(d, "connection-failed")
      BY <1>3, HeadOfMail DEF AnswerUnusable
    <2>2. phone[d].call # NoCall
      BY <2>1, CallAssumption DEF NoCall
    <2> QED BY <2>1, <2>2, EndRequests
  <1>4. CASE RemoteOffer(d)
    <2> DEFINE c == Head(mail[d]).call
    <2>1. /\ c \in CallId /\ Emit(d, "answer", c)
          /\ phone[d].call.dir = "incoming" /\ phone[d].call.id = c
      BY <1>1, <1>4, HeadOfMail DEF RemoteOffer
    <2>2. r = [ev |-> "answer", call |-> c, socket |-> Line(d)]
      BY <2>1, EmitAdds
    <2>3. r \in Request /\ r.socket[1] = d /\ r.ev = "answer" /\ r.call = c
      BY <2>1, <2>2, NewRequest
    <2> QED BY <2>1, <2>3 DEF MayRequest, InvitedTo
  <1> QED BY <1>1, <1>2, <1>3, <1>4 DEF Answered, RemoteEnd

LEMMA ResumeRequests ==
  ASSUME NEW d \in Phone, PhoneRight(d, phone[d]), Recover(d) \/ Reconnect(d),
         NEW r \in requests' \ requests
  PROVE  MayRequest(d, r)
  <1> DEFINE c == phone[d].call.id
  <1>1. PICK s \in Socket : s[1] = d /\ Resume(d, s)
    BY DEF Recover, Reconnect, Line, PhoneRight, CallRight
  <1>2. Live(phone[d].call) /\ r = [ev |-> "resume", call |-> c, socket |-> s]
    BY <1>1 DEF Resume
  <1>3. c \in CallId
    BY <1>2 DEF Live, PhoneRight, CallRight, CallStore, Call, NoCall
  <1> QED BY <1>1, <1>2, <1>3 DEF MayRequest, Request

\* Every request of a phone is one it may make.
LEMMA PhoneStepRequests ==
  ASSUME NEW d \in Phone, PhoneRight(d, phone[d]), mail \in [Phone -> Seq(Mail)],
         PhoneStep(d), NEW r \in requests' \ requests
  PROVE  MayRequest(d, r)
  <1>1. ~Silent /\ ~UNCHANGED requests
    BY DEF Silent
  <1>2. CASE \E t \in phone[d].tasks : TaskStep(d, t)
    BY <1>2, TaskStepRequests
  <1>3. CASE Decline(d) \/ HangUp(d)
    <2>1. phone[d].call # NoCall
      BY <1>3 DEF Decline, HangUp, Live, NoCall
    <2> QED BY <1>3, <2>1, EndRequests DEF Decline, HangUp
  <1>4. CASE Incoming(d) \/ Answered(d) \/ AnswerUnusable(d) \/ RemoteOffer(d) \/ RemoteEnd(d)
    BY <1>4, HeardRequests
  <1>5. CASE RestartIce(d)
    <2> DEFINE c == phone[d].call.id
    <2>1. Emit(d, "offer", c) /\ phone[d].call.status = "reconnecting"
      BY <1>5 DEF RestartIce
    <2>2. c \in CallId
      BY <2>1 DEF PhoneRight, CallRight, CallStore, Call, NoCall
    <2>3. r = [ev |-> "offer", call |-> c, socket |-> Line(d)]
      BY <2>1, <2>2, EmitAdds
    <2>4. r \in Request /\ r.socket[1] = d /\ r.ev = "offer" /\ r.call = c
      BY <2>2, <2>3, NewRequest
    <2> QED BY <2>4 DEF MayRequest
  <1>6. CASE RingTimeout(d) \/ ConnectTimeout(d) \/ ReconnectTimeout(d)
    <2>1. /\ \/ EndCall(d, "unanswered") \/ EndCall(d, "connection-failed")
             \/ EndCall(d, "connection-lost")
             \/ phone[d].call.dir = "incoming" /\ DeclineCall(d)
          /\ phone[d].call # NoCall
      <3>1. phone[d].call \in Call
        BY DEF PhoneRight, CallStore
      <3>2. CASE RingTimeout(d)
        BY <1>1, <3>1, <3>2 DEF RingTimeout, PhoneRight, CallRight, Call, NoCall
      <3>3. CASE ConnectTimeout(d)
        BY <1>1, <3>3 DEF ConnectTimeout, NoCall
      <3>4. CASE ReconnectTimeout(d)
        BY <3>4 DEF ReconnectTimeout, PhoneRight, TimersRight
      <3> QED BY <1>6, <3>2, <3>3, <3>4
    <2> QED BY <2>1, EndRequests
  <1>7. CASE Recover(d) \/ Reconnect(d)
    BY <1>7, ResumeRequests
  <1>8. ~ConnectionLost(d)
    BY DEF ConnectionLost
  <1> QED BY <1>1, <1>2, <1>3, <1>4, <1>5, <1>6, <1>7, <1>8
          DEF PhoneStep, StartCall, AcceptCall, Connect, Break, PeerFails, ClearOver

-----------------------------------------------------------------------------
(* The server's tables and the mail.                                       *)

\* What is registered or kept is finite, so that it can be told one by one; sockets
\* are numbered in the order of the connections; and calls are where they belong.
TablesRight ==
  /\ \A s \in Socket : IsFiniteSet(active[s])
  /\ \A u \in Party : IsFiniteSet(pending[u])
  /\ \A s \in linked \cup grace : s[2] <= phone[s[1]].sock
  /\ \A u \in Party : \A c \in pending[u] : u # PartyOf[CallerOf[c]]
  /\ \A r \in requests :
       /\ r.ev \in {"invite", "save"} => CallerOf[r.call] = r.socket[1]
       /\ r.ev \in {"answer", "decline"} => Callee(r.socket[1], r.call)
  /\ \A x \in settled : Callee(x[2], x[1])

CallInv == CallTypeOK /\ PhonesRight /\ TablesRight /\ MailRight /\ StartsPlaced

LEMMA SocketParts ==
  ASSUME NEW s \in Socket
  PROVE  s[1] \in Phone /\ s[2] \in Nat /\ s = <<s[1], s[2]>> /\ PartyOf[s[1]] \in Party
  <1>1. PICK d \in Phone : s \in {d} \X (1..MaxSockets[d])
    BY DEF Socket
  <1> QED BY <1>1, CallAssumption

\* A finite set can be listed.
LEMMA SetToSeqType ==
  ASSUME NEW S, IsFiniteSet(S)
  PROVE  SetToSeq(S) \in Seq(S)
  <1> DEFINE n == Cardinality(S)
  <1>1. n \in Nat /\ Bijection(1..n, S) # {}
    BY FS_CardinalityType DEF ExistsBijection
  <1> HIDE DEF n
  <1>2. PICK f \in Bijection(1..n, S) : TRUE
    BY <1>1
  <1>3. f \in [1..n -> S] /\ IsInjective(f)
    BY <1>2 DEF Bijection, Injection, IsInjective
  <1>4. SetToSeq(S) \in [1..n -> S]
    BY <1>3 DEF SetToSeq, n
  <1> QED BY <1>1, <1>4

\* The notes about a finite set of calls.
LEMMA NotesType ==
  ASSUME NEW S \in SUBSET CallId, IsFiniteSet(S), NEW ev \in MailEvent
  PROVE  LET s == SetToSeq({Note(ev, c, NoId) : c \in S}) IN
         /\ s \in Seq(Mail)
         /\ \A i \in DOMAIN s : s[i].ev = ev /\ s[i].call \in S
  <1> DEFINE T == {Note(ev, c, NoId) : c \in S}
  <1> DEFINE f == [c \in S |-> Note(ev, c, NoId)]
  <1> DEFINE s == SetToSeq(T)
  <1>1. f \in Surjection(S, T)
    BY DEF Surjection
  <1>2. IsFiniteSet(T)
    <2> HIDE DEF f, T
    <2> QED BY <1>1, FS_Surjection
  <1>3. \A m \in T : m \in Mail /\ m.ev = ev /\ m.call \in S
    BY DEF Note, Mail
  <1> HIDE DEF T
  <1>4. s \in Seq(T)
    BY <1>2, SetToSeqType
  <1> HIDE DEF s
  <1>5. s \in Seq(Mail) /\ \A i \in DOMAIN s : s[i] \in T
    BY <1>3, <1>4
  <1> QED BY <1>3, <1>5 DEF s, T

LEMMA ReplayType ==
  ASSUME CallTypeOK, TablesRight, NEW d \in Phone
  PROVE  /\ Replay(d) \in Seq(Mail)
         /\ \A i \in DOMAIN Replay(d) :
              Replay(d)[i].ev = "incoming" /\ Replay(d)[i].call \in pending[PartyOf[d]]
  <1>1. PartyOf[d] \in Party
    BY CallAssumption
  <1>2. pending[PartyOf[d]] \in SUBSET CallId /\ IsFiniteSet(pending[PartyOf[d]])
    BY <1>1 DEF CallTypeOK, TablesRight
  <1>3. "incoming" \in MailEvent
    BY DEF MailEvent
  <1> QED BY <1>2, <1>3, NotesType DEF Replay

\* What is delivered is appended.
LEMMA DeliverAppends ==
  ASSUME mail \in [Phone -> Seq(Mail)], NEW to \in [Phone -> Seq(Mail)], Deliver(to)
  PROVE  /\ mail' \in [Phone -> Seq(Mail)]
         /\ \A d \in Phone : IF phone[d].online \/ d \in attended
                             THEN mail'[d] = mail[d] \o to[d] ELSE mail'[d] = mail[d]
  <1>1. \A d \in Phone : mail[d] \o to[d] \in Seq(Mail)
    BY ConcatProperties
  <1> QED BY <1>1 DEF Deliver

\* What a phone is told about a call.
Told(r, own, ev, from) ==
  [d \in Phone |->
    IF PartyOf[d] # PartyOf[r.socket[1]] THEN <<Note(ev, r.call, from)>>
    ELSE IF own /\ Line(d) # r.socket THEN <<Note("ended", r.call, NoId)>> ELSE <<>>]

LEMMA ToldType ==
  ASSUME NEW r \in Request, NEW own \in BOOLEAN, NEW ev \in MailEvent,
         NEW from \in Phone \cup {NoId}
  PROVE  /\ Told(r, own, ev, from) \in [Phone -> Seq(Mail)]
         /\ \A d \in Phone : \A i \in DOMAIN Told(r, own, ev, from)[d] :
              LET m == Told(r, own, ev, from)[d][i] IN
              /\ m.call = r.call
              /\ \/ m.ev = "ended"
                 \/ m.ev = ev /\ PartyOf[d] # PartyOf[r.socket[1]]
  <1>1. r.call \in CallId
    BY DEF Request
  <1>2. Note(ev, r.call, from) \in Mail /\ Note("ended", r.call, NoId) \in Mail
    BY <1>1 DEF Note, Mail, MailEvent
  <1>3. /\ Note(ev, r.call, from).ev = ev /\ Note(ev, r.call, from).call = r.call
        /\ Note("ended", r.call, NoId).ev = "ended" /\ Note("ended", r.call, NoId).call = r.call
    BY DEF Note
  <1>4. \A m \in Mail : <<m>> \in Seq(Mail) /\ DOMAIN <<m>> = {1} /\ <<m>>[1] = m
    OBVIOUS
  <1>5. <<>> \in Seq(Mail) /\ DOMAIN <<>> = {}
    OBVIOUS
  <1>6. ASSUME NEW d \in Phone
        PROVE  LET s == Told(r, own, ev, from)[d] IN
               /\ s \in Seq(Mail)
               /\ \A i \in DOMAIN s :
                    /\ s[i].call = r.call
                    /\ \/ s[i].ev = "ended"
                       \/ s[i].ev = ev /\ PartyOf[d] # PartyOf[r.socket[1]]
    <2> DEFINE s == Told(r, own, ev, from)[d]
    <2>1. CASE PartyOf[d] # PartyOf[r.socket[1]]
      <3>1. s = <<Note(ev, r.call, from)>>
        BY <2>1 DEF Told
      <3> HIDE DEF s
      <3>2. s \in Seq(Mail) /\ DOMAIN s = {1} /\ s[1] = Note(ev, r.call, from)
        BY <1>2, <1>4, <3>1
      <3>3. \A i \in DOMAIN s : s[i].call = r.call /\ s[i].ev = ev
        BY <1>3, <3>2
      <3> QED BY <2>1, <3>2, <3>3 DEF s
    <2>2. CASE PartyOf[d] = PartyOf[r.socket[1]] /\ own /\ Line(d) # r.socket
      <3>1. s = <<Note("ended", r.call, NoId)>>
        BY <2>2 DEF Told
      <3> HIDE DEF s
      <3>2. s \in Seq(Mail) /\ DOMAIN s = {1} /\ s[1] = Note("ended", r.call, NoId)
        BY <1>2, <1>4, <3>1
      <3> QED BY <1>3, <3>2 DEF s
    <2>3. CASE PartyOf[d] = PartyOf[r.socket[1]] /\ ~(own /\ Line(d) # r.socket)
      <3>1. s = <<>>
        BY <2>3 DEF Told
      <3> HIDE DEF s
      <3> QED BY <1>5, <3>1 DEF s
    <2> QED BY <2>1, <2>2, <2>3
  <1>7. Told(r, own, ev, from) = [d \in Phone |-> Told(r, own, ev, from)[d]]
    BY DEF Told
  <1> QED BY <1>6, <1>7

\* An invitation to call c is on its way to phone d.
Awaits(d, c) == \E i \in DOMAIN mail[d] : mail[d][i].ev = "incoming" /\ mail[d][i].call = c

LEMMA TailOfMail ==
  ASSUME NEW s \in Seq(Mail), s # <<>>
  PROVE  /\ Tail(s) \in Seq(Mail)
         /\ Len(Tail(s)) = Len(s) - 1 /\ Len(s) \in Nat \ {0}
         /\ \A i \in DOMAIN Tail(s) : i + 1 \in DOMAIN s /\ Tail(s)[i] = s[i + 1]
  <1>1. Tail(s) \in Seq(Mail) /\ Len(Tail(s)) = Len(s) - 1 /\ Len(s) \in Nat \ {0}
    BY HeadTailProperties, EmptySeq
  <1>2. \A i \in 1..Len(Tail(s)) : Tail(s)[i] = s[i + 1]
    BY HeadTailProperties
  <1>3. DOMAIN s = 1..Len(s) /\ DOMAIN Tail(s) = 1..Len(Tail(s))
    BY <1>1
  <1> QED BY <1>1, <1>2, <1>3

LEMMA AppendedMail ==
  ASSUME NEW s \in Seq(Mail), NEW t \in Seq(Mail)
  PROVE  /\ s \o t \in Seq(Mail) /\ Len(s \o t) = Len(s) + Len(t)
         /\ Len(s) \in Nat /\ Len(t) \in Nat
         /\ \A i \in DOMAIN s : i \in DOMAIN (s \o t) /\ (s \o t)[i] = s[i]
         /\ \A i \in DOMAIN (s \o t) :
              i \in DOMAIN s \/ (i - Len(s) \in DOMAIN t /\ (s \o t)[i] = t[i - Len(s)])
  <1> DEFINE u == s \o t
  <1>1. u \in Seq(Mail) /\ Len(u) = Len(s) + Len(t)
    BY ConcatProperties
  <1>2. \A i \in 1..(Len(s) + Len(t)) : u[i] = IF i <= Len(s) THEN s[i] ELSE t[i - Len(s)]
    BY ConcatProperties
  <1> HIDE DEF u
  <1>3. /\ DOMAIN s = 1..Len(s) /\ DOMAIN t = 1..Len(t) /\ Len(s) \in Nat /\ Len(t) \in Nat
        /\ DOMAIN u = 1..(Len(s) + Len(t))
    BY <1>1
  <1>4. \A i \in DOMAIN s : i \in DOMAIN u /\ u[i] = s[i]
    BY <1>2, <1>3
  <1>5. \A i \in DOMAIN u : i \in DOMAIN s \/ (i - Len(s) \in DOMAIN t /\ u[i] = t[i - Len(s)])
    BY <1>2, <1>3
  <1> QED BY <1>1, <1>3, <1>4, <1>5 DEF u

\* A phone only takes the first event of its mail, unless it connects.
LEMMA PhoneStepMail ==
  ASSUME CallTypeOK, TablesRight, NEW d \in Phone, PhoneStep(d)
  PROVE  /\ mail' \in [Phone -> Seq(Mail)]
         /\ \A e \in Phone \ {d} : mail'[e] = mail[e]
         /\ \/ mail'[d] = mail[d]
            \/ mail[d] # <<>> /\ mail'[d] = Tail(mail[d]) /\ \E ev \in MailEvent : Hears(d, ev)
            \/ Recover(d) /\ mail'[d] = mail[d] \o Replay(d)
            \/ Reconnect(d) /\ mail'[d] = Replay(d)
  <1>1. mail \in [Phone -> Seq(Mail)] /\ mail[d] \in Seq(Mail)
    BY DEF CallTypeOK
  <1>2. CASE Recover(d) \/ Reconnect(d)
    <2>1. Replay(d) \in Seq(Mail) /\ mail[d] \o Replay(d) \in Seq(Mail)
      BY <1>1, ReplayType, ConcatProperties
    <2>2. CASE Recover(d)
      <3>1. mail' = [mail EXCEPT ![d] = mail[d] \o Replay(d)]
        BY <2>2 DEF Recover
      <3> QED BY <1>1, <2>1, <2>2, <3>1
    <2>3. CASE Reconnect(d)
      <3>1. mail' = [mail EXCEPT ![d] = Replay(d)]
        BY <2>3 DEF Reconnect
      <3> QED BY <1>1, <2>1, <2>3, <3>1
    <2> QED BY <1>2, <2>2, <2>3
  <1>3. CASE ~Recover(d) /\ ~Reconnect(d)
    <2>1. \/ UNCHANGED mail
          \/ /\ mail' = [mail EXCEPT ![d] = Tail(mail[d])]
             /\ \E ev \in MailEvent : Hears(d, ev)
      BY <1>3, PhoneStepTables
    <2>2. CASE UNCHANGED mail
      BY <1>1, <2>2
    <2>3. CASE /\ mail' = [mail EXCEPT ![d] = Tail(mail[d])]
               /\ \E ev \in MailEvent : Hears(d, ev)
      <3>1. mail[d] # <<>>
        BY <2>3 DEF Hears
      <3>2. Tail(mail[d]) \in Seq(Mail)
        BY <1>1, <3>1, TailOfMail
      <3> QED BY <1>1, <2>3, <3>1, <3>2
    <2> QED BY <2>1, <2>2, <2>3
  <1> QED BY <1>2, <1>3

LEMMA TellDelivers ==
  ASSUME NEW r, NEW own, NEW ev, NEW from, Tell(r, own, ev, from)
  PROVE  Deliver(Told(r, own, ev, from))
  BY DEF Tell, Told

\* The server only appends to the mail, and an invitation only when it saves one.
LEMMA ServerStepMail ==
  ASSUME CallTypeOK, TablesRight, ServerStep
  PROVE  \E to \in [Phone -> Seq(Mail)] :
           /\ Deliver(to) \/ UNCHANGED mail
           /\ \A d \in Phone : \A i \in DOMAIN to[d] : to[d][i].ev = "incoming" =>
                \E r \in requests :
                  Save(r) /\ r.call = to[d][i].call /\ PartyOf[d] # PartyOf[r.socket[1]]
  <1>1. ASSUME NEW r \in requests, NEW own \in BOOLEAN, NEW ev \in MailEvent,
               NEW from \in Phone \cup {NoId}, Tell(r, own, ev, from),
               ev = "incoming" => Save(r)
        PROVE  \E to \in [Phone -> Seq(Mail)] :
                 /\ Deliver(to)
                 /\ \A d \in Phone : \A i \in DOMAIN to[d] : to[d][i].ev = "incoming" =>
                      \E x \in requests :
                        Save(x) /\ x.call = to[d][i].call /\ PartyOf[d] # PartyOf[x.socket[1]]
    <2> DEFINE to == Told(r, own, ev, from)
    <2>1. r \in Request
      BY DEF CallTypeOK
    <2>2. Deliver(to)
      BY <1>1, TellDelivers
    <2>3. /\ to \in [Phone -> Seq(Mail)]
          /\ \A d \in Phone : \A i \in DOMAIN to[d] :
               /\ to[d][i].call = r.call
               /\ \/ to[d][i].ev = "ended"
                  \/ to[d][i].ev = ev /\ PartyOf[d] # PartyOf[r.socket[1]]
      BY <2>1, ToldType
    <2> HIDE DEF to
    <2> QED BY <1>1, <2>2, <2>3
  <1>2. ASSUME NEW r \in requests, Save(r) \/ Answer(r) \/ Offer(r) \/ Refused(r) \/ End(r)
        PROVE  \E own \in BOOLEAN, ev \in MailEvent, from \in Phone \cup {NoId} :
                 Tell(r, own, ev, from) /\ (ev = "incoming" => Save(r))
    <2>1. r.socket[1] \in Phone
      BY SocketParts DEF CallTypeOK, Request
    <2>2. {"incoming", "answered", "offer", "declined", "ended"} = MailEvent
      BY DEF MailEvent
    <2> QED BY <1>2, <2>1, <2>2 DEF Save, Answer, Offer, Refused, End
  <1>3. CASE \E s \in Socket : GraceExpires(s)
    <2>1. PICK s \in Socket : GraceExpires(s)
      BY <1>3
    <2> DEFINE N == SetToSeq({Note("ended", c, NoId) : c \in active[s]})
    <2> DEFINE to == [d \in Phone |-> IF PartyOf[d] = PartyOf[s[1]] THEN <<>> ELSE N]
    <2>2. Deliver(to)
      BY <2>1 DEF GraceExpires
    <2>3. active[s] \in SUBSET CallId /\ IsFiniteSet(active[s]) /\ "ended" \in MailEvent
      BY DEF CallTypeOK, TablesRight, MailEvent
    <2>4. N \in Seq(Mail) /\ \A i \in DOMAIN N : N[i].ev = "ended"
      BY <2>3, NotesType
    <2> HIDE DEF N
    <2>5. /\ to \in [Phone -> Seq(Mail)]
          /\ \A d \in Phone : \A i \in DOMAIN to[d] : to[d][i].ev = "ended"
      BY <2>4
    <2> HIDE DEF to
    <2> QED BY <2>2, <2>5
  <1>4. CASE UNCHANGED mail
    <2> DEFINE to == [d \in Phone |-> <<>>]
    <2>1. to \in [Phone -> Seq(Mail)] /\ \A d \in Phone : DOMAIN to[d] = {}
      OBVIOUS
    <2> QED BY <1>4, <2>1
  <1>5. \/ \E r \in requests : Save(r) \/ Answer(r) \/ Offer(r) \/ Refused(r) \/ End(r)
        \/ \E s \in Socket : GraceExpires(s)
        \/ UNCHANGED mail
    BY DEF ServerStep, Refuse, Invite, ResumeCall, Disconnected, BlockCalls
  <1>6. CASE \E r \in requests : Save(r) \/ Answer(r) \/ Offer(r) \/ Refused(r) \/ End(r)
    <2>1. PICK r \in requests : Save(r) \/ Answer(r) \/ Offer(r) \/ Refused(r) \/ End(r)
      BY <1>6
    <2>2. PICK own \in BOOLEAN, ev \in MailEvent, from \in Phone \cup {NoId} :
            Tell(r, own, ev, from) /\ (ev = "incoming" => Save(r))
      BY <1>2, <2>1
    <2> QED BY <1>1, <2>2
  <1> QED BY <1>3, <1>4, <1>5, <1>6
-----------------------------------------------------------------------------
(* The invariant is inductive.                                             *)

LEMMA PhonesTyped ==
  CallTypeOK => phone \in [Phone -> CallStore] /\ mail \in [Phone -> Seq(Mail)]
  BY DEF CallTypeOK, CallStore, Call, Peer

\* What a step of a phone does to the phones.
LEMMA PhoneStepPhones ==
  ASSUME CallInv, NEW d \in Phone, PhoneStep(d)
  PROVE  /\ phone' \in [Phone -> CallStore] /\ PhonesRight'
         /\ \A e \in Phone \ {d} : phone'[e] = phone[e]
         /\ Becomes(d, phone'[d])
         /\ \/ SameLine(d, phone'[d])
            \/ ConnectionLost(d) /\ phone'[d].sock = phone[d].sock /\ ~phone'[d].online
            \/ Recover(d) /\ phone'[d].sock = phone[d].sock
            \/ Reconnect(d) /\ phone'[d].sock = phone[d].sock + 1
  <1>1. phone \in [Phone -> CallStore] /\ mail \in [Phone -> Seq(Mail)]
    BY PhonesTyped DEF CallInv
  <1>2. PICK q : /\ Becomes(d, q)
                 /\ \/ SameLine(d, q)
                    \/ ConnectionLost(d) /\ q.sock = phone[d].sock /\ ~q.online
                    \/ Recover(d) /\ q.sock = phone[d].sock
                    \/ Reconnect(d) /\ q.sock = phone[d].sock + 1
    BY <1>1, PhoneStepRight DEF CallInv
  <1>3. phone' = [phone EXCEPT ![d] = q] /\ PhoneRight(d, q) /\ q \in CallStore
    BY <1>2 DEF Becomes, PhoneRight
  <1>4. phone'[d] = q /\ \A e \in Phone \ {d} : phone'[e] = phone[e]
    BY <1>1, <1>3
  <1>5. phone' \in [Phone -> CallStore]
    BY <1>1, <1>3
  <1>6. PhonesRight'
    BY <1>3, <1>4 DEF PhonesRight, CallInv
  <1> QED BY <1>2, <1>4, <1>5, <1>6

\* What it does to its mail.
LEMMA PhoneStepMailRight ==
  ASSUME CallInv, NEW d \in Phone, PhoneStep(d)
  PROVE  MailRight'
  <1>1. /\ mail \in [Phone -> Seq(Mail)] /\ mail' \in [Phone -> Seq(Mail)]
        /\ \A e \in Phone \ {d} : mail'[e] = mail[e]
        /\ \/ mail'[d] = mail[d]
           \/ mail[d] # <<>> /\ mail'[d] = Tail(mail[d])
           \/ mail'[d] = mail[d] \o Replay(d)
           \/ mail'[d] = Replay(d)
    BY PhonesTyped, PhoneStepMail DEF CallInv
  <1>2. /\ Replay(d) \in Seq(Mail)
        /\ \A i \in DOMAIN Replay(d) : Callee(d, Replay(d)[i].call)
    BY ReplayType, CallAssumption DEF CallInv, TablesRight, Callee
  <1>3. \A i \in DOMAIN mail[d] : mail[d][i].ev = "incoming" => Callee(d, mail[d][i].call)
    BY DEF CallInv, MailRight
  <1>4. \A i \in DOMAIN mail'[d] : mail'[d][i].ev = "incoming" => Callee(d, mail'[d][i].call)
    <2>1. CASE mail[d] # <<>> /\ mail'[d] = Tail(mail[d])
      BY <1>1, <1>3, <2>1, TailOfMail
    <2>2. CASE mail'[d] = mail[d] \o Replay(d)
      <3>1. \A i \in DOMAIN mail'[d] :
              \/ i \in DOMAIN mail[d] /\ mail'[d][i] = mail[d][i]
              \/ i - Len(mail[d]) \in DOMAIN Replay(d)
                   /\ mail'[d][i] = Replay(d)[i - Len(mail[d])]
        BY <1>1, <1>2, <2>2, AppendedMail
      <3> QED BY <1>2, <1>3, <3>1
    <2> QED BY <1>1, <1>2, <1>3, <2>1, <2>2
  <1> QED BY <1>1, <1>4 DEF MailRight, CallInv

\* A start of the phone is one that was there, or of a call placed just now.
LEMMA PhoneStepStarts ==
  ASSUME CallInv, NEW d \in Phone, PhoneStep(d)
  PROVE  StartsPlaced' /\ placed \subseteq placed'
  <1>1. placed \subseteq placed' /\ placed' \subseteq CallId
    <2>1. CASE Recover(d) \/ Reconnect(d)
      BY <2>1 DEF Recover, Reconnect, callBounds, CallInv, CallTypeOK
    <2> QED BY <2>1, PhoneStepTables DEF CallInv, CallTypeOK
  <1>2. Carries(d, phone[d], phone'[d]) /\ \A e \in Phone \ {d} : phone'[e] = phone[e]
    BY PhoneStepPhones DEF Becomes
  <1>3. ASSUME NEW u \in phone'[d].tasks, u.kind = "start"
        PROVE  u.call \in placed'
    BY <1>1, <1>2, <1>3 DEF Carries, StartsPlaced, CallInv
  <1> QED BY <1>1, <1>2, <1>3 DEF StartsPlaced, CallInv

LEMMA InvitedIsCallee ==
  ASSUME CallInv, NEW d \in Phone, NEW c, InvitedTo(d, c)
  PROVE  Callee(d, c)
  <1>1. PhoneRight(d, phone[d]) /\ mail \in [Phone -> Seq(Mail)]
    BY PhonesTyped DEF CallInv, PhonesRight
  <1>2. CASE Hears(d, "incoming") /\ Head(mail[d]).call = c
    BY <1>1, <1>2, HeadOfMail DEF Hears, CallInv, MailRight
  <1>3. CASE \E t \in phone[d].tasks : t.kind = "accept" /\ t.call = c
    BY <1>1, <1>3 DEF PhoneRight, TasksRight
  <1> QED BY <1>1, <1>2, <1>3 DEF InvitedTo, PhoneRight, CallRight

\* The requests of a phone are for calls that are its own to make or to take.
LEMMA PhoneStepRequestsRight ==
  ASSUME CallInv, NEW d \in Phone, PhoneStep(d)
  PROVE  /\ requests' \subseteq Request
         /\ \A r \in requests' :
              /\ r.ev \in {"invite", "save"} => CallerOf[r.call] = r.socket[1]
              /\ r.ev \in {"answer", "decline"} => Callee(r.socket[1], r.call)
  <1>1. PhoneRight(d, phone[d]) /\ mail \in [Phone -> Seq(Mail)] /\ requests \subseteq Request
    BY PhonesTyped DEF CallInv, PhonesRight, CallTypeOK
  <1>2. ASSUME NEW r \in requests' \ requests
        PROVE  /\ r \in Request
               /\ r.ev \in {"invite", "save"} => CallerOf[r.call] = r.socket[1]
               /\ r.ev \in {"answer", "decline"} => Callee(r.socket[1], r.call)
    <2>1. MayRequest(d, r)
      BY <1>1, PhoneStepRequests
    <2>2. ASSUME r.ev = "invite"
          PROVE  CallerOf[r.call] = d
      BY <1>1, <2>1, <2>2 DEF MayRequest, StartInvites, PhoneRight, TasksRight
    <2> QED BY <2>1, <2>2, InvitedIsCallee DEF MayRequest
  <1> QED BY <1>1, <1>2 DEF CallInv, TablesRight

\* What a step of a phone does to the tables of the server.
LEMMA PhoneStepTablesRight ==
  ASSUME CallInv, NEW d \in Phone, PhoneStep(d)
  PROVE  /\ TablesRight'
         /\ linked' \subseteq Socket /\ grace' \subseteq Socket \ linked'
         /\ UNCHANGED <<active, pending, blocked, settled, attended>>
         /\ placed' \subseteq CallId /\ trouble' \in 0..MaxTrouble
  <1>1. /\ phone \in [Phone -> CallStore]
        /\ \A e \in Phone : phone'[e].sock \in Nat /\ phone[e].sock <= phone'[e].sock
        /\ phone'[d].sock = IF Reconnect(d) THEN phone[d].sock + 1 ELSE phone[d].sock
    <2>1. phone \in [Phone -> CallStore]
      BY PhonesTyped DEF CallInv
    <2>2. \A e \in Phone : phone[e].sock \in Nat
      BY <2>1 DEF CallStore
    <2>3. ~(Reconnect(d) /\ ~phone'[d].online)
      BY <2>1 DEF Reconnect, Keep, CallStore
    <2>4. Reconnect(d) => phone'[d].sock = phone[d].sock + 1
      BY <2>1 DEF Reconnect, Keep, CallStore
    <2>5. /\ phone'[d].sock = IF Reconnect(d) THEN phone[d].sock + 1 ELSE phone[d].sock
          /\ \A e \in Phone \ {d} : phone'[e] = phone[e]
      BY <2>3, <2>4, PhoneStepPhones DEF SameLine
    <2> QED BY <2>1, <2>2, <2>5
  <1>2. /\ linked \subseteq Socket /\ grace \subseteq Socket \ linked
        /\ placed \subseteq CallId /\ trouble \in 0..MaxTrouble /\ MaxTrouble \in Nat
    BY CallAssumption DEF CallInv, CallTypeOK
  <1>3. Line(d) \in Socket /\ Line(d)[1] = d /\ Line(d)[2] = phone[d].sock
    BY DEF CallInv, PhonesRight, PhoneRight, CallRight, Line
  <1>4. \A s \in linked \cup grace :
          s[1] \in Phone /\ s[2] \in Nat /\ s[2] <= phone[s[1]].sock
    BY <1>2, SocketParts DEF CallInv, TablesRight
  <1>5. \A s \in linked \cup grace : s[2] <= phone'[s[1]].sock
    <2> TAKE s \in linked \cup grace
    <2>1. s[1] \in Phone /\ s[2] \in Nat /\ s[2] <= phone[s[1]].sock
      BY <1>4
    <2>2. phone[s[1]].sock <= phone'[s[1]].sock /\ phone'[s[1]].sock \in Nat
      BY <1>1, <2>1
    <2>3. phone[s[1]].sock \in Nat
      BY <1>1, <2>1 DEF CallStore
    <2> QED BY <2>1, <2>2, <2>3
  <1>6. CASE Recover(d)
    <2>1. /\ UNCHANGED <<active, pending, blocked, settled, attended, placed, trouble>>
          /\ linked' = linked \cup {Line(d)} /\ grace' = grace \ {Line(d)}
      BY <1>6 DEF Recover, callBounds
    <2>2. Line(d)[2] <= phone'[Line(d)[1]].sock
      BY <1>1, <1>3
    <2>3. \A s \in linked' \cup grace' : s[2] <= phone'[s[1]].sock
      BY <1>5, <2>1, <2>2
    <2>4. linked' \subseteq Socket /\ grace' \subseteq Socket \ linked'
      BY <1>2, <1>3, <2>1
    <2> QED BY <1>2, <2>1, <2>3, <2>4, PhoneStepRequestsRight DEF TablesRight, CallInv
  <1>7. CASE Reconnect(d)
    <2> DEFINE s == <<d, phone[d].sock + 1>>
    <2>1. /\ UNCHANGED <<active, pending, blocked, settled, attended, placed, trouble>>
          /\ s \in Socket /\ linked' = linked \cup {s} /\ grace' = grace
      BY <1>7 DEF Reconnect, callBounds
    <2>2. /\ s[1] = d /\ s[2] = phone'[d].sock /\ phone[d].sock \in Nat
          /\ phone'[d].sock = phone[d].sock + 1
      BY <1>1, <1>7 DEF CallStore
    <2> HIDE DEF s
    <2>3. s \notin grace
      BY <1>4, <2>2
    <2>4. \A x \in linked' \cup grace' : x[2] <= phone'[x[1]].sock
      BY <1>1, <1>5, <2>1, <2>2
    <2>5. linked' \subseteq Socket /\ grace' \subseteq Socket \ linked'
      BY <1>2, <2>1, <2>3
    <2> QED BY <1>2, <2>1, <2>4, <2>5, PhoneStepRequestsRight DEF TablesRight, CallInv
  <1>8. CASE ~Recover(d) /\ ~Reconnect(d)
    <2>1. /\ UNCHANGED <<linked, active, grace, pending, blocked, settled, attended>>
          /\ \/ placed' = placed
             \/ \E c \in CallId : placed' = placed \cup {c}
          /\ trouble' = trouble \/ Troubled
      BY <1>8, PhoneStepTables DEF serverVars
    <2>2. trouble' \in 0..MaxTrouble /\ placed' \subseteq CallId
      BY <1>2, <2>1 DEF Troubled
    <2>3. \A s \in linked' \cup grace' : s[2] <= phone'[s[1]].sock
      BY <1>5, <2>1
    <2> QED BY <1>2, <2>1, <2>2, <2>3, PhoneStepRequestsRight DEF TablesRight, CallInv
  <1> QED BY <1>6, <1>7, <1>8

LEMMA PhoneStepInvariant ==
  ASSUME CallInv, NEW d \in Phone, PhoneStep(d)
  PROVE  CallInv'
  <1>1. /\ phone' \in [Phone -> CallStore] /\ mail' \in [Phone -> Seq(Mail)]
        /\ requests' \subseteq Request
    BY PhoneStepPhones, PhoneStepMail, PhoneStepRequestsRight DEF CallInv
  <1>2. CallTypeOK'
    BY <1>1, PhoneStepTablesRight DEF CallInv, CallTypeOK, CallStore, Call, Peer
  <1> QED BY <1>2, PhoneStepPhones, PhoneStepTablesRight, PhoneStepMailRight, PhoneStepStarts
          DEF CallInv

LEMMA ServerStepFrame ==
  ASSUME ServerStep
  PROVE  UNCHANGED <<phone, placed, attended>>
  BY DEF ServerStep, Refuse, Invite, Save, Answer, Offer, ResumeCall, Refused, End,
         Disconnected, GraceExpires, BlockCalls, callBounds

\* The server invites only the participant who is called.
LEMMA ServerStepMailRight ==
  ASSUME CallInv, ServerStep
  PROVE  mail' \in [Phone -> Seq(Mail)] /\ MailRight'
  <1>1. mail \in [Phone -> Seq(Mail)]
    BY PhonesTyped DEF CallInv
  <1>2. PICK to \in [Phone -> Seq(Mail)] :
          /\ Deliver(to) \/ UNCHANGED mail
          /\ \A d \in Phone : \A i \in DOMAIN to[d] : to[d][i].ev = "incoming" =>
               \E r \in requests :
                 Save(r) /\ r.call = to[d][i].call /\ PartyOf[d] # PartyOf[r.socket[1]]
    BY ServerStepMail DEF CallInv
  <1>3. ASSUME NEW d \in Phone, NEW i \in DOMAIN to[d], to[d][i].ev = "incoming"
        PROVE  Callee(d, to[d][i].call)
    <2>1. PICK r \in requests :
            Save(r) /\ r.call = to[d][i].call /\ PartyOf[d] # PartyOf[r.socket[1]]
      BY <1>2, <1>3
    <2>2. r.ev = "save"
      BY <2>1 DEF Save
    <2>3. CallerOf[r.call] = r.socket[1]
      BY <2>2 DEF CallInv, TablesRight
    <2> QED BY <2>1, <2>3 DEF Callee
  <1>4. CASE UNCHANGED mail
    BY <1>1, <1>4 DEF CallInv, MailRight
  <1>5. CASE Deliver(to)
    <2>1. /\ mail' \in [Phone -> Seq(Mail)]
          /\ \A d \in Phone : mail'[d] = mail[d] \o to[d] \/ mail'[d] = mail[d]
      BY <1>1, <1>5, DeliverAppends
    <2>2. ASSUME NEW d \in Phone, NEW i \in DOMAIN mail'[d], mail'[d][i].ev = "incoming"
          PROVE  Callee(d, mail'[d][i].call)
      <3>1. mail[d] \in Seq(Mail) /\ to[d] \in Seq(Mail)
        BY <1>1
      <3>2. CASE mail'[d] = mail[d] \o to[d]
        <4>1. \/ i \in DOMAIN mail[d] /\ mail'[d][i] = mail[d][i]
              \/ i - Len(mail[d]) \in DOMAIN to[d]
                   /\ mail'[d][i] = to[d][i - Len(mail[d])]
          BY <2>2, <3>1, <3>2, AppendedMail
        <4> QED BY <1>3, <2>2, <4>1 DEF CallInv, MailRight
      <3> QED BY <2>1, <2>2, <3>2 DEF CallInv, MailRight
    <2> QED BY <2>1, <2>2 DEF MailRight
  <1> QED BY <1>2, <1>4, <1>5

\* A table to which a handler adds at most one call stays finite.
LEMMA FiniteTable ==
  ASSUME NEW K, NEW f \in [K -> SUBSET CallId], NEW g \in [K -> SUBSET CallId], NEW c,
         \A k \in K : IsFiniteSet(f[k]) /\ g[k] \subseteq f[k] \cup {c}
  PROVE  \A k \in K : IsFiniteSet(g[k])
  <1> TAKE k \in K
  <1>1. IsFiniteSet(f[k] \cup {c})
    BY FS_AddElement
  <1> QED BY <1>1, FS_Subset

\* What the handlers do to the calls registered for a socket.
LEMMA ServerStepActive ==
  ASSUME CallInv, ServerStep
  PROVE  active' \in [Socket -> SUBSET CallId] /\ \A s \in Socket : IsFiniteSet(active'[s])
  <1>1. active \in [Socket -> SUBSET CallId] /\ \A s \in Socket : IsFiniteSet(active[s])
    BY DEF CallInv, CallTypeOK, TablesRight
  <1>2. \A r \in requests : r.call \in CallId /\ r.socket \in Socket
    BY DEF CallInv, CallTypeOK, Request
  <1>3. ASSUME NEW r \in requests, Register(r.socket, r.call) \/ ClearActive(r.call) \/ ResumeCall(r)
        PROVE  /\ active' \in [Socket -> SUBSET CallId]
               /\ \A s \in Socket : active'[s] \subseteq active[s] \cup {r.call}
    <2>1. CASE Register(r.socket, r.call)
      BY <1>1, <1>2, <2>1 DEF Register
    <2>2. CASE ClearActive(r.call)
      BY <1>1, <2>2 DEF ClearActive
    <2>3. CASE ResumeCall(r)
      <3> DEFINE old == {s \in Socket : r.call \in active[s]
                          /\ PartyOf[s[1]] = PartyOf[r.socket[1]] /\ s # r.socket}
      <3> DEFINE owned == old # {} \/ r.call \in active[r.socket]
      <3>1. active' = [s \in Socket |->
              IF s \in old THEN active[s] \ {r.call}
              ELSE IF s = r.socket /\ owned THEN active[s] \cup {r.call} ELSE active[s]]
        BY <2>3 DEF ResumeCall
      <3> HIDE DEF old, owned
      <3> QED BY <1>1, <1>2, <3>1
    <2> QED BY <1>3, <2>1, <2>2, <2>3
  <1>4. ASSUME NEW s \in Socket, GraceExpires(s)
        PROVE  /\ active' \in [Socket -> SUBSET CallId]
               /\ \A x \in Socket : active'[x] \subseteq active[x]
    BY <1>1, <1>4 DEF GraceExpires
  <1>5. CASE \E r \in requests : Register(r.socket, r.call) \/ ClearActive(r.call) \/ ResumeCall(r)
    BY <1>1, <1>3, <1>5, FiniteTable
  <1>6. CASE \E s \in Socket : GraceExpires(s)
    BY <1>1, <1>4, <1>6, FS_Subset
  <1>7. CASE UNCHANGED active
    BY <1>1, <1>7
  <1> QED BY <1>5, <1>6, <1>7
          DEF ServerStep, Refuse, Invite, Save, Answer, Offer, Refused, End, Disconnected,
              BlockCalls, serverVars

\* A call is kept for the participant it is placed to.
LEMMA ServerStepPending ==
  ASSUME CallInv, ServerStep
  PROVE  /\ pending' \in [Party -> SUBSET CallId]
         /\ \A u \in Party : IsFiniteSet(pending'[u])
         /\ \A u \in Party : \A c \in pending'[u] : u # PartyOf[CallerOf[c]]
         /\ \A u \in Party : \A c \in pending'[u] \ pending[u] :
              \E r \in requests : Save(r) /\ r.call = c
  <1>1. /\ pending \in [Party -> SUBSET CallId]
        /\ \A u \in Party : IsFiniteSet(pending[u])
        /\ \A u \in Party : \A c \in pending[u] : u # PartyOf[CallerOf[c]]
    BY DEF CallInv, CallTypeOK, TablesRight
  <1>2. CASE \E r \in requests : Save(r)
    <2>1. PICK r \in requests : Save(r)
      BY <1>2
    <2>2. r.call \in CallId /\ CallerOf[r.call] = r.socket[1]
      BY <2>1 DEF Save, CallInv, CallTypeOK, TablesRight, Request
    <2>3. pending' = [u \in Party |-> IF u = PartyOf[r.socket[1]] THEN pending[u]
                                      ELSE pending[u] \cup {r.call}]
      BY <2>1 DEF Save
    <2>4. /\ pending' \in [Party -> SUBSET CallId]
          /\ \A u \in Party : pending'[u] \subseteq pending[u] \cup {r.call}
      BY <1>1, <2>2, <2>3
    <2>5. \A u \in Party : IsFiniteSet(pending'[u])
      BY <1>1, <2>4, FiniteTable
    <2> QED BY <1>1, <2>1, <2>2, <2>3, <2>4, <2>5
  <1>3. CASE \E r \in requests : ClearPending(r.call)
    <2>1. PICK r \in requests : ClearPending(r.call)
      BY <1>3
    <2>2. /\ pending' \in [Party -> SUBSET CallId]
          /\ \A u \in Party : pending'[u] \subseteq pending[u]
      BY <1>1, <2>1 DEF ClearPending
    <2> QED BY <1>1, <2>2, FS_Subset
  <1>4. CASE UNCHANGED pending
    BY <1>1, <1>4
  <1> QED BY <1>2, <1>3, <1>4
          DEF ServerStep, Refuse, Invite, Answer, Offer, ResumeCall, Refused, End,
              Disconnected, GraceExpires, BlockCalls, serverVars

\* What is handled next, and what has been answered.
LEMMA ServerStepRequests ==
  ASSUME CallInv, ServerStep
  PROVE  /\ requests' \subseteq Request
         /\ \A r \in requests' :
              /\ r.ev \in {"invite", "save"} => CallerOf[r.call] = r.socket[1]
              /\ r.ev \in {"answer", "decline"} => Callee(r.socket[1], r.call)
         /\ settled' \subseteq CallId \X Phone
         /\ \A x \in settled' : Callee(x[2], x[1])
  <1>1. /\ requests \subseteq Request /\ settled \subseteq CallId \X Phone
        /\ \A r \in requests :
              /\ r.ev \in {"invite", "save"} => CallerOf[r.call] = r.socket[1]
              /\ r.ev \in {"answer", "decline"} => Callee(r.socket[1], r.call)
        /\ \A x \in settled : Callee(x[2], x[1])
    BY DEF CallInv, CallTypeOK, TablesRight
  <1>2. CASE \E r \in requests : Invite(r)
    <2>1. PICK r \in requests : Invite(r)
      BY <1>2
    <2> DEFINE q == [r EXCEPT !.ev = "save"]
    <2>2. r \in Request /\ r.ev = "invite" /\ requests' = (requests \ {r}) \cup {q}
          /\ settled' = settled
      BY <1>1, <2>1 DEF Invite, Handling
    <2>3. q \in Request /\ q.ev = "save" /\ q.call = r.call /\ q.socket = r.socket
      BY <2>2 DEF Request
    <2> HIDE DEF q
    <2> QED BY <1>1, <2>2, <2>3
  <1>3. CASE \E r \in requests : Answer(r) \/ Refused(r)
    <2>1. PICK r \in requests : Answer(r) \/ Refused(r)
      BY <1>3
    <2>2. /\ settled' = settled \cup {<<r.call, r.socket[1]>>}
          /\ requests' = requests \ {r} /\ r.ev \in {"answer", "decline"}
      BY <2>1 DEF Answer, Refused, Handling, Done
    <2>3. r.call \in CallId /\ r.socket[1] \in Phone
      BY <1>1, SocketParts DEF Request
    <2> QED BY <1>1, <2>2, <2>3
  <1>4. CASE requests' \subseteq requests /\ settled' = settled
    BY <1>1, <1>4
  <1> QED BY <1>2, <1>3, <1>4
          DEF ServerStep, Refuse, Save, Offer, ResumeCall, End, Done,
              Disconnected, GraceExpires, BlockCalls, serverVars

\* Sockets come and go only with their phones.
LEMMA ServerStepSockets ==
  ASSUME CallInv, ServerStep
  PROVE  /\ linked' \subseteq Socket /\ grace' \subseteq Socket \ linked'
         /\ \A s \in linked' \cup grace' : s[2] <= phone'[s[1]].sock
         /\ blocked' \in BOOLEAN /\ trouble' \in 0..MaxTrouble
  <1>1. /\ linked \subseteq Socket /\ grace \subseteq Socket \ linked
        /\ \A s \in linked \cup grace : s[2] <= phone[s[1]].sock
        /\ blocked \in BOOLEAN /\ trouble \in 0..MaxTrouble /\ MaxTrouble \in Nat
    BY CallAssumption DEF CallInv, CallTypeOK, TablesRight
  <1>2. phone' = phone
    BY ServerStepFrame
  <1>3. CASE \E s \in Socket : Disconnected(s)
    BY <1>1, <1>2, <1>3 DEF Disconnected, callBounds
  <1>4. CASE BlockCalls
    BY <1>1, <1>2, <1>4 DEF BlockCalls, Troubled
  <1>5. CASE \E r \in requests : ResumeCall(r)
    BY <1>1, <1>2, <1>5 DEF ResumeCall, callBounds
  <1>6. CASE \E s \in Socket : GraceExpires(s)
    BY <1>1, <1>2, <1>6 DEF GraceExpires, callBounds
  <1>7. CASE UNCHANGED <<linked, grace, blocked, trouble>>
    BY <1>1, <1>2, <1>7
  <1> QED BY <1>3, <1>4, <1>5, <1>6, <1>7
          DEF ServerStep, Refuse, Invite, Save, Answer, Offer, Refused, End, serverVars, callBounds

LEMMA ServerStepInvariant ==
  ASSUME CallInv, ServerStep
  PROVE  CallInv'
  <1>1. UNCHANGED <<phone, placed, attended>>
    BY ServerStepFrame
  <1>2. CallTypeOK'
    BY <1>1, ServerStepSockets, ServerStepActive, ServerStepPending, ServerStepRequests,
       ServerStepMailRight DEF CallInv, CallTypeOK
  <1>3. TablesRight'
    BY ServerStepSockets, ServerStepActive, ServerStepPending, ServerStepRequests
       DEF TablesRight
  <1>4. PhonesRight' /\ StartsPlaced'
    BY <1>1 DEF CallInv, PhonesRight, StartsPlaced
  <1> QED BY <1>2, <1>3, <1>4, ServerStepMailRight DEF CallInv

LEMMA CallInitRight ==
  CallInit => CallInv
  <1> SUFFICES ASSUME CallInit PROVE CallInv
    OBVIOUS
  <1>1. PICK on \in SUBSET Phone : phone = [d \in Phone |->
       [online |-> d \in on, sock |-> 1, call |-> NoCall, peer |-> NoPeer,
        timers |-> {}, over |-> {}, tasks |-> {}, stream |-> FALSE]]
    BY DEF CallInit
  <1>2. NoCall \in Call /\ NoPeer \in Peer
    BY DEF NoCall, NoPeer, Call, Peer, Status
  <1>3. ASSUME NEW d \in Phone
        PROVE  /\ phone[d] \in CallStore /\ phone[d].sock = 1 /\ phone[d].call = NoCall
               /\ phone[d].tasks = {} /\ phone[d].timers = {}
    BY <1>1, <1>2 DEF CallStore
  <1>4. ASSUME NEW d \in Phone
        PROVE  <<d, 1>> \in Socket
    <2>1. <<d, 1>> \in {d} \X (1..MaxSockets[d])
      BY CallAssumption
    <2> QED BY <2>1 DEF Socket
  <1>5. PhonesRight
    BY <1>3, <1>4
       DEF PhonesRight, PhoneRight, TasksRight, CallRight, TimersRight, NoCall
  <1>6. phone \in [Phone -> CallStore]
    BY <1>1, <1>3
  <1>7. \A s \in linked : s \in Socket /\ s[2] <= phone[s[1]].sock
    <2> TAKE s \in linked
    <2>1. PICK d \in Phone : s = <<d, 1>>
      BY DEF CallInit
    <2> QED BY <1>3, <1>4, <2>1
  <1>8. CallTypeOK
    <2>1. trouble \in 0..MaxTrouble
      BY CallAssumption DEF CallInit
    <2>2. linked \subseteq Socket /\ grace = {} /\ requests = {} /\ settled = {}
      BY <1>7 DEF CallInit
    <2>3. /\ active = [s \in Socket |-> {}] /\ pending = [u \in Party |-> {}]
          /\ mail = [d \in Phone |-> <<>>] /\ blocked = FALSE
          /\ attended \subseteq Phone /\ placed \subseteq CallId
      BY Zenon DEF CallInit
    <2>4. /\ active \in [Socket -> SUBSET CallId] /\ pending \in [Party -> SUBSET CallId]
          /\ blocked \in BOOLEAN
      BY <2>3
    <2>5. mail \in [Phone -> Seq(Mail)]
      BY <2>3
    <2> QED BY <1>6, <2>1, <2>2, <2>3, <2>4, <2>5 DEF CallTypeOK, CallStore, Call, Peer
  <1>9. TablesRight
    <2>1. (\A s \in Socket : active[s] = {}) /\ \A u \in Party : pending[u] = {}
      BY DEF CallInit
    <2>2. grace = {} /\ requests = {} /\ settled = {}
      BY DEF CallInit
    <2>3. IsFiniteSet({})
      BY FS_EmptySet
    <2>4. \A s \in linked \cup grace : s[2] <= phone[s[1]].sock
      BY <1>7, <2>2
    <2> QED BY <2>1, <2>2, <2>3, <2>4 DEF TablesRight
  <1>10. MailRight
    BY DEF CallInit, MailRight
  <1>11. StartsPlaced
    BY <1>3 DEF StartsPlaced
  <1> QED BY <1>5, <1>8, <1>9, <1>10, <1>11 DEF CallInv

LEMMA CallStutter ==
  CallInv /\ UNCHANGED callVars => CallInv'
  BY DEF CallInv, CallTypeOK, PhonesRight, TablesRight, MailRight, StartsPlaced,
         callVars, serverVars, callBounds

LEMMA CallInvariant == CallSpec => []CallInv
  <1>1. CallInv /\ [CallNext]_callVars => CallInv'
    BY PhoneStepInvariant, ServerStepInvariant, CallStutter DEF CallNext
  <1> QED BY CallInitRight, <1>1, PTL DEF CallSpec

\* Every table of the phones and of the server holds what it is made for, whatever
\* the phones do and the server handles.
THEOREM CallsWellTyped == CallSpec => []CallTypeOK
  BY CallInvariant, PTL DEF CallInv

\* A phone that rings, connects or reconnects has the timer that ends the wait, or
\* the start that is about to set it, in every state: "ringing" cannot last.
THEOREM WaitingEnds == CallSpec => []WaitingHasTimer
  <1>1. CallInv => WaitingHasTimer
    BY DEF CallInv, PhonesRight, PhoneRight, TimersRight, WaitingHasTimer
  <1> QED BY <1>1, CallInvariant, PTL

-----------------------------------------------------------------------------
(* A call reaches the participant who is called only once it is saved, and it *)
(* is saved once.                                                           *)

\* Phone d has taken notice of the invitation to call c.
TakesUp(d, c) ==
  \/ phone[d].call.dir = "incoming" /\ phone[d].call.id = c
  \/ \E t \in phone[d].tasks : t.kind = "accept" /\ t.call = c

Starts(c, t) == t.kind = "start" /\ t.call = c

Invites(c, r) == r.ev \in {"invite", "save"} /\ r.call = c

Answers(c, r) == r.ev \in {"answer", "decline"} /\ r.call = c

\* The call is yet to be placed, to be sent to the server or to be saved there.
Unsaved(c) ==
  \/ c \notin placed
  \/ \E d \in Phone : \E t \in phone[d].tasks : Starts(c, t)
  \/ \E r \in requests : Invites(c, r)

Reached(c) ==
  \/ \E u \in Party : c \in pending[u]
  \/ \E d \in Phone : Awaits(d, c) \/ TakesUp(d, c) \/ <<c, d>> \in settled
  \/ \E r \in requests : Answers(c, r)

\* A call is in one of these stages at a time, and in the first ones alone until it
\* is saved.
TokensRight ==
  \A c \in CallId :
    /\ c \notin placed => ~\E r \in requests : Invites(c, r)
    /\ (\E d \in Phone : \E t \in phone[d].tasks : Starts(c, t)) =>
         ~\E r \in requests : Invites(c, r)
    /\ \A r, q \in requests : Invites(c, r) /\ Invites(c, q) => r = q
    /\ Unsaved(c) => ~Reached(c)

LEMMA HeardIsAwaited ==
  ASSUME CallInv, NEW d \in Phone, Hears(d, "incoming")
  PROVE  Awaits(d, Head(mail[d]).call)
  <1>1. mail \in [Phone -> Seq(Mail)]
    BY PhonesTyped DEF CallInv
  <1> QED BY <1>1, HeadOfMail DEF Hears, Awaits

\* An invitation that a step of a phone puts in its mail is one that is replayed.
LEMMA PhoneStepAwaits ==
  ASSUME CallInv, NEW d \in Phone, PhoneStep(d), NEW e \in Phone, NEW c, Awaits(e, c)'
  PROVE  Awaits(e, c) \/ c \in pending[PartyOf[e]]
  <1>1. /\ mail[d] \in Seq(Mail) /\ Replay(d) \in Seq(Mail)
        /\ \A i \in DOMAIN Replay(d) : Replay(d)[i].call \in pending[PartyOf[d]]
        /\ \A x \in Phone \ {d} : mail'[x] = mail[x]
        /\ \/ mail'[d] = mail[d]
           \/ mail[d] # <<>> /\ mail'[d] = Tail(mail[d])
           \/ mail'[d] = mail[d] \o Replay(d)
           \/ mail'[d] = Replay(d)
    BY PhonesTyped, ReplayType, PhoneStepMail DEF CallInv
  <1>2. PICK i \in DOMAIN mail'[e] : mail'[e][i].ev = "incoming" /\ mail'[e][i].call = c
    BY DEF Awaits
  <1>3. CASE mail'[e] = mail[e]
    BY <1>2, <1>3 DEF Awaits
  <1>4. CASE e = d /\ mail[d] # <<>> /\ mail'[d] = Tail(mail[d])
    BY <1>1, <1>2, <1>4, TailOfMail DEF Awaits
  <1>5. CASE e = d /\ mail'[d] = mail[d] \o Replay(d)
    <2>1. \/ i \in DOMAIN mail[d] /\ mail'[d][i] = mail[d][i]
          \/ i - Len(mail[d]) \in DOMAIN Replay(d)
               /\ mail'[d][i] = Replay(d)[i - Len(mail[d])]
      BY <1>1, <1>2, <1>5, AppendedMail
    <2> QED BY <1>1, <1>2, <1>5, <2>1 DEF Awaits
  <1>6. CASE e = d /\ mail'[d] = Replay(d)
    BY <1>1, <1>2, <1>6
  <1> QED BY <1>1, <1>3, <1>4, <1>5, <1>6

LEMMA ServerStepAwaits ==
  ASSUME CallInv, ServerStep, NEW e \in Phone, NEW c, Awaits(e, c)'
  PROVE  Awaits(e, c) \/ \E r \in requests : Save(r) /\ r.call = c
  <1>1. mail \in [Phone -> Seq(Mail)]
    BY PhonesTyped DEF CallInv
  <1>2. PICK to \in [Phone -> Seq(Mail)] :
          /\ Deliver(to) \/ UNCHANGED mail
          /\ \A d \in Phone : \A i \in DOMAIN to[d] : to[d][i].ev = "incoming" =>
               \E r \in requests :
                 Save(r) /\ r.call = to[d][i].call /\ PartyOf[d] # PartyOf[r.socket[1]]
    BY ServerStepMail DEF CallInv
  <1>3. PICK i \in DOMAIN mail'[e] : mail'[e][i].ev = "incoming" /\ mail'[e][i].call = c
    BY DEF Awaits
  <1>4. mail'[e] = mail[e] \/ mail'[e] = mail[e] \o to[e]
    BY <1>1, <1>2, DeliverAppends
  <1>5. mail[e] \in Seq(Mail) /\ to[e] \in Seq(Mail)
    BY <1>1
  <1>6. CASE mail'[e] = mail[e]
    BY <1>3, <1>6 DEF Awaits
  <1>7. CASE mail'[e] = mail[e] \o to[e]
    <2>1. \/ i \in DOMAIN mail[e] /\ mail'[e][i] = mail[e][i]
          \/ i - Len(mail[e]) \in DOMAIN to[e] /\ mail'[e][i] = to[e][i - Len(mail[e])]
      BY <1>3, <1>5, <1>7, AppendedMail
    <2>2. CASE i - Len(mail[e]) \in DOMAIN to[e] /\ mail'[e][i] = to[e][i - Len(mail[e])]
      BY <1>2, <1>3, <2>2
    <2> QED BY <1>3, <2>1, <2>2 DEF Awaits
  <1> QED BY <1>4, <1>6, <1>7

\* No step of a phone takes a call to a phone it has not reached.
LEMMA PhoneStepReaches ==
  ASSUME CallInv, NEW d \in Phone, PhoneStep(d), NEW c \in CallId, Reached(c)'
  PROVE  Reached(c)
  <1>1. UNCHANGED <<pending, settled>>
    BY PhoneStepTablesRight
  <1>2. CASE (\E u \in Party : c \in pending[u])' \/ \E e \in Phone : <<c, e>> \in settled'
    BY <1>1, <1>2 DEF Reached
  <1>3. CASE \E e \in Phone : Awaits(e, c)'
    BY <1>3, PhoneStepAwaits, CallAssumption DEF Reached
  <1>4. ASSUME NEW e \in Phone, TakesUp(e, c)'
        PROVE  Reached(c)
    <2>1. CASE e # d
      BY <1>4, <2>1, PhoneStepPhones DEF TakesUp, Reached
    <2>2. CASE e = d
      <3>1. Carries(d, phone[d], phone'[d])
        BY PhoneStepPhones DEF Becomes
      <3>2. TakesUp(d, c) \/ (Hears(d, "incoming") /\ Head(mail[d]).call = c)
        BY <1>4, <2>2, <3>1 DEF Carries, TakesUp
      <3> QED BY <3>2, HeardIsAwaited DEF Reached
    <2> QED BY <2>1, <2>2
  <1>5. ASSUME NEW r \in requests', Answers(c, r)
        PROVE  Reached(c)
    <2>1. CASE r \in requests
      BY <1>5, <2>1 DEF Reached
    <2>2. CASE r \notin requests
      <3>1. InvitedTo(d, c)
        BY <1>5, <2>2, PhoneStepRequests, PhonesTyped
           DEF MayRequest, Answers, CallInv, PhonesRight
      <3>2. TakesUp(d, c) \/ (Hears(d, "incoming") /\ Head(mail[d]).call = c)
        BY <3>1 DEF InvitedTo, TakesUp
      <3> QED BY <3>2, HeardIsAwaited DEF Reached
    <2> QED BY <2>1, <2>2
  <1> QED BY <1>2, <1>3, <1>4, <1>5 DEF Reached

\* The server takes it there by saving it.
LEMMA ServerStepReaches ==
  ASSUME CallInv, ServerStep, NEW c \in CallId, Reached(c)'
  PROVE  Reached(c) \/ \E r \in requests : Save(r) /\ r.call = c
  <1>1. phone' = phone
    BY ServerStepFrame
  <1>2. CASE \E u \in Party : c \in pending'[u]
    BY <1>2, ServerStepPending DEF Reached
  <1>3. CASE \E e \in Phone : Awaits(e, c)'
    BY <1>3, ServerStepAwaits DEF Reached
  <1>4. CASE \E e \in Phone : TakesUp(e, c)'
    BY <1>1, <1>4 DEF TakesUp, Reached
  <1>5. /\ \A r \in requests' \ requests : r.ev = "save"
        /\ \A x \in settled' \ settled : \E r \in requests : Answers(x[1], r)
    <2>1. requests \subseteq Request
      BY DEF CallInv, CallTypeOK
    <2>2. CASE \E r \in requests : Invite(r)
      <3>1. PICK r \in requests : Invite(r)
        BY <2>2
      <3>2. [r EXCEPT !.ev = "save"].ev = "save"
        BY <2>1 DEF Request
      <3> QED BY <3>1, <3>2 DEF Invite
    <2>3. CASE \E r \in requests : Answer(r) \/ Refused(r)
      <3>1. PICK r \in requests : Answer(r) \/ Refused(r)
        BY <2>3
      <3>2. /\ settled' = settled \cup {<<r.call, r.socket[1]>>}
            /\ requests' \subseteq requests /\ Answers(r.call, r)
        BY <3>1 DEF Answer, Refused, Handling, Done, Answers
      <3> QED BY <3>2
    <2>4. CASE requests' \subseteq requests /\ settled' = settled
      BY <2>4
    <2> QED BY <2>2, <2>3, <2>4
            DEF ServerStep, Refuse, Save, Offer, ResumeCall, End, Done,
                Disconnected, GraceExpires, BlockCalls, serverVars
  <1>6. CASE \E e \in Phone : <<c, e>> \in settled'
    <2>1. PICK e \in Phone : <<c, e>> \in settled'
      BY <1>6
    <2> QED BY <1>5, <2>1 DEF Reached
  <1>7. CASE \E r \in requests' : Answers(c, r)
    BY <1>5, <1>7 DEF Reached, Answers
  <1> QED BY <1>2, <1>3, <1>4, <1>6, <1>7 DEF Reached

\* The tasks of an invitation, and its request.
LEMMA PhoneStepInvites ==
  ASSUME CallInv, NEW d \in Phone, PhoneStep(d), NEW r \in requests' \ requests,
         r.ev = "invite"
  PROVE  \E t \in phone[d].tasks :
           /\ Starts(r.call, t)
           /\ \A q \in requests' \ requests : q = r
           /\ \A e \in Phone : \A u \in phone'[e].tasks : ~Starts(r.call, u)
  <1>1. phone \in [Phone -> CallStore] /\ \A e \in Phone : TasksRight(e, phone[e])
    BY PhonesTyped DEF CallInv, PhonesRight, PhoneRight
  <1>2. PICK t \in phone[d].tasks : StartInvites(d, t) /\ t.call = r.call
    BY PhoneStepRequests, PhonesTyped DEF MayRequest, CallInv, PhonesRight
  <1>3. t.kind = "start" /\ CallerOf[r.call] = d
    BY <1>1, <1>2 DEF StartInvites, TasksRight
  <1> DEFINE w == Without(phone[d], t)
  <1>4. /\ \A q \in requests' \ requests : q = [ev |-> "invite", call |-> t.call, socket |-> Line(d)]
        /\ phone' = [phone EXCEPT ![d] =
             [w EXCEPT !.peer = [id |-> t.call, sig |-> "offered", with |-> NoId]]]
    BY <1>2 DEF StartInvites, Silent, Emit, Keep
  <1>5. w \in CallStore /\ w.tasks = phone[d].tasks \ {t}
    BY <1>1 DEF Without, CallStore
  <1> HIDE DEF w
  <1>6. phone'[d].tasks = phone[d].tasks \ {t} /\ \A e \in Phone \ {d} : phone'[e] = phone[e]
    BY <1>1, <1>4, <1>5 DEF CallStore
  <1>7. ASSUME NEW e \in Phone, NEW u \in phone'[e].tasks, Starts(r.call, u)
        PROVE  FALSE
    <2>1. u \in phone[e].tasks
      BY <1>6
    <2>2. e = d
      BY <1>1, <1>3, <1>7, <2>1 DEF TasksRight, Starts
    <2>3. u = t
      BY <1>1, <1>2, <1>3, <1>7, <2>1, <2>2 DEF TasksRight, Starts
    <2> QED BY <1>6, <2>2, <2>3
  <1> QED BY <1>2, <1>3, <1>4, <1>7 DEF Starts

\* A step of a phone starts a call only when it places it.
LEMMA PhoneStepStarted ==
  ASSUME CallInv, NEW d \in Phone, PhoneStep(d), NEW c,
         NEW e \in Phone, NEW u \in phone'[e].tasks, Starts(c, u)
  PROVE  (\E t \in phone[e].tasks : Starts(c, t)) \/ c \notin placed
  <1>1. CASE e # d
    BY <1>1, PhoneStepPhones
  <1>2. CASE e = d
    <2>1. Carries(d, phone[d], phone'[d])
      BY PhoneStepPhones DEF Becomes
    <2>2. \/ \E t \in phone[d].tasks : u.kind = t.kind /\ u.call = t.call
          \/ u.kind = "start" /\ u.call \notin placed
      BY <1>2, <2>1 DEF Carries, Starts
    <2> QED BY <1>2, <2>2 DEF Starts
  <1> QED BY <1>1, <1>2

LEMMA PhoneStepTokens ==
  ASSUME CallInv, TokensRight, NEW d \in Phone, PhoneStep(d)
  PROVE  TokensRight'
  <1>1. placed \subseteq placed'
    BY PhoneStepStarts
  <1>2. ASSUME NEW c \in CallId, NEW r \in requests', Invites(c, r), r \notin requests
        PROVE  /\ r.ev = "invite"
               /\ c \in placed /\ ~\E q \in requests : Invites(c, q)
               /\ \A q \in requests' \ requests : q = r
               /\ ~\E e \in Phone : \E u \in phone'[e].tasks : Starts(c, u)
               /\ Unsaved(c)
    <2>1. r.ev = "invite" /\ r.call = c
      BY <1>2, PhoneStepRequests, PhonesTyped
         DEF MayRequest, Invites, CallInv, PhonesRight
    <2>2. PICK t \in phone[d].tasks :
            /\ Starts(c, t)
            /\ \A q \in requests' \ requests : q = r
            /\ \A e \in Phone : \A u \in phone'[e].tasks : ~Starts(c, u)
      BY <1>2, <2>1, PhoneStepInvites
    <2>3. c \in placed
      BY <2>2 DEF CallInv, StartsPlaced, Starts
    <2>4. ~\E q \in requests : Invites(c, q)
      BY <2>2 DEF TokensRight
    <2> QED BY <2>1, <2>2, <2>3, <2>4 DEF Unsaved
  <1>3. ASSUME NEW c \in CallId
        PROVE  /\ c \notin placed' => ~\E r \in requests' : Invites(c, r)
               /\ (\E e \in Phone : \E t \in phone'[e].tasks : Starts(c, t)) =>
                    ~\E r \in requests' : Invites(c, r)
               /\ \A r, q \in requests' : Invites(c, r) /\ Invites(c, q) => r = q
    <2>1. c \notin placed' => ~\E r \in requests' : Invites(c, r)
      BY <1>1, <1>2 DEF TokensRight
    <2>2. ASSUME NEW e \in Phone, NEW u \in phone'[e].tasks, Starts(c, u),
                 NEW r \in requests', Invites(c, r)
          PROVE  FALSE
      BY <1>2, <2>2, PhoneStepStarted DEF TokensRight
    <2>3. ASSUME NEW r \in requests', NEW q \in requests', Invites(c, r), Invites(c, q)
          PROVE  r = q
      BY <1>2, <2>3 DEF TokensRight
    <2> QED BY <2>1, <2>2, <2>3
  <1>4. ASSUME NEW c \in CallId, Unsaved(c)'
        PROVE  Unsaved(c)
    <2>1. CASE c \notin placed'
      BY <1>1, <2>1 DEF Unsaved
    <2>2. CASE \E e \in Phone : \E t \in phone'[e].tasks : Starts(c, t)
      BY <2>2, PhoneStepStarted DEF Unsaved
    <2>3. CASE \E r \in requests' : Invites(c, r)
      BY <1>2, <2>3 DEF Unsaved
    <2> QED BY <1>4, <2>1, <2>2, <2>3 DEF Unsaved
  <1>5. \A c \in CallId : Unsaved(c)' => ~Reached(c)'
    BY <1>4, PhoneStepReaches DEF TokensRight
  <1> QED BY <1>3, <1>5 DEF TokensRight

LEMMA ServerStepTokens ==
  ASSUME CallInv, TokensRight, ServerStep
  PROVE  TokensRight'
  <1>1. UNCHANGED <<phone, placed>> /\ requests \subseteq Request
    BY ServerStepFrame DEF CallInv, CallTypeOK
  <1>2. \/ requests' \subseteq requests
        \/ \E r \in requests : /\ r.ev = "invite" /\ r.call \in CallId
                               /\ requests' = (requests \ {r}) \cup {[r EXCEPT !.ev = "save"]}
    BY <1>1 DEF ServerStep, Refuse, Invite, Save, Answer, Offer, ResumeCall, Refused, End, Done,
                Handling, Disconnected, GraceExpires, BlockCalls, Request
  <1>3. ASSUME NEW c \in CallId
        PROVE  /\ (\E r \in requests' : Invites(c, r)) => \E r \in requests : Invites(c, r)
               /\ \A r, q \in requests' : Invites(c, r) /\ Invites(c, q) => r = q
    <2>1. CASE requests' \subseteq requests
      BY <2>1 DEF TokensRight
    <2>2. ASSUME NEW r \in requests, r.ev = "invite",
                 requests' = (requests \ {r}) \cup {[r EXCEPT !.ev = "save"]}
          PROVE  /\ (\E x \in requests' : Invites(c, x)) => \E x \in requests : Invites(c, x)
                 /\ \A x, q \in requests' : Invites(c, x) /\ Invites(c, q) => x = q
      <3> DEFINE s == [r EXCEPT !.ev = "save"]
      <3>1. r \in Request
        BY <1>1
      <3>2. s.call = r.call /\ s.ev = "save"
        BY <3>1 DEF Request
      <3>3. requests' = (requests \ {r}) \cup {s}
        BY <2>2
      <3> HIDE DEF s
      <3>4. Invites(c, s) <=> Invites(c, r)
        BY <2>2, <3>2 DEF Invites
      <3>5. \A x \in requests : Invites(c, x) /\ Invites(c, r) => x = r
        BY DEF TokensRight
      <3> QED BY <3>3, <3>4, <3>5 DEF TokensRight
    <2> QED BY <1>2, <2>1, <2>2
  <1>4. ASSUME NEW c \in CallId, Unsaved(c)'
        PROVE  Unsaved(c) /\ ~\E r \in requests : Save(r) /\ r.call = c
    <2>1. Unsaved(c)
      BY <1>1, <1>3, <1>4 DEF Unsaved
    <2>2. ASSUME NEW r \in requests, Save(r), r.call = c
          PROVE  FALSE
      <3>1. Invites(c, r) /\ requests' = requests \ {r}
        BY <2>2 DEF Invites, Save, Done
      <3>2. c \in placed /\ ~\E e \in Phone : \E t \in phone[e].tasks : Starts(c, t)
        BY <3>1 DEF TokensRight
      <3>3. ~\E q \in requests' : Invites(c, q)
        BY <3>1 DEF TokensRight
      <3> QED BY <1>1, <1>4, <3>2, <3>3 DEF Unsaved
    <2> QED BY <2>1, <2>2
  <1>5. \A c \in CallId : Unsaved(c)' => ~Reached(c)'
    BY <1>4, ServerStepReaches DEF TokensRight
  <1> QED BY <1>1, <1>3, <1>5 DEF TokensRight

-----------------------------------------------------------------------------
(* What the other phones hear of a call that is settled.                   *)

\* The end of call c is in mail s after position i.
EndedAfter(s, c, i) == \E j \in DOMAIN s : i < j /\ s[j].ev = "ended" /\ s[j].call = c

\* Whatever invites phone d to call c has the end of the call after it.
CalledOff(d, c) ==
  /\ \A i \in DOMAIN mail[d] :
       mail[d][i].ev = "incoming" /\ mail[d][i].call = c => EndedAfter(mail[d], c, i)
  /\ phone[d].call = [id |-> c, dir |-> "incoming", status |-> "ringing"] =>
       EndedAfter(mail[d], c, 0)

\* A phone that nobody ever connects again hears nothing.
Listens(d) == phone[d].online \/ d \in attended

NewsRight ==
  \A x \in settled :
    /\ \A u \in Party : x[1] \notin pending[u]
    /\ \A d \in Phone \ {x[2]} : Listens(d) => CalledOff(d, x[1])

\* A call that is settled has reached the phone, so that it is never saved again.
LEMMA SettledNotSaved ==
  ASSUME CallInv, TokensRight, NEW x \in settled, NEW r \in requests, Save(r)
  PROVE  r.call # x[1]
  <1>1. x[1] \in CallId /\ x[2] \in Phone /\ x = <<x[1], x[2]>>
    BY DEF CallInv, CallTypeOK
  <1>2. Reached(x[1])
    BY <1>1 DEF Reached
  <1>3. ~\E q \in requests : Invites(x[1], q)
    BY <1>1, <1>2 DEF TokensRight, Unsaved
  <1> QED BY <1>3 DEF Save, Invites

\* Mail that is appended takes nothing back.
LEMMA EndedAppended ==
  ASSUME NEW s \in Seq(Mail), NEW t \in Seq(Mail), NEW c, NEW i, EndedAfter(s, c, i)
  PROVE  EndedAfter(s \o t, c, i)
  BY AppendedMail DEF EndedAfter

LEMMA EndComesLast ==
  ASSUME NEW s \in Seq(Mail), NEW t \in Seq(Mail), NEW c,
         Len(t) = 1, t[1].ev = "ended", t[1].call = c
  PROVE  EndedAfter(s \o t, c, 0) /\ \A i \in DOMAIN s : EndedAfter(s \o t, c, i)
  <1> DEFINE u == s \o t
  <1> DEFINE n == Len(s)
  <1>1. u \in Seq(Mail) /\ Len(u) = n + Len(t) /\ n \in Nat
    BY AppendedMail
  <1>2. \A i \in 1..(n + Len(t)) : u[i] = IF i <= n THEN s[i] ELSE t[i - n]
    BY ConcatProperties
  <1>3. DOMAIN s = 1..n
    OBVIOUS
  <1> HIDE DEF u, n
  <1>4. /\ n + 1 \in 1..(n + Len(t)) /\ ~(n + 1 <= n) /\ (n + 1) - n = 1
        /\ 0 < n + 1 /\ \A i \in DOMAIN s : i < n + 1
    BY <1>1, <1>3
  <1>5. u[n + 1] = t[1]
    BY <1>2, <1>4
  <1>6. n + 1 \in DOMAIN u
    BY <1>1, <1>4
  <1>7. EndedAfter(u, c, 0) /\ \A i \in DOMAIN s : EndedAfter(u, c, i)
    BY <1>4, <1>5, <1>6 DEF EndedAfter
  <1> QED BY <1>7 DEF u

LEMMA EndedInTail ==
  ASSUME NEW s \in Seq(Mail), s # <<>>, NEW c, NEW i \in Nat, EndedAfter(s, c, i + 1)
  PROVE  EndedAfter(Tail(s), c, i)
  <1>1. /\ Tail(s) \in Seq(Mail) /\ Len(Tail(s)) = Len(s) - 1 /\ Len(s) \in Nat \ {0}
        /\ \A j \in 1..Len(Tail(s)) : Tail(s)[j] = s[j + 1]
    BY HeadTailProperties, EmptySeq
  <1>2. PICK j \in DOMAIN s : i + 1 < j /\ s[j].ev = "ended" /\ s[j].call = c
    BY DEF EndedAfter
  <1>3. j \in Nat /\ j <= Len(s)
    BY <1>2
  <1>4. j - 1 \in 1..Len(Tail(s)) /\ (j - 1) + 1 = j /\ i < j - 1
    BY <1>1, <1>2, <1>3
  <1>5. j - 1 \in DOMAIN Tail(s)
    BY <1>1, <1>4
  <1> QED BY <1>1, <1>2, <1>4, <1>5 DEF EndedAfter

\* The phone that hears the end of its call no longer rings.
LEMMA HearsTheEnd ==
  ASSUME CallInv, NEW d \in Phone, PhoneStep(d), Hears(d, "ended"),
         mail'[d] = Tail(mail[d]), Head(mail[d]).call = phone[d].call.id
  PROVE  phone'[d].call.status # "ringing"
  <1>1. phone \in [Phone -> CallStore] /\ mail \in [Phone -> Seq(Mail)] /\ PhoneRight(d, phone[d])
    BY PhonesTyped DEF CallInv, PhonesRight
  <1>2. mail[d] \in Seq(Mail) /\ mail[d] # <<>> /\ Head(mail[d]).ev = "ended"
    BY <1>1 DEF Hears
  <1>3. mail'[d] # mail[d]
    <2>1. Len(Tail(mail[d])) = Len(mail[d]) - 1 /\ Len(mail[d]) \in Nat \ {0}
      BY <1>2, TailOfMail
    <2>2. Len(Tail(mail[d])) # Len(mail[d])
      BY <2>1
    <2> QED BY <2>2
  <1>4. ~Recover(d) /\ ~Reconnect(d)
    BY DEF Hears, Recover, Reconnect
  <1>5. RemoteEnd(d)
    <2>1. ~Incoming(d) /\ ~Answered(d) /\ ~AnswerUnusable(d) /\ ~RemoteOffer(d)
      BY <1>2 DEF Hears, Incoming, Answered, AnswerUnusable, RemoteOffer
    <2>2. ~\E c \in CallId : StartCall(d, c)
      BY <1>3 DEF StartCall
    <2>3. ~\E t \in phone[d].tasks : TaskStep(d, t)
      BY <1>3 DEF TaskStep, StartRings, StartArms, StartInvites, StartFails, AcceptCaptures,
                  AcceptOpensPeer, AcceptAnswers, AcceptFails, OnPhone, WithTrouble
    <2>4. ~AcceptCall(d) /\ ~Decline(d) /\ ~HangUp(d)
      BY <1>3 DEF AcceptCall, Decline, HangUp, OnPhone, WithTrouble
    <2>5. ~Connect(d) /\ ~Break(d) /\ ~PeerFails(d) /\ ~RestartIce(d) /\ ~ConnectionLost(d)
      BY <1>3 DEF Connect, Break, PeerFails, RestartIce, ConnectionLost, OnPhone, WithTrouble
    <2>6. /\ ~RingTimeout(d) /\ ~ConnectTimeout(d) /\ ~ReconnectTimeout(d)
          /\ ~\E c \in CallId : ClearOver(d, c)
      BY <1>3 DEF RingTimeout, ConnectTimeout, ReconnectTimeout, ClearOver, OnPhone
    <2> QED BY <1>4, <2>1, <2>2, <2>3, <2>4, <2>5, <2>6 DEF PhoneStep
  <1>6. phone' = [phone EXCEPT ![d] = Over(phone[d], "ended")]
    BY <1>2, <1>5 DEF RemoteEnd, Keep
  <1>7. Head(mail[d]) \in Mail /\ NoId \notin CallId
    BY <1>2, HeadTailProperties, CallAssumption
  <1>8. phone[d].call # NoCall
    BY <1>7 DEF Mail, NoCall
  <1>9. Over(phone[d], "ended").call.status = "ended"
    <2>1. "ended" \in {"declined", "ended"}
      OBVIOUS
    <2>2. Over(phone[d], "ended").call =
            [id |-> phone[d].call.id, dir |-> phone[d].call.dir, status |-> "ended"]
      BY <1>1, <1>8, <2>1, OverRight
    <2> QED BY <2>2
  <1> QED BY <1>1, <1>6, <1>9

LEMMA PhoneStepNews ==
  ASSUME CallInv, TokensRight, NewsRight, NEW d \in Phone, PhoneStep(d)
  PROVE  NewsRight'
  <1>1. /\ UNCHANGED <<pending, settled, attended>>
        /\ phone \in [Phone -> CallStore] /\ mail \in [Phone -> Seq(Mail)]
        /\ PhoneRight(d, phone[d])
        /\ Replay(d) \in Seq(Mail)
        /\ \A i \in DOMAIN Replay(d) : Replay(d)[i].call \in pending[PartyOf[d]]
        /\ PartyOf[d] \in Party
    BY PhoneStepTablesRight, PhonesTyped, ReplayType, CallAssumption DEF CallInv, PhonesRight
  <1>2. /\ \A e \in Phone \ {d} : mail'[e] = mail[e] /\ phone'[e] = phone[e]
        /\ Carries(d, phone[d], phone'[d]) /\ PhoneRight(d, phone'[d])
    BY PhoneStepPhones, PhoneStepMail DEF CallInv, Becomes
  <1>3. Listens(d)' => Listens(d)
    BY <1>1, PhoneStepPhones DEF Listens, SameLine, Recover, Reconnect
  <1>4. ASSUME NEW x \in settled, d # x[2], Listens(d)'
        PROVE  CalledOff(d, x[1])'
    <2> DEFINE c == x[1]
    <2> DEFINE rings == [id |-> c, dir |-> "incoming", status |-> "ringing"]
    <2>1. c \notin pending[PartyOf[d]] /\ CalledOff(d, c)
      BY <1>1, <1>3, <1>4 DEF NewsRight
    <2>2. ASSUME Hears(d, "incoming"), Head(mail[d]).call = c
          PROVE  EndedAfter(mail[d], c, 1)
      <3>1. 1 \in DOMAIN mail[d] /\ mail[d][1] = Head(mail[d])
        BY <1>1, <2>2, HeadOfMail
      <3> QED BY <2>1, <2>2, <3>1 DEF CalledOff, Hears
    <2>3. ASSUME phone'[d].call = rings
          PROVE  \/ phone[d].call = rings
                 \/ Hears(d, "incoming") /\ Head(mail[d]).call = c
      <3>1. phone[d].call \in Call
        BY <1>1 DEF CallStore
      <3>2. phone'[d].call.dir = "incoming" /\ phone'[d].call.id = c
            /\ phone'[d].call.status = "ringing"
        BY <2>3
      <3>3. \/ /\ phone[d].call.dir = "incoming" /\ phone[d].call.id = c
               /\ phone[d].call.status = "ringing"
            \/ Hears(d, "incoming") /\ Head(mail[d]).call = c
        BY <1>2, <3>2 DEF Carries
      <3> QED BY <3>1, <3>3 DEF Call
    <2>4. \A i, j : EndedAfter(mail[d], c, i) /\ i = 1 /\ j = 0 => EndedAfter(mail[d], c, j)
      <3>1. \A k \in DOMAIN mail[d] : 1 < k => 0 < k
        BY <1>1
      <3> QED BY <3>1 DEF EndedAfter
    <2>5. phone'[d].call = rings => EndedAfter(mail[d], c, 0)
      BY <2>1, <2>2, <2>3, <2>4 DEF CalledOff
    <2> HIDE DEF c
    <2>6. CASE mail'[d] = mail[d]
      BY <2>1, <2>5, <2>6 DEF CalledOff, c
    <2>7. CASE /\ mail[d] # <<>> /\ mail'[d] = Tail(mail[d])
               /\ \E ev \in MailEvent : Hears(d, ev)
      <3>1. mail[d] \in Seq(Mail)
        BY <1>1
      <3>2. ASSUME NEW i \in DOMAIN mail'[d], mail'[d][i].ev = "incoming", mail'[d][i].call = c
            PROVE  EndedAfter(mail'[d], c, i)
        <4>1. i + 1 \in DOMAIN mail[d] /\ mail'[d][i] = mail[d][i + 1]
          BY <2>7, <3>1, <3>2, TailOfMail
        <4>2. EndedAfter(mail[d], c, i + 1)
          BY <2>1, <3>2, <4>1 DEF CalledOff
        <4>3. i \in Nat
          BY <2>7, <3>1, TailOfMail
        <4> QED BY <2>7, <3>1, <4>2, <4>3, EndedInTail
      <3>3. ASSUME phone'[d].call = rings
            PROVE  EndedAfter(mail'[d], c, 0)
        <4>1. EndedAfter(mail[d], c, 1)
          <5>1. CASE Hears(d, "incoming") /\ Head(mail[d]).call = c
            BY <2>2, <5>1
          <5>2. CASE phone[d].call = rings
            <6>1. ~(Hears(d, "ended") /\ Head(mail[d]).call = c)
              <7>1. phone[d].call.id = c /\ phone'[d].call.status = "ringing"
                BY <3>3, <5>2
              <7> QED BY <2>7, <7>1, HearsTheEnd
            <6>2. mail[d][1] = Head(mail[d]) /\ phone[d].online
              BY <1>1, <2>7, HeadOfMail DEF Hears
            <6>3. PICK j \in DOMAIN mail[d] : 0 < j /\ mail[d][j].ev = "ended" /\ mail[d][j].call = c
              BY <2>5, <3>3 DEF EndedAfter
            <6>4. j # 1
              BY <2>7, <6>1, <6>2, <6>3 DEF Hears
            <6>5. j \in Nat /\ 1 < j
              BY <3>1, <6>3, <6>4
            <6> QED BY <6>3, <6>5 DEF EndedAfter
          <5> QED BY <2>3, <3>3, <5>1, <5>2
        <4>2. 0 + 1 = 1 /\ 0 \in Nat
          OBVIOUS
        <4> QED BY <2>7, <3>1, <4>1, <4>2, EndedInTail
      <3> QED BY <3>2, <3>3 DEF CalledOff, c
    <2>8. CASE mail'[d] = mail[d] \o Replay(d)
      <3>1. mail[d] \in Seq(Mail)
        BY <1>1
      <3>2. ASSUME NEW i \in DOMAIN mail'[d], mail'[d][i].ev = "incoming", mail'[d][i].call = c
            PROVE  EndedAfter(mail'[d], c, i)
        <4>1. \/ i \in DOMAIN mail[d] /\ mail'[d][i] = mail[d][i]
              \/ i - Len(mail[d]) \in DOMAIN Replay(d)
                   /\ mail'[d][i] = Replay(d)[i - Len(mail[d])]
          BY <1>1, <2>8, <3>1, <3>2, AppendedMail
        <4>2. i \in DOMAIN mail[d] /\ mail'[d][i] = mail[d][i]
          BY <1>1, <2>1, <3>2, <4>1
        <4>3. EndedAfter(mail[d], c, i)
          BY <2>1, <3>2, <4>2 DEF CalledOff
        <4> QED BY <1>1, <2>8, <3>1, <4>3, EndedAppended
      <3> QED BY <1>1, <2>5, <2>8, <3>1, <3>2, EndedAppended DEF CalledOff, c
    <2>9. CASE Reconnect(d) /\ mail'[d] = Replay(d)
      <3>1. phone'[d].call # rings
        <4>1. ~phone[d].online
          BY <2>9 DEF Reconnect
        <4>2. phone[d].call # rings
          BY <1>1, <4>1 DEF PhoneRight, CallRight
        <4> QED BY <2>3, <4>1, <4>2 DEF Hears
      <3> QED BY <1>1, <2>1, <2>9, <3>1 DEF CalledOff, c
    <2> QED BY <2>6, <2>7, <2>8, <2>9, PhoneStepMail DEF CallInv, c
  <1>5. ASSUME NEW x \in settled', NEW e \in Phone \ {x[2]}, Listens(e)'
        PROVE  CalledOff(e, x[1])'
    <2>1. CASE e = d
      BY <1>1, <1>4, <1>5, <2>1
    <2>2. CASE e # d
      <3>1. Listens(e) /\ mail'[e] = mail[e] /\ phone'[e] = phone[e]
        BY <1>1, <1>2, <1>5, <2>2 DEF Listens
      <3>2. CalledOff(e, x[1])
        BY <1>1, <3>1 DEF NewsRight
      <3> QED BY <3>1, <3>2 DEF CalledOff
    <2> QED BY <2>1, <2>2
  <1> QED BY <1>1, <1>5 DEF NewsRight

\* Nothing the server does takes the news back, and what settles a call spreads it.
LEMMA ServerStepNews ==
  ASSUME CallInv, TokensRight, NewsRight, ServerStep
  PROVE  NewsRight'
  <1>1. UNCHANGED <<phone, attended>> /\ mail \in [Phone -> Seq(Mail)]
    BY ServerStepFrame, PhonesTyped DEF CallInv
  <1>2. PICK to \in [Phone -> Seq(Mail)] :
          /\ Deliver(to) \/ UNCHANGED mail
          /\ \A d \in Phone : \A i \in DOMAIN to[d] : to[d][i].ev = "incoming" =>
               \E r \in requests :
                 Save(r) /\ r.call = to[d][i].call /\ PartyOf[d] # PartyOf[r.socket[1]]
    BY ServerStepMail DEF CallInv
  <1>3. ASSUME NEW x \in settled
        PROVE  /\ \A u \in Party : x[1] \notin pending'[u]
               /\ \A d \in Phone \ {x[2]} : Listens(d)' => CalledOff(d, x[1])'
    <2>1. \A r \in requests : Save(r) => r.call # x[1]
      BY SettledNotSaved
    <2>2. \A u \in Party : x[1] \notin pending'[u]
      BY <2>1, ServerStepPending DEF NewsRight
    <2>3. ASSUME NEW d \in Phone \ {x[2]}, Listens(d)'
          PROVE  CalledOff(d, x[1])'
      <3>1. CalledOff(d, x[1]) /\ Listens(d)
        BY <1>1, <2>3 DEF NewsRight, Listens
      <3>2. mail'[d] = mail[d] \/ mail'[d] = mail[d] \o to[d]
        BY <1>1, <1>2, DeliverAppends
      <3>3. mail[d] \in Seq(Mail) /\ to[d] \in Seq(Mail)
        BY <1>1
      <3>4. CASE mail'[d] = mail[d]
        BY <1>1, <3>1, <3>4 DEF CalledOff
      <3>5. CASE mail'[d] = mail[d] \o to[d]
        <4>1. ASSUME NEW i \in DOMAIN mail'[d],
                     mail'[d][i].ev = "incoming", mail'[d][i].call = x[1]
              PROVE  EndedAfter(mail'[d], x[1], i)
          <5>1. \/ i \in DOMAIN mail[d] /\ mail'[d][i] = mail[d][i]
                \/ i - Len(mail[d]) \in DOMAIN to[d]
                     /\ mail'[d][i] = to[d][i - Len(mail[d])]
            BY <3>3, <3>5, <4>1, AppendedMail
          <5>2. i \in DOMAIN mail[d] /\ mail'[d][i] = mail[d][i]
            BY <1>2, <2>1, <4>1, <5>1
          <5>3. EndedAfter(mail[d], x[1], i)
            BY <3>1, <4>1, <5>2 DEF CalledOff
          <5> QED BY <3>3, <3>5, <5>3, EndedAppended
        <4>2. phone'[d].call = [id |-> x[1], dir |-> "incoming", status |-> "ringing"] =>
                EndedAfter(mail'[d], x[1], 0)
          BY <1>1, <3>1, <3>3, <3>5, EndedAppended DEF CalledOff
        <4> QED BY <4>1, <4>2 DEF CalledOff
      <3> QED BY <3>2, <3>4, <3>5
    <2> QED BY <2>2, <2>3
  <1>4. ASSUME NEW x \in settled' \ settled
        PROVE  /\ \A u \in Party : x[1] \notin pending'[u]
               /\ \A d \in Phone \ {x[2]} : Listens(d)' => CalledOff(d, x[1])'
    <2>1. PICK r \in requests : (Answer(r) \/ Refused(r)) /\ x = <<r.call, r.socket[1]>>
      <3>1. PICK r \in requests : Answer(r) \/ Refused(r)
        BY <1>4 DEF ServerStep, Refuse, Invite, Save, Offer, ResumeCall, End,
                    Disconnected, GraceExpires, BlockCalls, serverVars
      <3> QED BY <1>4, <3>1 DEF Answer, Refused
    <2>2. /\ r \in Request /\ x[1] = r.call /\ x[2] = r.socket[1] /\ x[1] \in CallId
          /\ r.socket[1] \in Phone
      BY <2>1, SocketParts DEF CallInv, CallTypeOK, Request
    <2>3. Callee(x[2], x[1])
      BY <2>1, <2>2 DEF Answer, Refused, Handling, CallInv, TablesRight
    <2>4. PICK own \in BOOLEAN, ev \in {"answered", "declined"}, from \in Phone \cup {NoId} :
            own /\ Tell(r, own, ev, from)
      BY <2>1, <2>2 DEF Answer, Refused
    <2>5. /\ Told(r, own, ev, from) \in [Phone -> Seq(Mail)]
          /\ \A d \in Phone : \A i \in DOMAIN Told(r, own, ev, from)[d] :
               \/ Told(r, own, ev, from)[d][i].ev = "ended"
               \/ Told(r, own, ev, from)[d][i].ev = ev
      <3>1. ev \in MailEvent
        BY DEF MailEvent
      <3> QED BY <2>2, <3>1, ToldType
    <2>6. PICK told \in [Phone -> Seq(Mail)] :
            /\ told = Told(r, own, ev, from) /\ Deliver(told)
            /\ \A d \in Phone : \A i \in DOMAIN told[d] : told[d][i].ev # "incoming"
      BY <2>4, <2>5, TellDelivers
    <2>7. \A u \in Party : x[1] \notin pending'[u]
      BY <2>1, <2>2 DEF Answer, Refused, ClearPending
    <2>8. ASSUME NEW d \in Phone \ {x[2]}, Listens(d)'
          PROVE  CalledOff(d, x[1])'
      <3>1. mail'[d] = mail[d] \o told[d]
        BY <1>1, <2>6, <2>8, DeliverAppends DEF Listens
      <3>2. mail[d] \in Seq(Mail) /\ told[d] \in Seq(Mail)
        BY <1>1, <2>6
      <3>3. ASSUME NEW i \in DOMAIN mail'[d], mail'[d][i].ev = "incoming"
            PROVE  i \in DOMAIN mail[d] /\ mail'[d][i] = mail[d][i]
        <4>1. \/ i \in DOMAIN mail[d] /\ mail'[d][i] = mail[d][i]
              \/ i - Len(mail[d]) \in DOMAIN told[d]
                   /\ mail'[d][i] = told[d][i - Len(mail[d])]
          BY <3>1, <3>2, <3>3, AppendedMail
        <4> QED BY <2>6, <3>3, <4>1
      <3>4. CASE PartyOf[d] = PartyOf[x[2]]
        <4>1. Line(d) # r.socket
          BY <2>2, <2>8 DEF Line
        <4>2. told[d] = <<Note("ended", r.call, NoId)>>
          BY <2>2, <2>4, <2>6, <3>4, <4>1 DEF Told
        <4>3. /\ Len(told[d]) = 1 /\ told[d][1].ev = "ended" /\ told[d][1].call = x[1]
          BY <2>2, <4>2 DEF Note
        <4>4. /\ EndedAfter(mail'[d], x[1], 0)
              /\ \A i \in DOMAIN mail[d] : EndedAfter(mail'[d], x[1], i)
          <5>1. /\ EndedAfter(mail[d] \o told[d], x[1], 0)
                /\ \A i \in DOMAIN mail[d] : EndedAfter(mail[d] \o told[d], x[1], i)
            BY <3>2, <4>3, EndComesLast
          <5> QED BY <3>1, <5>1, Zenon
        <4> QED BY <3>3, <4>4 DEF CalledOff
      <3>5. CASE PartyOf[d] # PartyOf[x[2]]
        <4>1. /\ PartyOf[d] \in Party /\ PartyOf[x[2]] \in Party
              /\ PartyOf[CallerOf[x[1]]] \in Party
          BY <2>2, CallAssumption
        <4>2. ~Callee(d, x[1])
          BY <2>3, <3>5, <4>1, CallAssumption DEF Callee
        <4>3. ~\E i \in DOMAIN mail[d] : mail[d][i].ev = "incoming" /\ mail[d][i].call = x[1]
          BY <4>2 DEF CallInv, MailRight
        <4>4. ~(phone[d].call.dir = "incoming" /\ phone[d].call.id = x[1])
          BY <4>2 DEF CallInv, PhonesRight, PhoneRight, CallRight
        <4>5. phone'[d].call # [id |-> x[1], dir |-> "incoming", status |-> "ringing"]
          BY <1>1, <4>4
        <4> QED BY <3>3, <4>3, <4>5 DEF CalledOff
      <3> QED BY <3>4, <3>5
    <2> QED BY <2>7, <2>8
  <1> QED BY <1>3, <1>4 DEF NewsRight

LEMMA CalledOffInvariant == CallSpec => [](CallInv /\ TokensRight /\ NewsRight)
  <1>1. CallInit => TokensRight /\ NewsRight
    <2> SUFFICES ASSUME CallInit PROVE TokensRight /\ NewsRight
      OBVIOUS
    <2>1. /\ requests = {} /\ settled = {} /\ mail = [d \in Phone |-> <<>>]
          /\ pending = [u \in Party |-> {}]
          /\ \A d \in Phone : phone[d].call = NoCall /\ phone[d].tasks = {}
      BY DEF CallInit
    <2>2. \A d \in Phone : \A c : ~TakesUp(d, c) /\ ~Awaits(d, c)
      BY <2>1 DEF TakesUp, Awaits, NoCall
    <2>3. TokensRight
      BY <2>1, <2>2 DEF TokensRight, Reached
    <2> QED BY <2>1, <2>3 DEF NewsRight
  <1>2. TokensRight /\ NewsRight /\ UNCHANGED callVars => TokensRight' /\ NewsRight'
    BY DEF TokensRight, NewsRight, Unsaved, Reached, Awaits, TakesUp, Listens, CalledOff,
           callVars, serverVars, callBounds
  <1>3. CallInv /\ TokensRight /\ NewsRight /\ [CallNext]_callVars => (TokensRight /\ NewsRight)'
    BY <1>2, PhoneStepTokens, ServerStepTokens, PhoneStepNews, ServerStepNews DEF CallNext
  <1> QED BY <1>1, <1>3, CallInvariant, PTL DEF CallSpec

\* Once one phone's answer or refusal of a call has been handled, every other phone
\* that rings for the call has its end in the mail: "ended" is emitted to all other
\* sockets of the user, and the invitation is replayed to none afterwards.
THEOREM RingsCalledOff == CallSpec => []RingingIsCalledOff
  <1>1. CallInv /\ NewsRight => RingingIsCalledOff
    <2> SUFFICES ASSUME CallInv, NewsRight, NEW d \in Phone, NEW e \in Phone, NEW c \in CallId,
                        <<c, e>> \in settled, d # e,
                        phone[d].call = [id |-> c, dir |-> "incoming", status |-> "ringing"]
                 PROVE  \E i \in DOMAIN mail[d] : mail[d][i].ev = "ended" /\ mail[d][i].call = c
      BY DEF RingingIsCalledOff
    <2>1. Listens(d)
      <3>1. phone[d].call.dir = "incoming" /\ phone[d].call.status = "ringing"
        OBVIOUS
      <3> QED BY <3>1 DEF CallInv, PhonesRight, PhoneRight, CallRight, Listens
    <2>2. CalledOff(d, c)
      BY <2>1 DEF NewsRight
    <2> QED BY <2>2 DEF CalledOff, EndedAfter
  <1> QED BY <1>1, CalledOffInvariant, PTL
=============================================================================
