--------------------------- MODULE GroupRolesProofs ---------------------------
(* Proofs that a group never has two owners, and loses its owner only to a    *)
(* request that decides by what it read before, for any number of users, rows *)
(* and concurrent requests.                                                   *)
EXTENDS GroupRoles, TLAPS

-----------------------------------------------------------------------------
(* Rows.                                                                   *)

\* Well-formed rows, with identifiers below n.
WellFormed(set, n) ==
  /\ set \subseteq Participant
  /\ \A r \in set : r.id < n
  /\ \A r, s \in set : r.id = s.id \/ r.user = s.user => r = s

\* Giving a row another role leaves rows well formed and changes nothing else.
LEMMA WithRoleRows ==
  ASSUME WellFormed(rows, nextRow), NEW r, NEW role \in Role
  PROVE  /\ WellFormed(WithRole(r, role), nextRow)
         /\ \A s \in WithRole(r, role) : \E o \in rows :
              /\ s.id = o.id /\ s.user = o.user
              /\ o.id = r.id => s.role = role
              /\ o.id # r.id => s = o
         /\ \A o \in rows : \E s \in WithRole(r, role) :
              /\ s.id = o.id
              /\ o.id = r.id => s.role = role
              /\ o.id # r.id => s = o
  <1>1. \A o \in rows : /\ [o EXCEPT !.role = role] \in Participant
                        /\ [o EXCEPT !.role = role].id = o.id
                        /\ [o EXCEPT !.role = role].user = o.user
                        /\ [o EXCEPT !.role = role].role = role
    BY DEF WellFormed, Participant
  <1>2. \A s \in WithRole(r, role) : \E o \in rows :
          /\ s \in Participant
          /\ s.id = o.id /\ s.user = o.user
          /\ o.id = r.id => s = [o EXCEPT !.role = role]
          /\ o.id # r.id => s = o
    <2>1. TAKE s \in WithRole(r, role)
    <2>2. PICK o \in rows : s = IF o.id = r.id THEN [o EXCEPT !.role = role] ELSE o
      BY DEF WithRole
    <2>3. o \in Participant
      BY DEF WellFormed
    <2>4. CASE o.id = r.id
      BY <1>1, <2>2, <2>4
    <2>5. CASE o.id # r.id
      BY <2>2, <2>3, <2>5
    <2> QED BY <2>4, <2>5
  <1>3. WellFormed(WithRole(r, role), nextRow)
    BY <1>2 DEF WellFormed
  <1>4. \A o \in rows :
          (IF o.id = r.id THEN [o EXCEPT !.role = role] ELSE o) \in WithRole(r, role)
    BY DEF WithRole
  <1>5. \A s \in WithRole(r, role) : \E o \in rows :
          /\ s.id = o.id /\ s.user = o.user
          /\ o.id = r.id => s.role = role
          /\ o.id # r.id => s = o
    <2>1. TAKE s \in WithRole(r, role)
    <2>2. PICK o \in rows : /\ s.id = o.id /\ s.user = o.user
                            /\ o.id = r.id => s = [o EXCEPT !.role = role]
                            /\ o.id # r.id => s = o
      BY <1>2
    <2> QED BY <1>1, <2>2
  <1>6. \A o \in rows : \E s \in WithRole(r, role) :
          /\ s.id = o.id
          /\ o.id = r.id => s.role = role
          /\ o.id # r.id => s = o
    <2>1. TAKE o \in rows
    <2>2. CASE o.id = r.id
      <3>1. [o EXCEPT !.role = role] \in WithRole(r, role)
        BY <1>4, <2>2
      <3> QED BY <1>1, <2>2, <3>1
    <2>3. CASE o.id # r.id
      BY <1>4, <2>3
    <2> QED BY <2>2, <2>3
  <1> QED BY <1>3, <1>5, <1>6

\* Fewer rows are well formed too.
LEMMA FewerRows ==
  ASSUME NEW S, NEW T, NEW n, WellFormed(S, n), T \subseteq S
  PROVE  WellFormed(T, n)
  BY DEF WellFormed

\* So is a group somebody has joined.
LEMMA OneMoreRow ==
  ASSUME WellFormed(rows, nextRow), nextRow \in Nat, NEW u \in User, Of(u) = {}
  PROVE  WellFormed(rows \cup {[id |-> nextRow, user |-> u, role |-> "MEMBER"]},
                    nextRow + 1)
  <1>1. \A r \in rows : r.user # u /\ r.id \in Nat /\ r.id < nextRow
    BY DEF Of, WellFormed, Participant
  <1>2. [id |-> nextRow, user |-> u, role |-> "MEMBER"] \in Participant
    BY DEF Participant, Role
  <1> QED BY <1>1, <1>2 DEF WellFormed

-----------------------------------------------------------------------------
(* Requests.                                                               *)

\* What a request has read still names the rows it read, by their identifiers.
ReadRight(q) ==
  /\ q.kind = "leave" => q.read = {"requester", "target"}
  /\ q.kind = "leave" => \A r \in q.target : r.user # q.by
  /\ q.kind # "leave" => \A r, s \in q.target : r = s
  /\ \A r \in q.requester : r.user = q.by
  /\ q.kind \in {"role", "remove"} /\ q.read = {"requester", "target"} =>
       \A r \in q.target : r.role # "OWNER"
  /\ \A r \in q.requester \cup q.target :
       /\ r.id < nextRow
       /\ \A s \in rows : s.id = r.id => s.user = r.user

AllReadRight == \A q \in decisions : ReadRight(q)

\* A row that is, or may still pass for, the owner's: somebody has read it as
\* such in order to leave.
Holds(r) ==
  \/ r.role = "OWNER"
  \/ \E q \in decisions : q.kind = "leave" /\
       \E own \in q.requester : own.id = r.id /\ own.role = "OWNER"

OneHolder == \A r, s \in rows : Holds(r) /\ Holds(s) => r = s

RolesInv == AllReadRight /\ OneHolder

-----------------------------------------------------------------------------
(* The type invariant.                                                     *)

LEMMA RowsWellFormed == RolesTypeOK => WellFormed(rows, nextRow)
  BY DEF RolesTypeOK, WellFormed

LEMMA FreshRequest ==
  ASSUME RolesTypeOK, NEW q,
         q \in Requests \/ \E u \in accounts : q = RoleRequest("leave", u, u, "MEMBER")
  PROVE  /\ q \in Decision /\ q.read = {} /\ q.requester = {} /\ q.target = {}
         /\ q.by \in accounts /\ q.by \in User
  <1>1. ASSUME NEW kind \in {"add", "role", "remove", "leave"}, NEW u \in accounts,
               NEW v \in User, NEW role \in Role \ {"OWNER"}, q = RoleRequest(kind, u, v, role)
        PROVE  /\ q \in Decision /\ q.read = {} /\ q.requester = {} /\ q.target = {}
               /\ q.by \in accounts /\ q.by \in User
    BY <1>1 DEF RoleRequest, Decision, RolesTypeOK
  <1>2. accounts \subseteq User /\ "MEMBER" \in Role /\ "ADMIN" \in Role
    BY DEF RolesTypeOK, Role
  <1>3. CASE q \in {RoleRequest(kind, p[1], p[2], "MEMBER") :
                      kind \in {"add", "remove"}, p \in {x \in accounts \X User : x[1] # x[2]}}
    BY <1>1, <1>2, <1>3
  <1>4. CASE q \in {RoleRequest("role", u, v, role) :
                      u \in accounts, v \in User, role \in {"ADMIN", "MEMBER"}}
    BY <1>1, <1>2, <1>4
  <1>5. CASE \E u \in accounts : q = RoleRequest("leave", u, u, "MEMBER")
    BY <1>1, <1>2, <1>5
  <1> QED BY <1>3, <1>4, <1>5 DEF Requests

\* What a request becomes by a read.
Step(q, p) ==
  \/ /\ "requester" \notin q.read /\ q.kind # "leave"
     /\ p = [q EXCEPT !.read = @ \cup {"requester"}, !.requester = Of(q.by)]
  \/ /\ "target" \notin q.read /\ q.kind # "leave"
     /\ p = [q EXCEPT !.read = @ \cup {"target"}, !.target = Of(q.about)]
  \/ /\ q.kind = "leave"
     /\ p = [q EXCEPT !.read = {"requester", "target"}, !.requester = Of(q.by),
                      !.target = rows \ Of(q.by)]

Known(q) == q \in decisions \/ (q.read = {} /\ q.requester = {} /\ q.target = {})

Reads ==
  \/ \E q \in Requests \cup decisions : ReadRequester(q) \/ ReadTarget(q)
  \/ \E u \in accounts : ReadAll(u)

\* Every read is one of these.
LEMMA ReadsAreSteps ==
  ASSUME RolesTypeOK, AllReadRight, Reads
  PROVE  \E q \in Decision : \E p : Known(q) /\ Step(q, p) /\ Continue(q, p)
  <1>1. ASSUME NEW q \in Requests \cup decisions, ReadRequester(q) \/ ReadTarget(q)
        PROVE  \E d \in Decision : \E p : Known(d) /\ Step(d, p) /\ Continue(d, p)
    <2>1. q \in Decision /\ Known(q)
      BY <1>1, FreshRequest DEF Known, RolesTypeOK
    <2>4. q.kind # "leave"
      <3>1. CASE q \in decisions
        BY <1>1, <3>1 DEF AllReadRight, ReadRight, ReadTarget, ReadRequester
      <3>2. CASE q \in Requests
        BY <3>2 DEF Requests, RoleRequest
      <3> QED BY <3>1, <3>2
    <2>2. CASE ReadRequester(q)
      BY <2>1, <2>2, <2>4 DEF ReadRequester, Step
    <2>3. CASE ReadTarget(q)
      BY <2>1, <2>3, <2>4 DEF ReadTarget, Step
    <2> QED BY <1>1, <2>2, <2>3
  <1>2. ASSUME NEW u \in accounts, ReadAll(u)
        PROVE  \E d \in Decision : \E p : Known(d) /\ Step(d, p) /\ Continue(d, p)
    <2> DEFINE q == RoleRequest("leave", u, u, "MEMBER")
    <2>1. q \in Decision /\ Known(q)
      BY FreshRequest DEF Known
    <2>2. q.kind = "leave" /\ q.by = u
      BY DEF RoleRequest
    <2>3. Continue(q, [q EXCEPT !.read = {"requester", "target"}, !.requester = Of(u),
                                !.target = rows \ Of(u)])
      BY <1>2 DEF ReadAll
    <2> HIDE DEF q
    <2> QED BY <2>1, <2>2, <2>3 DEF Step
  <1> QED BY <1>1, <1>2 DEF Reads

\* A read leaves a well-formed request that is right about the rows.
LEMMA StepIsRight ==
  ASSUME RolesTypeOK, AllReadRight, NEW q \in Decision, NEW p, Known(q), Step(q, p),
         Continue(q, p), p \in decisions', p \notin decisions \ {q}
  PROVE  p \in Decision /\ ReadRight(p)
  <1>1. Of(q.by) \subseteq rows /\ Of(q.about) \subseteq rows /\ rows \subseteq Participant
    BY DEF Of, RolesTypeOK
  <1>2. /\ q.read \in SUBSET {"requester", "target"} /\ Of(q.by) \in SUBSET Participant
        /\ Of(q.about) \in SUBSET Participant /\ rows \ Of(q.by) \in SUBSET Participant
    BY <1>1 DEF Decision
  <1>3. /\ p \in Decision /\ p.kind = q.kind /\ p.by = q.by
        /\ p.requester = q.requester \/ p.requester = Of(q.by)
        /\ \/ p.target = q.target /\ q.kind # "leave"
           \/ p.target = Of(q.about) /\ q.kind # "leave"
           \/ /\ p.target = rows \ Of(q.by) /\ q.kind = "leave"
              /\ p.read = {"requester", "target"}
    <2>1. CASE /\ q.kind # "leave"
               /\ p = [q EXCEPT !.read = @ \cup {"requester"}, !.requester = Of(q.by)]
      BY <1>2, <2>1 DEF Decision
    <2>2. CASE /\ q.kind # "leave"
               /\ p = [q EXCEPT !.read = @ \cup {"target"}, !.target = Of(q.about)]
      BY <1>2, <2>2 DEF Decision
    <2>3. CASE /\ q.kind = "leave"
               /\ p = [q EXCEPT !.read = {"requester", "target"},
                               !.requester = Of(q.by), !.target = rows \ Of(q.by)]
      BY <1>2, <2>3 DEF Decision
    <2> QED BY <2>1, <2>2, <2>3 DEF Step
  <1>4. p.kind \in {"role", "remove"} /\ p.read = {"requester", "target"} =>
          \E r \in p.target : r.role # "OWNER"
    BY DEF Continue, Applicable
  <1>5. \A r, s \in rows : (r.id = s.id \/ r.user = s.user => r = s) /\ r.id < nextRow
    BY DEF RolesTypeOK
  <1>6. /\ \A r \in q.requester : r.user = q.by
        /\ q.kind # "leave" => \A r, s \in q.target : r = s
        /\ \A r \in q.requester \cup q.target :
             r.id < nextRow /\ \A s \in rows : s.id = r.id => s.user = r.user
    BY DEF AllReadRight, ReadRight, Known
  <1>7. /\ \A r \in Of(q.by) : r.user = q.by
        /\ \A r \in rows \ Of(q.by) : r.user # q.by
        /\ \A r, s \in Of(q.about) : r = s
    BY <1>1, <1>5 DEF Of
  <1>8. /\ \A r \in p.requester : r.user = p.by
        /\ p.kind = "leave" => \A r \in p.target : r.user # p.by
        /\ p.kind # "leave" => \A r, s \in p.target : r = s
    BY <1>3, <1>6, <1>7
  <1>9. \A r \in p.requester \cup p.target :
          r.id < nextRow /\ \A s \in rows : s.id = r.id => s.user = r.user
    BY <1>1, <1>3, <1>5, <1>6
  <1>10. p.kind \in {"role", "remove"} /\ p.read = {"requester", "target"} =>
           \A r \in p.target : r.role # "OWNER"
    BY <1>4, <1>8
  <1> QED BY <1>3, <1>8, <1>9, <1>10 DEF ReadRight

-----------------------------------------------------------------------------
(* What a step does to the rows.                                           *)

\* Rows stay well formed, and an identifier names the same user for ever.
RowsKeep ==
  /\ WellFormed(rows', nextRow') /\ nextRow' \in Nat /\ nextRow <= nextRow'
  /\ \A s \in rows' :
       s.id >= nextRow \/ \E o \in rows : o.id = s.id /\ o.user = s.user

LEMMA WithRoleKeeps ==
  ASSUME WellFormed(rows, nextRow), nextRow \in Nat, UNCHANGED nextRow,
         NEW r, NEW role \in Role, rows' \subseteq WithRole(r, role)
  PROVE  RowsKeep
  <1>1. WellFormed(rows', nextRow)
    BY WithRoleRows, FewerRows
  <1>2. \A s \in rows' : \E o \in rows : o.id = s.id /\ o.user = s.user
    BY WithRoleRows
  <1> QED BY <1>1, <1>2 DEF RowsKeep

LEMMA FewerKeep ==
  ASSUME WellFormed(rows, nextRow), nextRow \in Nat, UNCHANGED nextRow,
         rows' \subseteq rows
  PROVE  RowsKeep
  <1>1. WellFormed(rows', nextRow)
    BY FewerRows
  <1> QED BY <1>1 DEF RowsKeep

LEMMA WritesKeepRows ==
  ASSUME RolesTypeOK, NEW q \in decisions,
         AddMember(q) \/ ChangeRole(q) \/ RemoveMember(q) \/ Leave(q)
  PROVE  RowsKeep
  <1>1. WellFormed(rows, nextRow) /\ nextRow \in Nat /\ q \in Decision
    BY RowsWellFormed DEF RolesTypeOK
  <1>2. q.about \in User /\ q.to \in Role /\ "OWNER" \in Role
    BY <1>1 DEF Decision, Role
  <1>3. CASE AddMember(q)
    <2>1. CASE rows' = rows /\ nextRow' = nextRow
      BY <1>1, <2>1, FewerKeep
    <2>2. CASE /\ Of(q.about) = {} /\ nextRow' = nextRow + 1
               /\ rows' = rows \cup {[id |-> nextRow, user |-> q.about, role |-> "MEMBER"]}
      <3>1. WellFormed(rows', nextRow')
        BY <1>1, <1>2, <2>2, OneMoreRow
      <3> QED BY <1>1, <2>2, <3>1 DEF RowsKeep
    <2> QED BY <1>3, <2>1, <2>2 DEF AddMember
  <1>4. CASE ChangeRole(q)
    BY <1>1, <1>2, <1>4, WithRoleKeeps DEF ChangeRole
  <1>5. CASE RemoveMember(q)
    BY <1>1, <1>5, FewerKeep DEF RemoveMember, RowsWithout
  <1>6. CASE Leave(q)
    <2>1. CASE rows' \subseteq rows
      BY <1>1, <1>6, <2>1, FewerKeep DEF Leave
    <2>2. CASE \E own, heir : rows' = RowsWithout(own, WithRole(heir, "OWNER"))
      BY <1>1, <1>2, <1>6, <2>2, WithRoleKeeps DEF Leave, RowsWithout
    <2>3. rows' \subseteq rows \/ \E own, heir : rows' = RowsWithout(own, WithRole(heir, "OWNER"))
      BY <1>6 DEF Leave, RowsWithout
    <2> QED BY <2>1, <2>2, <2>3
  <1> QED BY <1>3, <1>4, <1>5, <1>6

LEMMA DeletionKeepsRows ==
  ASSUME RolesTypeOK, NEW u \in User, DeleteAccount(u)
  PROVE  RowsKeep
  <1>1. WellFormed(rows, nextRow) /\ nextRow \in Nat /\ "OWNER" \in Role
    BY RowsWellFormed DEF RolesTypeOK, Role
  <1>2. UNCHANGED nextRow
    BY DEF DeleteAccount
  <1>3. CASE rows' = rows \ Of(u)
    BY <1>1, <1>2, <1>3, FewerKeep
  <1>4. CASE \E own, heir : rows' = RowsWithout(own, WithRole(heir, "OWNER"))
    BY <1>1, <1>2, <1>4, WithRoleKeeps DEF RowsWithout
  <1> QED BY <1>3, <1>4 DEF DeleteAccount

-----------------------------------------------------------------------------
(* Preservation.                                                           *)

LEMMA RolesTypeStep ==
  ASSUME RolesTypeOK, AllReadRight, [RolesNext]_rolesVars
  PROVE  RolesTypeOK'
  <1>1. CASE UNCHANGED rolesVars
    BY <1>1 DEF rolesVars, RolesTypeOK
  <1>2. CASE Reads
    <2>0. PICK q \in Decision : \E p : Known(q) /\ Step(q, p) /\ Continue(q, p)
      BY <1>2, ReadsAreSteps
    <2>1. PICK p : Known(q) /\ Step(q, p) /\ Continue(q, p)
      BY <2>0
    <2>2. decisions' \subseteq (decisions \ {q}) \cup {p}
      BY <2>1 DEF Continue
    <2>3. decisions' \subseteq Decision
      BY <2>1, <2>2, StepIsRight DEF RolesTypeOK
    <2> QED BY <2>1, <2>3 DEF Continue, RolesTypeOK
  <1>3. ASSUME NEW q \in decisions,
               AddMember(q) \/ ChangeRole(q) \/ RemoveMember(q) \/ Leave(q)
        PROVE  RolesTypeOK'
    <2>1. decisions' = decisions \ {q} /\ UNCHANGED accounts
      BY <1>3 DEF AddMember, ChangeRole, RemoveMember, Leave, Concluded
    <2> QED BY <1>3, <2>1, WritesKeepRows DEF RowsKeep, WellFormed, RolesTypeOK
  <1>4. ASSUME NEW u \in User, DeleteAccount(u)
        PROVE  RolesTypeOK'
    BY <1>4, DeletionKeepsRows DEF DeleteAccount, RowsKeep, WellFormed, RolesTypeOK
  <1> QED BY <1>1, <1>2, <1>3, <1>4 DEF RolesNext, Reads

LEMMA ReadRightStep ==
  ASSUME RolesTypeOK, RolesTypeOK', AllReadRight, [RolesNext]_rolesVars
  PROVE  AllReadRight'
  <1>1. ASSUME RowsKeep, decisions' \subseteq decisions
        PROVE  AllReadRight'
    <2>1. ASSUME NEW q \in decisions'
          PROVE  ReadRight(q)'
      <3>1. q \in Decision /\ ReadRight(q)
        BY <1>1, <2>1 DEF RolesTypeOK, AllReadRight
      <3>2. \A r \in q.requester \cup q.target : r.id \in Nat
        BY <3>1 DEF Decision, Participant
      <3>3. \A r \in q.requester \cup q.target :
              r.id < nextRow' /\ \A s \in rows' : s.id = r.id => s.user = r.user
        <4>1. TAKE r \in q.requester \cup q.target
        <4>2. r.id \in Nat /\ r.id < nextRow /\ nextRow \in Nat /\ nextRow' \in Nat
          BY <3>1, <3>2 DEF ReadRight, RolesTypeOK
        <4>3. ASSUME NEW s \in rows', s.id = r.id PROVE s.user = r.user
          <5>1. ~(s.id >= nextRow)
            BY <4>2, <4>3
          <5>2. PICK o \in rows : o.id = s.id /\ o.user = s.user
            BY <1>1, <5>1 DEF RowsKeep
          <5> QED BY <3>1, <4>3, <5>2 DEF ReadRight
        <4> QED BY <1>1, <4>2, <4>3 DEF RowsKeep
      <3> QED BY <3>1, <3>3 DEF ReadRight
    <2> QED BY <2>1 DEF AllReadRight
  <1>2. CASE UNCHANGED rolesVars
    BY <1>2 DEF rolesVars, AllReadRight, ReadRight
  <1>3. CASE Reads
    <2>0. PICK q \in Decision : \E p : Known(q) /\ Step(q, p) /\ Continue(q, p)
      BY <1>3, ReadsAreSteps
    <2>1. PICK p : Known(q) /\ Step(q, p) /\ Continue(q, p)
      BY <2>0
    <2>2. decisions' \subseteq (decisions \ {q}) \cup {p} /\ UNCHANGED <<rows, nextRow>>
      BY <2>1 DEF Continue
    <2>3. \A d \in decisions' : ReadRight(d)
      BY <2>1, <2>2, StepIsRight DEF AllReadRight
    <2> QED BY <2>2, <2>3 DEF AllReadRight, ReadRight
  <1>4. ASSUME NEW q \in decisions,
               AddMember(q) \/ ChangeRole(q) \/ RemoveMember(q) \/ Leave(q)
        PROVE  AllReadRight'
    <2>1. decisions' = decisions \ {q}
      BY <1>4 DEF AddMember, ChangeRole, RemoveMember, Leave, Concluded
    <2> QED BY <1>1, <1>4, <2>1, WritesKeepRows
  <1>5. ASSUME NEW u \in User, DeleteAccount(u)
        PROVE  AllReadRight'
    BY <1>1, <1>5, DeletionKeepsRows DEF DeleteAccount
  <1> QED BY <1>2, <1>3, <1>4, <1>5 DEF RolesNext, Reads

LEMMA OneHolderStep ==
  ASSUME RolesTypeOK, RolesTypeOK', RolesInv, [RolesNext]_rolesVars
  PROVE  OneHolder'
  <1>0. /\ WellFormed(rows, nextRow) /\ "OWNER" \in Role /\ AllReadRight /\ OneHolder
        /\ \A r, s \in rows : r.id = s.id => r = s
        /\ \A r, s \in rows' : r.id = s.id => r = s
    BY RowsWellFormed DEF RolesInv, RolesTypeOK, Role
  \* It is enough that whatever holds the group afterwards did before.
  <1>1. ASSUME \A s \in rows' : Holds(s)' => \E r \in rows : r.id = s.id /\ Holds(r)
        PROVE  OneHolder'
    BY <1>0, <1>1 DEF OneHolder
  <1>2. CASE UNCHANGED rolesVars
    BY <1>0, <1>2 DEF rolesVars, OneHolder, Holds
  <1>3. CASE Reads
    <2>0. PICK q \in Decision : \E p : Known(q) /\ Step(q, p) /\ Continue(q, p)
      BY <1>0, <1>3, ReadsAreSteps
    <2>1. PICK p : Known(q) /\ Step(q, p) /\ Continue(q, p)
      BY <2>0
    <2>2. /\ decisions' \subseteq (decisions \ {q}) \cup {p}
          /\ UNCHANGED <<rows, nextRow>>
      BY <2>1 DEF Continue
    <2>3. p.kind = "leave" => p.requester \subseteq rows
      BY <2>1 DEF Step, Decision, Of
    <2>4. \A s \in rows' : Holds(s)' => Holds(s)
      BY <1>0, <2>2, <2>3 DEF Holds
    <2> QED BY <1>1, <2>2, <2>4
  \* A row that keeps its role, or gets another than the owner's.
  <1>4. ASSUME decisions' \subseteq decisions,
               \A s \in rows' :
                 \/ \E o \in rows : o.id = s.id /\ (s.role = "OWNER" => s = o)
                 \/ s.role = "MEMBER" /\ s.id = nextRow
        PROVE  OneHolder'
    <2>1. \A q \in decisions : \A own \in q.requester : own.id \in Nat /\ own.id < nextRow
      BY <1>0 DEF AllReadRight, ReadRight, RolesTypeOK, Decision, Participant
    <2>2. nextRow \in Nat
      BY DEF RolesTypeOK
    <2>3. ASSUME NEW s \in rows', Holds(s)'
          PROVE  \E r \in rows : r.id = s.id /\ Holds(r)
      <3>1. CASE s.role = "OWNER"
        BY <1>4, <3>1 DEF Holds
      <3>2. CASE s.role # "OWNER"
        <4>1. PICK q \in decisions : q.kind = "leave" /\
                \E own \in q.requester : own.id = s.id /\ own.role = "OWNER"
          BY <1>4, <2>3, <3>2 DEF Holds
        <4>2. s.id # nextRow
          BY <2>1, <2>2, <4>1
        <4>3. PICK o \in rows : o.id = s.id
          BY <1>4, <4>2
        <4> QED BY <4>1, <4>3 DEF Holds
      <3> QED BY <3>1, <3>2
    <2> QED BY <1>1, <2>3
  \* A row of a holder goes, and another takes the group over.
  <1>5. ASSUME NEW own, NEW heir, NEW o \in rows, Holds(o), o.id = own.id,
               decisions' \subseteq decisions,
               rows' = RowsWithout(own, WithRole(heir, "OWNER"))
        PROVE  OneHolder'
    <2>1. ASSUME NEW s \in rows', Holds(s)'
          PROVE  s.id = heir.id
      <3>1. s \in WithRole(heir, "OWNER") /\ s.id # own.id
        BY <1>5 DEF RowsWithout
      <3>2. PICK r \in rows : r.id = s.id /\ (r.id # heir.id => s = r)
        BY <1>0, <3>1, WithRoleRows
      <3>3. CASE r.id # heir.id
        <4>1. Holds(r)
          BY <1>5, <2>1, <3>2, <3>3 DEF Holds
        <4>2. r = o
          BY <1>0, <1>5, <4>1 DEF OneHolder
        <4> QED BY <1>5, <3>1, <3>2, <4>2
      <3> QED BY <3>2, <3>3
    <2> QED BY <1>0, <2>1 DEF OneHolder
  <1>6. ASSUME NEW q \in decisions,
               AddMember(q) \/ ChangeRole(q) \/ RemoveMember(q) \/ Leave(q)
        PROVE  OneHolder'
    <2>1. decisions' = decisions \ {q}
      BY <1>6 DEF AddMember, ChangeRole, RemoveMember, Leave, Concluded
    <2>2. CASE AddMember(q)
      BY <1>4, <2>1, <2>2 DEF AddMember
    <2>3. CASE ChangeRole(q)
      <3>1. q.to \in Role /\ q.to # "OWNER"
        BY DEF RolesTypeOK, Decision
      <3>2. PICK r \in q.target : rows' = WithRole(r, q.to)
        BY <2>3 DEF ChangeRole
      <3>3. \A s \in rows' : \E o \in rows : o.id = s.id /\ (s.role = "OWNER" => s = o)
        BY <1>0, <3>1, <3>2, WithRoleRows
      <3> QED BY <1>4, <2>1, <3>3
    <2>4. CASE RemoveMember(q)
      BY <1>4, <2>1, <2>4 DEF RemoveMember, RowsWithout
    <2>5. CASE Leave(q)
      <3>1. CASE rows' \subseteq rows
        BY <1>4, <2>1, <3>1
      <3>2. CASE ~(rows' \subseteq rows)
        <4>1. PICK own \in q.requester, heir \in Successor(q.target) :
                /\ own.role = "OWNER" /\ Exists(own)
                /\ rows' = RowsWithout(own, WithRole(heir, "OWNER"))
          BY <2>5, <3>2 DEF Leave, RowsWithout
        <4>2. PICK o \in rows : o.id = own.id
          BY <4>1 DEF Exists
        <4>3. Holds(o)
          BY <2>5, <4>1, <4>2 DEF Holds, Leave, Decided
        <4> QED BY <1>5, <2>1, <4>1, <4>2, <4>3
      <3> QED BY <3>1, <3>2
    <2> QED BY <1>6, <2>2, <2>3, <2>4, <2>5
  <1>7. ASSUME NEW u \in User, DeleteAccount(u)
        PROVE  OneHolder'
    <2>1. UNCHANGED decisions
      BY <1>7 DEF DeleteAccount
    <2>2. CASE rows' = rows \ Of(u)
      BY <1>4, <2>1, <2>2
    <2>3. CASE rows' # rows \ Of(u)
      <3>1. \E r \in Of(u) : r.role = "OWNER" /\ rows # {r}
        BY <1>7, <2>3 DEF DeleteAccount
      <3>2. PICK own \in Of(u), heir \in Successor(rows \ Of(u)) :
              rows' = RowsWithout(own, WithRole(heir, "OWNER"))
        BY <1>7, <3>1 DEF DeleteAccount
      <3>3. own \in rows /\ own.role = "OWNER"
        BY <1>0, <3>1 DEF Of, RolesTypeOK
      <3> QED BY <1>5, <2>1, <3>2, <3>3 DEF Holds
    <2> QED BY <2>2, <2>3
  <1> QED BY <1>2, <1>3, <1>6, <1>7 DEF RolesNext, Reads

-----------------------------------------------------------------------------
(* Losing the owner.                                                       *)

\* Promoting another row and removing the owner's leaves an owner.
LEMMA HeirOwns ==
  ASSUME WellFormed(rows, nextRow), NEW own, NEW heir, own.id # heir.id,
         \E o \in rows : o.id = heir.id,
         rows' = RowsWithout(own, WithRole(heir, "OWNER"))
  PROVE  \E s \in rows' : s.role = "OWNER"
  <1>1. PICK s \in WithRole(heir, "OWNER") : s.id = heir.id /\ s.role = "OWNER"
    BY WithRoleRows DEF Role
  <1> QED BY <1>1 DEF RowsWithout

LEMMA OwnerLostStep ==
  ASSUME RolesTypeOK, RolesInv, [RolesNext]_rolesVars,
         NEW w \in rows, w.role = "OWNER", rows' # {}, \A r \in rows' : r.role # "OWNER"
  PROVE  \E q \in decisions \ decisions' : Stale(q)
  <1>1. /\ WellFormed(rows, nextRow) /\ AllReadRight
        /\ \A r, s \in rows : r.id = s.id \/ r.user = s.user => r = s
        /\ w \notin rows'
    BY RowsWellFormed DEF RolesInv, RolesTypeOK
  <1>2. ~UNCHANGED rows
    BY <1>1
  <1>3. ~(UNCHANGED rolesVars \/ Reads)
    <2>1. ~UNCHANGED rolesVars
      BY <1>2 DEF rolesVars
    <2>2. ~Reads
      BY <1>2 DEF Reads, ReadRequester, ReadTarget, ReadAll, Continue
    <2> QED BY <2>1, <2>2
  <1>4. ASSUME NEW q \in decisions,
               AddMember(q) \/ ChangeRole(q) \/ RemoveMember(q) \/ Leave(q)
        PROVE  \E d \in decisions \ decisions' : Stale(d)
    <2>1. decisions' = decisions \ {q}
      BY <1>4 DEF AddMember, ChangeRole, RemoveMember, Leave, Concluded
    <2>2. ReadRight(q)
      BY <1>1 DEF AllReadRight
    <2>3. SUFFICES \E r \in q.requester \cup q.target : r.id = w.id /\ r.role # "OWNER"
      BY <2>1 DEF Stale
    <2>4. ~AddMember(q)
      BY <1>1 DEF AddMember
    <2>5. CASE ChangeRole(q)
      <3>1. PICK r \in q.target : rows' = WithRole(r, q.to)
        BY <2>5 DEF ChangeRole
      <3>2. q.to \in Role
        BY DEF RolesTypeOK, Decision
      <3>3. r.id = w.id
        BY <1>1, <3>1, <3>2, WithRoleRows
      <3> QED BY <2>2, <2>5, <3>1, <3>3 DEF ReadRight, ChangeRole, Decided
    <2>6. CASE RemoveMember(q)
      <3>1. PICK r \in q.target : rows' = RowsWithout(r, rows)
        BY <2>6 DEF RemoveMember
      <3>2. r.id = w.id
        BY <1>1, <3>1 DEF RowsWithout
      <3> QED BY <2>2, <2>6, <3>1, <3>2 DEF ReadRight, RemoveMember, Decided
    <2>7. CASE Leave(q)
      <3>1. q.target # {}
        BY <2>7 DEF Leave
      <3>2. PICK own \in q.requester :
              IF own.role = "OWNER"
              THEN \E heir \in Successor(q.target) :
                     rows' = IF Exists(heir) /\ Exists(own)
                             THEN RowsWithout(own, WithRole(heir, "OWNER")) ELSE rows
              ELSE rows' = RowsWithout(own, rows)
        BY <2>7, <3>1 DEF Leave
      <3>3. own.role # "OWNER"
        <4>1. SUFFICES ASSUME own.role = "OWNER" PROVE FALSE
          OBVIOUS
        <4>2. PICK heir \in Successor(q.target) :
                /\ Exists(heir) /\ Exists(own)
                /\ rows' = RowsWithout(own, WithRole(heir, "OWNER"))
          BY <1>2, <3>2, <4>1
        <4>3. heir \in q.target
          BY DEF Successor
        <4>4. PICK o \in rows : o.id = heir.id
          BY <4>2 DEF Exists
        <4>5. o.user = heir.user /\ heir.user # q.by /\ own.user = q.by
          BY <2>2, <2>7, <4>3, <4>4 DEF ReadRight, Leave, Decided
        <4>6. own.id # heir.id
          BY <2>2, <4>4, <4>5 DEF ReadRight
        <4> QED BY <1>1, <4>2, <4>4, <4>6, HeirOwns
      <3>4. rows' = RowsWithout(own, rows)
        BY <3>2, <3>3
      <3>5. own.id = w.id
        BY <1>1, <3>4 DEF RowsWithout
      <3> QED BY <3>3, <3>5
    <2> QED BY <1>4, <2>4, <2>5, <2>6, <2>7
  <1>5. ASSUME NEW u \in User, DeleteAccount(u)
        PROVE  FALSE
    <2>1. CASE \E own \in Of(u) : own.role = "OWNER" /\ rows # {own}
      <3>1. PICK own \in Of(u), heir \in Successor(rows \ Of(u)) :
              rows' = RowsWithout(own, WithRole(heir, "OWNER"))
        BY <1>5, <2>1 DEF DeleteAccount
      <3>2. heir \in rows /\ heir.user # u /\ own \in rows /\ own.user = u
        BY DEF Successor, Of
      <3>3. own.id # heir.id
        BY <1>1, <3>2
      <3> QED BY <1>1, <3>1, <3>2, <3>3, HeirOwns
    <2>2. CASE ~\E own \in Of(u) : own.role = "OWNER" /\ rows # {own}
      <3>1. rows' = rows \ Of(u)
        BY <1>5, <2>2 DEF DeleteAccount
      <3>2. w \in Of(u)
        BY <1>1, <3>1
      <3>3. rows = {w}
        BY <2>2, <3>2
      <3> QED BY <3>1, <3>2, <3>3
    <2> QED BY <2>1, <2>2
  <1> QED BY <1>3, <1>4, <1>5 DEF RolesNext, Reads

-----------------------------------------------------------------------------
(* The theorems.                                                           *)

LEMMA RolesStart == RolesInit => RolesTypeOK /\ RolesInv
  <1> SUFFICES ASSUME RolesInit PROVE RolesTypeOK /\ RolesInv
    OBVIOUS
  <1>1. /\ Len(Founders) \in Nat /\ DOMAIN Founders = 1..Len(Founders)
        /\ \A i \in DOMAIN Founders : Founders[i] \in User
    BY RolesAssumption
  <1> DEFINE Row(i) == [id |-> i, user |-> Founders[i],
                        role |-> IF i = 1 THEN "OWNER" ELSE "MEMBER"]
  <1>2. rows = {Row(i) : i \in DOMAIN Founders} /\ nextRow = Len(Founders) + 1
    BY DEF RolesInit
  <1>3. \A i \in DOMAIN Founders :
          /\ Row(i) \in Participant /\ Row(i).id = i /\ Row(i).user = Founders[i]
          /\ Row(i).role = "OWNER" => i = 1
    BY <1>1 DEF Participant, Role
  <1> HIDE DEF Row
  <1>4. \A r \in rows : r \in Participant /\ r.id < nextRow
    BY <1>1, <1>2, <1>3
  <1>5. \A r, s \in rows : r.id = s.id \/ r.user = s.user => r = s
    BY <1>2, <1>3, RolesAssumption
  <1>6. \A r, s \in rows : r.role = "OWNER" /\ s.role = "OWNER" => r = s
    BY <1>2, <1>3
  <1>7. decisions = {} /\ accounts = User /\ nextRow \in Nat
    BY <1>1 DEF RolesInit
  <1> QED BY <1>4, <1>5, <1>6, <1>7
          DEF RolesTypeOK, RolesInv, AllReadRight, OneHolder, Holds

LEMMA RolesStep ==
  RolesTypeOK /\ RolesInv /\ [RolesNext]_rolesVars => (RolesTypeOK /\ RolesInv)'
  <1> SUFFICES ASSUME RolesTypeOK, RolesInv, [RolesNext]_rolesVars
               PROVE  RolesTypeOK' /\ RolesInv'
    OBVIOUS
  <1>1. RolesTypeOK'
    BY RolesTypeStep DEF RolesInv
  <1>2. AllReadRight'
    BY <1>1, ReadRightStep DEF RolesInv
  <1>3. OneHolder'
    BY <1>1, OneHolderStep
  <1> QED BY <1>1, <1>2, <1>3 DEF RolesInv

\* Participant rows and the requests in progress stay well formed, and no user
\* has two rows in a group.
THEOREM RolesType == RolesSpec => []RolesTypeOK
  BY RolesStart, RolesStep, PTL DEF RolesSpec

\* What a request has read still names the rows it read, and one row at most is
\* or may still pass for the owner's.
THEOREM RolesInvariant == RolesSpec => []RolesInv
  BY RolesStart, RolesStep, PTL DEF RolesSpec

\* A group never has two owners, however its handlers interleave.
THEOREM NeverTwoOwners == RolesSpec => []AtMostOneOwner
  <1>1. RolesInv => AtMostOneOwner
    BY DEF RolesInv, OneHolder, Holds, AtMostOneOwner, Owns
  <1> QED BY <1>1, RolesInvariant, PTL

\* A group with members loses its owner only to a request that decides by a
\* role read before the row became the owner's.
THEOREM OwnerStays == RolesSpec => OwnerLostOnlyToStaleReads
  <1> DEFINE Kept == (\E r \in rows : Owns(r)) /\ rows' # {} =>
                       \/ \E r \in rows' : r.role = "OWNER"
                       \/ \E q \in decisions \ decisions' : Stale(q)
  <1>1. RolesTypeOK /\ RolesInv /\ [RolesNext]_rolesVars => [Kept]_rolesVars
    BY OwnerLostStep DEF Owns
  <1>2. RolesSpec => [][Kept]_rolesVars
    BY <1>1, RolesType, RolesInvariant, PTL DEF RolesSpec
  <1> QED BY <1>2 DEF OwnerLostOnlyToStaleReads
==============================================================================
