------------------------------ MODULE GroupRoles ------------------------------
(***************************************************************************)
(* The roles in one group: routes/conversations.js and DELETE /account in  *)
(* auth.js.                                                                *)
(*                                                                         *)
(* A handler reads the roles it decides by in statements of its own and    *)
(* commits later, so that its decision may be stale.  Participant rows are *)
(* never reused: a write names the row it has read, and fails if that row  *)
(* is gone.                                                                *)
(*                                                                         *)
(* Abstracted: names, notifications, and the ciphertext dropped with a     *)
(* membership (SecureRelay).                                               *)
(***************************************************************************)
EXTENDS Naturals, Sequences, FiniteSets

CONSTANTS
  User,         \* users of the server
  Founders,     \* the first members, the creator before the others
  MaxRow,       \* bound: participant rows ever created
  MaxRequests,  \* bound: requests handled at a time
  MaxDeleted    \* bound: accounts deleted

ASSUME RolesAssumption ==
  /\ Founders \in Seq(User) /\ Founders # <<>>
  /\ \A i, j \in DOMAIN Founders : Founders[i] = Founders[j] => i = j
  /\ MaxRow \in Nat
  /\ MaxRequests \in Nat \ {0}
  /\ MaxDeleted \in Nat

VARIABLES
  accounts,  \* users that have not deleted their account
  rows,      \* ConversationParticipant rows; ids in the order of joining
  nextRow,   \* id of the next row
  decisions  \* requests being handled, with what they have read

rolesVars == <<accounts, rows, nextRow, decisions>>

Role == {"OWNER", "ADMIN", "MEMBER"}
GROUP_MANAGERS == {"OWNER", "ADMIN"}

Participant == [id : Nat, user : User, role : Role]

\* What a request has read: its own row and that of its target, in sets of at
\* most one element, or all others; "to" is the role it asks for.
Decision == [kind : {"add", "role", "remove", "leave"}, by : User, about : User,
             to : Role \ {"OWNER"}, read : SUBSET {"requester", "target"},
             requester : SUBSET Participant, target : SUBSET Participant]

\* Rows and requests are well formed, and a user has one row.
RolesTypeOK ==
  /\ accounts \subseteq User
  /\ rows \subseteq Participant
  /\ nextRow \in Nat
  /\ decisions \subseteq Decision
  /\ \A r \in rows : r.id < nextRow
  /\ \A r, s \in rows : r.id = s.id \/ r.user = s.user => r = s

\* POST /conversations: the creator owns the group, the others are members.
RolesInit ==
  /\ accounts = User
  /\ rows = {[id |-> i, user |-> Founders[i],
              role |-> IF i = 1 THEN "OWNER" ELSE "MEMBER"] : i \in DOMAIN Founders}
  /\ nextRow = Len(Founders) + 1
  /\ decisions = {}

Of(u) == {r \in rows : r.user = u}
Exists(r) == \E s \in rows : s.id = r.id
GroupExists == rows # {}

RowsWithout(r, set) == {s \in set : s.id # r.id}

\* Mutant of WithRole: a row that is gone comes back.
WithRoleAgain(r, role) == RowsWithout(r, rows) \cup {[r EXCEPT !.role = role]}

WithRole(r, role) == {IF s.id = r.id THEN [s EXCEPT !.role = role] ELSE s : s \in rows}

\* The first administrator to have joined, or else the first of all.
Successor(remaining) ==
  LET admins == {r \in remaining : r.role = "ADMIN"}
      pool == IF admins # {} THEN admins ELSE remaining IN
  {r \in pool : \A s \in pool : r.id <= s.id}

-----------------------------------------------------------------------------
RoleRequest(kind, u, v, role) ==
  [kind |-> kind, by |-> u, about |-> v, to |-> role, read |-> {},
   requester |-> {}, target |-> {}]

\* What a user may ask for, the role named only to change it.
Requests ==
  {RoleRequest(kind, p[1], p[2], "MEMBER") :
     kind \in {"add", "remove"}, p \in {x \in accounts \X User : x[1] # x[2]}}
  \cup {RoleRequest("role", u, v, role) : u \in accounts, v \in User,
                                     role \in {"ADMIN", "MEMBER"}}

Entitled(q) ==
  \E own \in q.requester :
    CASE q.kind = "leave" -> TRUE
      [] q.kind = "role" -> own.role = "OWNER"
      [] OTHER -> own.role \in GROUP_MANAGERS

Applicable(q) ==
  IF q.kind = "add" THEN q.target = {}
  ELSE \E r \in q.target : r.role # "OWNER"

\* An administrator removes members only.
Permitted(q) ==
  \A own \in q.requester, r \in q.target :
    q.kind = "remove" /\ own.role = "ADMIN" => r.role = "MEMBER"

\* The request goes on if what it has read allows it.
Continue(q, p) ==
  /\ decisions' = (decisions \ {q}) \cup
       (IF /\ "requester" \in p.read => Entitled(p)
           /\ p.read = {"requester", "target"} /\ p.kind # "leave" =>
                Applicable(p) /\ Permitted(p)
        THEN {p} ELSE {})
  /\ UNCHANGED <<accounts, rows, nextRow>>

ReadRequester(q) ==
  /\ "requester" \notin q.read
  /\ Continue(q, [q EXCEPT !.read = @ \cup {"requester"}, !.requester = Of(q.by)])

\* A removal reads the two rows in any order.
ReadTarget(q) ==
  /\ "target" \notin q.read
  /\ q.kind = "remove" \/ "requester" \in q.read
  /\ Continue(q, [q EXCEPT !.read = @ \cup {"target"}, !.target = Of(q.about)])

\* Whoever leaves reads all rows at once.
ReadAll(u) ==
  LET q == RoleRequest("leave", u, u, "MEMBER") IN
  Continue(q, [q EXCEPT
    !.read = {"requester", "target"}, !.requester = Of(u), !.target = rows \ Of(u)])

Decided(q, kind) == q.kind = kind /\ q.read = {"requester", "target"}

Concluded(q) == decisions' = decisions \ {q}

\* A row that appeared meanwhile makes the insertion fail.
AddMember(q) ==
  /\ Decided(q, "add") /\ nextRow <= MaxRow
  /\ IF Of(q.about) = {} /\ q.about \in accounts /\ GroupExists
     THEN /\ rows' = rows \cup {[id |-> nextRow, user |-> q.about, role |-> "MEMBER"]}
          /\ nextRow' = nextRow + 1
     ELSE UNCHANGED <<rows, nextRow>>
  /\ Concluded(q)
  /\ UNCHANGED accounts

ChangeRole(q) ==
  /\ Decided(q, "role")
  /\ \E r \in q.target : rows' = WithRole(r, q.to)
  /\ Concluded(q)
  /\ UNCHANGED <<accounts, nextRow>>

RemoveMember(q) ==
  /\ Decided(q, "remove")
  /\ \E r \in q.target : rows' = RowsWithout(r, rows)
  /\ Concluded(q)
  /\ UNCHANGED <<accounts, nextRow>>

\* Mutant of Leave: the row of whoever leaves need not exist any more.
LeaveAgain(q) ==
  /\ Decided(q, "leave")
  /\ Concluded(q)
  /\ UNCHANGED <<accounts, nextRow>>
  /\ IF q.target = {} THEN rows' = {}
     ELSE \E own \in q.requester :
            IF own.role = "OWNER"
            THEN \E heir \in Successor(q.target) :
                   rows' = RowsWithout(own, WithRole(heir, "OWNER"))
            ELSE rows' = RowsWithout(own, rows)

\* Alone, the group is deleted whoever has joined since.  Otherwise the
\* promotion and the removal are one transaction: both, or neither.
Leave(q) ==
  /\ Decided(q, "leave")
  /\ Concluded(q)
  /\ UNCHANGED <<accounts, nextRow>>
  /\ IF q.target = {} THEN rows' = {}
     ELSE \E own \in q.requester :
            IF own.role = "OWNER"
            THEN \E heir \in Successor(q.target) :
                   rows' = IF Exists(heir) /\ Exists(own)
                           THEN RowsWithout(own, WithRole(heir, "OWNER")) ELSE rows
            ELSE rows' = RowsWithout(own, rows)

\* Mutant of DeleteAccount: nobody succeeds an owner.
DeleteAccountOnly(u) ==
  /\ u \in accounts /\ Cardinality(User \ accounts) < MaxDeleted
  /\ accounts' = accounts \ {u}
  /\ rows' = rows \ Of(u)
  /\ UNCHANGED <<nextRow, decisions>>

\* DELETE /account reads and writes in one transaction.
DeleteAccount(u) ==
  /\ u \in accounts /\ Cardinality(User \ accounts) < MaxDeleted
  /\ accounts' = accounts \ {u}
  /\ IF \E own \in Of(u) : own.role = "OWNER" /\ rows # {own}
     THEN \E own \in Of(u), heir \in Successor(rows \ Of(u)) :
            rows' = RowsWithout(own, WithRole(heir, "OWNER"))
     ELSE rows' = rows \ Of(u)
  /\ UNCHANGED <<nextRow, decisions>>

RolesNext ==
  \/ /\ Cardinality(decisions) < MaxRequests
     /\ \/ \E q \in Requests : ReadRequester(q) \/ ReadTarget(q)
        \/ \E u \in accounts : ReadAll(u)
  \/ \E q \in decisions :
       \/ ReadRequester(q) \/ ReadTarget(q)
       \/ AddMember(q) \/ ChangeRole(q) \/ RemoveMember(q) \/ Leave(q)
  \/ \E u \in User : DeleteAccount(u)

RolesSpec == RolesInit /\ [][RolesNext]_rolesVars

-----------------------------------------------------------------------------
Owns(r) == r \in rows /\ r.role = "OWNER"

\* However departures, promotions and repeated requests interleave, a group
\* never has two owners.
AtMostOneOwner == \A r, s \in rows : Owns(r) /\ Owns(s) => r = s

\* A group that still has members loses its owner only to a request that had
\* read the owner's row before it became the owner's.
Stale(q) == \E r \in q.requester \cup q.target, s \in rows :
              s.id = r.id /\ s.role = "OWNER" /\ r.role # "OWNER"

OwnerLostOnlyToStaleReads ==
  [][(\E r \in rows : Owns(r)) /\ rows' # {} =>
       \/ \E r \in rows' : r.role = "OWNER"
       \/ \E q \in decisions \ decisions' : Stale(q)]_rolesVars
==============================================================================
