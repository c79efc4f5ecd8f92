------------------------------ MODULE Invitations ------------------------------
(***************************************************************************)
(* Membership by invitation: POST /invitations/create (invitations.js),    *)
(* /register and /join-network (privateAuth.js), and what is left of them  *)
(* when an account is deleted (auth.js).                                   *)
(*                                                                         *)
(* Issuing waits for the database between the membership check, the        *)
(* allowance and the insertion; an acceptance is one serializable          *)
(* transaction.  The allowances are kept in the memory of the server.      *)
(*                                                                         *)
(* Abstracted: codes (random, never drawn twice), the onboarding fields    *)
(* and the welcome chat, invitations of accounts not yet migrated.         *)
(***************************************************************************)
EXTENDS Naturals, FiniteSets

CONSTANTS
  Guest,           \* accounts that may be registered
  NoGuest,         \* nobody
  Code,            \* invitation codes
  PER_USER_INVITATION_LIMIT,  \* invitations of one user in a window
  DAILY_INVITATION_LIMIT,     \* invitations of all users in a window
  MaxIssuing,      \* bound: invitations being issued at a time
  MaxWindow        \* bound: windows and restarts of the server

ASSUME InvitationsAssumption ==
  /\ NoGuest \notin Guest
  /\ PER_USER_INVITATION_LIMIT \in Nat \ {0}
  /\ DAILY_INVITATION_LIMIT \in Nat \ {0}
  /\ MaxIssuing \in Nat /\ MaxWindow \in Nat \ {0}

VARIABLES
  standing,         \* [Guest -> registered or not, member or not, or deleted]
  uninvited,        \* history: members without an invitation
  invitations,      \* the PrivateInvitation rows
  privateIssuance,  \* the allowances in use: [Guest -> its window, and the count]
  issuing,          \* invitations being issued, their place in the allowance taken
  window            \* windows and lives of the server so far

invitationVars ==
  <<standing, uninvited, invitations, privateIssuance, issuing, window>>

Window == 1..MaxWindow
Place == [by : Guest, window : Window, n : Nat]
Invitation == [code : Code, place : Place, by : Guest \cup {NoGuest},
               status : {"PENDING", "ACCEPTED", "EXPIRED"}]

NoIssuance == [window |-> 0, count |-> 0]

\* Rows, allowances and requests are well formed.
InvitationsTypeOK ==
  /\ standing \in [Guest -> {"none", "guest", "member", "deleted"}]
  /\ uninvited \subseteq Guest
  /\ invitations \subseteq Invitation
  /\ privateIssuance \in [Guest -> {NoIssuance} \cup [window : Window, count : Nat]]
  /\ issuing \subseteq Place
  /\ window \in Window
  /\ \A i, j \in invitations : i.code = j.code => i = j
  /\ \A i \in invitations : i.status = "ACCEPTED" <=> i.by \in Guest

InvitationsInit ==
  /\ standing = [u \in Guest |-> "none"]
  /\ uninvited = {}
  /\ invitations = {}
  /\ privateIssuance = [u \in Guest |-> NoIssuance]
  /\ issuing = {}
  /\ window = 1

-----------------------------------------------------------------------------
(* Issuing.                                                                *)

\* Mutant of Reserve: the membership is not checked.
ReserveForAnybody(u) ==
  LET used == IF privateIssuance[u] = NoIssuance THEN [window |-> window, count |-> 0]
              ELSE privateIssuance[u]
      place == [by |-> u, window |-> used.window, n |-> used.count + 1] IN
  /\ standing[u] \in {"guest", "member"} /\ Cardinality(issuing) < MaxIssuing
  /\ used.count < PER_USER_INVITATION_LIMIT
  /\ privateIssuance' = [privateIssuance EXCEPT ![u] = [used EXCEPT !.count = @ + 1]]
  /\ issuing' = issuing \cup {place}
  /\ UNCHANGED <<standing, uninvited, invitations, window>>

\* Mutant of Reserve: one more than allowed.
ReserveOneMore(u) ==
  LET used == IF privateIssuance[u] = NoIssuance THEN [window |-> window, count |-> 0]
              ELSE privateIssuance[u]
      place == [by |-> u, window |-> used.window, n |-> used.count + 1] IN
  /\ standing[u] = "member" /\ Cardinality(issuing) < MaxIssuing
  /\ used.count <= PER_USER_INVITATION_LIMIT
  /\ privateIssuance' = [privateIssuance EXCEPT ![u] = [used EXCEPT !.count = @ + 1]]
  /\ issuing' = issuing \cup {place}
  /\ UNCHANGED <<standing, uninvited, invitations, window>>

\* requireMember, and "reserve synchronously": a member stays one, and the
\* account of a user deleted meanwhile is not found.
Reserve(u) ==
  LET used == IF privateIssuance[u] = NoIssuance THEN [window |-> window, count |-> 0]
              ELSE privateIssuance[u]
      place == [by |-> u, window |-> used.window, n |-> used.count + 1] IN
  /\ standing[u] = "member" /\ Cardinality(issuing) < MaxIssuing
  /\ used.count < PER_USER_INVITATION_LIMIT
  /\ privateIssuance' = [privateIssuance EXCEPT ![u] = [used EXCEPT !.count = @ + 1]]
  /\ issuing' = issuing \cup {place}
  /\ UNCHANGED <<standing, uninvited, invitations, window>>

\* The place in the allowance stays taken.  Of the rows, the recent ones count.
RefuseDaily(place) ==
  /\ Cardinality(invitations) >= DAILY_INVITATION_LIMIT
  /\ issuing' = issuing \ {place}
  /\ UNCHANGED <<standing, uninvited, invitations, privateIssuance, window>>

Insert(place, c) ==
  /\ \A i \in invitations : i.code # c
  /\ invitations' = invitations \cup
       {[code |-> c, place |-> place, by |-> NoGuest, status |-> "PENDING"]}
  /\ issuing' = issuing \ {place}
  /\ UNCHANGED <<standing, uninvited, privateIssuance, window>>

WindowPasses(u) ==
  /\ privateIssuance[u] # NoIssuance /\ window < MaxWindow
  /\ window' = window + 1
  /\ privateIssuance' = [privateIssuance EXCEPT ![u] = NoIssuance]
  /\ UNCHANGED <<standing, uninvited, invitations, issuing>>

\* The allowances are forgotten, and requests end.
RestartServer ==
  /\ window < MaxWindow
  /\ window' = window + 1
  /\ privateIssuance' = [u \in Guest |-> NoIssuance]
  /\ issuing' = {}
  /\ UNCHANGED <<standing, uninvited, invitations>>

ExpireInvitation(i) ==
  /\ i.status = "PENDING"
  /\ invitations' = (invitations \ {i}) \cup {[i EXCEPT !.status = "EXPIRED"]}
  /\ UNCHANGED <<standing, uninvited, privateIssuance, issuing, window>>

-----------------------------------------------------------------------------
(* Joining.                                                                *)

Redeem(i, u) ==
  /\ i.status = "PENDING"
  /\ invitations' = (invitations \ {i}) \cup {[i EXCEPT !.status = "ACCEPTED", !.by = u]}

Stands(u, s) == standing' = [standing EXCEPT ![u] = s]

Memory == UNCHANGED <<privateIssuance, issuing, window>>

RegisterInvited(u, i) ==
  /\ standing[u] = "none"
  /\ Redeem(i, u) /\ Stands(u, "member")
  /\ UNCHANGED uninvited /\ Memory

\* The first account of an empty server is a member.
RegisterAlone(u) ==
  /\ standing[u] = "none"
  /\ IF \A v \in Guest : standing[v] \in {"none", "deleted"}
     THEN Stands(u, "member") /\ uninvited' = uninvited \cup {u}
     ELSE Stands(u, "guest") /\ UNCHANGED uninvited
  /\ UNCHANGED invitations /\ Memory

JoinNetwork(u, i) ==
  /\ standing[u] = "guest" /\ i.place.by # u
  /\ Redeem(i, u) /\ Stands(u, "member")
  /\ UNCHANGED uninvited /\ Memory

\* Its invitations stay, without the name of the inviter.
DeleteGuest(u) ==
  /\ standing[u] \in {"guest", "member"}
  /\ Stands(u, "deleted")
  /\ UNCHANGED <<uninvited, invitations>> /\ Memory

InvitationsNext ==
  \/ \E u \in Guest : \/ Reserve(u) \/ WindowPasses(u) \/ RegisterAlone(u) \/ DeleteGuest(u)
                     \/ \E i \in invitations : RegisterInvited(u, i) \/ JoinNetwork(u, i)
  \/ \E p \in issuing : RefuseDaily(p) \/ \E c \in Code : Insert(p, c)
  \/ \E i \in invitations : ExpireInvitation(i)
  \/ RestartServer

InvitationsSpec == InvitationsInit /\ [][InvitationsNext]_invitationVars

-----------------------------------------------------------------------------
Accepted == {i \in invitations : i.status = "ACCEPTED"}
Invited == {i.by : i \in Accepted}

\* Whoever is a member has redeemed one invitation of somebody who was a member
\* before, except the first of an empty server: no invitation is redeemed twice,
\* nobody by two, and no members have invited each other in a circle.
InvitationsFormATree ==
  /\ \A u \in Guest : standing[u] = "member" => u \in uninvited \cup Invited
  /\ Invited \cap uninvited = {}
  /\ \A i, j \in Accepted : i.by = j.by => i = j
  /\ \A circle \in (SUBSET Invited) \ {{}} :
       \E i \in Accepted : i.by \in circle /\ i.place.by \notin circle

\* However many requests are handled at a time, nobody issues more invitations
\* than allowed in a window of a running server.
WithinAllowance ==
  \A u \in Guest, w \in Window :
    Cardinality({i \in invitations : i.place.by = u /\ i.place.window = w})
      <= PER_USER_INVITATION_LIMIT
==============================================================================
