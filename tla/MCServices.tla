------------------------------ MODULE MCServices ------------------------------
(***************************************************************************)
(* The components around messaging, one instance each.  They share no      *)
(* state, so that one is checked at a time: "part" is the one that runs,   *)
(* the others stay where they start.                                       *)
(***************************************************************************)
EXTENDS CallSignaling, OwnerVault, GroupRoles, Presence, AccountAccess,
        Invitations, MessageHistory, TLC

CONSTANTS ann, bob, a1, b1, b2, c1, c2, u1, u2, u3, acc,
          Parts  \* the components that are checked

VARIABLE part

Owner == (a1 :> ann) @@ (b1 :> bob) @@ (b2 :> bob)
Caller == (c1 :> a1) @@ (c2 :> b1)
\* Only the caller gets a second connection; the callee's phone recovers its own.
Sockets == (a1 :> 2) @@ (b1 :> 1) @@ (b2 :> 1)
Two == <<u1, u2>>
OneKey == acc :> 1

servicesVars == <<part, callVars, vaultVars, rolesVars, presenceVars, accessVars,
                  invitationVars, historyVars>>

Online == {d \in Phone : phone[d].online}

\* One call to two phones and no trouble, or to one phone and one trouble; or two
\* phones that call each other.
CallScenario ==
  \/ /\ placed = {c2} /\ attended = {a1, b1}
     /\ \/ Online = Phone /\ trouble = MaxTrouble
        \/ Online = {a1, b1} /\ trouble = 0
  \/ placed = {} /\ attended = {} /\ Online = {a1, b1} /\ trouble = MaxTrouble

\* A component that does not run has one initial state.
Idle(name, one) == part # name => one

ServicesInit ==
  /\ part \in Parts
  /\ CallInit /\ CallScenario /\ Idle("calls", Online = Phone)
  /\ VaultInit /\ Idle("vault", \A d \in Client : SignedIn(d))
  /\ RolesInit
  /\ PresenceInit
  /\ AccessInit /\ Idle("access", holds[acc].cred = NoCredential /\ holds[acc].linked)
  /\ InvitationsInit
  /\ HistoryInit

Calls == part = "calls" /\ CallNext
         /\ UNCHANGED <<vaultVars, rolesVars, presenceVars, accessVars, invitationVars,
                      historyVars>>
Vault == part = "vault" /\ VaultNext
         /\ UNCHANGED <<callVars, rolesVars, presenceVars, accessVars, invitationVars,
                      historyVars>>
Roles == part = "roles" /\ RolesNext
         /\ UNCHANGED <<callVars, vaultVars, presenceVars, accessVars, invitationVars,
                      historyVars>>
Watching == part = "presence" /\ PresenceNext
         /\ UNCHANGED <<callVars, vaultVars, rolesVars, accessVars, invitationVars,
                      historyVars>>
Access == part = "access" /\ AccessNext
         /\ UNCHANGED <<callVars, vaultVars, rolesVars, presenceVars, invitationVars,
                      historyVars>>
Joining == part = "invitations" /\ InvitationsNext
         /\ UNCHANGED <<callVars, vaultVars, rolesVars, presenceVars, accessVars,
                      historyVars>>
Messages == part = "history" /\ HistoryNext
         /\ UNCHANGED <<callVars, vaultVars, rolesVars, presenceVars, accessVars,
                      invitationVars>>

ServicesNext ==
  /\ UNCHANGED part
  /\ Calls \/ Vault \/ Roles \/ Watching \/ Access \/ Joining \/ Messages

ServicesSpec ==
  /\ ServicesInit /\ [][ServicesNext]_servicesVars
  /\ \A d \in Phone : WF_callVars(Patience(d))
  /\ \A d \in Client : WF_vaultVars(Progress(d))
==============================================================================
