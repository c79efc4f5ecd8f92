----------------------------- MODULE AccountsProofs ----------------------------
(* Proofs about accounts.  Access: a challenge is accepted once, and an        *)
(* account loses its credentials only to a change proved before a recovery.    *)
(* Invitations: they form a tree, and nobody exceeds an allowance.  For any     *)
(* accounts, keys, codes, limits and requests.                                  *)
EXTENDS AccountAccess, Invitations, FiniteSetTheorems, TLAPS

-----------------------------------------------------------------------------
(* Access: the invariants.                                                 *)

KeysUsed == \A a \in Account : holds[a].key \in usedKeys

\* A challenge is waiting, or held by one sign-in, or accepted: one of the
\* three, and once.
ChallengesRight ==
  /\ \A c, d \in challenges : c.no = d.no => c = d
  /\ \A c \in challenges : c.no <= issued
  /\ \A r \in logins : r.challenge <= issued /\ \A c \in challenges : c.no # r.challenge
  /\ \A p \in accepted : p[1] <= issued /\ \A c \in challenges : c.no # p[1]
  /\ \A r, s \in logins : r.challenge = s.challenge => r = s
  /\ \A r \in logins, p \in accepted : r.challenge # p[1]
  /\ ChallengeUsedOnce

-----------------------------------------------------------------------------
(* Access: types.                                                          *)

LEMMA AccessConstants ==
  /\ MaxAccountKey \in Nat /\ MaxChallenge \in Nat /\ MaxProof \in Nat
  /\ AccountKey = 1..MaxAccountKey /\ Challenge = 1..MaxChallenge
  /\ Identity = AccountKey \cup Credential
  BY AccessAssumption DEF AccountKey, Challenge, Identity

LEMMA HeldChange ==
  ASSUME NEW h \in Held
  PROVE  /\ \A c \in Credential, k \in AccountKey :
              /\ [h EXCEPT !.cred = c, !.wraps = k] \in Held
              /\ [h EXCEPT !.cred = c, !.wraps = k].key = h.key
              /\ [h EXCEPT !.cred = c, !.wraps = k].cred = c
              /\ [h EXCEPT !.cred = c, !.wraps = k].wraps = k
         /\ [h EXCEPT !.linked = TRUE] \in Held
         /\ [h EXCEPT !.linked = TRUE].key = h.key
         /\ [h EXCEPT !.linked = TRUE].cred = h.cred
         /\ [h EXCEPT !.linked = TRUE].wraps = h.wraps
         /\ \A k \in AccountKey :
              /\ [h EXCEPT !.key = k, !.cred = NoCredential] \in Held
              /\ [h EXCEPT !.key = k, !.cred = NoCredential].key = k
              /\ [h EXCEPT !.key = k, !.cred = NoCredential].cred = NoCredential
  BY DEF Held

\* What a step makes of the account a.
OneHeld(a, new) ==
  /\ holds' \in [Account -> Held]
  /\ holds'[a] = new
  /\ \A b \in Account : b # a => holds'[b] = holds[b]

LEMMA ChangeHeld ==
  ASSUME AccessTypeOK, NEW r \in proving, NEW c \in Credential, ChangeCredentials(r, c)
  PROVE  /\ OneHeld(r.by, [holds[r.by] EXCEPT !.cred = c, !.wraps = r.key])
         /\ r.by \in Account /\ r.key \in AccountKey /\ holds[r.by] \in Held
  <1>1. r.by \in Account /\ r.key \in AccountKey /\ holds \in [Account -> Held]
    BY DEF AccessTypeOK, Proving
  <1>2. [holds[r.by] EXCEPT !.cred = c, !.wraps = r.key] \in Held
    BY <1>1, HeldChange
  <1>3. holds' = [holds EXCEPT ![r.by] = [@ EXCEPT !.cred = c, !.wraps = r.key]]
    BY <1>1 DEF ChangeCredentials
  <1> QED BY <1>1, <1>2, <1>3 DEF OneHeld

LEMMA LinkHeld ==
  ASSUME AccessTypeOK, NEW r \in proving, LinkSocial(r)
  PROVE  /\ OneHeld(r.by, [holds[r.by] EXCEPT !.linked = TRUE])
         /\ r.by \in Account /\ holds[r.by] \in Held
  <1>1. r.by \in Account /\ holds \in [Account -> Held]
    BY DEF AccessTypeOK, Proving
  <1>2. [holds[r.by] EXCEPT !.linked = TRUE] \in Held
    BY <1>1, HeldChange
  <1> QED BY <1>1, <1>2 DEF OneHeld, LinkSocial

LEMMA RecoverHeld ==
  ASSUME AccessTypeOK, NEW a \in Account, NEW k \in AccountKey, RecoverAccount(a, k)
  PROVE  /\ OneHeld(a, [holds[a] EXCEPT !.key = k, !.cred = NoCredential])
         /\ holds[a] \in Held
  <1>1. holds \in [Account -> Held]
    BY DEF AccessTypeOK
  <1>2. [holds[a] EXCEPT !.key = k, !.cred = NoCredential] \in Held
    BY <1>1, HeldChange
  <1>3. holds' = [holds EXCEPT ![a] = [@ EXCEPT !.key = k, !.cred = NoCredential]]
    BY <1>1 DEF RecoverAccount
  <1> QED BY <1>1, <1>2, <1>3 DEF OneHeld

\* Keys and credentials are those of one account each.
HeldApart ==
  \A a, b \in Account :
    \/ holds[a].key = holds[b].key
    \/ holds[a].cred = holds[b].cred /\ holds[a].cred # NoCredential
    => a = b

LEMMA ReadOwnerType ==
  ASSUME AccessTypeOK, NEW a \in Account, NEW kind \in {"credentials", "link"},
         ReadOwner(kind, a)
  PROVE  AccessTypeOK'
  <1>1. proofs + 1 \in 1..MaxProof /\ proofs' = proofs + 1
    BY AccessConstants DEF ReadOwner, Asked, AccessTypeOK
  <1>2. holds[a].key \in AccountKey
    BY DEF AccessTypeOK, Held
  <1>3. [no |-> proofs + 1, kind |-> kind, by |-> a, key |-> holds[a].key,
         wrapped |-> holds[a].cred # NoCredential, challenge |-> 0] \in Proving
    BY <1>1, <1>2 DEF Proving
  <1>4. proving' \subseteq Proving /\ proofs' \in 0..MaxProof
    BY <1>1, <1>3, AccessConstants DEF ReadOwner, AccessTypeOK
  <1> QED BY <1>4 DEF ReadOwner, AccessTypeOK

LEMMA AccessTypeStep ==
  ASSUME AccessTypeOK, KeysUsed, [AccessNext]_accessVars
  PROVE  AccessTypeOK' /\ KeysUsed'
  <1>1. CASE UNCHANGED accessVars
    BY <1>1 DEF accessVars, AccessTypeOK, KeysUsed
  <1>2. ASSUME NEW id \in usedKeys \cup Credential, IssueChallenge(id)
        PROVE  AccessTypeOK' /\ KeysUsed'
    <2>1. issued + 1 \in Challenge /\ issued' \in 0..MaxChallenge /\ id \in Identity
      BY <1>2, AccessConstants DEF IssueChallenge, AccessTypeOK
    <2>2. challenges' \subseteq [no : Challenge, id : Identity]
      BY <1>2, <2>1 DEF IssueChallenge, AccessTypeOK
    <2> QED BY <1>2, <2>1, <2>2 DEF IssueChallenge, AccessTypeOK, KeysUsed
  <1>3. ASSUME NEW c \in challenges, Expire(c)
        PROVE  AccessTypeOK' /\ KeysUsed'
    BY <1>3 DEF Expire, AccessTypeOK, KeysUsed
  <1>4. ASSUME NEW n \in 1..issued, NEW id \in usedKeys \cup Credential, Login(n, id)
        PROVE  AccessTypeOK' /\ KeysUsed'
    <2>1. /\ proofs + 1 \in 1..MaxProof /\ proofs' = proofs + 1 /\ proofs' \in 0..MaxProof
          /\ n \in Challenge /\ id \in Identity
      BY <1>4, AccessConstants DEF Login, Asked, AccessTypeOK
    <2>2. [no |-> proofs + 1, challenge |-> n, id |-> id] \in Attempt
      BY <2>1 DEF Attempt
    <2>3. logins' \subseteq Attempt /\ challenges' \subseteq challenges
      BY <1>4, <2>2 DEF Login, Consume, AccessTypeOK
    <2> QED BY <1>4, <2>1, <2>3 DEF Login, AccessTypeOK, KeysUsed
  <1>5. ASSUME NEW r \in logins, AcceptLogin(r)
        PROVE  AccessTypeOK' /\ KeysUsed'
    <2>1. <<r.challenge, r.no>> \in Challenge \X (1..MaxProof)
      BY DEF AccessTypeOK, Attempt
    <2> QED BY <1>5, <2>1 DEF AcceptLogin, AccessTypeOK, KeysUsed
  <1>6. ASSUME NEW a \in Account, NEW kind \in {"credentials", "link"}, ReadOwner(kind, a)
        PROVE  AccessTypeOK' /\ KeysUsed'
    BY <1>6, ReadOwnerType DEF ReadOwner, KeysUsed
  <1>7. ASSUME NEW r \in proving, NEW n \in 1..issued, NEW k \in usedKeys, Prove(r, n, k)
        PROVE  AccessTypeOK' /\ KeysUsed'
    <2>1. r \in Proving /\ n \in Challenge
      BY AccessConstants DEF AccessTypeOK
    <2>2. [r EXCEPT !.challenge = n] \in Proving /\ <<n, r.no>> \in Challenge \X (1..MaxProof)
      BY <2>1 DEF Proving
    <2>3. /\ proving' \subseteq Proving /\ challenges' \subseteq challenges
          /\ accepted' \subseteq Challenge \X (1..MaxProof)
      BY <1>7, <2>2 DEF Prove, Consume, AccessTypeOK
    <2> QED BY <1>7, <2>3 DEF Prove, AccessTypeOK, KeysUsed
  <1>8. ASSUME NEW r \in proving, Finished(r), holds' \in [Account -> Held], HeldApart',
               \A a \in Account : holds'[a].key = holds[a].key
        PROVE  AccessTypeOK' /\ KeysUsed'
    BY <1>8 DEF Finished, AccessTypeOK, KeysUsed, HeldApart
  <1>9. ASSUME NEW r \in proving, NEW c \in Credential, ChangeCredentials(r, c)
        PROVE  AccessTypeOK' /\ KeysUsed'
    <2> DEFINE new == [holds[r.by] EXCEPT !.cred = c, !.wraps = r.key]
    <2>1. OneHeld(r.by, new) /\ r.by \in Account /\ new.key = holds[r.by].key /\ new.cred = c
      <3>1. /\ OneHeld(r.by, new) /\ r.by \in Account
            /\ r.key \in AccountKey /\ holds[r.by] \in Held
        BY <1>9, ChangeHeld
      <3>2. new.key = holds[r.by].key /\ new.cred = c
        BY <3>1 DEF Held
      <3> QED BY <3>1, <3>2
    <2>2. \A b \in Account : holds[b].cred # c
      BY <1>9 DEF ChangeCredentials
    <2> HIDE DEF new
    <2>3. HeldApart'
      BY <2>1, <2>2 DEF OneHeld, HeldApart, AccessTypeOK
    <2> QED BY <1>8, <1>9, <2>1, <2>3 DEF OneHeld, ChangeCredentials
  <1>10. ASSUME NEW r \in proving, LinkSocial(r)
         PROVE  AccessTypeOK' /\ KeysUsed'
    <2> DEFINE new == [holds[r.by] EXCEPT !.linked = TRUE]
    <2>1. /\ OneHeld(r.by, new) /\ r.by \in Account
          /\ new.key = holds[r.by].key /\ new.cred = holds[r.by].cred
      BY <1>10, LinkHeld, HeldChange
    <2> HIDE DEF new
    <2>2. \A a \in Account : holds'[a].key = holds[a].key /\ holds'[a].cred = holds[a].cred
      BY <2>1 DEF OneHeld
    <2>3. HeldApart'
      BY <2>2 DEF HeldApart, AccessTypeOK
    <2> QED BY <1>8, <1>10, <2>1, <2>2, <2>3 DEF OneHeld, LinkSocial
  <1>11. ASSUME NEW a \in Account, NEW k \in AccountKey, RecoverAccount(a, k)
         PROVE  AccessTypeOK' /\ KeysUsed'
    <2> DEFINE new == [holds[a] EXCEPT !.key = k, !.cred = NoCredential]
    <2>1. OneHeld(a, new) /\ new.key = k /\ new.cred = NoCredential
      BY <1>11, RecoverHeld, HeldChange
    <2> HIDE DEF new
    <2>2. \A b \in Account : holds[b].key # k
      BY <1>11 DEF RecoverAccount, KeysUsed
    <2>3. HeldApart'
      BY <2>1, <2>2 DEF OneHeld, HeldApart, AccessTypeOK
    <2>4. KeysUsed'
      BY <1>11, <2>1 DEF OneHeld, RecoverAccount, KeysUsed
    <2> QED BY <1>11, <2>1, <2>3, <2>4 DEF OneHeld, RecoverAccount, AccessTypeOK, HeldApart
  <1> QED BY <1>1, <1>2, <1>3, <1>4, <1>5, <1>6, <1>7, <1>9, <1>10, <1>11 DEF AccessNext

-----------------------------------------------------------------------------
(* Challenges.                                                             *)

LEMMA ChallengeNumbers ==
  ASSUME AccessTypeOK
  PROVE  /\ issued \in Nat
         /\ \A c \in challenges : c.no \in Nat
         /\ \A r \in logins : r.challenge \in Nat
         /\ \A p \in accepted : p[1] \in Nat
  BY AccessConstants DEF AccessTypeOK, Attempt

LEMMA ChallengesStep ==
  ASSUME AccessTypeOK, ChallengesRight, [AccessNext]_accessVars
  PROVE  ChallengesRight'
  <1>1. ASSUME challenges' \subseteq challenges, UNCHANGED <<issued, logins, accepted>>
        PROVE  ChallengesRight'
    BY <1>1 DEF ChallengesRight, ChallengeUsedOnce
  <1>2. CASE UNCHANGED accessVars
    BY <1>1, <1>2 DEF accessVars
  <1>3. ASSUME NEW id \in usedKeys \cup Credential, IssueChallenge(id)
        PROVE  ChallengesRight'
    <2>1. PICK new : /\ new.no = issued + 1 /\ challenges' = challenges \cup {new}
                     /\ issued' = issued + 1 /\ UNCHANGED <<logins, accepted>>
      BY <1>3 DEF IssueChallenge
    <2>2. /\ \A c \in challenges : c.no # new.no
          /\ \A r \in logins : r.challenge # new.no
          /\ \A p \in accepted : p[1] # new.no
      BY <2>1, ChallengeNumbers DEF ChallengesRight
    <2>3. /\ \A c \in challenges' : c.no <= issued'
          /\ \A r \in logins : r.challenge <= issued'
          /\ \A p \in accepted : p[1] <= issued'
      BY <2>1, ChallengeNumbers DEF ChallengesRight
    <2> QED BY <2>1, <2>2, <2>3 DEF ChallengesRight, ChallengeUsedOnce
  <1>4. ASSUME NEW c \in challenges, Expire(c)
        PROVE  ChallengesRight'
    BY <1>1, <1>4 DEF Expire
  <1>5. ASSUME NEW n \in 1..issued, NEW id \in usedKeys \cup Credential, Login(n, id)
        PROVE  ChallengesRight'
    <2>1. CASE logins' = logins
      BY <1>1, <1>5, <2>1 DEF Login, Consume
    <2>2. CASE IssuedFor(n, id)
      <3>1. PICK c \in challenges : c.no = n
        BY <2>2 DEF IssuedFor
      <3>2. PICK new : /\ new.challenge = n /\ logins' = logins \cup {new}
                       /\ challenges' = {d \in challenges : d.no # n}
                       /\ UNCHANGED <<issued, accepted>>
        BY <1>5, <2>2 DEF Login, Consume
      <3> QED BY <3>1, <3>2 DEF ChallengesRight, ChallengeUsedOnce
    <2> QED BY <1>5, <2>1, <2>2 DEF Login
  <1>6. ASSUME NEW r \in logins, AcceptLogin(r)
        PROVE  ChallengesRight'
    <2>1. logins' = logins \ {r} /\ UNCHANGED <<challenges, issued>>
      BY <1>6 DEF AcceptLogin
    <2>2. accepted' \subseteq accepted \cup {<<r.challenge, r.no>>}
      BY <1>6 DEF AcceptLogin
    <2>3. \A p \in accepted' : p \in accepted \/ (p = <<r.challenge, r.no>> /\ p[1] = r.challenge)
      BY <2>2
    <2> QED BY <2>1, <2>3 DEF ChallengesRight, ChallengeUsedOnce
  <1>7. ASSUME NEW a \in Account, NEW kind \in {"credentials", "link"}, ReadOwner(kind, a)
        PROVE  ChallengesRight'
    BY <1>1, <1>7 DEF ReadOwner
  <1>8. ASSUME NEW r \in proving, NEW n \in 1..issued, NEW k \in usedKeys, Prove(r, n, k)
        PROVE  ChallengesRight'
    <2>1. /\ challenges' = {c \in challenges : c.no # n} /\ UNCHANGED <<issued, logins>>
      BY <1>8 DEF Prove, Consume
    <2>2. CASE accepted' = accepted
      BY <1>1, <2>1, <2>2
    <2>3. CASE accepted' # accepted
      <3>1. IssuedFor(n, r.key) /\ accepted' = accepted \cup {<<n, r.no>>}
        BY <1>8, <2>3 DEF Prove
      <3>2. PICK c \in challenges : c.no = n
        BY <3>1 DEF IssuedFor
      <3>3. \A p \in accepted' : p \in accepted \/ (p = <<n, r.no>> /\ p[1] = n)
        BY <3>1
      <3> QED BY <2>1, <3>2, <3>3 DEF ChallengesRight, ChallengeUsedOnce
    <2> QED BY <2>2, <2>3
  <1>9. ASSUME NEW r \in proving, NEW c \in Credential, ChangeCredentials(r, c)
        PROVE  ChallengesRight'
    BY <1>1, <1>9 DEF ChangeCredentials, Finished
  <1>10. ASSUME NEW r \in proving, LinkSocial(r)
         PROVE  ChallengesRight'
    BY <1>1, <1>10 DEF LinkSocial, Finished
  <1>11. ASSUME NEW a \in Account, NEW k \in AccountKey, RecoverAccount(a, k)
         PROVE  ChallengesRight'
    BY <1>1, <1>11 DEF RecoverAccount
  <1> QED BY <1>2, <1>3, <1>4, <1>5, <1>6, <1>7, <1>8, <1>9, <1>10, <1>11 DEF AccessNext

-----------------------------------------------------------------------------
(* Credentials.                                                            *)

\* What unlocks an account still does, but for a change proved by another key.
LEMMA UnlocksStep ==
  ASSUME AccessTypeOK, [AccessNext]_accessVars, NEW a \in Account, Unlocks(holds[a])
  PROVE  \/ Unlocks(holds'[a])
         \/ \E r \in proving \ proving' : r.by = a /\ r.key # holds[a].key
  <1>1. CASE UNCHANGED holds
    BY <1>1
  <1>2. ASSUME NEW r \in proving, NEW c \in Credential, ChangeCredentials(r, c)
        PROVE  \/ Unlocks(holds'[a])
               \/ \E s \in proving \ proving' : s.by = a /\ s.key # holds[a].key
    <2> DEFINE new == [holds[r.by] EXCEPT !.cred = c, !.wraps = r.key]
    <2>1. /\ OneHeld(r.by, new) /\ r.by \in Account
          /\ r.key \in AccountKey /\ holds[r.by] \in Held
      BY <1>2, ChangeHeld
    <2>2. new.key = holds[r.by].key /\ new.wraps = r.key
      BY <2>1 DEF Held
    <2>3. r \in proving \ proving'
      BY <1>2 DEF ChangeCredentials, Finished
    <2> HIDE DEF new
    <2>4. CASE a # r.by
      BY <2>1, <2>4 DEF OneHeld
    <2>5. CASE a = r.by /\ r.key = holds[a].key
      BY <2>1, <2>2, <2>5 DEF OneHeld, Unlocks
    <2>6. CASE a = r.by /\ r.key # holds[a].key
      BY <2>3, <2>6
    <2> QED BY <2>4, <2>5, <2>6
  <1>3. ASSUME NEW r \in proving, LinkSocial(r)
        PROVE  Unlocks(holds'[a])
    <2>1. OneHeld(r.by, [holds[r.by] EXCEPT !.linked = TRUE]) /\ holds[r.by] \in Held
      BY <1>3, LinkHeld
    <2>2. /\ holds'[a].key = holds[a].key /\ holds'[a].cred = holds[a].cred
          /\ holds'[a].wraps = holds[a].wraps
      BY <2>1 DEF OneHeld, Held
    <2> QED BY <2>2 DEF Unlocks
  <1>4. ASSUME NEW b \in Account, NEW k \in AccountKey, RecoverAccount(b, k)
        PROVE  Unlocks(holds'[a])
    <2>1. OneHeld(b, [holds[b] EXCEPT !.key = k, !.cred = NoCredential]) /\ holds[b] \in Held
      BY <1>4, RecoverHeld
    <2>2. holds'[b].cred = NoCredential
      BY <2>1 DEF OneHeld, Held
    <2> QED BY <2>1, <2>2 DEF OneHeld, Unlocks
  <1> QED BY <1>1, <1>2, <1>3, <1>4
          DEF AccessNext, accessVars, IssueChallenge, Expire, Login, AcceptLogin, ReadOwner,
              Prove

-----------------------------------------------------------------------------
(* The theorems.                                                           *)

AccessInv == AccessTypeOK /\ KeysUsed /\ ChallengesRight

LEMMA AccessStart == AccessInit => AccessInv
  <1> SUFFICES ASSUME AccessInit PROVE AccessInv
    OBVIOUS
  <1>1. challenges = {} /\ logins = {} /\ accepted = {} /\ issued = 0 /\ proving = {}
        /\ proofs = 0
    BY DEF AccessInit
  <1>2. ChallengesRight
    BY <1>1 DEF ChallengesRight, ChallengeUsedOnce
  <1>3. PICK cred \in [Account -> Credential \cup {NoCredential}],
             linked \in [Account -> BOOLEAN] :
          /\ \A a, b \in Account : cred[a] = cred[b] /\ cred[a] # NoCredential => a = b
          /\ holds = [a \in Account |-> [key |-> FirstKey[a], cred |-> cred[a],
                                         wraps |-> FirstKey[a], linked |-> linked[a]]]
    BY DEF AccessInit
  <1>4. \A a \in Account : /\ holds[a] \in Held
                           /\ holds[a].key = FirstKey[a] /\ holds[a].cred = cred[a]
    BY <1>3, AccessAssumption DEF Held
  <1>5. HeldApart /\ holds \in [Account -> Held]
    BY <1>3, <1>4, AccessAssumption DEF HeldApart
  <1>6. usedKeys \subseteq AccountKey /\ KeysUsed
    BY <1>4, AccessAssumption DEF AccessInit, KeysUsed
  <1> QED BY <1>1, <1>2, <1>5, <1>6, AccessConstants DEF AccessInv, AccessTypeOK, HeldApart

LEMMA AccessStep == AccessInv /\ [AccessNext]_accessVars => AccessInv'
  BY AccessTypeStep, ChallengesStep DEF AccessInv

\* Accounts, challenges and requests stay well formed, and no two accounts ever
\* share a key or a credential.
THEOREM AccessInvariant == AccessSpec => []AccessInv
  BY AccessStart, AccessStep, PTL DEF AccessSpec

\* A challenge is accepted for one request at most.
THEOREM AcceptedOnce == AccessSpec => []ChallengeUsedOnce
  <1>1. AccessInv => ChallengeUsedOnce
    BY DEF AccessInv, ChallengesRight
  <1> QED BY <1>1, AccessInvariant, PTL

\* The credentials of an account unlock its key until a change takes effect that
\* was proved before a recovery replaced the key.
THEOREM CredentialsUnlock == AccessSpec => WrapperLostOnlyToStaleProof
  <1> DEFINE Kept ==
        \A a \in Account : Unlocks(holds[a]) =>
          \/ Unlocks(holds'[a])
          \/ \E r \in proving \ proving' : r.by = a /\ r.key # holds[a].key
  <1>1. AccessInv /\ [AccessNext]_accessVars => [Kept]_accessVars
    BY UnlocksStep DEF AccessInv
  <1>2. AccessSpec => [][Kept]_accessVars
    BY <1>1, AccessInvariant, PTL DEF AccessSpec
  <1> QED BY <1>2 DEF WrapperLostOnlyToStaleProof

-----------------------------------------------------------------------------
(* Invitations: the invariants.                                            *)

\* Members now or before.
Joined == uninvited \cup Invited

\* Only somebody who has joined issues, and whoever has not joined is nobody's
\* guest yet.
IssuersJoined ==
  /\ \A i \in invitations : i.place.by \in Joined
  /\ \A p \in issuing : p.by \in Joined
  /\ \A u \in Guest : standing[u] \in {"none", "guest"} => u \notin Joined

\* The places taken in the allowances.
Places == issuing \cup {i.place : i \in invitations}

\* A place is used once; those of the window in use have been counted, and
\* those of a window that is over are never given again.
PlacesRight ==
  /\ \A i, j \in invitations : i.place = j.place => i = j
  /\ \A i \in invitations : i.place \notin issuing
  /\ \A p \in Places : p.n \in 1..PER_USER_INVITATION_LIMIT
  /\ \A p \in Places :
       LET used == privateIssuance[p.by] IN
       /\ used = NoIssuance => p.window < window
       /\ used # NoIssuance => p.window <= used.window
       /\ used # NoIssuance /\ p.window = used.window => p.n <= used.count
  /\ \A u \in Guest : privateIssuance[u].window <= window

-----------------------------------------------------------------------------
(* Invitations: types.                                                     *)

LEMMA InvitationConstants ==
  /\ NoGuest \notin Guest /\ MaxWindow \in Nat
  /\ PER_USER_INVITATION_LIMIT \in Nat
  /\ \A w \in Window : w \in Nat /\ w <= MaxWindow
  BY InvitationsAssumption DEF Window

\* Changing the state and the acceptor of a row keeps its code and its place.
LEMMA RowChange ==
  ASSUME InvitationsTypeOK, NEW i \in invitations, NEW new \in Invitation,
         new.code = i.code, new.status = "ACCEPTED" <=> new.by \in Guest,
         invitations' = (invitations \ {i}) \cup {new}
  PROVE  /\ invitations' \subseteq Invitation
         /\ \A j, k \in invitations' : j.code = k.code => j = k
         /\ \A j \in invitations' : j.status = "ACCEPTED" <=> j.by \in Guest
  BY DEF InvitationsTypeOK

\* An invitation is redeemed by one account.
LEMMA RedeemRow ==
  ASSUME InvitationsTypeOK, NEW i \in invitations, NEW u \in Guest, Redeem(i, u)
  PROVE  \E new \in Invitation :
           /\ new.code = i.code /\ new.place = i.place
           /\ new.status = "ACCEPTED" /\ new.by = u
           /\ invitations' = (invitations \ {i}) \cup {new}
           /\ i.by \notin Guest
  <1>1. i \in Invitation
    BY DEF InvitationsTypeOK
  <1>2. [i EXCEPT !.status = "ACCEPTED", !.by = u] \in Invitation
    BY <1>1 DEF Invitation
  <1>3. i.by \notin Guest
    BY DEF InvitationsTypeOK, Redeem
  <1> QED BY <1>1, <1>2, <1>3 DEF Redeem, Invitation

\* The place a member takes next.
Used(u) == IF privateIssuance[u] = NoIssuance THEN [window |-> window, count |-> 0]
           ELSE privateIssuance[u]

LEMMA ReservedPlace ==
  ASSUME InvitationsTypeOK, NEW u \in Guest, Reserve(u)
  PROVE  \E place \in Place :
           /\ Used(u) \in [window : Window, count : Nat]
           /\ Used(u).count < PER_USER_INVITATION_LIMIT
           /\ place = [by |-> u, window |-> Used(u).window, n |-> Used(u).count + 1]
           /\ issuing' = issuing \cup {place}
           /\ privateIssuance' =
                [privateIssuance EXCEPT ![u] = [Used(u) EXCEPT !.count = @ + 1]]
           /\ UNCHANGED <<standing, uninvited, invitations, window>>
  <1>1. Used(u) \in [window : Window, count : Nat]
    <2>1. CASE privateIssuance[u] = NoIssuance
      BY <2>1 DEF Used, InvitationsTypeOK
    <2>2. CASE privateIssuance[u] # NoIssuance
      BY <2>2 DEF Used, InvitationsTypeOK
    <2> QED BY <2>1, <2>2
  <1>2. [by |-> u, window |-> Used(u).window, n |-> Used(u).count + 1] \in Place
    BY <1>1 DEF Place
  <1> QED BY <1>1, <1>2 DEF Reserve, Used

LEMMA InvitationsTypeStep ==
  ASSUME InvitationsTypeOK, [InvitationsNext]_invitationVars
  PROVE  InvitationsTypeOK'
  <1>1. CASE UNCHANGED invitationVars
    BY <1>1 DEF invitationVars, InvitationsTypeOK
  <1>2. ASSUME NEW u \in Guest, Reserve(u)
        PROVE  InvitationsTypeOK'
    <2>1. PICK place \in Place :
            /\ Used(u) \in [window : Window, count : Nat]
            /\ issuing' = issuing \cup {place}
            /\ privateIssuance' =
                 [privateIssuance EXCEPT ![u] = [Used(u) EXCEPT !.count = @ + 1]]
            /\ UNCHANGED <<standing, uninvited, invitations, window>>
      BY <1>2, ReservedPlace
    <2>2. [Used(u) EXCEPT !.count = @ + 1] \in [window : Window, count : Nat]
      BY <2>1
    <2> QED BY <2>1, <2>2 DEF InvitationsTypeOK
  <1>3. ASSUME NEW u \in Guest, WindowPasses(u)
        PROVE  InvitationsTypeOK'
    BY <1>3, InvitationConstants DEF WindowPasses, InvitationsTypeOK, Window
  <1>4. ASSUME NEW u \in Guest, RegisterAlone(u) \/ DeleteGuest(u)
        PROVE  InvitationsTypeOK'
    BY <1>4 DEF RegisterAlone, DeleteGuest, Stands, Memory, InvitationsTypeOK
  <1>5. ASSUME NEW u \in Guest, NEW i \in invitations,
               RegisterInvited(u, i) \/ JoinNetwork(u, i)
        PROVE  InvitationsTypeOK'
    <2>1. /\ Redeem(i, u) /\ Stands(u, "member")
          /\ UNCHANGED <<uninvited, privateIssuance, issuing, window>>
      BY <1>5 DEF RegisterInvited, JoinNetwork, Memory
    <2>2. /\ invitations' \subseteq Invitation
          /\ \A j, k \in invitations' : j.code = k.code => j = k
          /\ \A j \in invitations' : j.status = "ACCEPTED" <=> j.by \in Guest
      BY <2>1, RedeemRow, RowChange
    <2> QED BY <2>1, <2>2 DEF Stands, InvitationsTypeOK
  <1>6. ASSUME NEW p \in issuing, RefuseDaily(p)
        PROVE  InvitationsTypeOK'
    BY <1>6 DEF RefuseDaily, InvitationsTypeOK
  <1>7. ASSUME NEW p \in issuing, NEW c \in Code, Insert(p, c)
        PROVE  InvitationsTypeOK'
    <2> DEFINE new == [code |-> c, place |-> p, by |-> NoGuest, status |-> "PENDING"]
    <2>1. new \in Invitation
      BY DEF Invitation, InvitationsTypeOK
    <2>2. /\ new.code = c /\ new.by = NoGuest /\ new.status = "PENDING"
          /\ invitations' = invitations \cup {new}
      BY <1>7 DEF Insert
    <2> HIDE DEF new
    <2> QED BY <1>7, <2>1, <2>2, InvitationConstants DEF Insert, InvitationsTypeOK
  <1>8. ASSUME NEW i \in invitations, ExpireInvitation(i)
        PROVE  InvitationsTypeOK'
    <2>1. [i EXCEPT !.status = "EXPIRED"] \in Invitation
      BY DEF InvitationsTypeOK, Invitation
    <2>2. i.by \notin Guest /\ i \in Invitation
      BY <1>8 DEF ExpireInvitation, InvitationsTypeOK
    <2>3. /\ [i EXCEPT !.status = "EXPIRED"].code = i.code
          /\ [i EXCEPT !.status = "EXPIRED"].by = i.by
          /\ [i EXCEPT !.status = "EXPIRED"].status = "EXPIRED"
      BY <2>2 DEF Invitation
    <2>4. /\ invitations' \subseteq Invitation
          /\ \A j, k \in invitations' : j.code = k.code => j = k
          /\ \A j \in invitations' : j.status = "ACCEPTED" <=> j.by \in Guest
      BY <1>8, <2>1, <2>2, <2>3, RowChange DEF ExpireInvitation
    <2> QED BY <1>8, <2>4 DEF ExpireInvitation, InvitationsTypeOK
  <1>9. CASE RestartServer
    BY <1>9, InvitationConstants DEF RestartServer, InvitationsTypeOK, Window
  <1> QED BY <1>1, <1>2, <1>3, <1>4, <1>5, <1>6, <1>7, <1>8, <1>9 DEF InvitationsNext

-----------------------------------------------------------------------------
(* The places in the allowances.                                           *)

LEMMA PlaceTypes ==
  ASSUME InvitationsTypeOK
  PROVE  /\ \A p \in Places : /\ p \in Place /\ p.by \in Guest
                              /\ p.window \in Nat /\ p.n \in Nat
         /\ window \in Nat
         /\ \A u \in Guest : /\ privateIssuance[u].window \in Nat
                             /\ privateIssuance[u].count \in Nat
  <1>1. \A p \in Places : p \in Place
    BY DEF InvitationsTypeOK, Places, Invitation
  <1>2. \A u \in Guest : \/ privateIssuance[u] = NoIssuance
                         \/ privateIssuance[u] \in [window : Window, count : Nat]
    BY DEF InvitationsTypeOK
  <1>3. \A u \in Guest : /\ privateIssuance[u].window \in Nat
                         /\ privateIssuance[u].count \in Nat
    BY <1>2, InvitationConstants DEF NoIssuance
  <1> QED BY <1>1, <1>3, InvitationConstants DEF Place, InvitationsTypeOK

\* Changing the state of a row leaves the places as they are.
LEMMA SamePlaces ==
  ASSUME InvitationsTypeOK, PlacesRight,
         UNCHANGED <<privateIssuance, issuing, window>>,
         \/ UNCHANGED invitations
         \/ \E i \in invitations : \E new : /\ new.place = i.place
              /\ invitations' = (invitations \ {i}) \cup {new}
  PROVE  PlacesRight'
  <1>1. Places' \subseteq Places
    BY DEF Places
  <1>2. /\ \A i, j \in invitations' : i.place = j.place => i = j
        /\ \A i \in invitations' : i.place \notin issuing'
    BY DEF PlacesRight
  <1> QED BY <1>1, <1>2 DEF PlacesRight

LEMMA PlacesStep ==
  ASSUME InvitationsTypeOK, PlacesRight, [InvitationsNext]_invitationVars
  PROVE  PlacesRight'
  <1>1. CASE UNCHANGED invitationVars
    BY <1>1, SamePlaces DEF invitationVars
  <1>2. ASSUME NEW u \in Guest, Reserve(u)
        PROVE  PlacesRight'
    <2>1. PICK place \in Place :
            /\ Used(u) \in [window : Window, count : Nat]
            /\ Used(u).count < PER_USER_INVITATION_LIMIT
            /\ place = [by |-> u, window |-> Used(u).window, n |-> Used(u).count + 1]
            /\ issuing' = issuing \cup {place}
            /\ privateIssuance' =
                 [privateIssuance EXCEPT ![u] = [Used(u) EXCEPT !.count = @ + 1]]
            /\ UNCHANGED <<standing, uninvited, invitations, window>>
      BY <1>2, ReservedPlace
    <2>2. /\ place.by = u /\ place.window = Used(u).window /\ place.n = Used(u).count + 1
          /\ Used(u).count \in Nat /\ Used(u).window \in Window /\ Used(u).window # 0
      BY <2>1, InvitationConstants DEF Window
    <2>3. /\ privateIssuance'[u].window = Used(u).window
          /\ privateIssuance'[u].count = Used(u).count + 1
          /\ privateIssuance'[u] # NoIssuance
          /\ \A v \in Guest : v # u => privateIssuance'[v] = privateIssuance[v]
      BY <2>1, <2>2 DEF NoIssuance, InvitationsTypeOK
    <2>4. Used(u).window <= window
      BY PlaceTypes DEF Used, PlacesRight
    <2>5. ASSUME NEW p \in Places, p.by = u
          PROVE  p.window <= Used(u).window
                 /\ (p.window = Used(u).window => p.n <= Used(u).count)
      BY <2>5, PlaceTypes DEF PlacesRight, Used
    <2>6. place \notin Places
      BY <2>2, <2>5
    <2>7. Places' = Places \cup {place}
      BY <2>1 DEF Places
    <2>8. /\ \A i, j \in invitations' : i.place = j.place => i = j
          /\ \A i \in invitations' : i.place \notin issuing'
      BY <2>1, <2>6 DEF PlacesRight, Places
    <2>9. \A p \in Places' : p.n \in 1..PER_USER_INVITATION_LIMIT
      BY <2>1, <2>2, <2>7, InvitationConstants DEF PlacesRight
    <2>10. ASSUME NEW p \in Places'
           PROVE  /\ privateIssuance'[p.by] = NoIssuance => p.window < window'
                  /\ privateIssuance'[p.by] # NoIssuance =>
                       p.window <= privateIssuance'[p.by].window
                  /\ privateIssuance'[p.by] # NoIssuance /\
                     p.window = privateIssuance'[p.by].window =>
                       p.n <= privateIssuance'[p.by].count
      <3>1. CASE p = place
        BY <2>2, <2>3, <3>1, InvitationConstants
      <3>2. CASE p \in Places /\ p.by = u
        BY <2>2, <2>3, <2>5, <3>2, PlaceTypes
      <3>3. CASE p \in Places /\ p.by # u
        BY <2>1, <2>3, <3>3, PlaceTypes DEF PlacesRight
      <3> QED BY <2>7, <3>1, <3>2, <3>3
    <2>11. \A v \in Guest : privateIssuance'[v].window <= window'
      BY <2>1, <2>3, <2>4 DEF PlacesRight
    <2> QED BY <2>8, <2>9, <2>10, <2>11 DEF PlacesRight
  \* A window is over: what was used in it is not counted any more.
  <1>3. ASSUME window' = window + 1, UNCHANGED invitations, issuing' \subseteq issuing,
               \A v \in Guest : \/ privateIssuance'[v] = NoIssuance
                                \/ privateIssuance'[v] = privateIssuance[v]
        PROVE  PlacesRight'
    <2>1. Places' \subseteq Places
      BY <1>3 DEF Places
    <2>2. \A p \in Places : p.window <= window
      BY PlaceTypes DEF PlacesRight
    <2>3. ASSUME NEW p \in Places'
          PROVE  /\ privateIssuance'[p.by] = NoIssuance => p.window < window'
                 /\ privateIssuance'[p.by] # NoIssuance =>
                      p.window <= privateIssuance'[p.by].window
                 /\ privateIssuance'[p.by] # NoIssuance /\
                    p.window = privateIssuance'[p.by].window =>
                      p.n <= privateIssuance'[p.by].count
      BY <1>3, <2>1, <2>2, PlaceTypes DEF PlacesRight
    <2>4. \A v \in Guest : privateIssuance'[v].window <= window'
      BY <1>3, PlaceTypes DEF PlacesRight, NoIssuance
    <2> QED BY <1>3, <2>1, <2>3, <2>4 DEF PlacesRight
  <1>4. ASSUME NEW u \in Guest, WindowPasses(u)
        PROVE  PlacesRight'
    BY <1>3, <1>4 DEF WindowPasses, InvitationsTypeOK
  <1>5. CASE RestartServer
    BY <1>3, <1>5 DEF RestartServer
  <1>6. ASSUME NEW u \in Guest, RegisterAlone(u) \/ DeleteGuest(u)
        PROVE  PlacesRight'
    BY <1>6, SamePlaces DEF RegisterAlone, DeleteGuest, Memory
  <1>7. ASSUME NEW u \in Guest, NEW i \in invitations,
               RegisterInvited(u, i) \/ JoinNetwork(u, i)
        PROVE  PlacesRight'
    BY <1>7, RedeemRow, SamePlaces DEF RegisterInvited, JoinNetwork, Memory
  <1>8. ASSUME NEW p \in issuing, RefuseDaily(p)
        PROVE  PlacesRight'
    <2>1. issuing' \subseteq issuing /\ UNCHANGED <<invitations, privateIssuance, window>>
      BY <1>8 DEF RefuseDaily
    <2>2. Places' \subseteq Places
      BY <2>1 DEF Places
    <2> QED BY <2>1, <2>2 DEF PlacesRight
  <1>9. ASSUME NEW p \in issuing, NEW c \in Code, Insert(p, c)
        PROVE  PlacesRight'
    <2>1. PICK new : /\ new.place = p /\ invitations' = invitations \cup {new}
                     /\ issuing' = issuing \ {p}
                     /\ UNCHANGED <<privateIssuance, window>>
      BY <1>9 DEF Insert
    <2>2. Places' \subseteq Places
      BY <2>1 DEF Places
    <2>3. /\ \A i, j \in invitations' : i.place = j.place => i = j
          /\ \A i \in invitations' : i.place \notin issuing'
      BY <2>1 DEF PlacesRight
    <2> QED BY <2>1, <2>2, <2>3 DEF PlacesRight
  <1>10. ASSUME NEW i \in invitations, ExpireInvitation(i)
         PROVE  PlacesRight'
    <2>1. i \in Invitation
      BY DEF InvitationsTypeOK
    <2>2. [i EXCEPT !.status = "EXPIRED"].place = i.place
      BY <2>1 DEF Invitation
    <2> QED BY <1>10, <2>2, SamePlaces DEF ExpireInvitation
  <1> QED BY <1>1, <1>2, <1>4, <1>5, <1>6, <1>7, <1>8, <1>9, <1>10 DEF InvitationsNext

\* The invitations of one window have different numbers, up to the allowance.
LEMMA PlacesBound ==
  ASSUME InvitationsTypeOK, PlacesRight
  PROVE  WithinAllowance
  <1> SUFFICES ASSUME NEW u \in Guest, NEW w \in Window
               PROVE  Cardinality({i \in invitations :
                                     i.place.by = u /\ i.place.window = w})
                        <= PER_USER_INVITATION_LIMIT
    BY DEF WithinAllowance
  <1> DEFINE S == {i \in invitations : i.place.by = u /\ i.place.window = w}
             N == 1..PER_USER_INVITATION_LIMIT
             f == [i \in S |-> i.place.n]
  <1>1. \A i \in S : /\ i.place \in Place /\ i.place.n \in N
    BY DEF InvitationsTypeOK, Invitation, PlacesRight, Places
  <1>2. \A i, j \in S : i.place.n = j.place.n => i.place = j.place
    BY <1>1 DEF Place
  <1>3. f \in Injection(S, N)
    BY <1>1, <1>2 DEF Injection, IsInjective, PlacesRight
  <1>4. IsFiniteSet(N) /\ Cardinality(N) = PER_USER_INVITATION_LIMIT
    <2>1. PER_USER_INVITATION_LIMIT \in Int /\ PER_USER_INVITATION_LIMIT >= 1
      BY InvitationsAssumption
    <2>2. /\ IsFiniteSet(1..PER_USER_INVITATION_LIMIT)
          /\ Cardinality(1..PER_USER_INVITATION_LIMIT) =
               IF 1 > PER_USER_INVITATION_LIMIT THEN 0 ELSE PER_USER_INVITATION_LIMIT - 1 + 1
      BY <2>1, FS_Interval
    <2> QED BY <2>1, <2>2
  <1> HIDE DEF S, N, f
  <1>5. IsFiniteSet(S) /\ Cardinality(S) <= Cardinality(N)
    BY <1>3, <1>4, FS_Injection
  <1> QED BY <1>4, <1>5 DEF S

-----------------------------------------------------------------------------
(* The tree.                                                               *)

TreeInv == IssuersJoined /\ InvitationsFormATree

\* As long as nobody is redeemed, the tree and who has joined stay.
LEMMA SameTree ==
  ASSUME InvitationsTypeOK, TreeInv, UNCHANGED uninvited,
         \A u \in Guest : \/ standing'[u] = standing[u]
                          \/ standing'[u] = "deleted"
                          \/ standing[u] = "none" /\ standing'[u] = "guest",
         UNCHANGED Accepted,
         \A i \in invitations' : i.place.by \in Joined,
         \A p \in issuing' : p.by \in Joined
  PROVE  TreeInv'
  <1>1. Invited' = Invited /\ Joined' = Joined
    BY DEF Invited, Joined
  <1>2. IssuersJoined'
    BY <1>1 DEF IssuersJoined, TreeInv
  <1>3. \A u \in Guest : standing'[u] = "member" => u \in (uninvited \cup Invited)'
    BY <1>1 DEF TreeInv, InvitationsFormATree
  <1>4. \A circle \in (SUBSET Invited') \ {{}} :
          \E i \in Accepted' : i.by \in circle /\ i.place.by \notin circle
    BY <1>1 DEF TreeInv, InvitationsFormATree
  <1> QED BY <1>1, <1>2, <1>3, <1>4 DEF TreeInv, InvitationsFormATree

\* A newcomer hangs on the tree as a leaf.
LEMMA OneMoreGuest ==
  ASSUME InvitationsTypeOK, TreeInv, NEW u \in Guest, NEW i \in invitations,
         standing[u] \in {"none", "guest"}, Redeem(i, u), Stands(u, "member"),
         UNCHANGED <<uninvited, issuing>>
  PROVE  TreeInv'
  <1>1. PICK new \in Invitation :
          /\ new.code = i.code /\ new.place = i.place
          /\ new.status = "ACCEPTED" /\ new.by = u
          /\ invitations' = (invitations \ {i}) \cup {new}
          /\ i.by \notin Guest
    BY RedeemRow
  <1>2. i \notin Accepted /\ \A j \in Accepted : j.by \in Guest
    BY <1>1 DEF Accepted, InvitationsTypeOK
  <1>3. Accepted' = Accepted \cup {new}
    BY <1>1, <1>2 DEF Accepted
  <1>4. Invited' = Invited \cup {u} /\ Joined' = Joined \cup {u}
    BY <1>1, <1>3 DEF Invited, Joined
  <1>5. u \notin Joined /\ u \notin Invited /\ u \notin uninvited
    BY DEF TreeInv, IssuersJoined, Joined
  <1>6. IssuersJoined'
    <2>1. \A j \in invitations' : j.place.by \in Joined
      BY <1>1 DEF TreeInv, IssuersJoined
    <2>2. \A v \in Guest : standing'[v] \in {"none", "guest"} =>
            v # u /\ standing'[v] = standing[v]
      BY DEF Stands, InvitationsTypeOK
    <2> QED BY <1>4, <2>1, <2>2 DEF TreeInv, IssuersJoined
  <1>7. \A v \in Guest : standing'[v] = "member" => v \in (uninvited \cup Invited)'
    BY <1>4 DEF TreeInv, InvitationsFormATree, Stands, InvitationsTypeOK
  <1>8. \A j, k \in Accepted' : j.by = k.by => j = k
    <2>1. \A j \in Accepted : j.by # u
      BY <1>5 DEF Invited
    <2> QED BY <1>1, <1>3, <2>1 DEF TreeInv, InvitationsFormATree
  <1>9. ASSUME NEW circle \in (SUBSET Invited') \ {{}}
        PROVE  \E j \in Accepted' : j.by \in circle /\ j.place.by \notin circle
    <2>1. CASE circle \ {u} = {}
      <3>1. new.place.by # u
        BY <1>1, <1>5 DEF TreeInv, IssuersJoined
      <3>2. circle = {u}
        BY <2>1
      <3> QED BY <1>1, <1>3, <3>1, <3>2
    <2>2. CASE circle \ {u} # {}
      <3>1. circle \ {u} \in (SUBSET Invited) \ {{}}
        BY <1>4, <1>9, <2>2
      <3>2. PICK j \in Accepted : j.by \in circle \ {u} /\ j.place.by \notin circle \ {u}
        BY <3>1 DEF TreeInv, InvitationsFormATree
      <3>3. j.place.by # u
        BY <1>5 DEF TreeInv, IssuersJoined, Accepted
      <3> QED BY <1>3, <3>2, <3>3
    <2> QED BY <2>1, <2>2
  <1> QED BY <1>4, <1>5, <1>6, <1>7, <1>8, <1>9 DEF TreeInv, InvitationsFormATree

LEMMA TreeStep ==
  ASSUME InvitationsTypeOK, TreeInv, [InvitationsNext]_invitationVars
  PROVE  TreeInv'
  \* No row changes but for those that are not accepted.
  <1>1. ASSUME UNCHANGED <<uninvited, standing>>, UNCHANGED Accepted,
               \A i \in invitations' : i.place.by \in Joined,
               \A p \in issuing' : p.by \in Joined
        PROVE  TreeInv'
    BY <1>1, SameTree DEF TreeInv, InvitationsFormATree
  <1>2. CASE UNCHANGED invitationVars
    BY <1>1, <1>2 DEF invitationVars, Accepted, TreeInv, IssuersJoined
  <1>3. ASSUME NEW u \in Guest, Reserve(u)
        PROVE  TreeInv'
    <2>1. PICK place : /\ issuing' = issuing \cup {place} /\ place.by = u
                       /\ UNCHANGED <<standing, uninvited, invitations>>
      BY <1>3, ReservedPlace
    <2>2. u \in Joined
      BY <1>3 DEF Reserve, TreeInv, InvitationsFormATree, Joined
    <2> QED BY <1>1, <2>1, <2>2 DEF Accepted, TreeInv, IssuersJoined
  <1>4. ASSUME UNCHANGED <<standing, uninvited, invitations>>, issuing' \subseteq issuing
        PROVE  TreeInv'
    BY <1>1, <1>4 DEF Accepted, TreeInv, IssuersJoined
  <1>5. ASSUME NEW u \in Guest, WindowPasses(u)
        PROVE  TreeInv'
    BY <1>4, <1>5 DEF WindowPasses
  <1>6. CASE RestartServer
    BY <1>4, <1>6 DEF RestartServer
  <1>7. ASSUME NEW p \in issuing, RefuseDaily(p)
        PROVE  TreeInv'
    BY <1>4, <1>7 DEF RefuseDaily
  <1>8. ASSUME NEW p \in issuing, NEW c \in Code, Insert(p, c)
        PROVE  TreeInv'
    <2>1. PICK new : /\ new.place = p /\ new.status = "PENDING"
                     /\ invitations' = invitations \cup {new}
                     /\ issuing' = issuing \ {p} /\ UNCHANGED <<standing, uninvited>>
      BY <1>8 DEF Insert
    <2>2. UNCHANGED Accepted
      BY <2>1 DEF Accepted
    <2>3. \A i \in invitations' : i.place.by \in Joined
      BY <2>1 DEF TreeInv, IssuersJoined
    <2> QED BY <1>1, <2>1, <2>2, <2>3 DEF TreeInv, IssuersJoined
  <1>9. ASSUME NEW i \in invitations, ExpireInvitation(i)
        PROVE  TreeInv'
    <2>1. i \in Invitation
      BY DEF InvitationsTypeOK
    <2>2. PICK new : /\ new.place = i.place /\ new.status = "EXPIRED"
                     /\ invitations' = (invitations \ {i}) \cup {new}
      BY <1>9, <2>1 DEF ExpireInvitation, Invitation
    <2>3. UNCHANGED Accepted
      BY <1>9, <2>2 DEF Accepted, ExpireInvitation
    <2>4. \A j \in invitations' : j.place.by \in Joined
      BY <2>2 DEF TreeInv, IssuersJoined
    <2> QED BY <1>1, <1>9, <2>3, <2>4 DEF ExpireInvitation, TreeInv, IssuersJoined
  <1>10. ASSUME NEW u \in Guest, DeleteGuest(u)
         PROVE  TreeInv'
    <2>1. \A v \in Guest : standing'[v] = standing[v] \/ standing'[v] = "deleted"
      BY <1>10 DEF DeleteGuest, Stands, InvitationsTypeOK
    <2>2. UNCHANGED <<uninvited, invitations, issuing>>
      BY <1>10 DEF DeleteGuest, Memory
    <2> QED BY <2>1, <2>2, SameTree
            DEF Accepted, TreeInv, IssuersJoined, InvitationsFormATree
  <1>11. ASSUME NEW u \in Guest, RegisterAlone(u)
         PROVE  TreeInv'
    <2>1. UNCHANGED <<invitations, issuing>> /\ standing[u] = "none"
      BY <1>11 DEF RegisterAlone, Memory
    <2>2. CASE Stands(u, "guest") /\ UNCHANGED uninvited
      <3>1. \A v \in Guest : \/ standing'[v] = standing[v]
                             \/ standing[v] = "none" /\ standing'[v] = "guest"
        BY <2>1, <2>2 DEF Stands, InvitationsTypeOK
      <3> QED BY <2>1, <2>2, <3>1, SameTree
              DEF Accepted, TreeInv, IssuersJoined, InvitationsFormATree
    <2>3. CASE Stands(u, "member") /\ uninvited' = uninvited \cup {u}
      <3>1. u \notin Joined /\ u \notin Invited
        BY <2>1 DEF TreeInv, IssuersJoined, Joined
      <3>2. Accepted' = Accepted /\ Invited' = Invited /\ Joined' = Joined \cup {u}
        BY <2>1, <2>3 DEF Accepted, Invited, Joined
      <3>3. \A v \in Guest : v # u => standing'[v] = standing[v]
        BY <2>3 DEF Stands
      <3>4. standing'[u] = "member"
        BY <2>3 DEF Stands, InvitationsTypeOK
      <3>5. IssuersJoined'
        BY <2>1, <3>2, <3>3, <3>4 DEF TreeInv, IssuersJoined
      <3>6. InvitationsFormATree'
        <4>1. \A v \in Guest : standing'[v] = "member" => v \in uninvited' \cup Invited'
          BY <2>3, <3>2, <3>3 DEF TreeInv, InvitationsFormATree
        <4>2. Invited' \cap uninvited' = {}
          BY <2>3, <3>1, <3>2 DEF TreeInv, InvitationsFormATree
        <4> QED BY <3>2, <4>1, <4>2 DEF TreeInv, InvitationsFormATree
      <3> QED BY <3>5, <3>6 DEF TreeInv
    <2> QED BY <1>11, <2>2, <2>3 DEF RegisterAlone
  <1>12. ASSUME NEW u \in Guest, NEW i \in invitations,
                RegisterInvited(u, i) \/ JoinNetwork(u, i)
         PROVE  TreeInv'
    BY <1>12, OneMoreGuest DEF RegisterInvited, JoinNetwork, Memory
  <1> QED BY <1>2, <1>3, <1>5, <1>6, <1>7, <1>8, <1>9, <1>10, <1>11, <1>12
          DEF InvitationsNext

-----------------------------------------------------------------------------
(* The theorems.                                                           *)

LEMMA InvitationsStart ==
  InvitationsInit => InvitationsTypeOK /\ PlacesRight /\ TreeInv
  <1> SUFFICES ASSUME InvitationsInit
               PROVE  InvitationsTypeOK /\ PlacesRight /\ TreeInv
    OBVIOUS
  <1>1. invitations = {} /\ issuing = {} /\ uninvited = {} /\ window = 1
    BY DEF InvitationsInit
  <1>2. InvitationsTypeOK
    BY <1>1, InvitationsAssumption DEF InvitationsInit, InvitationsTypeOK, Window
  <1>3. Places = {} /\ Accepted = {} /\ Invited = {} /\ Joined = {}
    BY <1>1 DEF Places, Accepted, Invited, Joined
  <1>4. PlacesRight
    BY <1>1, <1>3 DEF InvitationsInit, PlacesRight, NoIssuance
  <1>5. TreeInv
    BY <1>1, <1>3 DEF InvitationsInit, TreeInv, IssuersJoined, InvitationsFormATree
  <1> QED BY <1>2, <1>4, <1>5

LEMMA InvitationsStep ==
  (InvitationsTypeOK /\ PlacesRight /\ TreeInv) /\ [InvitationsNext]_invitationVars
    => (InvitationsTypeOK /\ PlacesRight /\ TreeInv)'
  BY InvitationsTypeStep, PlacesStep, TreeStep

\* Invitations, allowances and requests stay well formed, the places in the
\* allowances are never given twice, and only members issue.
THEOREM InvitationsInvariant ==
  InvitationsSpec => [](InvitationsTypeOK /\ PlacesRight /\ TreeInv)
  BY InvitationsStart, InvitationsStep, PTL DEF InvitationsSpec

\* Every member but the first of an empty server has redeemed one invitation of
\* somebody who was a member before.
THEOREM AlwaysATree == InvitationsSpec => []InvitationsFormATree
  <1>1. TreeInv => InvitationsFormATree
    BY DEF TreeInv
  <1> QED BY <1>1, InvitationsInvariant, PTL

\* Nobody issues more invitations than allowed in a window of a running server.
THEOREM AlwaysWithinAllowance == InvitationsSpec => []WithinAllowance
  BY PlacesBound, InvitationsInvariant, PTL
==============================================================================
