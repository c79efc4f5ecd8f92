----------------------------- MODULE AccountAccess -----------------------------
(***************************************************************************)
(* How an account is unlocked: one-time challenges, sign-in, the wrapped   *)
(* account key, linked sign-ins and recovery (routes/privateAuth.js).      *)
(*                                                                         *)
(* A handler waits for the database between reading the account, consuming *)
(* the challenge and writing; only the consumption is one step.            *)
(*                                                                         *)
(* Abstracted: signatures (a request names the key it is signed with),     *)
(* origins, rate limits, the identifiers that credentials are looked up    *)
(* by, and the vault that a recovery replaces (OwnerVault).                *)
(***************************************************************************)
EXTENDS Naturals, FiniteSets

CONSTANTS
  Account,       \* accounts
  FirstKey,      \* [Account -> the key it is registered with]
  MaxAccountKey, \* bound: account keys
  Credential,    \* identities derived from a username and password
  NoCredential,  \* no credential: the account key cannot be unwrapped
  MaxChallenge,  \* bound: challenges issued
  MaxProof       \* bound: requests with a proof

AccountKey == 1..MaxAccountKey
Challenge == 1..MaxChallenge

ASSUME AccessAssumption ==
  /\ MaxAccountKey \in Nat /\ MaxChallenge \in Nat /\ MaxProof \in Nat
  /\ FirstKey \in [Account -> AccountKey]
  /\ \A a, b \in Account : FirstKey[a] = FirstKey[b] => a = b
  /\ NoCredential \notin Credential
  /\ Credential \cap AccountKey = {}

VARIABLES
  holds,       \* [Account -> its key, credential, the key this wraps, linked sign-in]
  usedKeys,    \* keys of accounts, now or before: a new one is random
  challenges,  \* challenges that can be consumed
  issued,      \* challenges issued so far
  logins,      \* sign-ins that have consumed their challenge
  proving,     \* changes being handled: the key as read, the challenge consumed
  proofs,      \* requests with a proof so far
  accepted     \* history: <<challenge, request>> whose proof was accepted

accessVars == <<holds, usedKeys, challenges, issued, logins,
                proving, proofs, accepted>>

\* authAccountId or credentialAccountId.
Identity == AccountKey \cup Credential

Held == [key : AccountKey, cred : Credential \cup {NoCredential},
         wraps : AccountKey, linked : BOOLEAN]
Attempt == [no : 1..MaxProof, challenge : Challenge, id : Identity]
Proving == [no : 1..MaxProof, kind : {"credentials", "link"}, by : Account,
            key : AccountKey, wrapped : BOOLEAN, challenge : {0} \cup Challenge]

\* Accounts, challenges and requests are well formed; keys and credentials are
\* those of one account each.
AccessTypeOK ==
  /\ holds \in [Account -> Held]
  /\ \A a, b \in Account :
       \/ holds[a].key = holds[b].key
       \/ holds[a].cred = holds[b].cred /\ holds[a].cred # NoCredential
       => a = b
  /\ usedKeys \subseteq AccountKey
  /\ challenges \subseteq [no : Challenge, id : Identity]
  /\ issued \in 0..MaxChallenge
  /\ logins \subseteq Attempt /\ proving \subseteq Proving
  /\ proofs \in 0..MaxProof
  /\ accepted \subseteq Challenge \X (1..MaxProof)

\* Registered with a password, as a derived or a wrapped key, or with a sign-in.
AccessInit ==
  /\ \E cred \in [Account -> Credential \cup {NoCredential}],
        linked \in [Account -> BOOLEAN] :
       /\ \A a, b \in Account : cred[a] = cred[b] /\ cred[a] # NoCredential => a = b
       /\ holds = [a \in Account |-> [key |-> FirstKey[a], cred |-> cred[a],
                                      wraps |-> FirstKey[a], linked |-> linked[a]]]
  /\ usedKeys = {FirstKey[a] : a \in Account}
  /\ challenges = {} /\ issued = 0
  /\ logins = {} /\ proving = {} /\ proofs = 0
  /\ accepted = {}

-----------------------------------------------------------------------------
IssueChallenge(id) ==
  /\ issued < MaxChallenge
  /\ issued' = issued + 1
  /\ challenges' = challenges \cup {[no |-> issued + 1, id |-> id]}
  /\ UNCHANGED <<holds, usedKeys, logins, proving, proofs, accepted>>

Expire(c) ==
  /\ challenges' = challenges \ {c}
  /\ UNCHANGED <<holds, usedKeys, issued, logins, proving, proofs, accepted>>

\* Mutant of Consume: a challenge is left to expire.
ConsumeNothing(n) == UNCHANGED challenges

Consume(n) == challenges' = {c \in challenges : c.no # n}

IssuedFor(n, id) == \E c \in challenges : c.no = n /\ c.id = id

Asked == proofs < MaxProof /\ proofs' = proofs + 1

-----------------------------------------------------------------------------
(* Signing in.                                                             *)

\* The challenge is consumed before the account is looked up.
Login(n, id) ==
  /\ Asked
  /\ Consume(n)
  /\ logins' = IF IssuedFor(n, id)
               THEN logins \cup {[no |-> proofs + 1, challenge |-> n, id |-> id]}
               ELSE logins
  /\ UNCHANGED <<holds, usedKeys, issued, proving, accepted>>

AcceptLogin(r) ==
  /\ logins' = logins \ {r}
  /\ accepted' = IF \E a \in Account : r.id \in {holds[a].key, holds[a].cred}
                 THEN accepted \cup {<<r.challenge, r.no>>} ELSE accepted
  /\ UNCHANGED <<holds, usedKeys, challenges, issued, proving, proofs>>

-----------------------------------------------------------------------------
(* Changing how the account is unlocked, with a proof by its key.          *)

ReadOwner(kind, a) ==
  /\ Asked
  /\ proving' = proving \cup
       {[no |-> proofs + 1, kind |-> kind, by |-> a, key |-> holds[a].key,
         wrapped |-> holds[a].cred # NoCredential, challenge |-> 0]}
  /\ UNCHANGED <<holds, usedKeys, challenges, issued, logins, accepted>>

\* Signed with key k.  Keys derived from a password cannot be changed.
Prove(r, n, k) ==
  LET good == IssuedFor(n, r.key) /\ k = r.key IN
  /\ r.challenge = 0
  /\ Consume(n)
  /\ accepted' = IF good THEN accepted \cup {<<n, r.no>>} ELSE accepted
  /\ proving' = (proving \ {r}) \cup
       (IF good /\ (r.kind = "credentials" => r.wrapped)
        THEN {[r EXCEPT !.challenge = n]} ELSE {})
  /\ UNCHANGED <<holds, usedKeys, issued, logins, proofs>>

Proved(r, kind) == r.kind = kind /\ r.challenge # 0

Finished(r) ==
  /\ proving' = proving \ {r}
  /\ UNCHANGED <<usedKeys, challenges, issued, logins, proofs, accepted>>

\* The device wraps the key it has proved with new credentials.
ChangeCredentials(r, c) ==
  /\ Proved(r, "credentials")
  /\ \A a \in Account : holds[a].cred # c
  /\ holds' = [holds EXCEPT ![r.by].cred = c, ![r.by].wraps = r.key]
  /\ Finished(r)

LinkSocial(r) ==
  /\ Proved(r, "link")
  /\ holds' = [holds EXCEPT ![r.by].linked = TRUE]
  /\ Finished(r)

\* Mutant of RecoverAccount: the credentials stay.
RecoverAccountOnly(a, k) ==
  /\ holds[a].linked /\ k \notin usedKeys
  /\ usedKeys' = usedKeys \cup {k}
  /\ holds' = [holds EXCEPT ![a].key = k]
  /\ UNCHANGED <<challenges, issued, logins, proving, proofs, accepted>>

\* "The wrapped key belonged to the replaced account key."
RecoverAccount(a, k) ==
  /\ holds[a].linked /\ k \notin usedKeys
  /\ usedKeys' = usedKeys \cup {k}
  /\ holds' = [holds EXCEPT ![a].key = k, ![a].cred = NoCredential]
  /\ UNCHANGED <<challenges, issued, logins, proving, proofs, accepted>>

AccessNext ==
  \/ \E id \in usedKeys \cup Credential : IssueChallenge(id)
  \/ \E c \in challenges : Expire(c)
  \/ \E n \in 1..issued, id \in usedKeys \cup Credential : Login(n, id)
  \/ \E r \in logins : AcceptLogin(r)
  \/ \E a \in Account, kind \in {"credentials", "link"} : ReadOwner(kind, a)
  \/ \E r \in proving : \/ \E n \in 1..issued, k \in usedKeys : Prove(r, n, k)
                        \/ \E c \in Credential : ChangeCredentials(r, c)
                        \/ LinkSocial(r)
  \/ \E a \in Account, k \in AccountKey : RecoverAccount(a, k)

AccessSpec == AccessInit /\ [][AccessNext]_accessVars

-----------------------------------------------------------------------------
\* However often a challenge is presented, and by however many requests at a
\* time, at most one of them is accepted for it.
ChallengeUsedOnce == \A p, q \in accepted : p[1] = q[1] => p = q

\* Signing in with the credentials yields the key of the account.
Unlocks(h) == h.cred # NoCredential => h.wraps = h.key

\* A recovery takes the old credentials away.  They can only come back with a
\* change whose proof was given before the recovery.
WrapperLostOnlyToStaleProof ==
  [][\A a \in Account : Unlocks(holds[a]) =>
       \/ Unlocks(holds'[a])
       \/ \E r \in proving \ proving' : r.by = a /\ r.key # holds[a].key]_accessVars
==============================================================================
