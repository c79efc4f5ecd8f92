--------------------------- MODULE OwnerVaultProofs ---------------------------
(* Proofs that the copies of a vault agree and that what was saved stays, for *)
(* any number of devices, changes, recoveries and setbacks.                   *)
EXTENDS OwnerVault, SequenceTheorems, TLAPS

\* The row an account is registered with.
LEMMA FirstRowIsRow == FirstRow \in Row
  BY VaultAssumption DEF FirstRow, FirstVault, Row, Sealed, Key

\* A row and a session take a revision and a vault.
LEMMA RowTakes ==
  ASSUME NEW r \in Row, NEW n \in Nat, NEW v \in Sealed
  PROVE  [r EXCEPT !.rev = n, !.vault = v] \in Row
  BY DEF Row

LEMMA SessionTakes ==
  ASSUME NEW s \in Session, NEW n \in Nat, NEW D \in SUBSET Change
  PROVE  /\ [s EXCEPT !.rev = n, !.data = D] \in Session
         /\ [s EXCEPT !.rev = n, !.data = D].key = s.key
  BY DEF Session

\* Writes stay well formed when one ends, or turns into another.
LEMMA WritesStay ==
  ASSUME writes \in [Client -> SUBSET Write], NEW d \in Client, NEW w,
         \/ Settled(d, w)
         \/ \E v \in Write : Becomes(d, w, v)
  PROVE  writes' \in [Client -> SUBSET Write]
  BY DEF Settled, Becomes

\* The vault is well formed at every step of a device.
LEMMA VaultTypeStep ==
  ASSUME VaultTypeOK, [VaultNext]_vaultVars
  PROVE  VaultTypeOK'
  <1>1. CASE UNCHANGED vaultVars
    BY <1>1 DEF vaultVars, VaultTypeOK, SignedIn
  <1>2. ASSUME NEW d \in Client, NEW c \in Change, AskChange(d, c)
        PROVE  VaultTypeOK'
    <2>1. Append(waiting[d], c) \in Seq(Change)
      BY AppendProperties DEF VaultTypeOK
    <2> QED BY <1>2, <2>1 DEF AskChange, VaultTypeOK, SignedIn
  <1>3. ASSUME NEW d \in Client, StartWrite(d)
        PROVE  VaultTypeOK'
    <2>1. waiting[d] \in Seq(Change) /\ waiting[d] # <<>>
      BY <1>3 DEF StartWrite, VaultTypeOK
    <2>2. Head(waiting[d]) \in Change /\ Tail(waiting[d]) \in Seq(Change)
      BY <2>1, HeadTailProperties
    <2> DEFINE w == [change |-> Head(waiting[d]), gen |-> gen[d], at |-> "put",
                     base |-> session[d].rev, row |-> FirstRow,
                     vault |-> [key |-> session[d].key, rev |-> session[d].rev + 1,
                                data |-> session[d].data \cup {Head(waiting[d])}]]
    <2>3. w \in Write
      <3>1. session[d] \in Session /\ session[d].key # NoKey /\ gen[d] \in Nat
        BY <1>3 DEF StartWrite, SignedIn, VaultTypeOK
      <3>2. /\ session[d].key \in Key /\ session[d].rev \in Nat
            /\ session[d].data \cup {Head(waiting[d])} \in SUBSET Change
        BY <2>2, <3>1 DEF Session
      <3>3. [key |-> session[d].key, rev |-> session[d].rev + 1,
             data |-> session[d].data \cup {Head(waiting[d])}] \in Sealed
        BY <3>2 DEF Sealed
      <3> QED BY <2>2, <3>1, <3>2, <3>3, FirstRowIsRow DEF Write
    <2>4. writes' = [writes EXCEPT ![d] = @ \cup {w}]
      BY <1>3 DEF StartWrite
    <2>5. writes' \in [Client -> SUBSET Write]
      BY <2>3, <2>4 DEF VaultTypeOK
    <2>6. waiting' \in [Client -> Seq(Change)]
      BY <1>3, <2>2 DEF StartWrite, VaultTypeOK
    <2> QED BY <1>3, <2>5, <2>6 DEF StartWrite, VaultTypeOK, SignedIn
  <1>4. ASSUME NEW d \in Client, NEW w \in writes[d],
               WriteStep(d, w) \/ WriteLost(d, w)
        PROVE  VaultTypeOK'
    <2>0. writes \in [Client -> SUBSET Write]
      BY DEF VaultTypeOK
    <2>1. w \in Write
      BY <2>0
    <2>2. w.base \in Nat /\ w.vault \in Sealed /\ w.row \in Row /\ w.change \in Change
      BY <2>1 DEF Write
    <2>3. CASE PutVault(d, w)
      <3>1. [w EXCEPT !.at = "saved"] \in Write /\ [w EXCEPT !.at = "conflict"] \in Write
        BY <2>1 DEF Write
      <3>2. writes' \in [Client -> SUBSET Write]
        BY <2>0, <2>3, <3>1, WritesStay DEF PutVault
      <3>3. account \in Row /\ [account EXCEPT !.rev = @ + 1, !.vault = w.vault] \in Row
        <4>1. account \in Row /\ w.vault \in Sealed
          BY <2>2 DEF VaultTypeOK
        <4>2. account.rev + 1 \in Nat
          BY <4>1 DEF Row
        <4> QED BY <4>1, <4>2, RowTakes
      <3>4. account' \in Row
        BY <2>3, <3>3 DEF PutVault
      <3> QED BY <2>3, <3>2, <3>4 DEF PutVault, VaultTypeOK, SignedIn
    <2>4. CASE GetVault(d, w)
      <3>1. [w EXCEPT !.at = "latest", !.row = account] \in Write
        BY <2>1 DEF Write, VaultTypeOK
      <3>2. writes' \in [Client -> SUBSET Write]
        BY <2>0, <2>4, <3>1, WritesStay DEF GetVault
      <3> QED BY <2>4, <3>2 DEF GetVault, Rest, VaultTypeOK, SignedIn
    <2>5. CASE Saved(d, w)
      <3>1. writes' \in [Client -> SUBSET Write]
        BY <2>0, <2>5, WritesStay DEF Saved
      <3>2. /\ session' \in [Client -> Session]
            /\ \A e \in Client : session'[e].key = session[e].key
            /\ acked' \subseteq Change \X Key
        <4>1. w.vault.data \in SUBSET Change /\ w.base + 1 \in Nat
              /\ w.vault.key \in Key
          BY <2>2 DEF Sealed
        <4>2. CASE w.gen = gen[d]
          <5>1. /\ session' = [session EXCEPT ![d].rev = w.base + 1,
                                              ![d].data = w.vault.data]
                /\ acked' = acked \cup {<<w.change, w.vault.key>>}
            BY <2>5, <4>2 DEF Saved
          <5>2. /\ session \in [Client -> Session]
                /\ acked \subseteq Change \X Key
            BY DEF VaultTypeOK
          <5>3. [session[d] EXCEPT !.rev = w.base + 1, !.data = w.vault.data] \in Session
            BY <4>1, <5>2 DEF Session
          <5>4. session' = [session EXCEPT ![d] =
                  [session[d] EXCEPT !.rev = w.base + 1, !.data = w.vault.data]]
            BY <5>1
          <5> QED BY <2>2, <4>1, <5>1, <5>2, <5>3, <5>4
        <4>3. CASE w.gen # gen[d]
          BY <2>5, <4>3 DEF Saved, VaultTypeOK
        <4> QED BY <4>2, <4>3
      <3> QED BY <2>5, <3>1, <3>2 DEF Saved, VaultTypeOK, SignedIn
    <2>6. CASE TakeLatest(d, w)
      <3>1. writes' \in [Client -> SUBSET Write]
        BY <2>0, <2>6, WritesStay DEF TakeLatest
      <3>2. /\ session' \in [Client -> Session]
            /\ \A e \in Client : session'[e].key = session[e].key
        <4>1. w.row.vault.data \in SUBSET Change /\ w.row.rev \in Nat
          BY <2>2 DEF Sealed, Row
        <4>2. session \in [Client -> Session]
          BY DEF VaultTypeOK
        <4>3. [session[d] EXCEPT !.rev = w.row.rev, !.data = w.row.vault.data] \in Session
          BY <4>1, <4>2, SessionTakes
        <4>4. \/ session' = session
              \/ session' = [session EXCEPT ![d] =
                   [session[d] EXCEPT !.rev = w.row.rev, !.data = w.row.vault.data]]
          BY <2>6 DEF TakeLatest
        <4>5. [session[d] EXCEPT !.rev = w.row.rev, !.data = w.row.vault.data].key
                = session[d].key
          BY <4>1, <4>2, SessionTakes
        <4> QED BY <4>2, <4>3, <4>4, <4>5
      <3> QED BY <2>6, <3>1, <3>2 DEF TakeLatest, VaultTypeOK, SignedIn
    <2>7. CASE WriteLost(d, w)
      <3>1. [w EXCEPT !.gen = Abandoned] \in Write
        BY <2>1 DEF Write, Abandoned
      <3>2. writes' \in [Client -> SUBSET Write]
        BY <2>0, <2>7, <3>1, WritesStay DEF WriteLost
      <3> QED BY <2>7, <3>2, VaultAssumption DEF WriteLost, Setback, VaultTypeOK, SignedIn
    <2> QED BY <1>4, <2>3, <2>4, <2>5, <2>6, <2>7 DEF WriteStep
  <1>5. ASSUME NEW d \in Client,
               SignOut(d) \/ Crash(d) \/ StartRecovery(d) \/ SessionRefused(d)
        PROVE  VaultTypeOK'
    <2>1. /\ Locked(d)
          /\ writes' \in [Client -> SUBSET Write]
          /\ identity' \in [Client -> Key \cup {NoKey}]
          /\ \A e \in Client \ {d} : identity'[e] = identity[e]
      BY <1>5 DEF SignOut, Crash, StartRecovery, SessionRefused, VaultTypeOK
    <2>2. /\ session' \in [Client -> Session]
          /\ \A e \in Client : e # d => session'[e] = session[e]
          /\ session'[d].key = NoKey
          /\ gen' \in [Client -> Nat \ {Abandoned}]
          /\ waiting' \in [Client -> Seq(Change)]
      <3>1. /\ session \in [Client -> Session] /\ gen \in [Client -> Nat \ {Abandoned}]
            /\ waiting \in [Client -> Seq(Change)]
        BY DEF VaultTypeOK
      <3>2. NoSession \in Session /\ NoSession.key = NoKey /\ <<>> \in Seq(Change)
        BY EmptySeq DEF NoSession, Session
      <3>3. gen[d] + 1 \in Nat \ {Abandoned}
        BY <3>1 DEF Abandoned
      <3> QED BY <2>1, <3>1, <3>2, <3>3 DEF Locked
    <2>3. signing' \in [Client -> Signing]
      <3>1. \/ signing' = signing
            \/ signing' = [signing EXCEPT ![d] = NotSigning]
            \/ signing' = [signing EXCEPT ![d] = [kind |-> "recover", key |-> NoKey,
                                                 at |-> "request", row |-> FirstRow]]
        BY <1>5 DEF SignOut, Crash, StartRecovery, SessionRefused
      <3>2. /\ NotSigning \in Signing
            /\ [kind |-> "recover", key |-> NoKey, at |-> "request", row |-> FirstRow]
                 \in Signing
        BY FirstRowIsRow DEF NotSigning, Signing, NoKey
      <3>3. signing \in [Client -> Signing]
        BY DEF VaultTypeOK
      <3> QED BY <3>1, <3>2, <3>3
    <2>4. account' = account /\ acked' = acked
      BY <1>5 DEF SignOut, Crash, StartRecovery, SessionRefused
    <2>5. lockedOut' \in BOOLEAN
      <3>1. lockedOut' = lockedOut \/ SessionRefused(d)
        BY <1>5 DEF SignOut, Crash, StartRecovery
      <3> QED BY <3>1 DEF SessionRefused, VaultTypeOK
    <2>6. setbacks' \in 0..MaxSetbacks
      <3>1. setbacks' = setbacks \/ Setback
        BY <1>5 DEF SignOut, Crash, StartRecovery, SessionRefused
      <3> QED BY <3>1, VaultAssumption DEF Setback, VaultTypeOK
    <2>7. \A e \in Client : e # d => signing'[e] = signing[e]
      <3>1. signing \in [Client -> Signing]
        BY DEF VaultTypeOK
      <3> QED BY <1>5, <3>1 DEF SignOut, Crash, StartRecovery, SessionRefused
    <2>8. \A e \in Client : SignedIn(e)' => session'[e].key = identity'[e]
                                            /\ signing'[e].kind = "none"
      BY <2>1, <2>2, <2>7 DEF VaultTypeOK, SignedIn
    <2> QED BY <2>1, <2>2, <2>3, <2>4, <2>5, <2>6, <2>8 DEF VaultTypeOK
  <1>6. ASSUME NEW d \in Client, SignIn(d) \/ VaultLogin(d) \/ SocialRecover(d)
        PROVE  VaultTypeOK'
    <2>0. /\ signing \in [Client -> Signing] /\ account \in Row
          /\ identity \in [Client -> Key \cup {NoKey}]
          /\ setbacks \in 0..MaxSetbacks
          /\ SignedIn(d) => signing[d].kind = "none"
      BY DEF VaultTypeOK
    <2>1. /\ signing' \in [Client -> Signing] /\ account' \in Row
          /\ identity' \in [Client -> Key \cup {NoKey}]
          /\ \A e \in Client \ {d} : identity'[e] = identity[e] /\ signing'[e] = signing[e]
      <3>1. CASE SignIn(d)
        <4>1. \A k \in Key \cup {NoKey} :
                [kind |-> "login", key |-> k, at |-> "request", row |-> FirstRow]
                  \in Signing
          BY FirstRowIsRow DEF Signing
        <4>2. PICK k \in Key \cup {NoKey} : SigningIn(d, k)
          BY <2>0, <3>1 DEF SignIn
        <4> QED BY <2>0, <3>1, <4>1, <4>2 DEF SignIn, SigningIn
      <3>2. CASE VaultLogin(d)
        <4>1. [kind |-> "login", key |-> account.key, at |-> "reply", row |-> account]
                \in Signing
          BY <2>0 DEF Signing, Row
        <4>2. NotSigning \in Signing
          BY FirstRowIsRow DEF Signing, NotSigning
        <4>3. \/ signing' = [signing EXCEPT ![d] = NotSigning]
              \/ signing' = [signing EXCEPT ![d] = [kind |-> "login",
                   key |-> account.key, at |-> "reply", row |-> account]]
          BY <3>2 DEF VaultLogin
        <4>4. identity' = identity \/ identity' = [identity EXCEPT ![d] = NoKey]
          BY <3>2 DEF VaultLogin
        <4>5. account' = account
          BY <3>2 DEF VaultLogin
        <4> QED BY <2>0, <4>1, <4>2, <4>3, <4>4, <4>5
      <3>3. CASE SocialRecover(d)
        <4> DEFINE k == account.key + 1
        <4> DEFINE row == [key |-> k, rev |-> account.rev + 1, vault |-> FirstVault(k),
                           wrapped |-> FALSE]
        <4>1. k \in Key /\ account' = row /\ identity' = identity
              /\ signing' = [signing EXCEPT ![d] =
                   [kind |-> "recover", key |-> k, at |-> "reply", row |-> row]]
          BY <3>3 DEF SocialRecover
        <4>2. row \in Row
          BY <2>0, <4>1 DEF Row, Sealed, FirstVault
        <4>3. [kind |-> "recover", key |-> k, at |-> "reply", row |-> row] \in Signing
          BY <4>1, <4>2 DEF Signing
        <4> HIDE DEF k, row
        <4> QED BY <2>0, <4>1, <4>2, <4>3
      <3> QED BY <1>6, <3>1, <3>2, <3>3
    <2>2. /\ UNCHANGED <<session, gen, waiting, writes, acked, lockedOut>>
          /\ setbacks' = setbacks \/ Setback
      BY <1>6 DEF SignIn, VaultLogin, SocialRecover
    <2>3. setbacks' \in 0..MaxSetbacks
      BY <2>0, <2>2, VaultAssumption DEF Setback
    <2>4. ~SignedIn(d)
      BY <1>6, <2>0 DEF SignIn, VaultLogin, SocialRecover
    <2> QED BY <2>1, <2>2, <2>3, <2>4 DEF VaultTypeOK, SignedIn
  <1>7. ASSUME NEW d \in Client, OpenSession(d)
        PROVE  VaultTypeOK'
    <2> DEFINE s == signing[d]
    <2>1. s \in Signing
      BY DEF VaultTypeOK
    <2>2. s.row \in Row /\ s.key = s.row.vault.key
      BY <1>7, <2>1 DEF OpenSession, Opens, Signing
    <2>3. s.key \in Key /\ s.row.rev \in Nat /\ s.row.vault.data \in SUBSET Change
      BY <2>2 DEF Row, Sealed
    <2>4. [key |-> s.key, rev |-> s.row.rev, data |-> s.row.vault.data] \in Session
      BY <2>3 DEF Session
    <2>5. NotSigning \in Signing /\ NotSigning.kind = "none"
      BY FirstRowIsRow DEF Signing, NotSigning
    <2>6. <<>> \in Seq(Change)
      BY EmptySeq
    <2> HIDE DEF s
    <2>7. /\ identity' = [identity EXCEPT ![d] = s.key]
          /\ session' = [session EXCEPT ![d] =
               [key |-> s.key, rev |-> s.row.rev, data |-> s.row.vault.data]]
          /\ gen' = [gen EXCEPT ![d] = @ + 1]
          /\ waiting' = [waiting EXCEPT ![d] = <<>>]
          /\ signing' = [signing EXCEPT ![d] = NotSigning]
          /\ UNCHANGED <<account, writes, acked, lockedOut, setbacks>>
      BY <1>7 DEF OpenSession, s
    <2>8. gen' \in [Client -> Nat \ {Abandoned}]
      BY <2>7 DEF VaultTypeOK, Abandoned
    <2> HIDE DEF NotSigning
    <2> QED BY <2>3, <2>4, <2>5, <2>6, <2>7, <2>8 DEF VaultTypeOK, SignedIn
  <1> QED BY <1>1, <1>2, <1>3, <1>4, <1>5, <1>6, <1>7 DEF VaultNext, Progress

-----------------------------------------------------------------------------
(* The inductive invariant: no copy is ahead of the row, and one that is    *)
(* level with it holds what the row holds.                                  *)

\* A copy sealed with key k at revision n agrees with the row.
Agrees(n, k, data) ==
  /\ n <= account.rev /\ k <= account.key
  /\ n = account.rev => k = account.key /\ data = account.vault.data

SessionsAgree ==
  \A d \in Client :
    SignedIn(d) => Agrees(session[d].rev, session[d].key, session[d].data)

\* What a running write carries, by how far it is.
WriteAgrees(w) ==
  /\ w.base <= account.rev /\ w.vault.key <= account.key
  /\ w.change \in w.vault.data
  /\ w.at = "put" /\ w.base = account.rev =>
       w.vault.key = account.key /\ account.vault.data \subseteq w.vault.data
  /\ w.at = "saved" =>
       /\ Agrees(w.base + 1, w.vault.key, w.vault.data)
       /\ w.vault.key = account.key => w.change \in account.vault.data
  /\ w.at = "latest" =>
       /\ w.row.vault.key = w.row.key
       /\ Agrees(w.row.rev, w.row.key, w.row.vault.data)

WritesAgree ==
  \A d \in Client : \A w \in writes[d] :
    /\ WriteAgrees(w)
    /\ w.gen <= gen[d]
    /\ w.gen = gen[d] => w.vault.key = session[d].key

\* What the server has answered to a sign-in.
RepliesAgree ==
  \A d \in Client : signing[d].at = "reply" =>
    LET s == signing[d] IN
    /\ s.key = s.row.key /\ s.row.vault.key = s.row.key
    /\ Agrees(s.row.rev, s.row.key, s.row.vault.data)

KeysKnown == \A a \in acked : a[2] <= account.key

CopyInv ==
  /\ SealedForTheAccount /\ SessionsAgree /\ WritesAgree /\ RepliesAgree
  /\ KeysKnown /\ SavedChangesStay

\* A copy that agreed does so after the row has moved on.
LEMMA AgreesLater ==
  ASSUME account \in Row, account' \in Row, NEW CONSTANT n \in Nat,
         NEW CONSTANT k \in Nat, NEW CONSTANT data, Agrees(n, k, data),
         account.rev < account'.rev, account.key <= account'.key
  PROVE  Agrees(n, k, data)'
  BY DEF Agrees, Row, Key

\* So does a running write, if what its key protects has not shrunk.
LEMMA WriteAgreesLater ==
  ASSUME account \in Row, account' \in Row, NEW CONSTANT w \in Write, WriteAgrees(w),
         account.rev < account'.rev, account.key <= account'.key,
         account.key = account'.key => account.vault.data \subseteq account'.vault.data
  PROVE  WriteAgrees(w)'
  <1>1. /\ w.base \in Nat /\ w.vault.key \in Nat /\ w.row.rev \in Nat /\ w.row.key \in Nat
    BY DEF Write, Sealed, Row, Key
  <1>2. /\ account.rev \in Nat /\ account'.rev \in Nat
        /\ account.key \in Nat /\ account'.key \in Nat
    BY DEF Row, Key
  <1>3. w.base <= account'.rev /\ w.base # account'.rev /\ w.vault.key <= account'.key
    BY <1>1, <1>2 DEF WriteAgrees
  <1>4. ASSUME w.at = "saved"
        PROVE  /\ Agrees(w.base + 1, w.vault.key, w.vault.data)'
               /\ w.vault.key = account'.key => w.change \in account'.vault.data
    BY <1>1, <1>2, <1>4, AgreesLater DEF WriteAgrees
  <1>5. ASSUME w.at = "latest"
        PROVE  Agrees(w.row.rev, w.row.key, w.row.vault.data)'
    BY <1>1, <1>5, AgreesLater DEF WriteAgrees
  <1> QED BY <1>3, <1>4, <1>5 DEF WriteAgrees

\* When the row moves on and no key, copy or write is new, the copies agree; the
\* key is that of the account, and keeps what was saved under it.
LEMMA RowMovesOn ==
  ASSUME VaultTypeOK, VaultTypeOK', CopyInv,
         account.rev < account'.rev, account.key <= account'.key,
         account.key = account'.key => account.vault.data \subseteq account'.vault.data,
         SealedForTheAccount', UNCHANGED <<session, gen, acked>>
  PROVE  /\ SessionsAgree' /\ KeysKnown' /\ SavedChangesStay'
         /\ \A d \in Client : \A w \in writes[d] : WriteAgrees(w)'
         /\ \A d \in Client : signing'[d] = signing[d] /\ signing[d].at = "reply" =>
              Agrees(signing[d].row.rev, signing[d].row.key, signing[d].row.vault.data)'
  <1>1. account \in Row /\ account' \in Row
    BY DEF VaultTypeOK
  <1>2. SessionsAgree'
    <2>1. \A d \in Client : session[d].rev \in Nat /\ session[d].key \in Nat
      BY DEF VaultTypeOK, Session, Key, NoKey
    <2> QED BY <1>1, <2>1, AgreesLater DEF CopyInv, SessionsAgree, SignedIn
  <1>3. KeysKnown' /\ SavedChangesStay'
    <2>1. \A a \in acked : a[2] \in Nat
      BY DEF VaultTypeOK, Key
    <2>2. account.key \in Nat /\ account'.key \in Nat
      BY <1>1 DEF Row, Key
    <2> QED BY <2>1, <2>2 DEF CopyInv, KeysKnown, SavedChangesStay
  <1>4. \A d \in Client : \A w \in writes[d] : WriteAgrees(w)'
    <2>1. \A d \in Client : writes[d] \subseteq Write
      BY DEF VaultTypeOK
    <2> QED BY <1>1, <2>1, WriteAgreesLater DEF CopyInv, WritesAgree
  <1>5. \A d \in Client : signing'[d] = signing[d] /\ signing[d].at = "reply" =>
          Agrees(signing[d].row.rev, signing[d].row.key, signing[d].row.vault.data)'
    <2>1. \A d \in Client : signing[d].row \in Row /\ signing'[d].row \in Row
      BY DEF VaultTypeOK, Signing
    <2>2. \A d \in Client : signing[d].row.rev \in Nat /\ signing[d].row.key \in Nat
      BY <2>1 DEF Row, Key
    <2> QED BY <1>1, <2>2, AgreesLater DEF CopyInv, RepliesAgree
  <1> QED BY <1>2, <1>3, <1>4, <1>5

\* Sign-ins and devices: no row changes, and no write begins.
LEMMA CopiesAtSessionSteps ==
  ASSUME VaultTypeOK, VaultTypeOK', CopyInv, NEW d \in Client,
         \/ SignOut(d) \/ Crash(d) \/ StartRecovery(d) \/ SessionRefused(d)
         \/ OpenSession(d)
  PROVE  CopyInv'
  <1>1. UNCHANGED <<account, acked>>
    BY DEF SignOut, Crash, StartRecovery, SessionRefused, OpenSession
  <1>2. /\ \A e \in Client : writes'[e] \subseteq writes[e]
        /\ \A e \in Client \ {d} : gen'[e] = gen[e] /\ session'[e] = session[e]
        /\ gen'[d] = gen[d] + 1
    BY DEF SignOut, Crash, StartRecovery, SessionRefused, OpenSession, Locked, VaultTypeOK
  <1>3. WritesAgree'
    <2>1. ASSUME NEW e \in Client, NEW w \in writes'[e]
          PROVE  /\ WriteAgrees(w)' /\ w.gen <= gen'[e]
                 /\ w.gen = gen'[e] => w.vault.key = session'[e].key
      <3>1. w \in writes[e] /\ w.gen \in Nat /\ gen[e] \in Nat
        BY <1>2 DEF VaultTypeOK, Write
      <3>2. WriteAgrees(w)' /\ w.gen <= gen[e]
            /\ (w.gen = gen[e] => w.vault.key = session[e].key)
        BY <1>1, <3>1 DEF CopyInv, WritesAgree, WriteAgrees, Agrees
      <3> QED BY <1>2, <3>1, <3>2
    <2> QED BY <2>1 DEF WritesAgree
  <1>4. RepliesAgree'
    <2>1. \A e \in Client : signing'[e] = signing[e] \/ signing'[e].at # "reply"
      <3>1. \/ signing' = signing
            \/ signing' = [signing EXCEPT ![d] = NotSigning]
            \/ signing' = [signing EXCEPT ![d] = [kind |-> "recover", key |-> NoKey,
                                                 at |-> "request", row |-> FirstRow]]
        BY DEF SignOut, Crash, StartRecovery, SessionRefused, OpenSession
      <3>2. signing \in [Client -> Signing] /\ NotSigning.at # "reply"
        BY DEF VaultTypeOK, NotSigning
      <3> QED BY <3>1, <3>2
    <2> QED BY <1>1, <2>1 DEF CopyInv, RepliesAgree, Agrees
  <1>5. SessionsAgree'
    <2>1. CASE OpenSession(d)
      <3>1. /\ signing[d].at = "reply"
            /\ session'[d] = [key |-> signing[d].key, rev |-> signing[d].row.rev,
                              data |-> signing[d].row.vault.data]
        BY <2>1 DEF OpenSession, VaultTypeOK
      <3>2. Agrees(session'[d].rev, session'[d].key, session'[d].data)
        BY <3>1 DEF CopyInv, RepliesAgree
      <3> QED BY <1>1, <1>2, <3>2 DEF CopyInv, SessionsAgree, SignedIn, Agrees
    <2>2. CASE ~OpenSession(d)
      <3>1. session'[d] = NoSession
        BY <2>2 DEF SignOut, Crash, StartRecovery, SessionRefused, Locked, VaultTypeOK
      <3> QED BY <1>1, <1>2, <3>1 DEF CopyInv, SessionsAgree, SignedIn, Agrees, NoSession
    <2> QED BY <2>1, <2>2
  <1>6. SealedForTheAccount' /\ KeysKnown' /\ SavedChangesStay'
    BY <1>1 DEF CopyInv, SealedForTheAccount, KeysKnown, SavedChangesStay
  <1> QED BY <1>3, <1>4, <1>5, <1>6 DEF CopyInv

\* The steps of a running write.
LEMMA CopiesAtWriteSteps ==
  ASSUME VaultTypeOK, VaultTypeOK', CopyInv, NEW d \in Client, NEW w \in writes[d],
         WriteStep(d, w) \/ WriteLost(d, w)
  PROVE  CopyInv'
  <1>1. w \in Write /\ WriteAgrees(w) /\ w.gen <= gen[d]
        /\ (w.gen = gen[d] => w.vault.key = session[d].key)
    BY DEF VaultTypeOK, CopyInv, WritesAgree
  <1>2. /\ w.base \in Nat /\ w.gen \in Nat /\ w.vault.key \in Nat /\ account \in Row
        /\ account.rev \in Nat /\ account.key \in Nat
    <2>1. w.base \in Nat /\ w.gen \in Nat /\ w.vault \in Sealed /\ account \in Row
      BY <1>1 DEF Write, VaultTypeOK
    <2> QED BY <2>1 DEF Sealed, Row, Key
  <1>3. /\ SealedForTheAccount /\ SessionsAgree /\ WritesAgree /\ RepliesAgree
        /\ KeysKnown /\ SavedChangesStay
    BY DEF CopyInv
  <1>4. ASSUME UNCHANGED <<account, session, gen, signing, acked>>,
               \A e \in Client : \A v \in writes'[e] :
                 \/ v \in writes[e]
                 \/ /\ e = d /\ WriteAgrees(v) /\ v.vault = w.vault
                    /\ v.gen = w.gen \/ v.gen = Abandoned
        PROVE  CopyInv'
    <2>1. WritesAgree'
      <3>1. gen[d] \in Nat /\ gen[d] # Abandoned
        BY DEF VaultTypeOK
      <3>2. ASSUME NEW e \in Client, NEW v \in writes'[e]
            PROVE  /\ WriteAgrees(v)' /\ v.gen <= gen'[e]
                   /\ v.gen = gen'[e] => v.vault.key = session'[e].key
        <4>1. WriteAgrees(v) => WriteAgrees(v)'
          BY <1>4 DEF WriteAgrees, Agrees
        <4> QED BY <1>1, <1>3, <1>4, <3>1, <4>1 DEF WritesAgree, Abandoned
      <3> QED BY <3>2 DEF WritesAgree
    <2>2. /\ SealedForTheAccount' /\ SessionsAgree' /\ RepliesAgree'
          /\ KeysKnown' /\ SavedChangesStay'
      BY <1>3, <1>4 DEF SealedForTheAccount, SessionsAgree, RepliesAgree, KeysKnown,
                        SavedChangesStay, SignedIn, Agrees
    <2> QED BY <2>1, <2>2 DEF CopyInv
  <1>5. CASE PutVault(d, w) /\ w.base # account.rev
    <2>1. WriteAgrees([w EXCEPT !.at = "conflict"])
      BY <1>1 DEF WriteAgrees, Write
    <2>2. writes' = [writes EXCEPT ![d] = (@ \ {w}) \cup {[w EXCEPT !.at = "conflict"]}]
          /\ UNCHANGED <<account, session, gen, signing, acked>>
      BY <1>5 DEF PutVault, Becomes
    <2>3. [w EXCEPT !.at = "conflict"].vault = w.vault
          /\ [w EXCEPT !.at = "conflict"].gen = w.gen
      BY <1>1 DEF Write
    <2> QED BY <1>4, <2>1, <2>2, <2>3 DEF VaultTypeOK
  <1>6. CASE PutVault(d, w) /\ w.base = account.rev
    <2> DEFINE v == [w EXCEPT !.at = "saved"]
    <2>1. v.at = "saved" /\ v.vault = w.vault /\ v.gen = w.gen
          /\ v.base = w.base /\ v.change = w.change
      BY <1>1 DEF Write
    <2>2. /\ account' = [account EXCEPT !.rev = @ + 1, !.vault = w.vault]
          /\ writes' = [writes EXCEPT ![d] = (@ \ {w}) \cup {v}]
          /\ UNCHANGED <<session, gen, signing, acked>>
          /\ w.at = "put"
      BY <1>6 DEF PutVault, Becomes
    <2> HIDE DEF v
    <2>3. /\ account'.key = account.key /\ account'.rev = account.rev + 1
          /\ account'.vault = w.vault
      BY <1>2, <2>2 DEF Row
    <2>4. w.vault.key = account.key /\ account.vault.data \subseteq w.vault.data
      BY <1>1, <1>6, <2>2 DEF WriteAgrees
    <2>5. SealedForTheAccount'
      BY <2>3, <2>4 DEF SealedForTheAccount
    <2>6. /\ SessionsAgree' /\ KeysKnown' /\ SavedChangesStay'
          /\ \A e \in Client : \A u \in writes[e] : WriteAgrees(u)'
          /\ \A e \in Client : signing'[e] = signing[e] /\ signing[e].at = "reply" =>
               Agrees(signing[e].row.rev, signing[e].row.key, signing[e].row.vault.data)'
      BY <1>2, <2>2, <2>3, <2>4, <2>5, RowMovesOn
    <2>7. RepliesAgree'
      BY <1>3, <2>2, <2>6 DEF RepliesAgree
    <2>8. WriteAgrees(v)'
      BY <1>1, <1>2, <1>6, <2>1, <2>3, <2>4 DEF WriteAgrees, Agrees
    <2>9. WritesAgree'
      <3>1. \A e \in Client : \A u \in writes'[e] : u \in writes[e] \/ (e = d /\ u = v)
        BY <2>2 DEF VaultTypeOK
      <3> QED BY <1>1, <1>3, <2>1, <2>2, <2>6, <2>8, <3>1 DEF WritesAgree
    <2> QED BY <2>5, <2>6, <2>7, <2>9 DEF CopyInv
  <1>7. CASE GetVault(d, w)
    <2> DEFINE v == [w EXCEPT !.at = "latest", !.row = account]
    <2>1. v.at = "latest" /\ v.row = account /\ v.vault = w.vault /\ v.gen = w.gen
          /\ v.base = w.base /\ v.change = w.change
      BY <1>1 DEF Write
    <2>2. writes' = [writes EXCEPT ![d] = (@ \ {w}) \cup {v}]
          /\ UNCHANGED <<account, session, gen, signing, acked>>
      BY <1>7 DEF GetVault, Becomes, Rest
    <2> HIDE DEF v
    <2>3. WriteAgrees(v)
      BY <1>1, <1>2, <1>3, <2>1 DEF WriteAgrees, Agrees, SealedForTheAccount
    <2> QED BY <1>4, <2>1, <2>2, <2>3 DEF VaultTypeOK
  <1>8. CASE Saved(d, w)
    <2>1. w.at = "saved" /\ writes' = [writes EXCEPT ![d] = @ \ {w}]
          /\ UNCHANGED <<account, gen, signing>>
      BY <1>8 DEF Saved, Settled
    <2>2. \A e \in Client : writes'[e] \subseteq writes[e]
      BY <2>1 DEF VaultTypeOK
    <2>3. CASE w.gen # gen[d]
      BY <1>4, <1>8, <2>1, <2>2, <2>3 DEF Saved
    <2>4. CASE w.gen = gen[d]
      <3>1. /\ session' = [session EXCEPT ![d].rev = w.base + 1,
                                          ![d].data = w.vault.data]
            /\ acked' = acked \cup {<<w.change, w.vault.key>>}
        BY <1>8, <2>4 DEF Saved
      <3>2. /\ session'[d].rev = w.base + 1 /\ session'[d].data = w.vault.data
            /\ session'[d].key = session[d].key
            /\ \A e \in Client \ {d} : session'[e] = session[e]
        BY <3>1 DEF VaultTypeOK, Session
      <3>3. SessionsAgree'
        BY <1>1, <1>3, <2>1, <2>4, <3>2 DEF SessionsAgree, SignedIn, WriteAgrees, Agrees
      <3>4. WritesAgree'
        BY <1>3, <2>1, <2>2, <3>2 DEF WritesAgree, WriteAgrees, Agrees
      <3>5. KeysKnown' /\ SavedChangesStay'
        BY <1>1, <1>3, <2>1, <3>1 DEF KeysKnown, SavedChangesStay, WriteAgrees
      <3>6. SealedForTheAccount' /\ RepliesAgree'
        BY <1>3, <2>1 DEF SealedForTheAccount, RepliesAgree, Agrees
      <3> QED BY <3>3, <3>4, <3>5, <3>6 DEF CopyInv
    <2> QED BY <2>3, <2>4
  <1>9. CASE TakeLatest(d, w)
    <2>1. w.at = "latest" /\ writes' = [writes EXCEPT ![d] = @ \ {w}]
          /\ UNCHANGED <<account, gen, signing, acked>>
      BY <1>9 DEF TakeLatest, Settled
    <2>2. \A e \in Client : writes'[e] \subseteq writes[e]
      BY <2>1 DEF VaultTypeOK
    <2>3. CASE session' = session
      BY <1>4, <2>1, <2>2, <2>3
    <2>4. CASE session' # session
      <3>1. /\ w.gen = gen[d] /\ Opens(w.row, w.vault.key)
            /\ session' = [session EXCEPT ![d].rev = w.row.rev,
                                          ![d].data = w.row.vault.data]
        BY <1>9, <2>4 DEF TakeLatest
      <3>2. /\ session'[d].rev = w.row.rev /\ session'[d].data = w.row.vault.data
            /\ session'[d].key = session[d].key
            /\ \A e \in Client \ {d} : session'[e] = session[e]
        BY <3>1 DEF VaultTypeOK, Session
      <3>3. session[d].key = w.row.key
        BY <1>1, <2>1, <3>1 DEF Opens, WriteAgrees
      <3>4. SessionsAgree'
        BY <1>1, <1>3, <2>1, <3>2, <3>3 DEF SessionsAgree, SignedIn, WriteAgrees, Agrees
      <3>5. WritesAgree'
        BY <1>3, <2>1, <2>2, <3>2 DEF WritesAgree, WriteAgrees, Agrees
      <3>6. SealedForTheAccount' /\ RepliesAgree' /\ KeysKnown' /\ SavedChangesStay'
        BY <1>3, <2>1
        DEF SealedForTheAccount, RepliesAgree, Agrees, KeysKnown, SavedChangesStay
      <3> QED BY <3>4, <3>5, <3>6 DEF CopyInv
    <2> QED BY <2>3, <2>4
  <1>10. CASE WriteLost(d, w)
    <2> DEFINE v == [w EXCEPT !.gen = Abandoned]
    <2>1. v.at = w.at /\ v.row = w.row /\ v.vault = w.vault /\ v.gen = Abandoned
          /\ v.base = w.base /\ v.change = w.change
      BY <1>1 DEF Write
    <2>2. UNCHANGED <<account, session, gen, signing, acked>>
      BY <1>10 DEF WriteLost
    <2>3. \/ writes' = [writes EXCEPT ![d] = @ \ {w}]
          \/ writes' = [writes EXCEPT ![d] = (@ \ {w}) \cup {v}]
      BY <1>10 DEF WriteLost, Settled, Becomes
    <2> HIDE DEF v
    <2>4. WriteAgrees(v)
      BY <1>1, <2>1 DEF WriteAgrees
    <2> QED BY <1>4, <2>1, <2>2, <2>3, <2>4 DEF VaultTypeOK
  <1> QED BY <1>5, <1>6, <1>7, <1>8, <1>9, <1>10 DEF WriteStep

\* Every step keeps the copies in agreement.
LEMMA CopiesStep ==
  ASSUME VaultTypeOK, VaultTypeOK', CopyInv, [VaultNext]_vaultVars
  PROVE  CopyInv'
  <1>1. ASSUME UNCHANGED <<account, session, gen, writes, signing, acked>>
        PROVE  CopyInv'
    BY <1>1 DEF CopyInv, SealedForTheAccount, SessionsAgree, WritesAgree, RepliesAgree,
                KeysKnown, SavedChangesStay, SignedIn, WriteAgrees, Agrees
  <1>2. CASE UNCHANGED vaultVars
    BY <1>1, <1>2 DEF vaultVars
  <1>3. ASSUME NEW d \in Client, NEW c \in Change, AskChange(d, c)
        PROVE  CopyInv'
    BY <1>1, <1>3 DEF AskChange
  <1>4. ASSUME NEW d \in Client, StartWrite(d)
        PROVE  CopyInv'
    <2> DEFINE w == [change |-> Head(waiting[d]), gen |-> gen[d], at |-> "put",
                     base |-> session[d].rev, row |-> FirstRow,
                     vault |-> [key |-> session[d].key, rev |-> session[d].rev + 1,
                                data |-> session[d].data \cup {Head(waiting[d])}]]
    <2>1. /\ SignedIn(d) /\ writes' = [writes EXCEPT ![d] = @ \cup {w}]
          /\ UNCHANGED <<account, session, gen, signing, acked>>
      BY <1>4 DEF StartWrite
    <2>2. Agrees(session[d].rev, session[d].key, session[d].data)
      BY <2>1 DEF CopyInv, SessionsAgree
    <2>3. WriteAgrees(w)
      BY <2>2 DEF WriteAgrees, Agrees
    <2>4. gen[d] \in Nat
      BY DEF VaultTypeOK
    <2>5. w.gen = gen[d] /\ w.vault.key = session[d].key
      OBVIOUS
    <2> HIDE DEF w
    <2>6. WritesAgree'
      <3>1. \A e \in Client : \A u \in writes'[e] : u \in writes[e] \/ (e = d /\ u = w)
        BY <2>1 DEF VaultTypeOK
      <3> QED BY <2>1, <2>3, <2>4, <2>5, <3>1
              DEF CopyInv, WritesAgree, WriteAgrees, Agrees
    <2> QED BY <2>1, <2>6
            DEF CopyInv, SealedForTheAccount, SessionsAgree, RepliesAgree, KeysKnown,
                SavedChangesStay, SignedIn, Agrees
  <1>5. ASSUME NEW d \in Client, NEW w \in writes[d], WriteStep(d, w) \/ WriteLost(d, w)
        PROVE  CopyInv'
    BY <1>5, CopiesAtWriteSteps
  <1>6. ASSUME NEW d \in Client,
               \/ SignOut(d) \/ Crash(d) \/ StartRecovery(d) \/ SessionRefused(d)
               \/ OpenSession(d)
        PROVE  CopyInv'
    BY <1>6, CopiesAtSessionSteps
  <1>7. ASSUME NEW d \in Client, SignIn(d) \/ VaultLogin(d)
        PROVE  CopyInv'
    <2>1. UNCHANGED <<account, session, gen, writes, acked>>
      BY <1>7 DEF SignIn, VaultLogin
    <2>2. account.rev \in Nat /\ account.key \in Nat
      BY DEF VaultTypeOK, Row, Key
    <2>3. \A e \in Client :
            \/ signing'[e] = signing[e]
            \/ signing'[e].at # "reply"
            \/ /\ signing'[e].key = account.key /\ signing'[e].row = account
      <3>1. signing \in [Client -> Signing]
        BY DEF VaultTypeOK
      <3>2. CASE SignIn(d)
        BY <3>1, <3>2 DEF SignIn, SigningIn
      <3>3. CASE VaultLogin(d)
        BY <3>1, <3>3 DEF VaultLogin, NotSigning
      <3> QED BY <1>7, <3>2, <3>3
    <2>4. RepliesAgree'
      BY <2>1, <2>2, <2>3 DEF CopyInv, SealedForTheAccount, RepliesAgree, Agrees
    <2> QED BY <2>1, <2>4
            DEF CopyInv, SealedForTheAccount, SessionsAgree, WritesAgree, KeysKnown,
                SavedChangesStay, SignedIn, WriteAgrees, Agrees
  <1>8. ASSUME NEW d \in Client, SocialRecover(d)
        PROVE  CopyInv'
    <2> DEFINE k == account.key + 1
    <2> DEFINE row == [key |-> k, rev |-> account.rev + 1, vault |-> FirstVault(k),
                       wrapped |-> FALSE]
    <2>1. /\ account' = row
          /\ signing' = [signing EXCEPT ![d] =
               [kind |-> "recover", key |-> k, at |-> "reply", row |-> row]]
          /\ UNCHANGED <<session, gen, writes, acked>>
      BY <1>8 DEF SocialRecover
    <2>2. /\ account'.key = k /\ account'.rev = account.rev + 1
          /\ account'.vault.key = k
      BY <2>1 DEF FirstVault
    <2>3. account.rev \in Nat /\ account.key \in Nat
      BY DEF VaultTypeOK, Row, Key
    <2>4. SealedForTheAccount'
      BY <2>2 DEF SealedForTheAccount
    <2>5. /\ SessionsAgree' /\ KeysKnown' /\ SavedChangesStay'
          /\ \A e \in Client : \A u \in writes[e] : WriteAgrees(u)'
          /\ \A e \in Client : signing'[e] = signing[e] /\ signing[e].at = "reply" =>
               Agrees(signing[e].row.rev, signing[e].row.key, signing[e].row.vault.data)'
      <3>1. /\ account.rev < account'.rev /\ account.key <= account'.key
            /\ account.key # account'.key
        BY <2>2, <2>3
      <3>2. UNCHANGED <<session, gen, acked>>
        BY <2>1
      <3> QED BY <2>4, <3>1, <3>2, RowMovesOn
    <2>6. WritesAgree'
      BY <2>1, <2>5 DEF CopyInv, WritesAgree
    <2>7. RepliesAgree'
      <3>1. /\ signing'[d].key = k /\ signing'[d].row = account'
            /\ \A e \in Client \ {d} : signing'[e] = signing[e]
        BY <2>1 DEF VaultTypeOK
      <3>2. /\ signing'[d].key = signing'[d].row.key
            /\ signing'[d].row.vault.key = signing'[d].row.key
            /\ Agrees(signing[d].row.rev, signing[d].row.key, signing[d].row.vault.data)'
        BY <2>2, <2>3, <3>1 DEF Agrees
      <3> QED BY <2>5, <3>1, <3>2 DEF CopyInv, RepliesAgree
    <2> QED BY <2>4, <2>5, <2>6, <2>7 DEF CopyInv
  <1> QED BY <1>2, <1>3, <1>4, <1>5, <1>6, <1>7, <1>8 DEF VaultNext, Progress

-----------------------------------------------------------------------------
(* The theorems.                                                           *)

LEMMA VaultStarts == VaultInit => VaultTypeOK /\ CopyInv
  <1> SUFFICES ASSUME VaultInit PROVE VaultTypeOK /\ CopyInv
    OBVIOUS
  <1>1. 1 \in Key /\ NoKey # 1
    BY VaultAssumption DEF Key, NoKey
  <1>2. NotSigning \in Signing /\ NotSigning.at # "reply" /\ NotSigning.kind = "none"
    BY FirstRowIsRow DEF NotSigning, Signing
  <1>3. VaultTypeOK
    <2>1. FirstSession \in Session /\ NoSession \in Session
      BY <1>1 DEF Session, FirstSession, NoSession
    <2>2. <<>> \in Seq(Change) /\ 0 \in 0..MaxSetbacks
      BY EmptySeq, VaultAssumption
    <2> HIDE DEF NotSigning
    <2>3. /\ account \in Row /\ identity \in [Client -> Key \cup {NoKey}]
          /\ session \in [Client -> Session] /\ signing \in [Client -> Signing]
          /\ waiting \in [Client -> Seq(Change)]
      BY <1>1, <1>2, <2>1, <2>2, FirstRowIsRow DEF VaultInit
    <2>4. /\ gen \in [Client -> Nat \ {Abandoned}]
          /\ writes \in [Client -> SUBSET Write]
      BY DEF VaultInit, Abandoned
    <2>5. acked \subseteq Change \X Key /\ lockedOut \in BOOLEAN
          /\ setbacks \in 0..MaxSetbacks
      BY <2>2 DEF VaultInit
    <2>6. \A d \in Client :
            SignedIn(d) => session[d].key = identity[d] /\ signing[d].kind = "none"
      BY <1>2 DEF VaultInit, SignedIn, FirstSession, NoSession
    <2> QED BY <2>3, <2>4, <2>5, <2>6 DEF VaultTypeOK
  <1>4. SessionsAgree
    <2>1. ASSUME NEW d \in Client, SignedIn(d)
          PROVE  session[d] = FirstSession
      BY <2>1 DEF VaultInit, SignedIn, NoSession
    <2>2. Agrees(FirstSession.rev, FirstSession.key, FirstSession.data)
      BY DEF VaultInit, Agrees, FirstSession, FirstRow, FirstVault
    <2> QED BY <2>1, <2>2 DEF SessionsAgree
  <1>5. RepliesAgree
    BY <1>2 DEF VaultInit, RepliesAgree
  <1>6. CopyInv
    BY <1>4, <1>5 DEF VaultInit, CopyInv, SealedForTheAccount, WritesAgree, KeysKnown,
                      SavedChangesStay, FirstRow, FirstVault
  <1> QED BY <1>3, <1>6

\* The vault is well formed in every behaviour.
THEOREM VaultType == VaultSpec => []VaultTypeOK
  BY VaultStarts, VaultTypeStep, PTL DEF VaultSpec

\* The copies and the row agree in every behaviour.
THEOREM CopiesInvariant == VaultSpec => []CopyInv
  <1>1. VaultInit => CopyInv
    BY VaultStarts
  <1>2. VaultTypeOK /\ VaultTypeOK' /\ CopyInv /\ [VaultNext]_vaultVars => CopyInv'
    BY CopiesStep
  <1> QED BY <1>1, <1>2, VaultType, PTL DEF VaultSpec

\* Two copies of the same revision are the same vault (ownerVault.js).
THEOREM CopiesAlwaysAgree == VaultSpec => []CopiesAgree
  <1>1. CopyInv => CopiesAgree
    BY DEF CopyInv, SessionsAgree, CopiesAgree, Agrees
  <1> QED BY <1>1, CopiesInvariant, PTL

\* The stored vault opens with the key of the account, whoever wrote it last.
THEOREM AlwaysSealedForTheAccount == VaultSpec => []SealedForTheAccount
  BY CopiesInvariant, PTL DEF CopyInv

\* A change reported as saved is in the vault until a recovery replaces the key.
THEOREM SavedChangesAlwaysStay == VaultSpec => []SavedChangesStay
  BY CopiesInvariant, PTL DEF CopyInv
==============================================================================
