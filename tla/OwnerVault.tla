------------------------------ MODULE OwnerVault ------------------------------
(***************************************************************************)
(* The encrypted vault of one account (profile, contacts, preferences):    *)
(* its row at the server (PUT and GET /users/vault in users.js, sign-in    *)
(* and /social-recover in privateAuth.js), and the copies its devices work *)
(* on (mobile ownerVault.js, ownerSession.js, authStore.js).               *)
(*                                                                         *)
(* Abstracted: a vault is the set of changes it contains, sealed with a    *)
(* key; whoever signs in knows the account key or a credential wrapping it.*)
(* Names, credentials and the session token are left out: tokens outlive   *)
(* the account key, so a request is not refused for its token.             *)
(***************************************************************************)
EXTENDS Naturals, Sequences

CONSTANTS
  Client,       \* devices of the account
  Change,       \* changes a device may make to the vault
  MaxKey,       \* bound: account keys, one and those of recoveries
  MaxSetbacks   \* bound: lost replies, crashes, sign-outs, sign-ins

ASSUME VaultAssumption == MaxKey \in Nat \ {0} /\ MaxSetbacks \in Nat

VARIABLES
  account,   \* the row: account key, revision, sealed vault, credential wrapper
  identity,  \* durable [Client -> saved account key, or NoKey]
  session,   \* [Client -> the open session: key, revision and data]
  gen,       \* [Client -> generation of the session]
  waiting,   \* [Client -> changes chained behind the running write]
  writes,    \* [Client -> running writes, of earlier generations too]
  signing,   \* [Client -> the running sign-in or recovery]
  acked,     \* history: <<change, key>> reported to its caller as saved
  lockedOut, \* history: a recovery was accepted, and the sign-in refused
  setbacks   \* lost replies, crashes, sign-outs and sign-ins so far

vaultVars == <<account, identity, session, gen, waiting, writes, signing,
               acked, lockedOut, setbacks>>

NoKey == 0
Key == 1..MaxKey

Sealed == [key : Key, rev : Nat, data : SUBSET Change]
Row == [key : Key, rev : Nat, vault : Sealed, wrapped : BOOLEAN]

Abandoned == 0
NoSession == [key |-> NoKey, rev |-> 0, data |-> {}]

FirstVault(k) == [key |-> k, rev |-> 1, data |-> {}]
FirstRow == [key |-> 1, rev |-> 1, vault |-> FirstVault(1), wrapped |-> TRUE]

NotSigning == [kind |-> "none", key |-> NoKey, at |-> "idle", row |-> FirstRow]

Session == [key : Key \cup {NoKey}, rev : Nat, data : SUBSET Change]

Signing == [kind : {"none", "login", "recover"}, key : Key \cup {NoKey},
            at : {"idle", "request", "reply"}, row : Row]

Write == [change : Change, gen : Nat, at : {"put", "saved", "conflict", "latest"},
          base : Nat, vault : Sealed, row : Row]

SignedIn(d) == session[d].key # NoKey

\* The row, the copies of the devices and what is under way between them; a
\* session is open with the saved identity, and on no device that is signing in.
VaultTypeOK ==
  /\ account \in Row
  /\ identity \in [Client -> Key \cup {NoKey}]
  /\ session \in [Client -> Session]
  /\ gen \in [Client -> Nat \ {Abandoned}]
  /\ waiting \in [Client -> Seq(Change)]
  /\ writes \in [Client -> SUBSET Write]
  /\ signing \in [Client -> Signing]
  /\ \A d \in Client :
       SignedIn(d) => session[d].key = identity[d] /\ signing[d].kind = "none"
  /\ acked \subseteq Change \X Key
  /\ lockedOut \in BOOLEAN
  /\ setbacks \in 0..MaxSetbacks

FirstSession == [key |-> 1, rev |-> 1, data |-> {}]

\* A registered account whose key is saved on every device; on some it is unlocked.
VaultInit ==
  /\ account = FirstRow
  /\ identity = [d \in Client |-> 1]
  /\ session \in [Client -> {FirstSession, NoSession}]
  /\ gen = [d \in Client |-> 1]
  /\ waiting = [d \in Client |-> <<>>]
  /\ writes = [d \in Client |-> {}]
  /\ signing = [d \in Client |-> NotSigning]
  /\ acked = {} /\ lockedOut = FALSE /\ setbacks = 0

Setback == setbacks < MaxSetbacks /\ setbacks' = setbacks + 1

Rest(d) == UNCHANGED <<account, identity, session, gen, waiting, signing,
                       acked, lockedOut, setbacks>>

-----------------------------------------------------------------------------
(* updateOwnerVault: writes of a device run one after the other.           *)

\* A change the device has not asked for yet.
AskChange(d, c) ==
  /\ SignedIn(d)
  /\ \A e \in Client : /\ c \notin {waiting[e][i] : i \in DOMAIN waiting[e]}
                       /\ \A w \in writes[e] : w.change # c
  /\ c \notin account.vault.data
  /\ waiting' = [waiting EXCEPT ![d] = Append(@, c)]
  /\ UNCHANGED <<account, identity, session, gen, writes, signing, acked,
                 lockedOut, setbacks>>

StartWrite(d) ==
  /\ SignedIn(d) /\ waiting[d] # <<>>
  /\ \A w \in writes[d] : w.gen # gen[d]
  /\ writes' = [writes EXCEPT ![d] = @ \cup
       {[change |-> Head(waiting[d]), gen |-> gen[d], at |-> "put",
         base |-> session[d].rev, row |-> FirstRow,
         vault |-> [key |-> session[d].key, rev |-> session[d].rev + 1,
                    data |-> session[d].data \cup {Head(waiting[d])}]]}]
  /\ waiting' = [waiting EXCEPT ![d] = Tail(@)]
  /\ UNCHANGED <<account, identity, session, gen, signing, acked, lockedOut, setbacks>>

Becomes(d, w, v) == writes' = [writes EXCEPT ![d] = (@ \ {w}) \cup {v}]

\* Mutant of Settled: a failed write is not taken off the chain.
SettledIfSaved(d, w) ==
  IF w.at = "saved" THEN writes' = [writes EXCEPT ![d] = @ \ {w}] ELSE UNCHANGED writes

Settled(d, w) == writes' = [writes EXCEPT ![d] = @ \ {w}]

\* Mutant of PutVault: the revision is not compared.
PutVaultAlways(d, w) ==
  /\ w.at = "put"
  /\ account' = [account EXCEPT !.rev = @ + 1, !.vault = w.vault]
  /\ Becomes(d, w, [w EXCEPT !.at = "saved"])
  /\ UNCHANGED <<identity, session, gen, waiting, signing, acked, lockedOut, setbacks>>

\* PUT /users/vault: compare and swap on the revision alone.
PutVault(d, w) ==
  /\ w.at = "put"
  /\ IF w.base = account.rev
     THEN /\ account' = [account EXCEPT !.rev = @ + 1, !.vault = w.vault]
          /\ Becomes(d, w, [w EXCEPT !.at = "saved"])
     ELSE /\ UNCHANGED account
          /\ Becomes(d, w, [w EXCEPT !.at = "conflict"])
  /\ UNCHANGED <<identity, session, gen, waiting, signing, acked, lockedOut, setbacks>>

\* GET /users/vault, after a conflict.
GetVault(d, w) ==
  /\ w.at = "conflict"
  /\ Becomes(d, w, [w EXCEPT !.at = "latest", !.row = account])
  /\ Rest(d)

Saved(d, w) ==
  /\ w.at = "saved"
  /\ Settled(d, w)
  /\ IF w.gen = gen[d]
     THEN /\ session' = [session EXCEPT ![d].rev = w.base + 1, ![d].data = w.vault.data]
          /\ acked' = acked \cup {<<w.change, w.vault.key>>}
     ELSE UNCHANGED <<session, acked>>
  /\ UNCHANGED <<account, identity, gen, waiting, signing, lockedOut, setbacks>>

Opens(row, k) == row.vault.key = k /\ row.vault.rev = row.rev

\* Mutant of TakeLatest: the revision is taken, and the old data kept.
TakeLatestRevision(d, w) ==
  /\ w.at = "latest"
  /\ Settled(d, w)
  /\ session' = IF /\ w.gen = gen[d] /\ Opens(w.row, w.vault.key)
                   /\ w.row.rev >= session[d].rev
                THEN [session EXCEPT ![d].rev = w.row.rev] ELSE session
  /\ UNCHANGED <<account, identity, gen, waiting, signing, acked, lockedOut, setbacks>>

\* The latest vault replaces the copy; the change itself has failed.
TakeLatest(d, w) ==
  /\ w.at = "latest"
  /\ Settled(d, w)
  /\ session' = IF /\ w.gen = gen[d] /\ Opens(w.row, w.vault.key)
                   /\ w.row.rev >= session[d].rev
                THEN [session EXCEPT ![d].rev = w.row.rev, ![d].data = w.row.vault.data]
                ELSE session
  /\ UNCHANGED <<account, identity, gen, waiting, signing, acked, lockedOut, setbacks>>

\* A request or a reply is lost: the change has failed, whatever the server did,
\* or will do when a request arrives that the device has given up.
WriteLost(d, w) ==
  /\ Setback
  /\ \/ Settled(d, w)
     \/ w.at = "put" /\ Becomes(d, w, [w EXCEPT !.gen = Abandoned])
  /\ UNCHANGED <<account, identity, session, gen, waiting, signing, acked, lockedOut>>

-----------------------------------------------------------------------------
(* Sessions.                                                               *)

\* lockOwnerVault: running writes go on, those chained behind them will not.
Locked(d) ==
  /\ session' = [session EXCEPT ![d] = NoSession]
  /\ gen' = [gen EXCEPT ![d] = @ + 1]
  /\ waiting' = [waiting EXCEPT ![d] = <<>>]

SignOut(d) ==
  /\ SignedIn(d) /\ Setback
  /\ Locked(d)
  /\ identity' = [identity EXCEPT ![d] = NoKey]
  /\ UNCHANGED <<account, writes, signing, acked, lockedOut>>

\* The process ends; the saved identity and requests under way stay.
Crash(d) ==
  /\ Setback
  /\ Locked(d)
  /\ writes' = [writes EXCEPT ![d] = {w \in @ : w.at = "put"}]
  /\ signing' = [signing EXCEPT ![d] = NotSigning]
  /\ UNCHANGED <<account, identity, acked, lockedOut>>

SigningIn(d, key) ==
  signing' = [signing EXCEPT ![d] =
    [kind |-> "login", key |-> key, at |-> "request", row |-> FirstRow]]

\* initialize keeps the saved identity; login forgets it and asks for credentials.
SignIn(d) ==
  /\ ~SignedIn(d) /\ signing[d].kind = "none" /\ Setback
  /\ \/ identity[d] # NoKey /\ SigningIn(d, identity[d]) /\ UNCHANGED identity
     \/ /\ account.wrapped /\ SigningIn(d, NoKey)
        /\ identity' = [identity EXCEPT ![d] = NoKey]
  /\ UNCHANGED <<account, session, gen, waiting, writes, acked, lockedOut>>

\* A key or a credential that is no longer the account's is refused (401), and the
\* saved identity forgotten.
VaultLogin(d) ==
  LET s == signing[d]
      k == IF s.key = NoKey THEN account.key ELSE s.key IN
  /\ s.kind = "login" /\ s.at = "request"
  /\ IF k = account.key /\ (s.key # NoKey \/ account.wrapped)
     THEN /\ signing' = [signing EXCEPT ![d] =
               [kind |-> "login", key |-> k, at |-> "reply", row |-> account]]
          /\ UNCHANGED identity
     ELSE /\ signing' = [signing EXCEPT ![d] = NotSigning]
          /\ identity' = [identity EXCEPT ![d] = NoKey]
  /\ UNCHANGED <<account, session, gen, waiting, writes, acked, lockedOut, setbacks>>

\* socialRecover: a clean device, a new key and an empty vault.
StartRecovery(d) ==
  /\ signing[d].kind = "none" /\ Setback
  /\ Locked(d)
  /\ identity' = [identity EXCEPT ![d] = NoKey]
  /\ signing' = [signing EXCEPT ![d] =
       [kind |-> "recover", key |-> NoKey, at |-> "request", row |-> FirstRow]]
  /\ UNCHANGED <<account, writes, acked, lockedOut>>

\* Mutant of SocialRecover: the revision stays.
SocialRecoverSameRevision(d) ==
  LET k == account.key + 1
      row == [key |-> k, rev |-> account.rev, vault |-> FirstVault(k),
              wrapped |-> FALSE] IN
  /\ signing[d].kind = "recover" /\ signing[d].at = "request" /\ k \in Key
  /\ account' = row
  /\ signing' = [signing EXCEPT ![d] =
       [kind |-> "recover", key |-> k, at |-> "reply", row |-> row]]
  /\ UNCHANGED <<identity, session, gen, waiting, writes, acked, lockedOut, setbacks>>

SocialRecover(d) ==
  LET k == account.key + 1
      row == [key |-> k, rev |-> account.rev + 1, vault |-> FirstVault(k),
              wrapped |-> FALSE] IN
  /\ signing[d].kind = "recover" /\ signing[d].at = "request" /\ k \in Key
  /\ account' = row
  /\ signing' = [signing EXCEPT ![d] =
       [kind |-> "recover", key |-> k, at |-> "reply", row |-> row]]
  /\ UNCHANGED <<identity, session, gen, waiting, writes, acked, lockedOut, setbacks>>

\* Mutant of OpenSession: the identity is not saved.
OpenSessionUnsaved(d) ==
  LET s == signing[d] IN
  /\ s.at = "reply" /\ Opens(s.row, s.key)
  /\ session' = [session EXCEPT ![d] =
       [key |-> s.key, rev |-> s.row.rev, data |-> s.row.vault.data]]
  /\ gen' = [gen EXCEPT ![d] = @ + 1]
  /\ waiting' = [waiting EXCEPT ![d] = <<>>]
  /\ signing' = [signing EXCEPT ![d] = NotSigning]
  /\ UNCHANGED <<account, identity, writes, acked, lockedOut, setbacks>>

\* setVaultSession: the revision inside must be the one the server reports.
OpenSession(d) ==
  LET s == signing[d] IN
  /\ s.at = "reply" /\ Opens(s.row, s.key)
  /\ identity' = [identity EXCEPT ![d] = s.key]
  /\ session' = [session EXCEPT ![d] =
       [key |-> s.key, rev |-> s.row.rev, data |-> s.row.vault.data]]
  /\ gen' = [gen EXCEPT ![d] = @ + 1]
  /\ waiting' = [waiting EXCEPT ![d] = <<>>]
  /\ signing' = [signing EXCEPT ![d] = NotSigning]
  /\ UNCHANGED <<account, writes, acked, lockedOut, setbacks>>

\* Nothing opens; what was forgotten when the sign-in began stays so.
SessionRefused(d) ==
  LET s == signing[d] IN
  /\ s.at = "reply" /\ ~Opens(s.row, s.key)
  /\ lockedOut' = (lockedOut \/ s.kind = "recover")
  /\ Locked(d)
  /\ signing' = [signing EXCEPT ![d] = NotSigning]
  /\ UNCHANGED <<account, identity, writes, acked, setbacks>>

-----------------------------------------------------------------------------
WriteStep(d, w) == PutVault(d, w) \/ GetVault(d, w) \/ Saved(d, w) \/ TakeLatest(d, w)

\* The steps of a device's writes: its own and the server's for it.
Progress(d) == StartWrite(d) \/ \E w \in writes[d] : WriteStep(d, w)

VaultNext == \E d \in Client :
  \/ \E c \in Change : AskChange(d, c)
  \/ Progress(d)
  \/ \E w \in writes[d] : WriteLost(d, w)
  \/ SignOut(d) \/ Crash(d) \/ SignIn(d) \/ VaultLogin(d)
  \/ StartRecovery(d) \/ SocialRecover(d) \/ OpenSession(d) \/ SessionRefused(d)

VaultSpec == VaultInit /\ [][VaultNext]_vaultVars

FairVaultSpec == VaultSpec /\ \A d \in Client : WF_vaultVars(Progress(d))

-----------------------------------------------------------------------------
\* Two copies of the same revision are the same vault: what a device works on
\* at the revision of the server is what the server has, under the same key.
CopiesAgree ==
  \A d \in Client :
    SignedIn(d) /\ session[d].rev = account.rev =>
      session[d].key = account.key /\ session[d].data = account.vault.data

\* The stored vault is always sealed with the key the account is signed in with,
\* although an old device may still write after a recovery.
SealedForTheAccount == account.vault.key = account.key

\* A change its caller was told is saved stays in the vault until a recovery
\* replaces the key, whatever other devices write.
SavedChangesStay ==
  \A a \in acked : a[2] = account.key => a[1] \in account.vault.data

\* No change is left hanging: again and again it is not waiting, for a write that
\* fails, or that a later session replaces, does not hold up those behind it.
ChangesSettle ==
  \A d \in Client, c \in Change : []<>(\A i \in DOMAIN waiting[d] : waiting[d][i] # c)

\* "Social recovery signs in with a fresh device key and an empty vault."
RecoverySignsIn == ~lockedOut
==============================================================================
