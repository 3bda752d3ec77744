---------------------------- MODULE RegistryLogin -----------------------------
(***************************************************************************)
(* Registry credentials: RegistryAuthController over CredentialStore, the  *)
(* wallet behind it, the configuration file of the docker command line and *)
(* the check of a credential by the backend                                *)
(* (model/registry_auth_controller.cpp, backend/credential_store.cpp,      *)
(* backend/kwallet_credential_store.cpp, backend/docker_cli_auth_*.cpp).   *)
(*                                                                         *)
(* Registries are normalized server addresses; a secret is a password with *)
(* its user, or an identity token.                                         *)
(***************************************************************************)
EXTENDS DockerHandshake

CONSTANTS
    Registries,
    Passwords,
    Tokens,
    NoSecret,
    BrokenEntry, \* an entry of the wallet that is not a credential
    MaxCliEdits, \* bound: changes of the command line's file by other programs
    MaxAbandons \* bound: times the watchdog gives up

Secrets == Passwords \cup Tokens
Maybe(s) == s \cup {NoSecret}
Credentials == [registry : Registries, secret : Secrets]
Of(r, s) == [registry |-> r, secret |-> s]
NoCredential == Of(NoSecret, NoSecret)

ASSUME LoginAssumption ==
    /\ Passwords \cap Tokens = {}
    /\ {NoSecret, BrokenEntry} \cap Secrets = {} /\ NoSecret # BrokenEntry
    /\ MaxCliEdits \in Nat /\ MaxAbandons \in Nat

VARIABLES
    wallet,    \* external: the wallet object, "none", "asked", "open" or "lost" (closed by the user)
    state,     \* CredentialStore::m_state
    entries,   \* external: the entries of the wallet's folder
    shown,     \* RegistryCredentialModel::m_entries: the secrets of the rows
    auths,     \* external: the entries of the command line's file, auth and identitytoken
    parsable,  \* external: the file is valid JSON
    checking,  \* "none", "login" or "test": m_pendingLogin.active and m_testingCredential
    pending,   \* the credential of the check: m_pendingLogin.credential or the tested one
    loginBusy, \* m_busy
    queued,    \* checks that wait for the handshake
    wire,      \* checks that have been sent
    accepted,  \* history: credentials that a registry accepted or the file held when scanned
    forgotten, \* history: registries removed from wallet and file, and not entered again since
    cliEdits,  \* changes by other programs (only to bound the model)
    abandons   \* times the watchdog gave up (only to bound the model)

walletVars == <<wallet, state, entries, shown>>
cliVars == <<auths, parsable, cliEdits>>
checkVars == <<checking, pending, loginBusy, queued, wire, abandons>>
loginVars == <<handshakeVars, walletVars, cliVars, checkVars, accepted, forgotten>>

Nothing == [r \in Registries |-> NoSecret]

-----------------------------------------------------------------------------
\* CredentialStore and the wallet.

\* The guard of every read and write: the store is ready, and the wallet is open and has the
\* module's folder.
Usable == state = "ready" /\ wallet = "open"

\* decodeEntry(): the credential that encodeEntry() made, or nothing.
Decoded(found) == [r \in Registries |-> IF found[r] = BrokenEntry THEN NoSecret ELSE found[r]]

\* credential()
Stored(r) == IF Usable THEN Decoded(entries)[r] ELSE NoSecret

\* RegistryCredentialModel::reload() with the wallet as it is after the step.
ReloadList == shown' = IF Usable' THEN Decoded(entries') ELSE Nothing

\* CredentialStore::remove(), when the wallet does it.
RemoveFromWallet(r) ==
    /\ Usable
    /\ entries' = [entries EXCEPT ![r] = NoSecret]
    /\ UNCHANGED <<wallet, state>>
    /\ ReloadList

\* CredentialStore::open() and KWalletBackend::open(): the user's answer comes later, unless
\* the wallet is disabled or cannot be asked for.
OpenStore ==
    IF state \in {"ready", "opening"}
    THEN UNCHANGED <<wallet, state>>
    ELSE \/ wallet' = "asked" /\ state' = "opening"
         \/ wallet' = wallet /\ state' = "unavailable"

\* Fault: the slot of walletOpened() emits stateChanged() but not changed().
WalletOpenedQuietly ==
    /\ wallet = "asked"
    /\ wallet' = "open" /\ state' = "ready"
    /\ UNCHANGED <<handshakeVars, entries, shown, cliVars, checkVars, accepted, forgotten>>

\* The slot of walletOpened(), then the callbacks: stateChanged(), and changed() when it is
\* ready, which reloads the list.
WalletOpened ==
    /\ wallet = "asked"
    /\ \/ wallet' = "open" /\ state' = "ready"
       \/ wallet' = "none" /\ state' = "unavailable"
    /\ UNCHANGED entries
    /\ IF state' = "ready" THEN ReloadList ELSE UNCHANGED shown
    /\ UNCHANGED <<handshakeVars, cliVars, checkVars, accepted, forgotten>>

\* The user closes the wallet: nobody listens, the store stays ready.
WalletLost ==
    /\ wallet = "open"
    /\ wallet' = "lost"
    /\ UNCHANGED <<handshakeVars, state, entries, shown, cliVars, checkVars,
                   accepted, forgotten>>

-----------------------------------------------------------------------------
\* The file of the docker command line.

\* scan(): an identity token comes before the auth field; a file that cannot be parsed is empty.
EntryOf(a) == IF a.token # NoSecret THEN a.token ELSE a.auth
Scanned == [r \in Registries |-> IF parsable THEN EntryOf(auths[r]) ELSE NoSecret]

\* DockerCliAuthWriter::upsert(): needs a user name, which a token login has not, keeps the
\* other fields of the entry, and leaves a file alone that cannot be parsed or written.
UpsertMay(s) == parsable /\ s \in Passwords
Upserted(r, s) == [auths EXCEPT ![r].auth = s]

\* DockerCliAuthWriter::remove()
RemoveMay == parsable
WithoutEntry(r) == [auths EXCEPT ![r] = [auth |-> NoSecret, token |-> NoSecret]]

\* docker login and docker logout in a terminal, or an editor.
FileEdited ==
    /\ cliEdits < MaxCliEdits
    /\ cliEdits' = cliEdits + 1
    /\ \/ \E r \in Registries, p \in Maybe(Passwords), t \in Maybe(Tokens) :
             /\ auths' = [auths EXCEPT ![r] = [auth |-> p, token |-> t]]
             /\ auths' # auths
             /\ forgotten' = forgotten \ {r}
             /\ UNCHANGED parsable
       \/ parsable' = ~parsable /\ UNCHANGED <<auths, forgotten>>
    /\ UNCHANGED <<handshakeVars, walletVars, checkVars, accepted>>

-----------------------------------------------------------------------------
\* refresh(): open the wallet, reload, scan the file and import silently.

\* importInto(): only registries the wallet has no entry of, not even a broken one; written: the writes that succeed.
Imported(found, written) ==
    [r \in Registries |-> IF found[r] # NoSecret /\ entries[r] = NoSecret /\ r \in written
                          THEN found[r] ELSE entries[r]]

Refresh ==
    /\ OpenStore
    /\ IF Usable'
       THEN \E written \in SUBSET Registries :
               /\ entries' = Imported(Scanned, written)
               /\ accepted' = accepted \cup {Of(r, Scanned[r]) : r \in {q \in Registries : Scanned[q] # NoSecret}}
       ELSE UNCHANGED <<entries, accepted>>
    /\ ReloadList
    /\ UNCHANGED <<handshakeVars, cliVars, checkVars, forgotten>>

-----------------------------------------------------------------------------
\* login(), testCredential(), and the check.

\* checkRegistryAuth() and withApiVersion(); the page and the dialog offer a check only while
\* none is running.  The immediate answer for an incomplete credential has no step: login() and
\* testCredential() ask isEmpty() before they call, and a complete credential can be encoded.
Check(kind, c) ==
    /\ ~loginBusy
    /\ checking' = kind
    /\ pending' = c
    /\ loginBusy' = TRUE
    /\ UNCHANGED abandons
    /\ IF negotiated
       THEN wire' = wire \cup {c} /\ UNCHANGED queued /\ UNCHANGED handshakeVars
       ELSE queued' = queued \cup {c} /\ UNCHANGED wire /\ JoinHandshake
    /\ UNCHANGED <<walletVars, cliVars, accepted, forgotten>>

\* login() with a credential that is complete; without a ready wallet nothing is even checked.
Login(r, s) ==
    /\ state = "ready"
    /\ Check("login", Of(r, s))

\* testCredential()
TestCredential(r) ==
    /\ Stored(r) # NoSecret
    /\ Check("test", Of(r, Stored(r)))

\* store(), and writeBackToCli(): either may fail.
StoreLogin(c) ==
    \/ UNCHANGED <<walletVars, auths, forgotten>>
    \/ /\ Usable
       /\ entries' = [entries EXCEPT ![c.registry] = c.secret]
       /\ auths' \in {auths} \cup (IF UpsertMay(c.secret) THEN {Upserted(c.registry, c.secret)} ELSE {})
       /\ forgotten' = forgotten \ {c.registry}
       /\ UNCHANGED <<wallet, state>>
       /\ ReloadList

\* handleAuthCheckFinished(): the slot looks at its own members, not at the address.  What is
\* left in m_pendingLogin is not read until the next login replaces it.
Finished(ok) ==
    /\ IF checking = "login" /\ ok
       THEN StoreLogin(pending)
       ELSE UNCHANGED <<walletVars, auths, forgotten>>
    /\ checking' = "none"
    /\ pending' = NoCredential
    /\ loginBusy' = FALSE
    /\ UNCHANGED <<parsable, cliEdits, abandons>>

\* The finished handler of POST /auth.
CheckAnswered(c, ok) ==
    /\ c \in wire
    /\ wire' = wire \ {c}
    /\ Finished(ok)
    /\ accepted' = IF ok THEN accepted \cup {c} ELSE accepted
    /\ UNCHANGED <<handshakeVars, queued>>

\* Fault: only the wallet forgets the credential.
RemoveFromWalletOnly(r) ==
    /\ RemoveFromWallet(r)
    /\ forgotten' = forgotten \cup {r}
    /\ UNCHANGED <<handshakeVars, cliVars, checkVars, accepted>>

\* removeCredential(): from the wallet, then from the file; either may fail.
RemoveCredential(r) ==
    /\ RemoveFromWallet(r)
    /\ \/ RemoveMay /\ auths' = WithoutEntry(r) /\ forgotten' = forgotten \cup {r}
       \/ UNCHANGED <<auths, forgotten>>
    /\ UNCHANGED <<handshakeVars, parsable, cliEdits, checkVars, accepted>>

-----------------------------------------------------------------------------
\* The handshake.

RefreshInfo ==
    /\ ~engineBusy /\ RefreshEngineInfo
    /\ UNCHANGED <<walletVars, cliVars, checkVars, accepted, forgotten>>

HandshakeGoesOn ==
    /\ PingPasses \/ VersionPasses
    /\ UNCHANGED <<walletVars, cliVars, checkVars, accepted, forgotten>>

\* flushReadyCallbacks(): the checks are sent.  The counts of /info play no part here.
HandshakeEnds ==
    /\ HandshakeSucceeds /\ countsAvailable' = TRUE
    /\ wire' = wire \cup queued
    /\ queued' = {}
    /\ UNCHANGED <<walletVars, cliVars, checking, pending, loginBusy, abandons, accepted, forgotten>>

\* Fault: the page is released although a check may still be on the wire.
DropChecksAndRelease ==
    /\ queued' = {}
    /\ loginBusy' = FALSE
    /\ UNCHANGED <<walletVars, cliVars, checking, pending, wire, accepted, forgotten>>

\* flushReadyCallbacks() with an error reports the engine section, not the check: nobody
\* releases the page.
DropChecks ==
    /\ queued' = {}
    /\ UNCHANGED <<walletVars, cliVars, checking, pending, loginBusy, wire, accepted, forgotten>>

HandshakeFailed ==
    /\ \E s \in {"ping", "version"} : HandshakeFails(s)
    /\ DropChecks
    /\ UNCHANGED abandons

\* abandonInFlightRequests(): a check that has been sent is still answered.
Abandon ==
    /\ abandons < MaxAbandons
    /\ abandons' = abandons + 1
    /\ AbandonHandshake
    /\ DropChecks

-----------------------------------------------------------------------------

LoginInit ==
    /\ HandshakeInit
    /\ wallet = "none" /\ state = "closed"
    /\ entries \in [Registries -> Maybe(Passwords) \cup {BrokenEntry}]
    /\ shown = Nothing
    /\ auths \in [Registries -> [auth : Maybe(Passwords), token : {NoSecret}]]
    /\ parsable = TRUE
    /\ checking = "none" /\ loginBusy = FALSE
    /\ pending = NoCredential
    /\ queued = {} /\ wire = {}
    /\ accepted = {Of(r, entries[r]) : r \in {q \in Registries : entries[q] \in Secrets}}
    /\ forgotten = {}
    /\ cliEdits = 0 /\ abandons = 0

LoginNext ==
    \/ WalletOpened
    \/ WalletLost
    \/ FileEdited
    \/ Refresh
    \/ \E r \in Registries, s \in Secrets : Login(r, s)
    \/ \E r \in Registries : TestCredential(r) \/ RemoveCredential(r)
    \/ \E c \in Credentials, ok \in BOOLEAN : CheckAnswered(c, ok)
    \/ RefreshInfo
    \/ HandshakeGoesOn
    \/ HandshakeEnds
    \/ HandshakeFailed
    \/ Abandon

LoginSpec == LoginInit /\ [][LoginNext]_loginVars

-----------------------------------------------------------------------------

\* The types of the variables.
LoginTypeOK ==
    /\ HandshakeTypeOK
    /\ wallet \in {"none", "asked", "open", "lost"}
    /\ state \in {"closed", "opening", "ready", "unavailable"}
    /\ entries \in [Registries -> Maybe(Secrets) \cup {BrokenEntry}]
    /\ shown \in [Registries -> Maybe(Secrets)]
    /\ auths \in [Registries -> [auth : Maybe(Passwords), token : Maybe(Tokens)]]
    /\ parsable \in BOOLEAN /\ loginBusy \in BOOLEAN
    /\ checking \in {"none", "login", "test"}
    /\ pending \in Credentials \cup {NoCredential}
    /\ queued \subseteq Credentials /\ wire \subseteq Credentials
    /\ accepted \subseteq Credentials
    /\ forgotten \subseteq Registries

\* Whatever the wallet holds was accepted by its registry, or read from the file: the verdict
\* that reaches the slot is always about the credential the slot will store, over every order
\* of checks, failed handshakes and the watchdog (RegistryAuthController, "validate before
\* saving").
StoredIsAccepted ==
    \A r \in Registries : entries[r] \in Secrets => Of(r, entries[r]) \in accepted

\* A credential that was removed from wallet and file does not come back by the silent import.
ForgottenStaysForgotten ==
    \A r \in forgotten : entries[r] = NoSecret

\* The list shows the credentials the wallet holds, from the moment it opens: imports, logins and
\* removals each reach the list by a signal of their own.
ListShowsWallet ==
    wallet = "open" => state = "ready" /\ shown = Decoded(entries)

\* A comment of the backend interface says that the result of a check arrives via
\* registryAuthChecked(): while the page waits for one, there is a check to be answered.
\* It does not hold: a check dropped with its handshake is never answered.
BusyHasCheck == loginBusy => queued \cup wire # {}
=============================================================================
