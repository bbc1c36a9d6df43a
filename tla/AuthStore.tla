------------------------------ MODULE AuthStore ------------------------------
(***************************************************************************)
(* The authentication half of the server: accounts, passkeys, ceremony     *)
(* challenges, recovery codes, device installations, auth sessions and     *)
(* their families of refresh tokens.                                       *)
(*                                                                         *)
(* A method of server/internal/store/auth.go is one statement or one       *)
(* transaction.  The transactions that meet on a row take it FOR UPDATE or *)
(* update it, and a SERIALIZABLE one that loses is rolled back, so each    *)
(* method is one step.  A handler of server/internal/auth/service.go makes *)
(* several such calls, with the verification of a passkey or of a slow     *)
(* recovery-code hash between them: request[r] is a handler in that gap,   *)
(* with what it read before.  Authenticate puts an authenticated handler   *)
(* in the same gap, between the middleware and its first store call.       *)
(*                                                                         *)
(* Abstracted: the bytes of tokens, codes and passkeys (knowing an id is   *)
(* holding the secret), names and labels, last_seen_at, revoke_reason,     *)
(* the lifetime of access tokens (the bearer of a request is any session), *)
(* and the difference between the process's and the database's clock.      *)
(***************************************************************************)
EXTENDS Integers

CONSTANTS
  Accounts,      \* account ids
  Installs,      \* installation ids, chosen by the devices
  Passkeys,      \* WebAuthn credential ids
  Challenges,    \* ceremony ids
  AuthSessions,  \* auth session ids
  Tokens,        \* refresh token ids
  Positions,     \* positions of a recovery kit
  Requests,      \* handlers that may run at once
  None,          \* SQL NULL
  RefreshTTL,    \* lifetime of a session and of a refresh token
  ChallengeTTL,  \* lifetime of a challenge
  MaxClock,      \* bound on the clock
  MaxKits        \* bound on the recovery kits of an account

ASSUME AuthAssumption ==
  /\ None \notin Accounts \cup Installs \cup Passkeys \cup Challenges
  /\ None \notin AuthSessions \cup Tokens \cup Positions
  /\ RefreshTTL \in Nat \ {0} /\ ChallengeTTL \in Nat \ {0}
  /\ MaxClock \in Nat /\ MaxKits \in Nat \ {0}

VARIABLES
  clock,        \* now
  account,      \* account[a]: the status of accounts row a
  passkey,      \* passkey[k]: webauthn_credentials row k
  challenge,    \* challenge[h]: auth_challenges row h
  kit,          \* kit[a]: which kit's hashes fill recovery_codes, 0 for none
  usedCodes,    \* usedCodes[a]: the positions whose used_at is set
  install,      \* install[i][a]: device_installs row (i, a)
  authSession,  \* authSession[s]: auth_sessions row s
  token,        \* token[t]: refresh_tokens row t
  request       \* request[r]: a handler between two store calls

ceremonyVars == <<account, passkey, challenge, kit, usedCodes>>
sessionVars == <<install, authSession, token>>
vars == <<clock, ceremonyVars, sessionVars, request>>

NoPasskey == [state |-> "absent", owner |-> None]
NoChallenge ==
  [state |-> "absent", purpose |-> "login", account |-> None, expires |-> 0]
NoOrigin == [challenge |-> None, row |-> 0, position |-> None]
NoAuthSession ==
  [state |-> "absent", account |-> None, install |-> None, passkey |-> None,
   expires |-> 0, origin |-> NoOrigin]
NoToken ==
  [state |-> "absent", revoked |-> FALSE, session |-> None, family |-> None,
   expires |-> 0]
Idle ==
  [op |-> "idle", account |-> None, passkey |-> None, challenge |-> None,
   position |-> None]

(* How a session was opened, a history the code does not keep: the         *)
(* challenge it answered, or the recovery row it spent (kit and position). *)
Origin ==
  [challenge : Challenges \cup {None}, row : Nat,
   position : Positions \cup {None}]

TypeOK ==
  /\ clock \in 0..MaxClock
  /\ account \in [Accounts -> {"absent", "pending", "active"}]
  /\ passkey \in [Passkeys -> [state : {"absent", "active", "revoked"},
                               owner : Accounts \cup {None}]]
  /\ challenge \in [Challenges ->
       [state : {"absent", "open", "consumed"},
        purpose : {"register_account", "login", "add_passkey"},
        account : Accounts \cup {None}, expires : Nat]]
  /\ kit \in [Accounts -> 0..MaxKits]
  /\ usedCodes \in [Accounts -> SUBSET Positions]
  /\ install \in [Installs -> [Accounts -> {"absent", "active", "revoked"}]]
  /\ authSession \in [AuthSessions ->
       [state : {"absent", "live", "revoked"}, account : Accounts \cup {None},
        install : Installs \cup {None}, passkey : Passkeys \cup {None},
        expires : Nat, origin : Origin]]
  /\ token \in [Tokens ->
       [state : {"absent", "fresh", "consumed"}, revoked : BOOLEAN,
        session : AuthSessions \cup {None}, family : Tokens \cup {None},
        expires : Nat]]
  /\ request \in [Requests ->
       [op : {"idle", "register", "login", "recover", "authed", "add_passkey"},
        account : Accounts \cup {None}, passkey : Passkeys \cup {None},
        challenge : Challenges \cup {None}, position : Positions \cup {None}]]

Init ==
  /\ clock = 0
  /\ account = [a \in Accounts |-> "absent"]
  /\ passkey = [k \in Passkeys |-> NoPasskey]
  /\ challenge = [h \in Challenges |-> NoChallenge]
  /\ kit = [a \in Accounts |-> 0]
  /\ usedCodes = [a \in Accounts |-> {}]
  /\ install = [i \in Installs |-> [a \in Accounts |-> "absent"]]
  /\ authSession = [s \in AuthSessions |-> NoAuthSession]
  /\ token = [t \in Tokens |-> NoToken]
  /\ request = [r \in Requests |-> Idle]

(* uuid.New() for a table: an id no row has.  Which one makes no           *)
(* difference, so the choice is fixed.                                     *)
New(table) == CHOOSE x \in DOMAIN table : table[x].state = "absent"

(***************************************************************************)
(* Challenges.                                                             *)
(***************************************************************************)
CreateChallenge(h, purpose, a) ==
  /\ challenge[h].state = "absent" /\ h = New(challenge)
  /\ challenge' = [challenge EXCEPT ![h] =
       [state |-> "open", purpose |-> purpose, account |-> a,
        expires |-> clock + ChallengeTTL]]

ConsumeChallenge(h, purpose) ==
  /\ challenge[h].state = "open"
  /\ challenge[h].purpose = purpose
  /\ clock < challenge[h].expires
  /\ challenge' = [challenge EXCEPT ![h].state = "consumed"]

(***************************************************************************)
(* Sessions and refresh tokens.                                            *)
(***************************************************************************)

(* createSession: the installation is upserted, which revives a revoked    *)
(* one, and the session starts a family with its first token.              *)
CreateSession(a, k, i, s, t, origin) ==
  /\ authSession[s].state = "absent" /\ s = New(authSession)
  /\ token[t].state = "absent" /\ t = New(token)
  /\ install' = [install EXCEPT ![i][a] = "active"]
  /\ authSession' = [authSession EXCEPT ![s] =
       [state |-> "live", account |-> a, install |-> i, passkey |-> k,
        expires |-> clock + RefreshTTL, origin |-> origin]]
  /\ token' = [token EXCEPT ![t] =
       [state |-> "fresh", revoked |-> FALSE, session |-> s, family |-> t,
        expires |-> clock + RefreshTTL]]

(* ValidateAuthSession, the query behind every authenticated request.      *)
Valid(s) ==
  LET row == authSession[s] IN
  /\ row.state = "live"
  /\ clock < row.expires
  /\ install[row.install][row.account] = "active"
  /\ account[row.account] = "active"
  /\ row.passkey # None => passkey[row.passkey].state = "active"

(* What RotateRefresh asks of an unconsumed token.  It does not look at    *)
(* the session's passkey, and now.After lets the last instant pass.        *)
Rotatable(t) ==
  LET row == authSession[token[t].session] IN
  /\ token[t].state = "fresh"
  /\ ~token[t].revoked
  /\ row.state = "live"
  /\ install[row.install][row.account] = "active"
  /\ account[row.account] = "active"
  /\ clock <= token[t].expires
  /\ clock <= row.expires

(* A rotation that forgets to consume the old token.                       *)
RotateRefresh_OldStaysFresh(t, u) ==
  /\ Rotatable(t)
  /\ token[u].state = "absent" /\ u = New(token)
  /\ token' = [token EXCEPT ![u] = [token[t] EXCEPT !.expires = clock + RefreshTTL]]
  /\ UNCHANGED <<clock, ceremonyVars, install, authSession, request>>

(* RotateRefresh of a token nobody used before: u replaces t.              *)
RotateRefresh(t, u) ==
  /\ Rotatable(t)
  /\ token[u].state = "absent" /\ u = New(token)
  /\ token' = [token EXCEPT ![t].state = "consumed",
                            ![u] = [state |-> "fresh", revoked |-> FALSE,
                                    session |-> token[t].session,
                                    family |-> token[t].family,
                                    expires |-> clock + RefreshTTL]]
  /\ UNCHANGED <<clock, ceremonyVars, install, authSession, request>>

(* A reuse that ends the tokens and leaves the session.                    *)
RefreshReuse_SessionLeft(t) ==
  /\ token[t].state = "consumed"
  /\ token' = [u \in Tokens |->
       IF token[u].family = token[t].family
       THEN [token[u] EXCEPT !.revoked = TRUE] ELSE token[u]]
  /\ UNCHANGED <<clock, ceremonyVars, install, authSession, request>>

(* RotateRefresh of a consumed token: the family and the session end.      *)
RefreshReuse(t) ==
  /\ token[t].state = "consumed"
  /\ token' = [u \in Tokens |->
       IF token[u].family = token[t].family
       THEN [token[u] EXCEPT !.revoked = TRUE] ELSE token[u]]
  /\ authSession' = [authSession EXCEPT ![token[t].session].state = "revoked"]
  /\ UNCHANGED <<clock, ceremonyVars, install, request>>

(* An UPDATE that revokes the sessions of the set S.                       *)
SessionsRevoked(S) ==
  [s \in AuthSessions |->
     IF s \in S THEN [authSession[s] EXCEPT !.state = "revoked"]
     ELSE authSession[s]]

(***************************************************************************)
(* Registration.  Begin inserts the pending account and then the           *)
(* challenge; when the second insert and the clean-up after it fail, the   *)
(* account stays pending for ever.  Finish consumes the challenge,         *)
(* verifies the new passkey, and activates the account.                    *)
(***************************************************************************)
CreatePendingAccount(a) ==
  /\ account[a] = "absent"
  /\ account' = [account EXCEPT ![a] = "pending"]

BeginAccountRegistration(a, h) ==
  /\ CreatePendingAccount(a)
  /\ CreateChallenge(h, "register_account", a) \/ UNCHANGED challenge
  /\ UNCHANGED <<clock, passkey, kit, usedCodes, sessionVars, request>>

FinishAccountRegistration(r, h) ==
  /\ request[r] = Idle
  /\ ConsumeChallenge(h, "register_account")
  /\ \/ request' = [request EXCEPT ![r] =
          [Idle EXCEPT !.op = "register", !.account = challenge[h].account,
                       !.challenge = h]]
     \/ UNCHANGED request    \* the passkey response did not verify
  /\ UNCHANGED <<clock, account, passkey, kit, usedCodes, sessionVars>>

ActivateAccount(r, k, i, s, t) ==
  LET a == request[r].account IN
  /\ request[r].op = "register"
  /\ account[a] = "pending"
  /\ passkey[k].state = "absent" /\ k = New(passkey)
  /\ account' = [account EXCEPT ![a] = "active"]
  /\ passkey' = [passkey EXCEPT ![k] = [state |-> "active", owner |-> a]]
  /\ kit' = [kit EXCEPT ![a] = 1]
  /\ CreateSession(a, k, i, s, t,
                   [NoOrigin EXCEPT !.challenge = request[r].challenge])
  /\ request' = [request EXCEPT ![r] = Idle]
  /\ UNCHANGED <<clock, challenge, usedCodes>>

(***************************************************************************)
(* Sign-in with a passkey.                                                 *)
(***************************************************************************)
BeginLogin(h) ==
  /\ CreateChallenge(h, "login", None)
  /\ UNCHANGED <<clock, account, passkey, kit, usedCodes, sessionVars, request>>

(* getWebAuthnAccount: the passkeys of an account that are not revoked.    *)
PasskeysOf(a) ==
  {k \in Passkeys : passkey[k].state = "active" /\ passkey[k].owner = a}

(* The passkey names its account, and must be one of the account's.        *)
FinishLogin(r, h, k) ==
  /\ request[r] = Idle
  /\ ConsumeChallenge(h, "login")
  /\ \/ /\ k \in PasskeysOf(passkey[k].owner)
        /\ request' = [request EXCEPT ![r] =
             [Idle EXCEPT !.op = "login", !.account = passkey[k].owner,
                          !.passkey = k, !.challenge = h]]
     \/ UNCHANGED request    \* the passkey response did not verify
  /\ UNCHANGED <<clock, account, passkey, kit, usedCodes, sessionVars>>

CreateLoginSession(r, i, s, t) ==
  /\ request[r].op = "login"
  /\ passkey[request[r].passkey].state = "active"
  /\ CreateSession(request[r].account, request[r].passkey, i, s, t,
                   [NoOrigin EXCEPT !.challenge = request[r].challenge])
  /\ request' = [request EXCEPT ![r] = Idle]
  /\ UNCHANGED <<clock, ceremonyVars>>

(***************************************************************************)
(* Recovery.  The code is verified against the unused hashes read before;  *)
(* then the row at its position is spent.                                  *)
(***************************************************************************)
RecoveryCodes(a) == {p \in Positions : p \notin usedCodes[a]}

Recover_NoMatch(r, a, p) ==    \* the early return for position < 0 is missing
  /\ request[r] = Idle
  /\ account[a] = "active"
  /\ request' = [request EXCEPT ![r] =
       [Idle EXCEPT !.op = "recover", !.account = a, !.position = 0 - 1]]
  /\ UNCHANGED <<clock, ceremonyVars, sessionVars>>

Recover(r, a, p) ==
  /\ request[r] = Idle
  /\ account[a] = "active"
  /\ p \in RecoveryCodes(a)
  /\ request' = [request EXCEPT ![r] =
       [Idle EXCEPT !.op = "recover", !.account = a, !.position = p]]
  /\ UNCHANGED <<clock, ceremonyVars, sessionVars>>

UseRecoveryCode_Unguarded(r, i, s, t) ==    \* without "AND used_at IS NULL"
  LET a == request[r].account
      p == request[r].position
  IN
  /\ request[r].op = "recover"
  /\ usedCodes' = [usedCodes EXCEPT ![a] = @ \cup {p}]
  /\ CreateSession(a, None, i, s, t,
                   [NoOrigin EXCEPT !.row = kit[a], !.position = p])
  /\ request' = [request EXCEPT ![r] = Idle]
  /\ UNCHANGED <<clock, account, passkey, challenge, kit>>

UseRecoveryCode(r, i, s, t) ==
  LET a == request[r].account
      p == request[r].position
  IN
  /\ request[r].op = "recover"
  /\ p \notin usedCodes[a]
  /\ usedCodes' = [usedCodes EXCEPT ![a] = @ \cup {p}]
  /\ CreateSession(a, None, i, s, t,
                   [NoOrigin EXCEPT !.row = kit[a], !.position = p])
  /\ request' = [request EXCEPT ![r] = Idle]
  /\ UNCHANGED <<clock, account, passkey, challenge, kit>>

(***************************************************************************)
(* Authenticated handlers.                                                 *)
(***************************************************************************)
Authenticate(r, s) ==
  /\ request[r] = Idle
  /\ Valid(s)
  /\ request' = [request EXCEPT ![r] =
       [Idle EXCEPT !.op = "authed", !.account = authSession[s].account]]
  /\ UNCHANGED <<clock, ceremonyVars, sessionVars>>

(* The handler of an authenticated request ends with its one store call.   *)
Handled(r) ==
  /\ request[r].op = "authed"
  /\ request' = [request EXCEPT ![r] = Idle]

(* ReplaceRecoveryCodes: the rows are deleted and new ones inserted.       *)
RegenerateRecoveryCodes(r) ==
  LET a == request[r].account IN
  /\ Handled(r)
  /\ kit[a] < MaxKits
  /\ kit' = [kit EXCEPT ![a] = @ + 1]
  /\ usedCodes' = [usedCodes EXCEPT ![a] = {}]
  /\ UNCHANGED <<clock, account, passkey, challenge, sessionVars>>

BeginAddPasskey(r, h) ==
  /\ Handled(r)
  /\ CreateChallenge(h, "add_passkey", request[r].account)
  /\ UNCHANGED <<clock, account, passkey, kit, usedCodes, sessionVars>>

(* A challenge begun by another account is consumed and then refused.      *)
FinishAddPasskey(r, h) ==
  /\ request[r].op = "authed"
  /\ ConsumeChallenge(h, "add_passkey")
  /\ \/ /\ challenge[h].account = request[r].account
        /\ request' = [request EXCEPT ![r].op = "add_passkey"]
     \/ request' = [request EXCEPT ![r] = Idle]
  /\ UNCHANGED <<clock, account, passkey, kit, usedCodes, sessionVars>>

AddCredential(r, k) ==
  /\ request[r].op = "add_passkey"
  /\ passkey[k].state = "absent" /\ k = New(passkey)
  /\ passkey' = [passkey EXCEPT ![k] =
       [state |-> "active", owner |-> request[r].account]]
  /\ request' = [request EXCEPT ![r] = Idle]
  /\ UNCHANGED <<clock, account, challenge, kit, usedCodes, sessionVars>>

RevokeCredential_SessionsLeft(r, k) ==    \* without the second UPDATE
  /\ Handled(r)
  /\ passkey[k].state = "active"
  /\ passkey[k].owner = request[r].account
  /\ passkey' = [passkey EXCEPT ![k].state = "revoked"]
  /\ UNCHANGED <<clock, account, challenge, kit, usedCodes, sessionVars>>

RevokeCredential(r, k) ==
  /\ Handled(r)
  /\ passkey[k].state = "active"
  /\ passkey[k].owner = request[r].account
  /\ passkey' = [passkey EXCEPT ![k].state = "revoked"]
  /\ authSession' = SessionsRevoked({s \in AuthSessions :
       /\ authSession[s].account = request[r].account
       /\ authSession[s].passkey = k})
  /\ UNCHANGED <<clock, account, challenge, kit, usedCodes, install, token>>

(* Logout and the session list's revoke.                                   *)
RevokeSession(r, s) ==
  /\ Handled(r)
  /\ authSession[s].state = "live"
  /\ authSession[s].account = request[r].account
  /\ authSession' = [authSession EXCEPT ![s].state = "revoked"]
  /\ UNCHANGED <<clock, ceremonyVars, install, token>>

RevokeInstallation_SessionsLeft(r, i) ==    \* without the second UPDATE
  /\ Handled(r)
  /\ install[i][request[r].account] = "active"
  /\ install' = [install EXCEPT ![i][request[r].account] = "revoked"]
  /\ UNCHANGED <<clock, ceremonyVars, authSession, token>>

(* The installation's push devices are revoked with it: see PushJobs.      *)
RevokeInstallation(r, i) ==
  /\ Handled(r)
  /\ install[i][request[r].account] = "active"
  /\ install' = [install EXCEPT ![i][request[r].account] = "revoked"]
  /\ authSession' = SessionsRevoked({s \in AuthSessions :
       /\ authSession[s].account = request[r].account
       /\ authSession[s].install = i})
  /\ UNCHANGED <<clock, ceremonyVars, token>>

(* Any other end of a handler after its first call: a refusal (ErrConflict,*)
(* ErrNotFound), a serialization failure, a lost connection, a crash.      *)
HandlerFails(r) ==
  /\ request[r] # Idle
  /\ request' = [request EXCEPT ![r] = Idle]
  /\ UNCHANGED <<clock, ceremonyVars, sessionVars>>

Tick ==
  /\ clock < MaxClock
  /\ clock' = clock + 1
  /\ UNCHANGED <<ceremonyVars, sessionVars, request>>

(***************************************************************************)
(* The specification.                                                      *)
(***************************************************************************)
(* A handler that opens a session for the device i.                        *)
OpensSession(r, i, s, t) ==
  \/ \E k \in Passkeys : ActivateAccount(r, k, i, s, t)
  \/ CreateLoginSession(r, i, s, t)
  \/ UseRecoveryCode(r, i, s, t)

Ceremony(r) ==
  \/ \E h \in Challenges :
       \/ FinishAccountRegistration(r, h)
       \/ \E k \in Passkeys : FinishLogin(r, h, k)
       \/ BeginAddPasskey(r, h)
       \/ FinishAddPasskey(r, h)
  \/ \E a \in Accounts, p \in Positions : Recover(r, a, p)
  \/ \E s \in AuthSessions : Authenticate(r, s) \/ RevokeSession(r, s)
  \/ \E k \in Passkeys : AddCredential(r, k) \/ RevokeCredential(r, k)
  \/ \E i \in Installs : RevokeInstallation(r, i)
  \/ RegenerateRecoveryCodes(r)
  \/ HandlerFails(r)

Refresh(t) == RefreshReuse(t) \/ \E u \in Tokens : RotateRefresh(t, u)

Next ==
  \/ \E h \in Challenges :
       BeginLogin(h) \/ \E a \in Accounts : BeginAccountRegistration(a, h)
  \/ \E r \in Requests : Ceremony(r)
  \/ \E r \in Requests, i \in Installs, s \in AuthSessions, t \in Tokens :
       OpensSession(r, i, s, t)
  \/ \E t \in Tokens : Refresh(t)
  \/ Tick

Spec == Init /\ [][Next]_vars

(***************************************************************************)
(* Properties.                                                             *)
(***************************************************************************)

(* A session that stopped being valid, because it was logged out, revoked, *)
(* expired, or because its passkey or its installation was revoked, is     *)
(* never accepted again by ValidateAuthSession.  A later sign-in on the    *)
(* same device revives the installation row, and must not revive the       *)
(* sessions that were ended with it.                                       *)
NeverValidAgain ==
  [][\A s \in AuthSessions :
       authSession[s].state # "absent" /\ ~Valid(s) => ~Valid(s)']_vars

(* Of the tokens issued for a session at most one is unconsumed, however   *)
(* rotations, replays and sign-ins interleave.                             *)
OneLiveToken ==
  \A t, u \in Tokens :
    /\ token[t].state = "fresh" /\ token[u].state = "fresh"
    /\ token[t].session = token[u].session
    => t = u

(* A refresh token works only for a session that works: RotateRefresh does *)
(* not look at the passkey the session was opened with, and still never    *)
(* renews a session whose passkey was revoked, also when the sign-in was   *)
(* in flight at the time.  The one instant excepted is the expiry itself,  *)
(* where now.After is still false and expires_at > now no longer true.     *)
RotatableIsValid ==
  \A t \in Tokens :
    /\ Rotatable(t)
    /\ clock # authSession[token[t].session].expires
    => Valid(token[t].session)

(* Once a consumed token was presented again, every token of its family    *)
(* is refused and its session is refused, for good.                        *)
ReuseEndsFamily ==
  \A t, u \in Tokens :
    token[t].revoked /\ token[u].family = token[t].family
    => ~Rotatable(u) /\ ~Valid(token[u].session)

(* A challenge, and a row of recovery_codes, opens at most one session,    *)
(* although verifying the answer lies between reading and spending it.     *)
OneSessionPerProof ==
  \A s, z \in AuthSessions :
    /\ authSession[s].state # "absent" /\ authSession[z].state # "absent"
    /\ authSession[s].origin.challenge = authSession[z].origin.challenge
    /\ authSession[s].origin.row = authSession[z].origin.row
    /\ authSession[s].origin.position = authSession[z].origin.position
    /\ authSession[s].account = authSession[z].account
    => s = z
=============================================================================
