--------------------------- MODULE AuthStoreProofs ----------------------------
(***************************************************************************)
(* Proofs about AuthStore, for every number of accounts, devices, passkeys,*)
(* sessions, tokens and handlers running at once, and for every lifetime.  *)
(*                                                                         *)
(* None of the properties is inductive alone.  Inv, below, is: it says     *)
(* what a handler may rely on of what it read before its verification,     *)
(* that a live session's device, account and passkey are all in order,     *)
(* that a family of tokens belongs to one session, and which proofs are    *)
(* spent.                                                                  *)
(***************************************************************************)
EXTENDS AuthStore, TLAPS

-----------------------------------------------------------------------------
(* The inductive invariant                                                 *)

(* A passkey belongs to an active account; an account that is not active   *)
(* has no recovery kit; a challenge for an account names it.               *)
PasskeysOwned ==
  \A k \in Passkeys : passkey[k].state # "absent" =>
    passkey[k].owner \in Accounts /\ account[passkey[k].owner] = "active"

KitsOfActive == \A a \in Accounts : account[a] # "active" => kit[a] = 0

ChallengesNamed ==
  \A h \in Challenges :
    challenge[h].state # "absent" /\ challenge[h].purpose # "login"
    => challenge[h].account \in Accounts

(* A handler between two calls: what it read still holds, because accounts *)
(* stay active, passkeys keep their owner and challenges stay consumed.    *)
RequestOK(q) ==
  /\ q.op # "idle" => q.account \in Accounts
  /\ q.op \in {"login", "recover", "authed", "add_passkey"} =>
       account[q.account] = "active"
  /\ q.op \in {"register", "login"} =>
       q.challenge \in Challenges /\ challenge[q.challenge].state = "consumed"
  /\ q.op = "login" => /\ q.passkey \in Passkeys
                       /\ passkey[q.passkey].state # "absent"
                       /\ passkey[q.passkey].owner = q.account
  /\ q.op = "recover" => q.position \in Positions

RequestsOK == \A r \in Requests : RequestOK(request[r])

(* A session names its account and device, and a passkey of its account;   *)
(* while it is live all three are in order, so that only its state and its *)
(* expiry decide whether it is valid.                                      *)
SessionOK(row) ==
  /\ row.account \in Accounts /\ row.install \in Installs
  /\ row.passkey # None => /\ passkey[row.passkey].state # "absent"
                           /\ passkey[row.passkey].owner = row.account
  /\ row.state = "live" =>
       /\ install[row.install][row.account] = "active"
       /\ account[row.account] = "active"
       /\ row.passkey # None => passkey[row.passkey].state = "active"

SessionsOK ==
  \A s \in AuthSessions :
    IF authSession[s].state = "absent" THEN authSession[s] = NoAuthSession
    ELSE SessionOK(authSession[s])

(* A token belongs to an existing session and to the family of an existing *)
(* token, and a family has one session.                                    *)
TokensOK ==
  /\ \A t \in Tokens :
       IF token[t].state = "absent" THEN token[t] = NoToken
       ELSE /\ token[t].session \in AuthSessions
            /\ authSession[token[t].session].state # "absent"
            /\ token[t].family \in Tokens
            /\ token[token[t].family].state # "absent"
  /\ \A t, u \in Tokens :
       /\ token[t].state # "absent" /\ token[u].state # "absent"
       /\ token[t].family = token[u].family
       => token[t].session = token[u].session

(* A reuse ended the whole family and its session.                         *)
FamiliesEnd ==
  \A t, u \in Tokens :
    token[t].revoked /\ token[u].family = token[t].family
    => token[u].revoked /\ authSession[token[u].session].state = "revoked"

(* Where the sessions come from: a challenge that is consumed and that no  *)
(* handler still holds, or a spent row of a recovery kit.                  *)
Opens(q) == q.op \in {"register", "login"}

ChallengeSpent(h) ==
  /\ h \in Challenges /\ challenge[h].state = "consumed"
  /\ \A r \in Requests : Opens(request[r]) => request[r].challenge # h

RowSpent(a, o) ==
  /\ o.challenge = None
  /\ o.row =< kit[a]
  /\ o.row = kit[a] => o.position \in usedCodes[a]

HeldByOne ==
  \A r, q \in Requests :
    /\ Opens(request[r]) /\ Opens(request[q])
    /\ request[r].challenge = request[q].challenge
    => r = q

OriginsSpent ==
  /\ \A s \in AuthSessions : authSession[s].state # "absent" =>
       \/ ChallengeSpent(authSession[s].origin.challenge)
       \/ RowSpent(authSession[s].account, authSession[s].origin)
  /\ HeldByOne

Inv ==
  /\ TypeOK
  /\ PasskeysOwned /\ KitsOfActive /\ ChallengesNamed /\ RequestsOK
  /\ SessionsOK /\ TokensOK /\ FamiliesEnd /\ OriginsSpent
  /\ OneLiveToken /\ OneSessionPerProof

-----------------------------------------------------------------------------
(* What a step does to each table                                          *)

(* The actions that open a session, and those that write one table.        *)
Opened ==
  \E r \in Requests, i \in Installs, s \in AuthSessions, t \in Tokens :
    OpensSession(r, i, s, t)

Activated ==
  \E r \in Requests, k \in Passkeys, i \in Installs, s \in AuthSessions, t \in Tokens :
    ActivateAccount(r, k, i, s, t)

AccountStep ==
  \/ UNCHANGED account
  \/ \E a \in Accounts : CreatePendingAccount(a) /\ UNCHANGED kit
  \/ Activated

PasskeyStep ==
  \/ UNCHANGED passkey
  \/ \E r \in Requests, k \in Passkeys : AddCredential(r, k) \/ RevokeCredential(r, k)
  \/ Activated

ChallengeStep ==
  \/ UNCHANGED challenge
  \/ \E h \in Challenges : CreateChallenge(h, "login", None)
  \/ \E h \in Challenges, a \in Accounts, purpose \in {"register_account", "add_passkey"} :
       CreateChallenge(h, purpose, a)
  \/ \E h \in Challenges, purpose \in {"register_account", "login", "add_passkey"} :
       ConsumeChallenge(h, purpose)

CodesStep ==
  \/ UNCHANGED <<kit, usedCodes>>
  \/ \E r \in Requests : RegenerateRecoveryCodes(r)
  \/ Opened

InstallStep ==
  \/ UNCHANGED install
  \/ \E r \in Requests, i \in Installs : RevokeInstallation(r, i)
  \/ Opened

TokenStep ==
  \/ UNCHANGED token
  \/ \E t \in Tokens : RefreshReuse(t) \/ \E u \in Tokens : RotateRefresh(t, u)
  \/ Opened

Existing == {s \in AuthSessions : authSession[s].state # "absent"}

AuthSessionStep ==
  \/ UNCHANGED authSession
  \/ \E S \in SUBSET Existing :
       authSession' = SessionsRevoked(S) /\ UNCHANGED token
  \/ \E t \in Tokens : RefreshReuse(t)
  \/ Opened

RequestStep ==
  \/ UNCHANGED request
  \/ \E r \in Requests :
       \/ request' = [request EXCEPT ![r] = Idle]
       \/ \E h \in Challenges :
            \/ FinishAccountRegistration(r, h)
            \/ \E k \in Passkeys : FinishLogin(r, h, k)
            \/ FinishAddPasskey(r, h)
       \/ \E a \in Accounts, p \in Positions : Recover(r, a, p)
       \/ \E s \in AuthSessions : Authenticate(r, s)

ClockStep == UNCHANGED clock \/ Tick

(* Every step is one of these for each table.                              *)
StepByTable ==
  /\ ClockStep
  /\ AccountStep /\ PasskeyStep /\ ChallengeStep /\ CodesStep /\ InstallStep
  /\ TokenStep /\ AuthSessionStep /\ RequestStep

(* Case by case, that is what the actions say.                             *)
LEMMA Steps ==
  ASSUME Inv, [Next]_vars
  PROVE  StepByTable
  <1>1. ASSUME NEW h \in Challenges, BeginLogin(h)
        PROVE  StepByTable
    BY <1>1 DEF BeginLogin, sessionVars,
          AccountStep, PasskeyStep, ChallengeStep, CodesStep,
          InstallStep, TokenStep, AuthSessionStep, RequestStep, ClockStep,
          StepByTable
  <1>2. ASSUME NEW a \in Accounts, NEW h \in Challenges, BeginAccountRegistration(a, h)
        PROVE  StepByTable
    BY <1>2 DEF BeginAccountRegistration, sessionVars,
          AccountStep, PasskeyStep, ChallengeStep, CodesStep,
          InstallStep, TokenStep, AuthSessionStep, RequestStep, ClockStep,
          StepByTable
  <1>3. ASSUME NEW r \in Requests, NEW h \in Challenges, FinishAccountRegistration(r, h)
        PROVE  StepByTable
    BY <1>3 DEF FinishAccountRegistration, sessionVars,
          AccountStep, PasskeyStep, ChallengeStep, CodesStep,
          InstallStep, TokenStep, AuthSessionStep, RequestStep, ClockStep,
          StepByTable
  <1>4. ASSUME NEW r \in Requests, NEW h \in Challenges, NEW k \in Passkeys, FinishLogin(r, h, k)
        PROVE  StepByTable
    BY <1>4 DEF FinishLogin, sessionVars,
          AccountStep, PasskeyStep, ChallengeStep, CodesStep,
          InstallStep, TokenStep, AuthSessionStep, RequestStep, ClockStep,
          StepByTable
  <1>5. ASSUME NEW r \in Requests, NEW h \in Challenges, BeginAddPasskey(r, h)
        PROVE  StepByTable
    <2>1. request[r].account \in Accounts
      BY <1>5 DEF BeginAddPasskey, Handled, Inv, RequestsOK, RequestOK
    <2>2. PICK b \in Accounts : b = request[r].account
      BY <2>1
    <2>3. CreateChallenge(h, "add_passkey", b)
      BY <1>5, <2>2 DEF BeginAddPasskey, CreateChallenge
    <2> QED
      BY <1>5, <2>3 DEF BeginAddPasskey, Handled, sessionVars,
            AccountStep, PasskeyStep, ChallengeStep, CodesStep,
            InstallStep, TokenStep, AuthSessionStep, RequestStep, ClockStep,
          StepByTable
  <1>6. ASSUME NEW r \in Requests, NEW h \in Challenges, FinishAddPasskey(r, h)
        PROVE  StepByTable
    BY <1>6 DEF FinishAddPasskey, sessionVars,
          AccountStep, PasskeyStep, ChallengeStep, CodesStep,
          InstallStep, TokenStep, AuthSessionStep, RequestStep, ClockStep,
          StepByTable
  <1>7. ASSUME NEW r \in Requests, NEW a \in Accounts, NEW p \in Positions, Recover(r, a, p)
        PROVE  StepByTable
    BY <1>7 DEF Recover, ceremonyVars, sessionVars,
          AccountStep, PasskeyStep, ChallengeStep, CodesStep,
          InstallStep, TokenStep, AuthSessionStep, RequestStep, ClockStep,
          StepByTable
  <1>8. ASSUME NEW r \in Requests, NEW s \in AuthSessions, Authenticate(r, s)
        PROVE  StepByTable
    BY <1>8 DEF Authenticate, ceremonyVars, sessionVars,
          AccountStep, PasskeyStep, ChallengeStep, CodesStep,
          InstallStep, TokenStep, AuthSessionStep, RequestStep, ClockStep,
          StepByTable
  <1>9. ASSUME NEW r \in Requests, NEW s \in AuthSessions, RevokeSession(r, s)
        PROVE  StepByTable
    <2>1. authSession' = SessionsRevoked({s}) /\ {s} \in SUBSET Existing
      BY <1>9 DEF RevokeSession, Existing, SessionsRevoked, Inv, TypeOK
    <2> QED
      BY <1>9, <2>1 DEF RevokeSession, Handled, ceremonyVars,
            AccountStep, PasskeyStep, ChallengeStep, CodesStep,
            InstallStep, TokenStep, AuthSessionStep, RequestStep, ClockStep,
          StepByTable
  <1>10. ASSUME NEW r \in Requests, NEW k \in Passkeys, AddCredential(r, k)
        PROVE  StepByTable
    BY <1>10 DEF AddCredential, sessionVars,
          AccountStep, PasskeyStep, ChallengeStep, CodesStep,
          InstallStep, TokenStep, AuthSessionStep, RequestStep, ClockStep,
          StepByTable
  <1>11. ASSUME NEW r \in Requests, NEW k \in Passkeys, RevokeCredential(r, k)
        PROVE  StepByTable
    <2> DEFINE S == {s \in AuthSessions :
                       /\ authSession[s].account = request[r].account
                       /\ authSession[s].passkey = k}
    <2>1. request[r].account \in Accounts
      BY <1>11 DEF RevokeCredential, Handled, Inv, RequestsOK, RequestOK
    <2>2. \A s \in AuthSessions : authSession[s].state = "absent" =>
            authSession[s].account = None
      BY DEF Inv, SessionsOK, NoAuthSession
    <2>3. S \in SUBSET Existing
      BY <2>1, <2>2, AuthAssumption DEF Existing
    <2>4. authSession' = SessionsRevoked(S)
      BY <1>11 DEF RevokeCredential
    <2> HIDE DEF S
    <2> QED
      BY <1>11, <2>3, <2>4 DEF RevokeCredential, Handled,
            AccountStep, PasskeyStep, ChallengeStep, CodesStep,
            InstallStep, TokenStep, AuthSessionStep, RequestStep, ClockStep,
            StepByTable
  <1>12. ASSUME NEW r \in Requests, NEW i \in Installs, RevokeInstallation(r, i)
        PROVE  StepByTable
    <2> DEFINE S == {s \in AuthSessions :
                       /\ authSession[s].account = request[r].account
                       /\ authSession[s].install = i}
    <2>1. request[r].account \in Accounts
      BY <1>12 DEF RevokeInstallation, Handled, Inv, RequestsOK, RequestOK
    <2>2. \A s \in AuthSessions : authSession[s].state = "absent" =>
            authSession[s].account = None
      BY DEF Inv, SessionsOK, NoAuthSession
    <2>3. S \in SUBSET Existing
      BY <2>1, <2>2, AuthAssumption DEF Existing
    <2>4. authSession' = SessionsRevoked(S)
      BY <1>12 DEF RevokeInstallation
    <2> HIDE DEF S
    <2> QED
      BY <1>12, <2>3, <2>4 DEF RevokeInstallation, Handled, ceremonyVars,
            AccountStep, PasskeyStep, ChallengeStep, CodesStep,
            InstallStep, TokenStep, AuthSessionStep, RequestStep, ClockStep,
            StepByTable
  <1>13. ASSUME NEW r \in Requests, RegenerateRecoveryCodes(r)
        PROVE  StepByTable
    BY <1>13 DEF RegenerateRecoveryCodes, Handled, sessionVars,
          AccountStep, PasskeyStep, ChallengeStep, CodesStep,
          InstallStep, TokenStep, AuthSessionStep, RequestStep, ClockStep,
          StepByTable
  <1>14. ASSUME NEW r \in Requests, HandlerFails(r)
        PROVE  StepByTable
    BY <1>14 DEF HandlerFails, ceremonyVars, sessionVars,
          AccountStep, PasskeyStep, ChallengeStep, CodesStep,
          InstallStep, TokenStep, AuthSessionStep, RequestStep, ClockStep,
          StepByTable
  <1>15. ASSUME NEW r \in Requests, NEW k \in Passkeys, NEW i \in Installs,
               NEW s \in AuthSessions, NEW t \in Tokens, ActivateAccount(r, k, i, s, t)
        PROVE  StepByTable
    BY <1>15 DEF ActivateAccount, OpensSession, Opened, Activated,
          AccountStep, PasskeyStep, ChallengeStep, CodesStep,
          InstallStep, TokenStep, AuthSessionStep, RequestStep, ClockStep,
          StepByTable
  <1>16. ASSUME NEW r \in Requests, NEW i \in Installs,
               NEW s \in AuthSessions, NEW t \in Tokens, CreateLoginSession(r, i, s, t)
        PROVE  StepByTable
    BY <1>16 DEF CreateLoginSession, OpensSession, Opened, ceremonyVars,
          AccountStep, PasskeyStep, ChallengeStep, CodesStep,
          InstallStep, TokenStep, AuthSessionStep, RequestStep, ClockStep,
          StepByTable
  <1>17. ASSUME NEW r \in Requests, NEW i \in Installs,
               NEW s \in AuthSessions, NEW t \in Tokens, UseRecoveryCode(r, i, s, t)
        PROVE  StepByTable
    BY <1>17 DEF UseRecoveryCode, OpensSession, Opened,
          AccountStep, PasskeyStep, ChallengeStep, CodesStep,
          InstallStep, TokenStep, AuthSessionStep, RequestStep, ClockStep,
          StepByTable
  <1>18. ASSUME NEW t \in Tokens, RefreshReuse(t)
        PROVE  StepByTable
    BY <1>18 DEF RefreshReuse, ceremonyVars,
          AccountStep, PasskeyStep, ChallengeStep, CodesStep,
          InstallStep, TokenStep, AuthSessionStep, RequestStep, ClockStep,
          StepByTable
  <1>19. ASSUME NEW t \in Tokens, NEW u \in Tokens, RotateRefresh(t, u)
        PROVE  StepByTable
    BY <1>19 DEF RotateRefresh, ceremonyVars,
          AccountStep, PasskeyStep, ChallengeStep, CodesStep,
          InstallStep, TokenStep, AuthSessionStep, RequestStep, ClockStep,
          StepByTable
  <1>20. CASE Tick
    BY <1>20 DEF Tick, ceremonyVars, sessionVars,
          AccountStep, PasskeyStep, ChallengeStep, CodesStep,
          InstallStep, TokenStep, AuthSessionStep, RequestStep, ClockStep,
          StepByTable
  <1>21. CASE UNCHANGED vars
    BY <1>21 DEF vars, ceremonyVars, sessionVars,
          AccountStep, PasskeyStep, ChallengeStep, CodesStep,
          InstallStep, TokenStep, AuthSessionStep, RequestStep, ClockStep,
          StepByTable
  <1> QED
    BY <1>1, <1>2, <1>3, <1>4, <1>5, <1>6, <1>7, <1>8, <1>9, <1>10, <1>11, <1>12, <1>13, <1>14, <1>15, <1>16, <1>17, <1>18, <1>19, <1>20, <1>21
    DEF Next, Ceremony, OpensSession, Refresh

(* How a session is opened: for an active account, with an active passkey  *)
(* of that account or none, from a challenge that only this handler holds  *)
(* or from an unspent row of the account's kit.                            *)
FromChallenge(r, o) ==
  /\ Opens(request[r]) /\ o.challenge = request[r].challenge
  /\ o.challenge \in Challenges

FromCode(a, o) ==
  /\ o.challenge = None /\ o.row = kit[a]
  /\ o.position \in Positions /\ o.position \notin usedCodes[a]
  /\ kit' = kit /\ usedCodes' = [usedCodes EXCEPT ![a] = @ \cup {o.position}]

OpenedFor(r, i, s, t, a, k, o) ==
  /\ CreateSession(a, k, i, s, t, o)
  /\ account'[a] = "active"
  /\ k # None => passkey'[k].state = "active" /\ passkey'[k].owner = a
  /\ request' = [request EXCEPT ![r] = Idle]
  /\ UNCHANGED <<clock, challenge>>
  /\ FromChallenge(r, o) \/ FromCode(a, o)

(* The three handlers open sessions in this way.                           *)
LEMMA OpenFacts ==
  ASSUME Inv, NEW r \in Requests, NEW i \in Installs, NEW s \in AuthSessions,
         NEW t \in Tokens, OpensSession(r, i, s, t)
  PROVE  \E a \in Accounts, k \in Passkeys \cup {None}, o \in Origin :
           OpenedFor(r, i, s, t, a, k, o)
  <1>0. RequestOK(request[r]) /\ TypeOK
    BY DEF Inv, RequestsOK
  <1>1. ASSUME NEW k \in Passkeys, ActivateAccount(r, k, i, s, t)
        PROVE  \E a \in Accounts, o \in Origin : OpenedFor(r, i, s, t, a, k, o)
    <2>1. PICK a \in Accounts : a = request[r].account
      BY <1>0, <1>1 DEF ActivateAccount, RequestOK
    <2>2. request[r].op = "register"
      BY <1>1 DEF ActivateAccount
    <2>3. PICK h \in Challenges : h = request[r].challenge
      BY <1>0, <2>2 DEF RequestOK
    <2>4. PICK o \in Origin : o = [NoOrigin EXCEPT !.challenge = h]
      BY AuthAssumption DEF Origin, NoOrigin
    <2>5. o.challenge = h
      BY <2>4 DEF NoOrigin
    <2>6. FromChallenge(r, o)
      BY <2>2, <2>3, <2>5 DEF FromChallenge, Opens
    <2>7. CreateSession(a, k, i, s, t, o)
      BY <1>1, <2>1, <2>3, <2>4 DEF ActivateAccount, CreateSession
    <2>8. /\ account'[a] = "active"
          /\ passkey'[k].state = "active" /\ passkey'[k].owner = a
          /\ request' = [request EXCEPT ![r] = Idle]
          /\ UNCHANGED <<clock, challenge>>
      BY <1>0, <1>1, <2>1 DEF ActivateAccount, TypeOK
    <2> QED
      BY <2>6, <2>7, <2>8 DEF OpenedFor
  <1>2. CASE CreateLoginSession(r, i, s, t)
    <2>0. request[r].op = "login" /\ passkey[request[r].passkey].state = "active"
      BY <1>2 DEF CreateLoginSession
    <2>1. PICK a \in Accounts, k \in Passkeys, h \in Challenges :
            a = request[r].account /\ k = request[r].passkey /\ h = request[r].challenge
      BY <1>0, <2>0 DEF RequestOK
    <2>4. PICK o \in Origin : o = [NoOrigin EXCEPT !.challenge = h]
      BY AuthAssumption DEF Origin, NoOrigin
    <2>5. o.challenge = h
      BY <2>4 DEF NoOrigin
    <2>6. FromChallenge(r, o)
      BY <2>0, <2>1, <2>5 DEF FromChallenge, Opens
    <2>7. CreateSession(a, k, i, s, t, o)
      BY <1>2, <2>1, <2>4 DEF CreateLoginSession, CreateSession
    <2>8. /\ account[a] = "active"
          /\ passkey[k].state = "active" /\ passkey[k].owner = a
      BY <1>0, <2>0, <2>1 DEF RequestOK
    <2>9. /\ request' = [request EXCEPT ![r] = Idle]
          /\ UNCHANGED <<clock, account, passkey, challenge>>
      BY <1>2 DEF CreateLoginSession, ceremonyVars
    <2> QED
      BY <2>6, <2>7, <2>8, <2>9 DEF OpenedFor
  <1>3. CASE UseRecoveryCode(r, i, s, t)
    <2>0. request[r].op = "recover"
      BY <1>3 DEF UseRecoveryCode
    <2>1. PICK a \in Accounts, p \in Positions :
            a = request[r].account /\ p = request[r].position
      BY <1>0, <2>0 DEF RequestOK
    <2>2. kit[a] \in Nat
      BY <1>0, AuthAssumption DEF TypeOK
    <2>3. PICK n \in Nat : n = kit[a]
      BY <2>2
    <2>4. PICK o \in Origin : o = [NoOrigin EXCEPT !.row = n, !.position = p]
      BY AuthAssumption DEF Origin, NoOrigin
    <2>5. o.challenge = None /\ o.row = kit[a] /\ o.position = p
      BY <2>3, <2>4 DEF NoOrigin
    <2>6. /\ p \notin usedCodes[a] /\ usedCodes' = [usedCodes EXCEPT ![a] = @ \cup {p}]
          /\ request' = [request EXCEPT ![r] = Idle]
          /\ UNCHANGED <<clock, account, passkey, challenge, kit>>
      BY <1>3, <2>1 DEF UseRecoveryCode
    <2>7. FromCode(a, o)
      BY <2>5, <2>6 DEF FromCode
    <2>8. CreateSession(a, None, i, s, t, o)
      BY <1>3, <2>1, <2>3, <2>4 DEF UseRecoveryCode, CreateSession
    <2>9. account[a] = "active"
      BY <1>0, <2>0, <2>1 DEF RequestOK
    <2> QED
      BY <2>6, <2>7, <2>8, <2>9 DEF OpenedFor
  <1> QED
    BY <1>1, <1>2, <1>3 DEF OpensSession

(* A session is only ever opened under a fresh id, ...                     *)
LEMMA OpenWritesSession ==
  ASSUME TypeOK, NEW r \in Requests, NEW i \in Installs, NEW s \in AuthSessions,
         NEW t \in Tokens, NEW a \in Accounts, NEW k \in Passkeys \cup {None},
         NEW o \in Origin, OpenedFor(r, i, s, t, a, k, o)
  PROVE  /\ authSession[s].state = "absent"
         /\ \A z \in AuthSessions : z # s => authSession'[z] = authSession[z]
         /\ authSession'[s].state = "live" /\ authSession'[s].account = a
         /\ authSession'[s].install = i /\ authSession'[s].passkey = k
         /\ authSession'[s].origin = o
  BY DEF OpenedFor, CreateSession, TypeOK

(* ... with a fresh token that starts a family, ...                        *)
LEMMA OpenWritesToken ==
  ASSUME TypeOK, NEW r \in Requests, NEW i \in Installs, NEW s \in AuthSessions,
         NEW t \in Tokens, NEW a \in Accounts, NEW k \in Passkeys \cup {None},
         NEW o \in Origin, OpenedFor(r, i, s, t, a, k, o)
  PROVE  /\ token[t].state = "absent"
         /\ \A x \in Tokens : x # t => token'[x] = token[x]
         /\ token'[t].state = "fresh" /\ token'[t].revoked = FALSE
         /\ token'[t].session = s /\ token'[t].family = t
  BY DEF OpenedFor, CreateSession, TypeOK

(* ... on a device that it puts in order, and ends its handler.            *)
LEMMA OpenWritesRest ==
  ASSUME TypeOK, NEW r \in Requests, NEW i \in Installs, NEW s \in AuthSessions,
         NEW t \in Tokens, NEW a \in Accounts, NEW k \in Passkeys \cup {None},
         NEW o \in Origin, OpenedFor(r, i, s, t, a, k, o)
  PROVE  /\ install'[i][a] = "active"
         /\ \A j \in Installs, b \in Accounts :
              install[j][b] = "active" => install'[j][b] = "active"
         /\ request'[r] = Idle
         /\ \A q \in Requests : q # r => request'[q] = request[q]
  BY DEF OpenedFor, CreateSession, TypeOK

-----------------------------------------------------------------------------
(* What a step may never undo                                              *)

(* An active account stays active.                                         *)
LEMMA AccountsStay ==
  ASSUME Inv, AccountStep, NEW a \in Accounts, account[a] = "active"
  PROVE  account'[a] = "active"
  <1>0. account \in [Accounts -> {"absent", "pending", "active"}]
    BY DEF Inv, TypeOK
  <1>1. ASSUME NEW b \in Accounts, CreatePendingAccount(b)
        PROVE  account'[a] = "active"
    BY <1>0, <1>1 DEF CreatePendingAccount
  <1>2. ASSUME NEW r \in Requests, NEW k, NEW i, NEW s, NEW t,
               ActivateAccount(r, k, i, s, t)
        PROVE  account'[a] = "active"
    BY <1>0, <1>2 DEF ActivateAccount
  <1> QED
    BY <1>1, <1>2 DEF AccountStep, Activated

(* A passkey keeps its owner, and once revoked stays so.                   *)
LEMMA PasskeysStay ==
  ASSUME Inv, PasskeyStep, NEW k \in Passkeys, passkey[k].state # "absent"
  PROVE  /\ passkey'[k].state # "absent" /\ passkey'[k].owner = passkey[k].owner
         /\ passkey[k].state = "revoked" => passkey'[k].state = "revoked"
  <1>0. TypeOK
    BY DEF Inv
  <1>1. CASE UNCHANGED passkey
    BY <1>1
  <1>2. ASSUME NEW r \in Requests, NEW l \in Passkeys, AddCredential(r, l)
        PROVE  passkey'[k] = passkey[k]
    BY <1>0, <1>2 DEF AddCredential, TypeOK
  <1>3. ASSUME NEW r \in Requests, NEW l \in Passkeys, RevokeCredential(r, l)
        PROVE  /\ passkey'[k].owner = passkey[k].owner
               /\ passkey'[k].state = IF k = l THEN "revoked" ELSE passkey[k].state
    BY <1>0, <1>3 DEF RevokeCredential, TypeOK
  <1>4. CASE Activated
    <2>1. PICK r \in Requests, l \in Passkeys, i \in Installs,
               s \in AuthSessions, t \in Tokens : ActivateAccount(r, l, i, s, t)
      BY <1>4 DEF Activated
    <2>2. passkey'[k] = passkey[k]
      BY <1>0, <2>1 DEF ActivateAccount, TypeOK
    <2> QED
      BY <2>2
  <1> QED
    BY <1>1, <1>2, <1>3, <1>4 DEF PasskeyStep

(* A consumed challenge stays consumed.                                    *)
LEMMA ChallengesStay ==
  ASSUME Inv, ChallengeStep, NEW h \in Challenges, challenge[h].state = "consumed"
  PROVE  challenge'[h].state = "consumed"
  BY DEF ChallengeStep, CreateChallenge, ConsumeChallenge, Inv, TypeOK

(* A session keeps its fields and can only be revoked.                     *)
LEMMA SessionsStay ==
  ASSUME Inv, AuthSessionStep, NEW s \in AuthSessions,
         authSession[s].state # "absent"
  PROVE  /\ authSession'[s].state \in {authSession[s].state, "revoked"}
         /\ authSession'[s].account = authSession[s].account
         /\ authSession'[s].install = authSession[s].install
         /\ authSession'[s].passkey = authSession[s].passkey
         /\ authSession'[s].expires = authSession[s].expires
         /\ authSession'[s].origin = authSession[s].origin
  <1>0. TypeOK
    BY DEF Inv
  <1>1. CASE UNCHANGED authSession
    BY <1>1
  <1>2. ASSUME NEW S \in SUBSET Existing, authSession' = SessionsRevoked(S)
        PROVE  authSession'[s] = IF s \in S THEN [authSession[s] EXCEPT !.state = "revoked"]
                                 ELSE authSession[s]
    BY <1>2 DEF SessionsRevoked
  <1>3. ASSUME NEW t \in Tokens, RefreshReuse(t)
        PROVE  authSession'[s] = IF s = token[t].session
                                 THEN [authSession[s] EXCEPT !.state = "revoked"]
                                 ELSE authSession[s]
    BY <1>0, <1>3 DEF RefreshReuse, TypeOK
  <1>4. CASE Opened
    <2>1. PICK r \in Requests, i \in Installs, z \in AuthSessions, t \in Tokens :
            OpensSession(r, i, z, t)
      BY <1>4 DEF Opened
    <2>2. PICK a \in Accounts, k \in Passkeys \cup {None}, o \in Origin :
            OpenedFor(r, i, z, t, a, k, o)
      BY <2>1, OpenFacts
    <2>3. authSession'[s] = authSession[s]
      BY <1>0, <2>2, OpenWritesSession
    <2> QED
      BY <2>3
  <1>5. /\ authSession[s].account = [authSession[s] EXCEPT !.state = "revoked"].account
        /\ authSession[s].install = [authSession[s] EXCEPT !.state = "revoked"].install
        /\ authSession[s].passkey = [authSession[s] EXCEPT !.state = "revoked"].passkey
        /\ authSession[s].expires = [authSession[s] EXCEPT !.state = "revoked"].expires
        /\ authSession[s].origin = [authSession[s] EXCEPT !.state = "revoked"].origin
        /\ "revoked" = [authSession[s] EXCEPT !.state = "revoked"].state
    BY <1>0 DEF TypeOK
  <1> QED
    BY <1>1, <1>2, <1>3, <1>4, <1>5 DEF AuthSessionStep

-----------------------------------------------------------------------------
(* Type correctness                                                        *)

(* The tables of TypeOK, each with a name.                                 *)
AccountTable == [Accounts -> {"absent", "pending", "active"}]
PasskeyTable ==
  [Passkeys -> [state : {"absent", "active", "revoked"}, owner : Accounts \cup {None}]]
ChallengeTable ==
  [Challenges -> [state : {"absent", "open", "consumed"},
                  purpose : {"register_account", "login", "add_passkey"},
                  account : Accounts \cup {None}, expires : Nat]]
KitTable == [Accounts -> 0..MaxKits]
CodeTable == [Accounts -> SUBSET Positions]
InstallTable == [Installs -> [Accounts -> {"absent", "active", "revoked"}]]
SessionRow ==
  [state : {"absent", "live", "revoked"}, account : Accounts \cup {None},
   install : Installs \cup {None}, passkey : Passkeys \cup {None},
   expires : Nat, origin : Origin]
TokenRow ==
  [state : {"absent", "fresh", "consumed"}, revoked : BOOLEAN,
   session : AuthSessions \cup {None}, family : Tokens \cup {None},
   expires : Nat]
RequestRow ==
  [op : {"idle", "register", "login", "recover", "authed", "add_passkey"},
   account : Accounts \cup {None}, passkey : Passkeys \cup {None},
   challenge : Challenges \cup {None}, position : Positions \cup {None}]

(* TypeOK in these names, now and after the step.                          *)
LEMMA TypeMeaning ==
  /\ TypeOK <=>
       /\ clock \in 0..MaxClock /\ account \in AccountTable
       /\ passkey \in PasskeyTable /\ challenge \in ChallengeTable
       /\ kit \in KitTable /\ usedCodes \in CodeTable /\ install \in InstallTable
       /\ authSession \in [AuthSessions -> SessionRow]
       /\ token \in [Tokens -> TokenRow] /\ request \in [Requests -> RequestRow]
  /\ TypeOK' <=>
       /\ clock' \in 0..MaxClock /\ account' \in AccountTable
       /\ passkey' \in PasskeyTable /\ challenge' \in ChallengeTable
       /\ kit' \in KitTable /\ usedCodes' \in CodeTable /\ install' \in InstallTable
       /\ authSession' \in [AuthSessions -> SessionRow]
       /\ token' \in [Tokens -> TokenRow] /\ request' \in [Requests -> RequestRow]
  BY DEF TypeOK, AccountTable, PasskeyTable, ChallengeTable, KitTable, CodeTable,
         InstallTable, SessionRow, TokenRow, RequestRow

(* The clock and the accounts.                                             *)
LEMMA AccountType ==
  ASSUME Inv, StepByTable
  PROVE  clock' \in 0..MaxClock /\ account' \in AccountTable
  <1>0. clock \in 0..MaxClock /\ account \in AccountTable
    BY TypeMeaning DEF Inv
  <1>1. clock' \in 0..MaxClock
    BY <1>0, AuthAssumption DEF StepByTable, ClockStep, Tick
  <1>2. ASSUME NEW r, NEW k, NEW i, NEW s, NEW t, ActivateAccount(r, k, i, s, t)
        PROVE  account' \in AccountTable
    BY <1>0, <1>2 DEF ActivateAccount, AccountTable
  <1>3. ASSUME NEW a \in Accounts, CreatePendingAccount(a)
        PROVE  account' \in AccountTable
    BY <1>0, <1>3 DEF CreatePendingAccount, AccountTable
  <1> QED
    BY <1>0, <1>1, <1>2, <1>3 DEF StepByTable, AccountStep, Activated

(* The passkeys.                                                           *)
LEMMA PasskeyType ==
  ASSUME Inv, StepByTable
  PROVE  passkey' \in PasskeyTable
  <1>0. passkey \in PasskeyTable /\ request \in [Requests -> RequestRow]
    BY TypeMeaning DEF Inv
  <1>1. \A r \in Requests : request[r].account \in Accounts \cup {None}
    BY <1>0 DEF RequestRow
  <1>2. ASSUME NEW r \in Requests, NEW k \in Passkeys, AddCredential(r, k)
        PROVE  passkey' \in PasskeyTable
    BY <1>0, <1>1, <1>2 DEF AddCredential, PasskeyTable
  <1>3. ASSUME NEW r \in Requests, NEW k \in Passkeys, RevokeCredential(r, k)
        PROVE  passkey' \in PasskeyTable
    BY <1>0, <1>3 DEF RevokeCredential, PasskeyTable
  <1>4. ASSUME NEW r \in Requests, NEW k \in Passkeys, NEW i \in Installs,
               NEW s \in AuthSessions, NEW t \in Tokens,
               ActivateAccount(r, k, i, s, t)
        PROVE  passkey' \in PasskeyTable
    BY <1>0, <1>1, <1>4 DEF ActivateAccount, PasskeyTable
  <1> QED
    BY <1>0, <1>2, <1>3, <1>4 DEF StepByTable, PasskeyStep, Activated

(* The challenges.                                                         *)
LEMMA ChallengeType ==
  ASSUME Inv, StepByTable
  PROVE  challenge' \in ChallengeTable
  <1>0. challenge \in ChallengeTable /\ clock \in Nat
    BY TypeMeaning DEF Inv
  <1>1. clock + ChallengeTTL \in Nat
    BY <1>0, AuthAssumption
  <1>2. ASSUME NEW h \in Challenges, NEW a \in Accounts \cup {None},
               NEW purpose \in {"register_account", "login", "add_passkey"},
               CreateChallenge(h, purpose, a)
        PROVE  challenge' \in ChallengeTable
    BY <1>0, <1>1, <1>2 DEF CreateChallenge, ChallengeTable
  <1>3. ASSUME NEW h \in Challenges, NEW purpose, ConsumeChallenge(h, purpose)
        PROVE  challenge' \in ChallengeTable
    BY <1>0, <1>3 DEF ConsumeChallenge, ChallengeTable
  <1> QED
    BY <1>0, <1>2, <1>3 DEF StepByTable, ChallengeStep

(* Recovery kits and devices.                                              *)
LEMMA CodesType ==
  ASSUME Inv, StepByTable
  PROVE  kit' \in KitTable /\ usedCodes' \in CodeTable
  <1>0. kit \in KitTable /\ usedCodes \in CodeTable
    BY TypeMeaning DEF Inv
  <1>1. ASSUME NEW r \in Requests, RegenerateRecoveryCodes(r)
        PROVE  kit' \in KitTable /\ usedCodes' \in CodeTable
    <2>1. request[r].account \in Accounts
      BY <1>1 DEF RegenerateRecoveryCodes, Handled, Inv, RequestsOK, RequestOK
    <2>2. PICK a \in Accounts : a = request[r].account
      BY <2>1
    <2>3. kit[a] + 1 \in 0..MaxKits
      BY <1>0, <1>1, <2>2, AuthAssumption DEF RegenerateRecoveryCodes, KitTable
    <2>4. kit' = [kit EXCEPT ![a] = kit[a] + 1] /\ usedCodes' = [usedCodes EXCEPT ![a] = {}]
      BY <1>1, <2>2 DEF RegenerateRecoveryCodes
    <2>5. kit' \in KitTable
      BY <1>0, <2>3, <2>4 DEF KitTable
    <2>6. PICK none \in SUBSET Positions : none = {}
      OBVIOUS
    <2>7. usedCodes' = [usedCodes EXCEPT ![a] = none]
      BY <2>4, <2>6
    <2> QED
      BY <1>0, <2>5, <2>7 DEF CodeTable
  <1>2. ASSUME NEW r \in Requests, NEW k, NEW i, NEW s, NEW t,
               ActivateAccount(r, k, i, s, t)
        PROVE  kit' \in KitTable /\ usedCodes' \in CodeTable
    <2>1. kit' \in KitTable
      <3>1. 1 \in 0..MaxKits
        BY AuthAssumption
      <3>2. kit' = [kit EXCEPT ![request[r].account] = 1]
        BY <1>2 DEF ActivateAccount
      <3> QED
        BY <1>0, <3>1, <3>2 DEF KitTable
    <2> QED
      BY <1>0, <1>2, <2>1 DEF ActivateAccount
  <1>3. ASSUME NEW r \in Requests, NEW i, NEW s, NEW t, CreateLoginSession(r, i, s, t)
        PROVE  kit' \in KitTable /\ usedCodes' \in CodeTable
    BY <1>0, <1>3 DEF CreateLoginSession, ceremonyVars
  <1>4. ASSUME NEW r \in Requests, NEW i, NEW s, NEW t, UseRecoveryCode(r, i, s, t)
        PROVE  kit' \in KitTable /\ usedCodes' \in CodeTable
    <2>1. request[r].account \in Accounts /\ request[r].position \in Positions
      BY <1>4 DEF UseRecoveryCode, Inv, RequestsOK, RequestOK
    <2>2. usedCodes' \in CodeTable
      BY <1>0, <1>4, <2>1 DEF UseRecoveryCode, CodeTable
    <2> QED
      BY <1>0, <1>4, <2>2 DEF UseRecoveryCode
  <1> QED
    BY <1>0, <1>1, <1>2, <1>3, <1>4 DEF StepByTable, CodesStep, Opened, OpensSession

(* The handlers.                                                           *)
LEMMA RequestType ==
  ASSUME Inv, StepByTable
  PROVE  request' \in [Requests -> RequestRow]
  <1>0. /\ request \in [Requests -> RequestRow] /\ challenge \in ChallengeTable
        /\ passkey \in PasskeyTable /\ authSession \in [AuthSessions -> SessionRow]
    BY TypeMeaning DEF Inv
  <1>1. Idle \in RequestRow
    BY DEF Idle, RequestRow
  <1>2. ASSUME NEW r \in Requests, NEW h \in Challenges, FinishAccountRegistration(r, h)
        PROVE  request' \in [Requests -> RequestRow]
    <2>1. challenge[h].account \in Accounts \cup {None}
      BY <1>0 DEF ChallengeTable
    <2>2. [Idle EXCEPT !.op = "register", !.account = challenge[h].account,
                       !.challenge = h] \in RequestRow
      BY <2>1 DEF Idle, RequestRow
    <2> QED
      BY <1>0, <1>2, <2>2 DEF FinishAccountRegistration
  <1>3. ASSUME NEW r \in Requests, NEW h \in Challenges, NEW k \in Passkeys,
               FinishLogin(r, h, k)
        PROVE  request' \in [Requests -> RequestRow]
    <2>1. passkey[k].owner \in Accounts \cup {None}
      BY <1>0 DEF PasskeyTable
    <2>2. [Idle EXCEPT !.op = "login", !.account = passkey[k].owner,
                       !.passkey = k, !.challenge = h] \in RequestRow
      BY <2>1 DEF Idle, RequestRow
    <2> QED
      BY <1>0, <1>3, <2>2 DEF FinishLogin
  <1>4. ASSUME NEW r \in Requests, NEW h \in Challenges, FinishAddPasskey(r, h)
        PROVE  request' \in [Requests -> RequestRow]
    <2>1. [request[r] EXCEPT !.op = "add_passkey"] \in RequestRow
      BY <1>0 DEF RequestRow
    <2> QED
      BY <1>0, <1>1, <1>4, <2>1 DEF FinishAddPasskey
  <1>5. ASSUME NEW r \in Requests, NEW a \in Accounts, NEW p \in Positions,
               Recover(r, a, p)
        PROVE  request' \in [Requests -> RequestRow]
    <2>1. [Idle EXCEPT !.op = "recover", !.account = a, !.position = p] \in RequestRow
      BY DEF Idle, RequestRow
    <2> QED
      BY <1>0, <1>5, <2>1 DEF Recover
  <1>6. ASSUME NEW r \in Requests, NEW s \in AuthSessions, Authenticate(r, s)
        PROVE  request' \in [Requests -> RequestRow]
    <2>1. authSession[s].account \in Accounts \cup {None}
      BY <1>0 DEF SessionRow
    <2>2. [Idle EXCEPT !.op = "authed", !.account = authSession[s].account] \in RequestRow
      BY <2>1 DEF Idle, RequestRow
    <2> QED
      BY <1>0, <1>6, <2>2 DEF Authenticate
  <1>7. ASSUME NEW r \in Requests, request' = [request EXCEPT ![r] = Idle]
        PROVE  request' \in [Requests -> RequestRow]
    BY <1>0, <1>1, <1>7
  <1> QED
    BY <1>0, <1>2, <1>3, <1>4, <1>5, <1>6, <1>7 DEF StepByTable, RequestStep

(* Devices.                                                                *)
LEMMA InstallType ==
  ASSUME Inv, StepByTable
  PROVE  install' \in InstallTable
  <1>0. install \in InstallTable
    BY TypeMeaning DEF Inv
  <1>1. ASSUME NEW r \in Requests, NEW i \in Installs, RevokeInstallation(r, i)
        PROVE  install' \in InstallTable
    BY <1>0, <1>1 DEF RevokeInstallation, InstallTable
  <1>2. CASE Opened
    <2>1. PICK r \in Requests, i \in Installs, z \in AuthSessions, t \in Tokens :
            OpensSession(r, i, z, t)
      BY <1>2 DEF Opened
    <2>2. PICK a \in Accounts, k \in Passkeys \cup {None}, o \in Origin :
            OpenedFor(r, i, z, t, a, k, o)
      BY <2>1, OpenFacts
    <2> QED
      BY <1>0, <2>2 DEF OpenedFor, CreateSession, InstallTable
  <1> QED
    BY <1>0, <1>1, <1>2 DEF StepByTable, InstallStep

(* Sessions.                                                               *)
LEMMA SessionType ==
  ASSUME Inv, StepByTable
  PROVE  authSession' \in [AuthSessions -> SessionRow]
  <1>0. /\ authSession \in [AuthSessions -> SessionRow] /\ clock \in Nat
        /\ clock + RefreshTTL \in Nat
    BY TypeMeaning, AuthAssumption DEF Inv
  <1>1. \A s \in AuthSessions : [authSession[s] EXCEPT !.state = "revoked"] \in SessionRow
    BY <1>0 DEF SessionRow
  <1>2. ASSUME NEW S \in SUBSET Existing, authSession' = SessionsRevoked(S)
        PROVE  authSession' \in [AuthSessions -> SessionRow]
    BY <1>0, <1>1, <1>2 DEF SessionsRevoked
  <1>3. ASSUME NEW t \in Tokens, RefreshReuse(t)
        PROVE  authSession' \in [AuthSessions -> SessionRow]
    BY <1>0, <1>1, <1>3 DEF RefreshReuse
  <1>4. CASE Opened
    <2>1. PICK r \in Requests, i \in Installs, z \in AuthSessions, t \in Tokens :
            OpensSession(r, i, z, t)
      BY <1>4 DEF Opened
    <2>2. PICK a \in Accounts, k \in Passkeys \cup {None}, o \in Origin :
            OpenedFor(r, i, z, t, a, k, o)
      BY <2>1, OpenFacts
    <2>3. [state |-> "live", account |-> a, install |-> i, passkey |-> k,
           expires |-> clock + RefreshTTL, origin |-> o] \in SessionRow
      BY <1>0 DEF SessionRow
    <2> QED
      BY <1>0, <2>2, <2>3 DEF OpenedFor, CreateSession
  <1> QED
    BY <1>0, <1>2, <1>3, <1>4 DEF StepByTable, AuthSessionStep

(* Tokens.                                                                 *)
LEMMA TokenType ==
  ASSUME Inv, StepByTable
  PROVE  token' \in [Tokens -> TokenRow]
  <1>0. /\ token \in [Tokens -> TokenRow] /\ clock + RefreshTTL \in Nat
    BY TypeMeaning, AuthAssumption DEF Inv
  <1>1. \A u \in Tokens : [token[u] EXCEPT !.revoked = TRUE] \in TokenRow
    BY <1>0 DEF TokenRow
  <1>2. ASSUME NEW t \in Tokens, RefreshReuse(t)
        PROVE  token' \in [Tokens -> TokenRow]
    BY <1>0, <1>1, <1>2 DEF RefreshReuse
  <1>3. ASSUME NEW t \in Tokens, NEW u \in Tokens, RotateRefresh(t, u)
        PROVE  token' \in [Tokens -> TokenRow]
    <2> DEFINE new == [state |-> "fresh", revoked |-> FALSE,
                       session |-> token[t].session, family |-> token[t].family,
                       expires |-> clock + RefreshTTL]
               old == [token[t] EXCEPT !.state = "consumed"]
    <2>1. new \in TokenRow /\ old \in TokenRow
      BY <1>0 DEF TokenRow
    <2>2. token' = [token EXCEPT ![t] = old, ![u] = new]
      BY <1>3 DEF RotateRefresh
    <2> HIDE DEF new, old
    <2> QED
      BY <1>0, <2>1, <2>2
  <1>4. CASE Opened
    <2>1. PICK r \in Requests, i \in Installs, z \in AuthSessions, t \in Tokens :
            OpensSession(r, i, z, t)
      BY <1>4 DEF Opened
    <2>2. PICK a \in Accounts, k \in Passkeys \cup {None}, o \in Origin :
            OpenedFor(r, i, z, t, a, k, o)
      BY <2>1, OpenFacts
    <2>3. [state |-> "fresh", revoked |-> FALSE, session |-> z, family |-> t,
           expires |-> clock + RefreshTTL] \in TokenRow
      BY <1>0 DEF TokenRow
    <2> QED
      BY <1>0, <2>2, <2>3 DEF OpenedFor, CreateSession
  <1> QED
    BY <1>0, <1>2, <1>3, <1>4 DEF StepByTable, TokenStep

-----------------------------------------------------------------------------
(* Accounts, challenges and handlers                                       *)

(* Passkeys stay with active accounts, ...                                 *)
LEMMA PasskeysOwnedStep ==
  ASSUME Inv, StepByTable
  PROVE  PasskeysOwned'
  <1>0. TypeOK /\ PasskeysOwned /\ RequestsOK /\ AccountStep /\ PasskeyStep
    BY DEF Inv, StepByTable
  <1>1. ASSUME NEW k \in Passkeys, passkey[k].state # "absent"
        PROVE  passkey'[k].owner \in Accounts /\ account'[passkey'[k].owner] = "active"
    BY <1>0, <1>1, PasskeysStay, AccountsStay DEF PasskeysOwned
  <1>2. ASSUME NEW k \in Passkeys, passkey[k].state = "absent", passkey'[k].state # "absent"
        PROVE  passkey'[k].owner \in Accounts /\ account'[passkey'[k].owner] = "active"
    <2>1. ASSUME NEW r \in Requests, NEW l \in Passkeys, AddCredential(r, l)
          PROVE  passkey'[k].owner \in Accounts /\ account'[passkey'[k].owner] = "active"
      <3>1. request[r].account \in Accounts /\ account[request[r].account] = "active"
        BY <1>0, <2>1 DEF AddCredential, RequestsOK, RequestOK
      <3>2. passkey'[k].owner = request[r].account
        BY <1>0, <1>2, <2>1 DEF AddCredential, TypeOK
      <3> QED
        BY <1>0, <3>1, <3>2, AccountsStay
    <2>2. ASSUME NEW r \in Requests, NEW l \in Passkeys, NEW i \in Installs,
                 NEW s \in AuthSessions, NEW t \in Tokens,
                 ActivateAccount(r, l, i, s, t)
          PROVE  passkey'[k].owner \in Accounts /\ account'[passkey'[k].owner] = "active"
      <3>1. request[r].account \in Accounts
        BY <1>0, <2>2 DEF ActivateAccount, RequestsOK, RequestOK
      <3> QED
        BY <1>0, <1>2, <2>2, <3>1 DEF ActivateAccount, TypeOK
    <2>3. ASSUME NEW r \in Requests, NEW l \in Passkeys, RevokeCredential(r, l)
          PROVE  passkey'[k].state = "absent"
      BY <1>0, <1>2, <2>3 DEF RevokeCredential, TypeOK
    <2> QED
      BY <1>0, <1>2, <2>1, <2>2, <2>3 DEF PasskeyStep, Activated
  <1> QED
    BY <1>1, <1>2 DEF PasskeysOwned

(* ... kits with active accounts, ...                                      *)
LEMMA KitsOfActiveStep ==
  ASSUME Inv, StepByTable
  PROVE  KitsOfActive'
  <1>0. TypeOK /\ KitsOfActive /\ RequestsOK /\ AccountStep /\ CodesStep
    BY DEF Inv, StepByTable
  <1> SUFFICES ASSUME NEW a \in Accounts, account'[a] # "active"
               PROVE  kit'[a] = 0
    BY DEF KitsOfActive
  <1>1. account[a] # "active" /\ kit[a] = 0
    BY <1>0, AccountsStay DEF KitsOfActive
  <1>2. ASSUME NEW r \in Requests, RegenerateRecoveryCodes(r)
        PROVE  kit'[a] = 0
    <2>1. account[request[r].account] = "active"
      BY <1>0, <1>2 DEF RegenerateRecoveryCodes, Handled, RequestsOK, RequestOK
    <2> QED
      BY <1>0, <1>1, <1>2, <2>1 DEF RegenerateRecoveryCodes, TypeOK
  <1>3. ASSUME NEW r \in Requests, NEW k, NEW i, NEW s, NEW t,
               ActivateAccount(r, k, i, s, t)
        PROVE  kit'[a] = 0
    BY <1>0, <1>1, <1>3 DEF ActivateAccount, TypeOK
  <1>4. ASSUME NEW r, NEW i, NEW s, NEW t,
               CreateLoginSession(r, i, s, t) \/ UseRecoveryCode(r, i, s, t)
        PROVE  kit'[a] = 0
    BY <1>1, <1>4 DEF CreateLoginSession, UseRecoveryCode, ceremonyVars
  <1> QED
    BY <1>0, <1>1, <1>2, <1>3, <1>4 DEF CodesStep, Opened, OpensSession

(* ... and challenges keep the account they were begun for.                *)
LEMMA ChallengesNamedStep ==
  ASSUME Inv, StepByTable
  PROVE  ChallengesNamed'
  <1>0. TypeOK /\ ChallengesNamed /\ ChallengeStep
    BY DEF Inv, StepByTable
  <1>1. ASSUME NEW h \in Challenges, NEW purpose, ConsumeChallenge(h, purpose)
        PROVE  ChallengesNamed'
    BY <1>0, <1>1 DEF ConsumeChallenge, ChallengesNamed, TypeOK
  <1>2. ASSUME NEW h \in Challenges, NEW a, NEW purpose, CreateChallenge(h, purpose, a),
               a \in Accounts \/ purpose = "login"
        PROVE  ChallengesNamed'
    BY <1>0, <1>2 DEF CreateChallenge, ChallengesNamed, TypeOK
  <1>3. CASE UNCHANGED challenge
    BY <1>0, <1>3 DEF ChallengesNamed
  <1> QED
    BY <1>0, <1>1, <1>2, <1>3 DEF ChallengeStep

(* What a handler read before its verification still holds after it.       *)
LEMMA RequestsStep ==
  ASSUME Inv, StepByTable
  PROVE  RequestsOK'
  <1>0. /\ TypeOK /\ RequestsOK /\ AccountStep /\ PasskeyStep /\ ChallengeStep
        /\ RequestStep /\ PasskeysOwned /\ ChallengesNamed /\ SessionsOK
    BY DEF Inv, StepByTable
  <1>1. ASSUME NEW q \in RequestRow, RequestOK(q)
        PROVE  RequestOK(q)'
    <2>1. q.account \in Accounts /\ account[q.account] = "active"
          => account'[q.account] = "active"
      BY <1>0, AccountsStay
    <2>2. q.challenge \in Challenges /\ challenge[q.challenge].state = "consumed"
          => challenge'[q.challenge].state = "consumed"
      BY <1>0, ChallengesStay
    <2>3. q.passkey \in Passkeys /\ passkey[q.passkey].state # "absent"
          => /\ passkey'[q.passkey].state # "absent"
             /\ passkey'[q.passkey].owner = passkey[q.passkey].owner
      BY <1>0, PasskeysStay
    <2> QED
      BY <1>1, <2>1, <2>2, <2>3 DEF RequestOK
  <1>2. \A r \in Requests : request[r] \in RequestRow
    BY <1>0, TypeMeaning
  <1>3. request \in [Requests -> RequestRow]
    BY <1>0, TypeMeaning
  <1>4. ASSUME NEW r \in Requests, request'[r] = request[r]
        PROVE  RequestOK(request[r])'
    <2>1. PICK q \in RequestRow : q = request[r]
      BY <1>2
    <2>2. RequestOK(q)'
      BY <1>0, <1>1, <2>1 DEF RequestsOK
    <2> QED
      BY <1>4, <2>1, <2>2 DEF RequestOK
  <1>5. ASSUME NEW r \in Requests, request'[r] = Idle
        PROVE  RequestOK(request[r])'
    BY <1>5 DEF RequestOK, Idle
  <1>6. ASSUME NEW r \in Requests, NEW h \in Challenges, FinishAccountRegistration(r, h)
        PROVE  request'[r] = request[r] \/ RequestOK(request[r])'
    <2>1. challenge[h].account \in Accounts /\ challenge'[h].state = "consumed"
      BY <1>0, <1>6
      DEF FinishAccountRegistration, ConsumeChallenge, ChallengesNamed, TypeOK
    <2> DEFINE q == [Idle EXCEPT !.op = "register", !.account = challenge[h].account,
                                 !.challenge = h]
    <2>2. request' = request \/ request' = [request EXCEPT ![r] = q]
      BY <1>6 DEF FinishAccountRegistration
    <2>3. q.op = "register" /\ q.account = challenge[h].account /\ q.challenge = h
      BY DEF Idle
    <2> HIDE DEF q
    <2>4. request' = request \/ request'[r] = q
      BY <1>3, <2>2
    <2> QED
      BY <2>1, <2>3, <2>4 DEF RequestOK
  <1>7. ASSUME NEW r \in Requests, NEW h \in Challenges, NEW k \in Passkeys,
               FinishLogin(r, h, k)
        PROVE  request'[r] = request[r] \/ RequestOK(request[r])'
    <2>1. challenge'[h].state = "consumed" /\ UNCHANGED <<account, passkey>>
      BY <1>0, <1>7 DEF FinishLogin, ConsumeChallenge, TypeOK
    <2> DEFINE q == [Idle EXCEPT !.op = "login", !.account = passkey[k].owner,
                                 !.passkey = k, !.challenge = h]
    <2>2. \/ request' = request
          \/ request' = [request EXCEPT ![r] = q] /\ passkey[k].state = "active"
      BY <1>7 DEF FinishLogin, PasskeysOf
    <2>3. passkey[k].state = "active" =>
            passkey[k].owner \in Accounts /\ account[passkey[k].owner] = "active"
      BY <1>0 DEF PasskeysOwned
    <2>4. /\ q.op = "login" /\ q.account = passkey[k].owner
          /\ q.passkey = k /\ q.challenge = h
      BY DEF Idle
    <2> HIDE DEF q
    <2>5. request' = request \/ (request'[r] = q /\ passkey[k].state = "active")
      BY <1>3, <2>2
    <2> QED
      BY <2>1, <2>3, <2>4, <2>5 DEF RequestOK
  <1>8. ASSUME NEW r \in Requests, NEW h \in Challenges, FinishAddPasskey(r, h)
        PROVE  request'[r] = Idle \/ RequestOK(request[r])'
    <2>1. /\ request[r].op = "authed" /\ account' = account
          /\ \/ request'[r] = Idle
             \/ /\ request'[r].op = "add_passkey"
                /\ request'[r].account = request[r].account
      BY <1>0, <1>8 DEF FinishAddPasskey, TypeOK
    <2>2. request[r].account \in Accounts /\ account[request[r].account] = "active"
      BY <1>0, <2>1 DEF RequestsOK, RequestOK
    <2> QED
      BY <2>1, <2>2 DEF RequestOK
  <1>9. ASSUME NEW r \in Requests, NEW a \in Accounts, NEW p \in Positions,
               Recover(r, a, p)
        PROVE  RequestOK(request[r])'
    <2>1. /\ request'[r].op = "recover" /\ request'[r].account = a
          /\ request'[r].position = p /\ account[a] = "active" /\ account' = account
      BY <1>0, <1>9 DEF Recover, Idle, TypeOK, ceremonyVars
    <2> QED
      BY <2>1 DEF RequestOK
  <1>10. ASSUME NEW r \in Requests, NEW s \in AuthSessions, Authenticate(r, s)
         PROVE  RequestOK(request[r])'
    <2>1. /\ request'[r].op = "authed" /\ request'[r].account = authSession[s].account
          /\ account' = account
      BY <1>0, <1>10 DEF Authenticate, Idle, TypeOK, ceremonyVars
    <2>2. authSession[s].account \in Accounts /\ account[authSession[s].account] = "active"
      BY <1>0, <1>10 DEF Authenticate, Valid, SessionsOK, SessionOK
    <2> QED
      BY <2>1, <2>2 DEF RequestOK
  <1>11. ASSUME NEW q \in Requests
         PROVE  RequestOK(request[q])'
    <2>1. ASSUME NEW r \in Requests, NEW h \in Challenges,
                 \/ FinishAccountRegistration(r, h)
                 \/ \E k \in Passkeys : FinishLogin(r, h, k)
                 \/ FinishAddPasskey(r, h)
          PROVE  q # r => request'[q] = request[q]
      BY <1>0, <2>1 DEF FinishAccountRegistration, FinishLogin, FinishAddPasskey, TypeOK
    <2>2. ASSUME NEW r \in Requests,
                 \/ \E a \in Accounts, p \in Positions : Recover(r, a, p)
                 \/ \E s \in AuthSessions : Authenticate(r, s)
          PROVE  q # r => request'[q] = request[q]
      BY <1>0, <2>2 DEF Recover, Authenticate, TypeOK
    <2>3. ASSUME NEW r \in Requests, request' = [request EXCEPT ![r] = Idle]
          PROVE  request'[q] = request[q] \/ request'[q] = Idle
      BY <1>0, <2>3 DEF TypeOK
    <2> QED
      BY <1>0, <1>4, <1>5, <1>6, <1>7, <1>8, <1>9, <1>10, <2>1, <2>2, <2>3
      DEF RequestStep
  <1> QED
    BY <1>11 DEF RequestsOK

-----------------------------------------------------------------------------
(* Sessions                                                                *)

(* A session that comes to exist is opened by one of the three handlers.   *)
LEMMA NewSession ==
  ASSUME Inv, StepByTable, NEW s \in AuthSessions,
         authSession[s].state = "absent", authSession'[s] # authSession[s]
  PROVE  \E r \in Requests, i \in Installs, t \in Tokens :
           \E a \in Accounts, k \in Passkeys \cup {None}, o \in Origin :
             OpenedFor(r, i, s, t, a, k, o)
  <1>0. TypeOK /\ TokensOK /\ AuthSessionStep
    BY DEF Inv, StepByTable
  <1>1. ASSUME NEW S \in SUBSET Existing, authSession' = SessionsRevoked(S)
        PROVE  FALSE
    BY <1>1 DEF Existing, SessionsRevoked
  <1>2. ASSUME NEW t \in Tokens, RefreshReuse(t)
        PROVE  FALSE
    <2>1. token[t].session # s
      BY <1>0, <1>2 DEF RefreshReuse, TokensOK
    <2> QED
      BY <1>0, <1>2, <2>1 DEF RefreshReuse, TypeOK
  <1>3. Opened
    BY <1>0, <1>1, <1>2 DEF AuthSessionStep
  <1>4. PICK r \in Requests, i \in Installs, z \in AuthSessions, t \in Tokens :
          OpensSession(r, i, z, t)
    BY <1>3 DEF Opened
  <1>5. PICK a \in Accounts, k \in Passkeys \cup {None}, o \in Origin :
          OpenedFor(r, i, z, t, a, k, o)
    BY <1>4, OpenFacts
  <1>6. z = s
    BY <1>0, <1>5, OpenWritesSession
  <1> QED
    BY <1>5, <1>6

(* A device in order stays so unless it is revoked, ...                    *)
LEMMA InstallsStay ==
  ASSUME Inv, StepByTable, NEW i \in Installs, NEW a \in Accounts,
         install[i][a] = "active"
  PROVE  \/ install'[i][a] = "active"
         \/ \E r \in Requests : RevokeInstallation(r, i) /\ request[r].account = a
  <1>0. TypeOK /\ InstallStep
    BY DEF Inv, StepByTable
  <1>1. ASSUME NEW r \in Requests, NEW j \in Installs, RevokeInstallation(r, j)
        PROVE  install'[i][a] = "active" \/ (j = i /\ request[r].account = a)
    BY <1>0, <1>1 DEF RevokeInstallation, TypeOK
  <1>2. CASE Opened
    <2>1. PICK r \in Requests, j \in Installs, z \in AuthSessions, t \in Tokens :
            OpensSession(r, j, z, t)
      BY <1>2 DEF Opened
    <2>2. PICK b \in Accounts, k \in Passkeys \cup {None}, o \in Origin :
            OpenedFor(r, j, z, t, b, k, o)
      BY <2>1, OpenFacts
    <2>3. install'[i][a] = "active"
      BY <1>0, <2>2, OpenWritesRest
    <2> QED
      BY <2>3
  <1> QED
    BY <1>0, <1>1, <1>2 DEF InstallStep

(* ... and so does a passkey.                                              *)
LEMMA PasskeysActive ==
  ASSUME Inv, StepByTable, NEW k \in Passkeys, passkey[k].state = "active"
  PROVE  passkey'[k].state = "active" \/ \E r \in Requests : RevokeCredential(r, k)
  <1>0. TypeOK /\ PasskeyStep
    BY DEF Inv, StepByTable
  <1>1. ASSUME NEW r \in Requests, NEW l \in Passkeys, AddCredential(r, l)
        PROVE  passkey'[k].state = "active"
    BY <1>0, <1>1 DEF AddCredential, TypeOK
  <1>2. ASSUME NEW r \in Requests, NEW l \in Passkeys, RevokeCredential(r, l)
        PROVE  passkey'[k].state = "active" \/ l = k
    BY <1>0, <1>2 DEF RevokeCredential, TypeOK
  <1>3. ASSUME NEW r \in Requests, NEW l \in Passkeys, NEW i \in Installs,
               NEW s \in AuthSessions, NEW t \in Tokens,
               ActivateAccount(r, l, i, s, t)
        PROVE  passkey'[k].state = "active"
    BY <1>0, <1>3 DEF ActivateAccount, TypeOK
  <1> QED
    BY <1>0, <1>1, <1>2, <1>3 DEF PasskeyStep, Activated

(* While a session is live its device, account and passkey are in order:   *)
(* whatever takes one of them away revokes the session in the same step,   *)
(* and a session opened meanwhile read them in its own transaction.        *)
LEMMA SessionsStep ==
  ASSUME Inv, StepByTable
  PROVE  SessionsOK'
  <1>0. TypeOK /\ SessionsOK /\ AccountStep /\ PasskeyStep /\ AuthSessionStep
    BY DEF Inv, StepByTable
  <1> SUFFICES ASSUME NEW s \in AuthSessions
               PROVE  IF authSession'[s].state = "absent" THEN authSession'[s] = NoAuthSession
                      ELSE SessionOK(authSession[s])'
    BY DEF SessionsOK
  <1>1. CASE authSession[s].state = "absent" /\ authSession'[s] = authSession[s]
    BY <1>0, <1>1 DEF SessionsOK
  <1>2. CASE authSession[s].state = "absent" /\ authSession'[s] # authSession[s]
    <2>1. PICK r \in Requests, i \in Installs, t \in Tokens :
            \E a \in Accounts, k \in Passkeys \cup {None}, o \in Origin :
              OpenedFor(r, i, s, t, a, k, o)
      BY <1>2, NewSession
    <2>2. PICK a \in Accounts, k \in Passkeys \cup {None}, o \in Origin :
            OpenedFor(r, i, s, t, a, k, o)
      BY <2>1
    <2>3. /\ authSession'[s].state = "live" /\ authSession'[s].account = a
          /\ authSession'[s].install = i /\ authSession'[s].passkey = k
      BY <1>0, <2>2, OpenWritesSession
    <2>4. install'[i][a] = "active"
      BY <1>0, <2>2, OpenWritesRest
    <2>5. /\ account'[a] = "active"
          /\ k # None => passkey'[k].state = "active" /\ passkey'[k].owner = a
      BY <2>2 DEF OpenedFor
    <2> QED
      BY <2>3, <2>4, <2>5 DEF SessionOK
  <1>3. CASE authSession[s].state # "absent"
    <2> DEFINE row == authSession[s]
    <2>1. SessionOK(row)
      BY <1>0, <1>3 DEF SessionsOK
    <2>2. /\ authSession'[s].state \in {row.state, "revoked"}
          /\ authSession'[s].account = row.account
          /\ authSession'[s].install = row.install
          /\ authSession'[s].passkey = row.passkey
      BY <1>0, <1>3, SessionsStay
    <2>3. row.passkey \in Passkeys \cup {None}
      BY <1>0 DEF TypeOK
    <2>4. row.passkey # None =>
            /\ passkey'[row.passkey].state # "absent"
            /\ passkey'[row.passkey].owner = row.account
      BY <1>0, <2>1, <2>3, PasskeysStay DEF SessionOK
    <2>5. ASSUME authSession'[s].state = "live"
          PROVE  /\ install'[row.install][row.account] = "active"
                 /\ account'[row.account] = "active"
                 /\ row.passkey # None => passkey'[row.passkey].state = "active"
      <3>1. row.state = "live"
        BY <2>2, <2>5
      <3>2. account'[row.account] = "active"
        BY <1>0, <2>1, <3>1, AccountsStay DEF SessionOK
      <3>3. install'[row.install][row.account] = "active"
        <4>1. /\ row.install \in Installs /\ row.account \in Accounts
              /\ install[row.install][row.account] = "active"
          BY <2>1, <3>1 DEF SessionOK
        <4>2. PICK i \in Installs, a \in Accounts : i = row.install /\ a = row.account
          BY <4>1
        <4>3. \/ install'[i][a] = "active"
              \/ \E r \in Requests : RevokeInstallation(r, i) /\ request[r].account = a
          BY <4>1, <4>2, InstallsStay
        <4>4. ASSUME NEW r \in Requests, RevokeInstallation(r, i), request[r].account = a
              PROVE  authSession'[s].state = "revoked"
          BY <1>0, <4>2, <4>4 DEF RevokeInstallation, SessionsRevoked, TypeOK
        <4> QED
          BY <2>5, <4>2, <4>3, <4>4
      <3>4. ASSUME row.passkey # None
            PROVE  passkey'[row.passkey].state = "active"
        <4>1. PICK k \in Passkeys : k = row.passkey
          BY <2>3, <3>4
        <4>2. passkey[k].state = "active" /\ passkey[k].owner = row.account
          BY <2>1, <3>1, <3>4, <4>1 DEF SessionOK
        <4>3. passkey'[k].state = "active" \/ \E r \in Requests : RevokeCredential(r, k)
          BY <4>2, PasskeysActive
        <4>4. ASSUME NEW r \in Requests, RevokeCredential(r, k)
              PROVE  authSession'[s].state = "revoked"
          <5>1. request[r].account = row.account
            BY <4>2, <4>4 DEF RevokeCredential
          <5> QED
            BY <1>0, <4>1, <4>4, <5>1 DEF RevokeCredential, SessionsRevoked, TypeOK
        <4> QED
          BY <2>5, <4>1, <4>3, <4>4
      <3> QED
        BY <3>2, <3>3, <3>4
    <2>6. row.account \in Accounts /\ row.install \in Installs /\ row.state # "absent"
      BY <1>3, <2>1 DEF SessionOK
    <2> HIDE DEF row
    <2>7. SessionOK(authSession[s])'
      BY <2>2, <2>4, <2>5, <2>6 DEF SessionOK
    <2> QED
      BY <2>2, <2>6, <2>7
  <1> QED
    BY <1>1, <1>2, <1>3

-----------------------------------------------------------------------------
(* Tokens                                                                  *)

(* A rotation consumes one token and adds one to its family, ...           *)
LEMMA RotateWrites ==
  ASSUME Inv, NEW t \in Tokens, NEW u \in Tokens, RotateRefresh(t, u)
  PROVE  /\ u # t /\ token[t].state = "fresh" /\ token[t].revoked = FALSE
         /\ token[u].state = "absent"
         /\ token'[t].state = "consumed" /\ token'[t].revoked = token[t].revoked
         /\ token'[t].session = token[t].session /\ token'[t].family = token[t].family
         /\ token'[u].state = "fresh" /\ token'[u].revoked = FALSE
         /\ token'[u].session = token[t].session /\ token'[u].family = token[t].family
         /\ \A x \in Tokens : x # t /\ x # u => token'[x] = token[x]
         /\ authSession' = authSession
  <1>0. token \in [Tokens -> TokenRow]
    BY TypeMeaning DEF Inv
  <1>1. /\ token[t].state = "fresh" /\ ~token[t].revoked /\ token[u].state = "absent"
        /\ authSession' = authSession
    BY DEF RotateRefresh, Rotatable
  <1>2. token[t].revoked \in BOOLEAN
    BY <1>0 DEF TokenRow
  <1> DEFINE new == [state |-> "fresh", revoked |-> FALSE,
                     session |-> token[t].session, family |-> token[t].family,
                     expires |-> clock + RefreshTTL]
             old == [token[t] EXCEPT !.state = "consumed"]
  <1>3. token' = [token EXCEPT ![t] = old, ![u] = new]
    BY DEF RotateRefresh
  <1>4. /\ old.state = "consumed" /\ old.revoked = token[t].revoked
        /\ old.session = token[t].session /\ old.family = token[t].family
    BY <1>0 DEF TokenRow
  <1>5. /\ new.state = "fresh" /\ new.revoked = FALSE
        /\ new.session = token[t].session /\ new.family = token[t].family
    OBVIOUS
  <1> HIDE DEF new, old
  <1>6. u # t
    BY <1>1
  <1>7. /\ token'[t] = old /\ token'[u] = new
        /\ \A x \in Tokens : x # t /\ x # u => token'[x] = token[x]
    BY <1>0, <1>3, <1>6
  <1> QED
    BY <1>1, <1>2, <1>4, <1>5, <1>6, <1>7

(* ... and a reuse only revokes.                                           *)
LEMMA ReuseWrites ==
  ASSUME Inv, NEW t \in Tokens, RefreshReuse(t), NEW x \in Tokens
  PROVE  /\ token'[x].state = token[x].state
         /\ token'[x].session = token[x].session
         /\ token'[x].family = token[x].family
         /\ token[x].family # token[t].family => token'[x] = token[x]
         /\ token[x].family = token[t].family => token'[x].revoked
  <1>0. token[x] \in TokenRow
    BY TypeMeaning DEF Inv
  <1>1. token'[x] = IF token[x].family = token[t].family
                    THEN [token[x] EXCEPT !.revoked = TRUE] ELSE token[x]
    BY DEF RefreshReuse
  <1> QED
    BY <1>0, <1>1 DEF TokenRow

(* Whoever shares the family of an existing token exists.                  *)
LEMMA FamilyExists ==
  ASSUME Inv, NEW x \in Tokens, NEW y \in Tokens, token[x].state # "absent",
         token[y].family = token[x].family
  PROVE  token[y].state # "absent"
  <1>1. token[x].family \in Tokens
    BY DEF Inv, TokensOK
  <1>2. token[y].state = "absent" => token[y].family = None
    BY DEF Inv, TokensOK, NoToken
  <1> QED
    BY <1>1, <1>2, AuthAssumption

(* A token keeps its session and its family, and its session exists.       *)
LEMMA TokensStay ==
  ASSUME Inv, StepByTable, NEW x \in Tokens, token[x].state # "absent"
  PROVE  /\ token'[x].state # "absent"
         /\ token'[x].session = token[x].session
         /\ token'[x].family = token[x].family
         /\ token[x].session \in AuthSessions
         /\ authSession'[token[x].session].state # "absent"
         /\ authSession[token[x].session].state = "revoked" =>
              authSession'[token[x].session].state = "revoked"
  <1>0. TypeOK /\ TokensOK /\ TokenStep /\ AuthSessionStep
    BY DEF Inv, StepByTable
  <1>1. token[x].session \in AuthSessions /\ authSession[token[x].session].state # "absent"
    BY <1>0 DEF TokensOK
  <1>2. /\ authSession'[token[x].session].state # "absent"
        /\ authSession[token[x].session].state = "revoked" =>
             authSession'[token[x].session].state = "revoked"
    BY <1>0, <1>1, SessionsStay
  <1>3. /\ token'[x].state # "absent"
        /\ token'[x].session = token[x].session
        /\ token'[x].family = token[x].family
    <2>1. CASE UNCHANGED token
      BY <2>1
    <2>2. ASSUME NEW t \in Tokens, RefreshReuse(t)
          PROVE  /\ token'[x].state # "absent"
                 /\ token'[x].session = token[x].session
                 /\ token'[x].family = token[x].family
      BY <2>2, ReuseWrites
    <2>3. ASSUME NEW t \in Tokens, NEW u \in Tokens, RotateRefresh(t, u)
          PROVE  /\ token'[x].state # "absent"
                 /\ token'[x].session = token[x].session
                 /\ token'[x].family = token[x].family
      BY <2>3, RotateWrites
    <2>4. CASE Opened
      <3>1. PICK r \in Requests, i \in Installs, z \in AuthSessions, t \in Tokens :
              OpensSession(r, i, z, t)
        BY <2>4 DEF Opened
      <3>2. PICK a \in Accounts, k \in Passkeys \cup {None}, o \in Origin :
              OpenedFor(r, i, z, t, a, k, o)
        BY <3>1, OpenFacts
      <3>3. token'[x] = token[x]
        BY <1>0, <3>2, OpenWritesToken
      <3> QED
        BY <3>3
    <2> QED
      BY <1>0, <2>1, <2>2, <2>3, <2>4 DEF TokenStep
  <1> QED
    BY <1>1, <1>2, <1>3

(* u replaces t in its family; u is the first token of a new session.      *)
Successor(t, u) ==
  /\ token[t].state = "fresh" /\ token[t].revoked = FALSE
  /\ token'[t].state = "consumed"
  /\ token'[u].session = token[t].session /\ token'[u].family = token[t].family
  /\ \A x \in Tokens : x # u /\ x # t => token'[x] = token[x]

First(u) ==
  /\ token'[u].family = u
  /\ token'[u].session \in AuthSessions
  /\ authSession[token'[u].session].state = "absent"
  /\ authSession'[token'[u].session].state # "absent"
  /\ \A x \in Tokens : x # u => token'[x] = token[x]

(* A token that comes to exist is the successor of a rotated one, or the   *)
(* first of its session.                                                   *)
LEMMA NewToken ==
  ASSUME Inv, StepByTable, NEW u \in Tokens, token[u].state = "absent",
         token'[u] # token[u]
  PROVE  /\ token'[u].state = "fresh" /\ token'[u].revoked = FALSE
         /\ First(u) \/ \E t \in Tokens : Successor(t, u)
  <1>0. TypeOK /\ TokensOK /\ TokenStep
    BY DEF Inv, StepByTable
  <1>1. ASSUME NEW t \in Tokens, RefreshReuse(t)
        PROVE  FALSE
    <2>1. token[t].state # "absent"
      BY <1>1 DEF RefreshReuse
    <2>2. token[u].family # token[t].family
      BY <2>1, FamilyExists
    <2> QED
      BY <1>1, <2>2, ReuseWrites
  <1>2. ASSUME NEW t \in Tokens, NEW v \in Tokens, RotateRefresh(t, v)
        PROVE  token'[u].state = "fresh" /\ token'[u].revoked = FALSE /\ Successor(t, u)
    <2>1. /\ token[t].state = "fresh" /\ token[t].revoked = FALSE
          /\ token'[t].state = "consumed"
          /\ token'[v].session = token[t].session /\ token'[v].family = token[t].family
          /\ \A x \in Tokens : x # t /\ x # v => token'[x] = token[x]
      BY <1>2, RotateWrites
    <2>2. token'[v].state = "fresh" /\ token'[v].revoked = FALSE
      BY <1>2, RotateWrites
    <2>3. v = u
      BY <2>1
    <2> QED
      BY <2>1, <2>2, <2>3 DEF Successor
  <1>3. CASE Opened
    <2>1. PICK r \in Requests, i \in Installs, z \in AuthSessions, t \in Tokens :
            OpensSession(r, i, z, t)
      BY <1>3 DEF Opened
    <2>2. PICK a \in Accounts, k \in Passkeys \cup {None}, o \in Origin :
            OpenedFor(r, i, z, t, a, k, o)
      BY <2>1, OpenFacts
    <2>3. /\ \A x \in Tokens : x # t => token'[x] = token[x]
          /\ token'[t].state = "fresh" /\ token'[t].revoked = FALSE
          /\ token'[t].session = z /\ token'[t].family = t
      BY <1>0, <2>2 DEF OpenedFor, CreateSession, TypeOK
    <2>4. authSession[z].state = "absent" /\ authSession'[z].state # "absent"
      BY <1>0, <2>2, OpenWritesSession
    <2>5. t = u
      BY <2>3
    <2> QED
      BY <2>3, <2>4, <2>5 DEF First
  <1> QED
    BY <1>0, <1>1, <1>2, <1>3 DEF TokenStep

(* Tokens stay with a session and a family that exist, and a family with   *)
(* one session.                                                            *)
LEMMA TokensStep ==
  ASSUME Inv, StepByTable
  PROVE  TokensOK'
  <1>0. TokensOK
    BY DEF Inv
  <1>1. ASSUME NEW x \in Tokens, token[x].state # "absent"
        PROVE  /\ token'[x].state # "absent"
               /\ token'[x].session \in AuthSessions
               /\ authSession'[token'[x].session].state # "absent"
               /\ token'[x].family \in Tokens
               /\ token'[token'[x].family].state # "absent"
    <2>1. token[x].family \in Tokens /\ token[token[x].family].state # "absent"
      BY <1>0, <1>1 DEF TokensOK
    <2>2. PICK f \in Tokens : f = token[x].family
      BY <2>1
    <2>3. token'[f].state # "absent"
      BY <2>1, <2>2, TokensStay
    <2> QED
      BY <1>1, <2>2, <2>3, TokensStay
  <1>2. ASSUME NEW x \in Tokens
        PROVE  IF token'[x].state = "absent" THEN token'[x] = NoToken
               ELSE /\ token'[x].session \in AuthSessions
                    /\ authSession'[token'[x].session].state # "absent"
                    /\ token'[x].family \in Tokens
                    /\ token'[token'[x].family].state # "absent"
    <2>1. CASE token[x].state # "absent"
      BY <1>1, <2>1
    <2>2. CASE token[x].state = "absent" /\ token'[x] = token[x]
      BY <1>0, <2>2 DEF TokensOK
    <2>3. CASE token[x].state = "absent" /\ token'[x] # token[x]
      <3>1. token'[x].state = "fresh"
        BY <2>3, NewToken
      <3>2. First(x) \/ \E t \in Tokens : Successor(t, x)
        BY <2>3, NewToken
      <3>3. CASE First(x)
        BY <3>1, <3>3 DEF First
      <3>4. ASSUME NEW t \in Tokens, Successor(t, x)
            PROVE  /\ token'[x].session \in AuthSessions
                   /\ authSession'[token'[x].session].state # "absent"
                   /\ token'[x].family \in Tokens
                   /\ token'[token'[x].family].state # "absent"
        <4>1. /\ token[t].state # "absent"
              /\ token'[x].session = token[t].session
              /\ token'[x].family = token[t].family
          BY <3>4 DEF Successor
        <4>2. token'[t].session = token[t].session /\ token'[t].family = token[t].family
          BY <4>1, TokensStay
        <4> QED
          BY <1>1, <4>1, <4>2
      <3> QED
        BY <3>1, <3>2, <3>3, <3>4
    <2> QED
      BY <2>1, <2>2, <2>3
  <1>3. ASSUME NEW x \in Tokens, NEW y \in Tokens,
               token[x].state = "absent", token'[x] # token[x],
               token'[y].state # "absent", token'[x].family = token'[y].family
        PROVE  token'[x].session = token'[y].session
    <2>1. CASE First(x)
      <3>1. ASSUME y # x PROVE FALSE
        <4>1. token[y].state # "absent" /\ token[y].family = x
          BY <1>3, <2>1, <3>1 DEF First
        <4> QED
          BY <1>0, <1>3, <4>1 DEF TokensOK
      <3> QED
        BY <3>1
    <2>2. ASSUME NEW t \in Tokens, Successor(t, x)
          PROVE  token'[x].session = token'[y].session
      <3>1. /\ token[t].state # "absent"
            /\ token'[x].session = token[t].session
            /\ token'[x].family = token[t].family
        BY <2>2 DEF Successor
      <3>2. token'[t].session = token[t].session
        BY <3>1, TokensStay
      <3>3. ASSUME y # x, y # t PROVE token'[x].session = token'[y].session
        <4>1. token'[y] = token[y]
          BY <2>2, <3>3 DEF Successor
        <4>2. token[y].state # "absent" /\ token[y].family = token[t].family
          BY <1>3, <3>1, <4>1
        <4>3. token[y].session = token[t].session
          BY <1>0, <3>1, <4>2 DEF TokensOK
        <4> QED
          BY <3>1, <4>1, <4>3
      <3> QED
        BY <3>1, <3>2, <3>3
    <2> QED
      BY <1>3, <2>1, <2>2, NewToken
  <1>4. ASSUME NEW x \in Tokens, NEW y \in Tokens,
               token'[x].state # "absent", token'[y].state # "absent",
               token'[x].family = token'[y].family
        PROVE  token'[x].session = token'[y].session
    <2>1. CASE token[x].state = "absent"
      BY <1>3, <1>4, <2>1
    <2>2. CASE token[y].state = "absent"
      BY <1>3, <1>4, <2>2
    <2>3. CASE token[x].state # "absent" /\ token[y].state # "absent"
      <3>1. token'[x].session = token[x].session /\ token'[x].family = token[x].family
        BY <2>3, TokensStay
      <3>2. token'[y].session = token[y].session /\ token'[y].family = token[y].family
        BY <2>3, TokensStay
      <3> QED
        BY <1>0, <1>4, <2>3, <3>1, <3>2 DEF TokensOK
    <2> QED
      BY <2>1, <2>2, <2>3
  <1> QED
    BY <1>2, <1>4 DEF TokensOK

(* A token that exists becomes fresh in no step, and is revoked or taken   *)
(* back only with its family.                                              *)
LEMMA TokenMarks ==
  ASSUME Inv, StepByTable, NEW x \in Tokens, token[x].state # "absent"
  PROVE  /\ token'[x].state = "fresh" => token[x].state = "fresh"
         /\ \/ token'[x].revoked = token[x].revoked
            \/ \E t \in Tokens : RefreshReuse(t)
  <1>0. TypeOK /\ TokenStep
    BY DEF Inv, StepByTable
  <1>1. CASE UNCHANGED token
    BY <1>1
  <1>2. ASSUME NEW t \in Tokens, RefreshReuse(t)
        PROVE  token'[x].state = token[x].state
    BY <1>2, ReuseWrites
  <1>3. ASSUME NEW t \in Tokens, NEW u \in Tokens, RotateRefresh(t, u)
        PROVE  /\ token'[x].state = "fresh" => token[x].state = "fresh"
               /\ token'[x].revoked = token[x].revoked
    BY <1>3, RotateWrites
  <1>4. CASE Opened
    <2>1. PICK r \in Requests, i \in Installs, z \in AuthSessions, t \in Tokens :
            OpensSession(r, i, z, t)
      BY <1>4 DEF Opened
    <2>2. PICK a \in Accounts, k \in Passkeys \cup {None}, o \in Origin :
            OpenedFor(r, i, z, t, a, k, o)
      BY <2>1, OpenFacts
    <2>3. token'[x] = token[x]
      BY <1>0, <2>2, OpenWritesToken
    <2> QED
      BY <2>3
  <1> QED
    BY <1>0, <1>1, <1>2, <1>3, <1>4 DEF TokenStep

(* A rotation leaves one fresh token, its successor, and a new session     *)
(* starts with one.                                                        *)
LEMMA OneLiveTokenStep ==
  ASSUME Inv, StepByTable
  PROVE  OneLiveToken'
  <1>0. OneLiveToken /\ TokensOK
    BY DEF Inv
  <1>1. ASSUME NEW x \in Tokens, NEW y \in Tokens,
               token[x].state = "absent", token'[x] # token[x],
               token'[y].state = "fresh", token'[x].session = token'[y].session
        PROVE  x = y
    <2>1. CASE First(x)
      <3>1. ASSUME y # x PROVE FALSE
        <4>1. token[y].state = "fresh" /\ authSession[token[y].session].state = "absent"
          BY <1>1, <2>1, <3>1 DEF First
        <4> QED
          BY <1>0, <4>1 DEF TokensOK
      <3> QED
        BY <3>1
    <2>2. ASSUME NEW t \in Tokens, Successor(t, x)
          PROVE  x = y
      <3>1. y # t
        BY <1>1, <2>2 DEF Successor
      <3>2. ASSUME y # x PROVE FALSE
        <4>1. token'[y] = token[y]
          BY <2>2, <3>1, <3>2 DEF Successor
        <4>2. token[t].state = "fresh" /\ token[t].session = token[y].session
          BY <1>1, <2>2, <4>1 DEF Successor
        <4> QED
          BY <1>0, <1>1, <3>1, <4>1, <4>2 DEF OneLiveToken
      <3> QED
        BY <3>2
    <2> QED
      BY <1>1, <2>1, <2>2, NewToken
  <1>2. ASSUME NEW x \in Tokens, NEW y \in Tokens,
               token'[x].state = "fresh", token'[y].state = "fresh",
               token'[x].session = token'[y].session
        PROVE  x = y
    <2>1. CASE token[x].state = "absent"
      BY <1>1, <1>2, <2>1
    <2>2. CASE token[y].state = "absent"
      BY <1>1, <1>2, <2>2
    <2>3. CASE token[x].state # "absent" /\ token[y].state # "absent"
      <3>1. token[x].state = "fresh" /\ token[y].state = "fresh"
        BY <1>2, <2>3, TokenMarks
      <3>2. token'[x].session = token[x].session /\ token'[y].session = token[y].session
        BY <2>3, TokensStay
      <3> QED
        BY <1>0, <1>2, <3>1, <3>2 DEF OneLiveToken
    <2> QED
      BY <2>1, <2>2, <2>3
  <1> QED
    BY <1>2 DEF OneLiveToken

(* A reuse ends the family and its session; nothing joins an ended family, *)
(* because only an unrevoked token is rotated.                             *)
LEMMA FamiliesEndStep ==
  ASSUME Inv, StepByTable
  PROVE  FamiliesEnd'
  <1>0. FamiliesEnd /\ TokensOK /\ TypeOK
    BY DEF Inv
  <1> SUFFICES ASSUME NEW x \in Tokens, NEW y \in Tokens,
                      token'[x].revoked, token'[y].family = token'[x].family
               PROVE  token'[y].revoked /\ authSession'[token'[y].session].state = "revoked"
    BY DEF FamiliesEnd
  <1>1. token[x].state # "absent"
    <2>1. token'[x] # token[x] => ~(token[x].state = "absent")
      BY NewToken
    <2>2. token[x].state = "absent" => ~token[x].revoked
      BY <1>0 DEF TokensOK, NoToken
    <2> QED
      BY <2>1, <2>2
  <1>2. token'[x].family = token[x].family /\ token[x].family \in Tokens
    BY <1>0, <1>1, TokensStay DEF TokensOK
  <1>3. ASSUME token[x].revoked
        PROVE  token'[y].revoked /\ authSession'[token'[y].session].state = "revoked"
    <2>1. CASE token[y].state = "absent"
      <3>1. token'[y] # token[y]
        BY <1>0, <1>2, <2>1, AuthAssumption DEF TokensOK, NoToken
      <3>2. CASE First(y)
        BY <1>0, <1>1, <1>2, <2>1, <3>2 DEF First, TokensOK
      <3>3. ASSUME NEW t \in Tokens, Successor(t, y) PROVE FALSE
        <4>1. token[t].revoked = FALSE /\ token[t].family = token[x].family
          BY <1>2, <3>3 DEF Successor
        <4> QED
          BY <1>0, <1>3, <4>1 DEF FamiliesEnd
      <3> QED
        BY <2>1, <3>1, <3>2, <3>3, NewToken
    <2>2. CASE token[y].state # "absent"
      <3>1. /\ token'[y].family = token[y].family /\ token'[y].session = token[y].session
            /\ authSession[token[y].session].state = "revoked" =>
                 authSession'[token[y].session].state = "revoked"
        BY <2>2, TokensStay
      <3>2. token[y].revoked /\ authSession[token[y].session].state = "revoked"
        BY <1>0, <1>2, <1>3, <3>1 DEF FamiliesEnd
      <3>3. ASSUME NEW t \in Tokens, RefreshReuse(t)
            PROVE  token'[y].revoked
        BY <3>2, <3>3, ReuseWrites
      <3>4. token'[y].revoked
        BY <2>2, <3>2, <3>3, TokenMarks
      <3> QED
        BY <3>1, <3>2, <3>4
    <2> QED
      BY <2>1, <2>2
  <1>4. ASSUME NEW t \in Tokens, RefreshReuse(t), ~token[x].revoked
        PROVE  token'[y].revoked /\ authSession'[token'[y].session].state = "revoked"
    <2>1. token[x].family = token[t].family
      BY <1>4, ReuseWrites
    <2>2. token'[y].family = token[y].family /\ token'[y].session = token[y].session
      BY <1>4, ReuseWrites
    <2>3. token[y].family = token[t].family /\ token[t].state # "absent"
      BY <1>2, <1>4, <2>1, <2>2 DEF RefreshReuse
    <2>4. token[y].state # "absent"
      BY <2>3, FamilyExists
    <2>5. token[y].session = token[t].session /\ token[t].session \in AuthSessions
      BY <1>0, <2>3, <2>4 DEF TokensOK
    <2>6. authSession'[token[t].session].state = "revoked"
      BY <1>0, <1>4, <2>5 DEF RefreshReuse, TypeOK
    <2>7. token'[y].revoked
      BY <1>4, <2>3, ReuseWrites
    <2> QED
      BY <2>2, <2>5, <2>6, <2>7
  <1> QED
    BY <1>1, <1>3, <1>4, TokenMarks

-----------------------------------------------------------------------------
(* Proofs that are spent                                                   *)

(* A handler that comes to hold a challenge found it open.                 *)
LEMMA NewHolder ==
  ASSUME Inv, StepByTable, NEW q \in Requests, Opens(request'[q]),
         request'[q] # request[q]
  PROVE  \E h \in Challenges :
           /\ request'[q].challenge = h /\ challenge[h].state = "open"
           /\ \A p \in Requests : p # q => request'[p] = request[p]
  <1>0. TypeOK /\ RequestStep
    BY DEF Inv, StepByTable
  <1>1. ~Opens(Idle)
    BY DEF Opens, Idle
  <1>2. ASSUME NEW r \in Requests, request' = [request EXCEPT ![r] = Idle]
        PROVE  FALSE
    BY <1>0, <1>1, <1>2 DEF TypeOK
  <1>3. ASSUME NEW r \in Requests, NEW h \in Challenges, FinishAccountRegistration(r, h)
        PROVE  /\ request'[q].challenge = h /\ challenge[h].state = "open"
               /\ \A p \in Requests : p # q => request'[p] = request[p]
    <2>1. challenge[h].state = "open"
      BY <1>3 DEF FinishAccountRegistration, ConsumeChallenge
    <2>2. request' = [request EXCEPT ![r] =
            [Idle EXCEPT !.op = "register", !.account = challenge[h].account,
                         !.challenge = h]]
      BY <1>3 DEF FinishAccountRegistration
    <2>3. r = q
      BY <1>0, <2>2 DEF TypeOK
    <2> QED
      BY <1>0, <2>1, <2>2, <2>3 DEF TypeOK, Idle
  <1>4. ASSUME NEW r \in Requests, NEW h \in Challenges, NEW k \in Passkeys,
               FinishLogin(r, h, k)
        PROVE  /\ request'[q].challenge = h /\ challenge[h].state = "open"
               /\ \A p \in Requests : p # q => request'[p] = request[p]
    <2>1. challenge[h].state = "open"
      BY <1>4 DEF FinishLogin, ConsumeChallenge
    <2>2. request' = [request EXCEPT ![r] =
            [Idle EXCEPT !.op = "login", !.account = passkey[k].owner,
                         !.passkey = k, !.challenge = h]]
      BY <1>4 DEF FinishLogin
    <2>3. r = q
      BY <1>0, <2>2 DEF TypeOK
    <2> QED
      BY <1>0, <2>1, <2>2, <2>3 DEF TypeOK, Idle
  <1>5. ASSUME NEW r \in Requests, NEW h \in Challenges, FinishAddPasskey(r, h)
        PROVE  FALSE
    <2>1. request' = [request EXCEPT ![r].op = "add_passkey"]
      BY <1>2, <1>5 DEF FinishAddPasskey
    <2> QED
      BY <1>0, <2>1 DEF TypeOK, Opens
  <1>6. ASSUME NEW r \in Requests, NEW a \in Accounts, NEW p \in Positions,
               Recover(r, a, p)
        PROVE  FALSE
    BY <1>0, <1>6 DEF Recover, TypeOK, Idle, Opens
  <1>7. ASSUME NEW r \in Requests, NEW s \in AuthSessions, Authenticate(r, s)
        PROVE  FALSE
    BY <1>0, <1>7 DEF Authenticate, TypeOK, Idle, Opens
  <1> QED
    BY <1>0, <1>2, <1>3, <1>4, <1>5, <1>6, <1>7 DEF RequestStep

(* A kit's rows stay spent until another kit replaces them.                *)
LEMMA CodesStay ==
  ASSUME Inv, StepByTable, NEW a \in Accounts
  PROVE  /\ kit[a] \in Nat /\ kit'[a] \in Nat
         /\ \/ kit'[a] = kit[a] /\ usedCodes[a] \subseteq usedCodes'[a]
            \/ kit'[a] > kit[a]
  <1>0. /\ CodesStep /\ KitsOfActive /\ TypeOK
        /\ kit \in KitTable /\ usedCodes \in CodeTable
    BY TypeMeaning DEF Inv, StepByTable
  <1>1. kit[a] \in Nat
    BY <1>0 DEF KitTable
  <1>2. kit'[a] \in Nat
    BY CodesType DEF KitTable
  <1>3. ASSUME NEW r \in Requests, RegenerateRecoveryCodes(r)
        PROVE  \/ kit'[a] = kit[a] /\ usedCodes[a] \subseteq usedCodes'[a]
               \/ kit'[a] > kit[a]
    BY <1>0, <1>1, <1>3 DEF RegenerateRecoveryCodes, KitTable, CodeTable
  <1>4. ASSUME NEW r \in Requests, NEW k, NEW i, NEW s, NEW t,
               ActivateAccount(r, k, i, s, t)
        PROVE  \/ kit'[a] = kit[a] /\ usedCodes[a] \subseteq usedCodes'[a]
               \/ kit'[a] > kit[a]
    <2>1. /\ kit' = [kit EXCEPT ![request[r].account] = 1] /\ usedCodes' = usedCodes
          /\ account[request[r].account] = "pending"
      BY <1>4 DEF ActivateAccount
    <2>2. CASE request[r].account = a
      <3>1. kit[a] = 0
        BY <1>0, <2>1, <2>2 DEF KitsOfActive
      <3> QED
        BY <1>0, <2>1, <2>2, <3>1 DEF KitTable
    <2>3. CASE request[r].account # a
      BY <1>0, <2>1, <2>3 DEF KitTable
    <2> QED
      BY <2>2, <2>3
  <1>5. ASSUME NEW r \in Requests, NEW i, NEW s, NEW t, CreateLoginSession(r, i, s, t)
        PROVE  kit'[a] = kit[a] /\ usedCodes[a] \subseteq usedCodes'[a]
    BY <1>5 DEF CreateLoginSession, ceremonyVars
  <1>6. ASSUME NEW r \in Requests, NEW i, NEW s, NEW t, UseRecoveryCode(r, i, s, t)
        PROVE  kit'[a] = kit[a] /\ usedCodes[a] \subseteq usedCodes'[a]
    BY <1>0, <1>6 DEF UseRecoveryCode, CodeTable
  <1>7. CASE UNCHANGED <<kit, usedCodes>>
    BY <1>1, <1>2, <1>7
  <1>8. \/ kit'[a] = kit[a] /\ usedCodes[a] \subseteq usedCodes'[a]
        \/ kit'[a] > kit[a]
    BY <1>0, <1>3, <1>4, <1>5, <1>6, <1>7 DEF CodesStep, Opened, OpensSession
  <1> QED
    BY <1>1, <1>2, <1>8

(* A spent challenge stays spent: it is not open, so no handler takes it.  *)
LEMMA ChallengesSpentStay ==
  ASSUME Inv, StepByTable, NEW h \in Challenges, ChallengeSpent(h)
  PROVE  ChallengeSpent(h)'
  <1>1. ChallengeStep
    BY DEF StepByTable
  <1>2. challenge[h].state = "consumed" /\ challenge'[h].state = "consumed"
    BY <1>1, ChallengesStay DEF ChallengeSpent
  <1>3. ASSUME NEW r \in Requests, Opens(request'[r])
        PROVE  request'[r].challenge # h
    <2>1. CASE request'[r] = request[r]
      BY <1>3, <2>1 DEF ChallengeSpent
    <2>2. CASE request'[r] # request[r]
      <3>1. PICK g \in Challenges : request'[r].challenge = g /\ challenge[g].state = "open"
        BY <1>3, <2>2, NewHolder
      <3> QED
        BY <1>2, <3>1
    <2> QED
      BY <2>1, <2>2
  <1> QED
    BY <1>2, <1>3 DEF ChallengeSpent

(* So does a spent row.                                                    *)
LEMMA RowsSpentStay ==
  ASSUME Inv, StepByTable, NEW a \in Accounts, NEW o \in Origin, RowSpent(a, o)
  PROVE  RowSpent(a, o)'
  <1>1. o.row \in Nat
    BY DEF Origin
  <1>2. o.challenge = None /\ o.row =< kit[a] /\ (o.row = kit[a] => o.position \in usedCodes[a])
    BY DEF RowSpent
  <1>3. /\ kit[a] \in Nat /\ kit'[a] \in Nat
        /\ \/ kit'[a] = kit[a] /\ usedCodes[a] \subseteq usedCodes'[a]
           \/ kit'[a] > kit[a]
    BY CodesStay
  <1>4. o.row =< kit'[a] /\ (o.row = kit'[a] => o.position \in usedCodes'[a])
    BY <1>1, <1>2, <1>3
  <1> QED
    BY <1>2, <1>4 DEF RowSpent

(* Two handlers never hold one challenge.                                  *)
LEMMA HeldByOneStep ==
  ASSUME Inv, StepByTable
  PROVE  HeldByOne'
  <1>0. HeldByOne /\ RequestsOK
    BY DEF Inv, OriginsSpent
  <1>1. ASSUME NEW r \in Requests, NEW q \in Requests, r # q,
               Opens(request'[r]), Opens(request'[q]), request'[r] # request[r]
        PROVE  request'[r].challenge # request'[q].challenge
    <2>1. PICK h \in Challenges :
            /\ request'[r].challenge = h /\ challenge[h].state = "open"
            /\ \A p \in Requests : p # r => request'[p] = request[p]
      BY <1>1, NewHolder
    <2>2. request'[q] = request[q]
      BY <1>1, <2>1
    <2>3. Opens(request[q])
      BY <1>1, <2>2
    <2>4. challenge[request[q].challenge].state = "consumed"
      BY <1>0, <2>3 DEF RequestsOK, RequestOK, Opens
    <2> QED
      BY <2>1, <2>2, <2>4
  <1>2. ASSUME NEW r \in Requests, NEW q \in Requests,
               Opens(request'[r]), Opens(request'[q]),
               request'[r].challenge = request'[q].challenge
        PROVE  r = q
    <2>1. CASE request'[r] = request[r] /\ request'[q] = request[q]
      BY <1>0, <1>2, <2>1 DEF HeldByOne
    <2>2. CASE request'[r] # request[r] \/ request'[q] # request[q]
      BY <1>1, <1>2, <2>2
    <2> QED
      BY <2>1, <2>2
  <1> QED
    BY <1>2 DEF HeldByOne

(* What a new session came from is spent in the step that opens it.        *)
LEMMA OpeningSpends ==
  ASSUME Inv, StepByTable, NEW r \in Requests, NEW i \in Installs,
         NEW s \in AuthSessions, NEW t \in Tokens, NEW a \in Accounts,
         NEW k \in Passkeys \cup {None}, NEW o \in Origin,
         OpenedFor(r, i, s, t, a, k, o)
  PROVE  ChallengeSpent(o.challenge)' \/ RowSpent(a, o)'
  <1>0. TypeOK /\ HeldByOne /\ RequestsOK
    BY DEF Inv, OriginsSpent
  <1>1. CASE FromChallenge(r, o)
    <2>1. PICK h \in Challenges : h = o.challenge
      BY <1>1 DEF FromChallenge
    <2>2. Opens(request[r]) /\ request[r].challenge = h
      BY <1>1, <2>1 DEF FromChallenge
    <2>3. challenge[h].state = "consumed"
      BY <1>0, <2>2 DEF RequestsOK, RequestOK, Opens
    <2>4. challenge'[h].state = "consumed"
      BY <2>3 DEF OpenedFor
    <2>5. request'[r] = Idle /\ \A q \in Requests : q # r => request'[q] = request[q]
      BY <1>0, OpenWritesRest
    <2>6. ASSUME NEW q \in Requests, Opens(request'[q])
          PROVE  request'[q].challenge # h
      <3>1. q # r
        BY <2>5, <2>6 DEF Opens, Idle
      <3>2. request'[q] = request[q]
        BY <2>5, <3>1
      <3> QED
        BY <1>0, <2>2, <2>6, <3>1, <3>2 DEF HeldByOne
    <2>7. ChallengeSpent(h)'
      BY <2>4, <2>6 DEF ChallengeSpent
    <2> QED
      BY <2>1, <2>7
  <1>2. CASE FromCode(a, o)
    <2>1. o.challenge = None /\ o.row = kit'[a] /\ o.row \in Nat
      BY <1>2 DEF FromCode, Origin
    <2>2. usedCodes \in CodeTable
      BY <1>0, TypeMeaning
    <2>3. o.position \in usedCodes'[a]
      BY <1>2, <2>2 DEF FromCode, CodeTable
    <2> QED
      BY <2>1, <2>3 DEF RowSpent
  <1> QED
    BY <1>1, <1>2 DEF OpenedFor

(* A session came from something that is spent.                            *)
LEMMA OriginsSpentStep ==
  ASSUME Inv, StepByTable
  PROVE  OriginsSpent'
  <1>0. TypeOK /\ OriginsSpent /\ SessionsOK /\ AuthSessionStep
    BY DEF Inv, StepByTable
  <1>1. ASSUME NEW s \in AuthSessions, authSession'[s].state # "absent"
        PROVE  \/ ChallengeSpent(authSession[s].origin.challenge)'
               \/ RowSpent(authSession[s].account, authSession[s].origin)'
    <2>1. CASE authSession[s].state # "absent"
      <3>1. PICK a \in Accounts, o \in Origin :
              a = authSession[s].account /\ o = authSession[s].origin
        BY <1>0, <2>1 DEF TypeOK, SessionsOK, SessionOK
      <3>2. authSession'[s].account = a /\ authSession'[s].origin = o
        BY <1>0, <2>1, <3>1, SessionsStay
      <3>3. ChallengeSpent(o.challenge) \/ RowSpent(a, o)
        BY <1>0, <2>1, <3>1 DEF OriginsSpent
      <3>4. CASE ChallengeSpent(o.challenge)
        <4>1. PICK h \in Challenges : h = o.challenge
          BY <3>4 DEF ChallengeSpent
        <4>2. ChallengeSpent(h)'
          BY <3>4, <4>1, ChallengesSpentStay
        <4> QED
          BY <3>2, <4>1, <4>2
      <3>5. CASE RowSpent(a, o)
        <4>1. RowSpent(a, o)'
          BY <3>5, RowsSpentStay
        <4> QED
          BY <3>2, <4>1
      <3> QED
        BY <3>3, <3>4, <3>5
    <2>2. CASE authSession[s].state = "absent"
      <3>1. PICK r \in Requests, i \in Installs, t \in Tokens :
              \E a \in Accounts, k \in Passkeys \cup {None}, o \in Origin :
                OpenedFor(r, i, s, t, a, k, o)
        BY <1>1, <2>2, NewSession
      <3>2. PICK a \in Accounts, k \in Passkeys \cup {None}, o \in Origin :
              OpenedFor(r, i, s, t, a, k, o)
        BY <3>1
      <3>3. authSession'[s].account = a /\ authSession'[s].origin = o
        BY <1>0, <3>2, OpenWritesSession
      <3>4. ChallengeSpent(o.challenge)' \/ RowSpent(a, o)'
        BY <3>2, OpeningSpends
      <3> QED
        BY <3>3, <3>4
    <2> QED
      BY <2>1, <2>2
  <1> QED
    BY <1>1, HeldByOneStep DEF OriginsSpent

(* What a session is opened from is not spent, so no other came from it.   *)
LEMMA OneSessionPerProofStep ==
  ASSUME Inv, StepByTable
  PROVE  OneSessionPerProof'
  <1>0. TypeOK /\ OriginsSpent /\ OneSessionPerProof /\ SessionsOK /\ AuthSessionStep
    BY DEF Inv, StepByTable
  <1> DEFINE Same(s, z) ==
        /\ authSession'[s].origin.challenge = authSession'[z].origin.challenge
        /\ authSession'[s].origin.row = authSession'[z].origin.row
        /\ authSession'[s].origin.position = authSession'[z].origin.position
        /\ authSession'[s].account = authSession'[z].account
  <1>1. ASSUME NEW s \in AuthSessions, NEW z \in AuthSessions,
               authSession[s].state = "absent",
               authSession'[s].state # "absent", authSession'[z].state # "absent",
               Same(s, z), z # s
        PROVE  FALSE
    <2>1. PICK r \in Requests, i \in Installs, t \in Tokens :
            \E a \in Accounts, k \in Passkeys \cup {None}, o \in Origin :
              OpenedFor(r, i, s, t, a, k, o)
      BY <1>1, NewSession
    <2>2. PICK a \in Accounts, k \in Passkeys \cup {None}, o \in Origin :
            OpenedFor(r, i, s, t, a, k, o)
      BY <2>1
    <2>3. authSession'[s].account = a /\ authSession'[s].origin = o
      BY <1>0, <2>2, OpenWritesSession
    <2>4. authSession'[z] = authSession[z]
      BY <1>0, <1>1, <2>2, OpenWritesSession
    <2>5. /\ authSession[z].state # "absent" /\ authSession[z].account = a
          /\ authSession[z].origin.challenge = o.challenge
          /\ authSession[z].origin.row = o.row
          /\ authSession[z].origin.position = o.position
      BY <1>1, <2>3, <2>4
    <2>6. ChallengeSpent(o.challenge) \/ RowSpent(a, authSession[z].origin)
      BY <1>0, <2>5 DEF OriginsSpent
    <2>7. CASE FromChallenge(r, o)
      <3>1. o.challenge # None
        BY <2>7, AuthAssumption DEF FromChallenge
      <3>2. ~ChallengeSpent(o.challenge)
        BY <2>7 DEF FromChallenge, ChallengeSpent
      <3> QED
        BY <2>5, <2>6, <3>1, <3>2 DEF RowSpent
    <2>8. CASE FromCode(a, o)
      <3>1. ~ChallengeSpent(o.challenge)
        BY <2>8, AuthAssumption DEF FromCode, ChallengeSpent
      <3>2. o.row = kit[a] /\ o.position \notin usedCodes[a]
        BY <2>8 DEF FromCode
      <3> QED
        BY <2>5, <2>6, <3>1, <3>2 DEF RowSpent
    <2> QED
      BY <2>2, <2>7, <2>8 DEF OpenedFor
  <1>2. ASSUME NEW s \in AuthSessions, NEW z \in AuthSessions,
               authSession[s].state # "absent", authSession[z].state # "absent",
               Same(s, z)
        PROVE  s = z
    <2>1. authSession'[s].account = authSession[s].account
          /\ authSession'[s].origin = authSession[s].origin
      BY <1>0, <1>2, SessionsStay
    <2>2. authSession'[z].account = authSession[z].account
          /\ authSession'[z].origin = authSession[z].origin
      BY <1>0, <1>2, SessionsStay
    <2> QED
      BY <1>0, <1>2, <2>1, <2>2 DEF OneSessionPerProof
  <1>3. ASSUME NEW s \in AuthSessions, NEW z \in AuthSessions,
               authSession'[s].state # "absent", authSession'[z].state # "absent",
               Same(s, z)
        PROVE  s = z
    <2>1. Same(z, s)
      BY <1>3
    <2> HIDE DEF Same
    <2> QED
      BY <1>1, <1>2, <1>3, <2>1
  <1> QED
    BY <1>3 DEF OneSessionPerProof

-----------------------------------------------------------------------------
(* The theorems                                                            *)

(* The empty database satisfies the inductive invariant, ...               *)
LEMMA InitInv == Init => Inv
  <1> SUFFICES ASSUME Init PROVE Inv
    OBVIOUS
  <1>1. TypeOK
    BY AuthAssumption DEF Init, TypeOK, NoPasskey, NoChallenge, NoAuthSession, NoOrigin,
       NoToken, Idle, Origin
  <1>2. PasskeysOwned /\ KitsOfActive /\ ChallengesNamed
    BY DEF Init, PasskeysOwned, KitsOfActive, ChallengesNamed, NoPasskey, NoChallenge
  <1>3. \A r \in Requests : request[r] = Idle
    BY DEF Init
  <1>4. RequestsOK
    BY <1>3 DEF RequestsOK, RequestOK, Idle
  <1>5. \A s \in AuthSessions : authSession[s] = NoAuthSession
    BY DEF Init
  <1>6. SessionsOK /\ OneSessionPerProof
    BY <1>5 DEF SessionsOK, OneSessionPerProof, NoAuthSession
  <1>7. \A t \in Tokens : token[t] = NoToken
    BY DEF Init
  <1>8. TokensOK /\ FamiliesEnd /\ OneLiveToken
    <2>1. NoToken.state = "absent" /\ ~NoToken.revoked
      BY DEF NoToken
    <2>2. TokensOK /\ OneLiveToken
      BY <1>7, <2>1 DEF TokensOK, OneLiveToken
    <2>3. FamiliesEnd
      BY <1>7, <2>1 DEF FamiliesEnd
    <2> QED
      BY <2>2, <2>3
  <1>9. OriginsSpent
    BY <1>3, <1>5 DEF OriginsSpent, HeldByOne, Opens, Idle, NoAuthSession
  <1> QED
    BY <1>1, <1>2, <1>4, <1>6, <1>8, <1>9 DEF Inv

(* ... every step keeps it, part by part, ...                              *)
LEMMA StepInv ==
  ASSUME Inv, [Next]_vars
  PROVE  Inv'
  <1>1. StepByTable
    BY Steps
  <1>2. TypeOK'
    BY <1>1, TypeMeaning, AccountType, PasskeyType, ChallengeType, CodesType,
       RequestType, InstallType, SessionType, TokenType
  <1>3. PasskeysOwned' /\ KitsOfActive' /\ ChallengesNamed' /\ RequestsOK'
    BY <1>1, PasskeysOwnedStep, KitsOfActiveStep, ChallengesNamedStep, RequestsStep
  <1>4. SessionsOK' /\ TokensOK' /\ FamiliesEnd' /\ OriginsSpent'
    BY <1>1, SessionsStep, TokensStep, FamiliesEndStep, OriginsSpentStep
  <1>5. OneLiveToken' /\ OneSessionPerProof'
    BY <1>1, OneLiveTokenStep, OneSessionPerProofStep
  <1> QED
    BY <1>2, <1>3, <1>4, <1>5 DEF Inv

(* ... so it always holds.                                                 *)
LEMMA InvHolds == Spec => []Inv
  <1>1. Init => Inv
    BY InitInv
  <1>2. Inv /\ [Next]_vars => Inv'
    BY StepInv
  <1> QED
    BY <1>1, <1>2, PTL DEF Spec

(* Under the invariant ValidateAuthSession refuses an existing session for *)
(* one of two reasons only: it was revoked or it is over.                  *)
LEMMA ValidMeaning ==
  ASSUME SessionsOK, NEW s \in AuthSessions
  PROVE  Valid(s) <=> authSession[s].state = "live" /\ clock < authSession[s].expires
  BY DEF SessionsOK, SessionOK, Valid

(* Every table keeps its type, whatever handlers run at once.              *)
THEOREM AuthTypeCorrect == Spec => []TypeOK
  <1>1. Inv => TypeOK
    BY DEF Inv
  <1> QED
    BY <1>1, InvHolds, PTL

(* Of the tokens issued for a session at most one is unconsumed, for any   *)
(* number of rotations, replays and sign-ins in any order.                 *)
THEOREM OneTokenPerSession == Spec => []OneLiveToken
  <1>1. Inv => OneLiveToken
    BY DEF Inv
  <1> QED
    BY <1>1, InvHolds, PTL

(* RotateRefresh renews only sessions that ValidateAuthSession accepts,    *)
(* although it does not ask about the passkey.                             *)
THEOREM RefreshOnlyValid == Spec => []RotatableIsValid
  <1>1. Inv => RotatableIsValid
    <2> SUFFICES ASSUME Inv, NEW t \in Tokens, Rotatable(t),
                        clock # authSession[token[t].session].expires
                 PROVE  Valid(token[t].session)
      BY DEF RotatableIsValid
    <2>1. token[t].state # "absent"
      BY DEF Rotatable
    <2>2. PICK s \in AuthSessions : s = token[t].session
      BY <2>1 DEF Inv, TokensOK
    <2>3. authSession[s].state = "live" /\ clock =< authSession[s].expires
      BY <2>2 DEF Rotatable
    <2>4. clock \in Nat /\ authSession[s].expires \in Nat
      BY DEF Inv, TypeOK
    <2>5. clock < authSession[s].expires
      BY <2>2, <2>3, <2>4
    <2>6. Valid(s)
      BY <2>3, <2>5, ValidMeaning DEF Inv
    <2> QED
      BY <2>2, <2>6
  <1> QED
    BY <1>1, InvHolds, PTL

(* A refresh token presented twice ends its family and its session, and no *)
(* later step brings either back.                                          *)
THEOREM ReuseIsFinal == Spec => []ReuseEndsFamily
  <1>1. Inv => ReuseEndsFamily
    <2> SUFFICES ASSUME Inv, NEW t \in Tokens, NEW u \in Tokens,
                        token[t].revoked, token[u].family = token[t].family
                 PROVE  ~Rotatable(u) /\ ~Valid(token[u].session)
      BY DEF ReuseEndsFamily
    <2>1. token[u].revoked /\ authSession[token[u].session].state = "revoked"
      BY DEF Inv, FamiliesEnd
    <2> QED
      BY <2>1 DEF Rotatable, Valid
  <1> QED
    BY <1>1, InvHolds, PTL

(* A challenge, and a row of a recovery kit, opens at most one session,    *)
(* however many handlers verify answers to it at once.                     *)
THEOREM ProofsUsedOnce == Spec => []OneSessionPerProof
  <1>1. Inv => OneSessionPerProof
    BY DEF Inv
  <1> QED
    BY <1>1, InvHolds, PTL

(* A session that ValidateAuthSession refused once is refused in every     *)
(* later state: signing in again on the device does not bring it back.     *)
THEOREM EndedSessionsStay == Spec => NeverValidAgain
  <1>1. ASSUME Inv, Inv', [Next]_vars, NEW s \in AuthSessions,
               authSession[s].state # "absent", ~Valid(s)
        PROVE  ~Valid(s)'
    <2>1. ClockStep /\ AuthSessionStep
      BY <1>1, Steps DEF StepByTable
    <2>2. SessionsOK /\ TypeOK /\ SessionsOK' /\ TypeOK'
      BY <1>1 DEF Inv
    <2>3. ~(authSession[s].state = "live" /\ clock < authSession[s].expires)
      BY <1>1, <2>2, ValidMeaning
    <2>4. /\ authSession'[s].state \in {authSession[s].state, "revoked"}
          /\ authSession'[s].expires = authSession[s].expires
      BY <1>1, <2>1, SessionsStay
    <2>5. clock \in Nat /\ clock' \in Nat /\ authSession[s].expires \in Nat
      BY <2>2 DEF TypeOK
    <2>6. clock =< clock'
      BY <2>1, <2>5 DEF ClockStep, Tick
    <2> QED
      BY <2>3, <2>4, <2>5, <2>6 DEF Valid
  <1>2. Inv /\ Inv' /\ [Next]_vars
        => [\A s \in AuthSessions :
              authSession[s].state # "absent" /\ ~Valid(s) => ~Valid(s)']_vars
    BY <1>1
  <1> QED
    BY <1>2, InvHolds, PTL DEF Spec, NeverValidAgain
=============================================================================
