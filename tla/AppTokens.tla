------------------------------ MODULE AppTokens ------------------------------
(***************************************************************************)
(* One phone in front of AuthStore: the TokenCoordinator that keeps its    *)
(* refresh token, the AuthRepository and AuthController that sign in and   *)
(* out, and the network between them and /v1/auth/refresh.                 *)
(*                                                                         *)
(* A coordinator belongs to one configuration of one process: saving the   *)
(* advanced settings replaces it while requests of the old one still run,  *)
(* and a restart of the app starts with a new one.  Each has its own       *)
(* _refreshing, so single flight holds per coordinator; all of them share  *)
(* the token in secure storage.                                            *)
(*                                                                         *)
(* Abstracted: the access token.  Any request may find it missing, about   *)
(* to expire, or refused with 401, and then asks for a refresh; logout     *)
(* may overlap any of that.  What logout does at the server is AuthStore's *)
(* RevokeSession, which any authenticated request may take.                *)
(***************************************************************************)
EXTENDS AuthStore

CONSTANTS
  Phone,            \* this phone's installation id
  MaxCoordinators   \* bound on restarts and saved settings

ASSUME PhoneAssumption == Phone \in Installs /\ MaxCoordinators \in Nat \ {0}

VARIABLES
  stored,    \* along.refresh_token in secure storage
  coord,     \* the current coordinator
  born,      \* the first coordinator of this process
  restore,   \* AuthController.build: what it is doing
  status,    \* the AuthState on screen
  flight,    \* flight[c]: the refresh coordinator c has under way
  wire,      \* refresh requests that have not reached the server
  answers,   \* first tokens of sessions opened for the phone, not received
  excused    \* history: families with a refresh cut off or doubled

phoneVars == <<stored, coord, born, restore, status, flight, wire, answers, excused>>
appVars == <<vars, phoneVars>>

Coordinators == 1..MaxCoordinators
NoFlight == [stage |-> "none", token |-> None]

(* restore is the token read from storage, or a stage without one.         *)
AppTypeOK ==
  /\ stored \in Tokens \cup {None}
  /\ coord \in Coordinators /\ born \in 1..coord
  /\ restore.stage \in {"begin", "read", "joined", "done"}
  /\ restore.token \in Tokens \cup {None}
  /\ status \in {"starting", "in", "out"}
  /\ \A c \in Coordinators :
       /\ flight[c].stage \in {"none", "sent", "answered", "refused"}
       /\ flight[c].token \in Tokens \cup {None}
  /\ wire \subseteq Coordinators \X Tokens
  /\ answers \subseteq Tokens /\ excused \subseteq Tokens \cup {None}

AppInit ==
  /\ Init
  /\ stored = None /\ status = "starting"
  /\ coord = 1 /\ born = 1
  /\ restore = [stage |-> "begin", token |-> None]
  /\ flight = [c \in Coordinators |-> NoFlight]
  /\ wire = {} /\ answers = {} /\ excused = {}

(* The coordinators of this process: the current one, and older ones whose *)
(* requests still run.                                                     *)
Running == born..coord

(***************************************************************************)
(* TokenCoordinator.                                                       *)
(***************************************************************************)

Post_NoJoin(c, t) ==    \* a caller does not wait for the refresh under way
  /\ flight' = [flight EXCEPT ![c] = [stage |-> "sent", token |-> t]]
  /\ wire' = wire \cup {<<c, t>>}
  /\ excused' = IF coord = born THEN excused ELSE excused \cup {token[t].family}

(* _performRefresh up to its POST, unless a refresh is under way: the      *)
(* history records every one made after a saved setting in this process,   *)
(* which a refresh of an older coordinator may double.                     *)
Post(c, t) ==
  /\ flight[c] = NoFlight
  /\ flight' = [flight EXCEPT ![c] = [stage |-> "sent", token |-> t]]
  /\ wire' = wire \cup {<<c, t>>}
  /\ excused' = IF coord = born THEN excused ELSE excused \cup {token[t].family}

RefreshSession_NoToken(c) ==    \* the check for a missing token is missing
  /\ status = "in"
  /\ Post(c, stored)
  /\ UNCHANGED <<vars, stored, coord, born, restore, status, answers>>

(* A request of coordinator c needs a new access token.                    *)
RefreshSession(c) ==
  /\ status = "in"
  /\ stored # None
  /\ Post(c, stored)
  /\ UNCHANGED <<vars, stored, coord, born, restore, status, answers>>

(* restore() reads the token, and signs out when there is none ...         *)
RestoreRead ==
  /\ restore.stage = "begin"
  /\ restore' = [stage |-> IF stored = None THEN "done" ELSE "read",
                 token |-> stored]
  /\ status' = IF stored = None THEN "out" ELSE status
  /\ UNCHANGED <<vars, stored, coord, born, flight, wire, answers, excused>>

(* ... and refreshes with what it read, or joins the refresh under way.    *)
RestoreRefresh ==
  /\ restore.stage = "read"
  /\ restore' = [stage |-> "joined", token |-> None]
  /\ \/ Post(coord, restore.token)
     \/ /\ flight[coord] # NoFlight
        /\ UNCHANGED <<flight, wire, excused>>
  /\ UNCHANGED <<vars, stored, coord, born, status, answers>>

(* The end of coordinator c's refresh, and of the restore that waits for   *)
(* it: status s on screen.                                                 *)
FlightEnds(c, s) ==
  /\ flight' = [flight EXCEPT ![c] = NoFlight]
  /\ IF c = coord /\ restore.stage = "joined"
     THEN /\ restore' = [stage |-> "done", token |-> None]
          /\ status' = s
     ELSE UNCHANGED <<restore, status>>

(* captureAuthPayload: the answer is written to secure storage.            *)
CaptureAuthPayload(c) ==
  /\ flight[c].stage = "answered"
  /\ stored' = flight[c].token
  /\ FlightEnds(c, "in")
  /\ UNCHANGED <<vars, coord, born, wire, answers, excused>>

(* The write to secure storage throws, or the answer came without a body:  *)
(* the old token stays there.                                              *)
CaptureFails(c) ==
  /\ flight[c].stage = "answered"
  /\ excused' = excused \cup {token[flight[c].token].family}
  /\ FlightEnds(c, "starting") \/ FlightEnds(c, "out")
  /\ UNCHANGED <<vars, stored, coord, born, wire, answers>>

RefreshFails_Kept(c) ==    \* a failed refresh keeps the token to try again
  /\ flight[c].stage \in {"sent", "refused"}
  /\ FlightEnds(c, "out")
  /\ UNCHANGED <<vars, stored, coord, born, wire, answers, excused>>

(* Any DioException, a timeout included, clears the stored token.          *)
RefreshFails(c) ==
  /\ flight[c].stage \in {"sent", "refused"}
  /\ stored' = None
  /\ FlightEnds(c, "out")
  /\ UNCHANGED <<vars, coord, born, wire, answers, excused>>

(* clear() throws: the token of a refresh that failed stays in storage.    *)
ClearFails(c) ==
  /\ flight[c].stage \in {"sent", "refused"}
  /\ excused' = excused \cup {token[flight[c].token].family}
  /\ FlightEnds(c, "starting")
  /\ UNCHANGED <<vars, stored, coord, born, wire, answers>>

(***************************************************************************)
(* The network and the server.                                             *)
(***************************************************************************)
Answer(c, t, reply) ==
  /\ wire' = wire \ {<<c, t>>}
  /\ flight' = IF flight[c] = [stage |-> "sent", token |-> t]
               THEN [flight EXCEPT ![c] = reply] ELSE flight
  /\ UNCHANGED <<stored, coord, born, restore, status, answers, excused>>

(* A refresh request reaches the server, perhaps after its client gave up, *)
(* or stays on the wire for ever.                                          *)
(* A token that may not rotate, or a serialization failure, is refused.    *)
ServerRefreshes(c, t) ==
  /\ <<c, t>> \in wire
  /\ \/ \E u \in Tokens :
          /\ RotateRefresh(t, u)
          /\ Answer(c, t, [stage |-> "answered", token |-> u])
     \/ /\ RefreshReuse(t)
        /\ Answer(c, t, [stage |-> "refused", token |-> t])
     \/ /\ token[t].state # "consumed"
        /\ UNCHANGED vars
        /\ Answer(c, t, [stage |-> "refused", token |-> t])

(***************************************************************************)
(* Signing in and out, saved settings, restarts.                           *)
(***************************************************************************)
PhoneSignsIn(r, s, t) ==
  /\ OpensSession(r, Phone, s, t)
  /\ answers' = answers \cup {t}
  /\ UNCHANGED <<stored, coord, born, restore, status, flight, wire, excused>>

(* register, signIn and recover end with captureAuthPayload.               *)
SignedIn(t) ==
  /\ status = "out"
  /\ t \in answers
  /\ stored' = t /\ status' = "in" /\ answers' = {}
  /\ UNCHANGED <<vars, coord, born, restore, flight, wire, excused>>

Logout ==
  /\ status = "in"
  /\ stored' = None /\ status' = "out"
  /\ UNCHANGED <<vars, coord, born, restore, flight, wire, answers, excused>>

(* Saving the advanced settings: a new coordinator, and build runs again.  *)
Reconfigure ==
  /\ status # "starting"
  /\ coord < MaxCoordinators
  /\ coord' = coord + 1
  /\ restore' = [stage |-> "begin", token |-> None]
  /\ UNCHANGED <<vars, stored, born, status, flight, wire, answers, excused>>

(* The process dies.  A refresh it had under way is cut off.               *)
Restart ==
  /\ coord < MaxCoordinators
  /\ coord' = coord + 1 /\ born' = coord + 1
  /\ restore' = [stage |-> "begin", token |-> None]
  /\ status' = "starting" /\ answers' = {}
  /\ flight' = [c \in Coordinators |-> NoFlight]
  /\ excused' = excused \cup
       {token[flight[c].token].family : c \in
          {d \in Running : flight[d].stage \in {"sent", "answered"}}}
  /\ UNCHANGED <<vars, stored, wire>>

(* The rest of the server that reaches this phone's session.  Passkeys and *)
(* recovery kits reach it only by opening or revoking sessions, as         *)
(* recovery and RevokeSession do.                                          *)
ServerStep ==
  /\ \/ \E h \in Challenges, a \in Accounts : BeginAccountRegistration(a, h)
     \/ \E r \in Requests :
          \/ \E h \in Challenges : FinishAccountRegistration(r, h)
          \/ \E a \in Accounts, p \in Positions : Recover(r, a, p)
          \/ \E s \in AuthSessions : Authenticate(r, s) \/ RevokeSession(r, s)
          \/ RevokeInstallation(r, Phone)
          \/ HandlerFails(r)
     \/ Tick
  /\ UNCHANGED phoneVars

AppNext ==
  \/ ServerStep
  \/ \E r \in Requests, s \in AuthSessions, t \in Tokens : PhoneSignsIn(r, s, t)
  \/ \E c \in Running :
       \/ RefreshSession(c)
       \/ CaptureAuthPayload(c)
       \/ CaptureFails(c)
       \/ RefreshFails(c)
       \/ ClearFails(c)
  \/ \E c \in Coordinators, t \in Tokens :
       ServerRefreshes(c, t)
  \/ \E t \in Tokens : SignedIn(t)
  \/ RestoreRead \/ RestoreRefresh \/ Logout \/ Reconfigure \/ Restart

AppSpec == AppInit /\ [][AppNext]_appVars

(***************************************************************************)
(* Properties.                                                             *)
(***************************************************************************)

(* The server ends a session for the reuse of a refresh token only when    *)
(* the phone had a refresh of that family cut off by a crash or a failing  *)
(* write or clear, or made one after a saved setting of the same process,  *)
(* which a second coordinator may have doubled.  A lost request, a lost or *)
(* late answer, a logout or a sign-in during a refresh are no such cause:  *)
(* the token is cleared before it could be sent again.                     *)
HonestPhoneNeverReuses ==
  \A t \in Tokens :
    token[t].revoked => token[t].family \in excused

(* When no refresh is under way, the token in secure storage is the one    *)
(* of its family that was not used yet, unless a refresh was cut off or    *)
(* made after a saved setting of the same process.                         *)
StoredTokenUnused ==
  /\ stored # None
  /\ \A c \in Running : flight[c] = NoFlight
  /\ token[stored].family \notin excused
  => token[stored].state = "fresh"
=============================================================================
