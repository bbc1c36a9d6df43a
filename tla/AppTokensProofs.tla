--------------------------- MODULE AppTokensProofs ----------------------------
(***************************************************************************)
(* Proofs about AppTokens, for any number of coordinators and everything   *)
(* that AuthStore leaves open.                                             *)
(*                                                                         *)
(* The server half of every step is a step of AuthStore, so the theorems   *)
(* about AuthStore hold here too.  The phone half is about families of     *)
(* tokens that no refresh was cut off or doubled in: the unused token of   *)
(* such a family is in one place only, stored, on its way to the server    *)
(* or on its way back.                                                     *)
(***************************************************************************)
EXTENDS AppTokens, AuthStoreProofs

-----------------------------------------------------------------------------
(* The inductive invariant                                                 *)

FlightRow ==
  [stage : {"none", "sent", "answered", "refused"}, token : Tokens \cup {None}]
RestoreRow ==
  [stage : {"begin", "read", "joined", "done"}, token : Tokens \cup {None}]

Shapes ==
  /\ stored \in Tokens \cup {None}
  /\ coord \in Coordinators /\ born \in 1..coord
  /\ restore \in RestoreRow
  /\ status \in {"starting", "in", "out"}
  /\ flight \in [Coordinators -> FlightRow]
  /\ wire \subseteq Coordinators \X Tokens
  /\ answers \subseteq Tokens /\ excused \subseteq Tokens \cup {None}

(* The phone has only tokens that were issued, and coordinators of other   *)
(* processes have nothing under way.                                       *)
Issued(t) == t \in Tokens /\ token[t].state # "absent"

TokensIssued ==
  /\ stored # None => Issued(stored)
  /\ restore.token # None => Issued(restore.token)
  /\ restore.stage = "read" => restore.token # None
  /\ \A p \in wire : Issued(p[2])

FlightsOK ==
  \A c \in Coordinators :
    /\ flight[c].stage = "none" => flight[c].token = None
    /\ flight[c].stage # "none" => Issued(flight[c].token) /\ c \in Running

(* A refresh in the family of t was cut off or doubled.                    *)
Marked(t) == token[t].family \in excused

OnWire(t) == \E c \in Coordinators : <<c, t>> \in wire
Sent(c, t) == flight[c].stage = "sent" /\ flight[c].token = t
Carries(c, u) == flight[c].stage = "answered" /\ flight[c].token = u

(* In the other families: a token on its way to the server is unused and   *)
(* goes there once, ...                                                    *)
WireOK ==
  \A t \in Tokens : OnWire(t) /\ ~Marked(t) =>
    /\ token[t].state = "fresh"
    /\ \A c, d \in Coordinators : <<c, t>> \in wire /\ <<d, t>> \in wire => c = d

(* ... one on its way back is unused and nowhere else, ...                 *)
CarriedOK ==
  \A c \in Coordinators, u \in Tokens : Carries(c, u) /\ ~Marked(u) =>
    /\ token[u].state = "fresh" /\ ~OnWire(u) /\ stored # u
    /\ \A d \in Coordinators : flight[d].token = u => d = c

(* ... and the stored one is unused, sent only by a refresh whose end will *)
(* replace or clear it, or its successor is on its way back.               *)
StoredOK ==
  \A t \in Tokens : stored = t /\ ~Marked(t) =>
    \/ /\ token[t].state = "fresh"
       /\ \A c \in Coordinators : <<c, t>> \in wire => Sent(c, t)
    \/ \E c \in Coordinators, u \in Tokens :
         Carries(c, u) /\ token[u].family = token[t].family

(* The first token of a session the phone did not hear of yet.             *)
AnswersOK ==
  \A t \in answers :
    /\ token[t].state = "fresh" /\ ~OnWire(t) /\ stored # t /\ restore.token # t
    /\ \A c \in Coordinators : flight[c].token # t

(* A process that starts does nothing before it used the token it read.    *)
RestoreOK ==
  coord = born /\ restore.stage \in {"begin", "read"} =>
    /\ status = "starting" /\ flight[coord].stage = "none"
    /\ restore.stage = "read" => restore.token = stored

PhoneInv ==
  /\ Shapes /\ TokensIssued /\ FlightsOK
  /\ WireOK /\ CarriedOK /\ StoredOK /\ AnswersOK /\ RestoreOK
  /\ HonestPhoneNeverReuses

AppInv == Inv /\ PhoneInv

-----------------------------------------------------------------------------
(* The server half                                                         *)

(* Every step is a step of AuthStore, or one AuthStore does not see.       *)
LEMMA ServerHalf ==
  [AppNext]_appVars => [Next]_vars
  <1> SUFFICES ASSUME [AppNext]_appVars PROVE Next \/ UNCHANGED vars
    OBVIOUS
  <1>1. CASE ServerStep
    <2>1. ASSUME NEW r \in Requests,
                 \/ \E h \in Challenges : FinishAccountRegistration(r, h)
                 \/ \E a \in Accounts, p \in Positions : Recover(r, a, p)
                 \/ \E s \in AuthSessions : Authenticate(r, s) \/ RevokeSession(r, s)
                 \/ RevokeInstallation(r, Phone)
                 \/ HandlerFails(r)
          PROVE  Next
      <3>1. Ceremony(r)
        BY <2>1, PhoneAssumption DEF Ceremony
      <3> QED
        BY <3>1 DEF Next
    <2> QED
      BY <1>1, <2>1 DEF ServerStep, Next
  <1>2. CASE \E r \in Requests, s \in AuthSessions, t \in Tokens : PhoneSignsIn(r, s, t)
    BY <1>2, PhoneAssumption DEF PhoneSignsIn, Next
  <1>3. ASSUME NEW c \in Coordinators, NEW t \in Tokens, ServerRefreshes(c, t)
        PROVE  Next \/ UNCHANGED vars
    BY <1>3 DEF ServerRefreshes, Next, Refresh
  <1>4. CASE \E c \in Running :
               RefreshSession(c) \/ CaptureAuthPayload(c) \/ CaptureFails(c)
                 \/ RefreshFails(c) \/ ClearFails(c)
    BY <1>4
    DEF RefreshSession, CaptureAuthPayload, CaptureFails, RefreshFails, ClearFails
  <1>5. CASE RestoreRead \/ RestoreRefresh \/ Logout \/ Reconfigure \/ Restart
               \/ \E t \in Tokens : SignedIn(t)
    BY <1>5 DEF RestoreRead, RestoreRefresh, Logout, Reconfigure, Restart, SignedIn
  <1>6. CASE UNCHANGED appVars
    BY <1>6 DEF appVars
  <1> QED
    BY <1>1, <1>2, <1>3, <1>4, <1>5, <1>6 DEF AppNext

(* So this system implements AuthStore.                                    *)
THEOREM PhoneUsesAuthStore == AppSpec => Spec
  <1>1. AppInit => Init
    BY DEF AppInit
  <1> QED
    BY <1>1, ServerHalf, PTL DEF AppSpec, Spec

-----------------------------------------------------------------------------
(* What the steps leave alone                                              *)

(* Families that exist stay what they are, and so do the marks in them.    *)
FamiliesStay ==
  \A x \in Tokens : token[x].state # "absent" =>
    token'[x].state # "absent" /\ token'[x].family = token[x].family

(* Every step does so.                                                     *)
LEMMA FamiliesKept ==
  ASSUME Inv, [AppNext]_appVars
  PROVE  FamiliesStay
  <1>1. StepByTable
    BY ServerHalf, Steps
  <1> QED
    BY <1>1, TokensStay DEF FamiliesStay

(* A marked family stays marked, ...                                       *)
LEMMA MarksStay ==
  ASSUME FamiliesStay, excused \subseteq excused',
         NEW x \in Tokens, Issued(x), Marked(x)
  PROVE  Marked(x)'
  BY DEF Issued, FamiliesStay, Marked

(* ... and no other becomes so when nothing is excused.                    *)
LEMMA NoNewMarks ==
  ASSUME FamiliesStay, excused' = excused,
         NEW x \in Tokens, Issued(x), Marked(x)'
  PROVE  Marked(x)
  BY DEF Issued, FamiliesStay, Marked

(* Issued tokens stay issued.                                              *)
LEMMA IssuedStays ==
  ASSUME FamiliesStay, NEW x, Issued(x)
  PROVE  Issued(x)'
  BY DEF FamiliesStay, Issued

(* The coordinators of a process are coordinators; before settings are     *)
(* saved there is one.                                                     *)
LEMMA RunningFacts ==
  ASSUME Shapes
  PROVE  /\ Running \subseteq Coordinators /\ coord \in Running
         /\ coord = born => Running = {coord}
  <1>1. coord \in 1..MaxCoordinators /\ born \in 1..coord /\ MaxCoordinators \in Nat
    BY PhoneAssumption DEF Shapes, Coordinators
  <1> QED
    BY <1>1 DEF Running, Coordinators

(* None is no token.                                                       *)
LEMMA NoneNoToken == None \notin Tokens
  BY AuthAssumption

(* What a coordinator has under way belongs to an issued token.            *)
LEMMA FlightFacts ==
  ASSUME Shapes, FlightsOK, NEW c \in Coordinators
  PROVE  /\ flight[c].token # None => Issued(flight[c].token) /\ c \in Running
         /\ flight[c].stage # "none" => flight[c].token # None
         /\ flight[c] = NoFlight <=> flight[c].stage = "none"
  <1>1. flight[c] \in FlightRow
    BY DEF Shapes
  <1>2. flight[c].stage # "none" => flight[c].token # None
    BY NoneNoToken DEF FlightsOK, Issued
  <1>3. flight[c].stage = "none" => flight[c].token = None
    BY DEF FlightsOK
  <1>4. flight[c] = NoFlight <=> flight[c].stage = "none"
    BY <1>1, <1>3 DEF FlightRow, NoFlight
  <1>5. flight[c].stage # "none" => Issued(flight[c].token) /\ c \in Running
    BY DEF FlightsOK
  <1> QED
    BY <1>2, <1>3, <1>4, <1>5

-----------------------------------------------------------------------------
(* A refresh begins                                                        *)

(* With one coordinator and nothing under way, an unmarked stored token is *)
(* unused and nowhere on the wire.                                         *)
LEMMA StoredAlone ==
  ASSUME Shapes, FlightsOK, StoredOK, coord = born, flight[coord] = NoFlight,
         NEW t \in Tokens, stored = t, ~Marked(t)
  PROVE  token[t].state = "fresh" /\ ~OnWire(t)
  <1>1. ASSUME NEW c \in Coordinators PROVE flight[c].stage = "none"
    BY <1>1, FlightFacts, RunningFacts
  <1>2. ASSUME NEW c \in Coordinators, NEW u PROVE ~Carries(c, u) /\ ~Sent(c, u)
    BY <1>1 DEF Carries, Sent
  <1> QED
    BY <1>2 DEF StoredOK, OnWire

Posts(c, t) ==
  /\ Post(c, t)
  /\ UNCHANGED <<token, stored, coord, born, answers>>
  /\ restore'.token \in {restore.token, None}

(* So the token a coordinator sends is in flight once, or marked.          *)
LEMMA PostStep ==
  ASSUME PhoneInv, NEW c \in Running, NEW t \in Tokens, Issued(t), t \notin answers,
         Posts(c, t), coord = born => t = stored
  PROVE  FlightsOK' /\ WireOK' /\ CarriedOK' /\ StoredOK' /\ AnswersOK'
  <1>0. Shapes /\ TokensIssued /\ FlightsOK /\ WireOK /\ CarriedOK /\ StoredOK /\ AnswersOK
    BY DEF PhoneInv
  <1>1. /\ c \in Coordinators /\ flight \in [Coordinators -> FlightRow]
        /\ flight[c] = NoFlight /\ flight[c].stage = "none"
    BY <1>0, RunningFacts DEF Posts, Post, Shapes, NoFlight
  <1>2. /\ flight'[c].stage = "sent" /\ flight'[c].token = t
        /\ \A d \in Coordinators : d # c => flight'[d] = flight[d]
    BY <1>1 DEF Posts, Post
  <1>3. wire' = wire \cup {<<c, t>>} /\ excused \subseteq excused'
    BY DEF Posts, Post
  <1>4. UNCHANGED <<token, stored, coord, born, answers>>
    BY DEF Posts
  <1>5. FamiliesStay
    BY <1>4 DEF FamiliesStay
  <1>6. ASSUME coord # born PROVE Marked(t)'
    BY <1>4, <1>6 DEF Posts, Post, Marked
  <1>7. ASSUME ~Marked(t)' PROVE token[t].state = "fresh" /\ ~OnWire(t) /\ t = stored
    <2>1. ~Marked(t)
      BY <1>0, <1>3, <1>5, <1>7, MarksStay
    <2>2. coord = born /\ t = stored
      BY <1>6, <1>7
    <2>3. c = coord
      BY <1>0, <2>2, RunningFacts
    <2> QED
      BY <1>0, <1>1, <2>1, <2>2, <2>3, StoredAlone
  <1>8. ASSUME NEW d \in Coordinators, NEW u PROVE Carries(d, u)' <=> Carries(d, u)
    BY <1>1, <1>2, <1>8 DEF Carries
  <1>9. FlightsOK'
    <2>1. Running' = Running
      BY <1>4 DEF Running
    <2>2. ASSUME NEW d \in Coordinators
          PROVE  /\ flight'[d].stage = "none" => flight'[d].token = None
                 /\ flight'[d].stage # "none" => Issued(flight[d].token)' /\ d \in Running
      <3>1. CASE d = c
        BY <1>2, <1>4, <3>1 DEF Issued
      <3>2. CASE d # c
        <4>1. flight'[d] = flight[d]
          BY <1>2, <3>2
        <4> QED
          BY <1>0, <1>4, <4>1 DEF FlightsOK, Issued
      <3> QED
        BY <3>1, <3>2
    <2> QED
      BY <2>1, <2>2 DEF FlightsOK
  <1>10. WireOK'
    <2> SUFFICES ASSUME NEW x \in Tokens, OnWire(x)', ~Marked(x)'
                 PROVE  /\ token[x].state = "fresh"
                        /\ \A d, e \in Coordinators :
                             <<d, x>> \in wire' /\ <<e, x>> \in wire' => d = e
      BY <1>4 DEF WireOK
    <2>1. CASE x = t
      BY <1>3, <1>7, <2>1 DEF OnWire
    <2>2. CASE x # t
      <3>1. OnWire(x) /\ \A d : <<d, x>> \in wire' <=> <<d, x>> \in wire
        BY <1>3, <2>2 DEF OnWire
      <3>2. Issued(x)
        BY <1>0, <3>1 DEF OnWire, TokensIssued
      <3>3. ~Marked(x)
        BY <1>0, <1>3, <1>5, <3>2, MarksStay
      <3> QED
        BY <1>0, <3>1, <3>3 DEF WireOK
    <2> QED
      BY <2>1, <2>2
  <1>11. CarriedOK'
    <2> SUFFICES ASSUME NEW d \in Coordinators, NEW u \in Tokens, Carries(d, u)', ~Marked(u)'
                 PROVE  /\ token[u].state = "fresh" /\ ~OnWire(u)' /\ stored # u
                        /\ \A e \in Coordinators : flight'[e].token = u => e = d
      BY <1>4 DEF CarriedOK
    <2>1. Carries(d, u) /\ Issued(u) /\ d # c
      BY <1>0, <1>1, <1>8 DEF Carries, FlightsOK
    <2>2. ~Marked(u)
      BY <1>0, <1>3, <1>5, <2>1, MarksStay
    <2>3. /\ token[u].state = "fresh" /\ ~OnWire(u) /\ stored # u
          /\ \A e \in Coordinators : flight[e].token = u => e = d
      BY <1>0, <2>1, <2>2 DEF CarriedOK
    <2>4. u # t
      BY <1>7, <2>3
    <2>5. ~OnWire(u)'
      BY <1>3, <2>3, <2>4 DEF OnWire
    <2> QED
      BY <1>2, <2>3, <2>4, <2>5
  <1>12. StoredOK'
    <2> SUFFICES ASSUME NEW x \in Tokens, stored = x, ~Marked(x)'
                 PROVE  \/ /\ token[x].state = "fresh"
                           /\ \A d \in Coordinators : <<d, x>> \in wire' => Sent(d, x)'
                        \/ \E d \in Coordinators, u \in Tokens :
                             Carries(d, u)' /\ token[u].family = token[x].family
      BY <1>4 DEF StoredOK
    <2>2. Issued(x)
      BY <1>0, NoneNoToken DEF TokensIssued
    <2>4. ~Marked(x)
      BY <1>0, <1>3, <1>5, <2>2, MarksStay
    <2>5. CASE x = t
      <3>1. token[x].state = "fresh" /\ ~OnWire(x)
        BY <1>7, <2>5
      <3>2. ASSUME NEW d \in Coordinators, <<d, x>> \in wire' PROVE Sent(d, x)'
        <4>1. d = c
          BY <1>3, <3>1, <3>2 DEF OnWire
        <4> QED
          BY <1>2, <2>5, <4>1 DEF Sent
      <3> QED
        BY <3>1, <3>2
    <2>6. CASE x # t
      <3>1. \/ /\ token[x].state = "fresh"
               /\ \A d \in Coordinators : <<d, x>> \in wire => Sent(d, x)
            \/ \E d \in Coordinators, u \in Tokens :
                 Carries(d, u) /\ token[u].family = token[x].family
        BY <1>0, <2>4 DEF StoredOK
      <3>2. ASSUME NEW d \in Coordinators, Sent(d, x) PROVE Sent(d, x)'
        BY <1>1, <1>2, <3>2 DEF Sent
      <3>3. \A d : <<d, x>> \in wire' => <<d, x>> \in wire
        BY <1>3, <2>6
      <3> QED
        BY <1>8, <3>1, <3>2, <3>3
    <2> QED
      BY <2>5, <2>6
  <1>13. AnswersOK'
    <2> SUFFICES ASSUME NEW x \in answers
                 PROVE  /\ token[x].state = "fresh" /\ ~OnWire(x)' /\ stored # x
                        /\ restore'.token # x
                        /\ \A d \in Coordinators : flight'[d].token # x
      BY <1>4 DEF AnswersOK
    <2>1. x # t /\ x # None
      BY <1>0, NoneNoToken DEF Shapes
    <2>2. /\ token[x].state = "fresh" /\ ~OnWire(x) /\ stored # x /\ restore.token # x
          /\ \A d \in Coordinators : flight[d].token # x
      BY <1>0 DEF AnswersOK
    <2>3. ~OnWire(x)'
      BY <1>3, <2>1, <2>2 DEF OnWire
    <2>4. restore'.token # x
      BY <2>1, <2>2 DEF Posts
    <2> QED
      BY <1>2, <2>1, <2>2, <2>3, <2>4
  <1> QED
    BY <1>9, <1>10, <1>11, <1>12, <1>13

(* A step of the phone revokes nothing.                                    *)
LEMMA HonestStays ==
  ASSUME HonestPhoneNeverReuses, UNCHANGED token, excused \subseteq excused'
  PROVE  HonestPhoneNeverReuses'
  BY DEF HonestPhoneNeverReuses

(* A request that needs a new access token sends the stored refresh token. *)
LEMMA RefreshSessionStep ==
  ASSUME PhoneInv, TypeOK, NEW c \in Running, RefreshSession(c)
  PROVE  PhoneInv'
  <1>0. Shapes /\ TokensIssued /\ AnswersOK /\ RestoreOK /\ HonestPhoneNeverReuses
    BY DEF PhoneInv
  <1>1. /\ status = "in" /\ stored # None /\ Post(c, stored)
        /\ UNCHANGED <<token, stored, coord, born, restore, status, answers>>
    BY DEF RefreshSession, vars, sessionVars
  <1>2. PICK t \in Tokens : t = stored
    BY <1>0, <1>1 DEF Shapes
  <1>3. Issued(t) /\ t \notin answers
    BY <1>0, <1>1, <1>2 DEF TokensIssued, AnswersOK
  <1>4. Post(c, t)
    BY <1>1, <1>2
  <1>5. Posts(c, t)
    BY <1>1, <1>4 DEF Posts
  <1>6. FlightsOK' /\ WireOK' /\ CarriedOK' /\ StoredOK' /\ AnswersOK'
    BY <1>2, <1>3, <1>5, PostStep
  <1>7. c \in Coordinators
    BY <1>0, RunningFacts
  <1>8. excused' \in {excused, excused \cup {token[t].family}} /\ wire' = wire \cup {<<c, t>>}
    BY <1>4 DEF Post
  <1>9. Shapes'
    <2>1. [stage |-> "sent", token |-> t] \in FlightRow
      BY DEF FlightRow
    <2>2. flight' \in [Coordinators -> FlightRow]
      BY <1>0, <1>4, <2>1 DEF Post, Shapes
    <2> QED
      BY <1>0, <1>1, <1>7, <1>8, <2>2 DEF Shapes, TypeOK
  <1>10. TokensIssued'
    BY <1>0, <1>1, <1>3, <1>8 DEF TokensIssued, Issued
  <1>11. RestoreOK'
    BY <1>0, <1>1 DEF RestoreOK
  <1>12. HonestPhoneNeverReuses'
    BY <1>0, <1>1, <1>8, HonestStays
  <1> QED
    BY <1>6, <1>9, <1>10, <1>11, <1>12 DEF PhoneInv

(* Restoring sends the token it read: with one coordinator, the stored one. *)
LEMMA RestoreRefreshStep ==
  ASSUME PhoneInv, TypeOK, RestoreRefresh
  PROVE  PhoneInv'
  <1>0. /\ Shapes /\ TokensIssued /\ FlightsOK /\ WireOK /\ CarriedOK /\ StoredOK
        /\ AnswersOK /\ RestoreOK /\ HonestPhoneNeverReuses
    BY DEF PhoneInv
  <1>1. /\ restore.stage = "read"
        /\ restore'.stage = "joined" /\ restore'.token = None
        /\ restore' \in RestoreRow
        /\ UNCHANGED <<token, stored, coord, born, status, answers>>
    BY DEF RestoreRefresh, vars, sessionVars, RestoreRow
  <1>2. restore.token \in Tokens
    BY <1>0, <1>1 DEF Shapes, RestoreRow, TokensIssued
  <1>3. PICK t \in Tokens : t = restore.token
    BY <1>2
  <1>4. Issued(t) /\ t \notin answers
    BY <1>0, <1>1, <1>3, NoneNoToken DEF TokensIssued, AnswersOK
  <1>5. coord = born => t = stored
    BY <1>0, <1>1, <1>3 DEF RestoreOK
  <1>6. RestoreOK'
    BY <1>1 DEF RestoreOK
  <1>7. CASE Post(coord, restore.token)
    <2>1. PICK c \in Running : c = coord
      BY <1>0, RunningFacts
    <2>2. Post(c, t)
      BY <1>3, <1>7, <2>1
    <2>3. Posts(c, t)
      BY <1>1, <2>2 DEF Posts
    <2>4. FlightsOK' /\ WireOK' /\ CarriedOK' /\ StoredOK' /\ AnswersOK'
      BY <1>4, <1>5, <2>3, PostStep
    <2>5. c \in Coordinators
      BY <1>0, RunningFacts
    <2>6. excused' \in {excused, excused \cup {token[t].family}} /\ wire' = wire \cup {<<c, t>>}
      BY <2>2 DEF Post
    <2>7. Shapes'
      <3>1. [stage |-> "sent", token |-> t] \in FlightRow
        BY DEF FlightRow
      <3>2. flight' \in [Coordinators -> FlightRow]
        BY <1>0, <2>2, <3>1 DEF Post, Shapes
      <3> QED
        BY <1>0, <1>1, <2>5, <2>6, <3>2 DEF Shapes, TypeOK
    <2>8. TokensIssued'
      BY <1>0, <1>1, <1>4, <2>6 DEF TokensIssued, Issued
    <2>9. HonestPhoneNeverReuses'
      BY <1>0, <1>1, <2>6, HonestStays
    <2> QED
      BY <1>6, <2>4, <2>7, <2>8, <2>9 DEF PhoneInv
  <1>8. CASE UNCHANGED <<flight, wire, excused>>
    <2>1. Shapes' /\ TokensIssued'
      BY <1>0, <1>1, <1>8 DEF Shapes, TokensIssued, Issued
    <2>2. FlightsOK' /\ WireOK' /\ CarriedOK' /\ StoredOK'
      BY <1>0, <1>1, <1>8
      DEF FlightsOK, Running, Issued, WireOK, CarriedOK, StoredOK, OnWire, Marked, Sent,
          Carries
    <2>3. AnswersOK'
      BY <1>0, <1>1, <1>8, NoneNoToken DEF AnswersOK, OnWire, Shapes
    <2>4. HonestPhoneNeverReuses'
      BY <1>0, <1>1, <1>8, HonestStays
    <2> QED
      BY <1>6, <2>1, <2>2, <2>3, <2>4 DEF PhoneInv
  <1> QED
    BY <1>7, <1>8 DEF RestoreRefresh

-----------------------------------------------------------------------------
(* A refresh ends                                                          *)

Ends(c, s) ==
  /\ FlightEnds(c, s) /\ flight[c].stage # "none"
  /\ UNCHANGED <<token, coord, born, wire, answers>>

(* The coordinator is free again, and a process that starts is not in this *)
(* case.                                                                   *)
LEMMA EndFacts ==
  ASSUME PhoneInv, NEW c \in Running, NEW s \in {"starting", "in", "out"}, Ends(c, s)
  PROVE  /\ c \in Coordinators
         /\ flight' \in [Coordinators -> FlightRow]
         /\ flight'[c].stage = "none" /\ flight'[c].token = None
         /\ \A d \in Coordinators : d # c => flight'[d] = flight[d]
         /\ restore' \in RestoreRow /\ status' \in {"starting", "in", "out"}
         /\ restore'.token \in {restore.token, None}
         /\ restore'.stage = "read" => restore' = restore
         /\ FlightsOK' /\ RestoreOK'
  <1>0. Shapes /\ FlightsOK /\ RestoreOK
    BY DEF PhoneInv
  <1>1. c \in Coordinators
    BY <1>0, RunningFacts
  <1>2. NoFlight \in FlightRow /\ NoFlight.stage = "none" /\ NoFlight.token = None
    BY DEF NoFlight, FlightRow
  <1>3. /\ flight' \in [Coordinators -> FlightRow] /\ flight'[c] = NoFlight
        /\ \A d \in Coordinators : d # c => flight'[d] = flight[d]
    BY <1>0, <1>1, <1>2 DEF Ends, FlightEnds, Shapes
  <1>4. UNCHANGED <<token, coord, born, wire, answers>>
    BY DEF Ends
  <1>5. [stage |-> "done", token |-> None] \in RestoreRow
    BY DEF RestoreRow
  <1>6. /\ restore' \in RestoreRow /\ status' \in {"starting", "in", "out"}
        /\ restore'.token \in {restore.token, None}
        /\ restore'.stage \in {"begin", "read"} => restore' = restore /\ status' = status
    BY <1>0, <1>5 DEF Ends, FlightEnds, Shapes
  <1>7. FlightsOK'
    <2>1. Running' = Running
      BY <1>4 DEF Running
    <2>2. ASSUME NEW d \in Coordinators
          PROVE  /\ flight'[d].stage = "none" => flight'[d].token = None
                 /\ flight'[d].stage # "none" => Issued(flight[d].token)' /\ d \in Running
      <3>1. CASE d = c
        BY <1>2, <1>3, <3>1
      <3>2. CASE d # c
        <4>1. flight'[d] = flight[d]
          BY <1>3, <3>2
        <4> QED
          BY <1>0, <1>4, <4>1 DEF FlightsOK, Issued
      <3> QED
        BY <3>1, <3>2
    <2> QED
      BY <2>1, <2>2 DEF FlightsOK
  <1>8. RestoreOK'
    <2>1. ASSUME coord = born, restore.stage \in {"begin", "read"} PROVE FALSE
      <3>1. c = coord
        BY <1>0, <2>1, RunningFacts
      <3>2. flight[coord].stage = "none"
        BY <1>0, <2>1 DEF RestoreOK
      <3> QED
        BY <3>1, <3>2 DEF Ends
    <2> QED
      BY <1>4, <1>6, <2>1 DEF RestoreOK
  <1> QED
    BY <1>1, <1>2, <1>3, <1>6, <1>7, <1>8

(* The answers the phone did not read stay apart from what it keeps.       *)
LEMMA EndAnswers ==
  ASSUME PhoneInv, NEW c \in Running, NEW s \in {"starting", "in", "out"}, Ends(c, s),
         stored' \in {stored, None, flight[c].token}
  PROVE  AnswersOK'
  <1>0. Shapes /\ AnswersOK
    BY DEF PhoneInv
  <1>1. /\ c \in Coordinators /\ flight'[c].token = None
        /\ \A d \in Coordinators : d # c => flight'[d] = flight[d]
        /\ restore'.token \in {restore.token, None}
    BY EndFacts
  <1>2. UNCHANGED <<token, wire, answers>>
    BY DEF Ends
  <1> SUFFICES ASSUME NEW x \in answers
               PROVE  /\ token[x].state = "fresh" /\ ~OnWire(x)' /\ stored' # x
                      /\ restore'.token # x
                      /\ \A d \in Coordinators : flight'[d].token # x
    BY <1>2 DEF AnswersOK
  <1>3. /\ token[x].state = "fresh" /\ ~OnWire(x) /\ stored # x /\ restore.token # x
        /\ \A d \in Coordinators : flight[d].token # x
    BY <1>0 DEF AnswersOK
  <1>4. x # None
    BY <1>0, NoneNoToken DEF Shapes
  <1>5. ~OnWire(x)'
    BY <1>2, <1>3 DEF OnWire
  <1> QED
    BY <1>1, <1>3, <1>4, <1>5

(* Marks and the wire do not change with it, except that more is marked.   *)
LEMMA WireStays ==
  ASSUME WireOK, TokensIssued, UNCHANGED <<token, wire>>, excused \subseteq excused'
  PROVE  WireOK'
  <1>1. FamiliesStay
    BY DEF FamiliesStay
  <1> SUFFICES ASSUME NEW x \in Tokens, OnWire(x)', ~Marked(x)'
               PROVE  /\ token[x].state = "fresh"
                      /\ \A d, e \in Coordinators :
                           <<d, x>> \in wire /\ <<e, x>> \in wire => d = e
    BY DEF WireOK
  <1>2. OnWire(x)
    BY DEF OnWire
  <1>3. Issued(x)
    BY <1>2 DEF OnWire, TokensIssued
  <1>4. ~Marked(x)
    BY <1>1, <1>3, MarksStay
  <1> QED
    BY <1>2, <1>4 DEF WireOK

(* An answer that is stored: the token was nowhere else.                   *)
LEMMA CaptureStep ==
  ASSUME PhoneInv, NEW c \in Running, CaptureAuthPayload(c)
  PROVE  PhoneInv'
  <1>0. /\ Shapes /\ TokensIssued /\ FlightsOK /\ WireOK /\ CarriedOK
        /\ HonestPhoneNeverReuses
    BY DEF PhoneInv
  <1>1. /\ flight[c].stage = "answered" /\ stored' = flight[c].token
        /\ UNCHANGED <<token, coord, born, wire, answers, excused>>
        /\ FlightEnds(c, "in")
    BY DEF CaptureAuthPayload, vars, sessionVars
  <1>2. Ends(c, "in")
    BY <1>1 DEF Ends
  <1>3. /\ c \in Coordinators /\ flight' \in [Coordinators -> FlightRow]
        /\ flight'[c].stage = "none" /\ flight'[c].token = None
        /\ \A d \in Coordinators : d # c => flight'[d] = flight[d]
        /\ restore' \in RestoreRow /\ status' \in {"starting", "in", "out"}
        /\ restore'.token \in {restore.token, None}
        /\ restore'.stage = "read" => restore' = restore
        /\ FlightsOK' /\ RestoreOK'
    BY <1>2, EndFacts
  <1>4. AnswersOK'
    BY <1>1, <1>2, EndAnswers
  <1>5. WireOK' /\ HonestPhoneNeverReuses'
    BY <1>0, <1>1, WireStays, HonestStays
  <1>6. Issued(flight[c].token)
    BY <1>0, <1>1, <1>3 DEF FlightsOK
  <1>7. PICK v \in Tokens : v = flight[c].token
    BY <1>6 DEF Issued
  <1>8. Issued(v) /\ Carries(c, v) /\ stored' = v
    BY <1>1, <1>6, <1>7 DEF Carries
  <1>9. ASSUME NEW x PROVE (Marked(x)' <=> Marked(x)) /\ (OnWire(x)' <=> OnWire(x))
    BY <1>1 DEF Marked, OnWire
  <1>10. Shapes'
    BY <1>0, <1>1, <1>3, <1>8 DEF Shapes
  <1>11. TokensIssued'
    BY <1>0, <1>1, <1>3, <1>8 DEF TokensIssued, Issued
  <1>12. CarriedOK'
    <2> SUFFICES ASSUME NEW d \in Coordinators, NEW u \in Tokens, Carries(d, u)', ~Marked(u)
                 PROVE  /\ token[u].state = "fresh" /\ ~OnWire(u) /\ v # u
                        /\ \A e \in Coordinators : flight'[e].token = u => e = d
      BY <1>1, <1>8, <1>9 DEF CarriedOK
    <2>1. d # c
      BY <1>3 DEF Carries
    <2>2. Carries(d, u)
      BY <1>3, <2>1 DEF Carries
    <2>3. /\ token[u].state = "fresh" /\ ~OnWire(u)
          /\ \A e \in Coordinators : flight[e].token = u => e = d
      BY <1>0, <2>2 DEF CarriedOK
    <2>4. v # u
      BY <1>3, <1>7, <2>1, <2>3
    <2> QED
      BY <1>3, <2>3, <2>4, NoneNoToken
  <1>13. StoredOK'
    <2> SUFFICES ASSUME ~Marked(v)
                 PROVE  /\ token[v].state = "fresh"
                        /\ \A d \in Coordinators : <<d, v>> \in wire => Sent(d, v)'
      BY <1>1, <1>8, <1>9 DEF StoredOK
    <2> QED
      BY <1>0, <1>3, <1>8 DEF CarriedOK, OnWire
  <1> QED
    BY <1>3, <1>4, <1>5, <1>10, <1>11, <1>12, <1>13 DEF PhoneInv

(* A refresh that ends with the token it used still stored marks its       *)
(* family.                                                                 *)
LEMMA KeptStep ==
  ASSUME PhoneInv, TypeOK, NEW c \in Running, CaptureFails(c) \/ ClearFails(c)
  PROVE  PhoneInv'
  <1>0. /\ Shapes /\ TokensIssued /\ FlightsOK /\ WireOK /\ CarriedOK /\ StoredOK
        /\ HonestPhoneNeverReuses
    BY DEF PhoneInv
  <1>1. /\ flight[c].stage # "none" /\ excused' = excused \cup {token[flight[c].token].family}
        /\ UNCHANGED <<token, stored, coord, born, wire, answers>>
        /\ FlightEnds(c, "starting") \/ FlightEnds(c, "out")
    BY DEF CaptureFails, ClearFails, vars, sessionVars
  <1>2. PICK s \in {"starting", "out"} : Ends(c, s)
    BY <1>1 DEF Ends
  <1>3. /\ c \in Coordinators /\ flight' \in [Coordinators -> FlightRow]
        /\ flight'[c].stage = "none" /\ flight'[c].token = None
        /\ \A d \in Coordinators : d # c => flight'[d] = flight[d]
        /\ restore' \in RestoreRow /\ status' \in {"starting", "in", "out"}
        /\ restore'.token \in {restore.token, None}
        /\ restore'.stage = "read" => restore' = restore
        /\ FlightsOK' /\ RestoreOK'
    BY <1>2, EndFacts
  <1>4. AnswersOK'
    BY <1>1, <1>2, EndAnswers
  <1>5. WireOK' /\ HonestPhoneNeverReuses'
    BY <1>0, <1>1, WireStays, HonestStays
  <1>6. Issued(flight[c].token)
    BY <1>0, <1>1, <1>3 DEF FlightsOK
  <1>7. PICK v \in Tokens : v = flight[c].token
    BY <1>6 DEF Issued
  <1>8. Issued(v) /\ excused' = excused \cup {token[v].family}
    BY <1>1, <1>6, <1>7
  <1>9. FamiliesStay
    BY <1>1 DEF FamiliesStay
  <1>10. Shapes'
    BY <1>0, <1>1, <1>3, <1>8 DEF Shapes, TypeOK
  <1>11. TokensIssued'
    BY <1>0, <1>1, <1>3, <1>8 DEF TokensIssued, Issued
  <1>12. CarriedOK'
    <2> SUFFICES ASSUME NEW d \in Coordinators, NEW u \in Tokens, Carries(d, u)', ~Marked(u)'
                 PROVE  /\ token[u].state = "fresh" /\ ~OnWire(u) /\ stored # u
                        /\ \A e \in Coordinators : flight'[e].token = u => e = d
      BY <1>1 DEF CarriedOK, OnWire
    <2>1. d # c
      BY <1>3 DEF Carries
    <2>2. Carries(d, u)
      BY <1>3, <2>1 DEF Carries
    <2>3. Issued(u)
      BY <1>0, <2>2 DEF Carries, FlightsOK
    <2>4. ~Marked(u)
      BY <1>0, <1>8, <1>9, <2>3, MarksStay
    <2>5. /\ token[u].state = "fresh" /\ ~OnWire(u) /\ stored # u
          /\ \A e \in Coordinators : flight[e].token = u => e = d
      BY <1>0, <2>2, <2>4 DEF CarriedOK
    <2> QED
      BY <1>3, <2>5, NoneNoToken
  <1>13. StoredOK'
    <2> SUFFICES ASSUME NEW x \in Tokens, stored = x, ~Marked(x)'
                 PROVE  \/ /\ token[x].state = "fresh"
                           /\ \A d \in Coordinators : <<d, x>> \in wire => Sent(d, x)'
                        \/ \E d \in Coordinators, u \in Tokens :
                             Carries(d, u)' /\ token[u].family = token[x].family
      BY <1>1 DEF StoredOK
    <2>1. Issued(x)
      BY <1>0, NoneNoToken DEF TokensIssued
    <2>2. ~Marked(x)
      BY <1>0, <1>8, <1>9, <2>1, MarksStay
    <2>3. token[v].family # token[x].family
      BY <1>1, <1>8 DEF Marked
    <2>4. ASSUME NEW d \in Coordinators, Sent(d, x) PROVE Sent(d, x)'
      <3>1. d # c
        BY <1>7, <2>3, <2>4 DEF Sent
      <3> QED
        BY <1>3, <2>4, <3>1 DEF Sent
    <2>5. ASSUME NEW d \in Coordinators, NEW u \in Tokens, Carries(d, u),
                 token[u].family = token[x].family
          PROVE  Carries(d, u)'
      <3>1. d # c
        BY <1>7, <2>3, <2>5 DEF Carries
      <3> QED
        BY <1>3, <2>5, <3>1 DEF Carries
    <2> QED
      BY <1>0, <2>2, <2>4, <2>5 DEF StoredOK
  <1> QED
    BY <1>3, <1>4, <1>5, <1>10, <1>11, <1>12, <1>13 DEF PhoneInv

(* A refresh that fails leaves nothing in storage to send again.           *)
LEMMA RefreshFailsStep ==
  ASSUME PhoneInv, NEW c \in Running, RefreshFails(c)
  PROVE  PhoneInv'
  <1>0. /\ Shapes /\ TokensIssued /\ FlightsOK /\ WireOK /\ CarriedOK
        /\ HonestPhoneNeverReuses
    BY DEF PhoneInv
  <1>1. /\ flight[c].stage \in {"sent", "refused"} /\ stored' = None
        /\ UNCHANGED <<token, coord, born, wire, answers, excused>>
        /\ FlightEnds(c, "out")
    BY DEF RefreshFails, vars, sessionVars
  <1>2. Ends(c, "out")
    BY <1>1 DEF Ends
  <1>3. /\ c \in Coordinators /\ flight' \in [Coordinators -> FlightRow]
        /\ flight'[c].stage = "none" /\ flight'[c].token = None
        /\ \A d \in Coordinators : d # c => flight'[d] = flight[d]
        /\ restore' \in RestoreRow /\ status' \in {"starting", "in", "out"}
        /\ restore'.token \in {restore.token, None}
        /\ restore'.stage = "read" => restore' = restore
        /\ FlightsOK' /\ RestoreOK'
    BY <1>2, EndFacts
  <1>4. AnswersOK'
    BY <1>1, <1>2, EndAnswers
  <1>5. WireOK' /\ HonestPhoneNeverReuses'
    BY <1>0, <1>1, WireStays, HonestStays
  <1>6. Shapes'
    BY <1>0, <1>1, <1>3 DEF Shapes
  <1>7. TokensIssued'
    BY <1>0, <1>1, <1>3 DEF TokensIssued, Issued
  <1>8. ASSUME NEW x PROVE (Marked(x)' <=> Marked(x)) /\ (OnWire(x)' <=> OnWire(x))
    BY <1>1 DEF Marked, OnWire
  <1>9. CarriedOK'
    <2> SUFFICES ASSUME NEW d \in Coordinators, NEW u \in Tokens, Carries(d, u)', ~Marked(u)
                 PROVE  /\ token[u].state = "fresh" /\ ~OnWire(u)
                        /\ \A e \in Coordinators : flight'[e].token = u => e = d
      BY <1>1, <1>8, NoneNoToken DEF CarriedOK
    <2>1. d # c
      BY <1>3 DEF Carries
    <2>2. Carries(d, u)
      BY <1>3, <2>1 DEF Carries
    <2>3. /\ token[u].state = "fresh" /\ ~OnWire(u)
          /\ \A e \in Coordinators : flight[e].token = u => e = d
      BY <1>0, <2>2 DEF CarriedOK
    <2> QED
      BY <1>3, <2>3, NoneNoToken
  <1>10. StoredOK'
    BY <1>1, NoneNoToken DEF StoredOK
  <1> QED
    BY <1>3, <1>4, <1>5, <1>6, <1>7, <1>9, <1>10 DEF PhoneInv

-----------------------------------------------------------------------------
(* Signing in and out, saved settings, restarts                            *)

(* Storage, wire and flights stay.                                         *)
QuietServer == UNCHANGED <<token, born, flight, wire, excused>>

(* Then nothing new is on the wire or revoked.                             *)
LEMMA QuietStep ==
  ASSUME WireOK, TokensIssued, HonestPhoneNeverReuses, QuietServer
  PROVE  WireOK' /\ HonestPhoneNeverReuses'
  BY WireStays, HonestStays DEF QuietServer

(* Restoring reads the token before it uses it.                            *)
LEMMA RestoreReadStep ==
  ASSUME PhoneInv, RestoreRead
  PROVE  PhoneInv'
  <1>0. /\ Shapes /\ TokensIssued /\ FlightsOK /\ WireOK /\ CarriedOK /\ StoredOK
        /\ AnswersOK /\ RestoreOK /\ HonestPhoneNeverReuses
    BY DEF PhoneInv
  <1>1. /\ restore.stage = "begin"
        /\ restore' = [stage |-> IF stored = None THEN "done" ELSE "read", token |-> stored]
        /\ status' = IF stored = None THEN "out" ELSE status
        /\ UNCHANGED <<token, stored, coord, born, flight, wire, answers, excused>>
    BY DEF RestoreRead, vars, sessionVars
  <1>2. /\ restore' \in RestoreRow /\ restore'.token = stored
        /\ restore'.stage = IF stored = None THEN "done" ELSE "read"
    BY <1>0, <1>1 DEF RestoreRow, Shapes
  <1>3. Shapes'
    BY <1>0, <1>1, <1>2 DEF Shapes
  <1>4. TokensIssued'
    BY <1>0, <1>1, <1>2 DEF TokensIssued, Issued
  <1>5. FlightsOK' /\ CarriedOK' /\ StoredOK'
    BY <1>0, <1>1
    DEF FlightsOK, Running, Issued, CarriedOK, StoredOK, OnWire, Marked, Sent, Carries
  <1>6. WireOK' /\ HonestPhoneNeverReuses'
    BY <1>0, <1>1, QuietStep DEF QuietServer
  <1>7. AnswersOK'
    BY <1>0, <1>1, <1>2 DEF AnswersOK, OnWire
  <1>8. RestoreOK'
    BY <1>0, <1>1, <1>2 DEF RestoreOK
  <1> QED
    BY <1>3, <1>4, <1>5, <1>6, <1>7, <1>8 DEF PhoneInv

(* The first token of a session is nowhere else when the phone stores it.  *)
LEMMA SignedInStep ==
  ASSUME PhoneInv, NEW t \in Tokens, SignedIn(t)
  PROVE  PhoneInv'
  <1>0. /\ Shapes /\ TokensIssued /\ FlightsOK /\ WireOK /\ CarriedOK /\ StoredOK
        /\ AnswersOK /\ RestoreOK /\ HonestPhoneNeverReuses
    BY DEF PhoneInv
  <1>1. /\ status = "out" /\ t \in answers /\ stored' = t /\ status' = "in"
        /\ answers' = {}
        /\ UNCHANGED <<token, coord, born, restore, flight, wire, excused>>
    BY DEF SignedIn, vars, sessionVars
  <1>2. /\ token[t].state = "fresh" /\ ~OnWire(t)
        /\ \A c \in Coordinators : flight[c].token # t
    BY <1>0, <1>1 DEF AnswersOK
  <1>3. Shapes'
    BY <1>0, <1>1 DEF Shapes
  <1>4. TokensIssued'
    BY <1>0, <1>1, <1>2 DEF TokensIssued, Issued
  <1>5. FlightsOK'
    BY <1>0, <1>1 DEF FlightsOK, Running, Issued
  <1>6. WireOK' /\ HonestPhoneNeverReuses'
    BY <1>0, <1>1, QuietStep DEF QuietServer
  <1>7. CarriedOK'
    <2>0. ASSUME NEW x, NEW c
          PROVE  /\ Marked(x)' <=> Marked(x)
                 /\ OnWire(x)' <=> OnWire(x)
                 /\ Carries(c, x)' <=> Carries(c, x)
      BY <1>1 DEF Marked, OnWire, Carries
    <2> SUFFICES ASSUME NEW d \in Coordinators, NEW u \in Tokens, Carries(d, u), ~Marked(u)
                 PROVE  /\ token[u].state = "fresh" /\ ~OnWire(u) /\ t # u
                        /\ \A e \in Coordinators : flight[e].token = u => e = d
      BY <1>1, <2>0 DEF CarriedOK
    <2>1. t # u
      BY <1>2 DEF Carries
    <2> QED
      BY <1>0, <2>1 DEF CarriedOK
  <1>8. StoredOK'
    BY <1>1, <1>2 DEF StoredOK, OnWire
  <1>9. AnswersOK' /\ RestoreOK'
    BY <1>0, <1>1 DEF AnswersOK, RestoreOK
  <1> QED
    BY <1>3, <1>4, <1>5, <1>6, <1>7, <1>8, <1>9 DEF PhoneInv

(* Signing out keeps no token.                                             *)
LEMMA LogoutStep ==
  ASSUME PhoneInv, Logout
  PROVE  PhoneInv'
  <1>0. /\ Shapes /\ TokensIssued /\ FlightsOK /\ WireOK /\ CarriedOK /\ StoredOK
        /\ AnswersOK /\ RestoreOK /\ HonestPhoneNeverReuses
    BY DEF PhoneInv
  <1>1. /\ status = "in" /\ stored' = None /\ status' = "out"
        /\ UNCHANGED <<token, coord, born, restore, flight, wire, answers, excused>>
    BY DEF Logout, vars, sessionVars
  <1>2. Shapes' /\ TokensIssued'
    BY <1>0, <1>1 DEF Shapes, TokensIssued, Issued
  <1>3. FlightsOK'
    BY <1>0, <1>1 DEF FlightsOK, Running, Issued
  <1>4. WireOK' /\ HonestPhoneNeverReuses'
    BY <1>0, <1>1, QuietStep DEF QuietServer
  <1>5. CarriedOK'
    BY <1>0, <1>1, NoneNoToken DEF CarriedOK, Carries, Marked, OnWire
  <1>6. StoredOK'
    BY <1>1, NoneNoToken DEF StoredOK
  <1>7. AnswersOK'
    BY <1>0, <1>1, NoneNoToken DEF AnswersOK, OnWire, Shapes
  <1>8. RestoreOK'
    BY <1>0, <1>1 DEF RestoreOK
  <1> QED
    BY <1>2, <1>3, <1>4, <1>5, <1>6, <1>7, <1>8 DEF PhoneInv

(* A second coordinator starts with nothing under way.                     *)
LEMMA ReconfigureStep ==
  ASSUME PhoneInv, Reconfigure
  PROVE  PhoneInv'
  <1>0. /\ Shapes /\ TokensIssued /\ FlightsOK /\ WireOK /\ CarriedOK /\ StoredOK
        /\ AnswersOK /\ HonestPhoneNeverReuses
    BY DEF PhoneInv
  <1>1. /\ coord < MaxCoordinators /\ coord' = coord + 1
        /\ restore' = [stage |-> "begin", token |-> None]
        /\ UNCHANGED <<token, stored, born, status, flight, wire, answers, excused>>
    BY DEF Reconfigure, vars, sessionVars
  <1>2. coord \in 1..MaxCoordinators /\ born \in 1..coord /\ MaxCoordinators \in Nat
    BY <1>0, PhoneAssumption DEF Shapes, Coordinators
  <1>3. /\ coord' \in Coordinators /\ born' \in 1..coord' /\ coord' # born'
        /\ Running \subseteq Running'
    BY <1>1, <1>2 DEF Coordinators, Running
  <1>4. restore' \in RestoreRow /\ restore'.token = None /\ restore'.stage = "begin"
    BY <1>1 DEF RestoreRow
  <1>5. Shapes'
    BY <1>0, <1>1, <1>3, <1>4 DEF Shapes
  <1>6. TokensIssued'
    BY <1>0, <1>1, <1>4 DEF TokensIssued, Issued
  <1>7. FlightsOK'
    BY <1>0, <1>1, <1>3 DEF FlightsOK, Issued
  <1>8. WireOK' /\ HonestPhoneNeverReuses'
    BY <1>0, <1>1, QuietStep DEF QuietServer
  <1>9. CarriedOK' /\ StoredOK'
    BY <1>0, <1>1 DEF CarriedOK, StoredOK, OnWire, Marked, Sent, Carries
  <1>10. AnswersOK'
    BY <1>0, <1>1, <1>4, NoneNoToken DEF AnswersOK, OnWire, Shapes
  <1>11. RestoreOK'
    BY <1>3 DEF RestoreOK
  <1> QED
    BY <1>5, <1>6, <1>7, <1>8, <1>9, <1>10, <1>11 DEF PhoneInv

(* A process that dies marks what it had under way, so what it leaves in   *)
(* storage is unused and not on the wire, or marked.                       *)
LEMMA RestartStep ==
  ASSUME PhoneInv, TypeOK, Restart
  PROVE  PhoneInv'
  <1>0. /\ Shapes /\ TokensIssued /\ FlightsOK /\ WireOK /\ CarriedOK /\ StoredOK
        /\ HonestPhoneNeverReuses
    BY DEF PhoneInv
  <1> DEFINE cut == {token[flight[c].token].family : c \in
                       {d \in Running : flight[d].stage \in {"sent", "answered"}}}
  <1>1. /\ coord < MaxCoordinators /\ coord' = coord + 1 /\ born' = coord + 1
        /\ restore' = [stage |-> "begin", token |-> None]
        /\ status' = "starting" /\ answers' = {}
        /\ flight' = [c \in Coordinators |-> NoFlight]
        /\ excused' = excused \cup cut
        /\ UNCHANGED <<token, stored, wire>>
    BY DEF Restart, vars, sessionVars
  <1>2. ASSUME NEW x \in cut PROVE x \in Tokens \cup {None}
    <2>1. PICK c \in Running : /\ flight[c].stage \in {"sent", "answered"}
                               /\ x = token[flight[c].token].family
      OBVIOUS
    <2>2. c \in Coordinators
      BY <1>0, RunningFacts
    <2>3. flight[c].token \in Tokens
      BY <1>0, <2>1, <2>2 DEF FlightsOK, Issued
    <2> QED
      BY <2>1, <2>3 DEF TypeOK
  <1>3. ASSUME NEW c \in Coordinators, NEW x, Sent(c, x) \/ Carries(c, x)
        PROVE  token[x].family \in excused'
    <2>1. c \in Running /\ flight[c].stage \in {"sent", "answered"} /\ x = flight[c].token
      BY <1>0, <1>3 DEF FlightsOK, Sent, Carries
    <2> QED
      BY <1>1, <2>1
  <1>4. excused \subseteq excused' /\ excused' \subseteq Tokens \cup {None}
    BY <1>0, <1>1, <1>2 DEF Shapes
  <1> HIDE DEF cut
  <1>5. NoFlight \in FlightRow /\ NoFlight.stage = "none" /\ NoFlight.token = None
    BY DEF NoFlight, FlightRow
  <1>6. /\ flight' \in [Coordinators -> FlightRow]
        /\ \A c \in Coordinators : flight'[c].stage = "none" /\ flight'[c].token = None
    BY <1>1, <1>5
  <1>7. restore' \in RestoreRow /\ restore'.token = None /\ restore'.stage = "begin"
    BY <1>1 DEF RestoreRow
  <1>8. coord' \in Coordinators /\ born' \in 1..coord'
    BY <1>0, <1>1, PhoneAssumption DEF Shapes, Coordinators
  <1>9. Shapes'
    BY <1>0, <1>1, <1>4, <1>6, <1>7, <1>8 DEF Shapes
  <1>10. TokensIssued'
    BY <1>0, <1>1, <1>4, <1>7 DEF TokensIssued, Issued
  <1>11. FlightsOK' /\ CarriedOK'
    BY <1>6 DEF FlightsOK, CarriedOK, Carries
  <1>12. WireOK' /\ HonestPhoneNeverReuses'
    BY <1>0, <1>1, <1>4, WireStays, HonestStays
  <1>13. StoredOK'
    <2> SUFFICES ASSUME NEW x \in Tokens, stored = x, ~Marked(x)'
                 PROVE  /\ token[x].state = "fresh"
                        /\ \A c \in Coordinators : <<c, x>> \notin wire
      BY <1>1 DEF StoredOK
    <2>1. FamiliesStay
      BY <1>1 DEF FamiliesStay
    <2>2. Issued(x)
      BY <1>0, NoneNoToken DEF TokensIssued
    <2>3. ~Marked(x)
      BY <1>0, <1>4, <2>1, <2>2, MarksStay
    <2>4. token[x].family \notin excused'
      BY <1>1 DEF Marked
    <2>5. ASSUME NEW c \in Coordinators, NEW u, Sent(c, u) \/ Carries(c, u)
          PROVE  token[u].family # token[x].family
      BY <1>3, <2>4, <2>5
    <2> QED
      BY <1>0, <2>3, <2>5 DEF StoredOK
  <1>14. AnswersOK' /\ RestoreOK'
    BY <1>1, <1>6, <1>7, <1>8 DEF AnswersOK, RestoreOK
  <1> QED
    BY <1>9, <1>10, <1>11, <1>12, <1>13, <1>14 DEF PhoneInv

-----------------------------------------------------------------------------
(* The server                                                              *)

(* What the phone does not see of the server leaves the tokens alone.      *)
LEMMA ServerStepStep ==
  ASSUME PhoneInv, (ServerStep \/ UNCHANGED appVars)
  PROVE  PhoneInv'
  <1>1. UNCHANGED phoneVars
    BY DEF ServerStep, appVars
  <1>2. UNCHANGED token
    BY DEF ServerStep, appVars, vars, sessionVars, BeginAccountRegistration,
       FinishAccountRegistration, Recover, Authenticate, RevokeSession,
       RevokeInstallation, HandlerFails, Tick
  <1>3. Shapes' /\ TokensIssued' /\ FlightsOK'
    BY <1>1, <1>2 DEF phoneVars, PhoneInv, Shapes, TokensIssued, FlightsOK, Running, Issued
  <1>4. WireOK' /\ HonestPhoneNeverReuses'
    BY <1>1, <1>2, QuietStep DEF phoneVars, PhoneInv, QuietServer
  <1>5. CarriedOK' /\ StoredOK'
    BY <1>1, <1>2
    DEF phoneVars, PhoneInv, CarriedOK, StoredOK, OnWire, Marked, Sent, Carries
  <1>6. AnswersOK' /\ RestoreOK'
    BY <1>1, <1>2 DEF phoneVars, PhoneInv, AnswersOK, RestoreOK, OnWire
  <1> QED
    BY <1>3, <1>4, <1>5, <1>6 DEF PhoneInv

(* A new session's first token is new to the phone.                        *)
LEMMA SignsInStep ==
  ASSUME AppInv, NEW r \in Requests, NEW s \in AuthSessions, NEW t \in Tokens,
         PhoneSignsIn(r, s, t), FamiliesStay
  PROVE  PhoneInv'
  <1>0. /\ Inv /\ TypeOK /\ Shapes /\ TokensIssued /\ FlightsOK /\ WireOK /\ CarriedOK
        /\ StoredOK /\ AnswersOK /\ RestoreOK /\ HonestPhoneNeverReuses
    BY DEF AppInv, PhoneInv, Inv
  <1>1. /\ OpensSession(r, Phone, s, t) /\ answers' = answers \cup {t}
        /\ UNCHANGED <<stored, coord, born, restore, status, flight, wire, excused>>
    BY DEF PhoneSignsIn
  <1>2. PICK a \in Accounts, k \in Passkeys \cup {None}, o \in Origin :
          OpenedFor(r, Phone, s, t, a, k, o)
    BY <1>0, <1>1, OpenFacts, PhoneAssumption
  <1>3. /\ token[t].state = "absent" /\ token'[t].state = "fresh" /\ token'[t].revoked = FALSE
        /\ \A x \in Tokens : x # t => token'[x] = token[x]
    BY <1>0, <1>2 DEF OpenedFor, CreateSession, TypeOK
  <1>4. ASSUME NEW x, Issued(x)
        PROVE  /\ x # t /\ x \in Tokens /\ token'[x] = token[x]
               /\ Marked(x)' <=> Marked(x)
    <2>1. x # t /\ x \in Tokens
      BY <1>3, <1>4 DEF Issued
    <2>2. Marked(x)' <=> Marked(x)
      BY <1>0, <1>1, <1>4, <2>1, MarksStay, NoNewMarks
    <2> QED
      BY <1>3, <2>1, <2>2
  <1>5. ASSUME NEW x, Issued(x) PROVE Issued(x)'
    BY <1>5, IssuedStays
  <1>6. ASSUME NEW x \in Tokens, OnWire(x) PROVE Issued(x)
    BY <1>0, <1>6 DEF OnWire, TokensIssued
  <1>7. ASSUME NEW c \in Coordinators, flight[c].token # None
        PROVE  Issued(flight[c].token)
    BY <1>0, <1>7, FlightFacts
  <1>8. ASSUME NEW x, NEW c
        PROVE  /\ OnWire(x)' <=> OnWire(x)
               /\ Sent(c, x)' <=> Sent(c, x)
               /\ Carries(c, x)' <=> Carries(c, x)
    BY <1>1 DEF OnWire, Sent, Carries
  <1>9. Shapes'
    BY <1>0, <1>1 DEF Shapes
  <1>10. TokensIssued'
    <2>1. /\ stored # None => Issued(stored) /\ Issued(stored)'
          /\ restore.token # None => Issued(restore.token)'
      BY <1>0, <1>1, <1>5 DEF TokensIssued, Issued
    <2> QED
      BY <1>0, <1>1, <1>5, <2>1 DEF TokensIssued, Issued
  <1>11. FlightsOK'
    BY <1>0, <1>1, <1>5 DEF FlightsOK, Running, Issued
  <1>12. WireOK'
    BY <1>0, <1>1, <1>4, <1>6, <1>8 DEF WireOK
  <1>13. CarriedOK'
    <2> SUFFICES ASSUME NEW d \in Coordinators, NEW u \in Tokens, Carries(d, u), ~Marked(u)'
                 PROVE  /\ token'[u].state = "fresh" /\ ~OnWire(u) /\ stored # u
                        /\ \A e \in Coordinators : flight[e].token = u => e = d
      BY <1>1, <1>8 DEF CarriedOK
    <2>1. Issued(u)
      BY <1>0 DEF Carries, FlightsOK
    <2> QED
      BY <1>0, <1>4, <2>1 DEF CarriedOK
  <1>14. StoredOK'
    <2> SUFFICES ASSUME NEW x \in Tokens, stored = x, ~Marked(x)'
                 PROVE  \/ /\ token'[x].state = "fresh"
                           /\ \A d \in Coordinators : <<d, x>> \in wire => Sent(d, x)
                        \/ \E d \in Coordinators, u \in Tokens :
                             Carries(d, u) /\ token'[u].family = token'[x].family
      BY <1>1, <1>8 DEF StoredOK
    <2>1. Issued(x)
      BY <1>0, NoneNoToken DEF TokensIssued
    <2>2. ASSUME NEW d \in Coordinators, NEW u \in Tokens, Carries(d, u)
          PROVE  token'[u] = token[u]
      BY <1>0, <1>4, <2>2 DEF Carries, FlightsOK
    <2> QED
      BY <1>0, <1>4, <2>1, <2>2 DEF StoredOK
  <1>15. AnswersOK'
    <2> SUFFICES ASSUME NEW x \in answers \cup {t}
                 PROVE  /\ token'[x].state = "fresh" /\ ~OnWire(x) /\ stored # x
                        /\ restore.token # x
                        /\ \A d \in Coordinators : flight[d].token # x
      BY <1>1, <1>8 DEF AnswersOK
    <2>1. CASE x = t
      <3>1. ~Issued(t) /\ t # None
        BY <1>3, NoneNoToken DEF Issued
      <3>2. ~OnWire(t) /\ stored # t /\ restore.token # t
        BY <1>0, <1>6, <3>1 DEF TokensIssued
      <3>3. \A d \in Coordinators : flight[d].token # t
        BY <1>7, <3>1
      <3> QED
        BY <1>3, <2>1, <3>2, <3>3
    <2>2. CASE x # t
      <3>1. x \in answers /\ x \in Tokens
        BY <1>0, <2>2 DEF Shapes
      <3> QED
        BY <1>0, <1>3, <2>2, <3>1 DEF AnswersOK
    <2> QED
      BY <2>1, <2>2
  <1>16. RestoreOK'
    BY <1>0, <1>1 DEF RestoreOK
  <1>17. HonestPhoneNeverReuses'
    <2> SUFFICES ASSUME NEW x \in Tokens, token'[x].revoked PROVE Marked(x)'
      BY DEF HonestPhoneNeverReuses, Marked
    <2>1. x # t /\ token[x].revoked
      BY <1>3
    <2>2. Marked(x)
      BY <1>0, <2>1 DEF HonestPhoneNeverReuses, Marked
    <2>3. Issued(x)
      BY <1>0, <2>1 DEF Inv, TokensOK, NoToken, Issued
    <2> QED
      BY <1>4, <2>2, <2>3
  <1> QED
    BY <1>9, <1>10, <1>11, <1>12, <1>13, <1>14, <1>15, <1>16, <1>17 DEF PhoneInv

(* An answer takes its request off the wire, and ends the wait of the      *)
(* coordinator that sent it if it still waits.                             *)
LEMMA AnswerFacts ==
  ASSUME Shapes, NEW c \in Coordinators, NEW t \in Tokens, NEW reply \in FlightRow,
         Answer(c, t, reply)
  PROVE  /\ wire' = wire \ {<<c, t>>}
         /\ flight' \in [Coordinators -> FlightRow]
         /\ Sent(c, t) => flight'[c] = reply
         /\ ~Sent(c, t) => flight'[c] = flight[c]
         /\ \A d \in Coordinators : d # c => flight'[d] = flight[d]
         /\ UNCHANGED <<stored, coord, born, restore, status, answers, excused>>
  <1>1. flight \in [Coordinators -> FlightRow] /\ flight[c] \in FlightRow
    BY DEF Shapes
  <1>2. flight[c] = [stage |-> "sent", token |-> t] <=> Sent(c, t)
    BY <1>1 DEF Sent, FlightRow
  <1>3. /\ wire' = wire \ {<<c, t>>}
        /\ flight' = IF Sent(c, t) THEN [flight EXCEPT ![c] = reply] ELSE flight
        /\ UNCHANGED <<stored, coord, born, restore, status, answers, excused>>
    BY <1>2 DEF Answer
  <1> QED
    BY <1>1, <1>3

(* What the phone keeps was issued before, and stays.                      *)
LEMMA AnswerIssued ==
  ASSUME TokensIssued, FamiliesStay, wire' \subseteq wire,
         UNCHANGED <<stored, restore, excused>>
  PROVE  TokensIssued'
  <1>1. ASSUME NEW x, Issued(x) PROVE Issued(x)'
    BY <1>1, IssuedStays
  <1>2. stored # None => Issued(stored)'
    BY <1>1 DEF TokensIssued, Issued
  <1>3. restore.token # None => Issued(restore.token)'
    BY <1>1 DEF TokensIssued, Issued
  <1> QED
    BY <1>1, <1>2, <1>3 DEF TokensIssued, Issued

(* A refusal: the phone learns nothing, and no token changes hands.        *)
LEMMA RefusedStep ==
  ASSUME PhoneInv, NEW c \in Coordinators, NEW t \in Tokens, <<c, t>> \in wire,
         Answer(c, t, [stage |-> "refused", token |-> t]), FamiliesStay,
         \A x \in Tokens : token'[x].state = token[x].state
                           /\ token'[x].family = token[x].family,
         HonestPhoneNeverReuses'
  PROVE  PhoneInv'
  <1>0. /\ Shapes /\ TokensIssued /\ FlightsOK /\ WireOK /\ CarriedOK /\ StoredOK
        /\ AnswersOK /\ RestoreOK
    BY DEF PhoneInv
  <1> DEFINE reply == [stage |-> "refused", token |-> t]
  <1>1. reply \in FlightRow /\ reply.stage = "refused" /\ reply.token = t
    BY DEF FlightRow
  <1> HIDE DEF reply
  <1>2. Answer(c, t, reply)
    BY DEF reply
  <1>3. /\ wire' = wire \ {<<c, t>>}
        /\ flight' \in [Coordinators -> FlightRow]
        /\ Sent(c, t) => flight'[c] = reply
        /\ ~Sent(c, t) => flight'[c] = flight[c]
        /\ \A d \in Coordinators : d # c => flight'[d] = flight[d]
        /\ UNCHANGED <<stored, coord, born, restore, status, answers, excused>>
    BY <1>0, <1>1, <1>2, AnswerFacts
  <1>4. ASSUME NEW d \in Coordinators
        PROVE  /\ flight'[d].token = flight[d].token
               /\ flight'[d].stage = "none" <=> flight[d].stage = "none"
               /\ flight'[d].stage = "answered" <=> flight[d].stage = "answered"
    <2>1. CASE d = c /\ Sent(c, t)
      BY <1>1, <1>3, <2>1 DEF Sent
    <2>2. CASE ~(d = c /\ Sent(c, t))
      BY <1>3, <2>2
    <2> QED
      BY <2>1, <2>2
  <1>5. ASSUME NEW x \in Tokens, Issued(x) PROVE Marked(x)' <=> Marked(x)
    BY <1>0, <1>3, <1>5, MarksStay, NoNewMarks
  <1>6. ASSUME NEW d \in Coordinators, NEW x PROVE Carries(d, x)' <=> Carries(d, x)
    BY <1>4 DEF Carries
  <1>7. ASSUME NEW x, OnWire(x)' PROVE OnWire(x)
    BY <1>3, <1>7 DEF OnWire
  <1>8. Shapes' /\ TokensIssued'
    BY <1>0, <1>3, AnswerIssued DEF Shapes
  <1>9. FlightsOK'
    <2>1. ASSUME NEW d \in Coordinators, flight[d].stage # "none"
          PROVE  Issued(flight[d].token)' /\ d \in Running'
      <3>1. Issued(flight[d].token) /\ d \in Running
        BY <1>0, <2>1 DEF FlightsOK
      <3>2. PICK y : y = flight[d].token
        OBVIOUS
      <3>3. Issued(y)'
        BY <3>1, <3>2, IssuedStays
      <3>4. flight'[d].token = y
        BY <1>4, <3>2
      <3> QED
        BY <1>3, <3>1, <3>3, <3>4 DEF Running, Issued
    <2> QED
      BY <1>0, <1>4, <2>1 DEF FlightsOK
  <1>10. WireOK'
    <2> SUFFICES ASSUME NEW x \in Tokens, OnWire(x)', ~Marked(x)'
                 PROVE  /\ token'[x].state = "fresh"
                        /\ \A d, e \in Coordinators :
                             <<d, x>> \in wire' /\ <<e, x>> \in wire' => d = e
      BY DEF WireOK
    <2>1. OnWire(x)
      BY <1>7
    <2>2. Issued(x)
      BY <1>0, <2>1 DEF OnWire, TokensIssued
    <2> QED
      BY <1>0, <1>3, <1>5, <2>1, <2>2 DEF WireOK
  <1>11. CarriedOK'
    <2> SUFFICES ASSUME NEW d \in Coordinators, NEW u \in Tokens, Carries(d, u), ~Marked(u)'
                 PROVE  /\ token'[u].state = "fresh" /\ ~OnWire(u)' /\ stored # u
                        /\ \A e \in Coordinators : flight'[e].token = u => e = d
      BY <1>3, <1>6 DEF CarriedOK
    <2>1. Issued(u)
      BY <1>0 DEF Carries, FlightsOK
    <2>2. /\ token[u].state = "fresh" /\ ~OnWire(u) /\ stored # u
          /\ \A e \in Coordinators : flight[e].token = u => e = d
      BY <1>0, <1>5, <2>1 DEF CarriedOK
    <2> QED
      BY <1>4, <1>7, <2>2
  <1>12. StoredOK'
    <2> SUFFICES ASSUME NEW x \in Tokens, stored = x, ~Marked(x)'
                 PROVE  \/ /\ token[x].state = "fresh"
                           /\ \A d \in Coordinators : <<d, x>> \in wire' => Sent(d, x)'
                        \/ \E d \in Coordinators, u \in Tokens :
                             Carries(d, u) /\ token[u].family = token[x].family
      BY <1>3, <1>6 DEF StoredOK
    <2>1. Issued(x)
      BY <1>0, NoneNoToken DEF TokensIssued
    <2>2. ASSUME NEW d \in Coordinators, <<d, x>> \in wire', Sent(d, x) PROVE Sent(d, x)'
      <3>1. ~(d = c /\ Sent(c, t))
        BY <1>3, <2>2 DEF Sent
      <3> QED
        BY <1>3, <2>2, <3>1 DEF Sent
    <2> QED
      BY <1>0, <1>3, <1>5, <2>1, <2>2 DEF StoredOK
  <1>13. AnswersOK'
    <2> SUFFICES ASSUME NEW x \in answers
                 PROVE  /\ token'[x].state = "fresh" /\ ~OnWire(x)' /\ stored # x
                        /\ restore.token # x
                        /\ \A d \in Coordinators : flight'[d].token # x
      BY <1>3 DEF AnswersOK
    <2>1. x \in Tokens
      BY <1>0 DEF Shapes
    <2> QED
      BY <1>0, <1>4, <1>7, <2>1 DEF AnswersOK
  <1>14. RestoreOK'
    <2>1. coord \in Coordinators
      BY <1>0 DEF Shapes
    <2> QED
      BY <1>0, <1>3, <1>4, <2>1 DEF RestoreOK
  <1> QED
    BY <1>8, <1>9, <1>10, <1>11, <1>12, <1>13, <1>14 DEF PhoneInv

(* A rotation moves the one unused token of the family to its successor,   *)
(* which only the coordinator that waits for it gets.                      *)
LEMMA RotatedStep ==
  ASSUME AppInv, NEW c \in Coordinators, NEW t \in Tokens, NEW n \in Tokens,
         <<c, t>> \in wire, RotateRefresh(t, n),
         Answer(c, t, [stage |-> "answered", token |-> n]), FamiliesStay
  PROVE  PhoneInv'
  <1>0. /\ Inv /\ Shapes /\ TokensIssued /\ FlightsOK /\ WireOK /\ CarriedOK /\ StoredOK
        /\ AnswersOK /\ RestoreOK /\ HonestPhoneNeverReuses
    BY DEF AppInv, PhoneInv
  <1> DEFINE reply == [stage |-> "answered", token |-> n]
  <1>1. reply \in FlightRow /\ reply.stage = "answered" /\ reply.token = n
    BY DEF FlightRow
  <1> HIDE DEF reply
  <1>2. Answer(c, t, reply)
    BY DEF reply
  <1>3. /\ wire' = wire \ {<<c, t>>}
        /\ flight' \in [Coordinators -> FlightRow]
        /\ Sent(c, t) => flight'[c] = reply
        /\ ~Sent(c, t) => flight'[c] = flight[c]
        /\ \A d \in Coordinators : d # c => flight'[d] = flight[d]
        /\ UNCHANGED <<stored, coord, born, restore, status, answers, excused>>
    BY <1>0, <1>1, <1>2, AnswerFacts
  <1>4. /\ n # t /\ token[t].state = "fresh" /\ token[t].revoked = FALSE
        /\ token[n].state = "absent"
        /\ token'[t].state = "consumed" /\ token'[t].revoked = token[t].revoked
        /\ token'[t].family = token[t].family
        /\ token'[n].state = "fresh" /\ token'[n].revoked = FALSE
        /\ token'[n].family = token[t].family
        /\ \A x \in Tokens : x # t /\ x # n => token'[x] = token[x]
    BY <1>0, RotateWrites
  <1>5. Issued(t) /\ ~Issued(n) /\ Issued(n)'
    BY <1>4 DEF Issued
  <1>6. ASSUME NEW x \in Tokens, Issued(x)
        PROVE  /\ x # n /\ token'[x].family = token[x].family
               /\ Marked(x)' <=> Marked(x)
    BY <1>0, <1>3, <1>5, <1>6, MarksStay, NoNewMarks DEF FamiliesStay, Issued
  <1>7. ASSUME NEW d \in Coordinators
        PROVE  flight[d].token # n /\ (flight[d].token # None => Issued(flight[d].token))
    BY <1>0, <1>5, FlightFacts, NoneNoToken
  <1>8. ASSUME NEW d \in Coordinators
        PROVE  \/ flight'[d] = flight[d]
               \/ /\ d = c /\ Sent(c, t)
                  /\ flight'[d].stage = "answered" /\ flight'[d].token = n
    <2>1. CASE d = c /\ Sent(c, t)
      BY <1>1, <1>3, <2>1
    <2>2. CASE ~(d = c /\ Sent(c, t))
      BY <1>3, <2>2
    <2> QED
      BY <2>1, <2>2
  <1>9. ASSUME NEW x, OnWire(x)' PROVE OnWire(x)
    BY <1>3, <1>9 DEF OnWire
  <1>10. ASSUME NEW x \in Tokens, OnWire(x) PROVE Issued(x)
    BY <1>0, <1>10 DEF OnWire, TokensIssued
  <1>11. OnWire(t)
    BY DEF OnWire
  <1>12. Shapes' /\ TokensIssued'
    BY <1>0, <1>3, AnswerIssued DEF Shapes
  <1>13. FlightsOK'
    <2>1. Running' = Running
      BY <1>3 DEF Running
    <2>2. ASSUME NEW d \in Coordinators
          PROVE  /\ flight'[d].stage = "none" => flight'[d].token = None
                 /\ flight'[d].stage # "none" => Issued(flight[d].token)' /\ d \in Running
      <3>1. PICK y : y = flight'[d].token
        OBVIOUS
      <3>2. CASE flight'[d] = flight[d]
        <4>1. Issued(y) => Issued(y)'
          BY IssuedStays
        <4> QED
          BY <1>0, <3>1, <3>2, <4>1 DEF FlightsOK, Issued
      <3>3. CASE d = c /\ Sent(c, t) /\ flight'[d].stage = "answered" /\ flight'[d].token = n
        <4>1. d \in Running
          BY <1>0, <3>3 DEF Sent, FlightsOK
        <4> QED
          BY <1>5, <3>3, <4>1 DEF Issued
      <3> QED
        BY <1>8, <3>2, <3>3
    <2> QED
      BY <2>1, <2>2 DEF FlightsOK
  <1>14. WireOK'
    <2> SUFFICES ASSUME NEW x \in Tokens, OnWire(x)', ~Marked(x)'
                 PROVE  /\ token'[x].state = "fresh"
                        /\ \A d, e \in Coordinators :
                             <<d, x>> \in wire' /\ <<e, x>> \in wire' => d = e
      BY DEF WireOK
    <2>1. OnWire(x) /\ Issued(x)
      BY <1>9, <1>10
    <2>2. ~Marked(x) /\ x # n
      BY <1>6, <2>1
    <2>3. /\ token[x].state = "fresh"
          /\ \A d, e \in Coordinators : <<d, x>> \in wire /\ <<e, x>> \in wire => d = e
      BY <1>0, <2>1, <2>2 DEF WireOK
    <2>4. x # t
      <3>1. PICK d \in Coordinators : <<d, x>> \in wire'
        BY DEF OnWire
      <3> QED
        BY <1>3, <2>3, <3>1
    <2> QED
      BY <1>3, <1>4, <2>2, <2>3, <2>4
  <1>15. CarriedOK'
    <2> SUFFICES ASSUME NEW d \in Coordinators, NEW u \in Tokens, Carries(d, u)', ~Marked(u)'
                 PROVE  /\ token'[u].state = "fresh" /\ ~OnWire(u)' /\ stored # u
                        /\ \A e \in Coordinators : flight'[e].token = u => e = d
      BY <1>3 DEF CarriedOK
    <2>1. CASE u = n
      <3>1. d = c
        BY <1>7, <1>8, <2>1 DEF Carries
      <3>2. ~OnWire(n)' /\ stored # n
        BY <1>0, <1>5, <1>9, <1>10, NoneNoToken DEF TokensIssued
      <3>3. ASSUME NEW e \in Coordinators, flight'[e].token = n PROVE e = c
        BY <1>7, <1>8, <3>3
      <3> QED
        BY <1>4, <2>1, <3>1, <3>2, <3>3
    <2>2. CASE u # n
      <3>1. Carries(d, u) /\ Issued(u)
        BY <1>0, <1>8, <2>2 DEF Carries, FlightsOK
      <3>2. /\ token[u].state = "fresh" /\ ~OnWire(u) /\ stored # u
            /\ \A e \in Coordinators : flight[e].token = u => e = d
        BY <1>0, <1>6, <3>1 DEF CarriedOK
      <3>3. u # t /\ token'[u] = token[u]
        BY <1>4, <1>11, <2>2, <3>2
      <3>4. ASSUME NEW e \in Coordinators, flight'[e].token = u PROVE e = d
        BY <1>8, <2>2, <3>2, <3>4
      <3> QED
        BY <1>9, <3>2, <3>3, <3>4
    <2> QED
      BY <2>1, <2>2
  <1>16. StoredOK'
    <2> SUFFICES ASSUME NEW x \in Tokens, stored = x, ~Marked(x)'
                 PROVE  \/ /\ token'[x].state = "fresh"
                           /\ \A d \in Coordinators : <<d, x>> \in wire' => Sent(d, x)'
                        \/ \E d \in Coordinators, u \in Tokens :
                             Carries(d, u)' /\ token'[u].family = token'[x].family
      BY <1>3 DEF StoredOK
    <2>1. Issued(x)
      BY <1>0, NoneNoToken DEF TokensIssued
    <2>2. ~Marked(x) /\ x # n /\ token'[x].family = token[x].family
      BY <1>6, <2>1
    <2>3. ASSUME NEW d \in Coordinators, NEW u \in Tokens, Carries(d, u),
                 token[u].family = token[x].family
          PROVE  Carries(d, u)' /\ token'[u].family = token'[x].family
      <3>1. Issued(u)
        BY <1>0, <2>3 DEF Carries, FlightsOK
      <3>2. flight'[d] = flight[d]
        BY <1>8, <2>3 DEF Carries, Sent
      <3> QED
        BY <1>6, <2>2, <2>3, <3>1, <3>2 DEF Carries
    <2>4. CASE /\ token[x].state = "fresh"
               /\ \A d \in Coordinators : <<d, x>> \in wire => Sent(d, x)
      <3>1. CASE x = t
        <4>1. Sent(c, t)
          BY <2>4, <3>1
        <4>2. flight'[c] = reply
          BY <1>3, <4>1
        <4>3. Carries(c, n)'
          BY <1>1, <4>2 DEF Carries
        <4> QED
          BY <1>4, <3>1, <4>3
      <3>2. CASE x # t
        <4>1. ASSUME NEW d \in Coordinators, <<d, x>> \in wire' PROVE Sent(d, x)'
          <5>1. Sent(d, x)
            BY <1>3, <2>4, <4>1
          <5>2. flight'[d] = flight[d]
            BY <1>8, <3>2, <5>1 DEF Sent
          <5> QED
            BY <5>1, <5>2 DEF Sent
        <4> QED
          BY <1>4, <2>2, <2>4, <3>2, <4>1
      <3> QED
        BY <3>1, <3>2
    <2> QED
      BY <1>0, <2>2, <2>3, <2>4 DEF StoredOK
  <1>17. AnswersOK'
    <2> SUFFICES ASSUME NEW x \in answers
                 PROVE  /\ token'[x].state = "fresh" /\ ~OnWire(x)' /\ stored # x
                        /\ restore.token # x
                        /\ \A d \in Coordinators : flight'[d].token # x
      BY <1>3 DEF AnswersOK
    <2>1. /\ x \in Tokens /\ token[x].state = "fresh" /\ ~OnWire(x) /\ stored # x
          /\ restore.token # x
          /\ \A d \in Coordinators : flight[d].token # x
      BY <1>0 DEF Shapes, AnswersOK
    <2>2. x # t /\ x # n
      BY <1>4, <1>11, <2>1
    <2> QED
      BY <1>4, <1>8, <1>9, <2>1, <2>2
  <1>18. RestoreOK'
    <2>1. coord \in Coordinators
      BY <1>0 DEF Shapes
    <2>2. flight[coord].stage = "none" => flight'[coord].stage = "none"
      BY <1>8, <2>1 DEF Sent
    <2> QED
      BY <1>0, <1>3, <2>2 DEF RestoreOK
  <1>19. HonestPhoneNeverReuses'
    <2> SUFFICES ASSUME NEW x \in Tokens, token'[x].revoked PROVE Marked(x)'
      BY DEF HonestPhoneNeverReuses, Marked
    <2>1. x # n /\ token[x].revoked
      BY <1>4
    <2>2. Marked(x)
      BY <1>0, <2>1 DEF HonestPhoneNeverReuses, Marked
    <2>3. Issued(x)
      BY <1>0, <2>1 DEF Inv, TokensOK, NoToken, Issued
    <2> QED
      BY <1>6, <2>2, <2>3
  <1> QED
    BY <1>12, <1>13, <1>14, <1>15, <1>16, <1>17, <1>18, <1>19 DEF PhoneInv

(* A refresh request at the server.  A consumed token on the wire is of a  *)
(* marked family, so the reuse it looks like has its excuse.               *)
LEMMA ServerRefreshesStep ==
  ASSUME AppInv, NEW c \in Coordinators, NEW t \in Tokens, ServerRefreshes(c, t),
         FamiliesStay
  PROVE  PhoneInv'
  <1>0. Inv /\ PhoneInv /\ TokensIssued /\ WireOK /\ HonestPhoneNeverReuses
    BY DEF AppInv, PhoneInv
  <1>1. <<c, t>> \in wire
    BY DEF ServerRefreshes
  <1>2. ASSUME NEW n \in Tokens, RotateRefresh(t, n),
               Answer(c, t, [stage |-> "answered", token |-> n])
        PROVE  PhoneInv'
    BY <1>1, <1>2, RotatedStep
  <1>3. ASSUME RefreshReuse(t), Answer(c, t, [stage |-> "refused", token |-> t])
        PROVE  PhoneInv'
    <2>1. \A x \in Tokens : token'[x].state = token[x].state
                            /\ token'[x].family = token[x].family
      BY <1>0, <1>3, ReuseWrites
    <2>2. excused' = excused
      BY <1>3 DEF Answer
    <2>3. Marked(t)
      BY <1>0, <1>1, <1>3 DEF RefreshReuse, WireOK, OnWire
    <2>4. HonestPhoneNeverReuses'
      <3> SUFFICES ASSUME NEW x \in Tokens, token'[x].revoked PROVE Marked(x)'
        BY DEF HonestPhoneNeverReuses, Marked
      <3>1. Marked(x)
        <4>1. CASE token[x].family = token[t].family
          BY <2>3, <4>1 DEF Marked
        <4>2. CASE token[x].family # token[t].family
          <5>1. token'[x] = token[x]
            BY <1>0, <1>3, <4>2, ReuseWrites
          <5> QED
            BY <1>0, <5>1 DEF HonestPhoneNeverReuses, Marked
        <4> QED
          BY <4>1, <4>2
      <3> QED
        BY <2>1, <2>2, <3>1 DEF Marked
    <2> QED
      BY <1>0, <1>1, <1>3, <2>1, <2>4, RefusedStep
  <1>4. ASSUME UNCHANGED vars, Answer(c, t, [stage |-> "refused", token |-> t])
        PROVE  PhoneInv'
    <2>1. token' = token /\ excused' = excused
      BY <1>4 DEF vars, sessionVars, Answer
    <2>2. HonestPhoneNeverReuses'
      BY <1>0, <2>1, HonestStays
    <2> QED
      BY <1>0, <1>1, <1>4, <2>1, <2>2, RefusedStep
  <1> QED
    BY <1>2, <1>3, <1>4 DEF ServerRefreshes

-----------------------------------------------------------------------------
(* The theorems                                                            *)

(* A phone that was never used has no tokens.                              *)
LEMMA InitPhoneInv ==
  ASSUME AppInit
  PROVE  PhoneInv
  <1>1. /\ stored = None /\ status = "starting" /\ coord = 1 /\ born = 1
        /\ restore = [stage |-> "begin", token |-> None]
        /\ flight = [c \in Coordinators |-> NoFlight]
        /\ wire = {} /\ answers = {} /\ excused = {}
        /\ token = [t \in Tokens |-> NoToken]
    BY DEF AppInit, Init
  <1>2. NoFlight \in FlightRow /\ NoFlight.stage = "none" /\ NoFlight.token = None
    BY DEF NoFlight, FlightRow
  <1>3. coord \in Coordinators /\ born \in 1..coord
    BY <1>1, PhoneAssumption DEF Coordinators
  <1>4. restore \in RestoreRow /\ restore.stage = "begin" /\ restore.token = None
    BY <1>1 DEF RestoreRow
  <1>5. /\ flight \in [Coordinators -> FlightRow]
        /\ \A c \in Coordinators : flight[c].stage = "none" /\ flight[c].token = None
    BY <1>1, <1>2
  <1>6. Shapes
    BY <1>1, <1>3, <1>4, <1>5 DEF Shapes
  <1>7. TokensIssued
    BY <1>1, <1>4 DEF TokensIssued
  <1>8. FlightsOK /\ CarriedOK
    BY <1>5 DEF FlightsOK, CarriedOK, Carries
  <1>9. WireOK /\ StoredOK /\ AnswersOK
    BY <1>1, NoneNoToken DEF WireOK, OnWire, StoredOK, AnswersOK
  <1>10. RestoreOK
    BY <1>1, <1>3, <1>4, <1>5 DEF RestoreOK
  <1>11. HonestPhoneNeverReuses
    BY <1>1 DEF HonestPhoneNeverReuses, NoToken
  <1> QED
    BY <1>6, <1>7, <1>8, <1>9, <1>10, <1>11 DEF PhoneInv

(* Every step keeps the phone's invariant, given the server's.             *)
LEMMA StepPhoneInv ==
  ASSUME AppInv, [AppNext]_appVars
  PROVE  PhoneInv'
  <1>0. PhoneInv /\ Inv /\ TypeOK
    BY DEF AppInv, Inv
  <1>1. FamiliesStay
    BY <1>0, FamiliesKept
  <1>2. CASE ServerStep \/ UNCHANGED appVars
    BY <1>0, <1>2, ServerStepStep
  <1>3. ASSUME NEW r \in Requests, NEW s \in AuthSessions, NEW t \in Tokens,
               PhoneSignsIn(r, s, t)
        PROVE  PhoneInv'
    BY <1>1, <1>3, SignsInStep
  <1>4. ASSUME NEW c \in Running,
               RefreshSession(c) \/ CaptureAuthPayload(c) \/ CaptureFails(c)
                 \/ RefreshFails(c) \/ ClearFails(c)
        PROVE  PhoneInv'
    BY <1>0, <1>4, RefreshSessionStep, CaptureStep, KeptStep, RefreshFailsStep
  <1>5. ASSUME NEW c \in Coordinators, NEW t \in Tokens, ServerRefreshes(c, t)
        PROVE  PhoneInv'
    BY <1>1, <1>5, ServerRefreshesStep
  <1>6. ASSUME NEW t \in Tokens, SignedIn(t)
        PROVE  PhoneInv'
    BY <1>0, <1>6, SignedInStep
  <1>7. CASE RestoreRead \/ RestoreRefresh \/ Logout \/ Reconfigure \/ Restart
    BY <1>0, <1>7, RestoreReadStep, RestoreRefreshStep, LogoutStep, ReconfigureStep,
       RestartStep
  <1> QED
    BY <1>2, <1>3, <1>4, <1>5, <1>6, <1>7 DEF AppNext

(* The phone's invariant holds together with AuthStore's.                  *)
THEOREM PhoneInvHolds == AppSpec => []AppInv
  <1>1. AppInit => PhoneInv
    BY InitPhoneInv
  <1>2. PhoneInv /\ Inv /\ [AppNext]_appVars => PhoneInv'
    BY StepPhoneInv DEF AppInv
  <1>3. PhoneInv /\ Inv => AppInv
    BY DEF AppInv
  <1> QED
    BY <1>1, <1>2, <1>3, PhoneUsesAuthStore, InvHolds, PTL DEF AppSpec

(* The phone's state has its types in every behaviour.                     *)
THEOREM AppTypeCorrect == AppSpec => []AppTypeOK
  <1>1. ASSUME AppInv PROVE AppTypeOK
    <2>1. Shapes
      BY <1>1 DEF AppInv, PhoneInv
    <2> QED
      BY <2>1 DEF Shapes, FlightRow, RestoreRow, AppTypeOK
  <1> QED
    BY <1>1, PhoneInvHolds, PTL

(* With any number of restarts, saved settings, lost and late answers, the *)
(* server ends a session for reuse only in a family with a refresh that    *)
(* was cut off, or made after a setting was saved in the same process: an  *)
(* honest phone is otherwise not taken for a thief.                        *)
THEOREM PhoneIsHonest == AppSpec => []HonestPhoneNeverReuses
  <1>1. AppInv => HonestPhoneNeverReuses
    BY DEF AppInv, PhoneInv
  <1> QED
    BY <1>1, PhoneInvHolds, PTL

(* When nothing is under way, the token in secure storage can still be     *)
(* used, unless its family is one of those.                                *)
THEOREM StoredTokenWorks == AppSpec => []StoredTokenUnused
  <1>1. ASSUME AppInv PROVE StoredTokenUnused
    <2>0. Shapes /\ FlightsOK /\ StoredOK
      BY <1>1 DEF AppInv, PhoneInv
    <2> SUFFICES ASSUME stored # None, \A c \in Running : flight[c] = NoFlight,
                        token[stored].family \notin excused
                 PROVE  token[stored].state = "fresh"
      BY DEF StoredTokenUnused
    <2>1. PICK t \in Tokens : t = stored
      BY <2>0 DEF Shapes
    <2>2. ~Marked(t)
      BY <2>1 DEF Marked
    <2>3. ASSUME NEW c \in Coordinators, NEW u PROVE ~Carries(c, u)
      <3>1. flight[c].stage = "none"
        BY <2>0, FlightFacts
      <3> QED
        BY <3>1 DEF Carries
    <2> QED
      BY <2>0, <2>1, <2>2, <2>3 DEF StoredOK
  <1> QED
    BY <1>1, PhoneInvHolds, PTL
=============================================================================
