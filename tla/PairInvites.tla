----------------------------- MODULE PairInvites -----------------------------
(***************************************************************************)
(* How two accounts become a pair: the pair_invites, pairs and             *)
(* pair_members tables (CreatePairInvite, AcceptPairInvite and             *)
(* Account of server/internal/store), and the phones of some accounts,     *)
(* with the focus screen that makes a link and polls /v1/me until somebody *)
(* joined, and the pairing screen that accepts a link.                     *)
(*                                                                         *)
(* The two store calls are SERIALIZABLE transactions, hence one step each; *)
(* a transaction that loses to another is ServerFails.  A call of a phone  *)
(* is sent, then handled, then answered; the phone may give up on it at    *)
(* any point, and a request it gave up on may still reach the server.  Of  *)
(* the other accounts only what their requests do at the server is         *)
(* modelled: phones meet nowhere else.                                     *)
(*                                                                         *)
(* Abstracted: a link is its invite's id, known to everybody once the      *)
(* invite exists.  expires_at may pass at any step.  A pair is never       *)
(* dissolved: no statement writes dissolved_at.                            *)
(***************************************************************************)
EXTENDS Naturals, FiniteSets, Sequences

CONSTANTS
  Accounts,  \* active accounts
  Phones,    \* the accounts whose phone is modelled, one phone each
  Invites,   \* ids of pair_invites rows; bounds how many are made
  Pairs,     \* pair ids; bounds how many are made
  Calls,     \* places for requests under way at once
  None       \* no account, invite or pair

ASSUME InviteAssumption ==
  /\ None \notin Accounts \cup Invites \cup Pairs
  /\ IsFiniteSet(Accounts) /\ Phones \subseteq Accounts

VARIABLES
  invite,   \* invite[i]: pair_invites row i
  member,   \* pair_members: a set of <<pair, account>>
  log,      \* log[p]: the member sets the pair.created events of p name
  shown,    \* shown[a]: account.pairId on a's phone, and in its profile
  link,     \* link[a]: the focus screen's _invite
  poll,     \* poll[a]: the focus screen's _pairPoll
  call,     \* call[c]: a request under way
  late,     \* history: invites revoked by a request nobody waits for
  crossed   \* history: accounts with two /v1/me requests under way at once

server == <<invite, member, log>>
phone == <<shown, link, poll>>
vars == <<server, phone, call, late, crossed>>

NoInvite == [creator |-> None, expired |-> FALSE, acceptedBy |-> None,
             revoked |-> FALSE]
NoCall == [account |-> None, kind |-> "none", invite |-> None,
           heard |-> FALSE, stage |-> "none", answer |-> None]

TypeOK ==
  /\ invite \in [Invites ->
       [creator : Accounts \cup {None}, expired : BOOLEAN,
        acceptedBy : Accounts \cup {None}, revoked : BOOLEAN]]
  /\ member \subseteq Pairs \X Accounts
  /\ \A p \in Pairs : log[p] \in Seq(SUBSET Accounts)
  /\ shown \in [Phones -> Pairs \cup {None}]
  /\ link \in [Phones -> Invites \cup {None}]
  /\ poll \in [Phones -> {"none", "running", "cancelled"}]
  /\ call \in [Calls ->
       [account : Phones \cup {None}, invite : Invites \cup {None},
        kind : {"none", "create", "accept", "me", "poll"}, heard : BOOLEAN,
        stage : {"none", "sent", "ok", "refused"},
        answer : Invites \cup Pairs \cup {None}]]
  /\ late \subseteq Invites /\ crossed \subseteq Phones

Init ==
  /\ invite = [i \in Invites |-> NoInvite]
  /\ member = {}
  /\ log = [p \in Pairs |-> <<>>]
  /\ shown = [a \in Phones |-> None]
  /\ link = [a \in Phones |-> None]
  /\ poll = [a \in Phones |-> "none"]
  /\ call = [c \in Calls |-> NoCall]
  /\ late = {} /\ crossed = {}

Members(p) == {a \in Accounts : <<p, a>> \in member}
Paired(a) == \E p \in Pairs : <<p, a>> \in member
PairOf(a) ==
  IF Paired(a) THEN CHOOSE p \in Pairs : <<p, a>> \in member ELSE None

Open(i) ==
  invite[i].creator # None /\ invite[i].acceptedBy = None /\ ~invite[i].revoked

(* A uuid nobody has.                                                      *)
New(S, used) == CHOOSE x \in S : x \notin used
UsedInvites == {i \in Invites : invite[i].creator # None}
UsedPairs == {p \in Pairs : log[p] # <<>>}

(***************************************************************************)
(* Requests.                                                               *)
(***************************************************************************)
Under(a, kinds) == {c \in Calls : call[c].account = a /\ call[c].kind \in kinds}
Waiting(a, kinds) == {c \in Under(a, kinds) : call[c].heard}

Post(a, kind, i) ==
  \E c \in Calls :
    /\ call[c] = NoCall
    /\ c = CHOOSE d \in Calls : call[d] = NoCall
    /\ call' = [call EXCEPT ![c] =
         [account |-> a, kind |-> kind, invite |-> i, heard |-> TRUE,
          stage |-> "sent", answer |-> None]]

Reaches(c, kinds) == call[c].kind \in kinds /\ call[c].stage = "sent"

(* The server's answer, for a phone that still waits for it.               *)
Respond(c, stage, answer) ==
  call' = [call EXCEPT ![c] =
    IF @.heard THEN [@ EXCEPT !.stage = stage, !.answer = answer] ELSE NoCall]

Heard(c, kind, stage) == call[c].kind = kind /\ call[c].stage = stage
Done(c) == call' = [call EXCEPT ![c] = NoCall]

(***************************************************************************)
(* The server.                                                             *)
(***************************************************************************)
CreatePairInvite_KeepsOld(a, i) ==    \* the creator's open links stay open
  invite' = [invite EXCEPT ![i] = [NoInvite EXCEPT !.creator = a]]

CreatePairInvite_RevokesAll(a, i) ==    \* the UPDATE is not limited to a
  invite' = [k \in Invites |->
    IF k = i THEN [NoInvite EXCEPT !.creator = a]
    ELSE [invite[k] EXCEPT !.revoked = @ \/ Open(k)]]

(* The creator's open invites are revoked and a new one is inserted.       *)
CreatePairInvite(a, i) ==
  invite' = [k \in Invites |->
    IF k = i THEN [NoInvite EXCEPT !.creator = a]
    ELSE [invite[k] EXCEPT
            !.revoked = @ \/ (Open(k) /\ invite[k].creator = a)]]

NewInvite == New(Invites, UsedInvites)

ServerCreate(c) ==
  LET a == call[c].account IN
  /\ Reaches(c, {"create"})
  /\ \/ /\ Paired(a)
        /\ Respond(c, "refused", None)
        /\ UNCHANGED <<invite, late>>
     \/ /\ ~Paired(a) /\ UsedInvites # Invites
        /\ CreatePairInvite(a, NewInvite)
        /\ late' = IF call[c].heard THEN late
                   ELSE late \cup {k \in Invites : Open(k) /\ invite[k].creator = a}
        /\ Respond(c, "ok", NewInvite)
  /\ UNCHANGED <<member, log, phone, crossed>>

(* The same for an account whose phone is not modelled.                    *)
CreatedElsewhere(a) ==
  /\ ~Paired(a) /\ UsedInvites # Invites
  /\ CreatePairInvite(a, NewInvite)
  /\ UNCHANGED <<member, log, phone, call, late, crossed>>

Acceptable_CreatorUnchecked(a, i) ==    \* only the caller's pair is looked up
  /\ Open(i) /\ ~invite[i].expired
  /\ invite[i].creator # a
  /\ ~Paired(a)

Acceptable_NoRow(a, i) ==    \* ErrNoRows is not looked at
  /\ invite[i].acceptedBy = None /\ ~invite[i].revoked /\ ~invite[i].expired
  /\ invite[i].creator # a
  /\ ~Paired(a) /\ ~Paired(invite[i].creator)

(* What AcceptPairInvite asks of invite i and account a.                   *)
Acceptable(a, i) ==
  /\ Open(i) /\ ~invite[i].expired
  /\ invite[i].creator # a
  /\ ~Paired(a) /\ ~Paired(invite[i].creator)

(* The pair, its two members, the accepted invite and pair.created.        *)
AcceptPairInvite(a, i, p) ==
  LET both == {invite[i].creator, a} IN
  /\ member' = member \cup ({p} \X both)
  /\ invite' = [invite EXCEPT ![i].acceptedBy = a]
  /\ log' = [log EXCEPT ![p] = Append(@, both)]

NewPair == New(Pairs, UsedPairs)

ServerAccept(c) ==
  LET a == call[c].account
      i == call[c].invite
  IN
  /\ Reaches(c, {"accept"})
  /\ \/ /\ ~Acceptable(a, i)
        /\ Respond(c, "refused", None)
        /\ UNCHANGED server
     \/ /\ Acceptable(a, i) /\ UsedPairs # Pairs
        /\ AcceptPairInvite(a, i, NewPair)
        /\ Respond(c, "ok", NewPair)
  /\ UNCHANGED <<phone, late, crossed>>

AcceptedElsewhere(a, i) ==
  /\ Acceptable(a, i) /\ UsedPairs # Pairs
  /\ AcceptPairInvite(a, i, NewPair)
  /\ UNCHANGED <<phone, call, late, crossed>>

(* GET /v1/me: the account with its pair, if it has one.                   *)
ServerMe(c) ==
  /\ Reaches(c, {"me", "poll"})
  /\ Respond(c, "ok", PairOf(call[c].account))
  /\ UNCHANGED <<server, phone, late, crossed>>

(* A serialization failure, or any other that changes nothing.             *)
ServerFails(c) ==
  /\ call[c].stage = "sent"
  /\ Respond(c, "refused", None)
  /\ UNCHANGED <<server, phone, late, crossed>>

(* expires_at passes.                                                      *)
Expire(i) ==
  /\ Open(i) /\ ~invite[i].expired
  /\ invite' = [invite EXCEPT ![i].expired = TRUE]
  /\ UNCHANGED <<member, log, phone, call, late, crossed>>

(***************************************************************************)
(* The phone.                                                              *)
(***************************************************************************)

(* _invitePerson with no link yet; with one it only shares it again.       *)
InvitePerson(a) ==
  /\ shown[a] = None /\ link[a] = None
  /\ Waiting(a, {"create"}) = {}
  /\ Post(a, "create", None)
  /\ UNCHANGED <<server, phone, late, crossed>>

(* The link is there; the poll starts if this screen never had one.        *)
InviteReady(c) ==
  LET a == call[c].account IN
  /\ Heard(c, "create", "ok")
  /\ link' = [link EXCEPT ![a] = call[c].answer]
  /\ poll' = [poll EXCEPT ![a] = IF @ = "none" THEN "running" ELSE @]
  /\ Done(c)
  /\ UNCHANGED <<server, shown, late, crossed>>

(* _accept: the router shows the pairing screen to an unpaired account.    *)
Accept(a, i) ==
  /\ shown[a] = None
  /\ invite[i].creator # None
  /\ Waiting(a, {"accept"}) = {}
  /\ Post(a, "accept", i)
  /\ UNCHANGED <<server, phone, late, crossed>>

Crossed(a) ==
  crossed' = IF Under(a, {"me", "poll"}) = {} THEN crossed ELSE crossed \cup {a}

(* After the pair was made the phone asks for its account.                 *)
Accepted(c) ==
  /\ Heard(c, "accept", "ok")
  /\ call' = [call EXCEPT ![c] =
       [@ EXCEPT !.kind = "me", !.stage = "sent", !.answer = None]]
  /\ Crossed(call[c].account)
  /\ UNCHANGED <<server, phone, late>>

(* Every 5 seconds, whether or not the last poll was answered.             *)
CheckForPartner(a) ==
  /\ poll[a] = "running"
  /\ Post(a, "poll", None)
  /\ Crossed(a)
  /\ UNCHANGED <<server, phone, late>>

AccountRead_Forgotten(c) ==    \* the answer is not made the state
  LET a == call[c].account IN
  /\ call[c].kind \in {"me", "poll"} /\ call[c].stage = "ok"
  /\ poll' = [poll EXCEPT ![a] =
       IF call[c].kind = "poll" /\ @ = "running" /\ shown[a] # None
       THEN "cancelled" ELSE @]
  /\ Done(c)
  /\ UNCHANGED <<server, shown, link, late, crossed>>

AccountRead_StopsPoll(c) ==    \* any answer ends the poll
  LET a == call[c].account IN
  /\ call[c].kind \in {"me", "poll"} /\ call[c].stage = "ok"
  /\ shown' = [shown EXCEPT ![a] = call[c].answer]
  /\ poll' = [poll EXCEPT ![a] =
       IF call[c].kind = "poll" /\ @ = "running" THEN "cancelled" ELSE @]
  /\ Done(c)
  /\ UNCHANGED <<server, link, late, crossed>>

(* refreshAccount: the answer becomes the profile and the state, and       *)
(* ends the poll it came from once it names a pair.                        *)
AccountRead(c) ==
  LET a == call[c].account IN
  /\ call[c].kind \in {"me", "poll"} /\ call[c].stage = "ok"
  /\ shown' = [shown EXCEPT ![a] = call[c].answer]
  /\ poll' = [poll EXCEPT ![a] =
       IF call[c].kind = "poll" /\ @ = "running" /\ call[c].answer # None
       THEN "cancelled" ELSE @]
  /\ Done(c)
  /\ UNCHANGED <<server, link, late, crossed>>

(* The phone gives up on a request, or hears that it failed: an error on   *)
(* the screen, or a poll that waits for the next.                          *)
CallFails(c) ==
  /\ call[c].heard
  /\ call' = [call EXCEPT ![c] =
       IF @.stage = "sent" THEN [@ EXCEPT !.heard = FALSE] ELSE NoCall]
  /\ UNCHANGED <<server, phone, late, crossed>>

(* The focus screen is disposed of: its link and its timer go, an answer   *)
(* to its invitation is ignored, and one to its poll only read.            *)
LeaveScreen(a) ==
  /\ link[a] # None \/ poll[a] # "none" \/ Waiting(a, {"create"}) # {}
  /\ link' = [link EXCEPT ![a] = None]
  /\ poll' = [poll EXCEPT ![a] = "none"]
  /\ call' = [c \in Calls |->
       CASE c \in Waiting(a, {"create"}) ->
              IF call[c].stage = "sent" THEN [call[c] EXCEPT !.heard = FALSE]
              ELSE NoCall
         [] c \in Under(a, {"poll"}) -> [call[c] EXCEPT !.kind = "me"]
         [] OTHER -> call[c]]
  /\ UNCHANGED <<server, shown, late, crossed>>

(* The app starts again and restores the account with its pair.            *)
Restart(a) ==
  /\ shown' = [shown EXCEPT ![a] = PairOf(a)]
  /\ link' = [link EXCEPT ![a] = None]
  /\ poll' = [poll EXCEPT ![a] = "none"]
  /\ call' = [c \in Calls |->
       IF call[c].account # a THEN call[c]
       ELSE IF call[c].stage = "sent" THEN [call[c] EXCEPT !.heard = FALSE]
       ELSE NoCall]
  /\ UNCHANGED <<server, late, crossed>>

(***************************************************************************)
(* The specification.                                                      *)
(***************************************************************************)
Next ==
  \/ \E c \in Calls :
       \/ ServerCreate(c) \/ ServerAccept(c) \/ ServerMe(c) \/ ServerFails(c)
       \/ InviteReady(c) \/ Accepted(c) \/ AccountRead(c) \/ CallFails(c)
  \/ \E i \in Invites : Expire(i) \/ \E a \in Phones : Accept(a, i)
  \/ \E a \in Accounts \ Phones :
       CreatedElsewhere(a) \/ \E i \in Invites : AcceptedElsewhere(a, i)
  \/ \E a \in Phones :
       \/ InvitePerson(a) \/ CheckForPartner(a)
       \/ LeaveScreen(a) \/ Restart(a)

(* A request ends, one way or the other; the timer of a poll ticks; and    *)
(* the network does not fail every poll of an account for ever.            *)
Fairness ==
  /\ \A c \in Calls : WF_vars(CallFails(c)) /\ WF_vars(ServerFails(c))
  /\ \A a \in Phones :
       /\ SF_vars(CheckForPartner(a))
       /\ SF_vars(\E c \in Waiting(a, {"poll"}) : ServerMe(c))
       /\ SF_vars(\E c \in Waiting(a, {"poll"}) : AccountRead(c))

Spec == Init /\ [][Next]_vars
FairSpec == Spec /\ Fairness

(***************************************************************************)
(* Properties.                                                             *)
(***************************************************************************)

(* AcceptPairInvite, whoever accepts whichever links in whatever order:    *)
(* an account is in at most one pair, a pair has two members, its log      *)
(* begins by naming them, and exactly one link that one of them made was   *)
(* accepted by the other.                                                  *)
OnePairEach ==
  /\ \A p, q \in Pairs : p # q => Members(p) \cap Members(q) = {}
  /\ \A p \in UsedPairs :
       /\ Cardinality(Members(p)) = 2
       /\ log[p] = <<Members(p)>>
       /\ Cardinality({i \in Invites :
            {invite[i].creator, invite[i].acceptedBy} = Members(p)}) = 1

(* CreatePairInvite: of the links somebody made at most one can still be   *)
(* accepted.                                                               *)
OneOpenInvite ==
  \A i, k \in Invites :
    Open(i) /\ Open(k) /\ invite[i].creator = invite[k].creator => i = k

(* The link on the focus screen was not revoked behind the screen's back,  *)
(* by anybody's request but one of its own account that the phone had      *)
(* given up on and that reached the server late.                           *)
LinkWorks ==
  \A a \in Phones :
    link[a] # None /\ invite[link[a]].revoked => link[a] \in late

(* _checkForPartner: the poll stops only with the pair on the screen,      *)
(* unless two reads of the account were under way at once and the older    *)
(* answer came last.                                                       *)
PollStopsInformed ==
  \A a \in Phones :
    poll[a] = "cancelled" => a \in crossed \/ (Paired(a) /\ shown[a] = PairOf(a))

(* _checkForPartner: somebody whose link was accepted sees the pair while  *)
(* the focus screen is open, although polls fail.                          *)
PartnerNoticed ==
  \A a \in Phones :
    (poll[a] = "running" /\ Paired(a))
      ~> (shown[a] = PairOf(a) \/ poll[a] = "none")
=============================================================================
