-------------------------- MODULE PairInvitesProofs --------------------------
(***************************************************************************)
(* Proofs about PairInvites, for any number of accounts, phones, links,    *)
(* pairs and requests under way.                                           *)
(*                                                                         *)
(* What a phone shows was true at the server when its request was handled; *)
(* whether it still is when the answer is read depends on the requests     *)
(* that are under way at the same time.  The invariant says how many of    *)
(* each kind there can be, and what the answers under way say.             *)
(***************************************************************************)
EXTENDS PairInvites, FiniteSetTheorems, TLAPS

-----------------------------------------------------------------------------
(* The inductive invariant                                                 *)

InviteRow ==
  [creator : Accounts \cup {None}, expired : BOOLEAN,
   acceptedBy : Accounts \cup {None}, revoked : BOOLEAN]
CallRow ==
  [account : Phones \cup {None}, invite : Invites \cup {None},
   kind : {"none", "create", "accept", "me", "poll"}, heard : BOOLEAN,
   stage : {"none", "sent", "ok", "refused"},
   answer : Invites \cup Pairs \cup {None}]

(* A request for the account, and one for a link whose answer is awaited.  *)
Reading(r) == r.kind \in {"me", "poll"}
Asking(r) == r.kind = "create" /\ r.heard

(* A request is some phone's, an answer is for a phone that waits for it,  *)
(* and names what was asked for.                                           *)
RowShape(r) ==
  /\ r \in CallRow
  /\ r.kind # "none" => r.account \in Phones
  /\ r.kind = "accept" => r.invite \in Invites
  /\ r.stage \in {"ok", "refused"} => r.heard
  /\ r.kind = "create" /\ r.stage = "ok" => r.answer \in Invites
  /\ Reading(r) /\ r.stage = "ok" => r.answer \in Pairs \cup {None}

CallsOK == call \in [Calls -> CallRow] /\ \A c \in Calls : RowShape(call[c])

(* A link of account a that was revoked, if at all, behind its back.       *)
MyLink(a, i) == invite[i].creator = a /\ (invite[i].revoked => i \in late)

(* What the answers under way say is true still, or there was no pair yet. *)
CreateOK(r) == r.kind = "create" /\ r.stage = "ok" => MyLink(r.account, r.answer)
ReadOK(r) ==
  Reading(r) /\ r.stage = "ok" /\ r.answer # None =>
    Paired(r.account) /\ r.answer = PairOf(r.account)
AnswersOK == \A c \in Calls : CreateOK(call[c]) /\ ReadOK(call[c])

(* A phone awaits one link at a time, and reads its account once at a time *)
(* unless the reads crossed.                                               *)
OneCreate ==
  \A c, d \in Calls :
    Asking(call[c]) /\ Asking(call[d]) /\ call[c].account = call[d].account => c = d
OneRead ==
  \A c, d \in Calls :
    /\ Reading(call[c]) /\ Reading(call[d])
    /\ call[c].account = call[d].account /\ call[c].account \notin crossed
    => c = d

(* A phone that shows a link awaits none.                                  *)
LinkOK(a) ==
  link[a] # None =>
    MyLink(a, link[a]) /\ \A c \in Calls : Asking(call[c]) => call[c].account # a
LinksOK == \A a \in Phones : LinkOK(a)

(* After the poll stopped no answer under way could take the pair away.    *)
Informed(a) ==
  /\ Paired(a) /\ shown[a] = PairOf(a)
  /\ \A c \in Calls :
       Reading(call[c]) /\ call[c].account = a /\ call[c].stage = "ok" =>
         call[c].answer = PairOf(a)
PollsOK == \A a \in Phones : poll[a] = "cancelled" /\ a \notin crossed => Informed(a)

(* Each pair was made by one accepted link, and each such link by two      *)
(* accounts that are in no other pair.                                     *)
Taken(i) == invite[i].acceptedBy # None
Both(i) == {invite[i].creator, invite[i].acceptedBy}

PairsOK ==
  /\ log \in [Pairs -> Seq(SUBSET Accounts)]
  /\ \A p \in Pairs : log[p] = <<>> => Members(p) = {}
  /\ \A p \in Pairs : log[p] # <<>> =>
       /\ log[p] = <<Members(p)>>
       /\ \E i \in Invites : Taken(i) /\ Members(p) = Both(i)
  /\ \A p, q \in Pairs : p # q => Members(p) \cap Members(q) = {}

TakenOK ==
  /\ \A i \in Invites : Taken(i) =>
       /\ invite[i].creator \in Accounts /\ invite[i].creator # invite[i].acceptedBy
       /\ Paired(invite[i].creator) /\ Paired(invite[i].acceptedBy)
  /\ \A i, k \in Invites : Taken(i) /\ Taken(k) /\ i # k => Both(i) \cap Both(k) = {}

ServerOK == PairsOK /\ TakenOK /\ OneOpenInvite
PhonesOK ==
  CallsOK /\ AnswersOK /\ OneCreate /\ OneRead /\ LinksOK /\ PollsOK

Inv == TypeOK /\ ServerOK /\ PhonesOK

(* TypeOK in the names above.                                              *)
LEMMA TypeMeaning ==
  /\ TypeOK => /\ invite \in [Invites -> InviteRow] /\ member \subseteq Pairs \X Accounts
               /\ shown \in [Phones -> Pairs \cup {None}]
               /\ link \in [Phones -> Invites \cup {None}]
               /\ poll \in [Phones -> {"none", "running", "cancelled"}]
               /\ late \subseteq Invites /\ crossed \subseteq Phones
  /\ /\ invite' \in [Invites -> InviteRow] /\ member' \subseteq Pairs \X Accounts
     /\ PairsOK' /\ CallsOK'
     /\ shown' \in [Phones -> Pairs \cup {None}]
     /\ link' \in [Phones -> Invites \cup {None}]
     /\ poll' \in [Phones -> {"none", "running", "cancelled"}]
     /\ late' \subseteq Invites /\ crossed' \subseteq Phones
     => TypeOK'
  <1>1. PairsOK' => \A p \in Pairs : log'[p] \in Seq(SUBSET Accounts)
    BY DEF PairsOK
  <1> QED
    BY <1>1 DEF TypeOK, InviteRow, CallRow, CallsOK

-----------------------------------------------------------------------------
(* Pairs                                                                   *)

(* The pair of an account, when it has one.                                *)
LEMMA PairOfIs ==
  ASSUME PairsOK, TypeOK, NEW a \in Accounts
  PROVE  /\ Paired(a) => PairOf(a) \in Pairs /\ <<PairOf(a), a>> \in member
         /\ ~Paired(a) => PairOf(a) = None
         /\ \A p \in Pairs : <<p, a>> \in member => PairOf(a) = p
  <1>1. Paired(a) => PairOf(a) \in Pairs /\ <<PairOf(a), a>> \in member
    BY DEF Paired, PairOf
  <1>2. ASSUME NEW p \in Pairs, <<p, a>> \in member
        PROVE  PairOf(a) = p
    <2>1. Paired(a)
      BY <1>2 DEF Paired
    <2>2. a \in Members(p) /\ a \in Members(PairOf(a))
      BY <1>1, <1>2, <2>1 DEF Members
    <2> QED
      BY <1>1, <2>1, <2>2 DEF PairsOK
  <1> QED
    BY <1>1, <1>2 DEF PairOf

(* A uuid nobody has.                                                      *)
LEMMA NewIsNew ==
  ASSUME NEW S, NEW used, used \subseteq S, used # S
  PROVE  New(S, used) \in S /\ New(S, used) \notin used
  <1>1. \E x \in S : x \notin used
    OBVIOUS
  <1> QED
    BY <1>1 DEF New

(* A set of two has two elements, a set of one one.                        *)
LEMMA TwoElements ==
  ASSUME NEW x, NEW y, x # y
  PROVE  Cardinality({x, y}) = 2 /\ Cardinality({x}) = 1
  <1>1. IsFiniteSet({x}) /\ Cardinality({x}) = 1
    BY FS_Singleton
  <1>2. Cardinality({x} \cup {y}) = Cardinality({x}) + 1
    BY <1>1, FS_AddElement
  <1>3. {x} \cup {y} = {x, y}
    OBVIOUS
  <1> QED
    BY <1>1, <1>2, <1>3

(* What the invariant says of pairs is OnePairEach.                        *)
LEMMA PairsMeaning ==
  ASSUME PairsOK, TakenOK, TypeOK
  PROVE  OnePairEach
  <1>1. \A p, q \in Pairs : p # q => Members(p) \cap Members(q) = {}
    BY DEF PairsOK
  <1>2. ASSUME NEW p \in UsedPairs
        PROVE  /\ Cardinality(Members(p)) = 2 /\ log[p] = <<Members(p)>>
               /\ Cardinality({i \in Invites :
                    {invite[i].creator, invite[i].acceptedBy} = Members(p)}) = 1
    <2>1. p \in Pairs /\ log[p] # <<>>
      BY DEF UsedPairs
    <2>2. log[p] = <<Members(p)>>
      BY <2>1 DEF PairsOK
    <2>3. PICK i \in Invites : Taken(i) /\ Members(p) = Both(i)
      BY <2>1 DEF PairsOK
    <2>4. invite[i].creator # invite[i].acceptedBy
      BY <2>3 DEF TakenOK
    <2>5. Cardinality(Members(p)) = 2
      <3>1. PICK x, y : x = invite[i].creator /\ y = invite[i].acceptedBy
        OBVIOUS
      <3>2. Cardinality({x, y}) = 2
        BY <2>4, <3>1, TwoElements
      <3>3. Members(p) = {x, y}
        BY <2>3, <3>1 DEF Both
      <3> QED
        BY <3>2, <3>3
    <2>6. ASSUME NEW k \in Invites, Both(k) = Members(p)
          PROVE  k = i
      <3>1. invite[k].acceptedBy \in Accounts
        BY <2>6 DEF Both, Members
      <3>2. Taken(k)
        BY <3>1, InviteAssumption DEF Taken
      <3>3. Both(i) \cap Both(k) # {}
        BY <2>3, <2>6 DEF Both
      <3> QED
        BY <2>3, <3>2, <3>3 DEF TakenOK
    <2>7. {k \in Invites :
            {invite[k].creator, invite[k].acceptedBy} = Members(p)} = {i}
      BY <2>3, <2>6 DEF Both
    <2>8. Cardinality({i}) = 1
      BY FS_Singleton
    <2> QED
      BY <2>2, <2>5, <2>7, <2>8
  <1> QED
    BY <1>1, <1>2 DEF OnePairEach

-----------------------------------------------------------------------------
(* Requests under way                                                      *)

(* What a step that starts no request does to one: nobody begins to await  *)
(* a link or to read the account by it, and an answer in it was there      *)
(* before, or is true now.                                                 *)
LinkTrue(c) == MyLink(call[c].account, call[c].answer)
ReadTrue(c) == call[c].answer = PairOf(call[c].account)
LinkGiven(r) == r.kind = "create" /\ r.stage = "ok"
ReadGiven(r) == Reading(r) /\ r.stage = "ok"

CallKept(c) ==
  /\ RowShape(call[c])'
  /\ Asking(call[c])' => Asking(call[c]) /\ call'[c].account = call[c].account
  /\ Reading(call[c])' => Reading(call[c]) /\ call'[c].account = call[c].account
  /\ LinkGiven(call[c])' =>
       \/ /\ LinkGiven(call[c]) /\ call'[c].account = call[c].account
          /\ call'[c].answer = call[c].answer
       \/ LinkTrue(c)'
  /\ ReadGiven(call[c])' =>
       \/ ReadGiven(call[c]) /\ call'[c].answer = call[c].answer
       \/ ReadTrue(c)'

CallsKept == call' \in [Calls -> CallRow] /\ \A c \in Calls : CallKept(c)

(* A place with no request.                                                *)
LEMMA EmptyRow ==
  /\ RowShape(NoCall) /\ ~Asking(NoCall) /\ ~Reading(NoCall)
  /\ ~LinkGiven(NoCall) /\ ~ReadGiven(NoCall) /\ NoCall \in CallRow
  BY DEF NoCall, RowShape, CallRow, Asking, Reading, LinkGiven, ReadGiven

(* A request that is left alone, and one that ends.                        *)
LEMMA RowKept ==
  ASSUME CallsOK, NEW c \in Calls, call'[c] = call[c] \/ call'[c] = NoCall
  PROVE  CallKept(c)
  <1>1. CASE call'[c] = call[c]
    <2>1. RowShape(call[c])
      BY DEF CallsOK
    <2> QED
      BY <1>1, <2>1 DEF CallKept
  <1>2. CASE call'[c] = NoCall
    BY <1>2, EmptyRow DEF CallKept
  <1> QED
    BY <1>1, <1>2

(* One nobody waits for any more, and a poll that outlives its screen.     *)
LEMMA RowDropped ==
  ASSUME CallsOK, NEW c \in Calls,
         \/ /\ call[c].stage = "sent"
            /\ call'[c] = [call[c] EXCEPT !.heard = FALSE]
         \/ /\ call[c].kind = "poll"
            /\ call'[c] = [call[c] EXCEPT !.kind = "me"]
  PROVE  CallKept(c)
  <1>0. RowShape(call[c]) /\ call[c] \in CallRow
    BY DEF CallsOK, RowShape
  <1>1. PICK r, new : r = call[c] /\ new = call'[c]
    OBVIOUS
  <1>2. RowShape(r) /\ r \in CallRow
    BY <1>0, <1>1
  <1>3. CASE r.stage = "sent" /\ new = [r EXCEPT !.heard = FALSE]
    <2>1. /\ new \in CallRow /\ new.account = r.account /\ new.kind = r.kind
          /\ new.invite = r.invite /\ new.stage = "sent" /\ new.heard = FALSE
      BY <1>2, <1>3 DEF CallRow
    <2>2. RowShape(new)
      BY <1>2, <2>1 DEF RowShape, Reading
    <2>3. /\ ~Asking(new) /\ ~LinkGiven(new) /\ ~ReadGiven(new)
          /\ Reading(new) => Reading(r)
      BY <2>1 DEF Asking, Reading, LinkGiven, ReadGiven
    <2> QED
      BY <1>1, <2>1, <2>2, <2>3 DEF CallKept
  <1>4. CASE r.kind = "poll" /\ new = [r EXCEPT !.kind = "me"]
    <2>1. /\ new \in CallRow /\ new.account = r.account /\ new.kind = "me"
          /\ new.invite = r.invite /\ new.stage = r.stage /\ new.heard = r.heard
          /\ new.answer = r.answer
      BY <1>2, <1>4 DEF CallRow
    <2>2. RowShape(new)
      BY <1>2, <1>4, <2>1 DEF RowShape, Reading
    <2>3. /\ ~Asking(new) /\ ~LinkGiven(new)
          /\ Reading(r) /\ (ReadGiven(new) => ReadGiven(r))
      BY <1>4, <2>1 DEF Asking, Reading, LinkGiven, ReadGiven
    <2> QED
      BY <1>1, <2>1, <2>2, <2>3 DEF CallKept
  <1> QED
    BY <1>1, <1>3, <1>4

(* The request that is answered, with a true answer or a refusal.          *)
LEMMA Responded ==
  ASSUME CallsOK, NEW c \in Calls, NEW a, a = call[c].account,
         NEW stage \in {"ok", "refused"}, NEW answer \in Invites \cup Pairs \cup {None},
         call[c].stage = "sent", Respond(c, stage, answer),
         call[c].kind = "create" /\ stage = "ok" => answer \in Invites /\ MyLink(a, answer)',
         Reading(call[c]) /\ stage = "ok" =>
           answer \in Pairs \cup {None} /\ answer = PairOf(a)'
  PROVE  CallsKept
  <1>0. call \in [Calls -> CallRow] /\ call[c] \in CallRow /\ RowShape(call[c])
    BY DEF CallsOK
  <1>1. PICK r, new : r = call[c] /\ new = call'[c]
    OBVIOUS
  <1>2. /\ call' = [call EXCEPT ![c] =
             IF r.heard THEN [r EXCEPT !.stage = stage, !.answer = answer] ELSE NoCall]
    BY <1>1 DEF Respond
  <1>3. /\ new = IF r.heard THEN [r EXCEPT !.stage = stage, !.answer = answer] ELSE NoCall
        /\ \A d \in Calls : d # c => call'[d] = call[d]
    BY <1>0, <1>1, <1>2
  <1>4. CASE ~r.heard
    <2>1. new = NoCall
      BY <1>3, <1>4
    <2>2. \A d \in Calls : CallKept(d)
      BY <1>1, <1>3, <2>1, RowKept
    <2> QED
      BY <1>0, <1>2, <1>4, <2>2, EmptyRow DEF CallsKept
  <1>5. CASE r.heard
    <2>1. new = [r EXCEPT !.stage = stage, !.answer = answer]
      BY <1>3, <1>5
    <2>2. /\ new \in CallRow /\ new.account = r.account /\ new.kind = r.kind
          /\ new.invite = r.invite /\ new.stage = stage /\ new.heard = r.heard
          /\ new.answer = answer
      BY <1>0, <1>1, <2>1 DEF CallRow
    <2>3. RowShape(new)
      BY <1>0, <1>1, <1>5, <2>2 DEF RowShape, Reading
    <2>4. (Asking(new) => Asking(r)) /\ (Reading(new) => Reading(r))
      BY <2>2 DEF Asking, Reading
    <2>5. LinkGiven(new) => LinkTrue(c)'
      BY <1>1, <2>2 DEF LinkGiven, LinkTrue
    <2>6. ReadGiven(new) => ReadTrue(c)'
      BY <1>1, <2>2, <2>4 DEF ReadGiven, ReadTrue
    <2>7. CallKept(c)
      BY <1>1, <2>2, <2>3, <2>4, <2>5, <2>6 DEF CallKept
    <2>8. \A d \in Calls : CallKept(d)
      BY <1>3, <2>7, RowKept
    <2>9. call' \in [Calls -> CallRow]
      BY <1>0, <1>2, <1>5, <2>1, <2>2
    <2> QED
      BY <2>8, <2>9 DEF CallsKept
  <1> QED
    BY <1>4, <1>5

(* The server never takes back what it told a phone: pairs stay, and the   *)
(* links a phone shows or is told of are revoked only behind its back.     *)
Told(a, i) ==
  link[a] = i \/ \E c \in Calls : LinkGiven(call[c]) /\ call[c].account = a
                                   /\ call[c].answer = i

PairsStay == \A a \in Accounts : Paired(a) => Paired(a)' /\ PairOf(a)' = PairOf(a)
LinksStay ==
  \A a \in Phones, i \in Invites : Told(a, i) /\ MyLink(a, i) => MyLink(a, i)'

(* What carries over with the requests under way.                          *)
LEMMA CallsCarry ==
  ASSUME Inv, CallsKept, PairsStay, LinksStay, crossed \subseteq crossed'
  PROVE  /\ CallsOK' /\ AnswersOK' /\ OneCreate' /\ OneRead'
         /\ \A a \in Phones : link'[a] = link[a] \/ link'[a] = None => LinkOK(a)'
         /\ \A a \in Phones :
              poll[a] = "cancelled" /\ a \notin crossed' /\ shown'[a] = shown[a] =>
                Informed(a)'
  <1>0. /\ CallsOK /\ AnswersOK /\ OneCreate /\ OneRead /\ LinksOK /\ PollsOK
        /\ link \in [Phones -> Invites \cup {None}]
        /\ call' \in [Calls -> CallRow] /\ \A c \in Calls : CallKept(c)
        /\ \A c \in Calls : RowShape(call[c])
    BY TypeMeaning DEF Inv, PhonesOK, CallsKept, CallsOK
  <1>1. CallsOK'
    BY <1>0 DEF CallsOK, CallKept
  <1>2. ASSUME NEW c \in Calls
        PROVE  CreateOK(call[c])'
    <2>1. CASE LinkTrue(c)'
      BY <2>1 DEF LinkTrue, CreateOK
    <2>2. CASE ~LinkTrue(c)'
      <3>1. SUFFICES ASSUME LinkGiven(call[c])' PROVE FALSE
        BY DEF CreateOK, LinkGiven
      <3>2. /\ LinkGiven(call[c]) /\ call'[c].account = call[c].account
            /\ call'[c].answer = call[c].answer
        BY <1>0, <2>2, <3>1 DEF CallKept
      <3>3. PICK a, i : a = call[c].account /\ i = call[c].answer
        OBVIOUS
      <3>4. a \in Phones /\ i \in Invites /\ MyLink(a, i) /\ Told(a, i)
        BY <1>0, <3>2, <3>3
           DEF LinkGiven, RowShape, AnswersOK, CreateOK, Told
      <3>5. MyLink(a, i)'
        BY <3>4 DEF LinksStay
      <3> QED
        BY <2>2, <3>2, <3>3, <3>5 DEF LinkTrue
    <2> QED
      BY <2>1, <2>2
  <1>3. ASSUME NEW c \in Calls
        PROVE  ReadOK(call[c])'
    <2> SUFFICES ASSUME ReadGiven(call[c])', call'[c].answer # None
                 PROVE  Paired(call[c].account)' /\ ReadTrue(c)'
      BY DEF ReadOK, ReadGiven, ReadTrue
    <2>1. PICK a : a = call'[c].account
      OBVIOUS
    <2>2. Reading(call[c]) /\ a = call[c].account
      BY <1>0, <2>1 DEF CallKept, ReadGiven
    <2>3. a \in Phones /\ a \in Accounts
      BY <1>0, <2>2, InviteAssumption DEF RowShape, Reading
    <2>4. CASE ReadTrue(c)'
      <3>1. call'[c].answer = PairOf(a)'
        BY <2>1, <2>4 DEF ReadTrue
      <3>2. PairOf(a)' # None => Paired(a)'
        BY DEF PairOf
      <3> QED
        BY <2>1, <2>4, <3>1, <3>2
    <2>5. CASE ReadGiven(call[c]) /\ call'[c].answer = call[c].answer
      <3>1. Paired(a) /\ call[c].answer = PairOf(a)
        BY <1>0, <2>2, <2>5 DEF AnswersOK, ReadOK, ReadGiven
      <3>2. Paired(a)' /\ PairOf(a)' = PairOf(a)
        BY <2>3, <3>1 DEF PairsStay
      <3> QED
        BY <2>1, <2>5, <3>1, <3>2 DEF ReadTrue
    <2> QED
      BY <1>0, <2>4, <2>5 DEF CallKept
  <1>4. OneCreate'
    BY <1>0 DEF OneCreate, CallKept
  <1>5. OneRead'
    BY <1>0 DEF OneRead, CallKept
  <1>6. ASSUME NEW a \in Phones, link'[a] = link[a] \/ link'[a] = None
        PROVE  LinkOK(a)'
    <2> SUFFICES ASSUME link'[a] # None
                 PROVE  /\ MyLink(a, link[a])'
                        /\ \A c \in Calls : Asking(call[c])' => call'[c].account # a
      BY DEF LinkOK
    <2>1. PICK i \in Invites : i = link[a] /\ i = link'[a]
      BY <1>0, <1>6
    <2>2. MyLink(a, i) /\ Told(a, i) /\ LinkOK(a) /\ link[a] # None
      BY <1>0, <1>6, <2>1 DEF LinksOK, LinkOK, Told
    <2>3. MyLink(a, i)'
      BY <2>2 DEF LinksStay
    <2>4. \A c \in Calls : Asking(call[c])' => call'[c].account # a
      BY <1>0, <2>2 DEF LinkOK, CallKept
    <2>5. MyLink(a, link[a])'
      BY <2>1, <2>3 DEF MyLink
    <2> QED
      BY <2>4, <2>5
  <1>7. ASSUME NEW a \in Phones, poll[a] = "cancelled", a \notin crossed',
               shown'[a] = shown[a]
        PROVE  Informed(a)'
    <2>1. Informed(a) /\ a \in Accounts
      BY <1>0, <1>7, InviteAssumption DEF PollsOK
    <2>2. Paired(a)' /\ PairOf(a)' = PairOf(a)
      BY <2>1 DEF PairsStay, Informed
    <2>3. ASSUME NEW c \in Calls, ReadGiven(call[c])', call'[c].account = a
          PROVE  call'[c].answer = PairOf(a)'
      <3>1. Reading(call[c]) /\ call[c].account = a
        BY <1>0, <2>3 DEF CallKept, ReadGiven
      <3>2. CASE ReadTrue(c)'
        BY <2>3, <3>2 DEF ReadTrue
      <3>3. CASE ReadGiven(call[c]) /\ call'[c].answer = call[c].answer
        BY <2>1, <2>2, <3>1, <3>3 DEF Informed, ReadGiven
      <3> QED
        BY <1>0, <2>3, <3>2, <3>3 DEF CallKept
    <2> QED
      BY <1>7, <2>1, <2>2, <2>3 DEF Informed, ReadGiven
  <1> QED
    BY <1>1, <1>2, <1>3, <1>4, <1>5, <1>6, <1>7 DEF AnswersOK

-----------------------------------------------------------------------------
(* The steps, action by action                                             *)

(* The parts of the invariant a step starts from.                          *)
LEMMA Parts ==
  ASSUME Inv
  PROVE  /\ invite \in [Invites -> InviteRow] /\ member \subseteq Pairs \X Accounts
         /\ shown \in [Phones -> Pairs \cup {None}]
         /\ link \in [Phones -> Invites \cup {None}]
         /\ poll \in [Phones -> {"none", "running", "cancelled"}]
         /\ late \subseteq Invites /\ crossed \subseteq Phones
         /\ TypeOK /\ ServerOK /\ PairsOK /\ TakenOK /\ OneOpenInvite
         /\ CallsOK /\ call \in [Calls -> CallRow]
         /\ \A c \in Calls : RowShape(call[c]) /\ call[c] \in CallRow
  BY TypeMeaning DEF Inv, ServerOK, PhonesOK, CallsOK

(* A step that starts no request and shows nothing new.                    *)
LEMMA QuietStep ==
  ASSUME Inv, CallsKept, PairsStay, LinksStay, ServerOK', UNCHANGED crossed,
         invite' \in [Invites -> InviteRow], member' \subseteq Pairs \X Accounts,
         late' \subseteq Invites,
         shown' \in [Phones -> Pairs \cup {None}],
         link' \in [Phones -> Invites \cup {None}],
         poll' \in [Phones -> {"none", "running", "cancelled"}],
         \A a \in Phones :
           /\ link'[a] = link[a] \/ link'[a] = None
           /\ poll'[a] = "cancelled" => poll[a] = "cancelled" /\ shown'[a] = shown[a]
  PROVE  Inv'
  <1>1. /\ CallsOK' /\ AnswersOK' /\ OneCreate' /\ OneRead'
        /\ \A a \in Phones : link'[a] = link[a] \/ link'[a] = None => LinkOK(a)'
        /\ \A a \in Phones :
             poll[a] = "cancelled" /\ a \notin crossed' /\ shown'[a] = shown[a] =>
               Informed(a)'
    BY CallsCarry
  <1>2. LinksOK'
    BY <1>1 DEF LinksOK
  <1>3. PollsOK'
    BY <1>1 DEF PollsOK
  <1>4. PhonesOK'
    BY <1>1, <1>2, <1>3 DEF PhonesOK
  <1>5. TypeOK'
    BY <1>1, Parts, TypeMeaning DEF ServerOK
  <1> QED
    BY <1>4, <1>5 DEF Inv

(* A step that leaves the server alone.                                    *)
LEMMA ServerSame ==
  ASSUME Inv, UNCHANGED <<server, late>>
  PROVE  /\ UNCHANGED <<invite, member, log, late>> /\ ServerOK' /\ PairsStay /\ LinksStay
         /\ invite' \in [Invites -> InviteRow] /\ member' \subseteq Pairs \X Accounts
         /\ late' \subseteq Invites
         /\ \A a : Paired(a)' = Paired(a) /\ PairOf(a)' = PairOf(a)
  <1>1. UNCHANGED <<invite, member, log, late>>
    BY DEF server
  <1>2. \A a : Paired(a)' = Paired(a) /\ PairOf(a)' = PairOf(a)
    BY <1>1 DEF Paired, PairOf
  <1>3. PairsOK' /\ TakenOK'
    <2>1. /\ \A p : Members(p)' = Members(p)
          /\ \A i : Taken(i)' = Taken(i) /\ Both(i)' = Both(i)
      BY <1>1 DEF Members, Taken, Both
    <2>2. PairsOK'
      BY <1>1, <2>1, Parts DEF PairsOK
    <2>3. TakenOK'
      BY <1>1, <1>2, <2>1, Parts DEF TakenOK
    <2> QED
      BY <2>2, <2>3
  <1>4. OneOpenInvite'
    BY <1>1, Parts DEF OneOpenInvite, Open
  <1>5. PairsStay /\ LinksStay
    BY <1>1, <1>2 DEF PairsStay, LinksStay, MyLink
  <1> QED
    BY <1>1, <1>2, <1>3, <1>4, <1>5, Parts DEF ServerOK

(* An answer that changes nothing at the server.                           *)
LEMMA AnswerStep ==
  ASSUME Inv, NEW c \in Calls, UNCHANGED <<server, phone, late, crossed>>,
         call[c].stage = "sent",
         \/ Respond(c, "refused", None)
         \/ /\ call[c].kind \in {"me", "poll"}
            /\ Respond(c, "ok", PairOf(call[c].account))
  PROVE  Inv'
  <1>0. UNCHANGED <<shown, link, poll, crossed>> /\ UNCHANGED <<server, late>>
    BY DEF phone
  <1>1. PICK a : a = call[c].account
    OBVIOUS
  <1>2. CallsKept
    <2>1. CASE Respond(c, "refused", None)
      BY <1>1, <2>1, Parts, Responded
    <2>2. CASE call[c].kind \in {"me", "poll"} /\ Respond(c, "ok", PairOf(call[c].account))
      <3>1. PICK p : p = PairOf(a)
        OBVIOUS
      <3>2. a \in Phones /\ a \in Accounts
        BY <1>1, <2>2, Parts, InviteAssumption DEF RowShape
      <3>3. p \in Pairs \cup {None}
        BY <3>1, <3>2, Parts, PairOfIs
      <3>4. p = PairOf(a)'
        BY <1>0, <3>1, ServerSame
      <3>5. Respond(c, "ok", p) /\ Reading(call[c]) /\ call[c].kind # "create"
        BY <1>1, <2>2, <3>1 DEF Reading
      <3> QED
        BY <1>1, <3>3, <3>4, <3>5, Parts, Responded
    <2> QED
      BY <2>1, <2>2
  <1> QED
    BY <1>0, <1>2, Parts, ServerSame, QuietStep

(* The phone gives up, or hears of a failure.                              *)
LEMMA CallFailsStep ==
  ASSUME Inv, NEW c \in Calls, CallFails(c)
  PROVE  Inv'
  <1>0. UNCHANGED <<shown, link, poll, crossed>> /\ UNCHANGED <<server, late>>
    BY DEF phone, CallFails
  <1>1. PICK r, new : r = call[c] /\ new = call'[c]
    OBVIOUS
  <1>2. call' = [call EXCEPT ![c] =
          IF r.stage = "sent" THEN [r EXCEPT !.heard = FALSE] ELSE NoCall]
    BY <1>1 DEF CallFails
  <1>3. /\ new = IF r.stage = "sent" THEN [r EXCEPT !.heard = FALSE] ELSE NoCall
        /\ \A d \in Calls : d # c => call'[d] = call[d]
        /\ call' = [call EXCEPT ![c] = new]
    BY <1>1, <1>2, Parts
  <1>4. CallKept(c)
    <2>1. CASE r.stage = "sent"
      BY <1>1, <1>3, <2>1, Parts, RowDropped
    <2>2. CASE r.stage # "sent"
      BY <1>1, <1>3, <2>2, Parts, RowKept
    <2> QED
      BY <2>1, <2>2
  <1>5. \A d \in Calls : CallKept(d)
    BY <1>3, <1>4, Parts, RowKept
  <1>6. call' \in [Calls -> CallRow]
    <2>1. new \in CallRow
      BY <1>1, <1>4 DEF CallKept, RowShape
    <2> QED
      BY <1>3, <2>1, Parts
  <1>7. CallsKept
    BY <1>5, <1>6 DEF CallsKept
  <1> QED
    BY <1>0, <1>7, Parts, ServerSame, QuietStep

(* The screen goes, or the app.                                            *)
LEMMA LeavingSteps ==
  ASSUME Inv, NEW a \in Phones, LeaveScreen(a) \/ Restart(a)
  PROVE  Inv'
  <1>0. /\ UNCHANGED crossed /\ UNCHANGED <<server, late>>
        /\ link' = [link EXCEPT ![a] = None] /\ poll' = [poll EXCEPT ![a] = "none"]
        /\ shown' = shown \/ shown' = [shown EXCEPT ![a] = PairOf(a)]
    BY DEF LeaveScreen, Restart
  <1>1. a \in Accounts /\ PairOf(a) \in Pairs \cup {None}
    BY Parts, PairOfIs, InviteAssumption
  <1>2. /\ shown' \in [Phones -> Pairs \cup {None}]
        /\ link' \in [Phones -> Invites \cup {None}]
        /\ poll' \in [Phones -> {"none", "running", "cancelled"}]
        /\ \A b \in Phones :
             /\ link'[b] = link[b] \/ link'[b] = None
             /\ poll'[b] = "cancelled" => poll[b] = "cancelled" /\ shown'[b] = shown[b]
    BY <1>0, <1>1, Parts
  <1>3. ASSUME NEW d \in Calls
        PROVE  /\ \/ call'[d] = call[d] \/ call'[d] = NoCall
                  \/ /\ call[d].stage = "sent"
                     /\ call'[d] = [call[d] EXCEPT !.heard = FALSE]
                  \/ /\ call[d].kind = "poll"
                     /\ call'[d] = [call[d] EXCEPT !.kind = "me"]
    <2>1. CASE LeaveScreen(a)
      <3>1. call'[d] =
              CASE d \in Waiting(a, {"create"}) ->
                     IF call[d].stage = "sent" THEN [call[d] EXCEPT !.heard = FALSE]
                     ELSE NoCall
                [] d \in Under(a, {"poll"}) -> [call[d] EXCEPT !.kind = "me"]
                [] OTHER -> call[d]
        BY <2>1 DEF LeaveScreen
      <3>2. d \in Under(a, {"poll"}) => call[d].kind = "poll"
        BY DEF Under
      <3> QED
        BY <3>1, <3>2
    <2>2. CASE Restart(a)
      BY <2>2 DEF Restart
    <2> QED
      BY <2>1, <2>2
  <1>4. \A d \in Calls : CallKept(d)
    BY <1>3, Parts, RowKept, RowDropped
  <1>5. call' \in [Calls -> CallRow]
    <2>1. call' = [d \in Calls |-> call'[d]]
      BY DEF LeaveScreen, Restart
    <2>2. \A d \in Calls : call'[d] \in CallRow
      BY <1>4 DEF CallKept, RowShape
    <2> QED
      BY <2>1, <2>2
  <1>6. CallsKept
    BY <1>4, <1>5 DEF CallsKept
  <1> QED
    BY <1>0, <1>2, <1>6, Parts, ServerSame, QuietStep

(* Who awaits a link, and who reads the account, in the names above.       *)
LEMMA UnderMeaning ==
  ASSUME NEW a
  PROVE  /\ Waiting(a, {"create"}) = {} =>
              \A d \in Calls : Asking(call[d]) => call[d].account # a
         /\ Under(a, {"me", "poll"}) = {} =>
              \A d \in Calls : Reading(call[d]) => call[d].account # a
  BY DEF Waiting, Under, Asking, Reading

(* A request starts.                                                       *)
LEMMA StartStep ==
  ASSUME Inv, NEW c \in Calls, NEW new, NEW a, a = new.account, RowShape(new),
         new.stage = "sent", call' = [call EXCEPT ![c] = new],
         ~Asking(call[c]), ~Reading(call[c]),
         UNCHANGED <<server, phone, late>>,
         crossed \subseteq crossed', crossed' \subseteq Phones,
         Asking(new) => /\ link[a] = None
                        /\ \A d \in Calls : Asking(call[d]) => call[d].account # a,
         Reading(new) /\ a \notin crossed' =>
           \A d \in Calls : Reading(call[d]) => call[d].account # a
  PROVE  Inv'
  <1>0. /\ UNCHANGED <<shown, link, poll>> /\ UNCHANGED <<server, late>>
        /\ AnswersOK /\ OneCreate /\ OneRead /\ LinksOK /\ PollsOK
    BY DEF phone, Inv, PhonesOK
  <1>1. /\ call'[c] = new /\ call' \in [Calls -> CallRow]
        /\ \A d \in Calls : d # c => call'[d] = call[d]
    BY Parts DEF RowShape
  <1>2. CallsOK'
    BY <1>1, Parts DEF CallsOK
  <1>3. UNCHANGED <<invite, late>> /\ \A b : Paired(b)' = Paired(b) /\ PairOf(b)' = PairOf(b)
    BY <1>0, ServerSame
  <1>4. ~LinkGiven(new) /\ ~ReadGiven(new)
    BY DEF LinkGiven, ReadGiven
  <1>5. AnswersOK'
    <2> SUFFICES ASSUME NEW d \in Calls
                 PROVE  CreateOK(call[d])' /\ ReadOK(call[d])'
      BY DEF AnswersOK
    <2>1. CASE d = c
      BY <1>1, <1>4, <2>1 DEF CreateOK, ReadOK, LinkGiven, ReadGiven
    <2>2. CASE d # c
      <3>1. CreateOK(call[d]) /\ ReadOK(call[d]) /\ call'[d] = call[d]
        BY <1>0, <1>1, <2>2 DEF AnswersOK
      <3> QED
        BY <1>3, <3>1 DEF CreateOK, ReadOK, MyLink
    <2> QED
      BY <2>1, <2>2
  <1>6. OneCreate'
    BY <1>0, <1>1 DEF OneCreate
  <1>7. OneRead'
    BY <1>0, <1>1 DEF OneRead
  <1>8. LinksOK'
    <2> SUFFICES ASSUME NEW b \in Phones PROVE LinkOK(b)'
      BY DEF LinksOK
    <2>1. LinkOK(b)
      BY <1>0 DEF LinksOK
    <2>2. \A d \in Calls : link[b] # None /\ Asking(call[d])' => call'[d].account # b
      BY <1>1, <2>1 DEF LinkOK
    <2>3. link[b] # None => MyLink(b, link[b])'
      BY <1>0, <1>3, <2>1 DEF LinkOK, MyLink
    <2> QED
      BY <1>0, <2>2, <2>3 DEF LinkOK
  <1>9. PollsOK'
    <2> SUFFICES ASSUME NEW b \in Phones, poll[b] = "cancelled", b \notin crossed
                 PROVE  Informed(b)'
      BY <1>0 DEF PollsOK
    <2>1. Informed(b)
      BY <1>0 DEF PollsOK
    <2>2. \A d \in Calls : Reading(call[d])' /\ call'[d].stage = "ok" => call'[d] = call[d]
      BY <1>1
    <2> QED
      BY <1>0, <1>3, <2>1, <2>2 DEF Informed
  <1>10. PhonesOK'
    BY <1>2, <1>5, <1>6, <1>7, <1>8, <1>9 DEF PhonesOK
  <1>11. TypeOK' /\ ServerOK'
    BY <1>0, <1>2, Parts, ServerSame, TypeMeaning DEF ServerOK
  <1> QED
    BY <1>10, <1>11 DEF Inv

(* The row of a request that is sent.                                      *)
LEMMA SentRow ==
  ASSUME NEW a \in Phones, NEW kind \in {"create", "accept", "poll"},
         NEW i \in Invites \cup {None}, kind = "accept" => i \in Invites, NEW new,
         new = [account |-> a, kind |-> kind, invite |-> i, heard |-> TRUE,
                stage |-> "sent", answer |-> None]
  PROVE  /\ RowShape(new) /\ new.account = a /\ new.stage = "sent"
         /\ Asking(new) <=> kind = "create"
         /\ Reading(new) <=> kind = "poll"
  <1>1. /\ new.account = a /\ new.kind = kind /\ new.invite = i /\ new.heard = TRUE
        /\ new.stage = "sent" /\ new.answer = None
    OBVIOUS
  <1>2. new \in CallRow
    BY DEF CallRow
  <1> QED
    BY <1>1, <1>2 DEF RowShape, Asking, Reading

(* The place Post takes is empty.                                          *)
LEMMA PostPlace ==
  ASSUME NEW a, NEW kind, NEW i, Post(a, kind, i), NEW new,
         new = [account |-> a, kind |-> kind, invite |-> i, heard |-> TRUE,
                stage |-> "sent", answer |-> None]
  PROVE  \E c \in Calls : call[c] = NoCall /\ call' = [call EXCEPT ![c] = new]
  BY DEF Post

(* A phone asks for a link, accepts one, or polls.                         *)
LEMMA PostSteps ==
  ASSUME Inv, NEW a \in Phones,
         InvitePerson(a) \/ CheckForPartner(a) \/ \E i \in Invites : Accept(a, i)
  PROVE  Inv'
  <1>1. CASE InvitePerson(a)
    <2>0. PICK new : new = [account |-> a, kind |-> "create", invite |-> None, heard |-> TRUE,
                            stage |-> "sent", answer |-> None]
      OBVIOUS
    <2>1. PICK c \in Calls : call[c] = NoCall /\ call' = [call EXCEPT ![c] = new]
      BY <1>1, <2>0, PostPlace DEF InvitePerson
    <2>2. /\ RowShape(new) /\ new.account = a /\ new.stage = "sent" /\ ~Reading(new)
      BY <2>0, SentRow
    <2>3. link[a] = None /\ \A d \in Calls : Asking(call[d]) => call[d].account # a
      BY <1>1, UnderMeaning DEF InvitePerson
    <2>4. UNCHANGED <<server, phone, late>> /\ crossed' = crossed
      BY <1>1 DEF InvitePerson
    <2> QED
      BY <2>1, <2>2, <2>3, <2>4, EmptyRow, Parts, StartStep
  <1>2. CASE CheckForPartner(a)
    <2>0. PICK new : new = [account |-> a, kind |-> "poll", invite |-> None, heard |-> TRUE,
                            stage |-> "sent", answer |-> None]
      OBVIOUS
    <2>1. PICK c \in Calls : call[c] = NoCall /\ call' = [call EXCEPT ![c] = new]
      BY <1>2, <2>0, PostPlace DEF CheckForPartner
    <2>2. /\ RowShape(new) /\ new.account = a /\ new.stage = "sent" /\ ~Asking(new)
      BY <2>0, SentRow
    <2>3. /\ UNCHANGED <<server, phone, late>>
          /\ crossed' = IF Under(a, {"me", "poll"}) = {} THEN crossed
                        ELSE crossed \cup {a}
      BY <1>2 DEF CheckForPartner, Crossed
    <2>4. crossed \subseteq crossed' /\ crossed' \subseteq Phones
      BY <2>3, Parts
    <2>5. a \notin crossed' => \A d \in Calls : Reading(call[d]) => call[d].account # a
      BY <2>3, UnderMeaning
    <2> QED
      BY <2>1, <2>2, <2>3, <2>4, <2>5, EmptyRow, StartStep
  <1>3. ASSUME NEW i \in Invites, Accept(a, i)
        PROVE  Inv'
    <2>0. PICK new : new = [account |-> a, kind |-> "accept", invite |-> i, heard |-> TRUE,
                            stage |-> "sent", answer |-> None]
      OBVIOUS
    <2>1. PICK c \in Calls : call[c] = NoCall /\ call' = [call EXCEPT ![c] = new]
      BY <1>3, <2>0, PostPlace DEF Accept
    <2>2. /\ RowShape(new) /\ new.account = a /\ new.stage = "sent" /\ ~Reading(new)
          /\ ~Asking(new)
      BY <2>0, SentRow
    <2>3. UNCHANGED <<server, phone, late>> /\ crossed' = crossed
      BY <1>3 DEF Accept
    <2> QED
      BY <2>1, <2>2, <2>3, EmptyRow, Parts, StartStep
  <1> QED
    BY <1>1, <1>2, <1>3

(* After its accept a phone asks for its account.                          *)
LEMMA AcceptedStep ==
  ASSUME Inv, NEW c \in Calls, Accepted(c)
  PROVE  Inv'
  <1>1. PICK r, a : r = call[c] /\ a = call[c].account
    OBVIOUS
  <1>2. PICK new : new = [r EXCEPT !.kind = "me", !.stage = "sent", !.answer = None]
    OBVIOUS
  <1>3. r \in CallRow /\ RowShape(r) /\ r.kind = "accept"
    BY <1>1, Parts DEF Accepted, Heard
  <1>4. /\ new \in CallRow /\ new.account = a /\ new.kind = "me" /\ new.stage = "sent"
        /\ new.invite = r.invite /\ new.heard = r.heard /\ new.answer = None
    BY <1>1, <1>2, <1>3 DEF CallRow
  <1>5. RowShape(new) /\ ~Asking(new) /\ ~Asking(r) /\ ~Reading(r)
    BY <1>1, <1>3, <1>4 DEF RowShape, Asking, Reading
  <1>6. call' = [call EXCEPT ![c] = new] /\ UNCHANGED <<server, phone, late>>
    BY <1>1, <1>2 DEF Accepted
  <1>7. crossed' = IF Under(a, {"me", "poll"}) = {} THEN crossed ELSE crossed \cup {a}
    BY <1>1 DEF Accepted, Crossed
  <1>8. a \in Phones
    BY <1>1, <1>3 DEF RowShape
  <1>9. crossed \subseteq crossed' /\ crossed' \subseteq Phones
    BY <1>7, <1>8, Parts
  <1>10. a \notin crossed' => \A d \in Calls : Reading(call[d]) => call[d].account # a
    BY <1>7, UnderMeaning
  <1> QED
    BY <1>1, <1>4, <1>5, <1>6, <1>9, <1>10, StartStep

(* A request is done with.                                                 *)
LEMMA DoneKept ==
  ASSUME Inv, NEW c \in Calls, Done(c)
  PROVE  CallsKept /\ call'[c] = NoCall /\ \A d \in Calls : d # c => call'[d] = call[d]
  <1>1. /\ call'[c] = NoCall /\ call' \in [Calls -> CallRow]
        /\ \A d \in Calls : d # c => call'[d] = call[d]
    BY Parts, EmptyRow DEF Done
  <1>2. \A d \in Calls : CallKept(d)
    BY <1>1, Parts, RowKept
  <1> QED
    BY <1>1, <1>2 DEF CallsKept

(* The link arrives: it is the phone's own, and no other is awaited.       *)
LEMMA InviteReadyStep ==
  ASSUME Inv, NEW c \in Calls, InviteReady(c)
  PROVE  Inv'
  <1>0. /\ UNCHANGED <<shown, crossed>> /\ UNCHANGED <<server, late>>
        /\ call[c].kind = "create" /\ call[c].stage = "ok"
        /\ AnswersOK /\ OneCreate
    BY DEF InviteReady, Heard, Inv, PhonesOK
  <1>1. PICK a, i : a = call[c].account /\ i = call[c].answer
    OBVIOUS
  <1>2. a \in Phones /\ i \in Invites /\ MyLink(a, i) /\ Asking(call[c])
    BY <1>0, <1>1, Parts DEF RowShape, AnswersOK, CreateOK, Asking
  <1>3. /\ link' = [link EXCEPT ![a] = i]
        /\ poll' = [poll EXCEPT ![a] = IF poll[a] = "none" THEN "running" ELSE poll[a]]
        /\ Done(c)
    BY <1>1 DEF InviteReady
  <1>4. /\ CallsKept /\ call'[c] = NoCall
        /\ \A d \in Calls : d # c => call'[d] = call[d]
    BY <1>3, DoneKept
  <1>5. /\ PairsStay /\ LinksStay /\ ServerOK' /\ UNCHANGED <<invite, late>>
        /\ invite' \in [Invites -> InviteRow] /\ member' \subseteq Pairs \X Accounts
        /\ late' \subseteq Invites
    BY <1>0, ServerSame
  <1>6. /\ CallsOK' /\ AnswersOK' /\ OneCreate' /\ OneRead'
        /\ \A b \in Phones : link'[b] = link[b] \/ link'[b] = None => LinkOK(b)'
        /\ \A b \in Phones :
             poll[b] = "cancelled" /\ b \notin crossed' /\ shown'[b] = shown[b] =>
               Informed(b)'
    BY <1>0, <1>4, <1>5, CallsCarry
  <1>7. /\ link' \in [Phones -> Invites \cup {None}] /\ link'[a] = i
        /\ \A b \in Phones : b # a => link'[b] = link[b]
    BY <1>2, <1>3, Parts
  <1>8. /\ poll' \in [Phones -> {"none", "running", "cancelled"}]
        /\ \A b \in Phones : poll'[b] = "cancelled" => poll[b] = "cancelled"
    BY <1>2, <1>3, Parts
  <1>9. LinkOK(a)'
    <2>1. MyLink(a, link[a])'
      BY <1>2, <1>5, <1>7 DEF MyLink
    <2>2. \A d \in Calls : Asking(call[d])' => call'[d].account # a
      BY <1>0, <1>1, <1>2, <1>4, EmptyRow DEF OneCreate
    <2> QED
      BY <2>1, <2>2 DEF LinkOK
  <1>10. LinksOK'
    BY <1>6, <1>7, <1>9 DEF LinksOK
  <1>11. PollsOK'
    BY <1>0, <1>6, <1>8 DEF PollsOK
  <1>12. PhonesOK'
    BY <1>6, <1>10, <1>11 DEF PhonesOK
  <1>13. TypeOK'
    BY <1>0, <1>5, <1>6, <1>7, <1>8, Parts, TypeMeaning DEF ServerOK
  <1> QED
    BY <1>5, <1>12, <1>13 DEF Inv

(* The account arrives: a pair in the answer is the account's, and unless  *)
(* reads crossed no other answer is under way.                             *)
LEMMA AccountReadStep ==
  ASSUME Inv, NEW c \in Calls, AccountRead(c)
  PROVE  Inv'
  <1>0. /\ UNCHANGED <<link, crossed>> /\ UNCHANGED <<server, late>>
        /\ call[c].kind \in {"me", "poll"} /\ call[c].stage = "ok"
        /\ AnswersOK /\ OneRead /\ PollsOK
    BY DEF AccountRead, Inv, PhonesOK
  <1>1. PICK a, p : a = call[c].account /\ p = call[c].answer
    OBVIOUS
  <1>2. a \in Phones /\ a \in Accounts /\ p \in Pairs \cup {None} /\ Reading(call[c])
    BY <1>0, <1>1, Parts, InviteAssumption DEF RowShape, Reading
  <1>3. p # None => Paired(a) /\ p = PairOf(a)
    BY <1>0, <1>1, <1>2 DEF AnswersOK, ReadOK
  <1>4. /\ shown' = [shown EXCEPT ![a] = p] /\ Done(c)
        /\ poll' = [poll EXCEPT ![a] =
             IF call[c].kind = "poll" /\ poll[a] = "running" /\ p # None
             THEN "cancelled" ELSE poll[a]]
    BY <1>1 DEF AccountRead
  <1>5. /\ CallsKept /\ call'[c] = NoCall
        /\ \A d \in Calls : d # c => call'[d] = call[d]
    BY <1>4, DoneKept
  <1>6. /\ PairsStay /\ LinksStay /\ ServerOK' /\ UNCHANGED <<invite, late>>
        /\ invite' \in [Invites -> InviteRow] /\ member' \subseteq Pairs \X Accounts
        /\ late' \subseteq Invites /\ Paired(a)' = Paired(a) /\ PairOf(a)' = PairOf(a)
    BY <1>0, ServerSame
  <1>7. /\ CallsOK' /\ AnswersOK' /\ OneCreate' /\ OneRead'
        /\ \A b \in Phones : link'[b] = link[b] \/ link'[b] = None => LinkOK(b)'
        /\ \A b \in Phones :
             poll[b] = "cancelled" /\ b \notin crossed' /\ shown'[b] = shown[b] =>
               Informed(b)'
    BY <1>0, <1>5, <1>6, CallsCarry
  <1>8. LinksOK'
    BY <1>0, <1>7 DEF LinksOK
  <1>9. /\ shown' \in [Phones -> Pairs \cup {None}] /\ shown'[a] = p
        /\ \A b \in Phones : b # a => shown'[b] = shown[b]
    BY <1>2, <1>4, Parts
  <1>10. /\ poll' \in [Phones -> {"none", "running", "cancelled"}]
         /\ \A b \in Phones : b # a => poll'[b] = poll[b]
         /\ poll'[a] = "cancelled" => poll[a] = "cancelled" \/ p # None
    BY <1>2, <1>4, Parts
  <1>11. a \notin crossed => \A d \in Calls : Reading(call[d])' => call'[d].account # a
    BY <1>0, <1>1, <1>2, <1>5, EmptyRow DEF OneRead
  <1>12. ASSUME poll'[a] = "cancelled", a \notin crossed
         PROVE  Informed(a)'
    <2>1. CASE p # None
      <3>1. Paired(a)' /\ shown'[a] = PairOf(a)'
        BY <1>3, <1>6, <1>9, <2>1
      <3> QED
        BY <1>11, <1>12, <3>1 DEF Informed
    <2>2. CASE p = None
      <3>1. Informed(a)
        BY <1>0, <1>2, <1>10, <1>12, <2>2 DEF PollsOK
      <3>2. Paired(a) /\ p = PairOf(a)
        BY <1>0, <1>1, <1>2, <3>1 DEF Informed
      <3>3. Paired(a)' /\ shown'[a] = PairOf(a)'
        BY <1>6, <1>9, <3>2
      <3> QED
        BY <1>11, <1>12, <3>3 DEF Informed
    <2> QED
      BY <2>1, <2>2
  <1>13. PollsOK'
    BY <1>0, <1>7, <1>9, <1>10, <1>12 DEF PollsOK
  <1>14. PhonesOK'
    BY <1>7, <1>8, <1>13 DEF PhonesOK
  <1>15. TypeOK'
    BY <1>0, <1>6, <1>7, <1>9, <1>10, Parts, TypeMeaning DEF ServerOK
  <1> QED
    BY <1>6, <1>14, <1>15 DEF Inv

-----------------------------------------------------------------------------
(* The server's writes                                                     *)

(* A write to the invites that makes no pair.                              *)
LEMMA InvitesOnly ==
  ASSUME Inv, UNCHANGED <<member, log>>,
         \A k \in Invites : Taken(k)' = Taken(k),
         \A k \in Invites : Taken(k) => /\ invite'[k].creator = invite[k].creator
                                        /\ invite'[k].acceptedBy = invite[k].acceptedBy
  PROVE  PairsOK' /\ TakenOK' /\ PairsStay
  <1>1. /\ \A p : Members(p)' = Members(p)
        /\ \A b : Paired(b)' = Paired(b) /\ PairOf(b)' = PairOf(b)
    BY DEF Members, Paired, PairOf
  <1>2. \A k \in Invites : Taken(k) => Both(k)' = Both(k)
    BY DEF Both
  <1>3. PairsOK'
    BY <1>1, <1>2, Parts DEF PairsOK
  <1>4. TakenOK'
    <2>1. ASSUME NEW k \in Invites, Taken(k)'
          PROVE  /\ invite'[k].creator \in Accounts
                 /\ invite'[k].creator # invite'[k].acceptedBy
                 /\ Paired(invite[k].creator)' /\ Paired(invite[k].acceptedBy)'
      <3>1. /\ Taken(k) /\ invite[k].creator \in Accounts
            /\ invite[k].creator # invite[k].acceptedBy
            /\ Paired(invite[k].creator) /\ Paired(invite[k].acceptedBy)
        BY <2>1, Parts DEF TakenOK
      <3>2. /\ invite'[k].creator = invite[k].creator
            /\ invite'[k].acceptedBy = invite[k].acceptedBy
        BY <3>1
      <3> QED
        BY <1>1, <3>1, <3>2 DEF Paired
    <2>2. ASSUME NEW j \in Invites, NEW k \in Invites, Taken(j)', Taken(k)', j # k
          PROVE  Both(j)' \cap Both(k)' = {}
      <3>1. Taken(j) /\ Taken(k)
        BY <2>2
      <3>2. Both(j) \cap Both(k) = {}
        BY <2>2, <3>1, Parts DEF TakenOK
      <3> QED
        BY <1>2, <3>1, <3>2
    <2> QED
      BY <2>1, <2>2 DEF TakenOK
  <1>5. PairsStay
    BY <1>1 DEF PairsStay
  <1> QED
    BY <1>3, <1>4, <1>5

(* A link expires.                                                         *)
LEMMA ExpireStep ==
  ASSUME Inv, NEW i \in Invites, Expire(i)
  PROVE  Inv'
  <1>0. /\ UNCHANGED <<member, log, shown, link, poll, call, late, crossed>>
        /\ invite' = [invite EXCEPT ![i].expired = TRUE]
    BY DEF Expire, phone
  <1>1. ASSUME NEW k \in Invites
        PROVE  /\ invite'[k] \in InviteRow /\ invite'[k].creator = invite[k].creator
               /\ invite'[k].acceptedBy = invite[k].acceptedBy
               /\ invite'[k].revoked = invite[k].revoked
    <2>1. invite[k] \in InviteRow
      BY Parts
    <2>2. invite'[k] = IF k = i THEN [invite[k] EXCEPT !.expired = TRUE] ELSE invite[k]
      BY <1>0, Parts
    <2> QED
      BY <2>1, <2>2 DEF InviteRow
  <1>2. invite' \in [Invites -> InviteRow]
    BY <1>0, <1>1, Parts
  <1>3. \A k \in Invites : Taken(k)' = Taken(k) /\ Open(k)' = Open(k)
    BY <1>1 DEF Taken, Open
  <1>4. PairsOK' /\ TakenOK' /\ PairsStay
    BY <1>0, <1>1, <1>3, InvitesOnly
  <1>5. OneOpenInvite'
    BY <1>1, <1>3, Parts DEF OneOpenInvite
  <1>6. LinksStay
    BY <1>0, <1>1 DEF LinksStay, MyLink
  <1>7. CallsKept
    BY <1>0, Parts, RowKept DEF CallsKept
  <1>8. ServerOK'
    BY <1>4, <1>5 DEF ServerOK
  <1> QED
    BY <1>0, <1>2, <1>4, <1>6, <1>7, <1>8, Parts, QuietStep

(* A link is made, in place of the one its maker had; of the links a phone *)
(* was told of only those in late' are revoked.                            *)
LEMMA CreateWrite ==
  ASSUME Inv, NEW a \in Accounts, NEW i \in Invites, i \notin UsedInvites,
         CreatePairInvite(a, i), UNCHANGED <<member, log>>, late \subseteq late',
         \A k \in Invites :
           a \in Phones /\ Told(a, k) /\ Open(k) /\ invite[k].creator = a => k \in late'
  PROVE  /\ ServerOK' /\ PairsStay /\ LinksStay /\ MyLink(a, i)'
         /\ invite' \in [Invites -> InviteRow]
  <1>0. None \notin Accounts /\ Phones \subseteq Accounts
    BY InviteAssumption
  <1>1. invite[i].creator = None
    BY DEF UsedInvites
  <1>2. ~Taken(i)
    BY <1>0, <1>1, Parts DEF TakenOK
  <1>3. PICK new : new = [NoInvite EXCEPT !.creator = a]
    OBVIOUS
  <1>4. /\ new \in InviteRow /\ new.creator = a /\ new.acceptedBy = None
        /\ new.revoked = FALSE
    BY <1>3 DEF NoInvite, InviteRow
  <1>5. invite' = [k \in Invites |->
          IF k = i THEN new
          ELSE [invite[k] EXCEPT !.revoked = @ \/ (Open(k) /\ invite[k].creator = a)]]
    BY <1>3 DEF CreatePairInvite
  <1>6. invite'[i] = new
    BY <1>5
  <1>7. ASSUME NEW k \in Invites, k # i
        PROVE  /\ invite'[k] \in InviteRow /\ invite'[k].creator = invite[k].creator
               /\ invite'[k].acceptedBy = invite[k].acceptedBy
               /\ invite'[k].revoked <=>
                    invite[k].revoked \/ (Open(k) /\ invite[k].creator = a)
    <2>1. invite[k] \in InviteRow
      BY Parts
    <2>2. PICK b : b = (invite[k].revoked \/ (Open(k) /\ invite[k].creator = a))
      OBVIOUS
    <2>3. invite'[k] = [invite[k] EXCEPT !.revoked = b]
      BY <1>5, <1>7, <2>2
    <2>4. b \in BOOLEAN
      BY <2>2
    <2> QED
      BY <2>1, <2>2, <2>3, <2>4 DEF InviteRow
  <1>8. invite' \in [Invites -> InviteRow]
    BY <1>4, <1>5, <1>6, <1>7
  <1>9. \A k \in Invites : Taken(k)' = Taken(k)
    BY <1>2, <1>4, <1>6, <1>7 DEF Taken
  <1>10. PairsOK' /\ TakenOK' /\ PairsStay
    BY <1>2, <1>7, <1>9, InvitesOnly
  <1>11. OneOpenInvite'
    <2>1. \A k \in Invites : k # i /\ Open(k)' => Open(k) /\ invite[k].creator # a
      BY <1>7 DEF Open
    <2> QED
      BY <1>4, <1>6, <1>7, <2>1, Parts DEF OneOpenInvite
  <1>12. LinksStay
    <2> SUFFICES ASSUME NEW b \in Phones, NEW k \in Invites, Told(b, k), MyLink(b, k)
                 PROVE  MyLink(b, k)'
      BY DEF LinksStay
    <2>1. k # i /\ invite[k].creator = b
      BY <1>0, <1>1 DEF MyLink
    <2>2. invite'[k].creator = b
      BY <1>7, <2>1
    <2>3. invite'[k].revoked => k \in late'
      <3>1. CASE invite[k].revoked
        BY <3>1 DEF MyLink
      <3>2. CASE ~invite[k].revoked
        BY <1>7, <2>1, <3>2
      <3> QED
        BY <3>1, <3>2
    <2> QED
      BY <2>2, <2>3 DEF MyLink
  <1>13. MyLink(a, i)'
    BY <1>4, <1>6 DEF MyLink
  <1>14. ServerOK'
    BY <1>10, <1>11 DEF ServerOK
  <1> QED
    BY <1>8, <1>10, <1>12, <1>13, <1>14

(* The new link's id is new.                                               *)
LEMMA NewInviteIsNew ==
  ASSUME UsedInvites # Invites
  PROVE  NewInvite \in Invites /\ NewInvite \notin UsedInvites
  BY NewIsNew DEF NewInvite, UsedInvites

(* An account without a phone here makes a link.                           *)
LEMMA CreatedElsewhereStep ==
  ASSUME Inv, NEW a \in Accounts \ Phones, CreatedElsewhere(a)
  PROVE  Inv'
  <1>1. PICK i : i = NewInvite
    OBVIOUS
  <1>2. /\ i \in Invites /\ i \notin UsedInvites /\ CreatePairInvite(a, i)
        /\ UNCHANGED <<member, log, shown, link, poll, call, late, crossed>>
    BY <1>1, NewInviteIsNew DEF CreatedElsewhere, phone
  <1>3. ServerOK' /\ PairsStay /\ LinksStay /\ invite' \in [Invites -> InviteRow]
    BY <1>2, CreateWrite
  <1>4. CallsKept
    BY <1>2, Parts, RowKept DEF CallsKept
  <1> QED
    BY <1>2, <1>3, <1>4, Parts, QuietStep

(* A phone's request for a link is handled.  One the phone still waits for *)
(* finds no link on its screen and no other on the way to it.              *)
LEMMA ServerCreateStep ==
  ASSUME Inv, NEW c \in Calls, ServerCreate(c)
  PROVE  Inv'
  <1>0. /\ call[c].kind = "create" /\ call[c].stage = "sent"
        /\ UNCHANGED <<member, log, shown, link, poll, crossed>>
        /\ UNCHANGED <<member, log, phone, crossed>>
        /\ OneCreate /\ LinksOK
    BY DEF ServerCreate, Reaches, phone, Inv, PhonesOK
  <1>1. PICK a : a = call[c].account
    OBVIOUS
  <1>2. a \in Phones /\ a \in Accounts
    BY <1>0, <1>1, Parts, InviteAssumption DEF RowShape
  <1>3. CASE Respond(c, "refused", None) /\ UNCHANGED <<invite, late>>
    <2>1. UNCHANGED <<server, phone, late, crossed>>
      BY <1>0, <1>3 DEF server
    <2> QED
      BY <1>0, <1>3, <2>1, AnswerStep
  <1>4. CASE /\ UsedInvites # Invites /\ CreatePairInvite(a, NewInvite)
             /\ late' = IF call[c].heard THEN late
                        ELSE late \cup {k \in Invites : Open(k) /\ invite[k].creator = a}
             /\ Respond(c, "ok", NewInvite)
    <2>1. PICK i : i = NewInvite
      OBVIOUS
    <2>2. /\ i \in Invites /\ i \notin UsedInvites /\ CreatePairInvite(a, i)
          /\ Respond(c, "ok", i)
      BY <1>4, <2>1, NewInviteIsNew
    <2>3. late \subseteq late' /\ late' \subseteq Invites
      BY <1>4, Parts
    <2>4. ASSUME NEW k \in Invites, Told(a, k), Open(k), invite[k].creator = a
          PROVE  k \in late'
      <3>1. CASE call[c].heard
        <4>1. Asking(call[c])
          BY <1>0, <3>1 DEF Asking
        <4>2. link[a] # k
          BY <1>0, <1>1, <1>2, <2>4, <4>1, InviteAssumption DEF LinksOK, LinkOK
        <4>3. ASSUME NEW d \in Calls, LinkGiven(call[d]), call[d].account = a
              PROVE  FALSE
          <5>1. Asking(call[d])
            BY <4>3, Parts DEF LinkGiven, Asking, RowShape
          <5>2. d = c
            BY <1>0, <1>1, <4>1, <4>3, <5>1 DEF OneCreate
          <5> QED
            BY <1>0, <4>3, <5>2 DEF LinkGiven
        <4> QED
          BY <2>4, <4>2, <4>3 DEF Told
      <3>2. CASE ~call[c].heard
        BY <1>4, <2>4, <3>2
      <3> QED
        BY <3>1, <3>2
    <2>5. /\ ServerOK' /\ PairsStay /\ LinksStay /\ invite' \in [Invites -> InviteRow]
          /\ MyLink(a, i)'
      BY <1>0, <1>2, <2>2, <2>3, <2>4, CreateWrite
    <2>6. CallsKept
      <3>1. ~Reading(call[c])
        BY <1>0 DEF Reading
      <3> QED
        BY <1>0, <1>1, <2>2, <2>5, <3>1, Parts, Responded
    <2> QED
      BY <1>0, <2>3, <2>5, <2>6, Parts, QuietStep
  <1> QED
    BY <1>1, <1>3, <1>4 DEF ServerCreate

(* A link is accepted: a new pair of two accounts that had none.           *)
LEMMA AcceptWrite ==
  ASSUME Inv, NEW a \in Accounts, NEW i \in Invites, NEW p \in Pairs, p \notin UsedPairs,
         Acceptable(a, i), AcceptPairInvite(a, i, p), UNCHANGED late
  PROVE  /\ ServerOK' /\ PairsStay /\ LinksStay
         /\ invite' \in [Invites -> InviteRow] /\ member' \subseteq Pairs \X Accounts
  <1>0. /\ None \notin Accounts /\ invite \in [Invites -> InviteRow]
        /\ member \subseteq Pairs \X Accounts /\ PairsOK /\ TakenOK /\ OneOpenInvite
        /\ TypeOK
    BY Parts, InviteAssumption
  <1>1. PICK b : b = invite[i].creator
    OBVIOUS
  <1>2. /\ b \in Accounts /\ b # a /\ ~Paired(a) /\ ~Paired(b) /\ Open(i) /\ ~Taken(i)
    BY <1>0, <1>1 DEF Acceptable, Open, Taken, InviteRow
  <1>3. /\ member' = member \cup ({p} \X {b, a})
        /\ invite' = [invite EXCEPT ![i].acceptedBy = a]
        /\ log' = [log EXCEPT ![p] = Append(log[p], {b, a})]
    BY <1>1 DEF AcceptPairInvite
  <1>4. member' \subseteq Pairs \X Accounts
    BY <1>0, <1>2, <1>3
  <1>5. ASSUME NEW k \in Invites
        PROVE  /\ invite'[k] \in InviteRow /\ invite'[k].creator = invite[k].creator
               /\ invite'[k].revoked = invite[k].revoked
               /\ invite'[k].acceptedBy = IF k = i THEN a ELSE invite[k].acceptedBy
    <2>1. invite[k] \in InviteRow
      BY <1>0
    <2>2. invite'[k] = IF k = i THEN [invite[k] EXCEPT !.acceptedBy = a] ELSE invite[k]
      BY <1>0, <1>3
    <2> QED
      BY <2>1, <2>2 DEF InviteRow
  <1>6. invite' \in [Invites -> InviteRow]
    BY <1>0, <1>3, <1>5
  <1>7. log[p] = <<>> /\ Members(p) = {}
    BY <1>0 DEF UsedPairs, PairsOK
  <1>8. Members(p)' = {b, a} /\ \A q \in Pairs : q # p => Members(q)' = Members(q)
    BY <1>2, <1>3, <1>7 DEF Members
  <1>9. PairsStay /\ Paired(a)' /\ Paired(b)'
    <2>1. \A x : Paired(x) => Paired(x)'
      BY <1>3 DEF Paired
    <2>2. Paired(a)' /\ Paired(b)'
      BY <1>3 DEF Paired
    <2>3. ASSUME NEW x \in Accounts, Paired(x)
          PROVE  PairOf(x)' = PairOf(x)
      <3>1. x # a /\ x # b
        BY <1>2, <2>3
      <3>2. \A q \in Pairs : <<q, x>> \in member' <=> <<q, x>> \in member
        BY <1>3, <3>1
      <3>3. Paired(x)'
        BY <2>1, <2>3
      <3>4. (CHOOSE q \in Pairs : <<q, x>> \in member') =
              (CHOOSE q \in Pairs : <<q, x>> \in member)
        BY <3>2
      <3> QED
        BY <2>3, <3>3, <3>4 DEF PairOf
    <2> QED
      BY <2>1, <2>2, <2>3 DEF PairsStay
  <1>10. Taken(i)' /\ Both(i)' = {b, a}
    BY <1>0, <1>1, <1>5 DEF Taken, Both
  <1>11. \A k \in Invites : k # i => Taken(k)' = Taken(k) /\ Both(k)' = Both(k)
    BY <1>5 DEF Taken, Both
  <1>12. log' \in [Pairs -> Seq(SUBSET Accounts)] /\ log'[p] = <<{b, a}>>
         /\ \A q \in Pairs : q # p => log'[q] = log[q]
    <2>1. log \in [Pairs -> Seq(SUBSET Accounts)]
      BY <1>0 DEF PairsOK
    <2>2. Append(log[p], {b, a}) = <<{b, a}>>
      BY <1>7
    <2>3. <<{b, a}>> \in Seq(SUBSET Accounts)
      BY <1>2
    <2> QED
      BY <1>3, <2>1, <2>2, <2>3
  <1>13. PairsOK'
    <2>1. \A q \in Pairs : log'[q] = <<>> => Members(q)' = {}
      <3>1. Len(<<{b, a}>>) = 1 /\ Len(<<>>) = 0
        OBVIOUS
      <3>2. log'[p] # <<>>
        BY <1>12, <3>1
      <3>3. \A q \in Pairs : log[q] = <<>> => Members(q) = {}
        BY <1>0 DEF PairsOK
      <3> QED
        BY <1>8, <1>12, <3>2, <3>3
    <2>2. ASSUME NEW q \in Pairs, log'[q] # <<>>
          PROVE  /\ log'[q] = <<Members(q)'>>
                 /\ \E k \in Invites : Taken(k)' /\ Members(q)' = Both(k)'
      <3>1. CASE q = p
        BY <1>8, <1>10, <1>12, <3>1
      <3>2. CASE q # p
        <4>1. log[q] = <<Members(q)>>
          BY <1>0, <1>12, <2>2, <3>2 DEF PairsOK
        <4>2. PICK k \in Invites : Taken(k) /\ Members(q) = Both(k)
          BY <1>0, <1>12, <2>2, <3>2 DEF PairsOK
        <4>3. k # i
          BY <1>2, <4>2
        <4> QED
          BY <1>8, <1>11, <1>12, <3>2, <4>1, <4>2, <4>3
      <3> QED
        BY <3>1, <3>2
    <2>3. \A q \in Pairs : a \notin Members(q) /\ b \notin Members(q)
      BY <1>2 DEF Members, Paired
    <2>4. \A q, r \in Pairs : q # r => Members(q)' \cap Members(r)' = {}
      BY <1>0, <1>8, <2>3 DEF PairsOK
    <2> QED
      BY <1>12, <2>1, <2>2, <2>4 DEF PairsOK
  <1>14. TakenOK'
    <2>1. ASSUME NEW k \in Invites, Taken(k)'
          PROVE  /\ invite'[k].creator \in Accounts
                 /\ invite'[k].creator # invite'[k].acceptedBy
                 /\ Paired(invite[k].creator)' /\ Paired(invite[k].acceptedBy)'
      <3>1. CASE k = i
        <4>1. invite'[k].creator = b /\ invite'[k].acceptedBy = a
          BY <1>1, <1>5, <3>1
        <4> QED
          BY <1>2, <1>9, <4>1 DEF Paired
      <3>2. CASE k # i
        <4>1. PICK x, y : x = invite[k].creator /\ y = invite[k].acceptedBy
          OBVIOUS
        <4>2. Taken(k) /\ x \in Accounts /\ x # y /\ Paired(x) /\ Paired(y)
          BY <1>0, <1>11, <2>1, <3>2, <4>1 DEF TakenOK
        <4>3. Paired(x)' /\ Paired(y)'
          BY <1>3, <4>2 DEF Paired
        <4>4. x = invite'[k].creator /\ y = invite'[k].acceptedBy
          BY <1>5, <3>2, <4>1
        <4> QED
          BY <4>2, <4>3, <4>4 DEF Paired
      <3> QED
        BY <3>1, <3>2
    <2>2. ASSUME NEW k \in Invites, Taken(k), k # i
          PROVE  Both(k) \cap {b, a} = {}
      BY <1>0, <1>2, <2>2 DEF TakenOK, Both
    <2>3. \A j, k \in Invites : Taken(j)' /\ Taken(k)' /\ j # k => Both(j)' \cap Both(k)' = {}
      BY <1>0, <1>10, <1>11, <2>2 DEF TakenOK
    <2> QED
      BY <2>1, <2>3 DEF TakenOK
  <1>15. OneOpenInvite'
    <2>1. \A k \in Invites : Open(k)' => Open(k)
      BY <1>0, <1>5 DEF Open
    <2> QED
      BY <1>0, <1>5, <2>1 DEF OneOpenInvite
  <1>16. LinksStay
    BY <1>5 DEF LinksStay, MyLink
  <1> QED
    BY <1>4, <1>6, <1>9, <1>13, <1>14, <1>15, <1>16 DEF ServerOK

(* The new pair's id is new.                                               *)
LEMMA NewPairIsNew ==
  ASSUME UsedPairs # Pairs
  PROVE  NewPair \in Pairs /\ NewPair \notin UsedPairs
  BY NewIsNew DEF NewPair, UsedPairs

(* An account without a phone here accepts a link.                         *)
LEMMA AcceptedElsewhereStep ==
  ASSUME Inv, NEW a \in Accounts \ Phones, NEW i \in Invites, AcceptedElsewhere(a, i)
  PROVE  Inv'
  <1>1. PICK p : p = NewPair
    OBVIOUS
  <1>2. /\ p \in Pairs /\ p \notin UsedPairs /\ Acceptable(a, i)
        /\ AcceptPairInvite(a, i, p)
        /\ UNCHANGED <<shown, link, poll, call, late, crossed>>
    BY <1>1, NewPairIsNew DEF AcceptedElsewhere, phone
  <1>3. /\ ServerOK' /\ PairsStay /\ LinksStay
        /\ invite' \in [Invites -> InviteRow] /\ member' \subseteq Pairs \X Accounts
    BY <1>2, AcceptWrite
  <1>4. CallsKept
    BY <1>2, Parts, RowKept DEF CallsKept
  <1> QED
    BY <1>2, <1>3, <1>4, Parts, QuietStep

(* A phone's accept is handled.                                            *)
LEMMA ServerAcceptStep ==
  ASSUME Inv, NEW c \in Calls, ServerAccept(c)
  PROVE  Inv'
  <1>0. /\ call[c].kind = "accept" /\ call[c].stage = "sent"
        /\ UNCHANGED <<shown, link, poll, late, crossed>>
        /\ UNCHANGED <<phone, late, crossed>>
    BY DEF ServerAccept, Reaches, phone
  <1>1. PICK a, i : a = call[c].account /\ i = call[c].invite
    OBVIOUS
  <1>2. a \in Phones /\ a \in Accounts /\ i \in Invites
    BY <1>0, <1>1, Parts, InviteAssumption DEF RowShape
  <1>3. CASE Respond(c, "refused", None) /\ UNCHANGED server
    BY <1>0, <1>3, AnswerStep
  <1>4. CASE /\ Acceptable(a, i) /\ UsedPairs # Pairs /\ AcceptPairInvite(a, i, NewPair)
             /\ Respond(c, "ok", NewPair)
    <2>1. PICK p : p = NewPair
      OBVIOUS
    <2>2. /\ p \in Pairs /\ p \notin UsedPairs /\ AcceptPairInvite(a, i, p)
          /\ Respond(c, "ok", p)
      BY <1>4, <2>1, NewPairIsNew
    <2>3. /\ ServerOK' /\ PairsStay /\ LinksStay
          /\ invite' \in [Invites -> InviteRow] /\ member' \subseteq Pairs \X Accounts
      BY <1>0, <1>2, <1>4, <2>2, AcceptWrite
    <2>4. CallsKept
      <3>1. ~Reading(call[c])
        BY <1>0 DEF Reading
      <3> QED
        BY <1>0, <1>1, <2>2, <3>1, Parts, Responded
    <2> QED
      BY <1>0, <2>3, <2>4, Parts, QuietStep
  <1> QED
    BY <1>1, <1>3, <1>4 DEF ServerAccept

-----------------------------------------------------------------------------
(* The theorems                                                            *)

(* The invariant holds at the start, where there is nothing.               *)
LEMMA InitInv ==
  Init => Inv
  <1> SUFFICES ASSUME Init PROVE Inv
    OBVIOUS
  <1>1. NoInvite \in InviteRow /\ NoInvite.creator = None /\ NoInvite.acceptedBy = None
    BY DEF NoInvite, InviteRow
  <1>2. /\ \A c \in Calls : call[c] = NoCall
        /\ \A i \in Invites : invite[i] = NoInvite
        /\ \A a \in Phones : link[a] = None /\ poll[a] = "none"
        /\ \A p \in Pairs : log[p] = <<>>
        /\ member = {} /\ log = [p \in Pairs |-> <<>>]
    BY DEF Init
  <1>3. CallsOK
    BY EmptyRow DEF Init, CallsOK
  <1>4. AnswersOK /\ OneCreate /\ OneRead
    BY <1>2, EmptyRow
       DEF AnswersOK, OneCreate, OneRead, CreateOK, ReadOK, LinkGiven, ReadGiven
  <1>5. LinksOK /\ PollsOK
    BY <1>2 DEF LinksOK, LinkOK, PollsOK
  <1>6. \A p : Members(p) = {}
    BY <1>2 DEF Members
  <1>7. log \in [Pairs -> Seq(SUBSET Accounts)]
    BY <1>2
  <1>8. PairsOK
    BY <1>2, <1>6, <1>7 DEF PairsOK
  <1>9. TakenOK /\ OneOpenInvite
    BY <1>1, <1>2 DEF TakenOK, Taken, OneOpenInvite, Open
  <1>10. TypeOK
    <2>1. invite \in [Invites -> InviteRow]
      BY <1>1 DEF Init
    <2>2. call \in [Calls -> CallRow] /\ \A p \in Pairs : log[p] \in Seq(SUBSET Accounts)
      BY <1>3, <1>7 DEF CallsOK
    <2> QED
      BY <2>1, <2>2 DEF Init, TypeOK, InviteRow, CallRow
  <1> QED
    BY <1>3, <1>4, <1>5, <1>8, <1>9, <1>10 DEF Inv, ServerOK, PhonesOK

(* Every step keeps it.                                                    *)
LEMMA StepInv ==
  Inv /\ [Next]_vars => Inv'
  <1> SUFFICES ASSUME Inv, [Next]_vars PROVE Inv'
    OBVIOUS
  <1>1. ASSUME NEW c \in Calls, ServerMe(c) \/ ServerFails(c)
        PROVE  Inv'
    BY <1>1, AnswerStep DEF ServerMe, ServerFails, Reaches
  <1>2. ASSUME NEW c \in Calls,
               ServerCreate(c) \/ ServerAccept(c) \/ InviteReady(c) \/ Accepted(c)
                 \/ AccountRead(c) \/ CallFails(c)
        PROVE  Inv'
    BY <1>2, ServerCreateStep, ServerAcceptStep, InviteReadyStep, AcceptedStep,
       AccountReadStep, CallFailsStep
  <1>3. ASSUME NEW i \in Invites, Expire(i) \/ \E a \in Phones : Accept(a, i)
        PROVE  Inv'
    BY <1>3, ExpireStep, PostSteps
  <1>4. ASSUME NEW a \in Accounts \ Phones,
               CreatedElsewhere(a) \/ \E i \in Invites : AcceptedElsewhere(a, i)
        PROVE  Inv'
    BY <1>4, CreatedElsewhereStep, AcceptedElsewhereStep
  <1>5. ASSUME NEW a \in Phones,
               InvitePerson(a) \/ CheckForPartner(a) \/ LeaveScreen(a) \/ Restart(a)
        PROVE  Inv'
    BY <1>5, PostSteps, LeavingSteps
  <1>6. CASE UNCHANGED vars
    <2>1. UNCHANGED <<server, late>> /\ UNCHANGED <<shown, link, poll, call, crossed>>
      BY <1>6 DEF vars, phone
    <2>2. CallsKept
      BY <2>1, Parts, RowKept DEF CallsKept
    <2>3. /\ ServerOK' /\ PairsStay /\ LinksStay
          /\ invite' \in [Invites -> InviteRow] /\ member' \subseteq Pairs \X Accounts
          /\ late' \subseteq Invites
      BY <2>1, ServerSame
    <2>4. /\ shown' \in [Phones -> Pairs \cup {None}]
          /\ link' \in [Phones -> Invites \cup {None}]
          /\ poll' \in [Phones -> {"none", "running", "cancelled"}]
          /\ \A a \in Phones :
               /\ link'[a] = link[a] \/ link'[a] = None
               /\ poll'[a] = "cancelled" => poll[a] = "cancelled" /\ shown'[a] = shown[a]
      BY <2>1, Parts
    <2> QED
      BY <2>1, <2>2, <2>3, <2>4, QuietStep
  <1> QED
    BY <1>1, <1>2, <1>3, <1>4, <1>5, <1>6 DEF Next

(* The inductive invariant of pairing.                                     *)
THEOREM PairingInv == Spec => []Inv
  BY InitInv, StepInv, PTL DEF Spec

(* The tables, the screens and the requests under way keep their shape.    *)
THEOREM PairingTypeCorrect == Spec => []TypeOK
  <1>1. Inv => TypeOK
    BY DEF Inv
  <1> QED
    BY <1>1, PairingInv, PTL

(* AcceptPairInvite, whoever accepts whichever links in whatever order:    *)
(* every account is in at most one pair, every pair has two members, its   *)
(* log names them, and one link made it.                                   *)
THEOREM PairsAreExclusive == Spec => []OnePairEach
  <1>1. Inv => OnePairEach
    BY PairsMeaning DEF Inv, ServerOK
  <1> QED
    BY <1>1, PairingInv, PTL

(* CreatePairInvite: of the links somebody made at most one is open.       *)
THEOREM LinksReplaced == Spec => []OneOpenInvite
  <1>1. Inv => OneOpenInvite
    BY DEF Inv, ServerOK
  <1> QED
    BY <1>1, PairingInv, PTL

(* The link on a focus screen is not revoked behind it, but by a request   *)
(* of its own account that the phone had given up on.                      *)
THEOREM ShownLinksWork == Spec => []LinkWorks
  <1>1. Inv => LinkWorks
    BY DEF Inv, PhonesOK, LinksOK, LinkOK, MyLink, LinkWorks
  <1> QED
    BY <1>1, PairingInv, PTL

(* _checkForPartner: the poll stops only with the pair on the screen,      *)
(* unless two reads of the account crossed.                                *)
THEOREM PollStops == Spec => []PollStopsInformed
  <1>1. Inv => PollStopsInformed
    BY DEF Inv, PhonesOK, PollsOK, Informed, PollStopsInformed
  <1> QED
    BY <1>1, PairingInv, PTL
=============================================================================
