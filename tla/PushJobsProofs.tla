---------------------------- MODULE PushJobsProofs ----------------------------
(***************************************************************************)
(* Proofs about PushJobs, for every number of workers, devices and events, *)
(* every batch size and every limit on attempts.                           *)
(*                                                                         *)
(* Whether a job is delivered twice depends on who has it in hand: a job   *)
(* that is not excused is in at most one hand, pending only under that     *)
(* hand's lease, and once delivered it is either with its sender still or  *)
(* written as sent.  How far attempts may run past the limit is counted by *)
(* the workers that still hold a claim.                                    *)
(***************************************************************************)
EXTENDS PushJobs, FiniteSetTheorems, TLAPS

-----------------------------------------------------------------------------
(* The inductive invariant                                                 *)

DeviceRow == [owner : Accounts \cup {None}, revoked : BOOLEAN]
JobRow ==
  [recipient : Accounts \cup {None}, attempts : 0..AttemptsBound,
   ready : BOOLEAN, lock : {"none", "held", "lapsed"},
   sent : BOOLEAN, failed : BOOLEAN]
WorkerRow ==
  [batch : SUBSET Claims, at : Claims \cup {NoClaim}, result : Results \cup {"none"}]

(* A worker has a job in hand, in its batch or as the one it is at; it has *)
(* it by a claim that was made before the last attempt.                    *)
Has(row, j) == row.at.job = j \/ \E c \in row.batch : c.job = j

HasEarly(row, j) ==
  \/ row.at.job = j /\ row.at.attempts < MaxAttempts
  \/ \E c \in row.batch : c.job = j /\ c.attempts < MaxAttempts

(* It has no job twice, and a result exactly for the job it is at.         *)
RowOK(row) ==
  /\ \A c, d \in row.batch : c.job = d.job => c = d
  /\ \A c \in row.batch : c.job # row.at.job
  /\ row.at = NoClaim <=> row.result = "none"

WorkersOK ==
  /\ worker \in [Workers -> WorkerRow]
  /\ \A w \in Workers : RowOK(worker[w])

(* The jobs of events that did not happen yet are untouched.               *)
Untouched ==
  \A j \in Jobs : j[1] > event =>
    job[j] = NoJob /\ delivered[j] = 0 /\ \A w \in Workers : ~Has(worker[w], j)

(* A job that is not excused.                                              *)
InOneHand(j) ==
  \A v, w \in Workers : Has(worker[v], j) /\ Has(worker[w], j) => v = w

UnderLease(j) ==
  Pending(j) /\ (\E w \in Workers : Has(worker[w], j)) => job[j].lock = "held"

Accounted(j) ==
  /\ delivered[j] =< 1
  /\ delivered[j] = 1 =>
       \/ job[j].sent /\ \A w \in Workers : ~Has(worker[w], j)
       \/ \E w \in Workers : worker[w].at.job = j /\ worker[w].result = "ok"

OneHand == \A j \in Jobs : j \notin excused => InOneHand(j) /\ UnderLease(j) /\ Accounted(j)

(* Every worker may write one more attempt for the claim it has; while the *)
(* job is pending only those with an early claim can leave it so.          *)
Holders(j) == {w \in Workers : Has(worker[w], j)}
EarlyHolders(j) == {w \in Workers : HasEarly(worker[w], j)}

Counted(j) ==
  /\ job[j].attempts + Cardinality(Holders(j)) =< AttemptsBound
  /\ Pending(j) =>
       job[j].attempts + Cardinality(EarlyHolders(j))
         =< MaxAttempts - 1 + Cardinality(Workers)

AttemptsCounted == \A j \in Jobs : Counted(j)

Inv == TypeOK /\ WorkersOK /\ Untouched /\ OneHand /\ AttemptsCounted

(* TypeOK in the names above.                                              *)
LEMMA TypeMeaning ==
  /\ TypeOK => /\ device \in [Devices -> DeviceRow] /\ event \in 0..MaxEvents
               /\ job \in [Jobs -> JobRow] /\ delivered \in [Jobs -> 0..2]
               /\ excused \subseteq Jobs
  /\ /\ device' \in [Devices -> DeviceRow] /\ event' \in 0..MaxEvents
     /\ job' \in [Jobs -> JobRow] /\ delivered' \in [Jobs -> 0..2]
     /\ excused' \subseteq Jobs /\ WorkersOK'
     => TypeOK'
  <1>1. ASSUME WorkersOK', NEW w \in Workers
        PROVE  /\ worker'[w].batch \subseteq Claims
               /\ worker'[w].at \in Claims \cup {NoClaim}
               /\ worker'[w].result \in Results \cup {"none"}
    BY <1>1 DEF WorkersOK, WorkerRow
  <1> QED
    BY <1>1 DEF TypeOK, DeviceRow, JobRow

-----------------------------------------------------------------------------
(* The rows of a worker                                                    *)

(* A job is a pair of an event and a device, and None is none.             *)
LEMMA JobIds ==
  /\ None \notin Jobs
  /\ \A j \in Jobs : j[1] \in Events /\ j[2] \in Devices /\ j[1] \in Nat
  BY PushAssumption DEF Jobs, Events

(* A worker at no job has none by that.                                    *)
LEMMA AtJob ==
  ASSUME NEW row \in WorkerRow, NEW j \in Jobs
  PROVE  row.at.job = j => row.at \in Claims /\ row.at # NoClaim
  <1>1. NoClaim.job # j
    BY JobIds DEF NoClaim
  <1> QED
    BY <1>1 DEF WorkerRow

(* Going on to the next job of the batch, ...                              *)
LEMMA SendRow ==
  ASSUME NEW row \in WorkerRow, RowOK(row), row.at = NoClaim, NEW c \in row.batch,
         NEW result \in Results, NEW new,
         new = [batch |-> row.batch \ {c}, at |-> c, result |-> result]
  PROVE  /\ new \in WorkerRow /\ RowOK(new) /\ new.at = c /\ new.result = result
         /\ \A j \in Jobs : (Has(new, j) <=> Has(row, j))
                            /\ (HasEarly(new, j) <=> HasEarly(row, j))
  <1>1. /\ new.batch = row.batch \ {c} /\ new.at = c /\ new.result = result
        /\ c \in Claims /\ row.batch \subseteq Claims
    BY DEF WorkerRow
  <1>2. new \in WorkerRow
    BY <1>1 DEF WorkerRow
  <1>3. c # NoClaim
    BY <1>1, JobIds DEF Claims, NoClaim
  <1>4. result # "none"
    BY DEF Results
  <1>5. RowOK(new)
    BY <1>1, <1>3, <1>4 DEF RowOK
  <1>6. ASSUME NEW j \in Jobs
        PROVE  row.at.job # j
    BY <1>6, JobIds DEF NoClaim
  <1> QED
    BY <1>1, <1>2, <1>5, <1>6 DEF Has, HasEarly

LetGo(row) == [row EXCEPT !.at = NoClaim, !.result = "none"]

(* ... letting go of the one it is at, ...                                 *)
LEMMA LetGoRow ==
  ASSUME NEW row \in WorkerRow, RowOK(row)
  PROVE  /\ LetGo(row) \in WorkerRow /\ RowOK(LetGo(row))
         /\ \A j \in Jobs :
              /\ Has(LetGo(row), j) <=> Has(row, j) /\ row.at.job # j
              /\ HasEarly(LetGo(row), j) => HasEarly(row, j) /\ row.at.job # j
  <1>0. PICK new : new = LetGo(row)
    OBVIOUS
  <1>1. new.batch = row.batch /\ new.at = NoClaim /\ new.result = "none"
    BY <1>0 DEF WorkerRow, LetGo
  <1>2. new \in WorkerRow
    BY <1>0 DEF WorkerRow, LetGo
  <1>3. \A c \in row.batch : c.job # None
    BY JobIds DEF WorkerRow, Claims
  <1>4. RowOK(new)
    BY <1>1, <1>3 DEF RowOK, NoClaim
  <1>5. \A j \in Jobs : NoClaim.job # j
    BY JobIds DEF NoClaim
  <1> QED
    BY <1>0, <1>1, <1>2, <1>4, <1>5 DEF Has, HasEarly, RowOK

(* ... having nothing, ...                                                 *)
LEMMA IdleRow ==
  /\ IdleWorker \in WorkerRow /\ RowOK(IdleWorker)
  /\ \A j \in Jobs : ~Has(IdleWorker, j) /\ ~HasEarly(IdleWorker, j)
  <1>1. IdleWorker.batch = {} /\ IdleWorker.at = NoClaim /\ IdleWorker.result = "none"
    BY DEF IdleWorker
  <1>2. IdleWorker \in WorkerRow
    BY DEF IdleWorker, WorkerRow
  <1>3. \A j \in Jobs : NoClaim.job # j
    BY JobIds DEF NoClaim
  <1> QED
    BY <1>1, <1>2, <1>3 DEF Has, HasEarly, RowOK

(* ... having a batch only, ...                                            *)
LEMMA BatchRow ==
  ASSUME NEW b \in SUBSET Claims
  PROVE  [batch |-> b, at |-> NoClaim, result |-> "none"] \in WorkerRow
  BY DEF WorkerRow

(* ... and the batch just claimed.                                         *)
LEMMA ClaimRow ==
  ASSUME TypeOK, NEW S \in SUBSET Jobs, NEW new,
         new = [IdleWorker EXCEPT !.batch =
                  {[job |-> j, attempts |-> job[j].attempts] : j \in S}]
  PROVE  /\ new \in WorkerRow /\ RowOK(new)
         /\ \A j \in Jobs : /\ Has(new, j) <=> j \in S
                            /\ HasEarly(new, j) => job[j].attempts < MaxAttempts
  <1> DEFINE B == {[job |-> j, attempts |-> job[j].attempts] : j \in S}
  <1>1. new.batch = B /\ new.at = NoClaim /\ new.result = "none"
    BY DEF IdleWorker
  <1>2. \A j \in S : job[j].attempts \in 0..AttemptsBound
    BY TypeMeaning DEF JobRow
  <1>3. B \subseteq Claims
    BY <1>2 DEF Claims
  <1>4. \A c \in B : c.job \in S /\ c.attempts = job[c.job].attempts
    OBVIOUS
  <1>5. ASSUME NEW j \in S
        PROVE  \E c \in B : c.job = j
    <2> DEFINE c == [job |-> j, attempts |-> job[j].attempts]
    <2>1. c \in B /\ c.job = j
      OBVIOUS
    <2> QED
      BY <2>1
  <1>6. ASSUME NEW c \in B, NEW d \in B, c.job = d.job
        PROVE  c = d
    <2>1. PICK j \in S : c = [job |-> j, attempts |-> job[j].attempts]
      OBVIOUS
    <2>2. PICK k \in S : d = [job |-> k, attempts |-> job[k].attempts]
      OBVIOUS
    <2>3. j = k
      BY <1>6, <2>1, <2>2
    <2> QED
      BY <2>1, <2>2, <2>3
  <1>7. new = [batch |-> B, at |-> NoClaim, result |-> "none"]
    BY DEF IdleWorker
  <1> HIDE DEF B
  <1>8. new \in WorkerRow
    BY <1>3, <1>7, BatchRow
  <1>9. \A j \in Jobs : NoClaim.job # j
    BY JobIds DEF NoClaim
  <1>10. RowOK(new)
    BY <1>1, <1>4, <1>6, <1>9 DEF RowOK
  <1> QED
    BY <1>1, <1>4, <1>5, <1>8, <1>9, <1>10 DEF Has, HasEarly

(* One worker's row is replaced.                                           *)
LEMMA WorkerWrite ==
  ASSUME WorkersOK, NEW w \in Workers, NEW new \in WorkerRow, RowOK(new),
         worker' = [worker EXCEPT ![w] = new]
  PROVE  /\ WorkersOK' /\ worker'[w] = new
         /\ \A v \in Workers : v # w => worker'[v] = worker[v]
  <1>1. worker \in [Workers -> WorkerRow]
    BY DEF WorkersOK
  <1>2. /\ worker' \in [Workers -> WorkerRow] /\ worker'[w] = new
        /\ \A v \in Workers : v # w => worker'[v] = worker[v]
    BY <1>1
  <1> QED
    BY <1>2 DEF WorkersOK

-----------------------------------------------------------------------------
(* Counting the claims                                                     *)

(* Sets of workers have as many elements as sets have.                     *)
LEMMA Counts ==
  ASSUME NEW A \in SUBSET Workers, NEW B \in SUBSET Workers
  PROVE  /\ Cardinality(A) \in Nat /\ Cardinality(B) \in Nat
         /\ Cardinality(Workers) \in Nat /\ Cardinality(A) =< Cardinality(Workers)
         /\ A \subseteq B => Cardinality(A) =< Cardinality(B)
         /\ \A w \in B : A \subseteq B \ {w} => Cardinality(A) =< Cardinality(B) - 1
  <1>1. IsFiniteSet(Workers)
    BY PushAssumption
  <1>2. IsFiniteSet(A) /\ IsFiniteSet(B) /\ Cardinality(A) =< Cardinality(Workers)
    BY <1>1, FS_Subset
  <1>3. Cardinality(A) \in Nat /\ Cardinality(B) \in Nat /\ Cardinality(Workers) \in Nat
    BY <1>1, <1>2, FS_CardinalityType
  <1>4. A \subseteq B => Cardinality(A) =< Cardinality(B)
    BY <1>2, FS_Subset
  <1>5. ASSUME NEW w \in B, A \subseteq B \ {w}
        PROVE  Cardinality(A) =< Cardinality(B) - 1
    <2>1. IsFiniteSet(B \ {w}) /\ Cardinality(B \ {w}) = Cardinality(B) - 1
      BY <1>2, <1>5, FS_RemoveElement
    <2>2. Cardinality(A) =< Cardinality(B \ {w})
      BY <1>5, <2>1, FS_Subset
    <2> QED
      BY <2>1, <2>2
  <1> QED
    BY <1>2, <1>3, <1>4, <1>5

(* The holders are workers, before and after a step.                       *)
LEMMA HoldersAreWorkers ==
  \A j : /\ Holders(j) \in SUBSET Workers /\ EarlyHolders(j) \in SUBSET Workers
         /\ Holders(j)' \in SUBSET Workers /\ EarlyHolders(j)' \in SUBSET Workers
  BY DEF Holders, EarlyHolders

(* The bound is an integer that leaves room for every worker's claim.      *)
LEMMA BoundFacts ==
  /\ MaxAttempts \in Nat /\ MaxAttempts >= 1
  /\ Cardinality(Workers) \in Nat /\ AttemptsBound \in Nat
  /\ AttemptsBound = MaxAttempts - 1 + 2 * Cardinality(Workers)
  <1>1. Cardinality(Workers) \in Nat
    BY PushAssumption, FS_CardinalityType
  <1>2. MaxAttempts \in Nat /\ MaxAttempts >= 1
    BY PushAssumption
  <1> QED
    BY <1>1, <1>2 DEF AttemptsBound

(* A step that adds no hand and no attempt to a job.                       *)
LEMMA CountKept ==
  ASSUME NEW j \in Jobs, Counted(j), job[j].attempts \in Nat,
         \A w \in Workers : Has(worker'[w], j) => Has(worker[w], j),
         \A w \in Workers : HasEarly(worker'[w], j) => HasEarly(worker[w], j),
         job'[j].attempts = job[j].attempts, Pending(j)' => Pending(j)
  PROVE  Counted(j)'
  <1>1. Holders(j)' \subseteq Holders(j) /\ EarlyHolders(j)' \subseteq EarlyHolders(j)
    BY DEF Holders, EarlyHolders
  <1>2. PICK A \in SUBSET Workers, B \in SUBSET Workers :
          A = Holders(j)' /\ B = Holders(j)
    BY HoldersAreWorkers
  <1>3. PICK C \in SUBSET Workers, D \in SUBSET Workers :
          C = EarlyHolders(j)' /\ D = EarlyHolders(j)
    BY HoldersAreWorkers
  <1>4. /\ Cardinality(A) \in Nat /\ Cardinality(B) \in Nat
        /\ Cardinality(A) =< Cardinality(B)
    BY <1>1, <1>2, Counts
  <1>5. /\ Cardinality(C) \in Nat /\ Cardinality(D) \in Nat
        /\ Cardinality(C) =< Cardinality(D)
    BY <1>1, <1>3, Counts
  <1>6. /\ job[j].attempts + Cardinality(B) =< AttemptsBound
        /\ Pending(j) => job[j].attempts + Cardinality(D)
                           =< MaxAttempts - 1 + Cardinality(Workers)
    BY <1>2, <1>3 DEF Counted
  <1>7. /\ job'[j].attempts + Cardinality(A) =< AttemptsBound
        /\ Pending(j)' => job'[j].attempts + Cardinality(C)
                            =< MaxAttempts - 1 + Cardinality(Workers)
    BY <1>4, <1>5, <1>6, BoundFacts
  <1> QED
    BY <1>2, <1>3, <1>7 DEF Counted

-----------------------------------------------------------------------------
(* The steps, action by action                                             *)

(* The parts of the invariant a step starts from.                          *)
LEMMA Parts ==
  ASSUME Inv
  PROVE  /\ device \in [Devices -> DeviceRow] /\ event \in 0..MaxEvents /\ event \in Nat
         /\ job \in [Jobs -> JobRow] /\ delivered \in [Jobs -> 0..2]
         /\ excused \subseteq Jobs /\ WorkersOK /\ Untouched /\ OneHand
         /\ worker \in [Workers -> WorkerRow]
         /\ \A w \in Workers : worker[w] \in WorkerRow /\ RowOK(worker[w])
         /\ \A j \in Jobs : Counted(j) /\ job[j].attempts \in Nat
  <1>1. /\ device \in [Devices -> DeviceRow] /\ event \in 0..MaxEvents
        /\ job \in [Jobs -> JobRow] /\ delivered \in [Jobs -> 0..2]
        /\ excused \subseteq Jobs
    BY TypeMeaning DEF Inv
  <1>2. WorkersOK /\ Untouched /\ OneHand /\ AttemptsCounted
    BY DEF Inv
  <1>3. event \in Nat
    BY <1>1, PushAssumption
  <1>4. \A j \in Jobs : job[j].attempts \in Nat
    <2> TAKE j \in Jobs
    <2>1. job[j] \in JobRow
      BY <1>1
    <2>2. job[j].attempts \in 0..AttemptsBound
      BY <2>1 DEF JobRow
    <2> QED
      BY <2>2, BoundFacts
  <1>5. /\ worker \in [Workers -> WorkerRow]
        /\ \A w \in Workers : worker[w] \in WorkerRow /\ RowOK(worker[w])
    BY <1>2 DEF WorkersOK
  <1> QED
    BY <1>1, <1>2, <1>3, <1>4, <1>5 DEF AttemptsCounted

(* Steps of the API that write devices only.                               *)
LEMMA DeviceSteps ==
  ASSUME Inv, NEW d \in Devices,
         RevokePushDevice(d) \/ \E a \in Accounts : RegisterPushDevice(d, a)
  PROVE  Inv'
  <1>0. device \in [Devices -> DeviceRow]
    BY Parts
  <1>1. UNCHANGED <<event, job, worker, delivered, excused>>
    BY DEF RevokePushDevice, RegisterPushDevice
  <1>2. device' \in [Devices -> DeviceRow]
    <2>1. CASE RevokePushDevice(d)
      BY <1>0, <2>1 DEF RevokePushDevice, DeviceRow
    <2>2. ASSUME NEW a \in Accounts, RegisterPushDevice(d, a)
          PROVE  device' \in [Devices -> DeviceRow]
      BY <1>0, <2>2 DEF RegisterPushDevice, DeviceRow
    <2> QED
      BY <2>1, <2>2
  <1>3. WorkersOK' /\ Untouched' /\ OneHand' /\ AttemptsCounted'
    BY <1>1 DEF Inv, WorkersOK, Untouched, OneHand, InOneHand, UnderLease, Accounted,
       AttemptsCounted, Counted, Holders, EarlyHolders, Pending
  <1>4. TypeOK'
    <2>1. /\ event' \in 0..MaxEvents /\ job' \in [Jobs -> JobRow]
          /\ delivered' \in [Jobs -> 0..2] /\ excused' \subseteq Jobs
      BY <1>1, Parts
    <2> QED
      BY <1>2, <1>3, <2>1, TypeMeaning
  <1> QED
    BY <1>3, <1>4 DEF Inv

(* A step that leaves the workers alone and, of the jobs, keeps who has    *)
(* been delivered to.                                                      *)
LEMMA JobSteps ==
  ASSUME Inv, UNCHANGED <<device, event, worker, delivered>>,
         NEW j \in Jobs, NEW new \in JobRow, job' = [job EXCEPT ![j] = new],
         job[j] # NoJob,
         new.recipient = job[j].recipient, new.attempts = job[j].attempts,
         new.sent = job[j].sent, new.failed = job[j].failed,
         excused \subseteq excused', excused' \subseteq Jobs,
         new.lock = job[j].lock \/ j \in excused' \/ ~InHand(j)
  PROVE  Inv'
  <1>0. /\ job \in [Jobs -> JobRow] /\ Untouched /\ OneHand /\ WorkersOK
        /\ \A k \in Jobs : Counted(k) /\ job[k].attempts \in Nat
    BY Parts
  <1>1. /\ job'[j] = new /\ job' \in [Jobs -> JobRow]
        /\ \A k \in Jobs : k # j => job'[k] = job[k]
    BY <1>0
  <1>2. \A k \in Jobs : (Pending(k)' <=> Pending(k)) /\ job'[k].sent = job[k].sent
                        /\ job'[k].attempts = job[k].attempts
    BY <1>1 DEF Pending
  <1>3. WorkersOK'
    BY <1>0 DEF WorkersOK
  <1>4. Untouched'
    BY <1>0, <1>1 DEF Untouched
  <1>5. OneHand'
    <2> SUFFICES ASSUME NEW k \in Jobs, k \notin excused'
                 PROVE  InOneHand(k)' /\ UnderLease(k)' /\ Accounted(k)'
      BY DEF OneHand
    <2>1. InOneHand(k) /\ UnderLease(k) /\ Accounted(k)
      BY <1>0 DEF OneHand
    <2>2. InOneHand(k)' /\ Accounted(k)'
      BY <1>2, <2>1 DEF InOneHand, Accounted
    <2>3. (\E w \in Workers : Has(worker[w], k)) => job'[k].lock = job[k].lock
      BY <1>1 DEF InHand, Has
    <2>4. UnderLease(k)'
      BY <1>2, <2>1, <2>3 DEF UnderLease
    <2> QED
      BY <2>2, <2>4
  <1>6. AttemptsCounted'
    <2> SUFFICES ASSUME NEW k \in Jobs PROVE Counted(k)'
      BY DEF AttemptsCounted
    <2> QED
      BY <1>0, <1>2, CountKept
  <1>7. TypeOK'
    <2>1. /\ device' \in [Devices -> DeviceRow] /\ event' \in 0..MaxEvents
          /\ delivered' \in [Jobs -> 0..2]
      BY Parts
    <2> QED
      BY <1>1, <1>3, <2>1, TypeMeaning
  <1> QED
    BY <1>3, <1>4, <1>5, <1>6, <1>7 DEF Inv

(* A lease lapses; the job is excused when somebody has it.                *)
LEMMA LapseStep ==
  ASSUME Inv, NEW j \in Jobs, LeaseLapses(j)
  PROVE  Inv'
  <1>1. job \in [Jobs -> JobRow] /\ job[j] \in JobRow /\ excused \subseteq Jobs
    BY Parts
  <1> DEFINE new == [job[j] EXCEPT !.lock = "lapsed"]
  <1>2. job' = [job EXCEPT ![j] = new] /\ UNCHANGED <<device, event, worker, delivered>>
    BY DEF LeaseLapses
  <1>3. /\ new \in JobRow /\ new.recipient = job[j].recipient
        /\ new.attempts = job[j].attempts /\ new.sent = job[j].sent
        /\ new.failed = job[j].failed
    BY <1>1 DEF JobRow
  <1>4. job[j] # NoJob
    BY DEF LeaseLapses, NoJob
  <1>5. excused' = IF InHand(j) THEN excused \cup {j} ELSE excused
    BY DEF LeaseLapses
  <1>6. excused \subseteq excused' /\ excused' \subseteq Jobs /\ (j \in excused' \/ ~InHand(j))
    BY <1>1, <1>5
  <1> HIDE DEF new
  <1> QED
    BY <1>2, <1>3, <1>4, <1>6, JobSteps

(* A backoff ends.                                                         *)
LEMMA BackoffStep ==
  ASSUME Inv, NEW j \in Jobs, BackoffEnds(j)
  PROVE  Inv'
  <1>1. job \in [Jobs -> JobRow] /\ job[j] \in JobRow /\ excused \subseteq Jobs
    BY Parts
  <1> DEFINE new == [job[j] EXCEPT !.ready = TRUE]
  <1>2. /\ job' = [job EXCEPT ![j] = new]
        /\ UNCHANGED <<device, event, worker, delivered, excused>>
    BY DEF BackoffEnds
  <1>3. /\ new \in JobRow /\ new.recipient = job[j].recipient
        /\ new.attempts = job[j].attempts /\ new.sent = job[j].sent
        /\ new.failed = job[j].failed /\ new.lock = job[j].lock
    BY <1>1 DEF JobRow
  <1>4. job[j] # NoJob
    BY DEF BackoffEnds, Pending, NoJob
  <1> HIDE DEF new
  <1> QED
    BY <1>1, <1>2, <1>3, <1>4, JobSteps

(* A job nobody has yet counts as having room for every worker.            *)
LEMMA CountFew ==
  ASSUME NEW j \in Jobs, job'[j].attempts \in Nat, job'[j].attempts < MaxAttempts
  PROVE  Counted(j)'
  <1>1. PICK A \in SUBSET Workers, C \in SUBSET Workers :
          A = Holders(j)' /\ C = EarlyHolders(j)'
    BY HoldersAreWorkers
  <1>2. /\ Cardinality(A) \in Nat /\ Cardinality(A) =< Cardinality(Workers)
        /\ Cardinality(C) \in Nat /\ Cardinality(C) =< Cardinality(Workers)
    BY Counts
  <1>3. /\ job'[j].attempts + Cardinality(A) =< AttemptsBound
        /\ job'[j].attempts + Cardinality(C) =< MaxAttempts - 1 + Cardinality(Workers)
    BY <1>2, BoundFacts
  <1> QED
    BY <1>1, <1>3 DEF Counted

(* An event makes jobs nobody has heard of.                                *)
LEMMA EnqueueStep ==
  ASSUME Inv, NEW a \in Accounts, EnqueuePartnerNotification(a)
  PROVE  Inv'
  <1>0. /\ job \in [Jobs -> JobRow] /\ Untouched /\ OneHand /\ WorkersOK
        /\ event \in Nat /\ event \in 0..MaxEvents
        /\ \A k \in Jobs : Counted(k) /\ job[k].attempts \in Nat
    BY Parts
  <1> DEFINE new == [NoJob EXCEPT !.recipient = a, !.ready = TRUE]
             Made(j) == j[1] = event + 1 /\ LiveDevice(j[2]) /\ device[j[2]].owner = a
  <1>1. /\ event' = event + 1 /\ event < MaxEvents
        /\ job' = [j \in Jobs |-> IF Made(j) THEN new ELSE job[j]]
        /\ UNCHANGED <<device, worker, delivered, excused>>
    BY DEF EnqueuePartnerNotification
  <1>2. new \in JobRow /\ new.attempts = 0
    <2>1. 0 \in 0..AttemptsBound
      BY BoundFacts
    <2> QED
      BY <2>1 DEF NoJob, JobRow
  <1>3. \A j \in Jobs : Made(j) => j[1] > event
    BY <1>0
  <1> HIDE DEF new, Made
  <1>4. \A j \in Jobs : job'[j] = IF Made(j) THEN new ELSE job[j]
    BY <1>1
  <1>5. job' \in [Jobs -> JobRow] /\ event' \in 0..MaxEvents
    BY <1>0, <1>1, <1>2, PushAssumption
  <1>6. WorkersOK'
    BY <1>0, <1>1 DEF WorkersOK
  <1>7. Untouched'
    <2> SUFFICES ASSUME NEW j \in Jobs, j[1] > event'
                 PROVE  /\ job'[j] = NoJob /\ delivered'[j] = 0
                        /\ \A w \in Workers : ~Has(worker'[w], j)
      BY DEF Untouched
    <2>1. j[1] > event /\ j[1] # event + 1
      BY <1>0, <1>1, JobIds
    <2>2. ~Made(j)
      BY <2>1 DEF Made
    <2> QED
      BY <1>0, <1>1, <1>4, <2>1, <2>2 DEF Untouched
  <1>8. OneHand'
    <2> SUFFICES ASSUME NEW j \in Jobs, j \notin excused'
                 PROVE  InOneHand(j)' /\ UnderLease(j)' /\ Accounted(j)'
      BY DEF OneHand
    <2>1. InOneHand(j) /\ UnderLease(j) /\ Accounted(j)
      BY <1>0, <1>1 DEF OneHand
    <2>2. CASE Made(j)
      <3>1. delivered'[j] = 0 /\ \A w \in Workers : ~Has(worker'[w], j)
        BY <1>0, <1>1, <1>3, <2>2 DEF Untouched
      <3> QED
        BY <3>1 DEF InOneHand, UnderLease, Accounted
    <2>3. CASE ~Made(j)
      <3>1. job'[j] = job[j]
        BY <1>4, <2>3
      <3> QED
        BY <1>1, <2>1, <3>1 DEF InOneHand, UnderLease, Accounted, Pending
    <2> QED
      BY <2>2, <2>3
  <1>9. AttemptsCounted'
    <2> SUFFICES ASSUME NEW j \in Jobs PROVE Counted(j)'
      BY DEF AttemptsCounted
    <2>1. CASE Made(j)
      <3>1. job'[j].attempts = 0
        BY <1>2, <1>4, <2>1
      <3> QED
        BY <3>1, BoundFacts, CountFew
    <2>2. CASE ~Made(j)
      <3>1. job'[j] = job[j]
        BY <1>4, <2>2
      <3>2. Pending(j)' => Pending(j)
        BY <3>1 DEF Pending
      <3> QED
        BY <1>0, <1>1, <3>1, <3>2, CountKept
    <2> QED
      BY <2>1, <2>2
  <1>10. TypeOK'
    <2>1. /\ device' \in [Devices -> DeviceRow] /\ delivered' \in [Jobs -> 0..2]
          /\ excused' \subseteq Jobs
      BY <1>1, Parts
    <2> QED
      BY <1>5, <1>6, <2>1, TypeMeaning
  <1> QED
    BY <1>6, <1>7, <1>8, <1>9, <1>10 DEF Inv

(* A claim takes jobs nobody has, unless they are excused: a pending job   *)
(* in somebody's hand is under a lease.                                    *)
LEMMA ClaimStep ==
  ASSUME Inv, NEW w \in Workers, ClaimPushJobs(w)
  PROVE  Inv'
  <1>0. /\ job \in [Jobs -> JobRow] /\ Untouched /\ OneHand /\ WorkersOK /\ TypeOK
        /\ event \in Nat
        /\ \A k \in Jobs : Counted(k) /\ job[k].attempts \in Nat
    BY Parts DEF Inv
  <1>1. PICK S \in SUBSET Claimable :
          /\ job' = [j \in Jobs |->
               IF j \in S THEN [job[j] EXCEPT !.lock = "held"] ELSE job[j]]
          /\ worker' = [worker EXCEPT ![w].batch =
               {[job |-> j, attempts |-> job[j].attempts] : j \in S}]
    BY DEF ClaimPushJobs
  <1>2. worker[w] = IdleWorker /\ UNCHANGED <<device, event, delivered, excused>>
    BY DEF ClaimPushJobs
  <1>3. /\ S \in SUBSET Jobs
        /\ \A j \in S : Pending(j) /\ job[j].lock # "held"
    BY DEF Claimable
  <1> DEFINE new == [IdleWorker EXCEPT !.batch =
                       {[job |-> j, attempts |-> job[j].attempts] : j \in S}]
  <1>4. worker' = [worker EXCEPT ![w] = new]
    BY <1>1, <1>2
  <1>5. /\ new \in WorkerRow /\ RowOK(new)
        /\ \A j \in Jobs : /\ Has(new, j) <=> j \in S
                           /\ HasEarly(new, j) => job[j].attempts < MaxAttempts
    BY <1>0, <1>3, ClaimRow
  <1> HIDE DEF new
  <1>6. /\ WorkersOK' /\ worker'[w] = new
        /\ \A v \in Workers : v # w => worker'[v] = worker[v]
    BY <1>0, <1>4, <1>5, WorkerWrite
  <1>7. \A j \in Jobs : ~Has(worker[w], j) /\ ~HasEarly(worker[w], j)
    BY <1>2, IdleRow
  <1>8. ASSUME NEW j \in Jobs
        PROVE  /\ job'[j] \in JobRow /\ job'[j].attempts = job[j].attempts
               /\ job'[j].recipient = job[j].recipient
               /\ job'[j].sent = job[j].sent /\ job'[j].failed = job[j].failed
               /\ j \in S => job'[j].lock = "held"
               /\ j \notin S => job'[j] = job[j]
    <2>1. job[j] \in JobRow
      BY <1>0
    <2>2. job'[j] = IF j \in S THEN [job[j] EXCEPT !.lock = "held"] ELSE job[j]
      BY <1>1
    <2> QED
      BY <2>1, <2>2 DEF JobRow
  <1>9. \A j \in Jobs : Pending(j)' <=> Pending(j)
    BY <1>8 DEF Pending
  <1>10. \A j \in Jobs, v \in Workers :
           Has(worker'[v], j) <=> Has(worker[v], j) \/ (v = w /\ j \in S)
    BY <1>5, <1>6, <1>7
  <1>11. \A j \in S : j \notin excused => \A v \in Workers : ~Has(worker[v], j)
    BY <1>0, <1>3 DEF OneHand, UnderLease
  <1>12. Untouched'
    <2>1. \A j \in Jobs : j[1] > event => j \notin S
      BY <1>0, <1>3 DEF Untouched, Pending, NoJob
    <2> QED
      BY <1>0, <1>2, <1>8, <1>10, <2>1 DEF Untouched
  <1>13. OneHand'
    <2> SUFFICES ASSUME NEW j \in Jobs, j \notin excused'
                 PROVE  InOneHand(j)' /\ UnderLease(j)' /\ Accounted(j)'
      BY DEF OneHand
    <2>1. InOneHand(j) /\ UnderLease(j) /\ Accounted(j)
      BY <1>0, <1>2 DEF OneHand
    <2>2. InOneHand(j)'
      BY <1>2, <1>10, <1>11, <2>1 DEF InOneHand
    <2>3. UnderLease(j)'
      BY <1>8, <1>9, <1>10, <2>1 DEF UnderLease
    <2>4. \A v \in Workers : worker[v].at.job = j =>
            v # w /\ worker'[v] = worker[v]
      BY <1>6, <1>7 DEF Has
    <2>5. job[j].sent => j \notin S
      BY <1>3 DEF Pending
    <2>6. Accounted(j)'
      BY <1>2, <1>8, <1>10, <2>1, <2>4, <2>5 DEF Accounted
    <2> QED
      BY <2>2, <2>3, <2>6
  <1>14. AttemptsCounted'
    <2> SUFFICES ASSUME NEW j \in Jobs PROVE Counted(j)'
      BY DEF AttemptsCounted
    <2>1. CASE j \notin S
      <3>1. \A v \in Workers : /\ Has(worker'[v], j) => Has(worker[v], j)
                               /\ HasEarly(worker'[v], j) => HasEarly(worker[v], j)
        <4>1. ~Has(new, j) /\ ~HasEarly(new, j)
          BY <1>5, <2>1 DEF Has, HasEarly
        <4> QED
          BY <1>6, <4>1
      <3> QED
        BY <1>0, <1>8, <1>9, <3>1, CountKept
    <2>2. CASE j \in S /\ job[j].attempts < MaxAttempts
      BY <1>0, <1>8, <2>2, CountFew
    <2>3. CASE j \in S /\ ~(job[j].attempts < MaxAttempts)
      <3>1. EarlyHolders(j)' \subseteq EarlyHolders(j)
        BY <1>5, <1>6, <2>3 DEF EarlyHolders
      <3>2. PICK A \in SUBSET Workers, C \in SUBSET Workers, D \in SUBSET Workers :
              A = Holders(j)' /\ C = EarlyHolders(j)' /\ D = EarlyHolders(j)
        BY HoldersAreWorkers
      <3>3. /\ Cardinality(A) \in Nat /\ Cardinality(A) =< Cardinality(Workers)
        BY Counts
      <3>4. /\ Cardinality(C) \in Nat /\ Cardinality(D) \in Nat
            /\ Cardinality(C) =< Cardinality(D)
        BY <3>1, <3>2, Counts
      <3>5. job[j].attempts + Cardinality(D) =< MaxAttempts - 1 + Cardinality(Workers)
        BY <1>0, <1>3, <2>3, <3>2 DEF Counted
      <3>6. /\ job'[j].attempts + Cardinality(A) =< AttemptsBound
            /\ job'[j].attempts + Cardinality(C) =< MaxAttempts - 1 + Cardinality(Workers)
        <4>1. job[j].attempts \in Nat /\ job'[j].attempts = job[j].attempts
          BY <1>0, <1>8
        <4> QED
          BY <3>3, <3>4, <3>5, <4>1, BoundFacts
      <3> QED
        BY <3>2, <3>6 DEF Counted
    <2> QED
      BY <2>1, <2>2, <2>3
  <1>15. TypeOK'
    <2>1. /\ device' \in [Devices -> DeviceRow] /\ delivered' \in [Jobs -> 0..2]
          /\ excused' \subseteq Jobs /\ event' \in 0..MaxEvents
      BY <1>2, Parts
    <2>2. job' \in [Jobs -> JobRow]
      BY <1>1, <1>8
    <2> QED
      BY <1>6, <2>1, <2>2, TypeMeaning
  <1> QED
    BY <1>6, <1>12, <1>13, <1>14, <1>15 DEF Inv

(* Sending counts a delivery for a job in the sender's hand; unless it is  *)
(* excused nobody else has it, and it was not delivered before.            *)
LEMMA SendStep ==
  ASSUME Inv, NEW w \in Workers, Send(w)
  PROVE  Inv'
  <1>0. /\ job \in [Jobs -> JobRow] /\ Untouched /\ OneHand /\ WorkersOK
        /\ event \in Nat /\ delivered \in [Jobs -> 0..2] /\ excused \subseteq Jobs
        /\ worker[w] \in WorkerRow /\ RowOK(worker[w])
        /\ \A k \in Jobs : Counted(k) /\ job[k].attempts \in Nat
    BY Parts
  <1>1. PICK c \in worker[w].batch, result \in Results, accepted \in BOOLEAN :
          /\ result = "ok" => accepted
          /\ accepted => result \in {"ok", "retry"}
          /\ worker' = [worker EXCEPT
               ![w] = [batch |-> @.batch \ {c}, at |-> c, result |-> result]]
          /\ delivered' = IF accepted /\ delivered[c.job] < 2
                          THEN [delivered EXCEPT ![c.job] = @ + 1] ELSE delivered
          /\ excused' = IF accepted /\ result = "retry"
                        THEN excused \cup {c.job} ELSE excused
    BY DEF Send
  <1>2. worker[w].at = NoClaim /\ UNCHANGED <<device, event, job>>
    BY DEF Send
  <1>3. c.job \in Jobs
    <2>1. c \in Claims
      BY <1>0 DEF WorkerRow
    <2> QED
      BY <2>1 DEF Claims
  <1> DEFINE new == [batch |-> worker[w].batch \ {c}, at |-> c, result |-> result]
  <1>4. worker' = [worker EXCEPT ![w] = new]
    BY <1>1
  <1>5. /\ new \in WorkerRow /\ RowOK(new) /\ new.at = c /\ new.result = result
        /\ \A j \in Jobs : (Has(new, j) <=> Has(worker[w], j))
                           /\ (HasEarly(new, j) <=> HasEarly(worker[w], j))
    BY <1>0, <1>2, SendRow
  <1> HIDE DEF new
  <1>6. /\ WorkersOK' /\ worker'[w] = new
        /\ \A v \in Workers : v # w => worker'[v] = worker[v]
    BY <1>0, <1>4, <1>5, WorkerWrite
  <1>7. \A j \in Jobs, v \in Workers :
          /\ Has(worker'[v], j) <=> Has(worker[v], j)
          /\ HasEarly(worker'[v], j) <=> HasEarly(worker[v], j)
    BY <1>5, <1>6
  <1>8. Has(worker[w], c.job)
    BY DEF Has
  <1>9. \A j \in Jobs : worker[w].at.job # j
    BY <1>2, JobIds DEF NoClaim
  <1>10. /\ delivered' \in [Jobs -> 0..2]
         /\ \A j \in Jobs : j # c.job => delivered'[j] = delivered[j]
         /\ ~accepted => delivered' = delivered
         /\ delivered[c.job] = 0 => delivered'[c.job] =< 1
    <2>1. delivered[c.job] \in 0..2
      BY <1>0, <1>3
    <2>2. CASE accepted /\ delivered[c.job] < 2
      <3>1. delivered' = [delivered EXCEPT ![c.job] = delivered[c.job] + 1]
        BY <1>1, <2>2
      <3>2. delivered[c.job] + 1 \in 0..2
        BY <2>1, <2>2
      <3> QED
        BY <1>0, <1>3, <2>2, <3>1, <3>2
    <2>3. CASE ~(accepted /\ delivered[c.job] < 2)
      BY <1>0, <1>1, <2>1, <2>3
    <2> QED
      BY <2>2, <2>3
  <1>11. /\ excused \subseteq excused' /\ excused' \subseteq Jobs
         /\ accepted /\ result # "ok" => c.job \in excused'
    BY <1>0, <1>1, <1>3
  <1>12. Untouched'
    <2>1. \A j \in Jobs : j[1] > event => j # c.job
      BY <1>0, <1>8 DEF Untouched
    <2> QED
      BY <1>0, <1>2, <1>7, <1>10, <2>1 DEF Untouched
  <1>13. OneHand'
    <2> SUFFICES ASSUME NEW j \in Jobs, j \notin excused'
                 PROVE  InOneHand(j)' /\ UnderLease(j)' /\ Accounted(j)'
      BY DEF OneHand
    <2>1. InOneHand(j) /\ UnderLease(j) /\ Accounted(j)
      BY <1>0, <1>11 DEF OneHand
    <2>2. InOneHand(j)' /\ UnderLease(j)'
      BY <1>2, <1>7, <2>1 DEF InOneHand, UnderLease, Pending
    <2>3. Accounted(j)'
      <3>1. CASE j = c.job
        <4>1. \A v \in Workers : worker[v].at.job # j
          BY <1>8, <1>9, <2>1, <3>1 DEF InOneHand, Has
        <4>2. delivered[j] \in 0..2 /\ delivered[j] # 1
          BY <1>0, <1>8, <2>1, <3>1, <4>1 DEF Accounted
        <4>3. delivered[j] = 0
          BY <2>1, <4>2 DEF Accounted
        <4>4. accepted => worker'[w].at.job = j /\ worker'[w].result = "ok"
          BY <1>5, <1>6, <1>11, <3>1
        <4> QED
          BY <1>10, <3>1, <4>3, <4>4 DEF Accounted
      <3>2. CASE j # c.job
        <4>1. \A v \in Workers : worker[v].at.job = j => worker'[v] = worker[v]
          BY <1>6, <1>9
        <4>2. delivered'[j] = delivered[j] /\ job'[j] = job[j]
          BY <1>2, <1>10, <3>2
        <4> QED
          BY <1>7, <2>1, <4>1, <4>2 DEF Accounted
      <3> QED
        BY <3>1, <3>2
    <2> QED
      BY <2>2, <2>3
  <1>14. AttemptsCounted'
    <2> SUFFICES ASSUME NEW j \in Jobs PROVE Counted(j)'
      BY DEF AttemptsCounted
    <2>1. Pending(j)' => Pending(j)
      BY <1>2 DEF Pending
    <2> QED
      BY <1>0, <1>2, <1>7, <2>1, CountKept
  <1>15. TypeOK'
    <2>1. /\ device' \in [Devices -> DeviceRow] /\ event' \in 0..MaxEvents
          /\ job' \in [Jobs -> JobRow]
      BY <1>2, Parts
    <2> QED
      BY <1>6, <1>10, <1>11, <2>1, TypeMeaning
  <1> QED
    BY <1>6, <1>12, <1>13, <1>14, <1>15 DEF Inv

(* A worker lets go of jobs without a write; one that APNs accepted is     *)
(* excused.                                                                *)
LEMMA LetGoStep ==
  ASSUME Inv, NEW w \in Workers, NEW new \in WorkerRow, RowOK(new),
         worker' = [worker EXCEPT ![w] = new],
         UNCHANGED <<device, event, job, delivered>>,
         excused' = excused \cup Excuse(w),
         \A j \in Jobs : /\ Has(new, j) => Has(worker[w], j)
                         /\ HasEarly(new, j) => HasEarly(worker[w], j)
  PROVE  Inv'
  <1>0. /\ Untouched /\ OneHand /\ WorkersOK /\ excused \subseteq Jobs
        /\ worker[w] \in WorkerRow /\ RowOK(worker[w])
        /\ \A k \in Jobs : Counted(k) /\ job[k].attempts \in Nat
    BY Parts
  <1>1. /\ WorkersOK' /\ worker'[w] = new
        /\ \A v \in Workers : v # w => worker'[v] = worker[v]
    BY <1>0, WorkerWrite
  <1>2. \A j \in Jobs, v \in Workers :
          /\ Has(worker'[v], j) => Has(worker[v], j)
          /\ HasEarly(worker'[v], j) => HasEarly(worker[v], j)
    BY <1>1
  <1>3. worker[w].result = "ok" => worker[w].at.job \in Jobs
    <2>1. worker[w].result = "ok" => worker[w].at \in Claims
      BY <1>0 DEF WorkerRow, RowOK
    <2> QED
      BY <2>1 DEF Claims
  <1>4. excused' \subseteq Jobs
    BY <1>0, <1>3 DEF Excuse
  <1>5. \A j \in Jobs : j \notin excused' =>
          j \notin excused /\ ~(worker[w].at.job = j /\ worker[w].result = "ok")
    BY DEF Excuse
  <1>6. Untouched'
    BY <1>0, <1>2 DEF Untouched
  <1>7. OneHand'
    <2> SUFFICES ASSUME NEW j \in Jobs, j \notin excused'
                 PROVE  InOneHand(j)' /\ UnderLease(j)' /\ Accounted(j)'
      BY DEF OneHand
    <2>1. InOneHand(j) /\ UnderLease(j) /\ Accounted(j)
      BY <1>0, <1>5 DEF OneHand
    <2>2. InOneHand(j)' /\ UnderLease(j)'
      BY <1>2, <2>1 DEF InOneHand, UnderLease, Pending
    <2>3. \A v \in Workers : worker[v].at.job = j /\ worker[v].result = "ok" =>
            worker'[v] = worker[v]
      BY <1>1, <1>5
    <2>4. Accounted(j)'
      BY <1>2, <2>1, <2>3 DEF Accounted
    <2> QED
      BY <2>2, <2>4
  <1>8. AttemptsCounted'
    <2> SUFFICES ASSUME NEW j \in Jobs PROVE Counted(j)'
      BY DEF AttemptsCounted
    <2>1. Pending(j)' => Pending(j)
      BY DEF Pending
    <2> QED
      BY <1>0, <1>2, <2>1, CountKept
  <1>9. TypeOK'
    <2>1. /\ device' \in [Devices -> DeviceRow] /\ event' \in 0..MaxEvents
          /\ job' \in [Jobs -> JobRow] /\ delivered' \in [Jobs -> 0..2]
      BY Parts
    <2> QED
      BY <1>1, <1>4, <2>1, TypeMeaning
  <1> QED
    BY <1>1, <1>6, <1>7, <1>8, <1>9 DEF Inv

(* A write fails, or the worker stops.                                     *)
LEMMA FailureSteps ==
  ASSUME Inv, NEW w \in Workers, WriteFails(w) \/ WorkerDies(w)
  PROVE  Inv'
  <1>0. /\ worker[w] \in WorkerRow /\ RowOK(worker[w])
        /\ worker \in [Workers -> WorkerRow]
    BY Parts
  <1>1. CASE WriteFails(w)
    <2>1. /\ worker' = [worker EXCEPT ![w] = LetGo(worker[w])]
          /\ excused' = excused \cup Excuse(w)
          /\ UNCHANGED <<device, event, job, delivered>>
      BY <1>0, <1>1 DEF WriteFails, LetGo
    <2> QED
      BY <1>0, <2>1, LetGoRow, LetGoStep
  <1>2. CASE WorkerDies(w)
    BY <1>2, IdleRow, LetGoStep DEF WorkerDies
  <1> QED
    BY <1>1, <1>2

-----------------------------------------------------------------------------
(* Writing an outcome                                                      *)

(* What each outcome writes to the job the worker is at, and to the others *)
(* on a device that is gone.                                               *)
LEMMA OutcomeRows ==
  ASSUME Inv, NEW w \in Workers, WriteOutcome(w),
         NEW c, c = worker[w].at
  PROVE  /\ c \in Claims /\ c.job \in Jobs /\ worker[w].result \in Results
         /\ worker' = [worker EXCEPT ![w].at = NoClaim, ![w].result = "none"]
         /\ UNCHANGED <<event, delivered, excused>>
         /\ \/ worker[w].result = "ok" /\ MarkPushSent(c.job)
            \/ worker[w].result = "gone" /\ RevokePushToken(c.job[2])
            \/ /\ worker[w].result = "retry" /\ c.attempts < MaxAttempts
               /\ RetryPush(c.job)
            \/ worker[w].result # "ok" /\ FailPush(c.job)
  <1>1. c # NoClaim /\ worker[w] \in WorkerRow /\ RowOK(worker[w])
    BY Parts DEF WriteOutcome
  <1>2. c \in Claims /\ worker[w].result \in Results
    BY <1>1 DEF WorkerRow, RowOK
  <1>3. c.job \in Jobs /\ c.attempts \in 0..AttemptsBound
    BY <1>2 DEF Claims
  <1>4. ~(c.attempts >= MaxAttempts) => c.attempts < MaxAttempts
    BY <1>3, BoundFacts
  <1>5. /\ worker' = [worker EXCEPT ![w].at = NoClaim, ![w].result = "none"]
        /\ UNCHANGED <<event, delivered, excused>>
    BY DEF WriteOutcome
  <1>6. CASE worker[w].result = "ok"
    <2>1. MarkPushSent(c.job)
      BY <1>6 DEF WriteOutcome
    <2> QED
      BY <1>2, <1>3, <1>5, <1>6, <2>1
  <1>7. CASE worker[w].result = "gone"
    <2>1. RevokePushToken(c.job[2])
      BY <1>7 DEF WriteOutcome
    <2> QED
      BY <1>2, <1>3, <1>5, <1>7, <2>1
  <1>8. CASE worker[w].result = "retry"
    <2>1. Retry(c)
      BY <1>8 DEF WriteOutcome
    <2>2. (c.attempts < MaxAttempts /\ RetryPush(c.job)) \/ FailPush(c.job)
      BY <1>4, <2>1 DEF Retry
    <2> QED
      BY <1>2, <1>3, <1>5, <1>8, <2>2
  <1>9. CASE worker[w].result = "bad"
    <2>1. FailPush(c.job)
      BY <1>9 DEF WriteOutcome
    <2> QED
      BY <1>2, <1>3, <1>5, <1>9, <2>1
  <1> QED
    BY <1>2, <1>6, <1>7, <1>8, <1>9 DEF Results

(* An outcome leaves a job pending only as a retry that counts, and leaves *)
(* another job alone unless it fails it.                                   *)
Settled(c, result) ==
  /\ device' \in [Devices -> DeviceRow]
  /\ DOMAIN job' = Jobs /\ job' = [k \in Jobs |-> job'[k]]
  /\ \A k \in Jobs :
       /\ job'[k].recipient = job[k].recipient
       /\ \/ job'[k].attempts = job[k].attempts
          \/ k = c.job /\ job'[k].attempts = job[k].attempts + 1
       /\ job'[k].attempts \in 0..AttemptsBound => job'[k] \in JobRow
       /\ job[k].sent => job'[k].sent
       /\ k # c.job => job'[k].sent = job[k].sent
       /\ job'[k] = job[k] \/ Pending(k) \/ k = c.job
       /\ k # c.job /\ Pending(k)' => job'[k] = job[k]
       /\ k = c.job /\ Pending(k)' =>
            Pending(k) /\ job'[k].attempts = job[k].attempts + 1
            /\ c.attempts < MaxAttempts
       /\ k = c.job /\ result = "ok" => job'[k].sent

(* One row is replaced, by one of the three writes to it.                  *)
LEMMA RowSettled ==
  ASSUME Inv, NEW c \in Claims, NEW result, c.job \in Jobs,
         UNCHANGED device, NEW new, job' = [job EXCEPT ![c.job] = new],
         new.recipient = job[c.job].recipient,
         new.attempts \in {job[c.job].attempts, job[c.job].attempts + 1},
         new.attempts \in 0..AttemptsBound => new \in JobRow,
         job[c.job].sent => new.sent,
         ~new.sent /\ ~new.failed =>
           /\ ~job[c.job].failed /\ new.attempts = job[c.job].attempts + 1
           /\ c.attempts < MaxAttempts,
         result = "ok" => new.sent
  PROVE  Settled(c, result)
  <1>0. job \in [Jobs -> JobRow] /\ device \in [Devices -> DeviceRow]
    BY Parts
  <1>1. /\ DOMAIN job' = Jobs /\ job' = [k \in Jobs |-> job'[k]] /\ job'[c.job] = new
        /\ \A k \in Jobs : k # c.job => job'[k] = job[k]
    BY <1>0
  <1>2. \A k \in Jobs : job[k] \in JobRow
    BY <1>0
  <1>3. Pending(c.job)' => /\ Pending(c.job) /\ new.attempts = job[c.job].attempts + 1
                           /\ c.attempts < MaxAttempts
    BY <1>1 DEF Pending
  <1>4. ASSUME NEW k \in Jobs, k # c.job
        PROVE  job'[k] = job[k] /\ job[k] \in JobRow
    BY <1>1, <1>2, <1>4
  <1>5. job'[c.job].attempts \in {job[c.job].attempts, job[c.job].attempts + 1}
    BY <1>1
  <1> QED
    BY <1>0, <1>1, <1>3, <1>4, <1>5 DEF Settled

(* Every outcome settles.                                                  *)
LEMMA OutcomeSettles ==
  ASSUME Inv, NEW w \in Workers, WriteOutcome(w),
         NEW c, c = worker[w].at
  PROVE  Settled(c, worker[w].result)
  <1>0. /\ job \in [Jobs -> JobRow] /\ device \in [Devices -> DeviceRow]
        /\ c \in Claims /\ c.job \in Jobs /\ job[c.job] \in JobRow
        /\ job[c.job].attempts \in Nat
    BY Parts, OutcomeRows
  <1>1. PICK result : result = worker[w].result
    OBVIOUS
  <1>2. CASE MarkPushSent(c.job)
    <2> DEFINE new == [job[c.job] EXCEPT !.sent = TRUE, !.lock = "none"]
    <2>1. job' = [job EXCEPT ![c.job] = new] /\ UNCHANGED device
      BY <1>0, <1>2 DEF MarkPushSent
    <2>2. /\ new \in JobRow /\ new.recipient = job[c.job].recipient
          /\ new.attempts = job[c.job].attempts /\ new.sent = TRUE
      BY <1>0 DEF JobRow
    <2> HIDE DEF new
    <2>3. Settled(c, result)
      BY <1>0, <2>1, <2>2, RowSettled
    <2> QED
      BY <1>1, <2>3
  <1>3. CASE worker[w].result # "ok" /\ FailPush(c.job)
    <2> DEFINE new == [job[c.job] EXCEPT !.attempts = @ + 1, !.failed = TRUE,
                                         !.lock = "none"]
    <2>1. job' = [job EXCEPT ![c.job] = new] /\ UNCHANGED device
      BY <1>0, <1>3 DEF FailPush
    <2>2. /\ new.recipient = job[c.job].recipient
          /\ new.attempts = job[c.job].attempts + 1
          /\ new.sent = job[c.job].sent /\ new.failed = TRUE
          /\ new.attempts \in 0..AttemptsBound => new \in JobRow
      BY <1>0 DEF JobRow
    <2> HIDE DEF new
    <2>3. Settled(c, result)
      BY <1>0, <1>1, <1>3, <2>1, <2>2, RowSettled
    <2> QED
      BY <1>1, <2>3
  <1>4. CASE worker[w].result = "retry" /\ c.attempts < MaxAttempts /\ RetryPush(c.job)
    <2> DEFINE new == [job[c.job] EXCEPT !.attempts = @ + 1, !.ready = FALSE,
                                         !.lock = "none"]
    <2>1. job' = [job EXCEPT ![c.job] = new] /\ UNCHANGED device
      BY <1>0, <1>4 DEF RetryPush
    <2>2. /\ new.recipient = job[c.job].recipient
          /\ new.attempts = job[c.job].attempts + 1
          /\ new.sent = job[c.job].sent /\ new.failed = job[c.job].failed
          /\ new.attempts \in 0..AttemptsBound => new \in JobRow
      BY <1>0 DEF JobRow
    <2> HIDE DEF new
    <2>3. Settled(c, result)
      BY <1>0, <1>1, <1>4, <2>1, <2>2, RowSettled
    <2> QED
      BY <1>1, <2>3
  <1>5. CASE worker[w].result = "gone" /\ RevokePushToken(c.job[2])
    <2>1. /\ device' = [device EXCEPT ![c.job[2]].revoked = TRUE]
          /\ job' = [j \in Jobs |->
               IF j[2] = c.job[2] /\ Pending(j)
               THEN [job[j] EXCEPT !.failed = TRUE, !.lock = "none"] ELSE job[j]]
      BY <1>5 DEF RevokePushToken
    <2>2. device' \in [Devices -> DeviceRow]
      BY <1>0, <2>1, JobIds DEF DeviceRow
    <2>3. DOMAIN job' = Jobs /\ job' = [k \in Jobs |-> job'[k]]
      BY <2>1
    <2>4. ASSUME NEW k \in Jobs
          PROVE  /\ job'[k] \in JobRow /\ job'[k].recipient = job[k].recipient
                 /\ job'[k].attempts = job[k].attempts /\ job'[k].sent = job[k].sent
                 /\ \/ job'[k] = job[k] /\ (k = c.job => ~Pending(k))
                    \/ Pending(k) /\ job'[k].failed
      <3>1. job[k] \in JobRow
        BY <1>0
      <3>2. job'[k] = IF k[2] = c.job[2] /\ Pending(k)
                      THEN [job[k] EXCEPT !.failed = TRUE, !.lock = "none"] ELSE job[k]
        BY <2>1
      <3> QED
        BY <3>1, <3>2 DEF JobRow
    <2>5. \A k \in Jobs : Pending(k)' => job'[k] = job[k] /\ k # c.job
      BY <2>4 DEF Pending
    <2> QED
      BY <1>5, <2>2, <2>3, <2>4, <2>5 DEF Settled
  <1> QED
    BY <1>2, <1>3, <1>4, <1>5, OutcomeRows

(* An attempt that is written uses up the claim of the worker that wrote   *)
(* it.                                                                     *)
LEMMA CountWritten ==
  ASSUME NEW j \in Jobs, Counted(j), job[j].attempts \in Nat,
         NEW w \in Workers, Has(worker[w], j),
         \A v \in Workers : Has(worker'[v], j) => Has(worker[v], j) /\ v # w,
         \A v \in Workers : HasEarly(worker'[v], j) => HasEarly(worker[v], j) /\ v # w,
         job'[j].attempts \in {job[j].attempts, job[j].attempts + 1},
         Pending(j)' => Pending(j) /\ HasEarly(worker[w], j)
  PROVE  Counted(j)' /\ job'[j].attempts \in 0..AttemptsBound
  <1>1. PICK A \in SUBSET Workers, B \in SUBSET Workers :
          A = Holders(j)' /\ B = Holders(j)
    BY HoldersAreWorkers
  <1>2. PICK C \in SUBSET Workers, D \in SUBSET Workers :
          C = EarlyHolders(j)' /\ D = EarlyHolders(j)
    BY HoldersAreWorkers
  <1>3. w \in B /\ A \subseteq B \ {w}
    BY <1>1 DEF Holders
  <1>4. C \subseteq D \ {w} /\ (Pending(j)' => w \in D)
    BY <1>2 DEF EarlyHolders
  <1>5. /\ Cardinality(A) \in Nat /\ Cardinality(B) \in Nat
        /\ Cardinality(A) =< Cardinality(B) - 1
    BY <1>3, Counts
  <1>6. /\ Cardinality(C) \in Nat /\ Cardinality(D) \in Nat
        /\ Pending(j)' => Cardinality(C) =< Cardinality(D) - 1
    BY <1>4, Counts
  <1>7. /\ job[j].attempts + Cardinality(B) =< AttemptsBound
        /\ Pending(j) => job[j].attempts + Cardinality(D)
                           =< MaxAttempts - 1 + Cardinality(Workers)
    BY <1>1, <1>2 DEF Counted
  <1>8. /\ job'[j].attempts \in Nat /\ job'[j].attempts + Cardinality(A) =< AttemptsBound
        /\ job'[j].attempts =< AttemptsBound
    BY <1>5, <1>7, BoundFacts
  <1>9. Pending(j)' => job'[j].attempts + Cardinality(C)
                         =< MaxAttempts - 1 + Cardinality(Workers)
    BY <1>6, <1>7, BoundFacts
  <1>10. job'[j].attempts \in 0..AttemptsBound
    BY <1>8, BoundFacts
  <1> QED
    BY <1>1, <1>2, <1>8, <1>9, <1>10 DEF Counted

(* The outcome is written and the worker lets go of the job; unless it is  *)
(* excused nobody has it any more.                                         *)
LEMMA OutcomeStep ==
  ASSUME Inv, NEW w \in Workers, WriteOutcome(w)
  PROVE  Inv'
  <1>0. /\ job \in [Jobs -> JobRow] /\ Untouched /\ OneHand /\ WorkersOK
        /\ event \in 0..MaxEvents /\ delivered \in [Jobs -> 0..2]
        /\ excused \subseteq Jobs
        /\ worker \in [Workers -> WorkerRow]
        /\ worker[w] \in WorkerRow /\ RowOK(worker[w])
        /\ \A k \in Jobs : Counted(k) /\ job[k].attempts \in Nat
    BY Parts
  <1>1. PICK c : c = worker[w].at
    OBVIOUS
  <1>2. PICK result : result = worker[w].result
    OBVIOUS
  <1>3. /\ c.job \in Jobs /\ UNCHANGED <<event, delivered, excused>>
        /\ worker' = [worker EXCEPT ![w].at = NoClaim, ![w].result = "none"]
    BY <1>1, OutcomeRows
  <1>4. Settled(c, result)
    BY <1>1, <1>2, OutcomeSettles
  <1>5. PICK new : new = LetGo(worker[w])
    OBVIOUS
  <1>6. /\ new \in WorkerRow /\ RowOK(new) /\ worker' = [worker EXCEPT ![w] = new]
        /\ \A j \in Jobs :
             /\ Has(new, j) <=> Has(worker[w], j) /\ worker[w].at.job # j
             /\ HasEarly(new, j) => HasEarly(worker[w], j) /\ worker[w].at.job # j
    <2>1. worker' = [worker EXCEPT ![w] = new]
      BY <1>0, <1>3, <1>5 DEF LetGo
    <2> QED
      BY <1>0, <1>5, <2>1, LetGoRow
  <1>7. /\ WorkersOK' /\ worker'[w] = new
        /\ \A v \in Workers : v # w => worker'[v] = worker[v]
    BY <1>0, <1>6, WorkerWrite
  <1>8. \A j \in Jobs, v \in Workers :
          /\ Has(worker'[v], j) => Has(worker[v], j) /\ ~(v = w /\ j = c.job)
          /\ HasEarly(worker'[v], j) => HasEarly(worker[v], j) /\ ~(v = w /\ j = c.job)
    BY <1>1, <1>6, <1>7
  <1>9. /\ Has(worker[w], c.job)
        /\ c.attempts < MaxAttempts => HasEarly(worker[w], c.job)
    BY <1>1 DEF Has, HasEarly
  <1>10. ASSUME NEW j \in Jobs
         PROVE  Counted(j)' /\ job'[j].attempts \in 0..AttemptsBound
    <2>1. CASE j = c.job
      <3>1. /\ job'[j].attempts \in {job[j].attempts, job[j].attempts + 1}
            /\ Pending(j)' => Pending(j) /\ HasEarly(worker[w], j)
        BY <1>4, <1>9, <2>1 DEF Settled
      <3> QED
        BY <1>0, <1>8, <1>9, <2>1, <3>1, CountWritten
    <2>2. CASE j # c.job
      <3>1. job'[j].attempts = job[j].attempts /\ (Pending(j)' => job'[j] = job[j])
        BY <1>4, <2>2 DEF Settled
      <3>2. Pending(j)' => Pending(j)
        BY <3>1 DEF Pending
      <3>3. job[j].attempts \in 0..AttemptsBound
        BY <1>0 DEF JobRow
      <3> QED
        BY <1>0, <1>8, <3>1, <3>2, <3>3, CountKept
    <2> QED
      BY <2>1, <2>2
  <1>11. job' \in [Jobs -> JobRow] /\ device' \in [Devices -> DeviceRow]
    <2>1. \A j \in Jobs : job'[j] \in JobRow
      BY <1>4, <1>10 DEF Settled
    <2>2. job' = [k \in Jobs |-> job'[k]] /\ device' \in [Devices -> DeviceRow]
      BY <1>4 DEF Settled
    <2> QED
      BY <2>1, <2>2
  <1>12. Untouched'
    <2> SUFFICES ASSUME NEW j \in Jobs, j[1] > event
                 PROVE  /\ job'[j] = NoJob /\ delivered'[j] = 0
                        /\ \A v \in Workers : ~Has(worker'[v], j)
      BY <1>3 DEF Untouched
    <2>1. job[j] = NoJob /\ delivered[j] = 0 /\ \A v \in Workers : ~Has(worker[v], j)
      BY <1>0 DEF Untouched
    <2>2. j # c.job /\ ~Pending(j)
      BY <1>9, <2>1 DEF Pending, NoJob
    <2>3. job'[j] = job[j]
      BY <1>4, <2>2 DEF Settled
    <2> QED
      BY <1>3, <1>8, <2>1, <2>3
  <1>13. OneHand'
    <2> SUFFICES ASSUME NEW j \in Jobs, j \notin excused'
                 PROVE  InOneHand(j)' /\ UnderLease(j)' /\ Accounted(j)'
      BY DEF OneHand
    <2>1. InOneHand(j) /\ UnderLease(j) /\ Accounted(j)
      BY <1>0, <1>3 DEF OneHand
    <2>2. InOneHand(j)'
      BY <1>8, <2>1 DEF InOneHand
    <2>3. CASE j = c.job
      <3>1. \A v \in Workers : ~Has(worker'[v], j)
        BY <1>8, <1>9, <2>1, <2>3 DEF InOneHand
      <3>2. \A v \in Workers : worker[v].at.job = j => v = w
        BY <1>9, <2>1, <2>3 DEF InOneHand, Has
      <3>3. delivered[j] = 1 => result = "ok"
        BY <1>2, <1>9, <2>1, <2>3, <3>2 DEF Accounted
      <3>4. result = "ok" => job'[j].sent
        BY <1>4, <2>3 DEF Settled
      <3>5. Accounted(j)'
        BY <1>3, <2>1, <3>1, <3>3, <3>4 DEF Accounted
      <3> QED
        BY <2>2, <3>1, <3>5 DEF UnderLease
    <2>4. CASE j # c.job
      <3>1. job'[j].sent = job[j].sent /\ (Pending(j)' => job'[j] = job[j])
        BY <1>4, <2>4 DEF Settled
      <3>2. UnderLease(j)'
        BY <1>8, <2>1, <3>1 DEF UnderLease, Pending
      <3>3. \A v \in Workers : worker[v].at.job = j => worker'[v] = worker[v]
        BY <1>1, <1>7, <2>4
      <3>4. Accounted(j)'
        BY <1>3, <1>8, <2>1, <3>1, <3>3 DEF Accounted
      <3> QED
        BY <2>2, <3>2, <3>4
    <2> QED
      BY <2>3, <2>4
  <1>14. TypeOK'
    <2>1. /\ event' \in 0..MaxEvents /\ delivered' \in [Jobs -> 0..2]
          /\ excused' \subseteq Jobs
      BY <1>0, <1>3
    <2> QED
      BY <1>7, <1>11, <2>1, TypeMeaning
  <1> QED
    BY <1>7, <1>10, <1>12, <1>13, <1>14 DEF Inv, AttemptsCounted

-----------------------------------------------------------------------------
(* The theorems                                                            *)

(* The invariant holds at the start, where there are no jobs.              *)
LEMMA InitInv ==
  Init => Inv
  <1> SUFFICES ASSUME Init PROVE Inv
    OBVIOUS
  <1>1. 0 \in 0..AttemptsBound /\ 0 \in 0..MaxEvents
    BY BoundFacts, PushAssumption
  <1>2. NoJob \in JobRow /\ NoJob.attempts = 0 /\ NoJob.recipient = None
    BY <1>1 DEF NoJob, JobRow
  <1>3. /\ \A w \in Workers : worker[w] = IdleWorker
        /\ \A j \in Jobs : job[j] = NoJob /\ delivered[j] = 0
    BY DEF Init
  <1>4. \A j \in Jobs, w \in Workers : ~Has(worker[w], j) /\ ~HasEarly(worker[w], j)
    BY <1>3, IdleRow
  <1>5. WorkersOK
    BY IdleRow DEF Init, WorkersOK
  <1>6. device \in [Devices -> DeviceRow] /\ job \in [Jobs -> JobRow]
    BY <1>2 DEF Init, DeviceRow
  <1>7. TypeOK
    <2>1. delivered \in [Jobs -> 0..2] /\ event \in 0..MaxEvents /\ excused \subseteq Jobs
      BY <1>1 DEF Init
    <2>2. ASSUME NEW w \in Workers
          PROVE  /\ worker[w].batch \subseteq Claims
                 /\ worker[w].at \in Claims \cup {NoClaim}
                 /\ worker[w].result \in Results \cup {"none"}
      BY <1>5 DEF WorkersOK, WorkerRow
    <2> QED
      BY <1>6, <2>1, <2>2 DEF TypeOK, DeviceRow, JobRow
  <1>8. Untouched
    BY <1>3, <1>4 DEF Untouched
  <1>9. OneHand
    BY <1>3, <1>4 DEF OneHand, InOneHand, UnderLease, Accounted
  <1>10. AttemptsCounted
    <2> SUFFICES ASSUME NEW j \in Jobs PROVE Counted(j)
      BY DEF AttemptsCounted
    <2>1. Holders(j) = {} /\ job[j].attempts = 0 /\ ~Pending(j)
      BY <1>2, <1>3, <1>4 DEF Holders, Pending
    <2>2. Cardinality(Holders(j)) = 0
      BY <2>1, FS_EmptySet
    <2> QED
      BY <2>1, <2>2, BoundFacts DEF Counted
  <1> QED
    BY <1>5, <1>7, <1>8, <1>9, <1>10 DEF Inv

(* Every step keeps it.                                                    *)
LEMMA StepInv ==
  Inv /\ [Next]_vars => Inv'
  <1> SUFFICES ASSUME Inv, [Next]_vars PROVE Inv'
    OBVIOUS
  <1>1. ASSUME NEW d \in Devices,
               RevokePushDevice(d) \/ \E a \in Accounts : RegisterPushDevice(d, a)
        PROVE  Inv'
    BY <1>1, DeviceSteps
  <1>2. ASSUME NEW a \in Accounts, EnqueuePartnerNotification(a)
        PROVE  Inv'
    BY <1>2, EnqueueStep
  <1>3. ASSUME NEW w \in Workers,
               ClaimPushJobs(w) \/ Send(w) \/ WriteOutcome(w) \/ WriteFails(w)
                 \/ WorkerDies(w)
        PROVE  Inv'
    BY <1>3, ClaimStep, SendStep, OutcomeStep, FailureSteps
  <1>4. ASSUME NEW j \in Jobs, LeaseLapses(j) \/ BackoffEnds(j)
        PROVE  Inv'
    BY <1>4, LapseStep, BackoffStep
  <1>5. CASE UNCHANGED vars
    <2>1. UNCHANGED <<device, event, job, worker, delivered, excused>>
      BY <1>5 DEF vars
    <2>2. TypeOK' /\ WorkersOK'
      BY <2>1 DEF Inv, TypeOK, WorkersOK
    <2>3. Untouched'
      BY <2>1 DEF Inv, Untouched
    <2>4. OneHand'
      BY <2>1 DEF Inv, OneHand, InOneHand, UnderLease, Accounted, Pending
    <2>5. AttemptsCounted'
      BY <2>1 DEF Inv, AttemptsCounted, Counted, Holders, EarlyHolders, Pending
    <2> QED
      BY <2>2, <2>3, <2>4, <2>5 DEF Inv
  <1> QED
    BY <1>1, <1>2, <1>3, <1>4, <1>5 DEF Next

(* The inductive invariant of the push tables and their workers.           *)
THEOREM PushInv == Spec => []Inv
  BY InitInv, StepInv, PTL DEF Spec

(* The tables keep their shape under every interleaving of the workers; in *)
(* particular attempts never exceeds AttemptsBound, although no write of a *)
(* worker looks at the lease, or at the count it read with its claim       *)
(* having changed since.                                                   *)
THEOREM PushTypeCorrect == Spec => []TypeOK
  <1>1. Inv => TypeOK
    BY DEF Inv
  <1> QED
    BY <1>1, PushInv, PTL

(* APNs accepts a notification once, with any number of workers, unless a  *)
(* lease lapsed under a worker that was still at its batch, a transport    *)
(* error hid the acceptance, or the worker could not write it down.        *)
THEOREM DeliveredOnce == Spec => []DeliveredOnceUnlessExcused
  <1>1. Inv => DeliveredOnceUnlessExcused
    <2> SUFFICES ASSUME Inv, NEW j \in Jobs, j \notin excused
                 PROVE  ~(delivered[j] > 1)
      BY DEF DeliveredOnceUnlessExcused
    <2>1. delivered[j] =< 1
      BY Parts DEF OneHand, Accounted
    <2>2. delivered[j] \in 0..2
      BY Parts
    <2> QED
      BY <2>1, <2>2
  <1> QED
    BY <1>1, PushInv, PTL
=============================================================================
