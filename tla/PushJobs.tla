------------------------------- MODULE PushJobs -------------------------------
(***************************************************************************)
(* Push notifications: the push_devices and notification_jobs tables       *)
(* (server/internal/store/push.go), and the APNs workers that claim jobs   *)
(* under a lease, send them one after the other and write each outcome     *)
(* back (server/internal/apns/client.go).                                  *)
(*                                                                         *)
(* Each store call is one statement or one SERIALIZABLE transaction, hence *)
(* one step; sending and writing back are two.  No write of a worker looks *)
(* at the lease or at the state of the job: a worker whose lease lapsed    *)
(* writes over the next one's.                                             *)
(*                                                                         *)
(* Time is abstract: a backoff may end and a lease may lapse at any step   *)
(* after it began.  A batch is sent one job at a time with up to 30        *)
(* seconds each, so a one-minute lease can lapse before the third job.     *)
(* Abstracted: payloads, topics and the reasons of failures.  A device     *)
(* stands for one token on one installation.                               *)
(***************************************************************************)
EXTENDS Naturals, FiniteSets

CONSTANTS
  Accounts,     \* account ids
  Devices,      \* push_devices rows, one per APNs token
  MaxEvents,    \* bound on the pair events that notify
  Workers,      \* APNs workers, one in each server process
  BatchSize,    \* APNSBatchSize
  MaxAttempts,  \* 10 in the code
  None          \* no account, no job

ASSUME PushAssumption ==
  /\ None \notin Accounts \cup ((1 .. MaxEvents) \X Devices)
  /\ MaxEvents \in Nat
  /\ MaxAttempts \in Nat \ {0} /\ BatchSize \in Nat \ {0}
  /\ IsFiniteSet(Devices) /\ IsFiniteSet(Workers)

VARIABLES
  device,     \* device[d]: push_devices row d
  event,      \* the last event that notified
  job,        \* job[j]: notification_jobs row j = <<event, device>>
  worker,     \* worker[w]: the batch of worker w and the job it is at
  delivered,  \* history: how often APNs accepted j, at most 2 counted
  excused     \* history: jobs that may be delivered again, see Excuse

vars == <<device, event, job, worker, delivered, excused>>

Events == 1..MaxEvents
Jobs == Events \X Devices

NoJob == [recipient |-> None, attempts |-> 0, ready |-> FALSE,
          lock |-> "none", sent |-> FALSE, failed |-> FALSE]
NoClaim == [job |-> None, attempts |-> 0]
IdleWorker == [batch |-> {}, at |-> NoClaim, result |-> "none"]

(* What a send comes back with: accepted; the token is gone; retry later   *)
(* (429, 5xx, or no answer at all); refused for good.                      *)
Results == {"ok", "gone", "retry", "bad"}

(* Every worker may hold a claim on the last attempt that is retried, and  *)
(* every worker a claim after it that fails the job.                       *)
AttemptsBound == MaxAttempts + 2 * Cardinality(Workers) - 1

Claims == [job : Jobs, attempts : 0..AttemptsBound]

TypeOK ==
  /\ device \in [Devices -> [owner : Accounts \cup {None}, revoked : BOOLEAN]]
  /\ event \in 0..MaxEvents
  /\ job \in [Jobs ->
       [recipient : Accounts \cup {None}, attempts : 0..AttemptsBound,
        ready : BOOLEAN, lock : {"none", "held", "lapsed"},
        sent : BOOLEAN, failed : BOOLEAN]]
  /\ \A w \in Workers :
       /\ worker[w].batch \subseteq Claims
       /\ worker[w].at \in Claims \cup {NoClaim}
       /\ worker[w].result \in Results \cup {"none"}
  /\ delivered \in [Jobs -> 0..2]
  /\ excused \subseteq Jobs

Init ==
  /\ device = [d \in Devices |-> [owner |-> None, revoked |-> FALSE]]
  /\ event = 0
  /\ job = [j \in Jobs |-> NoJob]
  /\ worker = [w \in Workers |-> IdleWorker]
  /\ delivered = [j \in Jobs |-> 0]
  /\ excused = {}

LiveDevice(d) == device[d].owner # None /\ ~device[d].revoked
Pending(j) == job[j].recipient # None /\ ~job[j].sent /\ ~job[j].failed

(***************************************************************************)
(* The API.                                                                *)
(***************************************************************************)

(* The row of a known token moves to the caller's account and is live      *)
(* again; jobs addressed to the old owner stay on it.                      *)
RegisterPushDevice(d, a) ==
  /\ device' = [device EXCEPT ![d] = [owner |-> a, revoked |-> FALSE]]
  /\ UNCHANGED <<event, job, worker, delivered, excused>>

(* Also the last UPDATE of RevokeInstallation.  Its jobs stay pending.     *)
RevokePushDevice(d) ==
  /\ LiveDevice(d)
  /\ device' = [device EXCEPT ![d].revoked = TRUE]
  /\ UNCHANGED <<event, job, worker, delivered, excused>>

(* enqueuePartnerNotification: a job for each live device of account a.    *)
EnqueuePartnerNotification(a) ==
  /\ event < MaxEvents
  /\ event' = event + 1
  /\ job' = [j \in Jobs |->
       IF j[1] = event + 1 /\ LiveDevice(j[2]) /\ device[j[2]].owner = a
       THEN [NoJob EXCEPT !.recipient = a, !.ready = TRUE] ELSE job[j]]
  /\ UNCHANGED <<device, worker, delivered, excused>>

(***************************************************************************)
(* The worker.                                                             *)
(***************************************************************************)
Claimable_AnyLock ==    \* without the test of locked_until
  {j \in Jobs : Pending(j) /\ LiveDevice(j[2]) /\ job[j].ready}

Claimable ==
  {j \in Jobs : /\ Pending(j) /\ LiveDevice(j[2]) /\ job[j].ready
                /\ job[j].lock # "held"}

(* ClaimPushJobs: the oldest jobs up to the limit, each with a lease.      *)
ClaimPushJobs(w) ==
  /\ worker[w] = IdleWorker
  /\ \E S \in SUBSET Claimable :
       /\ S # {}
       /\ Cardinality(S) <= BatchSize
       /\ \A j \in S, k \in Claimable \ S : j[1] <= k[1]
       /\ Cardinality(S) < BatchSize => S = Claimable
       /\ job' = [j \in Jobs |->
            IF j \in S THEN [job[j] EXCEPT !.lock = "held"] ELSE job[j]]
       /\ worker' = [worker EXCEPT ![w].batch =
            {[job |-> j, attempts |-> job[j].attempts] : j \in S}]
  /\ UNCHANGED <<device, event, delivered, excused>>

(* Send: what APNs did and what the worker heard.  After a transport error *)
(* the notification may have been accepted.                                *)
Send(w) ==
  /\ worker[w].at = NoClaim
  /\ \E c \in worker[w].batch, result \in Results, accepted \in BOOLEAN :
       /\ accepted => result \in {"ok", "retry"}
       /\ result = "ok" => accepted
       /\ worker' = [worker EXCEPT
            ![w] = [batch |-> @.batch \ {c}, at |-> c, result |-> result]]
       /\ delivered' = IF accepted /\ delivered[c.job] < 2
                       THEN [delivered EXCEPT ![c.job] = @ + 1] ELSE delivered
       /\ excused' = IF accepted /\ result = "retry"
                     THEN excused \cup {c.job} ELSE excused
  /\ UNCHANGED <<device, event, job>>

MarkPushSent(j) ==
  /\ job' = [job EXCEPT ![j].sent = TRUE, ![j].lock = "none"]
  /\ UNCHANGED device

FailPush(j) ==
  /\ job' = [job EXCEPT ![j].attempts = @ + 1, ![j].failed = TRUE,
                        ![j].lock = "none"]
  /\ UNCHANGED device

RetryPush_Uncounted(j) ==    \* attempts is not counted up
  /\ job' = [job EXCEPT ![j].ready = FALSE, ![j].lock = "none"]
  /\ UNCHANGED device

RetryPush(j) ==
  /\ job' = [job EXCEPT ![j].attempts = @ + 1, ![j].ready = FALSE,
                        ![j].lock = "none"]
  /\ UNCHANGED device

(* The device is revoked and its pending jobs fail.                        *)
RevokePushToken(d) ==
  /\ device' = [device EXCEPT ![d].revoked = TRUE]
  /\ job' = [j \in Jobs |->
       IF j[2] = d /\ Pending(j)
       THEN [job[j] EXCEPT !.failed = TRUE, !.lock = "none"] ELSE job[j]]

Retry_Always(c) == RetryPush(c.job)    \* without the limit on attempts

(* The limit is tested on the count read with the claim.                   *)
Retry(c) ==
  IF c.attempts >= MaxAttempts THEN FailPush(c.job) ELSE RetryPush(c.job)

(* The rest of process: the outcome is written.                            *)
WriteOutcome(w) ==
  LET c == worker[w].at IN
  /\ c # NoClaim
  /\ CASE worker[w].result = "ok" -> MarkPushSent(c.job)
       [] worker[w].result = "gone" -> RevokePushToken(c.job[2])
       [] worker[w].result = "retry" -> Retry(c)
       [] worker[w].result = "bad" -> FailPush(c.job)
  /\ worker' = [worker EXCEPT ![w].at = NoClaim, ![w].result = "none"]
  /\ UNCHANGED <<event, delivered, excused>>

(* An accepted job whose outcome is not written is delivered again.        *)
Excuse(w) ==
  IF worker[w].result = "ok" THEN {worker[w].at.job} ELSE {}

(* The write fails; processBatch logs it and goes on.                      *)
WriteFails(w) ==
  /\ worker[w].at # NoClaim
  /\ worker' = [worker EXCEPT ![w].at = NoClaim, ![w].result = "none"]
  /\ excused' = excused \cup Excuse(w)
  /\ UNCHANGED <<device, event, job, delivered>>

(* The process stops, at a deployment say, and starts with no batch.       *)
WorkerDies(w) ==
  /\ worker[w] # IdleWorker
  /\ worker' = [worker EXCEPT ![w] = IdleWorker]
  /\ excused' = excused \cup Excuse(w)
  /\ UNCHANGED <<device, event, job, delivered>>

(***************************************************************************)
(* Time.                                                                   *)
(***************************************************************************)
InHand(j) ==
  \E w \in Workers :
    \/ worker[w].at.job = j
    \/ \E c \in worker[w].batch : c.job = j

(* locked_until passes, perhaps while the worker still has the job.        *)
LeaseLapses(j) ==
  /\ job[j].lock = "held"
  /\ job' = [job EXCEPT ![j].lock = "lapsed"]
  /\ excused' = IF InHand(j) THEN excused \cup {j} ELSE excused
  /\ UNCHANGED <<device, event, worker, delivered>>

(* available_at passes.                                                    *)
BackoffEnds(j) ==
  /\ Pending(j)
  /\ ~job[j].ready
  /\ job' = [job EXCEPT ![j].ready = TRUE]
  /\ UNCHANGED <<device, event, worker, delivered, excused>>

(***************************************************************************)
(* The specification.                                                      *)
(***************************************************************************)
Next ==
  \/ \E d \in Devices :
       RevokePushDevice(d) \/ \E a \in Accounts : RegisterPushDevice(d, a)
  \/ \E a \in Accounts : EnqueuePartnerNotification(a)
  \/ \E w \in Workers :
       \/ ClaimPushJobs(w) \/ Send(w) \/ WriteOutcome(w)
       \/ WriteFails(w) \/ WorkerDies(w)
  \/ \E j \in Jobs : LeaseLapses(j) \/ BackoffEnds(j)

(* The ticker claims as long as there is something to claim, and time      *)
(* passes.  A worker that is stopped, or whose writes fail, again and      *)
(* again gets through in the end.                                          *)
Fairness ==
  /\ WF_vars(\E w \in Workers : ClaimPushJobs(w))
  /\ \A w \in Workers : SF_vars(Send(w)) /\ SF_vars(WriteOutcome(w))
  /\ \A j \in Jobs : WF_vars(LeaseLapses(j)) /\ WF_vars(BackoffEnds(j))

Spec == Init /\ [][Next]_vars
FairSpec == Spec /\ Fairness

(***************************************************************************)
(* Properties.                                                             *)
(***************************************************************************)

(* APNs accepts a notification once, with any number of workers, unless    *)
(* the lease of its claim lapsed under a worker that was still at its      *)
(* batch, a transport error hid that it was accepted, or the worker could  *)
(* not write that it was sent.                                             *)
DeliveredOnceUnlessExcused ==
  \A j \in Jobs : delivered[j] > 1 => j \in excused

(* A job is not left behind: it is sent, or fails, or its device is        *)
(* revoked, although workers stop, writes fail, leases lapse and APNs may  *)
(* be busy for ever.                                                       *)
EveryJobSettles ==
  \A j \in Jobs : Pending(j) ~> (~Pending(j) \/ ~LiveDevice(j[2]))
=============================================================================
