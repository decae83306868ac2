--------------------------------- MODULE Outbox ---------------------------------
(***************************************************************************)
(* Messages to guests: the NotificationLog table as the outbox, filled by  *)
(* enqueueNotification, drained by drainNotifications, with sendNow beside *)
(* it (src/src/lib/notify/dispatch.ts), the worker's ticks                 *)
(* (src/src/lib/jobs/worker.ts) and the delivery receipts of               *)
(* src/src/app/api/webhooks/msg91/route.ts.                                *)
(*                                                                         *)
(* The provider takes a message and answers in two steps, so an answer may *)
(* be lost.  scheduledFor is abstracted to whether it has passed, and the  *)
(* rows of a batch are any due ones, where the code takes the oldest.      *)
(* Templates, channels and texts are left out.  Nothing in the repository  *)
(* enqueues a Job, so the Job table stays empty and is left out as well.   *)
(*                                                                         *)
(* A definition named D_Word beside D is a slip the runs must notice: the  *)
(* same operator with one plausible mistake.  Nothing else refers to it.   *)
(***************************************************************************)
EXTENDS Integers, FiniteSets

CONSTANTS
  LogId,        \* bound: ids NotificationLog rows may take
  Tick,         \* activations of workerTick that might overlap
  Request,      \* staff requests that may be in flight at once
  MaxAttempts,  \* MAX_NOTIFY_ATTEMPTS
  Limit,        \* rows one tick takes on
  MaxFault      \* bound: crashes and failing queries

None == "none"

ASSUME OutboxAssumption ==
  /\ IsFiniteSet(LogId) /\ None \notin LogId
  /\ MaxAttempts \in Nat \ {0} /\ Limit \in Nat \ {0} /\ MaxFault \in Nat

VARIABLES
  log,      \* the NotificationLog table: the row each id has, or Absent
  tick,     \* the activations of workerTick in progress
  ticking,  \* worker.ts: whether one is running
  hand,     \* the row each request is about to insert for a message just sent
  tries,    \* auxiliary: how often the worker gave the row to its provider
  taken,    \* external: how many messages the provider has taken for the row
  lost,     \* auxiliary: how many of those the worker was not told of or did not record
  faults    \* crashes and failing queries so far

vars == <<log, tick, ticking, hand, tries, taken, lost, faults>>
provider == <<tries, taken, lost>>

Status == {"QUEUED", "SENDING", "SENT", "DELIVERED", "FAILED", "DLQ"}
Settled == Status \ {"QUEUED", "SENDING"}
Row == [status : Status \cup {"none"}, attempts : Nat, due : BOOLEAN, message : Nat]
Absent == [status |-> "none", attempts |-> 0, due |-> FALSE, message |-> 0]

Work == [at : {"idle", "drain", "send", "answer", "sent", "failed"},
         batch : SUBSET [row : LogId, attempts : Nat],
         row : LogId \cup {None}, attempts : Nat]
Idle == [at |-> "idle", batch |-> {}, row |-> None, attempts |-> 0]

(* The rows that may be drained, as the query returns them. *)
Due == {i \in LogId : log[i].status = "QUEUED" /\ log[i].due}
Snapshot(i) == [row |-> i, attempts |-> log[i].attempts]

Fresh(i) == log[i] = Absent /\ taken[i] = 0

Init ==
  /\ log = [i \in LogId |-> Absent]
  /\ tick = [t \in Tick |-> Idle]
  /\ ticking = FALSE
  /\ hand = [q \in Request |-> None]
  /\ tries = [i \in LogId |-> 0]
  /\ taken = [i \in LogId |-> 0]
  /\ lost = [i \in LogId |-> 0]
  /\ faults = 0

--------------------------------------------------------------------------------
(* Filling the outbox. *)

(* enqueueNotification: one row per template, due now or after its delay. *)
Enqueue(i) ==
  /\ Fresh(i)
  /\ \E due \in BOOLEAN :
       log' = [log EXCEPT ![i] = [status |-> "QUEUED", attempts |-> 0, due |-> due, message |-> 0]]
  /\ UNCHANGED <<tick, ticking, hand, provider, faults>>

BecomesDue(i) ==
  /\ log[i].status = "QUEUED" /\ ~log[i].due
  /\ log' = [log EXCEPT ![i].due = TRUE]
  /\ UNCHANGED <<tick, ticking, hand, provider, faults>>

(* sendNow has the provider send first, and inserts a row if it did ... *)
SendNow(q, i) ==
  /\ hand[q] = None /\ Fresh(i)
  /\ taken' = [taken EXCEPT ![i] = 1]
  /\ hand' = [hand EXCEPT ![q] = i]
  /\ UNCHANGED <<log, tick, ticking, tries, lost, faults>>

(* ... which is not drained. *)
RecordNow(q) ==
  /\ hand[q] # None
  /\ log' = [log EXCEPT ![hand[q]] =
               [status |-> "SENT", attempts |-> 0, due |-> TRUE, message |-> 1]]
  /\ hand' = [hand EXCEPT ![q] = None]
  /\ UNCHANGED <<tick, ticking, provider, faults>>

(* The provider took the message, but its answer is lost or the row cannot  *)
(* be inserted: the request fails.                                          *)
SendNowThrows(q) ==
  /\ hand[q] # None
  /\ hand' = [hand EXCEPT ![q] = None]
  /\ UNCHANGED <<log, tick, ticking, provider, faults>>

--------------------------------------------------------------------------------
(* Draining it. *)

(* workerTick does nothing while another runs; drainNotifications reads up  *)
(* to Limit due rows ...                                                    *)
DrainRead_Overlapping(t) ==
  /\ tick[t] = Idle
  /\ ticking' = TRUE
  /\ \E S \in SUBSET Due :
       /\ Cardinality(S) = IF Cardinality(Due) < Limit THEN Cardinality(Due) ELSE Limit
       /\ tick' = [tick EXCEPT ![t] = [Idle EXCEPT !.at = "drain", !.batch = {Snapshot(i) : i \in S}]]
  /\ UNCHANGED <<log, hand, provider, faults>>
DrainRead(t) ==
  /\ tick[t] = Idle /\ ~ticking
  /\ ticking' = TRUE
  /\ \E S \in SUBSET Due :
       /\ Cardinality(S) = IF Cardinality(Due) < Limit THEN Cardinality(Due) ELSE Limit
       /\ tick' = [tick EXCEPT ![t] = [Idle EXCEPT !.at = "drain", !.batch = {Snapshot(i) : i \in S}]]
  /\ UNCHANGED <<log, hand, provider, faults>>

(* ... and claims one after the other, if it is still queued, ... *)
Claim(t, x) ==
  /\ tick[t].at = "drain" /\ x \in tick[t].batch
  /\ IF log[x.row].status = "QUEUED"
       THEN /\ log' = [log EXCEPT ![x.row].status = "SENDING"]
            /\ tick' = [tick EXCEPT ![t] = [at |-> "send", batch |-> tick[t].batch \ {x},
                                            row |-> x.row, attempts |-> x.attempts]]
       ELSE /\ tick' = [tick EXCEPT ![t].batch = @ \ {x}]
            /\ UNCHANGED log
  /\ UNCHANGED <<ticking, hand, provider, faults>>

(* ... to send it: the provider takes the message or refuses it ... *)
Send(t) ==
  LET i == tick[t].row
  IN /\ tick[t].at = "send"
     /\ tries' = [tries EXCEPT ![i] = @ + 1]
     /\ \/ /\ taken' = [taken EXCEPT ![i] = @ + 1]
           /\ tick' = [tick EXCEPT ![t].at = "answer"]
        \/ /\ tick' = [tick EXCEPT ![t].at = "failed"]
           /\ UNCHANGED taken
     /\ UNCHANGED <<log, ticking, hand, lost, faults>>

(* ... and its answer arrives or not. *)
Answer(t) ==
  LET i == tick[t].row
  IN /\ tick[t].at = "answer"
     /\ \/ /\ tick' = [tick EXCEPT ![t].at = "sent"]
           /\ UNCHANGED lost
        \/ /\ tick' = [tick EXCEPT ![t].at = "failed"]
           /\ lost' = [lost EXCEPT ![i] = @ + 1]
     /\ UNCHANGED <<log, ticking, hand, tries, taken, faults>>

(* A sent row is marked with its message ... *)
MarkSent(t) ==
  LET i == tick[t].row
  IN /\ tick[t].at = "sent"
     /\ log' = [log EXCEPT ![i].status = "SENT", ![i].attempts = @ + 1, ![i].message = taken[i]]
     /\ tick' = [tick EXCEPT ![t].at = "drain", ![t].row = None]
     /\ UNCHANGED <<ticking, hand, provider, faults>>

(* ... and if that fails, the message counts as not sent. *)
MarkFails(t) ==
  /\ tick[t].at = "sent" /\ faults < MaxFault
  /\ faults' = faults + 1
  /\ lost' = [lost EXCEPT ![tick[t].row] = @ + 1]
  /\ tick' = [tick EXCEPT ![t].at = "failed"]
  /\ UNCHANGED <<log, ticking, hand, tries, taken>>

(* A row that failed waits for its next attempt, or is given up. *)
MarkFailed(t) ==
  LET i == tick[t].row
      attempts == tick[t].attempts + 1
  IN /\ tick[t].at = "failed"
     /\ log' = [log EXCEPT ![i].attempts = attempts,
                  ![i].status = IF attempts >= MaxAttempts THEN "DLQ" ELSE "QUEUED",
                  ![i].due = (attempts >= MaxAttempts)]
     /\ tick' = [tick EXCEPT ![t].at = "drain", ![t].row = None]
     /\ UNCHANGED <<ticking, hand, provider, faults>>

(* The tick ends when its batch is done ... *)
TickEnds(t) ==
  /\ tick[t].at = "drain" /\ tick[t].batch = {}
  /\ tick' = [tick EXCEPT ![t] = Idle]
  /\ ticking' = FALSE
  /\ UNCHANGED <<log, hand, provider, faults>>

(* ... or when a query fails that nothing catches but workerTick itself. *)
TickThrows_Stays(t) ==
  /\ tick[t].at \in {"drain", "failed"} /\ faults < MaxFault
  /\ faults' = faults + 1
  /\ tick' = [tick EXCEPT ![t] = Idle]
  /\ UNCHANGED <<log, ticking, hand, provider>>
TickThrows(t) ==
  /\ tick[t].at \in {"drain", "failed"} /\ faults < MaxFault
  /\ faults' = faults + 1
  /\ tick' = [tick EXCEPT ![t] = Idle]
  /\ ticking' = FALSE
  /\ UNCHANGED <<log, hand, provider>>

--------------------------------------------------------------------------------
(* The process stops and starts again.  startWorker touches no row. *)
Restart_Requeues ==
  /\ faults < MaxFault
  /\ faults' = faults + 1
  /\ tick' = [t \in Tick |-> Idle]
  /\ ticking' = FALSE
  /\ hand' = [q \in Request |-> None]
  /\ log' = [i \in LogId |-> IF log[i].status = "SENDING"
                               THEN [log[i] EXCEPT !.status = "QUEUED"] ELSE log[i]]
  /\ UNCHANGED provider
Restart ==
  /\ faults < MaxFault
  /\ faults' = faults + 1
  /\ tick' = [t \in Tick |-> Idle]
  /\ ticking' = FALSE
  /\ hand' = [q \in Request |-> None]
  /\ UNCHANGED <<log, provider>>

(* A delivery receipt for the n-th message, in any order and any number of  *)
(* times.  One that no row knows of, or not yet, is acknowledged and gone.  *)
ReceiptStatus_Retry == {"SENT", "DELIVERED", "QUEUED"}
ReceiptStatus == {"SENT", "DELIVERED", "FAILED"}
Receipt(i, n) ==
  /\ n \in 1..taken[i] /\ log[i].message = n
  /\ \E s \in ReceiptStatus : log' = [log EXCEPT ![i].status = s]
  /\ UNCHANGED <<tick, ticking, hand, provider, faults>>

--------------------------------------------------------------------------------
TickStep(t) ==
  \/ DrainRead(t) \/ (\E x \in tick[t].batch : Claim(t, x))
  \/ Send(t) \/ Answer(t) \/ MarkSent(t) \/ MarkFailed(t) \/ TickEnds(t)

Next ==
  \/ \E i \in LogId : Enqueue(i) \/ BecomesDue(i)
  \/ \E i \in LogId : \E n \in 1..taken[i] : Receipt(i, n)
  \/ \E q \in Request : RecordNow(q) \/ SendNowThrows(q) \/ \E i \in LogId : SendNow(q, i)
  \/ \E t \in Tick : TickStep(t) \/ MarkFails(t) \/ TickThrows(t)
  \/ Restart

(* Time passes, and the interval fires and its promises run on. *)
Fairness ==
  /\ \A i \in LogId : WF_vars(BecomesDue(i))
  /\ \A t \in Tick : WF_vars(TickStep(t))

Spec == Init /\ [][Next]_vars /\ Fairness

--------------------------------------------------------------------------------
Claimed(t) == tick[t].at \in {"send", "answer", "sent", "failed"}

(* Every variable stays in its type. *)
TypeOK ==
  /\ log \in [LogId -> Row]
  /\ tick \in [Tick -> Work]
  /\ ticking \in BOOLEAN
  /\ hand \in [Request -> LogId \cup {None}]
  /\ tries \in [LogId -> Nat] /\ taken \in [LogId -> Nat] /\ lost \in [LogId -> Nat]
  /\ faults \in 0..MaxFault

(* One tick at a time, which has read what is in the table, and a row being *)
(* sent is that tick's or, after a fault, nobody's.                         *)
OneTick ==
  /\ \A t \in Tick : tick[t] # Idle => ticking
  /\ \A t, u \in Tick : tick[t] # Idle /\ tick[u] # Idle => t = u
  /\ \A t \in Tick : \A x \in tick[t].batch :
       log[x.row].status = "QUEUED" /\ log[x.row].attempts = x.attempts
  /\ \A t \in Tick : Claimed(t) =>
       /\ tick[t].row \in LogId
       /\ log[tick[t].row].status = "SENDING"
       /\ log[tick[t].row].attempts = tick[t].attempts

(* What the provider took was answered, is being answered, or was lost. *)
Books ==
  /\ \A i \in LogId :
       /\ taken[i] <= 1 + lost[i]
       /\ log[i].status = "none" => log[i] = Absent /\ tries[i] = 0 /\ lost[i] = 0
       /\ log[i].status \in {"QUEUED", "DLQ"} => taken[i] = lost[i]
       /\ IF log[i].status \in {"SENT", "DELIVERED", "FAILED"}
            THEN log[i].message = taken[i] /\ taken[i] > 0
            ELSE log[i].message = 0
  /\ \A t \in Tick : Claimed(t) =>
       taken[tick[t].row] = lost[tick[t].row] + (IF tick[t].at \in {"answer", "sent"} THEN 1 ELSE 0)
  /\ \A q \in Request : hand[q] # None =>
       /\ log[hand[q]].status = "none" /\ taken[hand[q]] = 1
       /\ \A r \in Request : hand[r] = hand[q] => r = q

(* Property: the attempts a row shows are the times it was given to its     *)
(* provider, whatever fails; a row that waits has attempts left, and none   *)
(* is tried more than MaxAttempts times (MAX_NOTIFY_ATTEMPTS).              *)
AttemptsCount ==
  \A i \in LogId :
    /\ tries[i] <= MaxAttempts
    /\ log[i].status # "SENDING" => log[i].attempts = tries[i]
    /\ log[i].status \in {"QUEUED", "SENDING"} => log[i].attempts < MaxAttempts

(* While a row is being sent, the tick knows how often it was tried. *)
TriesKnown ==
  \A t \in Tick : Claimed(t) =>
    tries[tick[t].row] = tick[t].attempts + (IF tick[t].at = "send" THEN 0 ELSE 1)

(* Property: one tick at a time, rows being sent are its own, and messages  *)
(* and attempts add up: what the proofs go by (workerTick's flag, the claim).*)
IInv == TypeOK /\ OneTick /\ Books /\ AttemptsCount /\ TriesKnown

(* Property: a message is given to the provider only for a row that is      *)
(* claimed and was never recorded as sent: no receipt, restart or later     *)
(* tick sends a settled message again (drainNotifications, Receipt).        *)
NeverResendsSettled ==
  [][\A i \in LogId :
       tries'[i] # tries[i] => log[i].status = "SENDING" /\ log[i].message = 0]_vars

(* Property: a guest gets a message twice only if the first was taken and   *)
(* its answer lost or not recorded; a restart never does it, for startWorker *)
(* leaves a row it finds SENDING alone.                                     *)
DuplicatesOnlyAfterLoss ==
  \A i \in LogId : taken[i] <= 1 + lost[i]

(* Property: a row shown as sent, delivered or failed was taken by the      *)
(* provider, and its receipts are those of the last message taken.          *)
SentWasTaken ==
  \A i \in LogId : log[i].status \in {"SENT", "DELIVERED", "FAILED"} =>
    log[i].message = taken[i] /\ taken[i] > 0

(* A row that a fault has left behind: nothing looks at SENDING rows. *)
Orphaned(i) == log[i].status = "SENDING" /\ \A t \in Tick : tick[t].row # i

(* Property: every queued message is sent or given up in the end, unless a  *)
(* fault hits that very row while it is being sent: other rows' failures    *)
(* and aborted ticks do not keep it (workerTick's finally).                 *)
QueuedSettles ==
  \A i \in LogId : (log[i].status = "QUEUED")
                     ~> (log[i].status \in Settled \/ Orphaned(i))
================================================================================
