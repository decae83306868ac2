------------------------------ MODULE OutboxProofs ------------------------------
(***************************************************************************)
(* Proofs about the delivery of messages, for any rows, any number of      *)
(* ticks and attempts, and faults at any point.                            *)
(***************************************************************************)
EXTENDS Outbox, TLAPS

LEMMA Shapes ==
  /\ Idle \in Work /\ Absent \in Row /\ Idle.at = "idle" /\ Idle.batch = {} /\ Idle.row = None
  /\ Absent.status = "none" /\ Absent.attempts = 0 /\ Absent.message = 0
<1>1. Absent \in Row
  BY DEF Absent, Row
<1>2. Idle \in Work
  <2>1. {} \in SUBSET [row : LogId, attempts : Nat] /\ None \in LogId \cup {None}
    OBVIOUS
  <2>2. QED
    BY <2>1 DEF Idle, Work
<1>3. QED
  BY <1>1, <1>2 DEF Idle, Absent

LEMMA InitIInv == Init => IInv
<1> SUFFICES ASSUME Init PROVE IInv
  OBVIOUS
<1>1. TypeOK
  <2>1. log \in [LogId -> Row] /\ tick \in [Tick -> Work]
    BY Shapes DEF Init
  <2>2. faults \in 0..MaxFault
    BY OutboxAssumption DEF Init
  <2>3. QED
    BY <2>1, <2>2 DEF Init, TypeOK
<1>2. OneTick /\ TriesKnown
  BY Shapes DEF Init, OneTick, TriesKnown, Claimed
<1>3. AttemptsCount
  <2>1. \A i \in LogId : log[i].status = "none" /\ log[i].attempts = 0 /\ tries[i] = 0
    BY Shapes DEF Init
  <2>2. QED
    BY <2>1, OutboxAssumption DEF AttemptsCount
<1>4. Books
  <2>1. \A i \in LogId : /\ log[i] = Absent /\ tries[i] = 0 /\ taken[i] = 0 /\ lost[i] = 0
                         /\ log[i].status = "none" /\ log[i].message = 0
    BY Shapes DEF Init
  <2>2. \A t \in Tick : tick[t].at = "idle"
    BY Shapes DEF Init
  <2>3. \A q \in Request : hand[q] = None
    BY DEF Init
  <2>4. QED
    BY <2>1, <2>2, <2>3 DEF Books, Claimed
<1>5. QED
  BY <1>1, <1>2, <1>3, <1>4 DEF IInv

(* The shapes that the steps take up. *)
LEMMA TickShape ==
  ASSUME TypeOK, NEW t \in Tick
  PROVE  /\ tick[t].at \in {"idle", "drain", "send", "answer", "sent", "failed"}
         /\ tick[t].batch \subseteq [row : LogId, attempts : Nat]
         /\ tick[t].row \in LogId \cup {None} /\ tick[t].attempts \in Nat
BY DEF TypeOK, Work

LEMMA RowShape ==
  ASSUME TypeOK, NEW i \in LogId
  PROVE  /\ log[i] \in Row /\ log[i].status \in Status \cup {"none"}
         /\ log[i].attempts \in Nat /\ log[i].due \in BOOLEAN /\ log[i].message \in Nat
BY DEF TypeOK, Row

(* A tick that has got past claiming is the only one, and its row is known. *)
LEMMA Running ==
  ASSUME IInv, NEW t \in Tick, Claimed(t)
  PROVE  /\ tick[t] # Idle /\ ticking
         /\ tick[t].row \in LogId /\ log[tick[t].row].status = "SENDING"
         /\ log[tick[t].row].attempts = tick[t].attempts
         /\ \A u \in Tick : u # t => tick[u] = Idle
BY DEF IInv, OneTick, Claimed, Idle

LEMMA NextType == IInv /\ [Next]_vars => TypeOK'
<1> SUFFICES ASSUME IInv, [Next]_vars PROVE TypeOK'
  OBVIOUS
<1> USE DEF IInv
<1>1. ASSUME NEW i \in LogId, Enqueue(i) PROVE TypeOK'
  BY <1>1 DEF Enqueue, TypeOK, Row, Status, provider
<1>2. ASSUME NEW i \in LogId, BecomesDue(i) PROVE TypeOK'
  BY <1>2 DEF BecomesDue, TypeOK, Row, provider
<1>3. ASSUME NEW q \in Request, NEW i \in LogId, SendNow(q, i) PROVE TypeOK'
  BY <1>3 DEF SendNow, TypeOK
<1>4. ASSUME NEW q \in Request, RecordNow(q) \/ SendNowThrows(q) PROVE TypeOK'
  <2>1. [status |-> "SENT", attempts |-> 0, due |-> TRUE, message |-> 1] \in Row
    BY DEF Row, Status
  <2>2. QED
    BY <1>4, <2>1 DEF RecordNow, SendNowThrows, TypeOK, provider
<1>5. ASSUME NEW t \in Tick, DrainRead(t) PROVE TypeOK'
  <2>1. PICK S \in SUBSET Due :
          tick' = [tick EXCEPT ![t] = [Idle EXCEPT !.at = "drain", !.batch = {Snapshot(i) : i \in S}]]
    BY <1>5 DEF DrainRead
  <2>2. {Snapshot(i) : i \in S} \subseteq [row : LogId, attempts : Nat]
    BY <2>1, RowShape DEF Due, Snapshot
  <2>3. [Idle EXCEPT !.at = "drain", !.batch = {Snapshot(i) : i \in S}] \in Work
    BY <2>2 DEF Idle, Work
  <2>4. QED
    BY <1>5, <2>1, <2>3 DEF DrainRead, TypeOK, provider
<1>6. ASSUME NEW t \in Tick, NEW x \in tick[t].batch, Claim(t, x) PROVE TypeOK'
  <2>1. x.row \in LogId /\ x.attempts \in Nat /\ tick[t].batch \ {x} \in SUBSET [row : LogId, attempts : Nat]
    BY <1>6, TickShape
  <2>2. log' \in [LogId -> Row]
    BY <1>6, <2>1 DEF Claim, TypeOK, Row, Status
  <2>3. [at |-> "send", batch |-> tick[t].batch \ {x}, row |-> x.row, attempts |-> x.attempts] \in Work
    BY <2>1 DEF Work
  <2>4. tick' \in [Tick -> Work]
    BY <1>6, <2>1, <2>3 DEF Claim, TypeOK, Work
  <2>5. QED
    BY <1>6, <2>2, <2>4 DEF Claim, TypeOK, provider
<1>7. ASSUME NEW t \in Tick, Send(t) \/ Answer(t) \/ MarkFails(t) PROVE TypeOK'
  <2>1. \A at \in {"answer", "sent", "failed"} : [tick EXCEPT ![t].at = at] \in [Tick -> Work]
    BY DEF TypeOK, Work
  <2>2. tries' \in [LogId -> Nat] /\ taken' \in [LogId -> Nat] /\ lost' \in [LogId -> Nat]
    BY <1>7 DEF Send, Answer, MarkFails, TypeOK
  <2>3. QED
    BY <1>7, <2>1, <2>2, OutboxAssumption DEF Send, Answer, MarkFails, TypeOK
<1>8. ASSUME NEW t \in Tick, MarkSent(t) \/ MarkFailed(t) PROVE TypeOK'
  <2>1. tick[t].row \in LogId /\ tick[t].attempts \in Nat
    BY <1>8, Running, TickShape DEF MarkSent, MarkFailed, Claimed
  <2>2. [tick EXCEPT ![t].at = "drain", ![t].row = None] \in [Tick -> Work]
    BY DEF TypeOK, Work
  <2>3. \A i \in LogId : [log EXCEPT ![i].status = "SENT", ![i].attempts = @ + 1,
                                     ![i].message = taken[i]] \in [LogId -> Row]
    <3>1. ASSUME NEW i \in LogId
          PROVE  [log[i] EXCEPT !.status = "SENT", !.attempts = log[i].attempts + 1,
                                !.message = taken[i]] \in Row
      <4>1. log[i].attempts + 1 \in Nat /\ taken[i] \in Nat /\ "SENT" \in Status
        BY RowShape DEF TypeOK, Status
      <4>2. QED
        BY <4>1, RowShape DEF Row
    <3>2. QED
      BY <3>1 DEF TypeOK
  <2>4. ASSUME NEW i \in LogId, NEW a \in Nat, NEW s \in Status, NEW d \in BOOLEAN
        PROVE  [log EXCEPT ![i].attempts = a, ![i].status = s, ![i].due = d] \in [LogId -> Row]
    <3>1. [log[i] EXCEPT !.attempts = a, !.status = s, !.due = d] \in Row
      BY <2>4, RowShape DEF Row
    <3>2. QED
      BY <3>1 DEF TypeOK
  <2>5. log' \in [LogId -> Row]
    <3>1. CASE MarkSent(t)
      BY <2>1, <2>3, <3>1 DEF MarkSent
    <3>2. CASE MarkFailed(t)
      <4> DEFINE a == tick[t].attempts + 1
      <4>1. a \in Nat /\ (a >= MaxAttempts) \in BOOLEAN
            /\ (IF a >= MaxAttempts THEN "DLQ" ELSE "QUEUED") \in Status
        BY <2>1, OutboxAssumption DEF Status
      <4>2. log' = [log EXCEPT ![tick[t].row].attempts = a,
                      ![tick[t].row].status = IF a >= MaxAttempts THEN "DLQ" ELSE "QUEUED",
                      ![tick[t].row].due = (a >= MaxAttempts)]
        BY <3>2 DEF MarkFailed
      <4> HIDE DEF a
      <4>3. QED
        BY <2>1, <2>4, <4>1, <4>2
    <3>3. QED
      BY <1>8, <3>1, <3>2
  <2>6. QED
    BY <1>8, <2>2, <2>5 DEF MarkSent, MarkFailed, TypeOK, provider
<1>9. ASSUME NEW t \in Tick, TickEnds(t) \/ TickThrows(t) PROVE TypeOK'
  <2>1. tick' \in [Tick -> Work]
    BY <1>9, Shapes DEF TickEnds, TickThrows, TypeOK
  <2>2. faults' \in 0..MaxFault
    BY <1>9, OutboxAssumption DEF TickEnds, TickThrows, TypeOK
  <2>3. QED
    BY <1>9, <2>1, <2>2 DEF TickEnds, TickThrows, TypeOK, provider
<1>10. CASE Restart
  <2>1. tick' \in [Tick -> Work] /\ hand' \in [Request -> LogId \cup {None}]
    BY <1>10, Shapes DEF Restart
  <2>2. faults' \in 0..MaxFault
    BY <1>10, OutboxAssumption DEF Restart, TypeOK
  <2>3. QED
    BY <1>10, <2>1, <2>2 DEF Restart, TypeOK, provider
<1>11. ASSUME NEW i \in LogId, NEW n \in 1..taken[i], Receipt(i, n) PROVE TypeOK'
  BY <1>11 DEF Receipt, ReceiptStatus, TypeOK, Row, Status, provider
<1>12. CASE UNCHANGED vars
  BY <1>12 DEF vars, TypeOK
<1>13. QED
  BY <1>1, <1>2, <1>3, <1>4, <1>5, <1>6, <1>7, <1>8, <1>9, <1>10, <1>11, <1>12
     DEF Next, TickStep

(* A step of the one tick there is: what OneTick asks is asked of it alone.  *)
LEMMA OneTickOf ==
  ASSUME NEW t \in Tick,
         \A u \in Tick : u # t => tick'[u] = Idle,
         tick'[t] = Idle \/ ticking',
         \A x \in tick'[t].batch : log'[x.row].status = "QUEUED" /\ log'[x.row].attempts = x.attempts,
         Claimed(t)' => /\ tick'[t].row \in LogId
                        /\ log'[tick'[t].row].status = "SENDING"
                        /\ log'[tick'[t].row].attempts = tick'[t].attempts
  PROVE  OneTick'
<1>1. \A u \in Tick : u # t => ~Claimed(u)' /\ tick'[u].batch = {}
  BY Shapes DEF Claimed
<1>2. QED
  BY <1>1 DEF OneTick

(* A tick that runs is the only one. *)
LEMMA Alone ==
  ASSUME IInv, NEW t \in Tick, tick[t] # Idle \/ ~ticking
  PROVE  \A u \in Tick : u # t => tick[u] = Idle
BY DEF IInv, OneTick

(* The flag and the claim keep ticks apart, and rows as the tick knows them. *)
LEMMA NextOneTick == IInv /\ [Next]_vars => OneTick'
<1> SUFFICES ASSUME IInv, [Next]_vars PROVE OneTick'
  OBVIOUS
<1> USE DEF IInv
<1>1. ASSUME NEW i \in LogId, Enqueue(i) PROVE OneTick'
  BY <1>1, Shapes, TickShape DEF Enqueue, Fresh, OneTick, Claimed, TypeOK
<1>2. ASSUME NEW i \in LogId, BecomesDue(i) PROVE OneTick'
  BY <1>2, TickShape DEF BecomesDue, OneTick, Claimed, TypeOK
<1>3. ASSUME NEW q \in Request, NEW i \in LogId, SendNow(q, i) PROVE OneTick'
  BY <1>3 DEF SendNow, OneTick, Claimed
<1>4. ASSUME NEW q \in Request, RecordNow(q) \/ SendNowThrows(q) PROVE OneTick'
  <2>1. UNCHANGED <<tick, ticking>>
    BY <1>4 DEF RecordNow, SendNowThrows
  <2>2. hand[q] \in LogId /\ log[hand[q]].status = "none"
    BY <1>4 DEF RecordNow, SendNowThrows, Books, TypeOK
  <2>3. \A i \in LogId : i # hand[q] => log'[i] = log[i]
    BY <1>4, <2>2 DEF RecordNow, SendNowThrows, TypeOK
  <2>4. QED
    BY <2>1, <2>2, <2>3, TickShape DEF OneTick, Claimed
<1>5. ASSUME NEW t \in Tick, DrainRead(t) PROVE OneTick'
  <2>1. PICK S \in SUBSET Due :
          tick' = [tick EXCEPT ![t] = [Idle EXCEPT !.at = "drain", !.batch = {Snapshot(i) : i \in S}]]
    BY <1>5 DEF DrainRead
  <2>2. tick'[t].at = "drain" /\ tick'[t].batch = {Snapshot(i) : i \in S}
    BY <2>1 DEF TypeOK, Idle
  <2>3. \A u \in Tick : u # t => tick'[u] = Idle
    BY <1>5, <2>1, Alone DEF DrainRead, TypeOK
  <2>4. \A x \in tick'[t].batch : log'[x.row].status = "QUEUED" /\ log'[x.row].attempts = x.attempts
    BY <1>5, <2>2 DEF DrainRead, Due, Snapshot
  <2>5. QED
    BY <1>5, <2>2, <2>3, <2>4, OneTickOf DEF DrainRead, Claimed
<1>6. ASSUME NEW t \in Tick, NEW x \in tick[t].batch, Claim(t, x) PROVE OneTick'
  <2>1. tick[t] # Idle /\ ticking /\ x.row \in LogId /\ x.attempts \in Nat
    BY <1>6, Shapes, TickShape DEF Claim, OneTick
  <2>2. \A u \in Tick : u # t => tick'[u] = Idle
    BY <1>6, <2>1, Alone DEF Claim, TypeOK
  <2>3. \A y \in tick[t].batch : y \in [row : LogId, attempts : Nat]
                               /\ log[y.row].status = "QUEUED" /\ log[y.row].attempts = y.attempts
    BY TickShape DEF OneTick
  <2>4. tick'[t].batch = tick[t].batch \ {x}
    BY <1>6, TickShape DEF Claim, TypeOK, Work
  <2>5. \A y \in tick[t].batch \ {x} : y.row # x.row
    <3>1. ASSUME NEW y \in tick[t].batch, y.row = x.row PROVE y = x
      BY <3>1, <2>3
    <3>2. QED
      BY <3>1
  <2>6. log[x.row].status = "QUEUED" /\ log[x.row].attempts = x.attempts
    BY <2>3
  <2>7. /\ log' = [log EXCEPT ![x.row].status = "SENDING"]
        /\ tick'[t].at = "send" /\ tick'[t].row = x.row /\ tick'[t].attempts = x.attempts
    BY <1>6, <2>6 DEF Claim, TypeOK
  <2>8. \A i \in LogId : i # x.row => log'[i] = log[i]
    BY <2>7 DEF TypeOK
  <2>9. log'[x.row].status = "SENDING" /\ log'[x.row].attempts = x.attempts
    BY <2>1, <2>6, <2>7 DEF TypeOK, Row
  <2>10. \A y \in tick'[t].batch : log'[y.row].status = "QUEUED" /\ log'[y.row].attempts = y.attempts
    BY <2>3, <2>4, <2>5, <2>8
  <2>11. ticking'
    BY <1>6, <2>1 DEF Claim
  <2>12. QED
    BY <2>1, <2>2, <2>7, <2>9, <2>10, <2>11, OneTickOf
<1>7. ASSUME NEW t \in Tick, Send(t) \/ Answer(t) \/ MarkFails(t) PROVE OneTick'
  <2>1. Claimed(t) /\ UNCHANGED <<log, ticking>>
    BY <1>7 DEF Send, Answer, MarkFails, Claimed
  <2>2. /\ \A u \in Tick : u # t => tick'[u] = Idle
        /\ tick'[t].batch = tick[t].batch /\ tick'[t].row = tick[t].row
        /\ tick'[t].attempts = tick[t].attempts
    BY <1>7, <2>1, Running DEF Send, Answer, MarkFails, TypeOK, Work
  <2>3. QED
    BY <2>1, <2>2, Running, OneTickOf DEF OneTick
<1>8. ASSUME NEW t \in Tick, MarkSent(t) \/ MarkFailed(t) PROVE OneTick'
  <2>1. Claimed(t) /\ UNCHANGED ticking
    BY <1>8 DEF MarkSent, MarkFailed, Claimed
  <2>2. /\ \A u \in Tick : u # t => tick'[u] = Idle
        /\ tick'[t].batch = tick[t].batch /\ tick'[t].at = "drain"
    BY <1>8, <2>1, Running DEF MarkSent, MarkFailed, TypeOK, Work
  <2>3. \A i \in LogId : i # tick[t].row => log'[i] = log[i]
    BY <1>8 DEF MarkSent, MarkFailed, TypeOK
  <2>4. \A x \in tick[t].batch : x.row \in LogId /\ x.row # tick[t].row
                              /\ log[x.row].status = "QUEUED" /\ log[x.row].attempts = x.attempts
    BY <2>1, TickShape DEF OneTick
  <2>5. QED
    BY <2>1, <2>2, <2>3, <2>4, Running, OneTickOf DEF Claimed
<1>9. ASSUME NEW t \in Tick, TickEnds(t) \/ TickThrows(t) PROVE OneTick'
  <2>1. tick[t] # Idle
    BY <1>9, Shapes DEF TickEnds, TickThrows
  <2>2. \A u \in Tick : tick'[u] = Idle
    BY <1>9, <2>1, Alone DEF TickEnds, TickThrows, TypeOK
  <2>3. QED
    BY <2>2, OneTickOf, Shapes DEF Claimed
<1>10. CASE Restart
  <2>1. \A t \in Tick : tick'[t] = Idle
    BY <1>10 DEF Restart
  <2>2. QED
    BY <2>1, Shapes DEF OneTick, Claimed
<1>11. ASSUME NEW i \in LogId, NEW n \in 1..taken[i], Receipt(i, n) PROVE OneTick'
  BY <1>11, TickShape DEF Receipt, OneTick, Books, Claimed, TypeOK
<1>12. CASE UNCHANGED vars
  BY <1>12 DEF vars, OneTick, Claimed
<1>13. QED
  BY <1>1, <1>2, <1>3, <1>4, <1>5, <1>6, <1>7, <1>8, <1>9, <1>10, <1>11, <1>12
     DEF Next, TickStep

(* A step of the one tick on one row: the books of other rows and requests  *)
(* stay as they are.                                                        *)
LEMMA BooksOf ==
  ASSUME IInv, NEW t \in Tick, NEW i \in LogId,
         \A u \in Tick : u # t => tick'[u] = Idle,
         \A j \in LogId : j # i =>
           log'[j] = log[j] /\ tries'[j] = tries[j] /\ taken'[j] = taken[j] /\ lost'[j] = lost[j],
         UNCHANGED hand, log[i].status # "none",
         /\ taken'[i] <= 1 + lost'[i]
         /\ log'[i].status # "none"
         /\ log'[i].status \in {"QUEUED", "DLQ"} => taken'[i] = lost'[i]
         /\ IF log'[i].status \in {"SENT", "DELIVERED", "FAILED"}
              THEN log'[i].message = taken'[i] /\ taken'[i] > 0 ELSE log'[i].message = 0,
         Claimed(t)' => /\ tick'[t].row = i
                        /\ taken'[i] = lost'[i] + (IF tick'[t].at \in {"answer", "sent"} THEN 1 ELSE 0)
  PROVE  Books'
<1>1. \A u \in Tick : u # t => ~Claimed(u)'
  BY Shapes DEF Claimed
<1>2. \A q \in Request : hand[q] # None => hand[q] \in LogId /\ hand[q] # i
  BY DEF IInv, TypeOK, Books
<1>3. \A q \in Request : hand'[q] # None =>
        /\ log'[hand'[q]].status = "none" /\ taken'[hand'[q]] = 1
        /\ \A r \in Request : hand'[r] = hand'[q] => r = q
  BY <1>2 DEF IInv, Books
<1>4. \A j \in LogId :
        /\ taken'[j] <= 1 + lost'[j]
        /\ log'[j].status = "none" => log'[j] = Absent /\ tries'[j] = 0 /\ lost'[j] = 0
        /\ log'[j].status \in {"QUEUED", "DLQ"} => taken'[j] = lost'[j]
        /\ IF log'[j].status \in {"SENT", "DELIVERED", "FAILED"}
             THEN log'[j].message = taken'[j] /\ taken'[j] > 0 ELSE log'[j].message = 0
  BY DEF IInv, Books
<1>5. QED
  BY <1>1, <1>3, <1>4 DEF Books

(* Messages add up: what the provider took is answered, on its way or lost. *)
LEMMA NextBooks == IInv /\ [Next]_vars => Books'
<1> SUFFICES ASSUME IInv, [Next]_vars PROVE Books'
  OBVIOUS
<1> USE DEF IInv
<1>1. ASSUME NEW i \in LogId, Enqueue(i) PROVE Books'
  BY <1>1, Shapes, TickShape DEF Enqueue, Fresh, OneTick, Books, Claimed, TypeOK, provider
<1>2. ASSUME NEW i \in LogId, BecomesDue(i) PROVE Books'
  BY <1>2, TickShape DEF BecomesDue, Books, Claimed, TypeOK, provider
<1>3. ASSUME NEW q \in Request, NEW i \in LogId, SendNow(q, i) PROVE Books'
  BY <1>3, Shapes DEF SendNow, Fresh, OneTick, Books, Claimed, TypeOK
<1>4. ASSUME NEW q \in Request, RecordNow(q) \/ SendNowThrows(q) PROVE Books'
  BY <1>4, TickShape DEF RecordNow, SendNowThrows, OneTick, Books, Claimed, TypeOK, provider
<1>5. ASSUME NEW t \in Tick, DrainRead(t) PROVE Books'
  BY <1>5, TickShape DEF DrainRead, Due, Snapshot, Idle, Books, Claimed, TypeOK, provider
<1>6. ASSUME NEW t \in Tick, NEW x \in tick[t].batch, Claim(t, x) PROVE Books'
  <2>1. tick[t] # Idle /\ x.row \in LogId /\ log[x.row].status = "QUEUED"
    BY <1>6, Shapes, TickShape DEF Claim, OneTick
  <2>2. \A u \in Tick : u # t => tick'[u] = Idle
    BY <1>6, <2>1, Alone DEF Claim, TypeOK
  <2>3. /\ log' = [log EXCEPT ![x.row].status = "SENDING"]
        /\ tick'[t].at = "send" /\ tick'[t].row = x.row
        /\ UNCHANGED <<hand, tries, taken, lost>>
    BY <1>6, <2>1 DEF Claim, TypeOK, provider
  <2>4. log'[x.row].status = "SENDING" /\ log'[x.row].message = log[x.row].message
    BY <2>1, <2>3 DEF TypeOK, Row
  <2>5. log[x.row].message = 0 /\ taken[x.row] = lost[x.row] /\ lost[x.row] \in Nat
    BY <2>1 DEF Books, TypeOK
  <2>6. \A j \in LogId : j # x.row => log'[j] = log[j]
    BY <2>3 DEF TypeOK
  <2>7. QED
    BY <2>1, <2>2, <2>3, <2>4, <2>5, <2>6, BooksOf
<1>7. ASSUME NEW t \in Tick, Send(t) \/ Answer(t) \/ MarkFails(t) PROVE Books'
  <2> DEFINE i == tick[t].row
  <2>1. Claimed(t) /\ UNCHANGED <<log, hand>>
    BY <1>7 DEF Send, Answer, MarkFails, Claimed
  <2>2. i \in LogId /\ log[i].status = "SENDING" /\ log[i].message = 0
    BY <2>1, Running DEF Books
  <2>3. /\ \A u \in Tick : u # t => tick'[u] = Idle
        /\ tick'[t].row = i
    BY <1>7, <2>1, Running DEF Send, Answer, MarkFails, TypeOK, Work
  <2>4. /\ tries[i] \in Nat /\ taken[i] \in Nat /\ lost[i] \in Nat
        /\ taken[i] = lost[i] + (IF tick[t].at \in {"answer", "sent"} THEN 1 ELSE 0)
    BY <2>1, <2>2 DEF Books, TypeOK
  <2>5. taken'[i] = lost'[i] + (IF tick'[t].at \in {"answer", "sent"} THEN 1 ELSE 0)
    <3>1. CASE Send(t)
      BY <3>1, <2>2, <2>4 DEF Send, TypeOK, Work
    <3>2. CASE Answer(t)
      BY <3>2, <2>2, <2>4 DEF Answer, TypeOK, Work
    <3>3. CASE MarkFails(t)
      BY <3>3, <2>2, <2>4 DEF MarkFails, TypeOK, Work
    <3>4. QED
      BY <1>7, <3>1, <3>2, <3>3
  <2>6. taken'[i] <= 1 + lost'[i]
    <3>1. lost'[i] \in Nat
      BY <1>7, <2>2, NextType DEF TypeOK
    <3>2. QED
      BY <2>5, <3>1
  <2>7. \A j \in LogId : j # i => tries'[j] = tries[j] /\ taken'[j] = taken[j] /\ lost'[j] = lost[j]
    BY <1>7 DEF Send, Answer, MarkFails, TypeOK
  <2> HIDE DEF i
  <2>8. QED
    BY <2>1, <2>2, <2>3, <2>5, <2>6, <2>7, BooksOf
<1>8. ASSUME NEW t \in Tick, MarkSent(t) \/ MarkFailed(t) PROVE Books'
  <2> DEFINE i == tick[t].row
  <2>1. Claimed(t) /\ UNCHANGED <<hand, tries, taken, lost>>
    BY <1>8 DEF MarkSent, MarkFailed, Claimed, provider
  <2>2. i \in LogId /\ log[i].status = "SENDING" /\ log[i].message = 0
    BY <2>1, Running DEF Books
  <2>3. /\ \A u \in Tick : u # t => tick'[u] = Idle
        /\ tick'[t].at = "drain"
    BY <1>8, <2>1, Running DEF MarkSent, MarkFailed, TypeOK, Work
  <2>4. /\ taken[i] \in Nat /\ lost[i] \in Nat
        /\ taken[i] = lost[i] + (IF tick[t].at \in {"answer", "sent"} THEN 1 ELSE 0)
    BY <2>1, <2>2 DEF Books, TypeOK
  <2>5. \A j \in LogId : j # i => log'[j] = log[j]
    BY <1>8 DEF MarkSent, MarkFailed, TypeOK
  <2>6. \/ tick[t].at = "sent" /\ log'[i].status = "SENT" /\ log'[i].message = taken[i]
        \/ tick[t].at = "failed" /\ log'[i].status \in {"QUEUED", "DLQ"} /\ log'[i].message = 0
    <3>1. CASE MarkSent(t)
      BY <3>1, <2>2 DEF MarkSent, TypeOK, Row
    <3>2. CASE MarkFailed(t)
      BY <3>2, <2>2 DEF MarkFailed, TypeOK, Row
    <3>3. QED
      BY <1>8, <3>1, <3>2
  <2>7. ~Claimed(t)'
    BY <2>3 DEF Claimed
  <2> HIDE DEF i
  <2>8. CASE tick[t].at = "sent"
    BY <2>1, <2>2, <2>3, <2>4, <2>5, <2>6, <2>7, <2>8, BooksOf
  <2>9. CASE tick[t].at = "failed"
    BY <2>1, <2>2, <2>3, <2>4, <2>5, <2>6, <2>7, <2>9, BooksOf
  <2>10. QED
    BY <2>6, <2>8, <2>9
<1>9. ASSUME NEW t \in Tick, TickEnds(t) \/ TickThrows(t) PROVE Books'
  BY <1>9, Shapes DEF TickEnds, TickThrows, Books, Claimed, TypeOK, provider
<1>10. CASE Restart
  BY <1>10, Shapes DEF Restart, Books, Claimed, provider
<1>11. ASSUME NEW i \in LogId, NEW n \in 1..taken[i], Receipt(i, n) PROVE Books'
  BY <1>11, TickShape DEF Receipt, ReceiptStatus, OneTick, Books, Claimed, TypeOK, provider
<1>12. CASE UNCHANGED vars
  BY <1>12 DEF vars, Books, Claimed
<1>13. QED
  BY <1>1, <1>2, <1>3, <1>4, <1>5, <1>6, <1>7, <1>8, <1>9, <1>10, <1>11, <1>12
     DEF Next, TickStep

(* A step of the one tick on one row: the attempts of other rows stay.      *)
LEMMA AttemptsOf ==
  ASSUME IInv, NEW t \in Tick, NEW i \in LogId,
         \A u \in Tick : u # t => tick'[u] = Idle,
         \A j \in LogId : j # i => log'[j] = log[j] /\ tries'[j] = tries[j],
         /\ tries'[i] <= MaxAttempts
         /\ log'[i].status # "SENDING" => log'[i].attempts = tries'[i]
         /\ log'[i].status \in {"QUEUED", "SENDING"} => log'[i].attempts < MaxAttempts,
         Claimed(t)' =>
           /\ tick'[t].row = i
           /\ tries'[i] = tick'[t].attempts + (IF tick'[t].at = "send" THEN 0 ELSE 1)
  PROVE  (AttemptsCount /\ TriesKnown)'
<1>1. \A u \in Tick : u # t => ~Claimed(u)'
  BY Shapes DEF Claimed
<1>2. AttemptsCount'
  BY DEF IInv, AttemptsCount
<1>3. QED
  BY <1>1, <1>2 DEF TriesKnown

(* The attempts of a row that is not claimed are its tries; the tick knows  *)
(* those of the row it has claimed.                                         *)
LEMMA NextAttempts == IInv /\ [Next]_vars => (AttemptsCount /\ TriesKnown)'
<1> SUFFICES ASSUME IInv, [Next]_vars PROVE (AttemptsCount /\ TriesKnown)'
  OBVIOUS
<1> USE DEF IInv
<1> DEFINE Goal == (AttemptsCount /\ TriesKnown)'
<1>1. ASSUME NEW i \in LogId, Enqueue(i) PROVE Goal
  <2>1. log[i].status = "none" /\ tries[i] = 0
    BY <1>1, Shapes DEF Enqueue, Fresh, Books
  <2>2. log'[i].status = "QUEUED" /\ log'[i].attempts = 0
    BY <1>1 DEF Enqueue, TypeOK
  <2>3. \A j \in LogId : j # i => log'[j] = log[j]
    BY <1>1 DEF Enqueue, TypeOK
  <2>4. UNCHANGED <<tick, tries>>
    BY <1>1 DEF Enqueue, provider
  <2>5. QED
    BY <2>1, <2>2, <2>3, <2>4, OutboxAssumption DEF AttemptsCount, TriesKnown, Claimed
<1>2. ASSUME NEW i \in LogId, BecomesDue(i) PROVE Goal
  BY <1>2 DEF BecomesDue, AttemptsCount, TriesKnown, Claimed, TypeOK, Row, provider
<1>3. ASSUME NEW q \in Request, NEW i \in LogId, SendNow(q, i) PROVE Goal
  BY <1>3 DEF SendNow, AttemptsCount, TriesKnown, Claimed
<1>4. ASSUME NEW q \in Request, RecordNow(q) \/ SendNowThrows(q) PROVE Goal
  <2>1. UNCHANGED <<tick, tries>>
    BY <1>4 DEF RecordNow, SendNowThrows, provider
  <2>2. hand[q] \in LogId /\ tries[hand[q]] = 0
    BY <1>4 DEF RecordNow, SendNowThrows, Books, TypeOK
  <2>3. CASE SendNowThrows(q)
    BY <2>1, <2>3 DEF SendNowThrows, AttemptsCount, TriesKnown, Claimed
  <2>4. CASE RecordNow(q)
    <3>1. log'[hand[q]].status = "SENT" /\ log'[hand[q]].attempts = 0
      BY <2>2, <2>4 DEF RecordNow, TypeOK
    <3>2. \A j \in LogId : j # hand[q] => log'[j] = log[j]
      BY <2>4 DEF RecordNow, TypeOK
    <3>3. QED
      BY <2>1, <2>2, <3>1, <3>2, OutboxAssumption DEF AttemptsCount, TriesKnown, Claimed
  <2>5. QED
    BY <1>4, <2>3, <2>4
<1>5. ASSUME NEW t \in Tick, DrainRead(t) PROVE Goal
  <2>1. tick'[t].at = "drain" /\ \A u \in Tick : u # t => tick'[u] = tick[u]
    BY <1>5 DEF DrainRead, Idle, TypeOK
  <2>2. QED
    BY <1>5, <2>1 DEF DrainRead, AttemptsCount, TriesKnown, Claimed, provider
<1>6. ASSUME NEW t \in Tick, NEW x \in tick[t].batch, Claim(t, x) PROVE Goal
  <2>1. /\ tick[t] # Idle /\ x.row \in LogId
        /\ log[x.row].status = "QUEUED" /\ log[x.row].attempts = x.attempts
    BY <1>6, Shapes, TickShape DEF Claim, OneTick
  <2>2. \A u \in Tick : u # t => tick'[u] = Idle
    BY <1>6, <2>1, Alone DEF Claim, TypeOK
  <2>3. /\ log' = [log EXCEPT ![x.row].status = "SENDING"]
        /\ tick'[t].at = "send" /\ tick'[t].row = x.row /\ tick'[t].attempts = x.attempts
        /\ UNCHANGED tries
    BY <1>6, <2>1 DEF Claim, TypeOK, provider
  <2>4. log'[x.row].status = "SENDING" /\ log'[x.row].attempts = x.attempts
    BY <2>1, <2>3 DEF TypeOK, Row
  <2>5. tries[x.row] = x.attempts /\ x.attempts < MaxAttempts /\ tries[x.row] \in Nat
    BY <2>1 DEF AttemptsCount, TypeOK
  <2>6. \A j \in LogId : j # x.row => log'[j] = log[j]
    BY <2>3 DEF TypeOK
  <2>7. QED
    BY <2>1, <2>2, <2>3, <2>4, <2>5, <2>6, AttemptsOf, OutboxAssumption
<1>7. ASSUME NEW t \in Tick, Send(t) \/ Answer(t) \/ MarkFails(t) PROVE Goal
  <2> DEFINE i == tick[t].row
  <2>1. Claimed(t) /\ UNCHANGED log
    BY <1>7 DEF Send, Answer, MarkFails, Claimed
  <2>2. /\ i \in LogId /\ log[i].status = "SENDING" /\ log[i].attempts < MaxAttempts
        /\ log[i].attempts = tick[t].attempts /\ tick[t].attempts \in Nat
    BY <2>1, Running, TickShape DEF AttemptsCount
  <2>3. /\ \A u \in Tick : u # t => tick'[u] = Idle
        /\ tick'[t].row = i /\ tick'[t].attempts = tick[t].attempts /\ tick'[t].at # "send"
    BY <1>7, <2>1, Running DEF Send, Answer, MarkFails, TypeOK, Work
  <2>4. tries'[i] = tick[t].attempts + 1
    BY <1>7, <2>1, <2>2 DEF Send, Answer, MarkFails, TriesKnown, Claimed, TypeOK
  <2>5. \A j \in LogId : j # i => tries'[j] = tries[j]
    BY <1>7 DEF Send, Answer, MarkFails, TypeOK
  <2>6. tries'[i] <= MaxAttempts
    BY <2>2, <2>4, OutboxAssumption
  <2> HIDE DEF i
  <2>7. QED
    BY <2>1, <2>2, <2>3, <2>4, <2>5, <2>6, AttemptsOf
<1>8. ASSUME NEW t \in Tick, MarkSent(t) \/ MarkFailed(t) PROVE Goal
  <2> DEFINE i == tick[t].row
  <2>1. Claimed(t) /\ tick[t].at # "send" /\ UNCHANGED tries
    BY <1>8 DEF MarkSent, MarkFailed, Claimed, provider
  <2>2. /\ i \in LogId /\ log[i].attempts < MaxAttempts
        /\ log[i].attempts = tick[t].attempts /\ tick[t].attempts \in Nat
    BY <2>1, Running, TickShape DEF AttemptsCount
  <2>3. /\ \A u \in Tick : u # t => tick'[u] = Idle
        /\ tick'[t].at = "drain"
    BY <1>8, <2>1, Running DEF MarkSent, MarkFailed, TypeOK, Work
  <2>4. tries[i] = tick[t].attempts + 1
    BY <2>1 DEF TriesKnown
  <2>5. \A j \in LogId : j # i => log'[j] = log[j]
    BY <1>8 DEF MarkSent, MarkFailed, TypeOK
  <2>6. /\ log'[i].attempts = tick[t].attempts + 1
        /\ log'[i].status # "SENDING"
        /\ log'[i].status = "QUEUED" => tick[t].attempts + 1 < MaxAttempts
    <3>1. CASE MarkSent(t)
      BY <3>1, <2>2 DEF MarkSent, TypeOK, Row
    <3>2. CASE MarkFailed(t)
      BY <3>2, <2>2, OutboxAssumption DEF MarkFailed, TypeOK, Row
    <3>3. QED
      BY <1>8, <3>1, <3>2
  <2>7. ~Claimed(t)' /\ tries[i] <= MaxAttempts
    BY <2>2, <2>3, <2>4, OutboxAssumption DEF Claimed
  <2> HIDE DEF i
  <2>8. QED
    BY <2>1, <2>2, <2>3, <2>4, <2>5, <2>6, <2>7, AttemptsOf
<1>9. ASSUME NEW t \in Tick, TickEnds(t) \/ TickThrows(t) PROVE Goal
  <2>1. tick'[t] = Idle /\ \A u \in Tick : u # t => tick'[u] = tick[u]
    BY <1>9 DEF TickEnds, TickThrows, TypeOK
  <2>2. UNCHANGED <<log, tries>>
    BY <1>9 DEF TickEnds, TickThrows, provider
  <2>3. QED
    BY <2>1, <2>2, Shapes DEF AttemptsCount, TriesKnown, Claimed
<1>10. CASE Restart
  BY <1>10, Shapes DEF Restart, AttemptsCount, TriesKnown, Claimed, provider
<1>11. ASSUME NEW i \in LogId, NEW n \in 1..taken[i], Receipt(i, n) PROVE Goal
  <2>1. log[i].status # "SENDING"
    BY <1>11 DEF Receipt, Books, TypeOK
  <2>2. /\ log'[i].attempts = log[i].attempts /\ log'[i].status \in ReceiptStatus
        /\ \A j \in LogId : j # i => log'[j] = log[j]
    BY <1>11 DEF Receipt, TypeOK, Row
  <2>3. UNCHANGED <<tick, tries>>
    BY <1>11 DEF Receipt, provider
  <2>4. QED
    BY <2>1, <2>2, <2>3 DEF ReceiptStatus, AttemptsCount, TriesKnown, Claimed
<1>12. CASE UNCHANGED vars
  BY <1>12 DEF vars, AttemptsCount, TriesKnown, Claimed
<1>13. QED
  BY <1>1, <1>2, <1>3, <1>4, <1>5, <1>6, <1>7, <1>8, <1>9, <1>10, <1>11, <1>12
     DEF Next, TickStep

(* The ticks, the messages and the attempts of the outbox stay in order.    *)
THEOREM Invariance == Spec => []IInv
<1>1. IInv /\ [Next]_vars => IInv'
  BY NextType, NextOneTick, NextBooks, NextAttempts DEF IInv
<1>2. QED
  BY InitIInv, <1>1, PTL DEF Spec

(* The attempts a row shows are the times it was given to its provider,     *)
(* never more than MaxAttempts, for whatever faults.                        *)
THEOREM AttemptsCountHolds == Spec => []AttemptsCount
<1>1. IInv => AttemptsCount
  BY DEF IInv
<1>2. QED
  BY Invariance, <1>1, PTL

(* A guest gets a message again only after an answer that was lost.         *)
THEOREM DuplicatesOnlyAfterLossHolds == Spec => []DuplicatesOnlyAfterLoss
<1>1. IInv => DuplicatesOnlyAfterLoss
  BY DEF IInv, Books, DuplicatesOnlyAfterLoss
<1>2. QED
  BY Invariance, <1>1, PTL

(* A row shown as sent was taken, and its receipts are of its last message. *)
THEOREM SentWasTakenHolds == Spec => []SentWasTaken
<1>1. IInv => SentWasTaken
  BY DEF IInv, Books, SentWasTaken
<1>2. QED
  BY Invariance, <1>1, PTL

(* Only a claimed row that was never recorded as sent goes to the provider. *)
THEOREM NeverResendsSettledHolds == Spec => NeverResendsSettled
<1> DEFINE Unsettled ==
      \A i \in LogId : tries'[i] # tries[i] => log[i].status = "SENDING" /\ log[i].message = 0
<1>1. ASSUME IInv, [Next]_vars PROVE [Unsettled]_vars
  <2> SUFFICES ASSUME NEW i \in LogId, tries'[i] # tries[i]
               PROVE  log[i].status = "SENDING" /\ log[i].message = 0
    OBVIOUS
  <2>1. PICK t \in Tick : Send(t)
    BY <1>1 DEF Next, TickStep, vars, provider, Enqueue, BecomesDue, Receipt, RecordNow,
       SendNowThrows, SendNow, DrainRead, Claim, Answer, MarkSent, MarkFailed, TickEnds,
       MarkFails, TickThrows, Restart
  <2>2. i = tick[t].row /\ Claimed(t)
    BY <1>1, <2>1 DEF Send, Claimed, IInv, TypeOK
  <2>3. QED
    BY <1>1, <2>2, Running DEF IInv, Books
<1>2. QED
  BY Invariance, <1>1, PTL DEF Spec, NeverResendsSettled

================================================================================
