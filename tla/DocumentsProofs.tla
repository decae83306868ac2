---------------------------- MODULE DocumentsProofs ----------------------------
(***************************************************************************)
(* Proofs about guests' documents, for any guests, files and handlers.     *)
(***************************************************************************)
EXTENDS Documents, TLAPS

(* The path a row may have tells whether it is live. *)
LEMMA LiveOrNot ==
  ASSUME TypeOK, NEW f \in FileId
  PROVE  /\ row[f] = "unused" => ~Live(f)
         /\ row[f] = "deleted" => ~Live(f)
         /\ None \notin FileId
BY DocumentsAssumption DEF Live

LEMMA IdleKind == Idle.kind = "idle"
BY DEF Idle

(* What a handler in flight holds. *)
LEMMA HandlerShape ==
  ASSUME TypeOK, NEW h \in Handler, req[h].kind # "idle"
  PROVE  /\ req[h] \in InFlight /\ req[h] # Idle
         /\ req[h].guest \in Guest /\ req[h].doomed \in FileId \cup {None}
         /\ req[h].new \in FileId \cup {None} /\ req[h].path \in Content \cup {None}
         /\ req[h].kind = "upload" => req[h].path \in Content
<1>1. req[h] \in InFlight \cup {Idle}
  BY DEF TypeOK
<1>2. req[h] # Idle
  BY IdleKind
<1>3. req[h] \in InFlight
  BY <1>1, <1>2
<1>4. QED
  BY <1>2, <1>3 DEF InFlight

LEMMA InitIInv == Init => IInv
<1> SUFFICES ASSUME Init PROVE IInv
  OBVIOUS
<1>1. TypeOK
  BY DEF Init, TypeOK
<1>2. \A f \in FileId, g \in Guest : ~HeldFor(f, g)
  BY DocumentsAssumption DEF Init, HeldFor
<1>3. OwnPaths
  BY DocumentsAssumption, IdleKind DEF Init, OwnPaths, Live, Storing, Unlinking
<1>4. QED
  BY <1>1, <1>2, <1>3 DEF IInv, OneGuestPerFile

(* Handler h goes on with m, or ends, or starts. *)
LEMMA NextType == TypeOK /\ [Next]_vars => TypeOK'
<1> SUFFICES ASSUME TypeOK, [Next]_vars PROVE TypeOK'
  OBVIOUS
<1> USE DEF TypeOK, files, history
<1>1. ASSUME NEW g \in Guest, BookStay(g) \/ CancelStays(g) PROVE TypeOK'
  BY <1>1 DEF BookStay, CancelStays
<1>2. ASSUME NEW q \in Request, NEW g \in Guest, EraseRead(q, g) PROVE TypeOK'
  <2> DEFINE m == [kind |-> "erase", step |-> "count", guest |-> g, doomed |-> doc[g],
                   new |-> None, path |-> None]
  <2>1. m \in InFlight
    BY DEF InFlight
  <2>2. req' = [req EXCEPT ![q] = m] /\ calm' \in BOOLEAN
    BY <1>2 DEF EraseRead, Starts
  <2>3. QED
    BY <1>2, <2>1, <2>2 DEF EraseRead
<1>3. ASSUME NEW q \in Request, NEW g \in Guest, NEW c \in Content, UploadRead(q, g, c)
      PROVE  TypeOK'
  <2>1. Upload(g, c, doc[g]) \in InFlight
    BY DEF InFlight, Upload
  <2>2. req' = [req EXCEPT ![q] = Upload(g, c, doc[g])] /\ calm' \in BOOLEAN
    BY <1>3 DEF UploadRead, Starts
  <2>3. QED
    BY <1>3, <2>1, <2>2 DEF UploadRead
<1>4. ASSUME NEW due \in SUBSET Guest, PurgeRead(due) PROVE TypeOK'
  <2>1. batch' \subseteq [guest : Guest, file : FileId]
    BY <1>4 DEF PurgeRead
  <2>2. QED
    BY <1>4, <2>1 DEF PurgeRead
<1>5. ASSUME NEW x \in batch, PurgeNext(x) PROVE TypeOK'
  <2> DEFINE m == [kind |-> "purge", step |-> "find", guest |-> x.guest, doomed |-> x.file,
                   new |-> None, path |-> None]
  <2>1. m \in InFlight
    BY DEF InFlight
  <2>2. req' = [req EXCEPT ![Purger] = m] /\ calm' = calm /\ again' = again
    BY <1>5 DEF PurgeNext, GoesOn
  <2>3. QED
    BY <1>5, <2>1, <2>2 DEF PurgeNext
<1>6. ASSUME NEW h \in Handler, Abandon(h) PROVE TypeOK'
  BY <1>6 DEF Abandon
<1>7. ASSUME NEW h \in Handler, Proceed(h) PROVE TypeOK'
  <2>1. ASSUME NEW m \in InFlight, GoesOn(h, m)
        PROVE  /\ req' \in [Handler -> InFlight \cup {Idle}] /\ calm' \in BOOLEAN
               /\ again' \subseteq Content
    BY <2>1 DEF GoesOn
  <2>2. ASSUME Ends(h)
        PROVE  /\ req' \in [Handler -> InFlight \cup {Idle}] /\ calm' \in BOOLEAN
               /\ again' \subseteq Content
    BY <2>2 DEF Ends, GoesOn
  <2>3. CASE Find(h)
    <3>1. req[h] \in InFlight /\ req[h].doomed \in FileId \cup {None}
      BY <2>3, HandlerShape DEF Find
    <3>2. [req[h] EXCEPT !.step = "update"] \in InFlight
      BY <3>1 DEF InFlight
    <3>3. Live(req[h].doomed) =>
            [req[h] EXCEPT !.step = "unlink", !.path = row[req[h].doomed]] \in InFlight
      BY <3>1 DEF InFlight, Live
    <3>4. QED
      BY <2>1, <2>3, <3>2, <3>3 DEF Find
  <2>4. CASE Unlink(h)
    <3>1. [req[h] EXCEPT !.step = "drop"] \in InFlight
      BY <2>4, HandlerShape DEF Unlink, InFlight
    <3>2. QED
      BY <2>1, <2>4, <3>1 DEF Unlink
  <2>5. CASE DropRow(h)
    <3>1. [req[h] EXCEPT !.step = "update"] \in InFlight
      BY <2>5, HandlerShape DEF DropRow, InFlight
    <3>2. QED
      BY <2>1, <2>5, <3>1 DEF DropRow, Live
  <2>6. CASE WriteBytes(h)
    <3>1. req[h] \in InFlight
      BY <2>6, HandlerShape DEF WriteBytes
    <3>2. [req[h] EXCEPT !.step = "row"] \in InFlight
      BY <3>1 DEF InFlight
    <3>3. req[h].path \in Content
      BY <2>6, <3>1 DEF InFlight, WriteBytes
    <3>4. QED
      BY <2>1, <2>6, <3>2, <3>3 DEF WriteBytes
  <2>7. CASE UpdateUpload(h)
    <3>1. req[h].new \in FileId \cup {None}
      BY <2>7, HandlerShape DEF UpdateUpload
    <3>2. QED
      BY <2>2, <2>7, <3>1 DEF UpdateUpload
  <2>8. ASSUME NEW f \in FileId, CreateRow(h, f) PROVE TypeOK'
    <3>1. req[h] \in InFlight
      BY <2>8, HandlerShape DEF CreateRow
    <3>2. [req[h] EXCEPT !.step = "find", !.new = f] \in InFlight
      BY <3>1 DEF InFlight
    <3>3. req[h].path \in Content
      BY <2>8, <3>1 DEF InFlight, CreateRow
    <3>4. QED
      BY <2>1, <2>8, <3>2, <3>3 DEF CreateRow
  <2>9. CASE EraseCount(h)
    <3>1. req[h] \in InFlight
      BY <2>9, HandlerShape DEF EraseCount
    <3>2. \A k \in {"anonymise", "erase"} :
            [req[h] EXCEPT !.step = "find", !.kind = k] \in InFlight
      BY <3>1 DEF InFlight
    <3>3. QED
      BY <2>1, <2>9, <3>2 DEF EraseCount
  <2>10. CASE UpdateAnonymise(h) \/ UpdateErase(h) \/ UpdatePurge(h) \/ Throws(h)
    BY <2>2, <2>10 DEF UpdateAnonymise, UpdateErase, UpdatePurge, Throws
  <2>11. QED
    BY <1>7, <2>3, <2>4, <2>5, <2>6, <2>7, <2>8, <2>9, <2>10 DEF Proceed
<1>8. CASE UNCHANGED vars
  BY <1>8 DEF vars
<1>9. QED
  BY <1>1, <1>2, <1>3, <1>4, <1>5, <1>6, <1>7, <1>8 DEF Next, Receive

--------------------------------------------------------------------------------
(* Nobody comes to hold a file, and no row's id comes free. *)
NoNewHold ==
  /\ \A f \in FileId, g \in Guest : HeldFor(f, g)' => HeldFor(f, g)
  /\ \A f \in FileId : row[f] # "unused" => row'[f] # "unused"

(* Handler h takes up what is held in that name already; the guests and the *)
(* purge's list only keep what they hold.                                   *)
LEMMA HandsOn ==
  ASSUME NEW h \in Handler, \A k \in Handler : k # h => req'[k] = req[k],
         req'[h] # Idle =>
           \A f \in FileId : f \in {req'[h].doomed, req'[h].new} => HeldFor(f, req'[h].guest),
         \A f \in FileId, g \in Guest : doc'[g] = f => HeldFor(f, g),
         \A f \in FileId, g \in Guest :
           [guest |-> g, file |-> f] \in batch' => HeldFor(f, g)
  PROVE  \A f \in FileId, g \in Guest : HeldFor(f, g)' => HeldFor(f, g)
<1> SUFFICES ASSUME NEW f \in FileId, NEW g \in Guest, HeldFor(f, g)' PROVE HeldFor(f, g)
  OBVIOUS
<1>1. CASE doc'[g] = f \/ [guest |-> g, file |-> f] \in batch'
  BY <1>1
<1>2. ASSUME NEW k \in Handler, req'[k] # Idle, req'[k].guest = g,
             f \in {req'[k].doomed, req'[k].new}
      PROVE  HeldFor(f, g)
  BY <1>2 DEF HeldFor
<1>3. QED
  BY <1>1, <1>2 DEF HeldFor

LEMMA NoNewHoldKeeps ==
  ASSUME OneGuestPerFile, NoNewHold
  PROVE  OneGuestPerFile'
BY DEF OneGuestPerFile, NoNewHold

(* Documents pass to nobody else. *)
LEMMA NextOneGuest == TypeOK /\ OneGuestPerFile /\ [Next]_vars => OneGuestPerFile'
<1> SUFFICES ASSUME TypeOK, OneGuestPerFile, [Next]_vars PROVE OneGuestPerFile'
  OBVIOUS
<1> DEFINE Kept == UNCHANGED <<row, doc, batch>>
<1>1. ASSUME NEW g \in Guest, BookStay(g) \/ CancelStays(g)
      PROVE  NoNewHold
  BY <1>1 DEF BookStay, CancelStays, NoNewHold, HeldFor, files
<1>2. ASSUME NEW q \in Request, NEW g \in Guest, EraseRead(q, g) PROVE NoNewHold
  <2> DEFINE m == [kind |-> "erase", step |-> "count", guest |-> g, doomed |-> doc[g],
                   new |-> None, path |-> None]
  <2>1. /\ q \in Handler /\ req'[q] = m /\ Kept
        /\ \A k \in Handler : k # q => req'[k] = req[k]
    BY <1>2 DEF EraseRead, Starts, Handler, files, TypeOK
  <2>2. \A f \in FileId : f \in {m.doomed, m.new} => HeldFor(f, m.guest)
    BY DocumentsAssumption DEF HeldFor
  <2>3. QED
    BY <2>1, <2>2, HandsOn DEF NoNewHold, HeldFor
<1>3. ASSUME NEW q \in Request, NEW g \in Guest, NEW c \in Content, UploadRead(q, g, c)
      PROVE  NoNewHold
  <2> DEFINE m == Upload(g, c, doc[g])
  <2>1. /\ q \in Handler /\ req'[q] = m /\ Kept
        /\ \A k \in Handler : k # q => req'[k] = req[k]
    BY <1>3 DEF UploadRead, Starts, Handler, files, TypeOK
  <2>2. \A f \in FileId : f \in {m.doomed, m.new} => HeldFor(f, m.guest)
    BY DocumentsAssumption DEF HeldFor, Upload
  <2>3. QED
    BY <2>1, <2>2, HandsOn DEF NoNewHold, HeldFor
<1>4. ASSUME NEW due \in SUBSET Guest, PurgeRead(due) PROVE NoNewHold
  <2>1. UNCHANGED <<row, doc, req>>
    BY <1>4 DEF PurgeRead, files
  <2>2. \A f \in FileId, g \in Guest : [guest |-> g, file |-> f] \in batch' => doc[g] = f
    BY <1>4 DEF PurgeRead
  <2>3. QED
    BY <2>1, <2>2 DEF NoNewHold, HeldFor
<1>5. ASSUME NEW x \in batch, PurgeNext(x) PROVE NoNewHold
  <2> DEFINE m == [kind |-> "purge", step |-> "find", guest |-> x.guest, doomed |-> x.file,
                   new |-> None, path |-> None]
  <2>1. /\ Purger \in Handler /\ req'[Purger] = m
        /\ \A k \in Handler : k # Purger => req'[k] = req[k]
        /\ batch' \subseteq batch /\ UNCHANGED <<row, doc>>
    BY <1>5 DEF PurgeNext, GoesOn, Handler, files, TypeOK
  <2>2. x = [guest |-> x.guest, file |-> x.file]
    BY <1>5 DEF TypeOK
  <2>3. \A f \in FileId : f \in {m.doomed, m.new} => HeldFor(f, m.guest)
    BY DocumentsAssumption, <2>2 DEF HeldFor
  <2>4. QED
    BY <2>1, <2>3, HandsOn DEF NoNewHold, HeldFor
<1>6. ASSUME NEW h \in Handler, Abandon(h) PROVE NoNewHold
  <2>1. /\ req'[h] = Idle /\ batch' \subseteq batch /\ UNCHANGED <<row, doc>>
        /\ \A k \in Handler : k # h => req'[k] = req[k]
    BY <1>6 DEF Abandon, files, TypeOK
  <2>2. QED
    BY <2>1, HandsOn DEF NoNewHold, HeldFor
<1>7. ASSUME NEW h \in Handler, NEW f \in FileId, CreateRow(h, f) PROVE OneGuestPerFile'
  <2>1. /\ req[h] # Idle /\ req[h] \in InFlight /\ req[h].path \in Content
        /\ req[h].guest \in Guest
    BY <1>7, HandlerShape DEF CreateRow
  <2> DEFINE m == [req[h] EXCEPT !.step = "find", !.new = f]
  <2>2. /\ row[f] = "unused" /\ row' = [row EXCEPT ![f] = req[h].path]
        /\ req' = [req EXCEPT ![h] = m] /\ UNCHANGED <<doc, batch>>
    BY <1>7 DEF CreateRow, GoesOn
  <2>3. m.new = f /\ m.guest = req[h].guest /\ m.doomed = req[h].doomed
    BY <2>1 DEF InFlight
  <2>4. \A k \in FileId, g \in Guest :
          HeldFor(k, g)' => HeldFor(k, g) \/ (k = f /\ g = req[h].guest)
    <3> SUFFICES ASSUME NEW k \in FileId, NEW g \in Guest, HeldFor(k, g)', ~HeldFor(k, g)
                 PROVE  k = f /\ g = req[h].guest
      OBVIOUS
    <3>1. PICK x \in Handler : /\ req'[x] # Idle /\ req'[x].guest = g
                               /\ k \in {req'[x].doomed, req'[x].new}
      BY <2>2 DEF HeldFor
    <3>2. x = h
      BY <2>2, <3>1 DEF HeldFor, TypeOK
    <3>3. req'[h] = m
      BY <2>2 DEF TypeOK
    <3>4. QED
      BY <2>1, <2>3, <3>1, <3>2, <3>3 DEF HeldFor
  <2>5. \A g \in Guest : ~HeldFor(f, g)
    BY <2>2 DEF OneGuestPerFile
  <2>6. /\ row'[f] # "unused"
        /\ \A k \in FileId : row[k] # "unused" => row'[k] # "unused"
    BY <2>1, <2>2, DocumentsAssumption DEF TypeOK
  <2>7. QED
    BY <2>4, <2>5, <2>6 DEF OneGuestPerFile
<1>8. ASSUME NEW h \in Handler, Find(h) \/ Unlink(h) \/ DropRow(h) \/ WriteBytes(h) \/ EraseCount(h)
      PROVE  NoNewHold
  <2>1. req[h] # Idle /\ req[h] \in InFlight
    BY <1>8, HandlerShape DEF Find, Unlink, DropRow, WriteBytes, EraseCount
  <2>2. /\ \A k \in Handler : k # h => req'[k] = req[k]
        /\ req'[h].guest = req[h].guest /\ req'[h].doomed = req[h].doomed
        /\ req'[h].new = req[h].new
    <3> USE <2>1 DEF TypeOK, GoesOn, InFlight
    <3>1. CASE Find(h)
      <4>1. CASE Live(req[h].doomed)
        <5>1. req' = [req EXCEPT ![h] = [req[h] EXCEPT !.step = "unlink", !.path = row[req[h].doomed]]]
          BY <3>1, <4>1 DEF Find
        <5>2. QED
          BY <5>1
      <4>2. CASE ~Live(req[h].doomed)
        BY <3>1, <4>2 DEF Find
      <4>3. QED
        BY <4>1, <4>2
    <3>2. CASE Unlink(h)
      BY <3>2 DEF Unlink
    <3>3. CASE DropRow(h)
      BY <3>3 DEF DropRow
    <3>4. CASE WriteBytes(h)
      BY <3>4 DEF WriteBytes
    <3>5. CASE EraseCount(h)
      BY <3>5 DEF EraseCount
    <3>6. QED
      BY <1>8, <3>1, <3>2, <3>3, <3>4, <3>5
  <2>3. UNCHANGED <<doc, batch>>
    BY <1>8 DEF Find, Unlink, DropRow, WriteBytes, EraseCount
  <2>4. \A f \in FileId : f \in {req'[h].doomed, req'[h].new} => HeldFor(f, req'[h].guest)
    BY <2>1, <2>2 DEF HeldFor
  <2>5. \A f \in FileId : row[f] # "unused" => row'[f] # "unused"
    BY <1>8 DEF Find, Unlink, DropRow, WriteBytes, EraseCount, files, TypeOK
  <2>6. QED
    BY <2>2, <2>3, <2>4, <2>5, HandsOn DEF NoNewHold, HeldFor
<1>9. ASSUME NEW h \in Handler, UpdateUpload(h) PROVE NoNewHold
  <2>1. req[h] # Idle
    BY <1>9, HandlerShape DEF UpdateUpload
  <2>2. /\ req'[h] = Idle /\ UNCHANGED <<row, batch>>
        /\ \A k \in Handler : k # h => req'[k] = req[k]
        /\ doc' = [doc EXCEPT ![req[h].guest] = req[h].new]
    BY <1>9 DEF UpdateUpload, Ends, GoesOn, files, TypeOK
  <2>3. \A f \in FileId, g \in Guest : doc'[g] = f => HeldFor(f, g)
    BY <2>1, <2>2 DEF HeldFor, TypeOK
  <2>4. QED
    BY <2>2, <2>3, HandsOn DEF NoNewHold, HeldFor
<1>10. ASSUME NEW h \in Handler,
              UpdateAnonymise(h) \/ UpdateErase(h) \/ UpdatePurge(h) \/ Throws(h)
       PROVE  NoNewHold
  <2>1. /\ req'[h] = Idle /\ batch' \subseteq batch /\ UNCHANGED row
        /\ \A k \in Handler : k # h => req'[k] = req[k]
    BY <1>10 DEF UpdateAnonymise, UpdateErase, UpdatePurge, Throws, Ends, GoesOn, files, TypeOK
  <2>2. \A f \in FileId, g \in Guest : doc'[g] = f => doc[g] = f
    BY <1>10, DocumentsAssumption
       DEF UpdateAnonymise, UpdateErase, UpdatePurge, Throws, TypeOK
  <2>3. QED
    BY <2>1, <2>2, HandsOn DEF NoNewHold, HeldFor
<1>11. ASSUME UNCHANGED vars PROVE NoNewHold
  BY <1>11 DEF vars, NoNewHold, HeldFor
<1>12. ASSUME NEW h \in Handler, Proceed(h) PROVE OneGuestPerFile'
  BY <1>7, <1>8, <1>9, <1>10, <1>12, NoNewHoldKeeps DEF Proceed
<1>13. QED
  BY <1>1, <1>2, <1>3, <1>4, <1>5, <1>6, <1>11, <1>12, NoNewHoldKeeps DEF Next, Receive

--------------------------------------------------------------------------------
(* Handler h keeps its path, or takes one that nobody is storing; the rows  *)
(* that are live were live before.                                          *)
LEMMA PathsOn ==
  ASSUME OwnPaths, NEW h \in Handler, \A k \in Handler : k # h => req'[k] = req[k],
         \A f \in FileId : Live(f)' => Live(f) /\ row'[f] = row[f], UNCHANGED again,
         Storing(h)' => Storing(h) /\ req'[h].path = req[h].path,
         req'[h] # Idle =>
           \A k \in Handler :
             k # h /\ Storing(k) /\ req[k].path \notin again => req'[h].path # req[k].path,
         Unlinking(h)' =>
           \A f \in FileId :
             Live(f) /\ row[f] = req'[h].path /\ row[f] \notin again => f = req'[h].doomed
  PROVE  OwnPaths'
<1> USE DEF Storing, Unlinking
<1>1. \A f, k \in FileId : Live(f)' /\ Live(k)' /\ row'[f] = row'[k] /\ row'[f] \notin again'
                            => f = k
  BY DEF OwnPaths
<1>2. ASSUME NEW k \in Handler, Storing(k)', req'[k].path \notin again'
      PROVE  /\ \A f \in FileId : Live(f)' => row'[f] # req'[k].path
             /\ \A x \in Handler : x # k /\ req'[x] # Idle => req'[x].path # req'[k].path
  <2>1. Storing(k) /\ req'[k].path = req[k].path /\ req[k].path \notin again
    BY <1>2
  <2>2. \A x \in Handler : x # k /\ req'[x] # Idle => req'[x].path # req[k].path
    <3> SUFFICES ASSUME NEW x \in Handler, x # k, req'[x] # Idle PROVE req'[x].path # req[k].path
      OBVIOUS
    <3>1. CASE x = h
      BY <2>1, <3>1
    <3>2. CASE x # h
      BY <2>1, <3>2 DEF OwnPaths
    <3> QED
      BY <3>1, <3>2
  <2>3. \A f \in FileId : Live(f) => row[f] # req[k].path
    BY <2>1 DEF OwnPaths
  <2> QED
    BY <2>1, <2>2, <2>3
<1>3. ASSUME NEW k \in Handler, NEW f \in FileId, Unlinking(k)', Live(f)', row'[f] = req'[k].path,
             row'[f] \notin again'
      PROVE  f = req'[k].doomed
  BY <1>3 DEF OwnPaths
<1>4. QED
  BY <1>1, <1>2, <1>3 DEF OwnPaths

(* What is stored under a path is known before anybody stores it again.     *)
LEMMA NextOwnPaths == TypeOK /\ OwnPaths /\ [Next]_vars => OwnPaths'
<1> SUFFICES ASSUME TypeOK, OwnPaths, [Next]_vars PROVE OwnPaths'
  OBVIOUS
<1> DEFINE Others(h) == \A k \in Handler : k # h => req'[k] = req[k]
<1>1. ASSUME NEW g \in Guest, BookStay(g) \/ CancelStays(g)
      PROVE  OwnPaths'
  BY <1>1 DEF BookStay, CancelStays, OwnPaths, Live, Storing, Unlinking, files, history
<1>2. ASSUME NEW q \in Request, NEW g \in Guest, EraseRead(q, g) PROVE OwnPaths'
  <2>1. /\ q \in Handler /\ Others(q) /\ UNCHANGED <<row, again>>
        /\ req'[q] = [kind |-> "erase", step |-> "count", guest |-> g, doomed |-> doc[g],
                      new |-> None, path |-> None]
    BY <1>2 DEF EraseRead, Starts, Handler, files, TypeOK
  <2>2. \A k \in Handler : Storing(k) => req[k].path # None
    BY HandlerShape, DocumentsAssumption DEF Storing
  <2>3. QED
    BY <2>1, <2>2, PathsOn DEF Storing, Unlinking, Live
<1>3. ASSUME NEW q \in Request, NEW g \in Guest, NEW c \in Content, UploadRead(q, g, c)
      PROVE  OwnPaths'
  <2>1. /\ q \in Handler /\ Others(q) /\ UNCHANGED row /\ req[q] = Idle
        /\ req'[q] = Upload(g, c, doc[g])
        /\ again' = IF c \in InUse THEN again \cup {c} ELSE again \ {c}
    BY <1>3 DEF UploadRead, Starts, Handler, files, TypeOK
  <2>2. c \notin again' =>
          /\ \A f \in FileId : Live(f) => row[f] # c
          /\ \A k \in Handler : req[k] # Idle => req[k].path # c
    BY <2>1 DEF InUse
  <2>3. \A p : p \notin again' => p \notin again \/ p = c
    BY <2>1
  <2>4. /\ req'[q].kind = "upload" /\ req'[q].step = "write" /\ req'[q].path = c
        /\ \A f : Live(f)' <=> Live(f)
    BY <2>1 DEF Upload, Live
  <2>5. ASSUME NEW f \in FileId, NEW k \in FileId, Live(f)', Live(k)', row'[f] = row'[k],
               row'[f] \notin again'
        PROVE  f = k
    BY <2>1, <2>2, <2>3, <2>4, <2>5 DEF OwnPaths
  <2>6. ASSUME NEW k \in Handler, Storing(k)', req'[k].path \notin again'
        PROVE  /\ \A f \in FileId : Live(f)' => row'[f] # req'[k].path
               /\ \A x \in Handler : x # k /\ req'[x] # Idle => req'[x].path # req'[k].path
    <3>1. CASE k = q
      BY <2>1, <2>2, <2>4, <2>6, <3>1
    <3>2. CASE k # q
      <4>1. Storing(k) /\ req'[k] = req[k] /\ req[k] # Idle
        BY <2>1, <2>6, <3>2, IdleKind DEF Storing
      <4>2. req[k].path # c
        BY <2>2, <2>6, <4>1
      <4>3. req[k].path \notin again
        BY <2>3, <2>6, <4>1, <4>2
      <4> QED
        BY <2>1, <2>4, <4>1, <4>2, <4>3 DEF OwnPaths
    <3> QED
      BY <3>1, <3>2
  <2>7. ASSUME NEW k \in Handler, NEW f \in FileId, Unlinking(k)', Live(f)',
               row'[f] = req'[k].path, row'[f] \notin again'
        PROVE  f = req'[k].doomed
    <3>1. k # q /\ req'[k] = req[k] /\ Unlinking(k)
      BY <2>1, <2>4, <2>7 DEF Unlinking
    <3>2. row[f] # c
      BY <2>1, <2>2, <2>4, <2>7
    <3> QED
      BY <2>1, <2>3, <2>4, <2>7, <3>1, <3>2 DEF OwnPaths
  <2>8. QED
    BY <2>5, <2>6, <2>7 DEF OwnPaths
<1>4. ASSUME NEW due \in SUBSET Guest, PurgeRead(due) PROVE OwnPaths'
  BY <1>4 DEF PurgeRead, OwnPaths, Live, Storing, Unlinking, files
<1>5. ASSUME NEW x \in batch, PurgeNext(x) PROVE OwnPaths'
  <2>1. /\ Purger \in Handler /\ Others(Purger) /\ UNCHANGED <<row, again>>
        /\ req'[Purger] = [kind |-> "purge", step |-> "find", guest |-> x.guest,
                           doomed |-> x.file, new |-> None, path |-> None]
    BY <1>5 DEF PurgeNext, GoesOn, Handler, files, history, TypeOK
  <2>2. \A k \in Handler : Storing(k) => req[k].path # None
    BY HandlerShape, DocumentsAssumption DEF Storing
  <2>3. QED
    BY <2>1, <2>2, PathsOn DEF Storing, Unlinking, Live
<1>6. ASSUME NEW h \in Handler, req'[h] = Idle, Others(h), UNCHANGED <<row, again>> PROVE OwnPaths'
  BY <1>6, PathsOn, IdleKind DEF Storing, Unlinking, Live
<1>7. ASSUME NEW h \in Handler,
             \/ Abandon(h) \/ UpdateUpload(h) \/ UpdateAnonymise(h) \/ UpdateErase(h)
             \/ UpdatePurge(h) \/ Throws(h)
      PROVE  OwnPaths'
  <2>1. req'[h] = Idle /\ Others(h) /\ UNCHANGED <<row, again>>
    BY <1>7 DEF Abandon, UpdateUpload, UpdateAnonymise, UpdateErase, UpdatePurge, Throws,
                Ends, GoesOn, files, history, TypeOK
  <2>2. QED
    BY <1>6, <2>1
<1>8. ASSUME NEW h \in Handler, NEW f \in FileId, CreateRow(h, f) PROVE OwnPaths'
  <2>1. /\ req[h] \in InFlight /\ req[h] # Idle /\ req[h].path \in Content /\ Storing(h)
    BY <1>8, HandlerShape DEF CreateRow, Storing
  <2>2. /\ Others(h) /\ row' = [row EXCEPT ![f] = req[h].path] /\ row[f] = "unused"
        /\ req'[h] = [req[h] EXCEPT !.step = "find", !.new = f] /\ UNCHANGED again
    BY <1>8 DEF CreateRow, GoesOn, history, TypeOK
  <2>3. req'[h].step = "find" /\ req'[h].path = req[h].path
    BY <2>1, <2>2 DEF InFlight
  <2>4. \A k \in FileId : Live(k)' => (k # f /\ Live(k) /\ row'[k] = row[k])
                                       \/ (k = f /\ row'[k] = req[h].path)
    BY <2>2 DEF Live, TypeOK
  <2>5. \A k, x \in FileId :
          Live(k)' /\ Live(x)' /\ row'[k] = row'[x] /\ row'[k] \notin again' => k = x
    <3>1. ASSUME NEW x \in FileId, Live(x), row[x] = req[h].path, req[h].path \notin again
          PROVE  FALSE
      BY <2>1, <3>1 DEF OwnPaths
    <3>2. ASSUME NEW k \in FileId, NEW x \in FileId, Live(k), Live(x), row[k] = row[x],
                 row[k] \notin again
          PROVE  k = x
      BY <3>2 DEF OwnPaths
    <3> QED
      BY <2>2, <2>4, <3>1, <3>2
  <2>6. ASSUME NEW k \in Handler, Storing(k)', req'[k].path \notin again'
        PROVE  /\ \A x \in FileId : Live(x)' => row'[x] # req'[k].path
               /\ \A x \in Handler : x # k /\ req'[x] # Idle => req'[x].path # req'[k].path
    <3>1. k # h /\ req'[k] = req[k] /\ Storing(k) /\ req[k].path \notin again
      BY <2>2, <2>3, <2>6 DEF Storing
    <3>2. /\ \A x \in FileId : Live(x) => row[x] # req[k].path
          /\ \A x \in Handler : x # k /\ req[x] # Idle => req[x].path # req[k].path
      BY <3>1 DEF OwnPaths
    <3>3. \A x \in FileId : Live(x)' => row'[x] # req'[k].path
      BY <2>1, <2>4, <3>1, <3>2
    <3>4. \A x \in Handler : x # k /\ req'[x] # Idle => req'[x].path # req'[k].path
      <4>1. ASSUME NEW x \in Handler, x # k, req'[x] # Idle
            PROVE  req[x] # Idle /\ req'[x].path = req[x].path
        BY <2>1, <2>2, <2>3, <4>1
      <4>2. QED
        BY <3>1, <3>2, <4>1
    <3>5. QED
      BY <3>3, <3>4
  <2>7. ASSUME NEW k \in Handler, NEW x \in FileId, Unlinking(k)', Live(x)',
               row'[x] = req'[k].path, row'[x] \notin again'
        PROVE  x = req'[k].doomed
    <3>1. k # h /\ req'[k] = req[k] /\ Unlinking(k) /\ req[k] # Idle
      BY <2>2, <2>3, <2>7, IdleKind DEF Unlinking
    <3>2. x # f
      BY <2>1, <2>2, <2>4, <2>7, <3>1 DEF OwnPaths
    <3>3. QED
      BY <2>2, <2>4, <2>7, <3>1, <3>2 DEF OwnPaths
  <2>8. QED
    BY <2>5, <2>6, <2>7 DEF OwnPaths
<1>9. ASSUME NEW h \in Handler, Find(h) PROVE OwnPaths'
  <2>1. req[h] \in InFlight /\ req[h] # Idle /\ req[h].step = "find"
        /\ UNCHANGED <<row, again>>
    BY <1>9, HandlerShape DEF Find, GoesOn, files, history
  <2>2. CASE Live(req[h].doomed)
    <3>1. req' = [req EXCEPT ![h] = [req[h] EXCEPT !.step = "unlink", !.path = row[req[h].doomed]]]
      BY <1>9, <2>2 DEF Find, GoesOn
    <3>2. /\ Others(h) /\ req'[h].step = "unlink" /\ req'[h].doomed = req[h].doomed
          /\ req'[h].path = row[req[h].doomed]
      BY <2>1, <3>1 DEF InFlight, TypeOK
    <3>3. \A k \in Handler :
            k # h /\ Storing(k) /\ req[k].path \notin again => req'[h].path # req[k].path
      BY <2>2, <3>2 DEF OwnPaths, Live
    <3>4. \A f \in FileId :
            Live(f) /\ row[f] = req'[h].path /\ row[f] \notin again => f = req'[h].doomed
      BY <2>2, <3>2 DEF OwnPaths, Live
    <3>5. QED
      BY <2>1, <3>2, <3>3, <3>4, PathsOn DEF Storing, Live
  <2>3. CASE ~Live(req[h].doomed)
    <3>1. Others(h) /\ req'[h] = [req[h] EXCEPT !.step = "update"]
      BY <1>9, <2>3 DEF Find, GoesOn, TypeOK
    <3>2. req'[h].step = "update" /\ req'[h].path = req[h].path
      BY <2>1, <3>1 DEF InFlight
    <3>3. ~Storing(h)' /\ ~Unlinking(h)'
      BY <3>2 DEF Storing, Unlinking
    <3>4. \A k \in Handler :
            k # h /\ Storing(k) /\ req[k].path \notin again => req'[h].path # req[k].path
      BY <2>1, <3>2 DEF OwnPaths
    <3>5. QED
      BY <2>1, <3>1, <3>3, <3>4, PathsOn DEF Live
  <2>4. QED
    BY <2>2, <2>3
<1>10. ASSUME NEW h \in Handler, Unlink(h) \/ DropRow(h) \/ WriteBytes(h) \/ EraseCount(h)
       PROVE  OwnPaths'
  <2>1. req[h] \in InFlight /\ req[h] # Idle
    BY <1>10, HandlerShape DEF Unlink, DropRow, WriteBytes, EraseCount
  <2>2. /\ Others(h) /\ req'[h].path = req[h].path /\ ~Unlinking(h)'
        /\ Storing(h)' => Storing(h)
        /\ UNCHANGED again
    <3> USE <2>1 DEF TypeOK, GoesOn, history, InFlight, Storing, Unlinking
    <3>1. CASE Unlink(h)
      BY <3>1 DEF Unlink
    <3>2. CASE DropRow(h)
      BY <3>2 DEF DropRow
    <3>3. CASE WriteBytes(h)
      BY <3>3 DEF WriteBytes
    <3>4. CASE EraseCount(h)
      BY <3>4 DEF EraseCount
    <3>5. QED
      BY <1>10, <3>1, <3>2, <3>3, <3>4
  <2>3. \A f \in FileId : Live(f)' => Live(f) /\ row'[f] = row[f]
    BY <1>10, DocumentsAssumption
       DEF Unlink, DropRow, WriteBytes, EraseCount, files, Live, TypeOK
  <2>4. QED
    BY <2>1, <2>2, <2>3, PathsOn DEF OwnPaths
<1>11. ASSUME UNCHANGED vars PROVE OwnPaths'
  BY <1>11 DEF vars, OwnPaths, Live, Storing, Unlinking
<1>12. QED
  BY <1>1, <1>2, <1>3, <1>4, <1>5, <1>7, <1>8, <1>9, <1>10, <1>11 DEF Next, Receive, Proceed

--------------------------------------------------------------------------------
(* Whatever the guests, the scans and the handlers, a document stays in one *)
(* guest's hands, and a path is one document's unless its scan was uploaded *)
(* again while in use.                                                      *)
THEOREM Invariance == Spec => []IInv
<1>1. IInv /\ [Next]_vars => IInv'
  BY NextType, NextOneGuest, NextOwnPaths DEF IInv
<1>2. QED
  BY InitIInv, <1>1, PTL DEF Spec

(* Only a handler that works on a document, in its guest's name, takes it   *)
(* away, or on another of that path.                                        *)
LEMMA StepOthersUntouched ==
  ASSUME IInv, [Next]_vars, NEW g \in Guest, NEW f \in FileId,
         doc[g] = f, Live(f), row[f] \in disk, ~(Live(f)' /\ row[f] \in disk')
  PROVE  \E h \in Handler :
           /\ req[h] # Idle
           /\ \/ req[h].guest = g /\ req[h].doomed = f
              \/ row[f] \in again /\ req[h].path = row[f]
<1> USE DEF IInv
<1>1. ASSUME NEW h \in Handler, req[h] # Idle, req[h].guest \in Guest, req[h].doomed = f
      PROVE  req[h].guest = g
  <2>1. HeldFor(f, g) /\ HeldFor(f, req[h].guest)
    BY <1>1 DEF HeldFor
  <2>2. QED
    BY <1>1, <2>1 DEF OneGuestPerFile
<1>2. ASSUME NEW h \in Handler, Unlink(h)
      PROVE  /\ req[h] # Idle /\ req[h].guest \in Guest
             /\ req[h].doomed = f \/ (row[f] \in again /\ req[h].path = row[f])
  <2>1. /\ req[h] # Idle /\ req[h].guest \in Guest /\ Unlinking(h)
        /\ UNCHANGED row /\ disk' = disk \ {req[h].path}
    BY <1>2, HandlerShape DEF Unlink, Unlinking
  <2>2. row[f] = req[h].path
    BY <2>1 DEF Live
  <2>3. QED
    BY <2>1, <2>2 DEF OwnPaths
<1>3. ASSUME NEW h \in Handler, DropRow(h)
      PROVE  req[h] # Idle /\ req[h].guest \in Guest /\ req[h].doomed = f
  <2>1. req[h] # Idle /\ req[h].guest \in Guest
    BY <1>3, HandlerShape DEF DropRow
  <2>2. row' = [row EXCEPT ![req[h].doomed] = "deleted"] /\ UNCHANGED disk
    BY <1>3 DEF DropRow
  <2>3. QED
    BY <2>1, <2>2 DEF Live, TypeOK
<1>4. ASSUME NEW h \in Handler, NEW k \in FileId, CreateRow(h, k) PROVE FALSE
  BY <1>4, DocumentsAssumption DEF CreateRow, Live, TypeOK
<1>5. ASSUME NEW h \in Handler, WriteBytes(h) PROVE FALSE
  BY <1>5 DEF WriteBytes, Live
<1>6. CASE UNCHANGED files
  BY <1>6 DEF files, Live
<1>7. UNCHANGED files \/ \E h \in Handler :
        Unlink(h) \/ DropRow(h) \/ WriteBytes(h) \/ \E k \in FileId : CreateRow(h, k)
  BY DEF Next, Receive, Proceed, BookStay, CancelStays, EraseRead, UploadRead,
         PurgeRead, PurgeNext, Find, EraseCount, UpdateUpload, UpdateAnonymise, UpdateErase,
         UpdatePurge, Throws, Abandon, vars, files
<1>8. QED
  BY <1>1, <1>2, <1>3, <1>4, <1>5, <1>6, <1>7

(* The other requests, the purge, crashes and failures leave a guest's      *)
(* readable document alone, unless its scan was uploaded a second time.     *)
THEOREM OthersUntouchedHolds == Spec => OthersUntouched
<1> DEFINE Kept == \A g \in Guest, f \in FileId :
     (/\ doc[g] = f /\ Live(f) /\ row[f] \in disk
      /\ ~(Live(f)' /\ row[f] \in disk'))
        => \E h \in Handler :
             /\ req[h] # Idle
             /\ \/ req[h].guest = g /\ req[h].doomed = f
                \/ row[f] \in again /\ req[h].path = row[f]
<1>1. IInv /\ [Next]_vars => Kept
  BY StepOthersUntouched
<1>2. QED
  BY Invariance, <1>1, PTL DEF Spec, OthersUntouched

--------------------------------------------------------------------------------
(* One handler at a time: it is the only one at work. *)
LEMMA Alone ==
  ASSUME OneAtWork, NEW h \in Handler, req[h] # Idle
  PROVE  /\ h \in Busy /\ MidWay(req[h])
         /\ \A k \in Handler : k # h => req[k] = Idle
         /\ batch # {} => h = Purger
BY DEF OneAtWork, Busy

(* It goes on: the guests and the purge's list are as they were. *)
LEMMA GoesOnCalm ==
  ASSUME TypeOK, OneAtWork, NEW h \in Handler, req[h] # Idle,
         \A k \in Handler : k # h => req'[k] = req[k],
         req'[h] # Idle, req'[h].guest = req[h].guest,
         UNCHANGED <<doc, guest, batch>>, MidWay(req[h])',
         \A f \in FileId : Live(f)' => Live(f) \/ req'[h].new = f,
         req'[h].new = req[h].new \/ req[h].new = None
  PROVE  OneAtWork'
<1>1. /\ \A k \in Handler : k # h => req[k] = Idle
      /\ batch # {} => h = Purger
  BY Alone
<1>2. Busy = {h} /\ Busy' = {h}
  BY <1>1 DEF Busy
<1>3. ASSUME NEW x \in batch
      PROVE  /\ doc[x.guest] = x.file /\ guest[x.guest] # "deleted"
             /\ req'[h].guest # x.guest
  BY <1>2 DEF OneAtWork
<1>4. ASSUME NEW f \in FileId, Live(f)'
      PROVE  (\E g \in Guest : doc[g] = f) \/ req'[h].new = f
  <2>1. CASE Live(f)
    <3>1. (\E g \in Guest : doc[g] = f) \/ req[h].new = f
      BY <1>2, <2>1 DEF OneAtWork
    <3> QED
      BY <3>1, DocumentsAssumption
  <2> QED
    BY <1>4, <2>1
<1>5. \A x \in batch' :
        /\ doc'[x.guest] = x.file /\ guest'[x.guest] # "deleted"
        /\ \A k \in Busy' : req'[k].guest # x.guest
  BY <1>2, <1>3
<1>6. \A f \in FileId : Live(f)' =>
        (\E g \in Guest : doc'[g] = f) \/ \E k \in Busy' : req'[k].new = f
  BY <1>2, <1>4
<1>7. \A k \in Busy' : MidWay(req[k])'
  BY <1>2
<1> QED
  BY <1>1, <1>2, <1>5, <1>6, <1>7 DEF OneAtWork

(* It ends: rows and bytes agree, and each document is a guest's. *)
LEMMA EndsCalm ==
  ASSUME TypeOK, OneAtWork, NEW h \in Handler, req[h] # Idle,
         \A k \in Handler : k # h => req'[k] = req[k], req'[h] = Idle,
         BytesOf(Stored)', batch' \subseteq batch,
         \A g \in Guest : g # req[h].guest => doc'[g] = doc[g] /\ guest'[g] = guest[g],
         \A f \in FileId : Live(f)' => \E g \in Guest : doc'[g] = f
  PROVE  OneAtWork'
<1>1. \A k \in Handler : k # h => req[k] = Idle
  BY Alone
<1>2. Busy = {h} /\ Busy' = {}
  BY <1>1 DEF Busy
<1>3. \A x \in batch' : doc'[x.guest] = x.file /\ guest'[x.guest] # "deleted"
  BY <1>2 DEF OneAtWork, TypeOK
<1> QED
  BY <1>2, <1>3 DEF OneAtWork

(* A handler starts when none is at work. *)
LEMMA StartsCalm ==
  ASSUME TypeOK, OneAtWork, Quiet, NEW h \in Handler,
         \A k \in Handler : k # h => req'[k] = req[k],
         req'[h] # Idle, MidWay(req[h])',
         UNCHANGED <<row, doc, guest, batch>>
  PROVE  OneAtWork'
<1>1. Busy = {} /\ batch = {} /\ Busy' = {h}
  BY DEF Quiet, Busy
<1>2. \A f \in FileId : Live(f)' => \E g \in Guest : doc[g] = f
  BY <1>1 DEF OneAtWork, Live
<1> QED
  BY <1>1, <1>2 DEF OneAtWork

(* The daily purge reads the guests when none is at work, and takes up its  *)
(* list one by one.                                                         *)
LEMMA PurgeCalm ==
  ASSUME IInv, CalmInv, OneAtWork,
         (Quiet /\ \E due \in SUBSET Guest : PurgeRead(due)) \/ (\E x \in batch : PurgeNext(x))
  PROVE  OneAtWork'
<1> USE DEF IInv
<1>1. ASSUME Quiet, NEW due \in SUBSET Guest, PurgeRead(due) PROVE OneAtWork'
  <2>1. Busy = {} /\ Busy' = {} /\ UNCHANGED <<disk, row, doc, guest, req, again>>
    BY <1>1 DEF Quiet, Busy, PurgeRead, files
  <2>2. \A x \in batch' : doc[x.guest] = x.file /\ guest[x.guest] # "deleted"
    BY <1>1 DEF PurgeRead, CalmInv
  <2>3. BytesOf(Stored)' /\ \A f \in FileId : Live(f)' => \E g \in Guest : doc'[g] = f
    BY <2>1 DEF OneAtWork, Stored, Live, BytesOf
  <2> QED
    BY <2>1, <2>2, <2>3 DEF OneAtWork
<1>2. ASSUME NEW x \in batch, PurgeNext(x) PROVE OneAtWork'
  <2>1. /\ Purger \in Handler /\ req[Purger] = Idle
        /\ req'[Purger] = [kind |-> "purge", step |-> "find", guest |-> x.guest,
                           doomed |-> x.file, new |-> None, path |-> None]
        /\ \A k \in Handler : k # Purger => req'[k] = req[k]
        /\ batch' = batch \ {x} /\ UNCHANGED <<disk, row, doc, guest, again>>
    BY <1>2 DEF PurgeNext, GoesOn, Handler, files, history, TypeOK
  <2>2. req'[Purger] # Idle
    BY <2>1 DEF Idle
  <2>3. Busy = {} /\ Busy' = {Purger}
    BY <2>1, <2>2 DEF OneAtWork, Busy
  <2>4. /\ \A y \in batch : y \in [guest : Guest, file : FileId]
        /\ \A y \in batch : doc[y.guest] = y.file /\ guest[y.guest] # "deleted"
    BY DEF OneAtWork, TypeOK
  <2>5. \A y \in batch' : y.guest # x.guest
    BY <2>1, <2>4
  <2>6. BytesOf(Stored)
    BY <2>3 DEF OneAtWork
  <2>7. MidWay(req[Purger])'
    BY <2>1, <2>4, <2>6 DEF MidWay, OnDisk, Stored, Live, BytesOf
  <2>8. \A f \in FileId : Live(f)' => \E g \in Guest : doc'[g] = f
    BY <2>1, <2>3 DEF OneAtWork, Live
  <2> QED
    BY <2>1, <2>3, <2>4, <2>5, <2>7, <2>8 DEF OneAtWork
<1> QED
  BY <1>1, <1>2

(* The steps of an upload up to its row. *)
LEMMA StoringCalm ==
  ASSUME IInv, OneAtWork, NEW h \in Handler,
         WriteBytes(h) \/ \E f \in FileId : CreateRow(h, f)
  PROVE  OneAtWork'
<1> USE DEF IInv
<1>1. /\ req[h].kind = "upload" /\ req[h] # Idle /\ req[h] \in InFlight
      /\ req[h].path \in Content /\ req[h].doomed \in FileId \cup {None}
  BY HandlerShape DEF WriteBytes, CreateRow
<1>2. MidWay(req[h])
  BY <1>1, Alone
<1>3. CASE WriteBytes(h)
  <2>1. /\ req[h].step = "write" /\ req'[h] = [req[h] EXCEPT !.step = "row"]
        /\ \A k \in Handler : k # h => req'[k] = req[k]
        /\ disk' = disk \cup {req[h].path} /\ UNCHANGED <<row, doc, guest, batch, again>>
    BY <1>3 DEF WriteBytes, GoesOn, history, TypeOK
  <2>2. /\ req'[h].kind = "upload" /\ req'[h].step = "row" /\ req'[h].guest = req[h].guest
        /\ req'[h].doomed = req[h].doomed /\ req'[h].new = req[h].new
        /\ req'[h].path = req[h].path
    BY <1>1, <2>1 DEF InFlight
  <2>3. BytesOf(Stored) /\ req[h].new = None
    BY <1>1, <1>2, <2>1 DEF MidWay, OnDisk
  <2>6. BytesOf(Stored \cup {req[h].path})'
    BY <2>1, <2>2, <2>3 DEF BytesOf, Stored, Live
  <2>4. MidWay(req[h])'
    BY <1>1, <1>2, <2>1, <2>2, <2>3, <2>6 DEF MidWay, OnDisk, Live
  <2>5. req'[h] # Idle
    BY <2>2 DEF Idle
  <2> QED
    BY <1>1, <2>1, <2>2, <2>4, <2>5, GoesOnCalm DEF Live
<1>4. ASSUME NEW f \in FileId, CreateRow(h, f) PROVE OneAtWork'
  <2>1. /\ req[h].step = "row" /\ req'[h] = [req[h] EXCEPT !.step = "find", !.new = f]
        /\ \A k \in Handler : k # h => req'[k] = req[k] /\ row[f] = "unused"
        /\ row' = [row EXCEPT ![f] = req[h].path] /\ UNCHANGED <<disk, doc, guest, batch, again>>
    BY <1>4 DEF CreateRow, GoesOn, history, TypeOK
  <2>2. /\ req'[h].kind = "upload" /\ req'[h].step = "find" /\ req'[h].guest = req[h].guest
        /\ req'[h].doomed = req[h].doomed /\ req'[h].new = f
    BY <1>1, <2>1 DEF InFlight
  <2>3. BytesOf(Stored \cup {req[h].path}) /\ req[h].new = None
    BY <1>1, <1>2, <2>1 DEF MidWay, OnDisk
  <2>4. ~Live(f)
    BY <1>4, DocumentsAssumption DEF CreateRow, Live
  <2>5. \A k \in FileId :
          /\ Live(k)' <=> (Live(k) \/ k = f)
          /\ row'[k] = IF k = f THEN req[h].path ELSE row[k]
    BY <1>1, <2>1 DEF Live, TypeOK
  <2>6. Stored' = Stored \cup {req[h].path}
    BY <2>4, <2>5 DEF Stored
  <2>7. MidWay(req[h])'
    BY <1>1, <1>2, <2>1, <2>2, <2>3, <2>6 DEF MidWay, OnDisk, BytesOf
  <2>8. req'[h] # Idle
    BY <2>2 DEF Idle
  <2> QED
    BY <1>1, <2>1, <2>2, <2>3, <2>5, <2>7, <2>8, GoesOnCalm
<1> QED
  BY <1>3, <1>4

(* The steps of deleting the document, and the count before it. *)
LEMMA DeletingCalm ==
  ASSUME IInv, OwnPaths, OneAtWork, NEW h \in Handler,
         Find(h) \/ Unlink(h) \/ DropRow(h) \/ EraseCount(h)
  PROVE  OneAtWork'
<1> USE DEF IInv
<1>1. /\ req[h].kind # "idle" /\ req[h] # Idle /\ req[h] \in InFlight
      /\ req[h].doomed \in FileId \cup {None}
  BY HandlerShape DEF Find, Unlink, DropRow, EraseCount
<1>2. MidWay(req[h])
  BY <1>1, Alone
<1> DEFINE Kept == /\ req'[h].guest = req[h].guest /\ req'[h].doomed = req[h].doomed
                   /\ req'[h].new = req[h].new /\ req'[h] # Idle
           Others == \A k \in Handler : k # h => req'[k] = req[k]
<1>3. CASE Find(h)
  <2>1. req[h].step = "find" /\ UNCHANGED <<disk, row, doc, guest, batch, again>>
    BY <1>3 DEF Find, files, GoesOn, history
  <2>2. BytesOf(Stored)
    BY <1>2, <2>1 DEF MidWay, OnDisk
  <2>3. CASE Live(req[h].doomed)
    <3>1. /\ req'[h] = [req[h] EXCEPT !.step = "unlink", !.path = row[req[h].doomed]]
          /\ Others
      BY <1>3, <2>3 DEF Find, GoesOn, TypeOK
    <3>2. /\ Kept /\ req'[h].step = "unlink" /\ req'[h].path = row[req[h].doomed]
          /\ req'[h].kind = req[h].kind
      BY <1>1, <3>1 DEF InFlight, Idle
    <3>3. MidWay(req[h])'
      BY <1>1, <1>2, <2>1, <2>2, <2>3, <3>2 DEF MidWay, OnDisk, Stored, Live, BytesOf
    <3> QED
      BY <1>1, <2>1, <3>1, <3>2, <3>3, GoesOnCalm DEF Live
  <2>4. CASE ~Live(req[h].doomed)
    <3>1. req'[h] = [req[h] EXCEPT !.step = "update"] /\ Others
      BY <1>3, <2>4 DEF Find, GoesOn, TypeOK
    <3>2. Kept /\ req'[h].step = "update" /\ req'[h].kind = req[h].kind
      BY <1>1, <3>1 DEF InFlight, Idle
    <3>3. MidWay(req[h])'
      BY <1>1, <1>2, <2>1, <2>2, <2>4, <3>2 DEF MidWay, OnDisk, Stored, Live, BytesOf
    <3> QED
      BY <1>1, <2>1, <3>1, <3>2, <3>3, GoesOnCalm DEF Live
  <2> QED
    BY <2>3, <2>4
<1>4. CASE Unlink(h)
  <2>1. /\ req[h].step = "unlink" /\ req'[h] = [req[h] EXCEPT !.step = "drop"] /\ Others
        /\ disk' = disk \ {req[h].path} /\ UNCHANGED <<row, doc, guest, batch, again>>
    BY <1>4 DEF Unlink, GoesOn, history, TypeOK
  <2>2. Kept /\ req'[h].step = "drop" /\ req'[h].kind = req[h].kind
    BY <1>1, <2>1 DEF InFlight, Idle
  <2>3. /\ BytesOf(Stored) /\ Live(req[h].doomed) /\ req[h].path = row[req[h].doomed]
    BY <1>2, <2>1 DEF MidWay, OnDisk
  <2>4. \A f \in FileId :
          Live(f) /\ row[f] = req[h].path /\ row[f] \notin again => f = req[h].doomed
    BY <2>3 DEF OwnPaths, Live
  <2>5. BytesOf({row[f] : f \in {x \in FileId : Live(x) /\ x # req[h].doomed}})'
    <3> DEFINE rest == {row[f] : f \in {x \in FileId : Live(x) /\ x # req[h].doomed}}
    <3>1. disk' \subseteq rest
      BY <2>1, <2>3 DEF Stored, BytesOf
    <3>2. rest \ disk' \subseteq again
      BY <2>1, <2>3, <2>4 DEF Stored, BytesOf
    <3>3. rest' = rest
      BY <2>1, <2>2 DEF Live
    <3> QED
      BY <2>1, <3>1, <3>2, <3>3 DEF BytesOf
  <2>6. MidWay(req[h])'
    BY <1>1, <1>2, <2>1, <2>2, <2>3, <2>5 DEF MidWay, OnDisk, Live
  <2> QED
    BY <1>1, <2>1, <2>2, <2>6, GoesOnCalm DEF Live
<1>5. CASE DropRow(h)
  <2>1. /\ req[h].step = "drop" /\ req'[h] = [req[h] EXCEPT !.step = "update"] /\ Others
        /\ Live(req[h].doomed) /\ row' = [row EXCEPT ![req[h].doomed] = "deleted"]
        /\ UNCHANGED <<disk, doc, guest, batch, again>>
    BY <1>5 DEF DropRow, GoesOn, history, TypeOK
  <2>2. Kept /\ req'[h].step = "update" /\ req'[h].kind = req[h].kind
    BY <1>1, <2>1 DEF InFlight, Idle
  <2>3. BytesOf({row[f] : f \in {x \in FileId : Live(x) /\ x # req[h].doomed}})
    BY <1>2, <2>1 DEF MidWay, OnDisk
  <2>4. \A f \in FileId :
          /\ Live(f)' <=> (Live(f) /\ f # req[h].doomed)
          /\ f # req[h].doomed => row'[f] = row[f]
    BY <1>1, <2>1, DocumentsAssumption DEF Live, TypeOK
  <2>5. BytesOf(Stored)' /\ ~Live(req[h].doomed)'
    <3>1. Stored' = {row'[f] : f \in {x \in FileId : Live(x)'}}
      BY DEF Stored
    <3>2. Stored' = {row[f] : f \in {x \in FileId : Live(x) /\ x # req[h].doomed}}
      BY <2>4, <3>1
    <3>4. BytesOf(Stored)'
      BY <2>1, <2>3, <3>2 DEF BytesOf
    <3>3. ~Live(req[h].doomed)'
      BY <2>1, <2>2, DocumentsAssumption DEF Live, TypeOK
    <3> QED
      BY <3>3, <3>4
  <2>6. MidWay(req[h])'
    BY <1>1, <1>2, <2>1, <2>2, <2>5 DEF MidWay, OnDisk
  <2> QED
    BY <1>1, <2>1, <2>2, <2>4, <2>6, GoesOnCalm
<1>6. CASE EraseCount(h)
  <2>1. PICK k \in {"anonymise", "erase"} :
          req' = [req EXCEPT ![h] = [req[h] EXCEPT !.step = "find", !.kind = k]]
    BY <1>6 DEF EraseCount, GoesOn
  <2>2. /\ req[h].kind = "erase" /\ req[h].step = "count" /\ Others
        /\ UNCHANGED <<disk, row, doc, guest, batch, again>>
    BY <1>6, <2>1 DEF EraseCount, GoesOn, files, history, TypeOK
  <2>3. Kept /\ req'[h].step = "find" /\ req'[h].kind = k
    BY <1>1, <2>1 DEF InFlight, Idle, TypeOK
  <2>4. BytesOf(Stored) /\ req[h].new = None
    BY <1>2, <2>2 DEF MidWay, OnDisk
  <2>5. MidWay(req[h])'
    BY <1>1, <1>2, <2>1, <2>2, <2>3, <2>4 DEF MidWay, OnDisk, Stored, Live, BytesOf
  <2> QED
    BY <1>1, <2>2, <2>3, <2>5, GoesOnCalm DEF Live
<1> QED
  BY <1>3, <1>4, <1>5, <1>6

(* The last step of a handler, or its throwing: no document that is live    *)
(* loses its guest.                                                         *)
LEMMA EndingCalm ==
  ASSUME IInv, OneAtWork, NEW h \in Handler,
         UpdateUpload(h) \/ UpdateAnonymise(h) \/ UpdateErase(h) \/ UpdatePurge(h) \/ Throws(h)
  PROVE  OneAtWork'
<1> USE DEF IInv
<1>1. /\ req[h] # Idle /\ req[h] \in InFlight /\ req[h].guest \in Guest
      /\ req[h].new \in FileId \cup {None}
  BY HandlerShape DEF UpdateUpload, UpdateAnonymise, UpdateErase, UpdatePurge, Throws
<1>2. MidWay(req[h]) /\ Busy = {h}
  BY <1>1, Alone DEF Busy
<1>3. /\ req'[h] = Idle /\ UNCHANGED <<disk, row, again>> /\ batch' \subseteq batch
      /\ \A k \in Handler : k # h => req'[k] = req[k]
      /\ \A g \in Guest : g # req[h].guest => doc'[g] = doc[g] /\ guest'[g] = guest[g]
  BY DEF UpdateUpload, UpdateAnonymise, UpdateErase, UpdatePurge, Throws, Ends, GoesOn, files, history,
         TypeOK
<1>4. req[h].step = "update"
  BY <1>2 DEF UpdateUpload, UpdateAnonymise, UpdateErase, UpdatePurge, Throws, MidWay
<1>5. BytesOf(Stored) /\ ~Live(req[h].doomed) /\ req[h].doomed = doc[req[h].guest]
  BY <1>2, <1>4 DEF MidWay, OnDisk
<1>6. \A f \in FileId : Live(f) =>
        \/ \E g \in Guest : g # req[h].guest /\ doc[g] = f
        \/ req[h].new = f
  BY <1>2, <1>5 DEF OneAtWork
<1>7. \/ doc'[req[h].guest] = req[h].new
      \/ req[h].new = None
  <2>1. CASE UpdateUpload(h)
    BY <1>1, <2>1 DEF UpdateUpload, TypeOK
  <2>2. CASE Throws(h)
    BY <1>2, <1>4, <2>2 DEF Throws, MidWay
  <2>3. CASE UpdateAnonymise(h) \/ UpdateErase(h) \/ UpdatePurge(h)
    BY <1>2, <2>3 DEF UpdateAnonymise, UpdateErase, UpdatePurge, MidWay
  <2> QED
    BY <2>1, <2>2, <2>3
<1>8. \A f \in FileId : Live(f) => \E g \in Guest : doc'[g] = f
  BY <1>1, <1>3, <1>6, <1>7, DocumentsAssumption
<1>9. BytesOf(Stored)' /\ \A f \in FileId : Live(f)' => \E g \in Guest : doc'[g] = f
  BY <1>3, <1>5, <1>8 DEF Stored, Live, BytesOf
<1> QED
  BY <1>1, <1>3, <1>9, EndsCalm

LEMMA StepCalm ==
  ASSUME IInv, CalmInv, [Next]_vars
  PROVE  CalmInv'
<1> USE DEF IInv
<1>1. \A g \in Guest : guest'[g] = "deleted" => doc'[g] = None
  <2>1. CASE UNCHANGED <<doc, guest>>
    BY <2>1 DEF CalmInv
  <2>2. ASSUME NEW h \in Handler,
               UpdateUpload(h) \/ UpdateAnonymise(h) \/ UpdateErase(h) \/ UpdatePurge(h)
        PROVE  \A g \in Guest : guest'[g] = "deleted" => doc'[g] = None
    BY <2>2 DEF CalmInv, TypeOK, UpdateUpload, UpdateAnonymise, UpdateErase, UpdatePurge
  <2>3. UNCHANGED <<doc, guest>> \/ \E h \in Handler :
          UpdateUpload(h) \/ UpdateAnonymise(h) \/ UpdateErase(h) \/ UpdatePurge(h)
    BY DEF Next, Receive, Proceed, BookStay, CancelStays, EraseRead, UploadRead,
           PurgeRead, PurgeNext, Find, Unlink, DropRow, WriteBytes, CreateRow, EraseCount, Throws,
           Abandon, vars
  <2> QED
    BY <2>1, <2>2, <2>3
<1> SUFFICES ASSUME calm' PROVE OneAtWork'
  BY <1>1 DEF CalmInv
<1>2. calm
  BY DEF Next, Receive, Proceed, BookStay, CancelStays, EraseRead, UploadRead,
         PurgeRead, PurgeNext, Find, Unlink, DropRow, WriteBytes, CreateRow, EraseCount,
         UpdateUpload, UpdateAnonymise, UpdateErase, UpdatePurge, Throws, Abandon, vars,
         Starts, GoesOn, Ends, history
<1>3. OneAtWork /\ OwnPaths
  BY <1>2 DEF CalmInv
<1>4. CASE UNCHANGED <<disk, row, doc, guest, req, batch, again>>
  <2>1. Busy' = Busy /\ Stored' = Stored
    BY <1>4 DEF Busy, Stored, Live
  <2>2. \A h \in Busy : MidWay(req[h])'
    BY <1>3, <1>4 DEF OneAtWork, MidWay, OnDisk, Stored, Live, BytesOf
  <2> QED
    BY <1>3, <1>4, <2>1, <2>2 DEF OneAtWork, Live, BytesOf, Stored
<1>5. ASSUME NEW q \in Request, NEW g \in Guest,
             EraseRead(q, g) \/ \E c \in Content : UploadRead(q, g, c)
      PROVE  OneAtWork'
  <2>1. PICK m : /\ Starts(q, m) /\ m.step \in {"count", "write"} /\ m.guest = g
                 /\ m.doomed = doc[g] /\ m.new = None /\ m.kind # "idle"
    <3>1. CASE EraseRead(q, g)
      BY <3>1 DEF EraseRead
    <3>2. ASSUME NEW c \in Content, UploadRead(q, g, c)
          PROVE  Starts(q, Upload(g, c, doc[g]))
      BY <3>2 DEF UploadRead
    <3>3. \A c : LET m == Upload(g, c, doc[g])
                IN  /\ m.step \in {"count", "write"} /\ m.guest = g
                    /\ m.doomed = doc[g] /\ m.new = None /\ m.kind # "idle"
      BY DEF Upload
    <3>4. CASE \E c \in Content : UploadRead(q, g, c)
      BY <3>2, <3>3, <3>4
    <3> QED
      BY <1>5, <3>1, <3>4
  <2>2. /\ UNCHANGED <<disk, row, doc, guest, batch>> /\ guest[g] # "deleted"
        /\ q \in Handler
    BY <1>5 DEF EraseRead, UploadRead, files, Handler
  <2>3. /\ req'[q] = m /\ Quiet /\ \A k \in Handler : k # q => req'[k] = req[k]
    BY <2>1, <2>2 DEF Starts, TypeOK
  <2>4. BytesOf(Stored) /\ m # Idle
    BY <1>3, <2>1, <2>3 DEF OneAtWork, Quiet, Busy, Idle
  <2>6. Stored \ again' \subseteq Stored \ again
    BY <1>5 DEF EraseRead, UploadRead, InUse, Stored
  <2>7. BytesOf(Stored)'
    BY <2>2, <2>4, <2>6 DEF BytesOf, Stored, Live
  <2>5. MidWay(req[q])'
    BY <2>1, <2>2, <2>3, <2>7 DEF MidWay, OnDisk, Live
  <2> QED
    BY <1>3, <2>2, <2>3, <2>4, <2>5, StartsCalm
<1>6. ASSUME (\E due \in SUBSET Guest : PurgeRead(due)) \/ \E x \in batch : PurgeNext(x)
      PROVE  OneAtWork'
  <2>1. (\E due \in SUBSET Guest : PurgeRead(due)) => Quiet
    BY DEF PurgeRead
  <2> QED
    BY <1>3, <1>6, <2>1, PurgeCalm
<1>7. ASSUME NEW h \in Handler, Proceed(h) PROVE OneAtWork'
  BY <1>3, <1>7, StoringCalm, DeletingCalm, EndingCalm DEF Proceed
<1>8. ASSUME NEW h \in Handler, Abandon(h) PROVE FALSE
  BY <1>8 DEF Abandon
<1>9. ASSUME NEW g \in Guest, BookStay(g) \/ CancelStays(g)
      PROVE  UNCHANGED <<disk, row, doc, guest, req, batch, again>>
  BY <1>9 DEF BookStay, CancelStays, files, history
<1>10. UNCHANGED vars => UNCHANGED <<disk, row, doc, guest, req, batch, again>>
  BY DEF vars
<1> QED
  BY <1>4, <1>5, <1>6, <1>7, <1>8, <1>9, <1>10 DEF Next, Receive

(* Theorem: whenever handlers have run one at a time and to their end, all  *)
(* bytes have a row, only a scan uploaded a second time is missing from its *)
(* row, and every document kept is some guest's: uploads, erasures and      *)
(* purges put their steps in an order that leaves nothing behind (saveFile, *)
(* deleteStoredFile, eraseGuestAction, purgeExpiredGuestIds).               *)
THEOREM InOrderOnceCalmHolds == Spec => []InOrderOnceCalm
<1>1. Init => CalmInv
  <2> SUFFICES ASSUME Init PROVE CalmInv
    OBVIOUS
  <2>1. Busy = {} /\ Stored = {}
    BY DocumentsAssumption DEF Init, Busy, Stored, Live
  <2> QED
    BY <2>1, DocumentsAssumption DEF Init, CalmInv, OneAtWork, Live, BytesOf
<1>2. IInv /\ CalmInv /\ [Next]_vars => CalmInv'
  BY StepCalm
<1>3. CalmInv => InOrderOnceCalm
  <2> SUFFICES ASSUME OneAtWork, Quiet PROVE InOrderOnceCalm
    BY DEF CalmInv, InOrderOnceCalm, RowsMatchDisk, NothingLeftBehind
  <2>1. Busy = {}
    BY DEF Quiet, Busy
  <2> QED
    BY <2>1 DEF OneAtWork, InOrderOnceCalm, RowsMatchDisk, NothingLeftBehind
<1> QED
  BY <1>1, <1>2, <1>3, Invariance, PTL DEF Spec
================================================================================
