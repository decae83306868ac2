------------------------------- MODULE Documents -------------------------------
(***************************************************************************)
(* Guests' identity documents: src/src/lib/storage/index.ts (bytes on disk *)
(* and their FileUpload rows), uploadGuestIdAction and eraseGuestAction of *)
(* src/src/lib/actions/guests.ts with the MCP tool erase_guest, and the    *)
(* daily purgeExpiredGuestIds of src/src/lib/jobs/tasks.ts.                *)
(*                                                                         *)
(* Bytes, rows and the guest's reference to the row change one at a time,  *)
(* with nothing to hold them together but the order of the steps.  Files   *)
(* are named by the hash of their bytes: a path stands for a content.      *)
(*                                                                         *)
(* One owner; masked digits, mime types, audit rows and encryption have no *)
(* part in the order of the steps and are left out.                        *)
(*                                                                         *)
(* A definition named D_Word beside D is a slip the runs must notice: the  *)
(* same operator with one plausible mistake.  Nothing else refers to it.   *)
(***************************************************************************)
EXTENDS FiniteSets

CONSTANTS
  Guest,     \* ids of the guests
  FileId,    \* bound: ids FileUpload rows may take, none twice
  Content,   \* the scans that may be uploaded
  Request    \* actions and tools that may be in flight at once

(* The daily purge runs in the worker, one at a time. *)
Purger == "purger"
None == "none"

ASSUME DocumentsAssumption ==
  /\ Purger \notin Request /\ None \notin FileId \cup Content \cup Guest
  /\ "unused" \notin Content /\ "deleted" \notin Content

Handler == Request \cup {Purger}

VARIABLES
  disk,     \* the paths under the upload root that hold bytes
  row,      \* the FileUpload table: the path each id has, "unused" or "deleted"
  doc,      \* Guest.idFileId
  guest,    \* whether the guest is known, anonymised or deleted
  stays,    \* external: the bookings the guest has
  req,      \* the handlers in flight
  batch,    \* the guests the purge has read and not come to yet
  calm,     \* auxiliary: no two handlers have overlapped, and none was cut short
  again     \* auxiliary: the scans last uploaded while their path was in use already

vars == <<disk, row, doc, guest, stays, req, batch, calm, again>>
files == <<disk, row>>
history == <<calm, again>>

Idle == [kind |-> "idle"]
InFlight ==
  {m \in [kind : {"upload", "erase", "anonymise", "purge"},
          step : {"write", "row", "count", "find", "unlink", "drop", "update"},
          guest : Guest, doomed : FileId \cup {None}, new : FileId \cup {None},
          path : Content \cup {None}] :
     m.kind = "upload" => m.path \in Content}

Live(f) == f \in FileId /\ row[f] \in Content
Quiet == batch = {} /\ \A h \in Handler : req[h] = Idle

Init ==
  /\ disk = {}
  /\ row = [f \in FileId |-> "unused"]
  /\ doc = [g \in Guest |-> None]
  /\ guest = [g \in Guest |-> "known"]
  /\ stays = [g \in Guest |-> "none"]
  /\ req = [h \in Handler |-> Idle]
  /\ batch = {}
  /\ calm = TRUE
  /\ again = {}

--------------------------------------------------------------------------------
(* The steps that all handlers share. *)

Starts(h, m) ==
  /\ req[h] = Idle
  /\ req' = [req EXCEPT ![h] = m]
  /\ calm' = (calm /\ Quiet)

GoesOn(h, m) == req' = [req EXCEPT ![h] = m] /\ UNCHANGED history
Ends(h) == GoesOn(h, Idle)

(* deleteStoredFile: no id, or no row any more, and there is nothing to do; *)
(* else the bytes go, then the row, which must still be there.              *)
Find(h) ==
  LET m == req[h]
  IN /\ m.kind # "idle" /\ m.step = "find"
     /\ IF Live(m.doomed) THEN GoesOn(h, [m EXCEPT !.step = "unlink", !.path = row[m.doomed]])
                          ELSE GoesOn(h, [m EXCEPT !.step = "update"])
     /\ UNCHANGED <<files, doc, guest, stays, batch>>

Unlink_Directory(h) ==
  /\ req[h].kind # "idle" /\ req[h].step = "unlink"
  /\ disk' = {}
  /\ GoesOn(h, [req[h] EXCEPT !.step = "drop"])
  /\ UNCHANGED <<row, doc, guest, stays, batch>>
Unlink(h) ==
  /\ req[h].kind # "idle" /\ req[h].step = "unlink"
  /\ disk' = disk \ {req[h].path}
  /\ GoesOn(h, [req[h] EXCEPT !.step = "drop"])
  /\ UNCHANGED <<row, doc, guest, stays, batch>>

DropRow(h) ==
  LET m == req[h]
  IN /\ m.kind # "idle" /\ m.step = "drop"
     /\ Live(m.doomed)
     /\ row' = [row EXCEPT ![m.doomed] = "deleted"]
     /\ GoesOn(h, [m EXCEPT !.step = "update"])
     /\ UNCHANGED <<disk, doc, guest, stays, batch>>

--------------------------------------------------------------------------------
(* Uploads. *)

(* The paths of the rows and of the handlers at work. *)
InUse == {row[f] : f \in {x \in FileId : Live(x)}}
           \cup {req[h].path : h \in {x \in Handler : req[x] # Idle}}

(* A file is named by the hash of its bytes. *)
Upload_OneName(g, c, old) == [kind |-> "upload", step |-> "write", guest |-> g, doomed |-> old,
                              new |-> None, path |-> CHOOSE x \in Content : TRUE]
Upload(g, c, old) == [kind |-> "upload", step |-> "write", guest |-> g, doomed |-> old,
                      new |-> None, path |-> c]

(* uploadGuestIdAction reads the guest, and with it the document to replace *)
UploadRead_KeepsOld(q, g, c) ==
  /\ guest[g] # "deleted"
  /\ Starts(q, Upload(g, c, None))
  /\ again' = IF c \in InUse THEN again \cup {c} ELSE again \ {c}
  /\ UNCHANGED <<files, doc, guest, stays, batch>>
UploadRead(q, g, c) ==
  /\ guest[g] # "deleted"
  /\ Starts(q, Upload(g, c, doc[g]))
  /\ again' = IF c \in InUse THEN again \cup {c} ELSE again \ {c}
  /\ UNCHANGED <<files, doc, guest, stays, batch>>

(* ... saveFile writes the bytes, replacing equal ones ... *)
WriteBytes(q) ==
  /\ req[q].kind = "upload" /\ req[q].step = "write"
  /\ disk' = disk \cup {req[q].path}
  /\ GoesOn(q, [req[q] EXCEPT !.step = "row"])
  /\ UNCHANGED <<row, doc, guest, stays, batch>>

(* ... and inserts the row; the old document is deleted next ... *)
CreateRow(q, f) ==
  /\ req[q].kind = "upload" /\ req[q].step = "row"
  /\ row[f] = "unused"
  /\ row' = [row EXCEPT ![f] = req[q].path]
  /\ GoesOn(q, [req[q] EXCEPT !.step = "find", !.new = f])
  /\ UNCHANGED <<disk, doc, guest, stays, batch>>

(* ... and the guest, if still there, is given the new one. *)
UpdateUpload(q) ==
  LET g == req[q].guest
  IN /\ req[q].kind = "upload" /\ req[q].step = "update"
     /\ guest[g] # "deleted"
     /\ doc' = [doc EXCEPT ![g] = req[q].new]
     /\ Ends(q)
     /\ UNCHANGED <<files, guest, stays, batch>>

--------------------------------------------------------------------------------
(* Erasure. *)

(* eraseGuestAction and erase_guest read the guest ... *)
EraseRead(q, g) ==
  /\ guest[g] # "deleted"
  /\ Starts(q, [kind |-> "erase", step |-> "count", guest |-> g, doomed |-> doc[g],
                new |-> None, path |-> None])
  /\ UNCHANGED <<files, doc, guest, stays, batch, again>>

(* ... count the bookings that are not cancelled; the document is deleted   *)
(* either way ...                                                           *)
EraseCount(q) ==
  LET m == req[q]
  IN /\ m.kind = "erase" /\ m.step = "count"
     /\ GoesOn(q, [m EXCEPT !.step = "find",
                            !.kind = IF stays[m.guest] = "billable" THEN "anonymise" ELSE "erase"])
     /\ UNCHANGED <<files, doc, guest, stays, batch>>

(* ... and the guest is anonymised if there were any ... *)
UpdateAnonymise(q) ==
  LET g == req[q].guest
  IN /\ req[q].kind = "anonymise" /\ req[q].step = "update"
     /\ guest[g] # "deleted"
     /\ guest' = [guest EXCEPT ![g] = "anonymised"]
     /\ doc' = [doc EXCEPT ![g] = None]
     /\ Ends(q)
     /\ UNCHANGED <<files, stays, batch>>

(* ... else deleted.  A cancelled booking still refers to the guest. *)
UpdateErase(q) ==
  LET g == req[q].guest
  IN /\ req[q].kind = "erase" /\ req[q].step = "update"
     /\ guest[g] # "deleted"
     /\ stays[g] = "none"
     /\ guest' = [guest EXCEPT ![g] = "deleted"]
     /\ doc' = [doc EXCEPT ![g] = None]
     /\ Ends(q)
     /\ UNCHANGED <<files, stays, batch>>

--------------------------------------------------------------------------------
(* The daily purge. *)

(* purgeExpiredGuestIds reads every guest with a document and the bookings  *)
(* at once; the retention period of any of them may be over by then ...     *)
PurgeRead(due) ==
  /\ batch = {} /\ req[Purger] = Idle
  /\ due # {} /\ \A g \in due : doc[g] # None
  /\ batch' = {[guest |-> g, file |-> doc[g]] : g \in due}
  /\ calm' = (calm /\ Quiet)
  /\ UNCHANGED <<files, doc, guest, stays, req, again>>

(* ... deletes one document after the other ... *)
PurgeNext(x) ==
  /\ req[Purger] = Idle
  /\ x \in batch
  /\ batch' = batch \ {x}
  /\ GoesOn(Purger, [kind |-> "purge", step |-> "find", guest |-> x.guest, doomed |-> x.file,
                     new |-> None, path |-> None])
  /\ UNCHANGED <<files, doc, guest, stays>>

(* ... and clears the guest's reference, whatever it is by then. *)
UpdatePurge(h) ==
  LET g == req[h].guest
  IN /\ req[h].kind = "purge" /\ req[h].step = "update"
     /\ guest[g] # "deleted"
     /\ doc' = [doc EXCEPT ![g] = None]
     /\ Ends(h)
     /\ UNCHANGED <<files, guest, stays, batch>>

--------------------------------------------------------------------------------
(* A row that must be there is gone, or a booking refers to the guest: the  *)
(* query throws, and the handler ends where it is.  The purge ends for the  *)
(* day.                                                                     *)
Throws(h) ==
  LET m == req[h]
  IN /\ m.kind # "idle"
     /\ \/ m.step = "drop" /\ ~Live(m.doomed)
        \/ m.step = "update" /\ guest[m.guest] = "deleted"
        \/ m.step = "update" /\ m.kind = "erase" /\ stays[m.guest] # "none"
     /\ batch' = IF h = Purger THEN {} ELSE batch
     /\ Ends(h)
     /\ UNCHANGED <<files, doc, guest, stays>>

(* A query or the disk fails, or the process stops. *)
Abandon(h) ==
  /\ req[h] # Idle
  /\ req' = [req EXCEPT ![h] = Idle]
  /\ batch' = IF h = Purger THEN {} ELSE batch
  /\ calm' = FALSE
  /\ UNCHANGED <<files, doc, guest, stays, again>>

(* A guest books, or the bookings are cancelled. *)
BookStay(g) ==
  /\ guest[g] = "known"
  /\ stays' = [stays EXCEPT ![g] = "billable"]
  /\ UNCHANGED <<files, doc, guest, req, batch, history>>

CancelStays(g) ==
  /\ stays[g] = "billable"
  /\ stays' = [stays EXCEPT ![g] = "cancelled"]
  /\ UNCHANGED <<files, doc, guest, req, batch, history>>

Proceed(h) ==
  \/ Find(h) \/ Unlink(h) \/ DropRow(h)
  \/ WriteBytes(h) \/ UpdateUpload(h) \/ \E f \in FileId : CreateRow(h, f)
  \/ EraseCount(h) \/ UpdateAnonymise(h) \/ UpdateErase(h)
  \/ UpdatePurge(h)
  \/ Throws(h)

Receive(q) == \E g \in Guest : EraseRead(q, g) \/ \E c \in Content : UploadRead(q, g, c)

Next ==
  \/ \E g \in Guest : BookStay(g) \/ CancelStays(g)
  \/ \E q \in Request : Receive(q)
  \/ \E due \in SUBSET Guest : PurgeRead(due)
  \/ \E x \in batch : PurgeNext(x)
  \/ \E h \in Handler : Proceed(h) \/ Abandon(h)

Spec == Init /\ [][Next]_vars

--------------------------------------------------------------------------------
(* Every variable, and what a handler in flight holds, stays in its type.   *)
TypeOK ==
  /\ disk \subseteq Content
  /\ row \in [FileId -> Content \cup {"unused", "deleted"}]
  /\ doc \in [Guest -> FileId \cup {None}]
  /\ guest \in [Guest -> {"known", "anonymised", "deleted"}]
  /\ stays \in [Guest -> {"none", "cancelled", "billable"}]
  /\ req \in [Handler -> InFlight \cup {Idle}]
  /\ batch \subseteq [guest : Guest, file : FileId]
  /\ calm \in BOOLEAN
  /\ again \subseteq Content

(* A guest, a handler or the purge's list holds file f in the name of g. *)
HeldFor(f, g) ==
  \/ doc[g] = f
  \/ [guest |-> g, file |-> f] \in batch
  \/ \E h \in Handler : req[h] # Idle /\ req[h].guest = g /\ f \in {req[h].doomed, req[h].new}

(* Property: a document is only ever in one guest's hands: no interleaving  *)
(* of uploads, erasures and purges passes it on to another guest, and an    *)
(* id nobody has used yet is in nobody's.                                   *)
OneGuestPerFile ==
  \A f \in FileId, g, k \in Guest :
    HeldFor(f, g) => row[f] # "unused" /\ (HeldFor(f, k) => g = k)

(* A path whose scan was not uploaded again is the path of one row, or of   *)
(* one handler storing it, and is unlinked with that row only.              *)
Storing(h) == req[h].kind = "upload" /\ req[h].step \in {"write", "row"}
Unlinking(h) == req[h].kind # "idle" /\ req[h].step = "unlink"

OwnPaths ==
  /\ \A f, k \in FileId :
       Live(f) /\ Live(k) /\ row[f] = row[k] /\ row[f] \notin again => f = k
  /\ \A h \in Handler : Storing(h) /\ req[h].path \notin again =>
       /\ \A f \in FileId : Live(f) => row[f] # req[h].path
       /\ \A k \in Handler : k # h /\ req[k] # Idle => req[k].path # req[h].path
  /\ \A h \in Handler, f \in FileId :
       Unlinking(h) /\ Live(f) /\ row[f] = req[h].path /\ row[f] \notin again
         => f = req[h].doomed

(* Property: the types, each document in one guest's hands, and, but for    *)
(* scans uploaded again, each path one document's: what the proofs go by.   *)
IInv == TypeOK /\ OneGuestPerFile /\ OwnPaths

(* Property: a guest's readable document is lost only to a handler that     *)
(* works on that very document, in that guest's name, or, if its scan was   *)
(* uploaded a second time, on another row of that path: no other race or    *)
(* failure can touch it (saveFile, deleteStoredFile).                       *)
OthersUntouched ==
  [][\A g \in Guest, f \in FileId :
       (/\ doc[g] = f /\ Live(f) /\ row[f] \in disk
        /\ ~(Live(f)' /\ row[f] \in disk'))
          => \E h \in Handler :
               /\ req[h] # Idle
               /\ \/ req[h].guest = g /\ req[h].doomed = f
                  \/ row[f] \in again /\ req[h].path = row[f]]_vars

Stored == {row[f] : f \in {x \in FileId : Live(x)}}

(* The bytes are those of the paths s, or short of scans uploaded again. *)
BytesOf(s) == disk \subseteq s /\ s \ disk \subseteq again

(* Property: if handlers ran one at a time and to their end, all bytes have *)
(* a row, and every row has its bytes but one whose scan was uploaded a     *)
(* second time, which loses them with its double (saveFile,                 *)
(* deleteStoredFile).                                                       *)
RowsMatchDisk == (calm /\ Quiet) => BytesOf(Stored)

(* Property: ... and every document kept is some guest's, so that the purge *)
(* will find it when the time comes: none is left behind by a replacement,  *)
(* an erasure or a purge (uploadGuestIdAction, eraseGuestAction).           *)
NothingLeftBehind ==
  (calm /\ Quiet) => \A f \in FileId : Live(f) => \E g \in Guest : doc[g] = f

(* Property: both: once calm, disk, rows and guests agree but for scans     *)
(* uploaded twice (saveFile, deleteStoredFile, eraseGuestAction,            *)
(* purgeExpiredGuestIds).                                                   *)
InOrderOnceCalm == RowsMatchDisk /\ NothingLeftBehind

(* The inductive form: what is true between the steps of the one handler at *)
(* work.  Bytes come before their row and go before it; the document to go  *)
(* is the guest's until the last step, and the new one the handler's.       *)
Busy == {h \in Handler : req[h] # Idle}

OnDisk(m) ==
  CASE m.step = "row" -> Stored \cup {m.path}
    [] m.step = "drop" -> {row[f] : f \in {x \in FileId : Live(x) /\ x # m.doomed}}
    [] OTHER -> Stored

MidWay(m) ==
  /\ m.doomed = doc[m.guest] /\ guest[m.guest] # "deleted"
  /\ BytesOf(OnDisk(m))
  /\ m.step \in {"unlink", "drop"} => Live(m.doomed)
  /\ m.step = "unlink" => m.path = row[m.doomed]
  /\ m.step = "update" => ~Live(m.doomed)
  /\ m.kind # "upload" \/ m.step \in {"write", "row"} => m.new = None

OneAtWork ==
  /\ \A h, k \in Busy : h = k
  /\ batch # {} => Busy \subseteq {Purger}
  /\ Busy = {} => BytesOf(Stored)
  /\ \A h \in Busy : MidWay(req[h])
  /\ \A x \in batch :
       /\ doc[x.guest] = x.file /\ guest[x.guest] # "deleted"
       /\ \A h \in Busy : req[h].guest # x.guest
  /\ \A f \in FileId : Live(f) =>
       (\E g \in Guest : doc[g] = f) \/ \E h \in Busy : req[h].new = f

CalmInv ==
  /\ \A g \in Guest : guest[g] = "deleted" => doc[g] = None
  /\ calm => OneAtWork
================================================================================
