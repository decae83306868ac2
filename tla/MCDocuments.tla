------------------------------ MODULE MCDocuments ------------------------------
(* Documents on small instances: guests, scans, file ids and requests are    *)
(* interchangeable.                                                          *)
EXTENDS Documents, TLC

IdSymmetry ==
  Permutations(Guest) \cup Permutations(FileId) \cup Permutations(Content)
    \cup Permutations(Request)

(* Whether a path that is not in use was uploaded twice is forgotten when   *)
(* it comes into use again.                                                 *)
InSight == <<disk, row, doc, guest, stays, req, batch, calm, again \cap InUse>>
================================================================================
