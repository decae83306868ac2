----------------------------- MODULE MCReservations -----------------------------
(* Reservations on small instances: model values for ids, symmetry where no *)
(* run checks liveness.                                                     *)
EXTENDS Reservations, TLC

(* What the web form sends, and what the MCP tool may send. *)
FormInput == {MoveField}
AnyInput == SUBSET MoveField

(* No handler reads the housekeeping flag, and no property of the runs that *)
(* take this view mentions it.                                              *)
WithoutHousekeeping == <<status, stay, rows, blocks, req>>

RequestSymmetry == Permutations(Request)
IdSymmetry == Permutations(Request) \cup Permutations(Booking) \cup Permutations(Room)
================================================================================
