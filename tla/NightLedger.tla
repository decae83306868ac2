------------------------------ MODULE NightLedger ------------------------------
(***************************************************************************)
(* What the reservation engine promises about inventory, with nothing of   *)
(* how it does it: a booking either holds a whole stay, every night of an  *)
(* interval in each of its rooms, or nothing; it takes, changes and gives  *)
(* back that stay in one step; and no room-night is held twice.            *)
(* src/docs/specification.md section B.3 states the guarantee; the code    *)
(* that has to keep it is src/src/lib/booking/engine.ts.                   *)
(***************************************************************************)
EXTENDS Naturals

CONSTANTS Booking, Room, Horizon

VARIABLE held        \* held[b]: the <<room, night>> pairs booking b holds

Day == 0..Horizon
RoomNight == Room \X (0..(Horizon - 1))

(* The room-nights of a stay in every room of R, check-out day excluded. *)
Stay(R, in, out) == {rn \in RoomNight : rn[1] \in R /\ in <= rn[2] /\ rn[2] < out}

HeldByOthers(b) == UNION {held[o] : o \in Booking \ {b}}

Init == held = [b \in Booking |-> {}]

(* b takes a stay, giving back whatever it held before in the same step. *)
Take(b) ==
  \E R \in SUBSET Room, in \in Day, out \in Day :
    /\ R # {} /\ in < out
    /\ Stay(R, in, out) \cap HeldByOthers(b) = {}
    /\ held' = [held EXCEPT ![b] = Stay(R, in, out)]

GiveBack(b) ==
  /\ held[b] # {}
  /\ held' = [held EXCEPT ![b] = {}]

(* A step that changes what somebody holds. *)
Next == held' # held /\ \E b \in Booking : Take(b) \/ GiveBack(b)

Spec == Init /\ [][Next]_held

(* No room-night is held by two bookings. *)
Exclusive == \A a, b \in Booking : a # b => held[a] \cap held[b] = {}
================================================================================
