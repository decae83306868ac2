------------------------------ MODULE MCRoomViews ------------------------------
(* One handler at a time, and what the pages then show. *)
EXTENDS MCReservations, RoomViews

Lengths == {1, 2}
================================================================================
