-------------------------------- MODULE Console --------------------------------
(***************************************************************************)
(* The console of the front desk: the form that enters a booking, the      *)
(* drawer that shows one, and the two panels in it that show amounts       *)
(* (src/src/components/owner/OwnerShell.tsx, which has form and drawer     *)
(* over every page).  They keep their state apart, so their steps          *)
(* interleave.  What they have in common is the server, of which each      *)
(* module keeps what its screen asks for; what one screen does to          *)
(* another's booking is among the changes made elsewhere that each of them *)
(* allows for at any time.                                                 *)
(***************************************************************************)
EXTENDS QuickAdd, BookingPanel, QuotePanels

console == <<quickAdd, panel, quotePanels>>

ConsoleInit == QuickAddInit /\ PanelInit /\ QuotePanelsInit

QuickAddStep == QuickAddNext /\ UNCHANGED <<panel, quotePanels>>
PanelStep == PanelNext /\ UNCHANGED <<quickAdd, quotePanels>>
PanesStep == QuotePanelsNext /\ UNCHANGED <<quickAdd, panel>>

ConsoleNext == QuickAddStep \/ PanelStep \/ PanesStep

ConsoleSpec ==
  ConsoleInit /\ [][ConsoleNext]_console /\ QuickAddFairness /\ PanelFairness

(* Property: one submission at a time, and the drawer shows the booking it  *)
(* is open on (QuickAdd.tsx, submit; BookingSidebar.tsx, seq).              *)
ConsoleInv == QuickAddInv /\ PanelInv

(* Property: pricing comes to rest and loading ends (the pricing effect,    *)
(* openBooking).                                                            *)
ScreensSettle == QuoteSettles /\ LoadingEnds
================================================================================
