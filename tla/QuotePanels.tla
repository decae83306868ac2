------------------------------ MODULE QuotePanels ------------------------------
(***************************************************************************)
(* The two panels of a booking's view that show an amount before it is     *)
(* acted on (src/src/components/owner/BookingDetailView.tsx): MovePanel,   *)
(* with the new total of a room and dates, and RefundPanel, with what is   *)
(* refundable for a reason.  Each asks the server whenever its choice      *)
(* changes and sends the choice, not the amount, which the server computes *)
(* again.  Meanwhile prices, payments and the days to arrival change.      *)
(*                                                                         *)
(* The panels are on different tabs, so one of them is there at a time: a  *)
(* behaviour is the life of one.                                           *)
(***************************************************************************)
EXTENDS Naturals, FiniteSets

CONSTANTS
  Draft,     \* rooms and dates a booking may be moved to
  BadDraft,  \* those the server refuses to price
  Reason,    \* reasons for a refund
  Worths,    \* what the server may answer: functions of drafts and reasons
  MaxQuotes  \* bound: quotes in flight at once

ASSUME QuotePanelsAssumption ==
  /\ BadDraft \subseteq Draft /\ Draft \cap Reason = {}
  /\ Worths \subseteq [Draft \cup Reason -> Nat]
  /\ MaxQuotes \in Nat \ {0}

VARIABLES
  pane,      \* which panel this is
  unfolded,  \* is it open?
  choice,    \* what is selected in it
  preview,   \* the amount it shows
  asked,     \* quotes in flight
  saving,    \* the submission in flight
  worth      \* server: what each draft costs and each reason is worth now

quotePanels == <<pane, unfolded, choice, preview, asked, saving, worth>>

Options == IF pane = "move" THEN Draft ELSE Reason

NoPreview == [ok |-> FALSE]
NotSaving == [stage |-> "no"]

--------------------------------------------------------------------------------
(* The effect: the call for the choice before is dropped, the amount is     *)
(* blanked, and the server asked.                                           *)
Dropped == {[c EXCEPT !.active = FALSE] : c \in asked}
Call(x) == [choice |-> x, active |-> TRUE, reply |-> NoPreview]
AskAgain(x) ==
  /\ Cardinality(asked) < MaxQuotes
  /\ asked' = Dropped \cup {Call(x)}
  /\ preview' = NoPreview

Unfold ==
  /\ ~unfolded /\ unfolded' = TRUE
  /\ AskAgain(choice)
  /\ UNCHANGED <<pane, choice, saving, worth>>

(* The fields stay enabled while a submission is in flight. *)
Select(x) ==
  /\ unfolded /\ x # choice
  /\ choice' = x
  /\ AskAgain(x)
  /\ UNCHANGED <<pane, unfolded, saving, worth>>

(* Cancel, also while a submission is in flight. *)
Fold ==
  /\ unfolded /\ unfolded' = FALSE
  /\ asked' = Dropped
  /\ UNCHANGED <<pane, choice, preview, saving, worth>>

(* quoteBookingAction and quoteRefundAction. *)
QuoteIt(c) ==
  /\ c.reply = NoPreview /\ c.choice \notin BadDraft
  /\ asked' = (asked \ {c}) \cup
       {[c EXCEPT !.reply = [ok |-> TRUE, of |-> c.choice, amount |-> worth[c.choice],
                             fresh |-> TRUE]]}
  /\ UNCHANGED <<pane, unfolded, choice, preview, saving, worth>>

ShowQuote_Late(c) ==
  /\ c.reply # NoPreview
  /\ asked' = asked \ {c}
  /\ preview' = c.reply
  /\ UNCHANGED <<pane, unfolded, choice, saving, worth>>
ShowQuote(c) ==
  /\ c.reply # NoPreview
  /\ asked' = asked \ {c}
  /\ preview' = IF c.active THEN c.reply ELSE preview
  /\ UNCHANGED <<pane, unfolded, choice, saving, worth>>

(* A refused or failed quote leaves the panel at "Calculating". *)
QuoteFails(c) ==
  /\ c.reply = NoPreview
  /\ asked' = asked \ {c}
  /\ UNCHANGED <<pane, unfolded, choice, preview, saving, worth>>

(* A refund waits for an amount above zero; a move does not wait. *)
Ready == pane = "refund" => preview.ok /\ preview.amount > 0
Save ==
  /\ unfolded /\ saving = NotSaving /\ Ready
  /\ saving' = [stage |-> "sent", of |-> choice, shown |-> preview, amount |-> 0]
  /\ UNCHANGED <<pane, unfolded, choice, preview, asked, worth>>

(* moveBookingAction and refundAction: the amount is computed again, or the *)
(* request is refused.                                                      *)
Execute ==
  /\ saving.stage = "sent"
  /\ \/ /\ saving.of \notin BadDraft
        /\ saving' = [saving EXCEPT !.stage = "done", !.amount = worth[saving.of]]
     \/ saving' = [saving EXCEPT !.stage = "refused"]
  /\ UNCHANGED <<pane, unfolded, choice, preview, asked, worth>>

(* The answer folds the panel, refused or not. *)
Saved ==
  /\ saving.stage \in {"done", "refused"}
  /\ saving' = NotSaving
  /\ unfolded' = FALSE
  /\ asked' = Dropped
  /\ UNCHANGED <<pane, choice, preview, worth>>

(* Plans are edited, payments arrive, the arrival comes nearer. *)
Aged(r) == IF r.ok THEN [r EXCEPT !.fresh = FALSE] ELSE r
Change(w) ==
  /\ worth' = w
  /\ preview' = Aged(preview)
  /\ asked' = {[c EXCEPT !.reply = Aged(@)] : c \in asked}
  /\ saving' = IF saving.stage = "sent" THEN [saving EXCEPT !.shown = Aged(@)] ELSE saving
  /\ UNCHANGED <<pane, unfolded, choice>>

QuotePanelsInit ==
  /\ pane \in {"move", "refund"} /\ choice \in Options
  /\ unfolded = FALSE /\ preview = NoPreview /\ asked = {}
  /\ saving = NotSaving /\ worth \in Worths

QuotePanelsNext ==
  \/ Unfold \/ Fold \/ Save \/ Execute \/ Saved
  \/ \E x \in Options : Select(x)
  \/ \E c \in asked : QuoteIt(c) \/ ShowQuote(c) \/ QuoteFails(c)
  \/ \E w \in Worths : Change(w)

--------------------------------------------------------------------------------
(* Property: the panel has its shape, and an amount on screen is for what   *)
(* is selected, whichever answers come late (the two effects).              *)
AmountIsForChoice ==
  /\ choice \in Options /\ saving.stage \in {"no", "sent", "done", "refused"}
  /\ \A c \in asked : c.choice \in Options /\ (c.active => unfolded)
  /\ unfolded /\ preview.ok => preview.of = choice

(* Property: what is charged or refunded is what was on screen at the       *)
(* click, for the choice that was sent, unless the server's answer has      *)
(* changed since it was read; a refund always had an amount on screen       *)
(* (RefundPanel's disabled button, refundAction, moveBookingAction).        *)
DoneAsShown ==
  /\ saving.stage = "done" /\ saving.shown.ok /\ saving.shown.fresh
       => saving.amount = saving.shown.amount
  /\ pane = "refund" /\ saving # NotSaving => saving.shown.ok /\ saving.shown.of = saving.of

(* Property: both: the amount on screen is for the choice, and the amount   *)
(* of the action is the one on screen (MovePanel, RefundPanel).             *)
AmountsAreAsShown == AmountIsForChoice /\ DoneAsShown
================================================================================
