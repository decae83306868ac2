------------------------------- MODULE MCPricing -------------------------------
(* Pricing on a small instance, with amounts on both sides of the tax       *)
(* threshold and an odd paisa, and refund quotes around the midnights in    *)
(* India that part the tiers.                                               *)
(* The register of invoices shares no state with pricing: in a behaviour    *)
(* one of the two moves, which checks both for the price of their sum.  Of  *)
(* pricing, some behaviours have one room and the edits of plans or of      *)
(* blocks, others two rooms of two types and one plan.                      *)
EXTENDS Pricing, InvoiceRegister, TLC

CONSTANTS r1, r2, s1, s2, h1, h2, i1, i2, i3, p1

VARIABLE focus

(* A plan of all days for both types. *)
AllDays == [priority |-> 1, start |-> 0, end |-> 2, days |-> 0..6,
            amount |-> (s1 :> 750003) @@ (s2 :> 750000)]

BillingInit ==
  /\ Init
  /\ RegisterInit
  /\ focus \in {"one room", "two rooms", "register"}
  /\ focus # "register" => prefix = [s \in Site |-> p1]

PricingStep ==
  /\ focus # "register" /\ Next /\ UNCHANGED <<register, focus>>
  /\ focus = "one room" => typeOf'[r2] = None /\ (blocks' = {} \/ plans' = <<>>)
  /\ focus = "two rooms" =>
       /\ typeOf'[r1] # s2 /\ typeOf'[r2] # s1
       /\ blocks' = {} /\ plans' \in {<<>>, <<AllDays>>}
RegisterStep == focus = "register" /\ RegisterNext /\ UNCHANGED <<vars, focus>>

BillingSpec == BillingInit /\ [][PricingStep \/ RegisterStep]_<<vars, register, focus>>

Rates == {750000, 750003}

(* That plan, one of the weekend with the same priority (day 0 is a         *)
(* Thursday), and one that wins over both on day 0.                         *)
Plans == {AllDays,
  [priority |-> 1, start |-> 1, end |-> 3, days |-> {4, 5}, amount |-> (s1 :> 750000)],
  [priority |-> 2, start |-> 0, end |-> 1, days |-> 0..6, amount |-> (s1 :> 750003)]}
Blocks == {[room |-> r1, start |-> 0, end |-> 1]}

Instants == UNION {{day * 1440 - 331, day * 1440 - 330} : day \in {-6, -5, -2, -1}}

(* Two properties, one with two bookings. *)
FolioSites == (i1 :> h1) @@ (i2 :> h1) @@ (i3 :> h2)
================================================================================
