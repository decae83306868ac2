-------------------------- MODULE PaymentLinksProofs ---------------------------
(***************************************************************************)
(* Payment links, for any bookings, handlers and bounds: what a guest can   *)
(* pay is known, what the portal offers was not cancelled but for rows made *)
(* live by a capture, no more links count as paid than payments came, and   *)
(* only a capture brings back a link that is over.                          *)
(***************************************************************************)
EXTENDS PaymentLinks, SequenceTheorems, FiniteSetTheorems, TLAPS

(* What appending an entry does to a table. *)
LEMMA Appended ==
  ASSUME NEW S, NEW s \in Seq(S), NEW x \in S
  PROVE  /\ Append(s, x) \in Seq(S)
         /\ Len(Append(s, x)) = Len(s) + 1
         /\ DOMAIN Append(s, x) = DOMAIN s \cup {Len(s) + 1}
         /\ Len(s) + 1 \notin DOMAIN s
         /\ \A i \in DOMAIN s : Append(s, x)[i] = s[i]
         /\ Append(s, x)[Len(s) + 1] = x
OBVIOUS

(* What rewriting an entry does to a table. *)
LEMMA Rewritten ==
  ASSUME NEW S, NEW s \in Seq(S), NEW i \in DOMAIN s, NEW x \in S
  PROVE  /\ [s EXCEPT ![i] = x] \in Seq(S)
         /\ Len([s EXCEPT ![i] = x]) = Len(s)
         /\ DOMAIN [s EXCEPT ![i] = x] = DOMAIN s
         /\ \A j \in DOMAIN s : [s EXCEPT ![i] = x][j] = IF j = i THEN x ELSE s[j]
<1>1. i \in 1..Len(s)
  BY LenProperties
<1>2. [s EXCEPT ![i] = x] \in Seq(S)
  BY <1>1, ExceptSeq
<1> QED
  BY <1>1, <1>2, ExceptSeq, LenProperties

(* A function on the same positions is a table of the same length. *)
LEMMA Mapped ==
  ASSUME NEW S, NEW s \in Seq(S), NEW f \in [DOMAIN s -> S]
  PROVE  f \in Seq(S) /\ Len(f) = Len(s) /\ DOMAIN f = DOMAIN s
<1>1. DOMAIN s = 1..Len(s) /\ Len(s) \in Nat
  BY LenProperties
<1>2. f \in Seq(S)
  BY <1>1, SeqDef
<1> QED
  BY <1>1, <1>2, LenProperties

--------------------------------------------------------------------------------
(* The entry of a handler, by what it is about to do. *)
LEMMA HandlerShape ==
  ASSUME TypeOK, NEW h \in Handler
  PROVE  /\ req[h].op \in {"look", "clear", "cancelled", "insert"} =>
              req[h].booking \in Booking /\ req[h].amount \in Nat \ {0}
         /\ req[h].op \in {"clear", "cancelled"} => req[h].old \in SUBSET Nat
         /\ req[h].op = "cancelled" => req[h].row \in Nat
         /\ req[h].op = "insert" => req[h].razorpayLinkId \in LinkId
         /\ req[h].op = "capture" => req[h].link \in Nat
<1>1. req[h] \in InFlight \cup {Idle}
  BY DEF TypeOK
<1> QED
  BY <1>1 DEF InFlight, Idle

(* The entries of the two tables. *)
LEMMA RowTypes ==
  ASSUME TypeOK
  PROVE  /\ DOMAIN gateway = 1..Len(gateway) /\ Len(gateway) \in Nat
         /\ DOMAIN gateway \subseteq LinkId
         /\ \A g \in DOMAIN gateway : gateway[g] \in GatewayLink
         /\ DOMAIN links = 1..Len(links) /\ Len(links) \in Nat
         /\ \A l \in DOMAIN links : links[l] \in PaymentLink
<1>1. gateway \in Seq(GatewayLink) /\ links \in Seq(PaymentLink)
  BY DEF TypeOK
<1>2. /\ DOMAIN gateway = 1..Len(gateway) /\ Len(gateway) \in Nat
      /\ DOMAIN links = 1..Len(links) /\ Len(links) \in Nat
  BY <1>1, LenProperties
<1>3. DOMAIN gateway \subseteq LinkId
  BY <1>2, LinksAssumption DEF TypeOK, LinkId
<1> QED
  BY <1>1, <1>2, <1>3, ElementOfSeq

(* Writing the state of one gateway link. *)
LEMMA GatewayWrite ==
  ASSUME TypeOK, NEW g \in DOMAIN gateway, NEW st \in {"open", "cancelled", "paid"},
         gateway' = [gateway EXCEPT ![g].state = st]
  PROVE  /\ gateway' \in Seq(GatewayLink) /\ Len(gateway') = Len(gateway) /\ DOMAIN gateway' = DOMAIN gateway
         /\ \A k \in DOMAIN gateway :
              gateway'[k].booking = gateway[k].booking /\ gateway'[k].amount = gateway[k].amount
         /\ \A k \in DOMAIN gateway \ {g} : gateway'[k] = gateway[k]
         /\ gateway'[g].state = st
<1> DEFINE x == [gateway[g] EXCEPT !.state = st]
<1>1. x \in GatewayLink /\ x.booking = gateway[g].booking /\ x.amount = gateway[g].amount
      /\ x.state = st
  BY RowTypes DEF GatewayLink
<1>2. gateway \in Seq(GatewayLink)
  BY DEF TypeOK
<1> HIDE DEF x
<1>3. /\ gateway' \in Seq(GatewayLink) /\ Len(gateway') = Len(gateway) /\ DOMAIN gateway' = DOMAIN gateway
      /\ \A k \in DOMAIN gateway : gateway'[k] = IF k = g THEN x ELSE gateway[k]
  BY <1>1, <1>2, Rewritten DEF x
<1> QED
  BY <1>1, <1>3

(* Writing the status of rows. *)
LEMMA StatusWrite ==
  ASSUME TypeOK, NEW st \in [DOMAIN links -> Live \cup {"PAID", "CANCELLED", "EXPIRED"}],
         links' = [l \in DOMAIN links |-> [links[l] EXCEPT !.status = st[l]]]
  PROVE  /\ links' \in Seq(PaymentLink) /\ Len(links') = Len(links) /\ DOMAIN links' = DOMAIN links
         /\ \A l \in DOMAIN links :
              /\ links'[l].booking = links[l].booking /\ links'[l].amount = links[l].amount
              /\ links'[l].razorpayLinkId = links[l].razorpayLinkId
              /\ links'[l].status = st[l]
<1>1. \A l \in DOMAIN links : links[l] \in PaymentLink
  BY RowTypes
<1>2. ASSUME NEW l \in DOMAIN links
      PROVE  /\ links'[l] \in PaymentLink
             /\ links'[l].booking = links[l].booking /\ links'[l].amount = links[l].amount
             /\ links'[l].razorpayLinkId = links[l].razorpayLinkId
             /\ links'[l].status = st[l]
  <2>1. links'[l] = [links[l] EXCEPT !.status = st[l]]
    OBVIOUS
  <2>2. st[l] \in Live \cup {"PAID", "CANCELLED", "EXPIRED"}
    OBVIOUS
  <2> QED
    BY <1>1, <2>1, <2>2 DEF PaymentLink
<1>3. links' \in [DOMAIN links -> PaymentLink]
  BY <1>2
<1>4. links \in Seq(PaymentLink)
  BY DEF TypeOK
<1>5. links' \in Seq(PaymentLink) /\ Len(links') = Len(links) /\ DOMAIN links' = DOMAIN links
  BY <1>3, <1>4, Mapped
<1> QED
  BY <1>2, <1>5

(* Writing the status of one row. *)
LEMMA OneStatus ==
  ASSUME TypeOK, NEW r \in DOMAIN links,
         NEW st \in Live \cup {"PAID", "CANCELLED", "EXPIRED"},
         links' = [links EXCEPT ![r].status = st]
  PROVE  /\ links' \in Seq(PaymentLink) /\ Len(links') = Len(links) /\ DOMAIN links' = DOMAIN links
         /\ \A l \in DOMAIN links :
              /\ links'[l].booking = links[l].booking /\ links'[l].amount = links[l].amount
              /\ links'[l].razorpayLinkId = links[l].razorpayLinkId
              /\ links'[l].status = IF l = r THEN st ELSE links[l].status
<1> DEFINE x == [links[r] EXCEPT !.status = st]
<1>1. x \in PaymentLink /\ x.booking = links[r].booking /\ x.amount = links[r].amount
      /\ x.razorpayLinkId = links[r].razorpayLinkId /\ x.status = st
  BY RowTypes DEF PaymentLink
<1>2. links \in Seq(PaymentLink) /\ links' = [links EXCEPT ![r] = x]
  BY DEF TypeOK
<1> HIDE DEF x
<1>3. /\ links' \in Seq(PaymentLink) /\ Len(links') = Len(links) /\ DOMAIN links' = DOMAIN links
      /\ \A k \in DOMAIN links : links'[k] = IF k = r THEN x ELSE links[k]
  BY <1>1, <1>2, Rewritten
<1> QED
  BY <1>1, <1>3

--------------------------------------------------------------------------------
(* The part of the invariant that relates tables, gateway and handlers. *)
Rest == RowsHaveOwnLinks /\ HandlersHoldRows /\ PayableIsListed /\ OfferedIsNotCancelled

(* A step that changes no row and no gateway link's state, but the entry of *)
(* one handler, to one which does not owe a row its update.                 *)
LEMMA EntryStep ==
  ASSUME IInv, NEW h \in Handler, NEW m,
         links' = links, gateway' = gateway, revived' = revived,
         req' = [req EXCEPT ![h] = m], req \in [Handler -> InFlight \cup {Idle}],
         m.op \in {"idle", "look", "clear", "capture"},
         h \in LinkId => m.op \in {"idle", "capture"},
         m.op = "capture" =>
           h \in DOMAIN gateway /\ (m.link # 0 => m.link \in RowsOf(gateway[h].booking)),
         m.op = "clear" => m.old \subseteq DOMAIN links,
         faults \in Nat, faults' \in Nat, faults' >= faults,
         req[h].op \in {"insert", "cancelled"} => faults' > 0
  PROVE  Rest'
<1> USE DEF IInv
<1>1. req'[h] = m /\ \A k \in Handler \ {h} : req'[k] = req[k]
  OBVIOUS
<1>2. faults' = 0 => faults = 0
  OBVIOUS
<1>3. Request \subseteq Handler
  BY DEF Handler
<1>4. RowsHaveOwnLinks'
  BY <1>1, <1>3 DEF RowsHaveOwnLinks
<1>5. HandlersHoldRows'
  BY <1>1, <1>2 DEF HandlersHoldRows, RowsOf
<1>6. PayableIsListed'
  BY <1>1, <1>2, <1>3 DEF PayableIsListed
<1>7. OfferedIsNotCancelled'
  BY <1>1, <1>2, <1>3 DEF OfferedIsNotCancelled
<1> QED
  BY <1>4, <1>5, <1>6, <1>7 DEF Rest

(* A step that cancels nothing, adds no row, and ends captures at most. *)
LEMMA StatusStep ==
  ASSUME IInv,
         DOMAIN gateway' = DOMAIN gateway,
         \A g \in DOMAIN gateway :
           /\ gateway'[g].booking = gateway[g].booking
           /\ gateway'[g].state \in {gateway[g].state, "paid"},
         DOMAIN links' = DOMAIN links,
         \A l \in DOMAIN links :
           /\ links'[l].booking = links[l].booking
           /\ links'[l].razorpayLinkId = links[l].razorpayLinkId
           /\ links'[l].status \in {links[l].status, "PAID", "PARTIALLY_PAID", "EXPIRED"},
         \A h \in Handler :
           req'[h] = req[h] \/ (req'[h] = Idle /\ req[h].op = "capture"),
         \A l \in DOMAIN links :
           links'[l].status \in Live =>
             ((l \in revived \/ links[l].status \notin Live) => l \in revived'),
         faults' = faults
  PROVE  Rest'
<1> USE DEF IInv
<1>1. \A h \in Handler : req'[h].op # "idle" => req'[h] = req[h]
  BY DEF Idle
<1>2. \A h \in Handler : req[h].op # "capture" => req'[h] = req[h]
  OBVIOUS
<1>3. Request \subseteq Handler
  BY DEF Handler
<1>4. RowsHaveOwnLinks'
  BY <1>1, <1>3 DEF RowsHaveOwnLinks
<1>5. HandlersHoldRows'
  <2> SUFFICES ASSUME NEW h \in Handler
               PROVE  /\ h \in LinkId => req'[h].op \in {"idle", "capture"}
                      /\ req'[h].op = "capture" =>
                           /\ h \in DOMAIN gateway'
                           /\ req'[h].link # 0 => req'[h].link \in RowsOf(gateway[h].booking)'
                      /\ req'[h].op \in {"clear", "cancelled"} => req'[h].old \subseteq DOMAIN links'
                      /\ req'[h].op = "cancelled" =>
                           /\ req'[h].row \in DOMAIN links'
                           /\ faults' = 0 => gateway'[links'[req'[h].row].razorpayLinkId].state # "open"
    BY DEF HandlersHoldRows
  <2>1. h \in LinkId => req'[h].op \in {"idle", "capture"}
    BY DEF HandlersHoldRows, Idle
  <2>2. req'[h].op = "capture" =>
           /\ h \in DOMAIN gateway'
           /\ req'[h].link # 0 => req'[h].link \in RowsOf(gateway[h].booking)'
    <3> SUFFICES ASSUME req'[h].op = "capture"
                 PROVE  /\ h \in DOMAIN gateway'
                        /\ req'[h].link # 0 => req'[h].link \in RowsOf(gateway[h].booking)'
      OBVIOUS
    <3>1. req'[h] = req[h]
      BY <1>1
    <3>2. h \in DOMAIN gateway /\ (req[h].link # 0 => req[h].link \in RowsOf(gateway[h].booking))
      BY <3>1 DEF HandlersHoldRows
    <3>3. RowsOf(gateway[h].booking)' = RowsOf(gateway[h].booking)
      BY <3>2 DEF RowsOf
    <3> QED
      BY <3>1, <3>2, <3>3
  <2>3. req'[h].op \in {"clear", "cancelled"} => req'[h].old \subseteq DOMAIN links'
    BY <1>1 DEF HandlersHoldRows
  <2>4. req'[h].op = "cancelled" =>
           /\ req'[h].row \in DOMAIN links'
           /\ faults' = 0 => gateway'[links'[req'[h].row].razorpayLinkId].state # "open"
    <3> SUFFICES ASSUME req'[h].op = "cancelled"
                 PROVE  /\ req'[h].row \in DOMAIN links'
                        /\ faults' = 0 =>
                             gateway'[links'[req'[h].row].razorpayLinkId].state # "open"
      OBVIOUS
    <3> DEFINE l == req[h].row
               g == links[l].razorpayLinkId
    <3>1. req'[h] = req[h]
      BY <1>1
    <3>2. l \in DOMAIN links /\ (faults = 0 => gateway[g].state # "open")
      BY <3>1 DEF HandlersHoldRows
    <3>3. g \in DOMAIN gateway /\ links'[l].razorpayLinkId = g
      BY <3>2 DEF TypeOK
    <3>4. faults = 0 => gateway'[g].state # "open"
      BY <3>2, <3>3
    <3> QED
      BY <3>1, <3>2, <3>3, <3>4
  <2> QED
    BY <2>1, <2>2, <2>3, <2>4
<1>6. PayableIsListed'
  <2> SUFFICES ASSUME faults' = 0, NEW g \in DOMAIN gateway, gateway'[g].state = "open"
               PROVE  \/ \E l \in DOMAIN links' :
                           links'[l].razorpayLinkId = g /\ links'[l].status # "CANCELLED"
                      \/ \E q \in Request : req'[q].op = "insert" /\ req'[q].razorpayLinkId = g
    BY DEF PayableIsListed
  <2>1. \/ \E l \in DOMAIN links : links[l].razorpayLinkId = g /\ links[l].status # "CANCELLED"
        \/ \E q \in Request : req[q].op = "insert" /\ req[q].razorpayLinkId = g
    BY DEF PayableIsListed
  <2> QED
    BY <2>1, <1>2, <1>3
<1>7. OfferedIsNotCancelled'
  <2> SUFFICES ASSUME faults' = 0, NEW l \in DOMAIN links, links'[l].status \in Live,
                      gateway'[links'[l].razorpayLinkId].state = "cancelled", l \notin revived'
               PROVE  \E q \in Request : req'[q].op = "cancelled" /\ req'[q].row = l
    BY DEF OfferedIsNotCancelled
  <2>1. /\ links[l].status \in Live /\ gateway[links[l].razorpayLinkId].state = "cancelled"
        /\ l \notin revived
    BY DEF TypeOK
  <2>2. \E q \in Request : req[q].op = "cancelled" /\ req[q].row = l
    BY <2>1 DEF OfferedIsNotCancelled
  <2> QED
    BY <2>2, <1>2, <1>3
<1> QED
  BY <1>4, <1>5, <1>6, <1>7 DEF Rest

--------------------------------------------------------------------------------
(* Cancelling at the gateway: the row it is for is then about to be marked. *)
LEMMA CancelAtGateway ==
  ASSUME IInv, NEW q \in Handler, NEW refused \in BOOLEAN, CancelPaymentLink(q, refused)
  PROVE  TypeOK' /\ Rest'
<1> DEFINE m == req[q]
           l == CHOOSE k \in m.old : TRUE
           g == links[l].razorpayLinkId
           e == [op |-> "cancelled", booking |-> m.booking, amount |-> m.amount,
                 old |-> m.old \ {l}, row |-> l]
<1> USE DEF IInv
<1>1. /\ m.op = "clear" /\ m.old # {} /\ l \in m.old
      /\ links' = links /\ amountPaid' = amountPaid /\ told' = told /\ desk' = desk
      /\ revived' = revived /\ req' = [req EXCEPT ![q] = e]
  BY DEF CancelPaymentLink
<1>2. /\ m.booking \in Booking /\ m.amount \in Nat \ {0} /\ m.old \in SUBSET Nat
      /\ q \in Request
  BY <1>1, HandlerShape DEF HandlersHoldRows, Handler
<1>3. m.old \subseteq DOMAIN links /\ l \in DOMAIN links /\ l \in Nat
  BY <1>1, <1>2 DEF HandlersHoldRows
<1>4. g \in DOMAIN gateway /\ gateway[g] \in GatewayLink
  BY <1>3, RowTypes DEF TypeOK
<1>5. /\ req \in [Handler -> InFlight \cup {Idle}] /\ e \in InFlight
      /\ req'[q] = e /\ \A k \in Handler \ {q} : req'[k] = req[k]
  BY <1>1, <1>2, <1>3 DEF TypeOK, InFlight
<1>6. /\ faults' \in Nat /\ faults' >= faults /\ desk + faults' <= MaxExtra
      /\ faults \in Nat
  BY LinksAssumption DEF CancelPaymentLink, TypeOK, HasRoom
<1>7. /\ gateway' \in Seq(GatewayLink) /\ Len(gateway') = Len(gateway)
      /\ DOMAIN gateway' = DOMAIN gateway
      /\ \A k \in DOMAIN gateway : gateway'[k].booking = gateway[k].booking
      /\ \A k \in DOMAIN gateway \ {g} : gateway'[k] = gateway[k]
      /\ gateway'[g].state \in {gateway[g].state, "cancelled"}
      /\ faults' = 0 => gateway'[g].state # "open"
  <2>1. \/ gateway' = gateway /\ faults' > 0
        \/ gateway' = gateway /\ gateway[g].state # "open"
        \/ gateway' = [gateway EXCEPT ![g].state = "cancelled"]
    <3>1. faults + 1 > 0
      BY <1>6
    <3> QED
      BY <3>1 DEF CancelPaymentLink
  <2> HIDE DEF g
  <2>2. gateway \in Seq(GatewayLink)
    BY DEF TypeOK
  <2>3. CASE gateway' = gateway /\ (faults' > 0 \/ gateway[g].state # "open")
    BY <2>2, <2>3
  <2>4. CASE gateway' = [gateway EXCEPT ![g].state = "cancelled"]
    BY <2>4, <1>4, GatewayWrite
  <2> QED
    BY <2>1, <2>3, <2>4
<1> HIDE DEF e, l, g, m
<1>8. TypeOK'
  BY <1>1, <1>5, <1>6, <1>7 DEF TypeOK
<1>9. Request \subseteq Handler /\ (faults' = 0 => faults = 0)
  BY <1>6 DEF Handler
<1>10. RowsHaveOwnLinks'
  <2>1. \A p \in Request : req'[p].op = "insert" => req'[p] = req[p]
    BY <1>5, <1>9 DEF e
  <2>2. ASSUME NEW p \in Request, req[p].op = "insert"
        PROVE  gateway'[req[p].razorpayLinkId].state # "cancelled"
    <3>1. req[p].razorpayLinkId \in DOMAIN gateway \ {g} /\ gateway[req[p].razorpayLinkId].state # "cancelled"
      BY <2>2, <1>3 DEF RowsHaveOwnLinks, g
    <3> QED
      BY <3>1, <1>7
  <2> QED
    BY <2>1, <2>2, <1>1, <1>7 DEF RowsHaveOwnLinks
<1>11. HandlersHoldRows'
  <2> SUFFICES ASSUME NEW h \in Handler
               PROVE  /\ h \in LinkId => req'[h].op \in {"idle", "capture"}
                      /\ req'[h].op = "capture" =>
                           /\ h \in DOMAIN gateway'
                           /\ req'[h].link # 0 => req'[h].link \in RowsOf(gateway[h].booking)'
                      /\ req'[h].op \in {"clear", "cancelled"} => req'[h].old \subseteq DOMAIN links
                      /\ req'[h].op = "cancelled" =>
                           /\ req'[h].row \in DOMAIN links
                           /\ faults' = 0 => gateway'[links[req'[h].row].razorpayLinkId].state # "open"
    BY <1>1 DEF HandlersHoldRows
  <2>1. CASE h = q
    BY <2>1, <1>1, <1>2, <1>3, <1>5, <1>7, LinksAssumption DEF e, g, LinkId
  <2>2. CASE h # q
    <3>1. req'[h] = req[h]
      BY <2>2, <1>5
    <3>2. req[h].op = "capture" => RowsOf(gateway[h].booking)' = RowsOf(gateway[h].booking)
      BY <1>1, <1>7 DEF RowsOf, HandlersHoldRows
    <3>3. ASSUME req[h].op = "cancelled", faults' = 0
          PROVE  gateway'[links[req[h].row].razorpayLinkId].state # "open"
      BY <3>3, <1>7, <1>9 DEF HandlersHoldRows, TypeOK
    <3> QED
      BY <3>1, <3>2, <3>3, <1>7 DEF HandlersHoldRows
  <2> QED
    BY <2>1, <2>2
<1>12. PayableIsListed'
  <2> SUFFICES ASSUME faults' = 0, NEW k \in DOMAIN gateway, gateway'[k].state = "open"
               PROVE  \/ \E r \in DOMAIN links :
                           links[r].razorpayLinkId = k /\ links[r].status # "CANCELLED"
                      \/ \E p \in Request : req'[p].op = "insert" /\ req'[p].razorpayLinkId = k
    BY <1>1, <1>7 DEF PayableIsListed
  <2>1. gateway[k].state = "open"
    BY <1>7
  <2> QED
    BY <2>1, <1>1, <1>5, <1>9 DEF PayableIsListed, m
<1>13. OfferedIsNotCancelled'
  <2> SUFFICES ASSUME faults' = 0, NEW r \in DOMAIN links, links[r].status \in Live,
                      gateway'[links[r].razorpayLinkId].state = "cancelled", r \notin revived
               PROVE  \E p \in Request : req'[p].op = "cancelled" /\ req'[p].row = r
    BY <1>1 DEF OfferedIsNotCancelled
  <2>1. CASE r = l
    BY <2>1, <1>2, <1>5 DEF e
  <2>2. CASE r # l
    <3>1. links[r].razorpayLinkId \in DOMAIN gateway \ {g}
      BY <2>2, <1>3 DEF RowsHaveOwnLinks, TypeOK, g
    <3>2. gateway[links[r].razorpayLinkId].state = "cancelled"
      BY <3>1, <1>7
    <3>3. PICK p \in Request : req[p].op = "cancelled" /\ req[p].row = r
      BY <3>2, <1>9 DEF OfferedIsNotCancelled
    <3> QED
      BY <3>3, <1>1, <1>5, <1>9 DEF m
  <2> QED
    BY <2>1, <2>2
<1> QED
  BY <1>8, <1>10, <1>11, <1>12, <1>13 DEF Rest

(* Marking the row of a link just cancelled. *)
LEMMA MarkRow ==
  ASSUME IInv, NEW q \in Handler, CancelRow(q)
  PROVE  TypeOK' /\ Rest'
<1> DEFINE m == req[q]
           e == [op |-> "clear", booking |-> m.booking, amount |-> m.amount, old |-> m.old]
<1> USE DEF IInv
<1>1. /\ m.op = "cancelled" /\ links' = [links EXCEPT ![m.row].status = "CANCELLED"]
      /\ req' = [req EXCEPT ![q] = e] /\ Revive
      /\ gateway' = gateway /\ amountPaid' = amountPaid /\ told' = told /\ desk' = desk
      /\ faults' = faults
  BY DEF CancelRow
<1>2. /\ m.booking \in Booking /\ m.amount \in Nat \ {0} /\ m.old \in SUBSET Nat
      /\ q \in Request
  BY <1>1, HandlerShape DEF HandlersHoldRows, Handler
<1>3. /\ m.old \subseteq DOMAIN links /\ m.row \in DOMAIN links
      /\ faults = 0 => gateway[links[m.row].razorpayLinkId].state # "open"
  BY <1>1, <1>2 DEF HandlersHoldRows
<1>4. /\ e \in InFlight /\ req'[q] = e /\ \A k \in Handler \ {q} : req'[k] = req[k]
  BY <1>1, <1>2 DEF TypeOK, InFlight
<1>5. /\ links' \in Seq(PaymentLink) /\ DOMAIN links' = DOMAIN links
      /\ \A l \in DOMAIN links :
           /\ links'[l].booking = links[l].booking
           /\ links'[l].razorpayLinkId = links[l].razorpayLinkId
           /\ links'[l].status = IF l = m.row THEN "CANCELLED" ELSE links[l].status
  <2> DEFINE r == m.row
  <2>1. r \in DOMAIN links /\ links' = [links EXCEPT ![r].status = "CANCELLED"] /\ TypeOK
    BY <1>1, <1>3
  <2> HIDE DEF r
  <2>2. "CANCELLED" \in Live \cup {"PAID", "CANCELLED", "EXPIRED"}
    OBVIOUS
  <2> QED
    BY <2>1, <2>2, OneStatus DEF r
<1> HIDE DEF e, m
<1>6. TypeOK'
  BY <1>1, <1>4, <1>5 DEF TypeOK, Revive
<1>7. Request \subseteq Handler
  BY DEF Handler
<1>8. RowsHaveOwnLinks'
  <2>1. \A p \in Request : req'[p].op = "insert" => req'[p] = req[p]
    BY <1>4, <1>7 DEF e
  <2> QED
    BY <2>1, <1>1, <1>5 DEF RowsHaveOwnLinks
<1>9. HandlersHoldRows'
  <2> SUFFICES ASSUME NEW h \in Handler
               PROVE  /\ h \in LinkId => req'[h].op \in {"idle", "capture"}
                      /\ req'[h].op = "capture" =>
                           /\ h \in DOMAIN gateway
                           /\ req'[h].link # 0 => req'[h].link \in RowsOf(gateway[h].booking)'
                      /\ req'[h].op \in {"clear", "cancelled"} => req'[h].old \subseteq DOMAIN links
                      /\ req'[h].op = "cancelled" =>
                           /\ req'[h].row \in DOMAIN links
                           /\ faults = 0 => gateway[links'[req'[h].row].razorpayLinkId].state # "open"
    BY <1>1, <1>5 DEF HandlersHoldRows
  <2>1. CASE h = q
    BY <2>1, <1>2, <1>3, <1>4, LinksAssumption DEF e, LinkId
  <2>2. CASE h # q
    <3>1. req'[h] = req[h]
      BY <2>2, <1>4
    <3>2. req[h].op = "capture" => RowsOf(gateway[h].booking)' = RowsOf(gateway[h].booking)
      BY <1>1, <1>5 DEF RowsOf, HandlersHoldRows
    <3>3. ASSUME req[h].op = "cancelled", faults = 0
          PROVE  gateway[links'[req[h].row].razorpayLinkId].state # "open"
      BY <3>3, <1>5 DEF HandlersHoldRows, TypeOK
    <3> QED
      BY <3>1, <3>2, <3>3 DEF HandlersHoldRows
  <2> QED
    BY <2>1, <2>2
<1>10. PayableIsListed'
  <2> SUFFICES ASSUME faults = 0, NEW k \in DOMAIN gateway, gateway[k].state = "open"
               PROVE  \/ \E r \in DOMAIN links :
                           links'[r].razorpayLinkId = k /\ links'[r].status # "CANCELLED"
                      \/ \E p \in Request : req'[p].op = "insert" /\ req'[p].razorpayLinkId = k
    BY <1>1, <1>5 DEF PayableIsListed
  <2>1. CASE \E p \in Request : req[p].op = "insert" /\ req[p].razorpayLinkId = k
    BY <2>1, <1>1, <1>4, <1>7 DEF m
  <2>2. CASE \E r \in DOMAIN links : links[r].razorpayLinkId = k /\ links[r].status # "CANCELLED"
    BY <2>2, <1>3, <1>5
  <2> QED
    BY <2>1, <2>2 DEF PayableIsListed
<1>11. OfferedIsNotCancelled'
  <2> SUFFICES ASSUME faults = 0, NEW r \in DOMAIN links, links'[r].status \in Live,
                      gateway[links'[r].razorpayLinkId].state = "cancelled", r \notin revived'
               PROVE  \E p \in Request : req'[p].op = "cancelled" /\ req'[p].row = r
    BY <1>1, <1>5 DEF OfferedIsNotCancelled
  <2>1. r # m.row
    BY <1>5 DEF Live
  <2>2. /\ links[r].status \in Live /\ gateway[links[r].razorpayLinkId].state = "cancelled"
        /\ r \notin revived
    BY <2>1, <1>1, <1>5 DEF Revive
  <2>3. PICK p \in Request : req[p].op = "cancelled" /\ req[p].row = r
    BY <2>2 DEF OfferedIsNotCancelled
  <2>4. p # q
    BY <2>1, <2>3 DEF m
  <2> QED
    BY <2>3, <2>4, <1>4, <1>7
<1> QED
  BY <1>6, <1>8, <1>9, <1>10, <1>11 DEF Rest

(* A link that is created is about to have its row. *)
LEMMA Create ==
  ASSUME IInv, NEW q \in Handler, CreateAtGateway(q)
  PROVE  TypeOK' /\ Rest'
<1> DEFINE m == req[q]
           n == Len(gateway) + 1
           x == [booking |-> m.booking, amount |-> m.amount, state |-> "open"]
           e == [op |-> "insert", booking |-> m.booking, amount |-> m.amount,
                 razorpayLinkId |-> n]
<1> USE DEF IInv
<1>1. /\ m.op = "clear" /\ Len(gateway) < MaxLinks /\ gateway' = Append(gateway, x)
      /\ links' = links /\ amountPaid' = amountPaid /\ told' = told /\ desk' = desk
      /\ faults' = faults /\ revived' = revived
  BY DEF CreateAtGateway
<1>2. /\ m.booking \in Booking /\ m.amount \in Nat \ {0} /\ q \in Request
  BY <1>1, HandlerShape DEF HandlersHoldRows, Handler
<1>3. /\ x \in GatewayLink /\ gateway \in Seq(GatewayLink) /\ Len(gateway) \in Nat
  BY <1>2, RowTypes DEF GatewayLink, TypeOK
<1>4. /\ gateway' \in Seq(GatewayLink) /\ Len(gateway') = n
      /\ DOMAIN gateway' = DOMAIN gateway \cup {n} /\ n \notin DOMAIN gateway
      /\ gateway'[n] = x /\ \A k \in DOMAIN gateway : gateway'[k] = gateway[k]
  <2> HIDE DEF x
  <2> QED
    BY <1>1, <1>3, Appended
<1>5. /\ e \in InFlight /\ req' = [req EXCEPT ![q] = e]
      /\ req'[q] = e /\ \A k \in Handler \ {q} : req'[k] = req[k]
  <2>1. req' = [req EXCEPT ![q] = e]
    BY <1>4 DEF CreateAtGateway
  <2>2. n \in LinkId
    BY <1>1, <1>3, LinksAssumption DEF LinkId
  <2> QED
    BY <2>1, <2>2, <1>2 DEF TypeOK, InFlight
<1>6. n <= MaxLinks
  BY <1>1, <1>3, LinksAssumption
<1> HIDE DEF e, m, n
<1>7. TypeOK'
  BY <1>1, <1>4, <1>5, <1>6 DEF TypeOK
<1>8. Request \subseteq Handler
  BY DEF Handler
<1>9. RowsHaveOwnLinks'
  <2>1. \A p \in Request : (p # q /\ req'[p].op = "insert") =>
          /\ req[p].op = "insert" /\ req'[p] = req[p] /\ req[p].razorpayLinkId \in DOMAIN gateway
          /\ gateway[req[p].razorpayLinkId].state # "cancelled"
    BY <1>5, <1>8 DEF RowsHaveOwnLinks
  <2>2. \A l \in DOMAIN links : links[l].razorpayLinkId # n
    BY <1>4 DEF TypeOK
  <2> QED
    BY <2>1, <2>2, <1>1, <1>2, <1>4, <1>5 DEF RowsHaveOwnLinks, e
<1>10. HandlersHoldRows'
  <2> SUFFICES ASSUME NEW h \in Handler
               PROVE  /\ h \in LinkId => req'[h].op \in {"idle", "capture"}
                      /\ req'[h].op = "capture" =>
                           /\ h \in DOMAIN gateway'
                           /\ req'[h].link # 0 => req'[h].link \in RowsOf(gateway[h].booking)'
                      /\ req'[h].op \in {"clear", "cancelled"} => req'[h].old \subseteq DOMAIN links
                      /\ req'[h].op = "cancelled" =>
                           /\ req'[h].row \in DOMAIN links
                           /\ faults = 0 => gateway'[links[req'[h].row].razorpayLinkId].state # "open"
    BY <1>1 DEF HandlersHoldRows
  <2>1. CASE h = q
    BY <2>1, <1>2, <1>5, LinksAssumption DEF e, LinkId
  <2>2. CASE h # q
    <3>1. req'[h] = req[h]
      BY <2>2, <1>5
    <3>2. req[h].op = "capture" => RowsOf(gateway[h].booking)' = RowsOf(gateway[h].booking)
      BY <1>1, <1>4 DEF RowsOf, HandlersHoldRows
    <3>3. ASSUME req[h].op = "cancelled", faults = 0
          PROVE  gateway'[links[req[h].row].razorpayLinkId].state # "open"
      BY <3>3, <1>4 DEF HandlersHoldRows, TypeOK
    <3> QED
      BY <3>1, <3>2, <3>3, <1>4 DEF HandlersHoldRows
  <2> QED
    BY <2>1, <2>2
<1>11. PayableIsListed'
  <2> SUFFICES ASSUME faults = 0, NEW k \in DOMAIN gateway', gateway'[k].state = "open"
               PROVE  \/ \E r \in DOMAIN links :
                           links[r].razorpayLinkId = k /\ links[r].status # "CANCELLED"
                      \/ \E p \in Request : req'[p].op = "insert" /\ req'[p].razorpayLinkId = k
    BY <1>1 DEF PayableIsListed
  <2>1. CASE k = n
    BY <2>1, <1>2, <1>5 DEF e
  <2>2. CASE k # n
    <3>1. k \in DOMAIN gateway /\ gateway[k].state = "open"
      BY <2>2, <1>4
    <3> QED
      BY <3>1, <1>1, <1>5, <1>8 DEF PayableIsListed, m
  <2> QED
    BY <2>1, <2>2
<1>12. OfferedIsNotCancelled'
  <2> SUFFICES ASSUME faults = 0, NEW r \in DOMAIN links, links[r].status \in Live,
                      gateway'[links[r].razorpayLinkId].state = "cancelled", r \notin revived
               PROVE  \E p \in Request : req'[p].op = "cancelled" /\ req'[p].row = r
    BY <1>1 DEF OfferedIsNotCancelled
  <2>1. gateway[links[r].razorpayLinkId].state = "cancelled"
    BY <1>4 DEF TypeOK
  <2>2. PICK p \in Request : req[p].op = "cancelled" /\ req[p].row = r
    BY <2>1 DEF OfferedIsNotCancelled
  <2> QED
    BY <2>2, <1>1, <1>5, <1>8 DEF m
<1> QED
  BY <1>7, <1>9, <1>10, <1>11, <1>12 DEF Rest

(* The row of a new link is inserted. *)
LEMMA Insert ==
  ASSUME IInv, NEW q \in Handler, InsertRow(q)
  PROVE  TypeOK' /\ Rest'
<1> DEFINE m == req[q]
           n == Len(links) + 1
           x == [booking |-> m.booking, amount |-> m.amount,
                 razorpayLinkId |-> m.razorpayLinkId, status |-> "CREATED"]
<1> USE DEF IInv
<1>1. /\ m.op = "insert" /\ links' = Append(links, x) /\ req' = [req EXCEPT ![q] = Idle]
      /\ gateway' = gateway /\ amountPaid' = amountPaid /\ told' = told /\ desk' = desk
      /\ faults' = faults /\ revived' = revived
  BY DEF InsertRow
<1>2. /\ m.booking \in Booking /\ m.amount \in Nat \ {0} /\ m.razorpayLinkId \in LinkId
      /\ q \in Request
  BY <1>1, HandlerShape DEF HandlersHoldRows, Handler
<1>3. /\ m.razorpayLinkId \in DOMAIN gateway
      /\ gateway[m.razorpayLinkId].state # "cancelled"
      /\ \A l \in DOMAIN links : links[l].razorpayLinkId # m.razorpayLinkId
      /\ \A p \in Request \ {q} : req[p].op = "insert" => req[p].razorpayLinkId # m.razorpayLinkId
  BY <1>1, <1>2 DEF RowsHaveOwnLinks
<1>4. /\ x \in PaymentLink /\ links \in Seq(PaymentLink)
  BY <1>2 DEF PaymentLink, TypeOK, Live
<1>5. /\ links' \in Seq(PaymentLink)
      /\ DOMAIN links' = DOMAIN links \cup {n} /\ n \notin DOMAIN links
      /\ links'[n] = x /\ \A k \in DOMAIN links : links'[k] = links[k]
  <2> HIDE DEF x
  <2> QED
    BY <1>1, <1>4, Appended
<1>6. req'[q] = Idle /\ \A k \in Handler \ {q} : req'[k] = req[k]
  BY <1>1 DEF TypeOK
<1> HIDE DEF m, n
<1>7. TypeOK'
  BY <1>1, <1>3, <1>5 DEF TypeOK
<1>8. Request \subseteq Handler
  BY DEF Handler
<1>9. RowsHaveOwnLinks'
  <2>1. \A p \in Request : req'[p].op = "insert" =>
          /\ p # q /\ req[p].op = "insert" /\ req'[p] = req[p]
    BY <1>6, <1>8 DEF Idle
  <2> QED
    BY <2>1, <1>1, <1>3, <1>5 DEF RowsHaveOwnLinks
<1>10. HandlersHoldRows'
  <2> SUFFICES ASSUME NEW h \in Handler
               PROVE  /\ h \in LinkId => req'[h].op \in {"idle", "capture"}
                      /\ req'[h].op = "capture" =>
                           /\ h \in DOMAIN gateway
                           /\ req'[h].link # 0 => req'[h].link \in RowsOf(gateway[h].booking)'
                      /\ req'[h].op \in {"clear", "cancelled"} => req'[h].old \subseteq DOMAIN links'
                      /\ req'[h].op = "cancelled" =>
                           /\ req'[h].row \in DOMAIN links'
                           /\ faults = 0 => gateway[links'[req'[h].row].razorpayLinkId].state # "open"
    BY <1>1 DEF HandlersHoldRows
  <2>1. CASE h = q
    BY <2>1, <1>6 DEF Idle
  <2>2. CASE h # q
    <3>1. req'[h] = req[h]
      BY <2>2, <1>6
    <3>2. req[h].op = "capture" => RowsOf(gateway[h].booking) \subseteq RowsOf(gateway[h].booking)'
      BY <1>1, <1>5 DEF RowsOf
    <3>3. ASSUME req[h].op = "cancelled", faults = 0
          PROVE  gateway[links'[req[h].row].razorpayLinkId].state # "open"
      BY <3>3, <1>5 DEF HandlersHoldRows
    <3> QED
      BY <3>1, <3>2, <3>3, <1>5 DEF HandlersHoldRows
  <2> QED
    BY <2>1, <2>2
<1>11. PayableIsListed'
  <2> SUFFICES ASSUME faults = 0, NEW k \in DOMAIN gateway, gateway[k].state = "open"
               PROVE  \/ \E r \in DOMAIN links' :
                           links'[r].razorpayLinkId = k /\ links'[r].status # "CANCELLED"
                      \/ \E p \in Request : req'[p].op = "insert" /\ req'[p].razorpayLinkId = k
    BY <1>1 DEF PayableIsListed
  <2>1. CASE k = m.razorpayLinkId
    BY <2>1, <1>5
  <2>2. CASE \E r \in DOMAIN links : links[r].razorpayLinkId = k /\ links[r].status # "CANCELLED"
    BY <2>2, <1>5
  <2>3. CASE \E p \in Request \ {q} : req[p].op = "insert" /\ req[p].razorpayLinkId = k
    BY <2>3, <1>6, <1>8
  <2> QED
    BY <2>1, <2>2, <2>3 DEF PayableIsListed, m
<1>12. OfferedIsNotCancelled'
  <2> SUFFICES ASSUME faults = 0, NEW r \in DOMAIN links', links'[r].status \in Live,
                      gateway[links'[r].razorpayLinkId].state = "cancelled", r \notin revived
               PROVE  \E p \in Request : req'[p].op = "cancelled" /\ req'[p].row = r
    BY <1>1 DEF OfferedIsNotCancelled
  <2>1. r # n
    BY <1>3, <1>5
  <2>2. r \in DOMAIN links /\ links[r] = links'[r]
    BY <2>1, <1>5
  <2>3. PICK p \in Request : req[p].op = "cancelled" /\ req[p].row = r
    BY <2>2 DEF OfferedIsNotCancelled
  <2> QED
    BY <2>3, <1>1, <1>6, <1>8 DEF m
<1> QED
  BY <1>7, <1>9, <1>10, <1>11, <1>12 DEF Rest

--------------------------------------------------------------------------------
(* The entry of a handler, one row's booking and money: what the other      *)
(* actions change.                                                          *)
LEMMA Send ==
  ASSUME IInv, NEW q \in Request, NEW b \in Booking, NEW amount \in 1..Total, SendLink(q, b, amount)
  PROVE  TypeOK' /\ Rest'
<1> DEFINE e == [op |-> "look", booking |-> b, amount |-> amount]
<1> USE DEF IInv
<1>1. /\ q \in Handler /\ req[q] = Idle /\ e \in InFlight /\ req' = [req EXCEPT ![q] = e]
      /\ q \notin LinkId
  BY LinksAssumption DEF SendLink, Handler, InFlight, LinkId
<1>2. UNCHANGED <<gateway, links, amountPaid, told, revived, desk, faults>>
  BY DEF SendLink
<1>3. TypeOK'
  BY <1>1, <1>2 DEF TypeOK
<1>4. faults \in Nat /\ req \in [Handler -> InFlight \cup {Idle}]
  BY DEF TypeOK
<1>5. /\ e.op = "look" /\ req[q].op = "idle"
      /\ faults' = faults /\ faults' >= faults
  BY <1>1, <1>2, <1>4 DEF Idle
<1> HIDE DEF e
<1>6. Rest'
  BY <1>1, <1>2, <1>4, <1>5, EntryStep
<1> QED
  BY <1>3, <1>6

LEMMA ReadLinks ==
  ASSUME IInv, NEW q \in Handler, ReadLiveLinks(q)
  PROVE  TypeOK' /\ Rest'
<1> DEFINE m == req[q]
           e == [op |-> "clear", booking |-> m.booking, amount |-> m.amount,
                 old |-> LiveRows(m.booking)]
<1> USE DEF IInv
<1>1. /\ m.op = "look" /\ req' = [req EXCEPT ![q] = e]
      /\ UNCHANGED <<gateway, links, amountPaid, told, revived, desk, faults>>
  BY DEF ReadLiveLinks
<1>2. /\ m.booking \in Booking /\ m.amount \in Nat \ {0} /\ q \notin LinkId
  BY <1>1, HandlerShape DEF HandlersHoldRows
<1>3. e.old \subseteq DOMAIN links /\ e.old \in SUBSET Nat
  BY RowTypes DEF LiveRows, RowsOf
<1>4. e \in InFlight
  BY <1>2, <1>3 DEF InFlight
<1>5. TypeOK'
  BY <1>1, <1>4 DEF TypeOK
<1>6. faults \in Nat /\ req \in [Handler -> InFlight \cup {Idle}]
  BY DEF TypeOK
<1>7. /\ e.op = "clear" /\ m.op \notin {"insert", "cancelled"}
      /\ faults' = faults /\ faults' >= faults
  BY <1>1, <1>6
<1> HIDE DEF e
<1>8. Rest'
  BY <1>1, <1>2, <1>3, <1>6, <1>7, EntryStep
<1> QED
  BY <1>5, <1>8

LEMMA Captured ==
  ASSUME IInv, NEW g \in DOMAIN gateway, HandlePaymentCaptured(g)
  PROVE  TypeOK' /\ Rest'
<1> USE DEF IInv
<1>1. g \in LinkId /\ g \in Handler /\ gateway[g] \in GatewayLink
  BY RowTypes DEF Handler
<1>2. PICK l \in Newest(gateway[g].booking) \cup {0} :
        req' = [req EXCEPT ![g] = [op |-> "capture", link |-> l]]
  BY DEF HandlePaymentCaptured
<1> DEFINE e == [op |-> "capture", link |-> l]
<1>3. l # 0 => l \in RowsOf(gateway[g].booking)
  BY DEF Newest
<1>4. l \in Nat
  BY <1>3, RowTypes DEF RowsOf
<1>5. /\ told' = told \cup {g} /\ UNCHANGED <<gateway, links, amountPaid, revived, desk, faults>>
  BY DEF HandlePaymentCaptured
<1>6. e \in InFlight
  BY <1>4 DEF InFlight
<1>7. TypeOK'
  BY <1>1, <1>2, <1>5, <1>6 DEF TypeOK
<1>8. faults \in Nat /\ req \in [Handler -> InFlight \cup {Idle}]
  BY DEF TypeOK
<1>9. req[g].op \notin {"insert", "cancelled"} /\ e.op = "capture" /\ e.link = l
  BY <1>1 DEF HandlersHoldRows
<1>10. req' = [req EXCEPT ![g] = e] /\ faults' = faults /\ faults' >= faults
  BY <1>2, <1>5, <1>8
<1> HIDE DEF e
<1>11. Rest'
  BY <1>1, <1>3, <1>5, <1>8, <1>9, <1>10, EntryStep
<1> QED
  BY <1>7, <1>11

LEMMA Abandoned ==
  ASSUME IInv, NEW h \in Handler, Abandon(h)
  PROVE  TypeOK' /\ Rest'
<1> USE DEF IInv
<1>1. /\ req' = [req EXCEPT ![h] = Idle] /\ faults' = faults + 1 /\ desk + faults < MaxExtra
      /\ UNCHANGED <<gateway, links, amountPaid, told, revived, desk>>
  BY DEF Abandon, HasRoom
<1>2. faults \in Nat /\ desk \in Nat /\ req \in [Handler -> InFlight \cup {Idle}]
  BY DEF TypeOK
<1>3. faults' \in Nat /\ faults' > 0 /\ faults' >= faults /\ desk + faults' <= MaxExtra
  BY <1>1, <1>2, LinksAssumption
<1>4. TypeOK'
  BY <1>1, <1>2, <1>3 DEF TypeOK
<1>5. Idle.op = "idle"
  BY DEF Idle
<1> QED
  BY <1>1, <1>2, <1>3, <1>4, <1>5, EntryStep

(* A payment is applied to a row, or to none: types, and what changes.      *)
LEMMA Apply ==
  ASSUME TypeOK, NEW b \in Booking, NEW amount \in Int, NEW l \in Nat,
         l # 0 => l \in DOMAIN links, ApplyPayment(b, amount, l)
  PROVE  /\ links' \in Seq(PaymentLink) /\ DOMAIN links' = DOMAIN links
         /\ amountPaid' \in [Booking -> Int] /\ Revive
         /\ \A k \in DOMAIN links :
              /\ links'[k].booking = links[k].booking
              /\ links'[k].razorpayLinkId = links[k].razorpayLinkId
              /\ links'[k].status = links[k].status
                 \/ (k = l /\ links'[k].status =
                       IF amountPaid'[b] >= Total THEN "PAID" ELSE "PARTIALLY_PAID")
<1>1. amountPaid' \in [Booking -> Int] /\ Revive
  BY DEF ApplyPayment, TypeOK
<1>2. CASE l = 0
  BY <1>1, <1>2 DEF ApplyPayment, TypeOK
<1>3. CASE l # 0
  <2> DEFINE st == IF amountPaid'[b] >= Total THEN "PAID" ELSE "PARTIALLY_PAID"
  <2>1. links' = [links EXCEPT ![l].status = st]
    BY <1>3 DEF ApplyPayment
  <2>2. st \in Live \cup {"PAID", "CANCELLED", "EXPIRED"}
    BY DEF Live
  <2>3. l \in DOMAIN links
    BY <1>3
  <2> HIDE DEF st
  <2>4. /\ links' \in Seq(PaymentLink) /\ DOMAIN links' = DOMAIN links
        /\ \A k \in DOMAIN links :
             /\ links'[k].booking = links[k].booking
             /\ links'[k].razorpayLinkId = links[k].razorpayLinkId
             /\ links'[k].status = IF k = l THEN st ELSE links[k].status
    BY <2>1, <2>2, <2>3, OneStatus
  <2> QED
    BY <1>1, <2>4 DEF st
<1> QED
  BY <1>2, <1>3

LEMMA Commit ==
  ASSUME IInv, NEW g \in Handler, CaptureCommit(g)
  PROVE  TypeOK' /\ Rest'
<1> USE DEF IInv
<1>1. /\ req[g].op = "capture" /\ req' = [req EXCEPT ![g] = Idle]
      /\ ApplyPayment(gateway[g].booking, gateway[g].amount, req[g].link)
      /\ UNCHANGED <<gateway, told, desk, faults>>
  BY DEF CaptureCommit
<1>2. /\ g \in DOMAIN gateway /\ req[g].link \in Nat
      /\ req[g].link # 0 => req[g].link \in DOMAIN links
  BY <1>1, HandlerShape DEF HandlersHoldRows, RowsOf
<1>3. gateway[g].booking \in Booking /\ gateway[g].amount \in Int
  BY <1>2, RowTypes DEF GatewayLink
<1>4. /\ links' \in Seq(PaymentLink) /\ DOMAIN links' = DOMAIN links
      /\ amountPaid' \in [Booking -> Int] /\ Revive
      /\ \A k \in DOMAIN links :
           /\ links'[k].booking = links[k].booking
           /\ links'[k].razorpayLinkId = links[k].razorpayLinkId
           /\ links'[k].status \in {links[k].status, "PAID", "PARTIALLY_PAID"}
  BY <1>1, <1>2, <1>3, Apply
<1>5. TypeOK'
  BY <1>1, <1>4 DEF TypeOK, Revive
<1>6. \A h \in Handler : req'[h] = req[h] \/ (req'[h] = Idle /\ req[h].op = "capture")
  BY <1>1 DEF TypeOK
<1>7. \A l \in DOMAIN links : links'[l].status \in Live =>
        ((l \in revived \/ links[l].status \notin Live) => l \in revived')
  BY <1>4 DEF Revive
<1> QED
  BY <1>1, <1>4, <1>5, <1>6, <1>7, StatusStep

(* Staff's payments and refunds. *)
LEMMA Desk ==
  ASSUME IInv, NEW b \in Booking, NEW amount \in Int,
         RecordPayment(b, amount) \/ SettleRefund(b, amount)
  PROVE  TypeOK' /\ Rest'
<1> USE DEF IInv
<1>1. /\ desk' = desk + 1 /\ desk + faults < MaxExtra
      /\ UNCHANGED <<gateway, req, told, faults>>
  BY DEF RecordPayment, SettleRefund, HasRoom
<1>2. links' = links /\ amountPaid' \in [Booking -> Int] /\ (revived' = revived \/ Revive)
  BY DEF RecordPayment, SettleRefund, ApplyPayment, TypeOK
<1>3. revived \subseteq DOMAIN links
  BY DEF TypeOK
<1>4. Revive => revived' \subseteq revived
  BY <1>2 DEF Revive
<1>5. \A l \in DOMAIN links : links'[l].status \in Live =>
        ((l \in revived \/ links[l].status \notin Live) => l \in revived')
  BY <1>2 DEF Revive
<1>6. desk' \in Nat /\ desk' + faults <= MaxExtra
  BY <1>1, LinksAssumption DEF TypeOK
<1>7. TypeOK'
  BY <1>1, <1>2, <1>3, <1>4, <1>6 DEF TypeOK
<1> QED
  BY <1>1, <1>2, <1>5, <1>7, StatusStep

(* The guest pays. *)
LEMMA AtGateway ==
  ASSUME IInv, NEW g \in DOMAIN gateway, PayAtGateway(g)
  PROVE  TypeOK' /\ Rest'
<1> USE DEF IInv
<1>1. /\ UNCHANGED <<links, amountPaid, req, told, revived, desk, faults>>
      /\ gateway' = [gateway EXCEPT ![g].state = "paid"]
  BY DEF PayAtGateway
<1>2. /\ gateway' \in Seq(GatewayLink) /\ Len(gateway') = Len(gateway)
      /\ DOMAIN gateway' = DOMAIN gateway
      /\ \A k \in DOMAIN gateway :
           /\ gateway'[k].booking = gateway[k].booking
           /\ gateway'[k].state \in {gateway[k].state, "paid"}
  BY <1>1, GatewayWrite
<1>3. TypeOK'
  BY <1>1, <1>2 DEF TypeOK
<1> QED
  BY <1>1, <1>2, <1>3, StatusStep

(* The daily task. *)
LEMMA Expire ==
  ASSUME IInv, NEW stale \in SUBSET DOMAIN links, ExpireStale(stale)
  PROVE  TypeOK' /\ Rest'
<1> DEFINE st == [l \in DOMAIN links |-> IF l \in stale THEN "EXPIRED" ELSE links[l].status]
<1> USE DEF IInv
<1>1. Revive /\ UNCHANGED <<gateway, amountPaid, req, told, desk, faults>>
  BY DEF ExpireStale
<1>2. \A l \in DOMAIN links :
        /\ links[l].status \in Live \cup {"PAID", "CANCELLED", "EXPIRED"}
        /\ [links[l] EXCEPT !.status = links[l].status] = links[l]
  BY RowTypes DEF PaymentLink
<1>3. st \in [DOMAIN links -> Live \cup {"PAID", "CANCELLED", "EXPIRED"}]
  BY <1>2
<1>4. links' = [l \in DOMAIN links |-> [links[l] EXCEPT !.status = st[l]]]
  BY <1>2 DEF ExpireStale
<1>5. \A l \in DOMAIN links : st[l] \in {links[l].status, "EXPIRED"}
  OBVIOUS
<1> HIDE DEF st
<1>6. /\ links' \in Seq(PaymentLink) /\ DOMAIN links' = DOMAIN links
      /\ \A l \in DOMAIN links :
           /\ links'[l].booking = links[l].booking
           /\ links'[l].razorpayLinkId = links[l].razorpayLinkId
           /\ links'[l].status = st[l]
  BY <1>3, <1>4, StatusWrite
<1>7. TypeOK'
  BY <1>1, <1>6 DEF TypeOK, Revive
<1>8. \A l \in DOMAIN links : links'[l].status \in Live =>
        ((l \in revived \/ links[l].status \notin Live) => l \in revived')
  BY <1>1 DEF Revive
<1> QED
  BY <1>1, <1>5, <1>6, <1>7, <1>8, StatusStep

--------------------------------------------------------------------------------
(* Theorem: what rows, the gateway and handlers hold agrees at all times;   *)
(* with no refusal and no failure, what the guest can pay has a row that    *)
(* was not cancelled, and a cancelled link the portal may offer is about to *)
(* be marked or was made live by a capture (createPaymentLinkForBooking).   *)
THEOREM LinksInvariance == Spec => []IInv
<1>1. Init => IInv
  <2> SUFFICES ASSUME Init PROVE IInv
    OBVIOUS
  <2>1. /\ gateway = <<>> /\ links = <<>> /\ DOMAIN gateway = {} /\ DOMAIN links = {}
        /\ Len(gateway) = 0 /\ \A h \in Handler : req[h].op = "idle"
    BY DEF Init, Idle
  <2>2. TypeOK
    BY <2>1, LinksAssumption DEF Init, TypeOK
  <2>3. RowsHaveOwnLinks /\ HandlersHoldRows /\ PayableIsListed /\ OfferedIsNotCancelled
    BY <2>1 DEF RowsHaveOwnLinks, HandlersHoldRows, PayableIsListed, OfferedIsNotCancelled, Handler
  <2> QED
    BY <2>2, <2>3 DEF IInv
<1>2. IInv /\ [Next]_vars => IInv'
  <2> SUFFICES ASSUME IInv, [Next]_vars PROVE TypeOK' /\ Rest'
    BY DEF IInv, Rest
  <2>1. ASSUME NEW q \in Request, Receive(q) PROVE TypeOK' /\ Rest'
    BY <2>1, Send DEF Receive
  <2>2. ASSUME NEW q \in Handler, NEW refused \in BOOLEAN, CancelPaymentLink(q, refused)
        PROVE  TypeOK' /\ Rest'
    BY <2>2, CancelAtGateway
  <2>3. ASSUME NEW h \in Handler, Proceed(h) PROVE TypeOK' /\ Rest'
    BY <2>3, <2>2, ReadLinks, MarkRow, Create, Insert, Commit DEF Proceed
  <2>4. ASSUME NEW h \in Handler, Abandon(h) PROVE TypeOK' /\ Rest'
    BY <2>4, Abandoned
  <2>5. ASSUME NEW g \in DOMAIN gateway, PayAtGateway(g) \/ HandlePaymentCaptured(g)
        PROVE  TypeOK' /\ Rest'
    BY <2>5, AtGateway, Captured
  <2>6. ASSUME NEW b \in Booking, NEW amount \in Int, RecordPayment(b, amount) \/ SettleRefund(b, amount)
        PROVE  TypeOK' /\ Rest'
    BY <2>6, Desk
  <2>7. ASSUME NEW stale \in SUBSET DOMAIN links, ExpireStale(stale) PROVE TypeOK' /\ Rest'
    BY <2>7, Expire
  <2>8. CASE UNCHANGED vars
    <3>1. TypeOK'
      BY <2>8 DEF vars, TypeOK, IInv
    <3>2. DOMAIN gateway' = DOMAIN gateway /\ UNCHANGED <<gateway, links, req, revived, faults>>
      BY <2>8 DEF vars
    <3> QED
      BY <3>1, <3>2, StatusStep
  <2>9. Request \subseteq Handler
    BY DEF Handler
  <2>10. 1..Total \subseteq Int /\ \A b \in Booking : 1..amountPaid[b] \subseteq Int
    BY LinksAssumption DEF IInv, TypeOK
  <2> QED
    BY <2>1, <2>2, <2>3, <2>4, <2>5, <2>6, <2>7, <2>8, <2>9, <2>10 DEF Next
<1> QED
  BY <1>1, <1>2, PTL DEF Spec

(* Theorem: a link that is over is offered again only by a capture that had *)
(* taken it for the newest (handlePaymentCaptured).                         *)
THEOREM OverUntilCaptureHolds == Spec => OverUntilCapture
<1> DEFINE Back(l) == links[l].status \notin Live /\ links'[l].status \in Live
           ByCapture(l) ==
             \E g \in DOMAIN gateway :
               /\ req[g].op = "capture" /\ req[g].link = l /\ req'[g] = Idle
               /\ gateway[g].booking = links[l].booking
               /\ amountPaid'[links[l].booking] < Total
           Over == \A l \in DOMAIN links : Back(l) => ByCapture(l)
<1>1. IInv /\ [Next]_vars => [Over]_vars
  <2> SUFFICES ASSUME IInv, [Next]_vars, NEW l \in DOMAIN links, Back(l)
               PROVE  ByCapture(l)
    OBVIOUS
  <2> USE DEF IInv
  <2>1. links' # links
    OBVIOUS
  <2>2. ASSUME NEW q \in Handler, CancelRow(q) PROVE FALSE
    <3> DEFINE r == req[q].row
    <3>1. r \in DOMAIN links /\ links' = [links EXCEPT ![r].status = "CANCELLED"]
      BY <2>2 DEF CancelRow, HandlersHoldRows
    <3>2. "CANCELLED" \in Live \cup {"PAID", "CANCELLED", "EXPIRED"} /\ "CANCELLED" \notin Live
      BY DEF Live
    <3> HIDE DEF r
    <3> QED
      BY <3>1, <3>2, OneStatus
  <2>3. ASSUME NEW q \in Handler, InsertRow(q) PROVE FALSE
    <3>1. PICK x : links' = Append(links, x)
      BY <2>3 DEF InsertRow
    <3> QED
      BY <3>1, RowTypes DEF TypeOK
  <2>4. ASSUME NEW g \in Handler, CaptureCommit(g) PROVE ByCapture(l)
    <3>1. /\ req[g].op = "capture" /\ req' = [req EXCEPT ![g] = Idle]
          /\ ApplyPayment(gateway[g].booking, gateway[g].amount, req[g].link)
      BY <2>4 DEF CaptureCommit
    <3>2. /\ g \in DOMAIN gateway /\ req[g].link \in Nat
          /\ req[g].link # 0 => req[g].link \in RowsOf(gateway[g].booking)
      BY <3>1, HandlerShape DEF HandlersHoldRows
    <3>3. /\ gateway[g].booking \in Booking /\ gateway[g].amount \in Int
          /\ req[g].link # 0 => req[g].link \in DOMAIN links
      BY <3>2, RowTypes DEF GatewayLink, RowsOf
    <3>4. /\ amountPaid' \in [Booking -> Int]
          /\ links'[l].status = links[l].status
             \/ (l = req[g].link /\ links'[l].status =
                   IF amountPaid'[gateway[g].booking] >= Total THEN "PAID" ELSE "PARTIALLY_PAID")
      BY <3>1, <3>2, <3>3, Apply
    <3>5. l = req[g].link /\ ~(amountPaid'[gateway[g].booking] >= Total)
      BY <3>4 DEF Live
    <3>6. l # 0
      BY RowTypes
    <3>7. gateway[g].booking = links[l].booking
      BY <3>2, <3>5, <3>6 DEF RowsOf
    <3>8. req'[g] = Idle
      BY <3>1 DEF TypeOK
    <3>9. amountPaid'[gateway[g].booking] < Total
      BY <3>3, <3>4, <3>5, LinksAssumption
    <3> QED
      BY <3>1, <3>2, <3>5, <3>7, <3>8, <3>9
  <2>5. ASSUME NEW stale \in SUBSET DOMAIN links, ExpireStale(stale) PROVE FALSE
    <3>1. links'[l] = IF l \in stale THEN [links[l] EXCEPT !.status = "EXPIRED"] ELSE links[l]
      BY <2>5 DEF ExpireStale
    <3>2. links[l] \in PaymentLink
      BY RowTypes
    <3>3. CASE l \in stale
      BY <3>1, <3>2, <3>3 DEF PaymentLink, Live
    <3> QED
      BY <3>1, <3>3
  <2> HIDE DEF ByCapture
  <2>6. \A h \in Handler : Proceed(h) =>
          \/ links' = links \/ CancelRow(h) \/ InsertRow(h) \/ CaptureCommit(h)
    BY DEF Proceed, ReadLiveLinks, CancelPaymentLink, CreateAtGateway
  <2>7. [Next]_vars =>
          \/ links' = links \/ \E stale \in SUBSET DOMAIN links : ExpireStale(stale)
          \/ \E h \in Handler : CancelRow(h) \/ InsertRow(h) \/ CaptureCommit(h)
    <3>1. \A q \in Request : Receive(q) \/ CancelPaymentLink(q, TRUE) => links' = links
      BY DEF Receive, SendLink, CancelPaymentLink
    <3>2. \A h \in Handler : Abandon(h) => links' = links
      BY DEF Abandon
    <3>3. \A g \in DOMAIN gateway :
            PayAtGateway(g) \/ HandlePaymentCaptured(g) => links' = links
      BY DEF PayAtGateway, HandlePaymentCaptured
    <3>4. \A b \in Booking, amount \in Int :
            RecordPayment(b, amount) \/ SettleRefund(b, amount) => links' = links
      BY DEF RecordPayment, SettleRefund, ApplyPayment
    <3>5. 1..Total \subseteq Int /\ \A b \in Booking : 1..amountPaid[b] \subseteq Int
      BY LinksAssumption DEF TypeOK
    <3> QED
      BY <2>6, <3>1, <3>2, <3>3, <3>4, <3>5 DEF Next, vars
  <2> QED
    BY <2>1, <2>2, <2>3, <2>4, <2>5, <2>7
<1> QED
  BY <1>1, LinksInvariance, PTL DEF Spec, OverUntilCapture

--------------------------------------------------------------------------------
(* The rows put down as paid and the captures done with are finitely many.  *)
FiniteCredits ==
  \A b \in Booking :
    /\ IsFiniteSet(Credited(b)) /\ Cardinality(Credited(b)) \in Nat
    /\ IsFiniteSet(Applied(b)) /\ Cardinality(Applied(b)) \in Nat
    /\ IsFiniteSet(Told(b)) /\ Cardinality(Applied(b)) <= Cardinality(Told(b))
ToldOfLinks == told \subseteq DOMAIN gateway

LEMMA CreditsAreFinite == TypeOK /\ ToldOfLinks => FiniteCredits
<1> SUFFICES ASSUME TypeOK, ToldOfLinks, NEW b \in Booking
             PROVE  /\ IsFiniteSet(Credited(b)) /\ Cardinality(Credited(b)) \in Nat
                    /\ IsFiniteSet(Applied(b)) /\ Cardinality(Applied(b)) \in Nat
                    /\ IsFiniteSet(Told(b)) /\ Cardinality(Applied(b)) <= Cardinality(Told(b))
  BY DEF FiniteCredits
<1>1. IsFiniteSet(DOMAIN links) /\ IsFiniteSet(DOMAIN gateway)
  BY RowTypes, FS_Interval
<1>2. Credited(b) \subseteq DOMAIN links /\ Told(b) \subseteq DOMAIN gateway
      /\ Applied(b) \subseteq Told(b)
  BY DEF Credited, RowsOf, Told, Applied, ToldOfLinks
<1>3. IsFiniteSet(Credited(b)) /\ IsFiniteSet(Told(b))
  BY <1>1, <1>2, FS_Subset
<1>4. IsFiniteSet(Applied(b)) /\ Cardinality(Applied(b)) <= Cardinality(Told(b))
  BY <1>2, <1>3, FS_Subset
<1> QED
  BY <1>3, <1>4, FS_CardinalityType

LEMMA CreditsAreFiniteNext == TypeOK' /\ ToldOfLinks' => FiniteCredits'
BY CreditsAreFinite, PTL

(* A step that puts no row down as paid and takes no capture up again. *)
LEMMA CreditsKept ==
  ASSUME TypeOK, TypeOK', CreditInv,
         \A l \in DOMAIN links' : links'[l].status \in {"PAID", "PARTIALLY_PAID"} =>
           /\ l \in DOMAIN links /\ links[l].booking = links'[l].booking
           /\ links[l].status \in {"PAID", "PARTIALLY_PAID"},
         told \subseteq told', told' \subseteq DOMAIN gateway',
         \A g \in DOMAIN gateway : gateway'[g].booking = gateway[g].booking,
         \A g \in LinkId : req'[g].op = "capture" =>
           g \in told' /\ (g \in told => req[g].op = "capture")
  PROVE  CreditInv'
<1> SUFFICES ASSUME NEW b \in Booking
             PROVE  Cardinality(Credited(b)') <= Cardinality(Applied(b)')
  BY DEF CreditInv
<1>1. Credited(b)' \subseteq Credited(b)
  BY DEF Credited, RowsOf
<1>2. told \subseteq LinkId /\ told \subseteq DOMAIN gateway
  BY DEF TypeOK, CreditInv
<1>3. Applied(b) \subseteq Applied(b)'
  BY <1>2 DEF Applied, Told
<1>4. /\ IsFiniteSet(Credited(b)) /\ Cardinality(Credited(b)) \in Nat
      /\ Cardinality(Applied(b)) \in Nat
  BY <1>2, CreditsAreFinite DEF FiniteCredits, ToldOfLinks
<1>5. /\ IsFiniteSet(Applied(b)') /\ Cardinality(Applied(b)') \in Nat
      /\ Cardinality(Credited(b)') \in Nat
  BY CreditsAreFiniteNext DEF FiniteCredits, ToldOfLinks
<1>6. Cardinality(Credited(b)') <= Cardinality(Credited(b))
  BY <1>1, <1>4, FS_Subset
<1>7. Cardinality(Applied(b)) <= Cardinality(Applied(b)')
  BY <1>3, <1>5, FS_Subset
<1>8. Cardinality(Credited(b)) <= Cardinality(Applied(b))
  BY DEF CreditInv
<1> QED
  BY <1>4, <1>5, <1>6, <1>7, <1>8

(* A capture done with puts at most its own link down as paid. *)
LEMMA CommitCredits ==
  ASSUME IInv, TypeOK', CreditInv, NEW g \in LinkId, CaptureCommit(g)
  PROVE  CreditInv'
<1> DEFINE b == gateway[g].booking
           l == req[g].link
<1>1. /\ req[g].op = "capture" /\ req' = [req EXCEPT ![g] = Idle]
      /\ ApplyPayment(b, gateway[g].amount, l)
      /\ UNCHANGED <<gateway, told, desk, faults>>
  BY DEF CaptureCommit
<1>2. g \in Handler /\ req \in [Handler -> InFlight \cup {Idle}] /\ LinkId \subseteq Handler
  BY DEF Handler, IInv, TypeOK
<1>3. g \in told /\ told \subseteq DOMAIN gateway /\ g \in DOMAIN gateway
  BY <1>1 DEF CreditInv
<1>4. l \in Nat /\ (l # 0 => l \in RowsOf(b))
  BY <1>1, <1>2, HandlerShape DEF HandlersHoldRows, IInv
<1>5. b \in Booking /\ gateway[g].amount \in Int /\ (l # 0 => l \in DOMAIN links)
  BY <1>3, <1>4, RowTypes DEF GatewayLink, RowsOf, IInv
<1>6. /\ DOMAIN links' = DOMAIN links
      /\ \A k \in DOMAIN links :
           /\ links'[k].booking = links[k].booking
           /\ links'[k].status = links[k].status \/ k = l
  <2> HIDE DEF b, l
  <2> QED
    BY <1>1, <1>4, <1>5, Apply DEF IInv
<1>7. /\ req'[g].op = "idle"
      /\ \A k \in LinkId \ {g} : req'[k] = req[k]
  BY <1>1, <1>2 DEF Idle
<1>8. \A k \in LinkId : req'[k].op = "capture" => k \in told'
  BY <1>1, <1>7 DEF CreditInv
<1> SUFFICES ASSUME NEW c \in Booking
             PROVE  Cardinality(Credited(c)') <= Cardinality(Applied(c)')
  BY <1>1, <1>3, <1>8 DEF CreditInv
<1>9. Cardinality(Credited(c)) <= Cardinality(Applied(c))
  BY DEF CreditInv
<1>10. /\ IsFiniteSet(Credited(c)) /\ Cardinality(Credited(c)) \in Nat
       /\ IsFiniteSet(Applied(c)) /\ Cardinality(Applied(c)) \in Nat
  BY <1>3, CreditsAreFinite DEF IInv, FiniteCredits, ToldOfLinks
<1>11. told' \subseteq DOMAIN gateway'
  BY <1>1, <1>3
<1>12. /\ IsFiniteSet(Credited(c)') /\ Cardinality(Credited(c)') \in Nat
       /\ IsFiniteSet(Applied(c)') /\ Cardinality(Applied(c)') \in Nat
  BY <1>11, CreditsAreFiniteNext DEF FiniteCredits, ToldOfLinks
<1>13. CASE c = b
  <2>1. Credited(c)' \subseteq Credited(c) \cup {l}
    BY <1>6 DEF Credited, RowsOf
  <2>2. Applied(c)' = Applied(c) \cup {g} /\ g \notin Applied(c)
    <3>1. Told(c)' = Told(c) /\ g \in Told(c) /\ Told(c) \subseteq LinkId
      BY <1>1, <1>3, <1>13 DEF Told, IInv, TypeOK
    <3> QED
      BY <1>1, <1>7, <3>1 DEF Applied
  <2>3. /\ IsFiniteSet(Credited(c) \cup {l})
        /\ Cardinality(Credited(c) \cup {l}) \in {Cardinality(Credited(c)), Cardinality(Credited(c)) + 1}
    BY <1>10, FS_AddElement
  <2>4. Cardinality(Credited(c)') <= Cardinality(Credited(c) \cup {l})
    BY <2>1, <2>3, FS_Subset
  <2>5. Cardinality(Applied(c)') = Cardinality(Applied(c)) + 1
    BY <1>10, <2>2, FS_AddElement
  <2> QED
    BY <1>9, <1>10, <1>12, <2>3, <2>4, <2>5
<1>14. CASE c # b
  <2>1. Credited(c)' \subseteq Credited(c)
    <3>1. \A k \in DOMAIN links : links[k].booking = c => k # l
      <4>1. 0 \notin DOMAIN links
        BY RowTypes DEF IInv
      <4> QED
        BY <1>4, <1>14, <4>1 DEF RowsOf
    <3> QED
      BY <1>6, <3>1 DEF Credited, RowsOf
  <2>2. Applied(c) \subseteq Applied(c)'
    <3>1. Told(c)' = Told(c) /\ Told(c) \subseteq LinkId
      BY <1>1 DEF Told, IInv, TypeOK
    <3> QED
      BY <1>7, <3>1 DEF Applied
  <2>3. Cardinality(Credited(c)') <= Cardinality(Credited(c))
    BY <1>10, <2>1, FS_Subset
  <2>4. Cardinality(Applied(c)) <= Cardinality(Applied(c)')
    BY <1>12, <2>2, FS_Subset
  <2> QED
    BY <1>9, <1>10, <1>12, <2>3, <2>4
<1> QED
  BY <1>13, <1>14

(* Theorem: no more links of a booking count as paid than the gateway       *)
(* captured payments, in every interleaving of captures, new links, expiry  *)
(* and failures (handlePaymentCaptured, applyPayment).                      *)
THEOREM CreditsAreCapturesHolds == Spec => []CreditsAreCaptures
<1>1. Init => CreditInv
  <2> SUFFICES ASSUME Init PROVE CreditInv
    OBVIOUS
  <2>1. told = {} /\ links = <<>> /\ DOMAIN links = {}
        /\ \A h \in LinkId : req[h].op # "capture"
    BY DEF Init, Idle, Handler
  <2>2. \A b \in Booking : Credited(b) = {} /\ Applied(b) = {}
    BY <2>1 DEF Credited, RowsOf, Applied, Told
  <2>3. \A b \in Booking : Cardinality(Credited(b)) = 0 /\ Cardinality(Applied(b)) = 0
    BY <2>2, FS_EmptySet
  <2>4. \A b \in Booking : Cardinality(Credited(b)) <= Cardinality(Applied(b))
    BY <2>3
  <2> QED
    BY <2>1, <2>4 DEF CreditInv
<1>2. IInv /\ IInv' /\ CreditInv /\ [Next]_vars => CreditInv'
  <2> SUFFICES ASSUME IInv, IInv', CreditInv, [Next]_vars PROVE CreditInv'
    OBVIOUS
  <2>1. /\ TypeOK /\ TypeOK' /\ told \subseteq DOMAIN gateway
        /\ req \in [Handler -> InFlight \cup {Idle}] /\ LinkId \subseteq Handler
        /\ \A g \in LinkId : req[g].op \in {"idle", "capture"}
    BY DEF IInv, TypeOK, CreditInv, Handler, HandlersHoldRows
  <2> DEFINE SameBookings ==
               /\ DOMAIN gateway \subseteq DOMAIN gateway'
               /\ \A g \in DOMAIN gateway : gateway'[g].booking = gateway[g].booking
             NoNewCredit ==
               \A l \in DOMAIN links' : links'[l].status \in {"PAID", "PARTIALLY_PAID"} =>
                 /\ l \in DOMAIN links /\ links[l].booking = links'[l].booking
                 /\ links[l].status \in {"PAID", "PARTIALLY_PAID"}
             NoNewCapture ==
               /\ told' = told
               /\ \A g \in LinkId : req'[g].op = "capture" => req[g].op = "capture"
  <2>2. SameBookings /\ NoNewCredit /\ NoNewCapture => CreditInv'
    <3> SUFFICES ASSUME SameBookings, NoNewCredit, NoNewCapture PROVE CreditInv'
      OBVIOUS
    <3>1. \A g \in LinkId : req'[g].op = "capture" =>
            g \in told' /\ (g \in told => req[g].op = "capture")
      BY DEF CreditInv
    <3> QED
      BY <2>1, <3>1, CreditsKept
  <2>3. links' = links => NoNewCredit
    OBVIOUS
  <2>4. gateway' = gateway => SameBookings
    OBVIOUS
  <2>5. req' = req /\ told' = told => NoNewCapture
    OBVIOUS
  <2>6. ASSUME NEW h \in Handler, NEW m, m.op # "capture", req' = [req EXCEPT ![h] = m], told' = told
        PROVE  NoNewCapture
    BY <2>1, <2>6
  <2>7. ASSUME NEW q \in Request, Receive(q) PROVE CreditInv'
    <3>1. q \in Handler /\ UNCHANGED <<gateway, links, told>>
      BY <2>7 DEF Handler, Receive, SendLink
    <3>2. PICK b \in Booking, amount \in 1..Total :
            req' = [req EXCEPT ![q] = [op |-> "look", booking |-> b, amount |-> amount]]
      BY <2>7 DEF Receive, SendLink
    <3>3. [op |-> "look", booking |-> b, amount |-> amount].op # "capture"
      OBVIOUS
    <3>4. NoNewCapture
      BY <2>6, <3>1, <3>2, <3>3
    <3> QED
      BY <2>2, <2>3, <2>4, <3>1, <3>4
  <2>8. ASSUME NEW q \in Handler, ReadLiveLinks(q) PROVE CreditInv'
    <3>1. UNCHANGED <<gateway, links, told>>
      BY <2>8 DEF ReadLiveLinks
    <3>2. NoNewCapture
      BY <2>1, <2>8 DEF ReadLiveLinks
    <3> QED
      BY <2>2, <2>3, <2>4, <3>1, <3>2
  <2>9. ASSUME NEW q \in Handler, NEW refused \in BOOLEAN, CancelPaymentLink(q, refused)
        PROVE  CreditInv'
    <3> DEFINE g == links[CHOOSE k \in req[q].old : TRUE].razorpayLinkId
    <3>1. UNCHANGED <<links, told>>
          /\ gateway' \in {gateway, [gateway EXCEPT ![g].state = "cancelled"]}
      BY <2>9 DEF CancelPaymentLink
    <3>2. NoNewCapture
      BY <2>1, <2>9 DEF CancelPaymentLink
    <3> HIDE DEF g
    <3>3. SameBookings
      BY <3>1, RowTypes DEF IInv, GatewayLink
    <3> QED
      BY <2>2, <2>3, <3>1, <3>2, <3>3
  <2>10. ASSUME NEW q \in Handler, CancelRow(q) PROVE CreditInv'
    <3> DEFINE r == req[q].row
    <3>1. r \in DOMAIN links /\ links' = [links EXCEPT ![r].status = "CANCELLED"]
          /\ gateway' = gateway
      BY <2>10 DEF CancelRow, HandlersHoldRows, IInv
    <3>2. "CANCELLED" \in Live \cup {"PAID", "CANCELLED", "EXPIRED"}
      OBVIOUS
    <3>3. NoNewCapture
      BY <2>1, <2>10 DEF CancelRow
    <3> HIDE DEF r
    <3>4. /\ DOMAIN links' = DOMAIN links
          /\ \A k \in DOMAIN links :
               /\ links'[k].booking = links[k].booking
               /\ links'[k].status = IF k = r THEN "CANCELLED" ELSE links[k].status
      BY <2>1, <3>1, <3>2, OneStatus
    <3>5. NoNewCredit
      BY <3>4
    <3> QED
      BY <2>2, <2>4, <3>1, <3>3, <3>5
  <2>11. ASSUME NEW q \in Handler, CreateAtGateway(q) PROVE CreditInv'
    <3>1. UNCHANGED <<links, told>> /\ \E x : gateway' = Append(gateway, x)
      BY <2>11 DEF CreateAtGateway
    <3>2. gateway \in Seq(GatewayLink) /\ DOMAIN gateway = 1..Len(gateway)
      BY RowTypes DEF IInv, TypeOK
    <3>3. SameBookings
      BY <3>1, <3>2
    <3>4. NoNewCapture
      BY <2>1, <2>11 DEF CreateAtGateway
    <3> QED
      BY <2>2, <2>3, <3>1, <3>3, <3>4
  <2>12. ASSUME NEW q \in Handler, InsertRow(q) PROVE CreditInv'
    <3>1. UNCHANGED <<gateway, told>>
      BY <2>12 DEF InsertRow
    <3>2. PICK x : x.status = "CREATED" /\ links' = Append(links, x)
      BY <2>12 DEF InsertRow
    <3>3. links \in Seq(PaymentLink) /\ DOMAIN links = 1..Len(links) /\ Len(links) \in Nat
      BY RowTypes DEF IInv, TypeOK
    <3>4. DOMAIN links' = DOMAIN links \cup {Len(links) + 1} /\ links'[Len(links) + 1] = x
          /\ \A l \in DOMAIN links : links'[l] = links[l]
      BY <3>2, <3>3
    <3>5. NoNewCredit
      BY <3>2, <3>4
    <3>6. NoNewCapture
      BY <2>1, <2>12 DEF InsertRow, Idle
    <3> QED
      BY <2>2, <2>4, <3>1, <3>5, <3>6
  <2>13. ASSUME NEW g \in Handler, CaptureCommit(g) PROVE CreditInv'
    BY <2>1, <2>13, CommitCredits DEF CaptureCommit
  <2>14. ASSUME NEW h \in Handler, Proceed(h) PROVE CreditInv'
    BY <2>14, <2>8, <2>9, <2>10, <2>11, <2>12, <2>13 DEF Proceed
  <2>15. ASSUME NEW h \in Handler, Abandon(h) PROVE CreditInv'
    <3>1. UNCHANGED <<gateway, links, told>> /\ NoNewCapture
      BY <2>1, <2>15 DEF Abandon, Idle
    <3> QED
      BY <2>2, <2>3, <2>4, <3>1
  <2>16. ASSUME NEW g \in DOMAIN gateway, PayAtGateway(g) PROVE CreditInv'
    <3>1. UNCHANGED <<links, req, told>>
      BY <2>16 DEF PayAtGateway
    <3>2. SameBookings
      BY <2>16, RowTypes DEF PayAtGateway, IInv, GatewayLink
    <3> QED
      BY <2>2, <2>3, <2>5, <3>1, <3>2
  <2>17. ASSUME NEW g \in DOMAIN gateway, HandlePaymentCaptured(g) PROVE CreditInv'
    <3>1. g \notin told /\ told' = told \cup {g} /\ UNCHANGED <<gateway, links>>
      BY <2>17 DEF HandlePaymentCaptured
    <3>2. \A k \in LinkId \ {g} : req'[k] = req[k]
      BY <2>1, <2>17 DEF HandlePaymentCaptured
    <3>3. \A k \in LinkId : req'[k].op = "capture" =>
            k \in told' /\ (k \in told => req[k].op = "capture")
      BY <3>1, <3>2 DEF CreditInv
    <3> QED
      BY <2>1, <3>1, <3>3, CreditsKept
  <2>18. ASSUME NEW b \in Booking, NEW amount \in Int,
                RecordPayment(b, amount) \/ SettleRefund(b, amount)
         PROVE  CreditInv'
    <3>1. UNCHANGED <<gateway, links, req, told>>
      BY <2>18 DEF RecordPayment, SettleRefund, ApplyPayment
    <3> QED
      BY <2>2, <2>3, <2>4, <2>5, <3>1
  <2>19. ASSUME NEW stale \in SUBSET DOMAIN links, ExpireStale(stale) PROVE CreditInv'
    <3>1. UNCHANGED <<gateway, req, told>>
          /\ links' = [l \in DOMAIN links |->
                 IF l \in stale THEN [links[l] EXCEPT !.status = "EXPIRED"] ELSE links[l]]
      BY <2>19 DEF ExpireStale
    <3>2. \A l \in DOMAIN links : links[l] \in PaymentLink
      BY RowTypes DEF IInv
    <3>3. NoNewCredit
      BY <3>1, <3>2 DEF PaymentLink
    <3> QED
      BY <2>2, <2>4, <2>5, <3>1, <3>3
  <2>20. CASE UNCHANGED vars
    BY <2>2, <2>3, <2>4, <2>5, <2>20 DEF vars
  <2>21. Request \subseteq Handler /\ 1..Total \subseteq Int
         /\ \A b \in Booking : 1..amountPaid[b] \subseteq Int
    BY LinksAssumption DEF Handler, IInv, TypeOK
  <2> QED
    BY <2>7, <2>9, <2>14, <2>15, <2>16, <2>17, <2>18, <2>19, <2>20, <2>21 DEF Next
<1>3. IInv /\ CreditInv => CreditsAreCaptures
  <2> SUFFICES ASSUME IInv, CreditInv, NEW b \in Booking
               PROVE  Cardinality(Credited(b)) <= Cardinality(Told(b))
    BY DEF CreditsAreCaptures
  <2>1. /\ Cardinality(Credited(b)) \in Nat /\ Cardinality(Applied(b)) \in Nat
        /\ IsFiniteSet(Told(b)) /\ Cardinality(Applied(b)) <= Cardinality(Told(b))
    BY CreditsAreFinite DEF IInv, CreditInv, FiniteCredits, ToldOfLinks
  <2>2. Cardinality(Told(b)) \in Nat
    BY <2>1, FS_CardinalityType
  <2> QED
    BY <2>1, <2>2 DEF CreditInv
<1> QED
  BY <1>1, <1>2, <1>3, LinksInvariance, PTL DEF Spec
================================================================================
