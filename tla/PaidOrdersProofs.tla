-------------------------- MODULE PaidOrdersProofs --------------------------
(***************************************************************************)
(* Payment orders for any number of orders, refund calls and faults.       *)
(*                                                                         *)
(* A grant acts on an answer that was given before the row changed.  That  *)
(* it is paid for needs that what was read of Telegram or of CryptoBot is  *)
(* still true when it is handled, and that a polled reference is still the *)
(* reference of the row.  That a refund returns the money needs the intent *)
(* that every refund call left on its row.                                 *)
(***************************************************************************)
EXTENDS PaidOrders, FiniteSetTheorems, TLAPS

(* What the status of a row says of its reference and of the remote call. *)
RowInv ==
  \A o \in Crypto :
    /\ order[o].status \in Unresolved \union {None} => order[o].ref = None
    /\ order[o].status = None => maker[o] = "idle"
    /\ order[o].status = None \/ maker[o] = "remote" => \A i \in Invoices : invoice[o][i] = None

(* What was read of a service and is not yet handled is still true of it:   *)
(* money that came in stays, an invoice that exists never disappears, and   *)
(* a reference that was polled is the row's.                                *)
AnswerInv ==
  /\ \A o \in mailbox \union bot.batch : charge[o] # "open"
  /\ \A o \in DOMAIN poll.answers : poll.at = "poll" =>
       /\ order[o].ref # None
       /\ poll.answers[o] = "paid" => invoice[o][order[o].ref] = "paid"
  /\ \A o \in DOMAIN poll.answers, i \in Invoices : poll.at = "reconcile" =>
       /\ poll.answers[o][i] = "paid" => invoice[o][i] = "paid"
       /\ poll.answers[o][i] # None => invoice[o][i] # None
  /\ \A o \in Crypto, i \in Invoices : <<o, i>> \in cancel => invoice[o][i] # None

(* A refund call that sent, or will send, the money back has its intent. *)
RefundInv ==
  \A f \in Refunders :
    /\ refund[f].at # "idle" => refund[f].order \in Stars
    /\ refund[f].at \in {"send", "release"} => order[refund[f].order].status \in {"refund_pending", "refunded"}
    /\ refund[f].at = "finalize" => charge[refund[f].order] = "returned"

IInv == TypeOK /\ GrantIsPaidFor /\ RefundReturnsMoney /\ RowInv /\ AnswerInv /\ RefundInv
-----------------------------------------------------------------------------

(* The row of o is rewritten, and no other. *)
Rewritten(o) == order' \in [Orders -> OrderRows] /\ \A p \in Orders : p # o => order'[p] = order[p]

(* No name of the model is None. *)
LEMMA NoneIsNoName ==
  /\ \A s \in Statuses : s # None
  /\ None \notin {"pending", "failed", "expired", "refunded", "manual_review", "invoice_creating", "recoverable",
                  "paid", "refund_pending", "active", "terminal", 1, 2}
BY NoneAssumption DEF Statuses, Unresolved, Granted, Invoices

(* An order is paid in Telegram or through CryptoBot. *)
LEMMA OrderIds ==
  /\ Stars \subseteq Telegram /\ Telegram \subseteq Orders /\ Crypto \subseteq Orders /\ Stars \subseteq Orders
  /\ \A o \in Orders : (o \in Telegram <=> o \notin Crypto)
BY OrdersAssumption DEF Orders

(* SetStatus writes a status and nothing else. *)
LEMMA StatusStep ==
  ASSUME TypeOK, NEW o \in Orders, NEW s \in Statuses, SetStatus(o, s)
  PROVE  Rewritten(o) /\ order'[o].status = s /\ order'[o].ref = order[o].ref
  <1> DEFINE r == [order[o] EXCEPT !.status = s]
  <1>1. order \in [Orders -> OrderRows] /\ order[o] \in OrderRows
    BY DEF TypeOK
  <1>2. r \in OrderRows /\ r.status = s /\ r.ref = order[o].ref
    BY <1>1 DEF OrderRows
  <1>3. order' = [order EXCEPT ![o] = r]
    BY <1>1 DEF SetStatus
  <1> HIDE DEF r
  <1> QED
    BY <1>1, <1>2, <1>3 DEF Rewritten

(* A grant pays the order and adds one unit to the quota. *)
LEMMA GrantStep ==
  ASSUME TypeOK, NEW o \in Orders, NEW row \in OrderRows, GrantTo(o, row)
  PROVE  /\ Rewritten(o) /\ order'[o].status = "paid" /\ order'[o].ref = row.ref
         /\ client' \in Clients /\ client'.volume = client.volume + 1 /\ revoked' = revoked
         /\ order'[o].window = client.up /\ client'.total = client.total + client.up
  <1>1. client \in Clients /\ order \in [Orders -> OrderRows]
    BY DEF TypeOK
  <1>2. client.up \in Nat /\ client.volume \in Nat /\ client.total \in Nat
    BY <1>1 DEF Clients
  <1>3. [row EXCEPT !.status = "paid", !.window = client.up] \in OrderRows
    BY <1>2 DEF OrderRows, Statuses, Granted
  <1>4. /\ [row EXCEPT !.status = "paid", !.window = client.up].status = "paid"
        /\ [row EXCEPT !.status = "paid", !.window = client.up].ref = row.ref
        /\ [row EXCEPT !.status = "paid", !.window = client.up].window = client.up
    BY DEF OrderRows
  <1>5. Rewritten(o) /\ order'[o].status = "paid" /\ order'[o].ref = row.ref /\ order'[o].window = client.up
    BY <1>1, <1>3, <1>4 DEF GrantTo, Rewritten
  <1>6. /\ client' \in Clients /\ client'.volume = client.volume + 1 /\ revoked' = revoked
        /\ client'.total = client.total + client.up
    BY <1>2 DEF GrantTo, Clients
  <1> QED
    BY <1>5, <1>6

(* A confirmation pays a pending order or does nothing. *)
LEMMA ApplyStep ==
  ASSUME TypeOK, NEW o \in Orders, ApplyPaidOrder(o)
  PROVE  \/ UNCHANGED rows
         \/ /\ order[o].status = "pending" /\ Rewritten(o)
            /\ order'[o].status = "paid" /\ order'[o].ref = order[o].ref
            /\ client' \in Clients /\ client'.volume = client.volume + 1 /\ revoked' = revoked
            /\ order'[o].window = client.up /\ client'.total = client.total + client.up
  <1>1. order[o] \in OrderRows
    BY DEF TypeOK
  <1>2. CASE order[o].status = "pending"
    BY <1>1, <1>2, GrantStep DEF ApplyPaidOrder
  <1>3. CASE order[o].status # "pending"
    BY <1>3 DEF ApplyPaidOrder
  <1> QED
    BY <1>2, <1>3

(* A refund returns at most one unit. *)
LEMMA RefundStep ==
  ASSUME TypeOK, NEW o \in Orders, NEW revoke \in BOOLEAN, FinalizeRefund(o, revoke)
  PROVE  /\ Rewritten(o) /\ order'[o].status = "refunded" /\ order'[o].ref = order[o].ref
         /\ client' \in Clients /\ client'.volume \in {client.volume, client.volume - 1} /\ revoked' \subseteq Orders
         /\ order'[o].window = order[o].window
         /\ revoke => /\ revoked' = revoked \union {o} /\ client'.volume = Monus(client.volume, 1)
                      /\ client'.total = Monus(client.total, order[o].window)
         /\ ~revoke => UNCHANGED <<client, revoked>>
  <1>1. client \in Clients /\ order \in [Orders -> OrderRows] /\ revoked \subseteq Orders
    BY DEF TypeOK
  <1>2. client.up \in Nat /\ client.volume \in Nat /\ client.total \in Nat /\ order[o].window \in Nat
    BY <1>1 DEF Clients, OrderRows
  <1>3. /\ Rewritten(o) /\ order'[o].status = "refunded" /\ order'[o].ref = order[o].ref
        /\ order'[o].window = order[o].window
    BY <1>1 DEF FinalizeRefund, Rewritten, OrderRows, Statuses
  <1>4. CASE revoke
    <2>1. RevokeFrom(o)
      BY <1>4 DEF FinalizeRefund
    <2>2. /\ Monus(client.volume, 1) \in Nat /\ Monus(client.volume, 1) \in {client.volume, client.volume - 1}
          /\ Monus(client.total, order[o].window) \in Nat
      BY <1>2 DEF Monus
    <2>3. /\ client' \in Clients /\ client'.volume = Monus(client.volume, 1) /\ revoked' \subseteq Orders
          /\ client'.total = Monus(client.total, order[o].window) /\ revoked' = revoked \union {o}
      BY <1>1, <1>2, <2>1, <2>2 DEF RevokeFrom, Clients
    <2> QED
      BY <1>3, <1>4, <2>2, <2>3
  <1>5. CASE ~revoke
    BY <1>1, <1>3, <1>5 DEF FinalizeRefund
  <1> QED
    BY <1>4, <1>5

(* A claim records the intent and nothing that was paid. *)
LEMMA ClaimStep ==
  ASSUME TypeOK, NEW f \in Refunders, NEW o \in Stars, NEW revoke \in BOOLEAN, ClaimStarsRefund(f, o, revoke)
  PROVE  order[o].status \in {"paid", "refund_pending"} /\ Rewritten(o) /\ order'[o].status = "refund_pending"
         /\ order'[o].window = order[o].window
  <1> DEFINE claim == [order[o] EXCEPT !.status = "refund_pending", !.claim = f]
  <1> DEFINE fresh == [claim EXCEPT !.revoke = revoke]
  <1>1. order \in [Orders -> OrderRows] /\ order[o] \in OrderRows /\ o \in Orders
    BY OrderIds DEF TypeOK
  <1>2. claim \in OrderRows /\ claim.status = "refund_pending" /\ claim.window = order[o].window
    BY <1>1 DEF OrderRows, Statuses, Granted
  <1>3. fresh \in OrderRows /\ fresh.status = "refund_pending" /\ fresh.window = order[o].window
    BY <1>1 DEF OrderRows, Statuses, Granted
  <1>4. order[o].status \in {"paid", "refund_pending"} /\ \E r \in {claim, fresh} : order' = [order EXCEPT ![o] = r]
    BY DEF ClaimStarsRefund
  <1> HIDE DEF claim, fresh
  <1> QED
    BY <1>1, <1>2, <1>3, <1>4 DEF Rewritten

(* RecoverProviderOrder on a row that is still without a reference: it is   *)
(* closed or left for later, adopts an invoice, or adopts and grants one    *)
(* that was paid.                                                           *)
Recovered(o, found) ==
  /\ Rewritten(o)
  /\ \/ /\ order'[o].status \in {"recoverable", "expired", "manual_review"} /\ order'[o].ref = order[o].ref
        /\ UNCHANGED <<client, revoked, cancel>>
     \/ order'[o].status = "pending" /\ UNCHANGED <<client, revoked, cancel>>
     \/ /\ order'[o].status = "paid" /\ order'[o].ref \in Invoices /\ found[order'[o].ref] = "paid"
        /\ client' \in Clients /\ client'.volume = client.volume + 1 /\ revoked' = revoked
        /\ order'[o].window = client.up /\ client'.total = client.total + client.up
        /\ cancel' = cancel \union {<<o, j>> : j \in {i \in Invoices : found[i] = "active"}}

LEMMA RecoverStep ==
  ASSUME TypeOK, NEW o \in Crypto, NEW found, Recover(o, found)
  PROVE  UNCHANGED <<rows, cancel>> \/ (o \in ReconcileWork /\ Recovered(o, found))
  <1> USE OrderIds
  <1>1. CASE o \notin ReconcileWork
    BY <1>1 DEF Recover
  <1>2. ASSUME o \in ReconcileWork, NEW s \in {"recoverable", "expired", "manual_review"},
               SetStatus(o, s), UNCHANGED <<client, revoked, cancel>>
        PROVE  Recovered(o, found)
    BY <1>2, StatusStep DEF Recovered, Statuses, Unresolved
  <1>3. ASSUME o \in ReconcileWork, NEW i \in Invoices, Adopt(o, i, found)
        PROVE  Recovered(o, found)
    <2> DEFINE r == [order[o] EXCEPT !.status = "pending", !.ref = i]
    <2>1. order[o] \in OrderRows /\ order \in [Orders -> OrderRows]
      BY DEF TypeOK
    <2>2. r \in OrderRows /\ r.ref = i /\ r.status = "pending"
      BY <2>1 DEF OrderRows, Statuses
    <2>3. CASE found[i] = "paid"
      <3>1. GrantTo(o, r) /\ cancel' = cancel \union {<<o, j>> : j \in {k \in Invoices : found[k] = "active"}}
        BY <1>3, <2>3 DEF Adopt
      <3> HIDE DEF r
      <3> QED
        BY <2>2, <2>3, <3>1, GrantStep DEF Recovered
    <2>4. CASE found[i] # "paid"
      <3>1. order' = [order EXCEPT ![o] = r] /\ UNCHANGED <<client, revoked, cancel>>
        BY <1>3, <2>4 DEF Adopt
      <3> HIDE DEF r
      <3> QED
        BY <2>1, <2>2, <3>1 DEF Recovered, Rewritten
    <2> QED
      BY <2>3, <2>4
  <1>4. ASSUME o \in ReconcileWork
        PROVE  \/ \E s \in {"recoverable", "expired", "manual_review"} :
                    SetStatus(o, s) /\ UNCHANGED <<client, revoked, cancel>>
               \/ \E i \in Invoices : Adopt(o, i, found)
    BY <1>4, Zenon DEF Recover
  <1> QED
    BY <1>1, <1>2, <1>3, <1>4

(* Every step keeps the invariant. *)
LEMMA NextKeeps == IInv /\ Next => IInv'
  <1> SUFFICES ASSUME IInv, Next PROVE IInv'
    OBVIOUS
  <1> USE OrderIds, NoneIsNoName DEF IInv, Invoices, Unresolved, Granted, outside
  <1>a. DOMAIN poll.answers \subseteq Crypto /\ mailbox \subseteq Telegram /\ bot.batch \subseteq Telegram
    BY DEF TypeOK, Bots
  <1>b. /\ \A o \in Orders : order[o].ref \in Invoices \union {None}
        /\ \A o \in Telegram : charge[o] \in {"open", "charged", "returned"}
    BY DEF TypeOK, OrderRows, Charges
  <1>1. ASSUME NEW o \in Telegram, CreateTelegramOrder(o)
        PROVE  IInv'
    <2>1. order[o].status = None /\ \E s \in {"pending", "failed"} : SetStatus(o, s)
      BY <1>1 DEF CreateTelegramOrder, NextId
    <2>2. Rewritten(o) /\ order'[o].status \in {"pending", "failed"}
      BY <2>1, StatusStep DEF Statuses
    <2>3. /\ faults' \in Nat
          /\ UNCHANGED <<client, maker, invoice, charge, mailbox, bot, poll, cancel, refund, revoked, uses, crowded>>
      BY <1>1 DEF CreateTelegramOrder, rows, services, calls, Fault, NoFault, TypeOK
    <2>4. TypeOK'
      BY <2>2, <2>3 DEF TypeOK, Rewritten
    <2>5. GrantIsPaidFor'
      BY <1>b, <2>1, <2>2, <2>3 DEF GrantIsPaidFor, AnswerInv, RowInv, Rewritten
    <2>6. RefundReturnsMoney'
      BY <2>1, <2>2, <2>3 DEF RefundReturnsMoney, RefundInv, Rewritten
    <2>7. RowInv'
      BY <2>1, <2>2, <2>3 DEF RowInv, AnswerInv, Rewritten
    <2>8. AnswerInv'
      BY <1>a, <1>b, <2>1, <2>2, <2>3 DEF AnswerInv, RowInv, Rewritten
    <2>9. RefundInv'
      BY <2>1, <2>2, <2>3 DEF RefundInv, RefundReturnsMoney, Rewritten
    <2> QED
      BY <2>4, <2>5, <2>6, <2>7, <2>8, <2>9
  <1>2. ASSUME NEW o \in Telegram, PreCheckout(o)
        PROVE  IInv'
    <2>1. charge' \in [Telegram -> Charges]
      BY <1>2 DEF PreCheckout, TypeOK, Charges
    <2>2. /\ charge[o] = "open"
          /\ charge'[o] = "charged"
          /\ (\A p \in Telegram : p # o => charge'[p] = charge[p]) /\ mailbox' = mailbox \union {o}
      BY <1>2 DEF PreCheckout, TypeOK
    <2>3. UNCHANGED <<order, client, maker, invoice, bot, poll, cancel, refund, revoked, uses, crowded, faults>>
      BY <1>2 DEF PreCheckout, rows, calls
    <2>4. TypeOK'
      BY <2>1, <2>2, <2>3 DEF TypeOK
    <2>5. GrantIsPaidFor'
      BY <1>b, <2>1, <2>2, <2>3 DEF GrantIsPaidFor, AnswerInv, RowInv
    <2>6. RefundReturnsMoney'
      BY <2>1, <2>2, <2>3 DEF RefundReturnsMoney, RefundInv
    <2>7. RowInv'
      BY <2>3 DEF RowInv
    <2>8. AnswerInv'
      BY <1>a, <1>b, <2>1, <2>2, <2>3 DEF AnswerInv, RowInv
    <2>9. RefundInv'
      BY <2>1, <2>2, <2>3 DEF RefundInv, RefundReturnsMoney
    <2> QED
      BY <2>4, <2>5, <2>6, <2>7, <2>8, <2>9
  <1>3. ASSUME NEW o \in Crypto, CreateInvoiceIntent(o)
        PROVE  IInv'
    <2>1. order[o].status = None /\ SetStatus(o, "invoice_creating")
      BY <1>3 DEF CreateInvoiceIntent, NextId
    <2>2. Rewritten(o) /\ order'[o].status = "invoice_creating" /\ order'[o].ref = order[o].ref
      BY <2>1, StatusStep DEF Statuses
    <2>3. maker' \in [Crypto -> MakerSteps] /\ \A p \in Crypto : p # o => maker'[p] = maker[p]
      BY <1>3 DEF CreateInvoiceIntent, TypeOK, MakerSteps
    <2>4. UNCHANGED <<client, invoice, charge, mailbox, bot, poll, cancel, refund, revoked, uses, crowded, faults>>
      BY <1>3 DEF CreateInvoiceIntent, services
    <2>5. TypeOK'
      BY <2>2, <2>3, <2>4 DEF TypeOK, Rewritten
    <2>6. GrantIsPaidFor'
      BY <1>b, <2>1, <2>2, <2>4 DEF GrantIsPaidFor, AnswerInv, RowInv, Rewritten
    <2>7. RefundReturnsMoney'
      BY <2>1, <2>2, <2>4 DEF RefundReturnsMoney, RefundInv, Rewritten
    <2>8. RowInv'
      BY <2>1, <2>2, <2>3, <2>4 DEF RowInv, AnswerInv, Rewritten
    <2>9. AnswerInv'
      BY <1>a, <1>b, <2>1, <2>2, <2>4 DEF AnswerInv, RowInv, Rewritten
    <2>10. RefundInv'
      BY <2>1, <2>2, <2>4 DEF RefundInv, RefundReturnsMoney, Rewritten
    <2> QED
      BY <2>5, <2>6, <2>7, <2>8, <2>9, <2>10
  <1>4. ASSUME NEW o \in Crypto, CreateInvoice(o)
        PROVE  IInv'
    <2>1. /\ maker[o] = "remote"
          /\ maker' \in [Crypto -> MakerSteps]
          /\ maker'[o] # "remote" /\ maker'[o] # "idle"
          /\ \A p \in Crypto : p # o => maker'[p] = maker[p]
      BY <1>4 DEF CreateInvoice, TypeOK, MakerSteps
    <2>2. invoice' \in [Crypto -> [Invoices -> InvoiceStates]]
      <3>1. CASE invoice' = [invoice EXCEPT ![o][1] = "active"]
        BY <3>1 DEF TypeOK, InvoiceStates
      <3>2. ASSUME NEW created,
                   invoice' = [invoice EXCEPT ![o] = [i \in Invoices |-> IF i \in created THEN "active" ELSE None]]
            PROVE  invoice' \in [Crypto -> [Invoices -> InvoiceStates]]
        <4>1. [i \in Invoices |-> IF i \in created THEN "active" ELSE None] \in [Invoices -> InvoiceStates]
          BY DEF InvoiceStates
        <4> QED
          BY <3>2, <4>1 DEF TypeOK
      <3> QED
        BY <1>4, <3>1, <3>2 DEF CreateInvoice
    <2>3. \A p \in Crypto : p # o => invoice'[p] = invoice[p]
      BY <1>4 DEF CreateInvoice, TypeOK
    <2>4. /\ faults' \in Nat
          /\ UNCHANGED <<order, client, charge, mailbox, bot, poll, cancel, refund, revoked, uses, crowded>>
      BY <1>4 DEF CreateInvoice, rows, Fault, NoFault, TypeOK
    <2>5. TypeOK'
      BY <2>1, <2>2, <2>3, <2>4 DEF TypeOK
    <2>6. GrantIsPaidFor'
      BY <1>a, <1>b, <2>1, <2>2, <2>3, <2>4 DEF GrantIsPaidFor, AnswerInv, RowInv
    <2>7. RefundReturnsMoney'
      BY <2>4 DEF RefundReturnsMoney
    <2>8. RowInv'
      BY <2>1, <2>2, <2>3, <2>4 DEF RowInv, AnswerInv
    <2>9. AnswerInv'
      BY <1>a, <1>b, <2>1, <2>2, <2>3, <2>4 DEF AnswerInv, RowInv
    <2>10. RefundInv'
      BY <2>4 DEF RefundInv
    <2> QED
      BY <2>5, <2>6, <2>7, <2>8, <2>9, <2>10
  <1>5. ASSUME NEW o \in Crypto, SaveInvoiceResult(o)
        PROVE  IInv'
    <2>1. /\ maker[o] = "save"
          /\ maker' \in [Crypto -> MakerSteps]
          /\ maker'[o] # "remote" /\ \A p \in Crypto : p # o => maker'[p] = maker[p]
      BY <1>5 DEF SaveInvoiceResult, TypeOK, MakerSteps
    <2>2. order \in [Orders -> OrderRows] /\ order[o] \in OrderRows
      BY DEF TypeOK
    <2>3. \/ order' = order
          \/ /\ order[o].status \in {"pending", "invoice_creating"} /\ order[o].ref \in {None, 1}
             /\ Rewritten(o) /\ order'[o].status = "pending" /\ order'[o].ref = 1
      <3>1. CASE /\ order[o].status \in {"pending", "invoice_creating"} /\ order[o].ref \in {None, 1}
                 /\ order' = [order EXCEPT ![o].status = "pending", ![o].ref = 1]
        <4> DEFINE r == [order[o] EXCEPT !.status = "pending", !.ref = 1]
        <4>1. r \in OrderRows /\ r.status = "pending" /\ r.ref = 1
          BY <2>2 DEF OrderRows, Statuses
        <4>2. order' = [order EXCEPT ![o] = r]
          BY <2>2, <3>1
        <4> HIDE DEF r
        <4> QED
          BY <2>2, <3>1, <4>1, <4>2 DEF Rewritten
      <3> QED
        BY <1>5, <3>1 DEF SaveInvoiceResult
    <2>4. /\ faults' \in Nat
          /\ UNCHANGED <<client, invoice, charge, mailbox, bot, poll, cancel, refund, revoked, uses, crowded>>
      BY <1>5 DEF SaveInvoiceResult, services, Fault, NoFault, TypeOK
    <2>5. TypeOK'
      BY <2>1, <2>3, <2>4 DEF TypeOK, Rewritten
    <2>6. GrantIsPaidFor'
      BY <1>b, <2>3, <2>4 DEF GrantIsPaidFor, AnswerInv, RowInv, Rewritten
    <2>7. RefundReturnsMoney'
      BY <2>3, <2>4 DEF RefundReturnsMoney, RefundInv, Rewritten
    <2>8. RowInv'
      BY <2>1, <2>3, <2>4 DEF RowInv, AnswerInv, Rewritten
    <2>9. AnswerInv'
      BY <1>a, <1>b, <2>3, <2>4 DEF AnswerInv, RowInv, Rewritten
    <2>10. RefundInv'
      BY <2>3, <2>4 DEF RefundInv, RefundReturnsMoney, Rewritten
    <2> QED
      BY <2>5, <2>6, <2>7, <2>8, <2>9, <2>10
  <1>6. ASSUME NEW o \in Crypto, MarkInvoiceRecoverable(o)
        PROVE  IInv'
    <2>1. \/ order' = order
          \/ /\ order[o].status = "invoice_creating" /\ Rewritten(o)
             /\ order'[o].status = "recoverable" /\ order'[o].ref = order[o].ref
      BY <1>6, StatusStep DEF MarkInvoiceRecoverable, Statuses
    <2>2. /\ maker' \in [Crypto -> MakerSteps] /\ maker'[o] = "idle"
          /\ \A p \in Crypto : p # o => maker'[p] = maker[p]
      BY <1>6 DEF MarkInvoiceRecoverable, TypeOK, MakerSteps
    <2>3. UNCHANGED <<client, invoice, charge, mailbox, bot, poll, cancel, refund, revoked, uses, crowded, faults>>
      BY <1>6 DEF MarkInvoiceRecoverable, services
    <2>4. TypeOK'
      BY <2>1, <2>2, <2>3 DEF TypeOK, Rewritten
    <2>5. GrantIsPaidFor'
      BY <1>b, <2>1, <2>3 DEF GrantIsPaidFor, AnswerInv, RowInv, Rewritten
    <2>6. RefundReturnsMoney'
      BY <2>1, <2>3 DEF RefundReturnsMoney, RefundInv, Rewritten
    <2>7. RowInv'
      BY <2>1, <2>2, <2>3 DEF RowInv, AnswerInv, Rewritten
    <2>8. AnswerInv'
      BY <1>a, <1>b, <2>1, <2>3 DEF AnswerInv, RowInv, Rewritten
    <2>9. RefundInv'
      BY <2>1, <2>3 DEF RefundInv, RefundReturnsMoney, Rewritten
    <2> QED
      BY <2>4, <2>5, <2>6, <2>7, <2>8, <2>9
  <1>7. ASSUME NEW o \in Crypto, NEW i \in Invoices, InvoiceIsPaid(o, i)
        PROVE  IInv'
    <2>1. invoice[o][i] = "active" /\ invoice' \in [Crypto -> [Invoices -> InvoiceStates]]
      BY <1>7 DEF InvoiceIsPaid, TypeOK, InvoiceStates
    <2>2. \A p \in Crypto, j \in Invoices : invoice'[p][j] = IF p = o /\ j = i THEN "paid" ELSE invoice[p][j]
      BY <1>7 DEF InvoiceIsPaid, TypeOK
    <2>3. /\ UNCHANGED <<order, client, maker, charge, mailbox, bot, poll, cancel, refund, revoked, uses, crowded, faults>>
      BY <1>7 DEF InvoiceIsPaid, rows, calls
    <2>4. TypeOK'
      BY <2>1, <2>2, <2>3 DEF TypeOK
    <2>5. GrantIsPaidFor'
      BY <1>b, <2>1, <2>2, <2>3 DEF GrantIsPaidFor, AnswerInv, RowInv
    <2>6. RefundReturnsMoney'
      BY <2>3 DEF RefundReturnsMoney
    <2>7. RowInv'
      BY <2>1, <2>2, <2>3 DEF RowInv, AnswerInv
    <2>8. AnswerInv'
      BY <1>a, <1>b, <2>1, <2>2, <2>3 DEF AnswerInv, RowInv
    <2>9. RefundInv'
      BY <2>3 DEF RefundInv
    <2> QED
      BY <2>4, <2>5, <2>6, <2>7, <2>8, <2>9
  <1>8. ASSUME NEW o \in Crypto, NEW i \in Invoices, InvoiceEnds(o, i)
        PROVE  IInv'
    <2>1. invoice[o][i] = "active" /\ invoice' \in [Crypto -> [Invoices -> InvoiceStates]]
      BY <1>8 DEF InvoiceEnds, TypeOK, InvoiceStates
    <2>2. \A p \in Crypto, j \in Invoices : invoice'[p][j] = IF p = o /\ j = i THEN "terminal" ELSE invoice[p][j]
      BY <1>8 DEF InvoiceEnds, TypeOK
    <2>3. /\ UNCHANGED <<order, client, maker, charge, mailbox, bot, poll, cancel, refund, revoked, uses, crowded, faults>>
      BY <1>8 DEF InvoiceEnds, rows, calls
    <2>4. TypeOK'
      BY <2>1, <2>2, <2>3 DEF TypeOK
    <2>5. GrantIsPaidFor'
      BY <1>b, <2>1, <2>2, <2>3 DEF GrantIsPaidFor, AnswerInv, RowInv
    <2>6. RefundReturnsMoney'
      BY <2>3 DEF RefundReturnsMoney
    <2>7. RowInv'
      BY <2>1, <2>2, <2>3 DEF RowInv, AnswerInv
    <2>8. AnswerInv'
      BY <1>a, <1>b, <2>1, <2>2, <2>3 DEF AnswerInv, RowInv
    <2>9. RefundInv'
      BY <2>3 DEF RefundInv
    <2> QED
      BY <2>4, <2>5, <2>6, <2>7, <2>8, <2>9
  <1>9. CASE FetchUpdates
    <2>1. bot' = [at |-> "handle", batch |-> mailbox, fetched |-> mailbox] /\ bot' \in Bots
      BY <1>9 DEF FetchUpdates, TypeOK, Bots
    <2>2. /\ UNCHANGED <<order, client, maker, invoice, charge, mailbox, poll, cancel, refund, revoked, uses, crowded, faults>>
      BY <1>9 DEF FetchUpdates, rows, services
    <2>3. TypeOK'
      BY <2>1, <2>2 DEF TypeOK
    <2>4. GrantIsPaidFor'
      BY <2>2 DEF GrantIsPaidFor
    <2>5. RefundReturnsMoney'
      BY <2>2 DEF RefundReturnsMoney
    <2>6. RowInv'
      BY <2>2 DEF RowInv
    <2>7. AnswerInv'
      BY <1>a, <1>b, <2>1, <2>2 DEF AnswerInv, RowInv
    <2>8. RefundInv'
      BY <2>2 DEF RefundInv
    <2> QED
      BY <2>3, <2>4, <2>5, <2>6, <2>7, <2>8
  <1>10. CASE StoreOffset
    <2>1. bot' = IdleBot /\ mailbox' \subseteq mailbox
      BY <1>10 DEF StoreOffset
    <2>2. IdleBot \in Bots /\ IdleBot.batch = {}
      BY DEF IdleBot, Bots
    <2>3. /\ faults' \in Nat
          /\ UNCHANGED <<order, client, maker, invoice, charge, poll, cancel, refund, revoked, uses, crowded>>
      BY <1>10 DEF StoreOffset, rows, Fault, NoFault, TypeOK
    <2>4. TypeOK'
      BY <2>1, <2>2, <2>3 DEF TypeOK
    <2>5. GrantIsPaidFor'
      BY <2>3 DEF GrantIsPaidFor
    <2>6. RefundReturnsMoney'
      BY <2>3 DEF RefundReturnsMoney
    <2>7. RowInv'
      BY <2>3 DEF RowInv
    <2>8. AnswerInv'
      BY <1>a, <1>b, <2>1, <2>2, <2>3 DEF AnswerInv, RowInv
    <2>9. RefundInv'
      BY <2>3 DEF RefundInv
    <2> QED
      BY <2>4, <2>5, <2>6, <2>7, <2>8, <2>9
  <1>11. ASSUME NEW o \in Telegram, HandleSuccessfulPayment(o)
        PROVE  IInv'
    <2>1. o \in bot.batch /\ bot' \in Bots /\ bot'.batch \subseteq bot.batch
      BY <1>11 DEF HandleSuccessfulPayment, TypeOK, Bots
    <2>2. order[o] \in OrderRows /\ o \in Orders /\ client \in Clients /\ revoked \subseteq Orders
      BY DEF TypeOK
    <2>3. /\ client' \in Clients /\ revoked' \subseteq Orders
          /\ \/ order' = order
             \/ /\ order[o].status = "pending" /\ Rewritten(o)
                /\ order'[o].status \in {"paid", "failed", "manual_review"}
      <3>1. CASE ApplyPaidOrder(o)
        BY <2>2, <3>1, ApplyStep DEF rows
      <3>2. CASE UNCHANGED rows
        BY <2>2, <3>2 DEF rows
      <3>3. CASE /\ order[o].status = "pending" /\ UNCHANGED <<client, revoked>>
                 /\ \E s \in {"failed", "manual_review"} : SetStatus(o, s)
        BY <2>2, <3>3, StatusStep DEF Statuses
      <3> QED
        BY <1>11, <3>1, <3>2, <3>3 DEF HandleSuccessfulPayment
    <2>4. faults' \in Nat /\ UNCHANGED <<maker, invoice, charge, mailbox, poll, cancel, refund, uses, crowded>>
      BY <1>11 DEF HandleSuccessfulPayment, services, Fault, NoFault, TypeOK
    <2>5. TypeOK'
      BY <2>1, <2>3, <2>4 DEF TypeOK, Rewritten
    <2>6. GrantIsPaidFor'
      BY <1>a, <1>b, <2>1, <2>2, <2>3, <2>4 DEF GrantIsPaidFor, AnswerInv, RowInv, Rewritten
    <2>7. RefundReturnsMoney'
      BY <2>3, <2>4 DEF RefundReturnsMoney, RefundInv, Rewritten
    <2>8. RowInv'
      BY <2>3, <2>4 DEF RowInv, AnswerInv, Rewritten
    <2>9. AnswerInv'
      BY <1>a, <1>b, <2>1, <2>3, <2>4 DEF AnswerInv, RowInv, Rewritten
    <2>10. RefundInv'
      BY <2>3, <2>4 DEF RefundInv, RefundReturnsMoney, Rewritten
    <2> QED
      BY <2>5, <2>6, <2>7, <2>8, <2>9, <2>10
  <1>12. CASE PollProvider
    <2>1. \/ poll' = [at |-> "poll", answers |-> [o \in PollWork |-> invoice[o][order[o].ref]]]
          \/ poll' = [at |-> "poll", answers |-> NoAnswers]
      BY <1>12 DEF PollProvider
    <2>2. /\ poll'.at = "poll"
          /\ DOMAIN poll'.answers \subseteq PollWork
          /\ \A o \in DOMAIN poll'.answers : poll'.answers[o] = invoice[o][order[o].ref]
      BY <2>1 DEF NoAnswers
    <2>3. \A o \in PollWork :
            o \in Crypto /\ order[o].ref # None /\ order[o].ref \in Invoices /\ invoice[o][order[o].ref] \in InvoiceStates
      BY DEF PollWork, TypeOK, OrderRows
    <2>4. /\ faults' \in Nat
          /\ UNCHANGED <<order, client, maker, invoice, charge, mailbox, bot, cancel, refund, revoked, uses, crowded>>
      BY <1>12 DEF PollProvider, PollRest, rows, Fault, NoFault, TypeOK
    <2>5. TypeOK'
      BY <2>1, <2>2, <2>3, <2>4 DEF TypeOK
    <2>6. GrantIsPaidFor'
      BY <2>4 DEF GrantIsPaidFor
    <2>7. RefundReturnsMoney'
      BY <2>4 DEF RefundReturnsMoney
    <2>8. RowInv'
      BY <2>4 DEF RowInv
    <2>9. AnswerInv'
      BY <1>a, <1>b, <2>1, <2>2, <2>3, <2>4 DEF AnswerInv, RowInv
    <2>10. RefundInv'
      BY <2>4 DEF RefundInv
    <2> QED
      BY <2>5, <2>6, <2>7, <2>8, <2>9, <2>10
  <1>13. CASE Reconcile
    <2>1. \/ poll' = [at |-> "reconcile", answers |-> [o \in ReconcileWork |-> invoice[o]]]
          \/ poll' = [at |-> "reconcile", answers |-> NoAnswers]
      BY <1>13 DEF Reconcile
    <2>2. /\ poll'.at = "reconcile"
          /\ DOMAIN poll'.answers \subseteq Crypto
          /\ \A o \in DOMAIN poll'.answers : poll'.answers[o] = invoice[o]
      BY <2>1 DEF NoAnswers, ReconcileWork
    <2>3. /\ faults' \in Nat /\ crowded' \in BOOLEAN
          /\ UNCHANGED <<order, client, maker, invoice, charge, mailbox, bot, cancel, refund, revoked, uses>>
      <3>1. faults' \in Nat
        BY <1>13 DEF Reconcile, Fault, NoFault, TypeOK
      <3>2. crowded \in BOOLEAN /\ crowded' \in {crowded, TRUE}
        BY <1>13 DEF Reconcile, TypeOK
      <3>3. UNCHANGED <<order, client, maker, invoice, charge, mailbox, bot, cancel, refund, revoked, uses>>
        BY <1>13 DEF Reconcile, services, rows
      <3> QED
        BY <3>1, <3>2, <3>3
    <2>4. TypeOK'
      BY <2>1, <2>2, <2>3 DEF TypeOK
    <2>5. GrantIsPaidFor'
      BY <2>3 DEF GrantIsPaidFor
    <2>6. RefundReturnsMoney'
      BY <2>3 DEF RefundReturnsMoney
    <2>7. RowInv'
      BY <2>3 DEF RowInv
    <2>8. AnswerInv'
      BY <1>a, <1>b, <2>1, <2>2, <2>3 DEF AnswerInv, RowInv
    <2>9. RefundInv'
      BY <2>3 DEF RefundInv
    <2> QED
      BY <2>4, <2>5, <2>6, <2>7, <2>8, <2>9
  <1>14. CASE ExpireStaleOrders
    <2>1. PICK stale \in SUBSET {o \in Telegram : order[o].status = "pending"} :
            order' = [o \in Orders |-> IF o \in stale THEN [order[o] EXCEPT !.status = "expired"] ELSE order[o]]
      BY <1>14 DEF ExpireStaleOrders
    <2>2. order' \in [Orders -> OrderRows]
      <3>1. ASSUME NEW o \in Orders PROVE [order[o] EXCEPT !.status = "expired"] \in OrderRows
        <4>1. order[o] \in OrderRows
          BY DEF TypeOK
        <4> QED
          BY <4>1 DEF OrderRows, Statuses
      <3> QED
        BY <2>1, <3>1 DEF TypeOK
    <2>3. \A p \in Orders :
            order'[p] = order[p] \/ (p \in Telegram /\ order[p].status = "pending" /\ order'[p].status = "expired")
      BY <2>1 DEF TypeOK, OrderRows
    <2>4. poll'.at = "idle" /\ DOMAIN poll'.answers = {}
      BY <1>14 DEF ExpireStaleOrders, IdlePoll, NoAnswers
    <2>5. UNCHANGED <<client, maker, invoice, charge, mailbox, bot, cancel, refund, revoked, uses, crowded, faults>>
      BY <1>14 DEF ExpireStaleOrders, PollRest
    <2>6. TypeOK'
      BY <2>1, <2>2, <2>3, <2>4, <2>5 DEF TypeOK
    <2>7. GrantIsPaidFor'
      BY <1>b, <2>1, <2>2, <2>3, <2>5 DEF GrantIsPaidFor, AnswerInv, RowInv
    <2>8. RefundReturnsMoney'
      BY <2>1, <2>2, <2>3, <2>5 DEF RefundReturnsMoney, RefundInv
    <2>9. RowInv'
      BY <2>1, <2>2, <2>3, <2>5 DEF RowInv, AnswerInv
    <2>10. AnswerInv'
      BY <1>a, <1>b, <2>1, <2>2, <2>3, <2>4, <2>5 DEF AnswerInv, RowInv
    <2>11. RefundInv'
      BY <2>1, <2>2, <2>3, <2>5 DEF RefundInv, RefundReturnsMoney
    <2> QED
      BY <2>6, <2>7, <2>8, <2>9, <2>10, <2>11
  <1>15. ASSUME NEW o \in Crypto, ApplyPollAnswer(o)
        PROVE  IInv'
    <2>1. /\ poll.at = "poll"
          /\ o \in DOMAIN poll.answers
          /\ poll'.at = poll.at
          /\ DOMAIN poll'.answers \subseteq DOMAIN poll.answers
          /\ \A p \in DOMAIN poll'.answers : poll'.answers[p] = poll.answers[p]
      BY <1>15 DEF ApplyPollAnswer, Answered
    <2>2. order[o] \in OrderRows /\ o \in Orders /\ client \in Clients /\ revoked \subseteq Orders
      BY DEF TypeOK
    <2>3. /\ client' \in Clients /\ revoked' \subseteq Orders
          /\ \/ order' = order
             \/ /\ order[o].status \in {"pending", "invoice_creating", "recoverable"} /\ Rewritten(o)
                /\ order'[o].ref = order[o].ref
                /\ \/ order'[o].status \in {"expired", "manual_review"}
                   \/ order'[o].status = "paid" /\ poll.answers[o] = "paid"
      <3>1. CASE poll.answers[o] = "paid" /\ ApplyPaidOrder(o)
        BY <2>2, <3>1, ApplyStep DEF rows
      <3>2. CASE UNCHANGED rows
        BY <2>2, <3>2 DEF rows
      <3>3. CASE /\ order[o].status \in Unresolved \union {"pending"} /\ UNCHANGED <<client, revoked>>
                 /\ \E s \in {"expired", "manual_review"} : SetStatus(o, s)
        BY <2>2, <3>3, StatusStep DEF Statuses
      <3> QED
        BY <1>15, <3>1, <3>2, <3>3 DEF ApplyPollAnswer, rows
    <2>4. faults' \in Nat /\ UNCHANGED <<maker, invoice, charge, mailbox, bot, cancel, refund, uses, crowded>>
      BY <1>15 DEF ApplyPollAnswer, PollRest, Fault, NoFault, TypeOK
    <2>5. TypeOK'
      BY <2>1, <2>3, <2>4 DEF TypeOK, Rewritten
    <2>6. GrantIsPaidFor'
      BY <1>a, <1>b, <2>1, <2>2, <2>3, <2>4 DEF GrantIsPaidFor, AnswerInv, RowInv, Rewritten
    <2>7. RefundReturnsMoney'
      BY <2>3, <2>4 DEF RefundReturnsMoney, RefundInv, Rewritten
    <2>8. RowInv'
      BY <2>3, <2>4 DEF RowInv, AnswerInv, Rewritten
    <2>9. AnswerInv'
      BY <1>a, <1>b, <2>1, <2>3, <2>4 DEF AnswerInv, RowInv, Rewritten
    <2>10. RefundInv'
      BY <2>3, <2>4 DEF RefundInv, RefundReturnsMoney, Rewritten
    <2> QED
      BY <2>5, <2>6, <2>7, <2>8, <2>9, <2>10
  <1>16. ASSUME NEW o \in Crypto, RecoverProviderOrder(o)
        PROVE  IInv'
    <2>1. /\ poll.at = "reconcile"
          /\ o \in DOMAIN poll.answers
          /\ poll'.at = poll.at
          /\ DOMAIN poll'.answers \subseteq DOMAIN poll.answers
          /\ \A p \in DOMAIN poll'.answers : poll'.answers[p] = poll.answers[p]
      BY <1>16 DEF RecoverProviderOrder, Answered
    <2>2. \/ UNCHANGED <<rows, cancel>> \/ (o \in ReconcileWork /\ Recovered(o, poll.answers[o]))
      <3>1. CASE Recover(o, poll.answers[o])
        BY <3>1, RecoverStep
      <3>2. CASE o \in ReconcileWork /\ SetStatus(o, "manual_review") /\ UNCHANGED <<client, revoked, cancel>>
        BY <3>2, StatusStep DEF Recovered, Statuses
      <3> QED
        BY <1>16, <3>1, <3>2 DEF RecoverProviderOrder
    <2>3. client \in Clients /\ revoked \subseteq Orders /\ cancel \subseteq Crypto \X Invoices
      BY DEF TypeOK
    <2>4. /\ client' \in Clients
          /\ revoked' \subseteq Orders
          /\ order' \in [Orders -> OrderRows] /\ cancel' \subseteq Crypto \X Invoices
      BY <2>2, <2>3 DEF Recovered, Rewritten, rows, TypeOK
    <2>5. \/ order' = order
          \/ /\ order[o].status \in {"pending", "invoice_creating", "recoverable"}
             /\ order[o].ref = None /\ Rewritten(o)
             /\ \/ order'[o].status \in {"recoverable", "expired", "manual_review"} /\ order'[o].ref = None
                \/ order'[o].status = "pending"
                \/ order'[o].status = "paid" /\ order'[o].ref \in Invoices /\ poll.answers[o][order'[o].ref] = "paid"
      BY <2>2 DEF Recovered, ReconcileWork, rows, RowInv
    <2>6. \A p \in Crypto, i \in Invoices :
            <<p, i>> \in cancel' => <<p, i>> \in cancel \/ (p = o /\ poll.answers[o][i] = "active")
      BY <2>2 DEF Recovered
    <2>7. faults' \in Nat /\ UNCHANGED <<maker, invoice, charge, mailbox, bot, refund, uses, crowded>>
      BY <1>16 DEF RecoverProviderOrder, PollRest, Fault, NoFault, TypeOK
    <2>8. TypeOK'
      BY <2>1, <2>4, <2>5, <2>6, <2>7 DEF TypeOK, Rewritten
    <2>9. GrantIsPaidFor'
      BY <1>a, <1>b, <2>1, <2>3, <2>4, <2>5, <2>6, <2>7 DEF GrantIsPaidFor, AnswerInv, RowInv, Rewritten
    <2>10. RefundReturnsMoney'
      BY <2>4, <2>5, <2>7 DEF RefundReturnsMoney, RefundInv, Rewritten
    <2>11. RowInv'
      BY <2>4, <2>5, <2>7 DEF RowInv, AnswerInv, Rewritten
    <2>12. AnswerInv'
      BY <1>a, <1>b, <2>1, <2>4, <2>5, <2>6, <2>7 DEF AnswerInv, RowInv, Rewritten
    <2>13. RefundInv'
      BY <2>4, <2>5, <2>7 DEF RefundInv, RefundReturnsMoney, Rewritten
    <2> QED
      BY <2>8, <2>9, <2>10, <2>11, <2>12, <2>13
  <1>17. ASSUME NEW c \in cancel, CancelInvoice(c)
        PROVE  IInv'
    <2>1. c[1] \in Crypto /\ c[2] \in Invoices /\ c = <<c[1], c[2]>>
      BY DEF TypeOK
    <2>2. invoice[c[1]][c[2]] # "paid" /\ invoice[c[1]][c[2]] # None
      BY <1>17, <2>1 DEF CancelInvoice, AnswerInv
    <2>3. invoice' \in [Crypto -> [Invoices -> InvoiceStates]] /\ cancel' \subseteq cancel
      BY <1>17, <2>1 DEF CancelInvoice, TypeOK, InvoiceStates
    <2>4. \A p \in Crypto, j \in Invoices :
            invoice'[p][j] = IF p = c[1] /\ j = c[2] THEN "terminal" ELSE invoice[p][j]
      BY <1>17, <2>1 DEF CancelInvoice, TypeOK
    <2>5. /\ faults' \in Nat
          /\ UNCHANGED <<order, client, maker, charge, mailbox, bot, poll, refund, revoked, uses, crowded>>
      BY <1>17 DEF CancelInvoice, PollRest, rows, Fault, NoFault, TypeOK
    <2>6. TypeOK'
      BY <2>3, <2>4, <2>5 DEF TypeOK
    <2>7. GrantIsPaidFor'
      BY <1>b, <2>1, <2>2, <2>3, <2>4, <2>5 DEF GrantIsPaidFor, AnswerInv, RowInv
    <2>8. RefundReturnsMoney'
      BY <2>5 DEF RefundReturnsMoney
    <2>9. RowInv'
      BY <2>1, <2>2, <2>3, <2>4, <2>5 DEF RowInv, AnswerInv
    <2>10. AnswerInv'
      BY <1>a, <1>b, <2>1, <2>2, <2>3, <2>4, <2>5 DEF AnswerInv, RowInv
    <2>11. RefundInv'
      BY <2>5 DEF RefundInv
    <2> QED
      BY <2>6, <2>7, <2>8, <2>9, <2>10, <2>11
  <1>18. ASSUME NEW f \in Refunders, RefundStarPayment(f)
        PROVE  IInv'
    <2>1. refund[f].at = "send" /\ refund[f].order \in Stars
      BY <1>18 DEF RefundStarPayment, RefundInv
    <2>2. /\ charge' \in [Telegram -> Charges]
          /\ \A p \in Telegram : charge'[p] = charge[p] \/ (p = refund[f].order /\ charge'[p] = "returned")
      BY <1>18, <2>1 DEF RefundStarPayment, TypeOK, Charges
    <2>3. refund' \in [Refunders -> Refunds]
      BY <1>18, <2>1 DEF RefundStarPayment, GotoRefund, TypeOK, Refunds
    <2>4. /\ refund'[f].order = refund[f].order /\ refund'[f].at \in {"finalize", "release"}
          /\ refund'[f].at = "finalize" => charge'[refund[f].order] = "returned"
          /\ \A g \in Refunders : g # f => refund'[g] = refund[g]
      BY <1>18, <2>1 DEF RefundStarPayment, GotoRefund, TypeOK, Refunds
    <2>5. /\ faults' \in Nat
          /\ UNCHANGED <<order, client, maker, invoice, mailbox, bot, poll, cancel, revoked, uses, crowded>>
      BY <1>18 DEF RefundStarPayment, RefundRest, rows, Fault, NoFault, TypeOK
    <2>6. TypeOK'
      BY <2>2, <2>3, <2>4, <2>5 DEF TypeOK
    <2>7. GrantIsPaidFor'
      BY <1>b, <2>1, <2>2, <2>4, <2>5 DEF GrantIsPaidFor, AnswerInv, RowInv
    <2>8. RefundReturnsMoney'
      BY <2>1, <2>2, <2>4, <2>5 DEF RefundReturnsMoney, RefundInv
    <2>9. RowInv'
      BY <2>5 DEF RowInv
    <2>10. AnswerInv'
      BY <1>a, <1>b, <2>1, <2>2, <2>4, <2>5 DEF AnswerInv, RowInv
    <2>11. RefundInv'
      <3>1. ASSUME NEW g \in Refunders, g # f, refund[g].at # "idle"
            PROVE  /\ refund[g].order \in Telegram /\ refund'[g] = refund[g]
                   /\ charge[refund[g].order] = "returned" => charge'[refund[g].order] = "returned"
        BY <2>2, <2>4, <3>1 DEF RefundInv
      <3> QED
        BY <2>1, <2>4, <2>5, <3>1 DEF RefundInv
    <2> QED
      BY <2>6, <2>7, <2>8, <2>9, <2>10, <2>11
  <1>19. ASSUME NEW f \in Refunders, FinalizeClaimedRefund(f)
        PROVE  IInv'
    <2>1. refund[f].at = "finalize" /\ refund[f].order \in Stars
      BY <1>19 DEF FinalizeClaimedRefund, RefundInv
    <2>2. /\ order[refund[f].order].revoke \in BOOLEAN
          /\ refund[f].order \in Orders
          /\ client \in Clients
          /\ revoked \subseteq Orders
      BY <2>1 DEF TypeOK, OrderRows
    <2>3. /\ client' \in Clients /\ revoked' \subseteq Orders
          /\ \/ order' = order
             \/ /\ order[refund[f].order].status = "refund_pending" /\ Rewritten(refund[f].order)
                /\ order'[refund[f].order].status = "refunded"
      <3>1. CASE Claims(f, refund[f].order) /\ FinalizeRefund(refund[f].order, order[refund[f].order].revoke)
        BY <2>2, <3>1, RefundStep DEF Claims
      <3>2. CASE UNCHANGED rows
        BY <2>2, <3>2 DEF rows
      <3> QED
        BY <1>19, <3>1, <3>2 DEF FinalizeClaimedRefund
    <2>4. refund' \in [Refunders -> Refunds]
      BY <1>19, <2>1 DEF FinalizeClaimedRefund, GotoRefund, EndRefund, IdleRefund, TypeOK, Refunds
    <2>5. refund'[f].at = "idle" \/ (refund'[f].at = "release" /\ refund'[f].order = refund[f].order)
      BY <1>19, <2>1 DEF FinalizeClaimedRefund, GotoRefund, EndRefund, IdleRefund, TypeOK, Refunds
    <2>6. \A g \in Refunders : g # f => refund'[g] = refund[g]
      BY <1>19 DEF FinalizeClaimedRefund, GotoRefund, EndRefund, TypeOK
    <2>7. faults' \in Nat /\ UNCHANGED <<maker, invoice, charge, mailbox, bot, poll, cancel, uses, crowded>>
      BY <1>19 DEF FinalizeClaimedRefund, RefundRest, Fault, NoFault, TypeOK
    <2>8. TypeOK'
      BY <2>3, <2>4, <2>5, <2>6, <2>7 DEF TypeOK, Rewritten
    <2>9. GrantIsPaidFor'
      BY <1>b, <2>1, <2>3, <2>7 DEF GrantIsPaidFor, AnswerInv, RowInv, Rewritten
    <2>10. RefundReturnsMoney'
      BY <2>1, <2>3, <2>7 DEF RefundReturnsMoney, RefundInv, Rewritten
    <2>11. RowInv'
      BY <2>1, <2>3, <2>7 DEF RowInv, AnswerInv, Rewritten
    <2>12. AnswerInv'
      BY <1>a, <1>b, <2>1, <2>3, <2>7 DEF AnswerInv, RowInv, Rewritten
    <2>13. RefundInv'
      BY <2>1, <2>3, <2>4, <2>5, <2>6, <2>7 DEF RefundInv, RefundReturnsMoney, Rewritten
    <2> QED
      BY <2>8, <2>9, <2>10, <2>11, <2>12, <2>13
  <1>20. ASSUME NEW f \in Refunders, ReleaseRefundClaim(f)
        PROVE  IInv'
    <2>1. refund[f].at = "release" /\ refund[f].order \in Stars
      BY <1>20 DEF ReleaseRefundClaim, RefundInv
    <2>2. order' \in [Orders -> OrderRows]
      <3>1. CASE order' = [order EXCEPT ![refund[f].order].claim = None]
        <4>0. order[refund[f].order] \in OrderRows
          BY <2>1 DEF TypeOK
        <4>1. [order[refund[f].order] EXCEPT !.claim = None] \in OrderRows
          BY <4>0 DEF OrderRows
        <4>2. order' = [order EXCEPT ![refund[f].order] = [order[refund[f].order] EXCEPT !.claim = None]]
          BY <2>1, <3>1 DEF TypeOK
        <4> QED
          BY <4>1, <4>2 DEF TypeOK
      <3> QED
        BY <1>20, <3>1 DEF ReleaseRefundClaim, TypeOK
    <2>3. \A p \in Orders : order'[p].status = order[p].status /\ order'[p].ref = order[p].ref
      <3>1. CASE order' = [order EXCEPT ![refund[f].order].claim = None]
        BY <3>1, <2>1 DEF TypeOK, OrderRows
      <3> QED
        BY <1>20, <3>1 DEF ReleaseRefundClaim
    <2>4. refund' \in [Refunders -> Refunds] /\ refund'[f].at = "idle"
      BY <1>20 DEF ReleaseRefundClaim, EndRefund, IdleRefund, TypeOK, Refunds
    <2>5. \A g \in Refunders : g # f => refund'[g] = refund[g]
      BY <1>20 DEF ReleaseRefundClaim, EndRefund, TypeOK
    <2>6. UNCHANGED <<client, maker, invoice, charge, mailbox, bot, poll, cancel, revoked, uses, crowded, faults>>
      BY <1>20 DEF ReleaseRefundClaim, RefundRest
    <2>7. TypeOK'
      BY <2>2, <2>3, <2>4, <2>5, <2>6 DEF TypeOK
    <2>8. GrantIsPaidFor'
      BY <1>b, <2>1, <2>2, <2>3, <2>6 DEF GrantIsPaidFor, AnswerInv, RowInv
    <2>9. RefundReturnsMoney'
      BY <2>1, <2>2, <2>3, <2>6 DEF RefundReturnsMoney, RefundInv
    <2>10. RowInv'
      BY <2>1, <2>2, <2>3, <2>6 DEF RowInv, AnswerInv
    <2>11. AnswerInv'
      BY <1>a, <1>b, <2>1, <2>2, <2>3, <2>6 DEF AnswerInv, RowInv
    <2>12. RefundInv'
      BY <2>1, <2>2, <2>3, <2>4, <2>5, <2>6 DEF RefundInv, RefundReturnsMoney
    <2> QED
      BY <2>7, <2>8, <2>9, <2>10, <2>11, <2>12
  <1>21. ASSUME NEW f \in Refunders, NEW o \in Stars, NEW revoke \in BOOLEAN, ClaimStarsRefund(f, o, revoke)
        PROVE  IInv'
    <2>1. /\ order[o].status \in {"paid", "refund_pending"}
          /\ Rewritten(o)
          /\ order'[o].status = "refund_pending"
      BY <1>21, ClaimStep
    <2>2. refund' \in [Refunders -> Refunds]
      BY <1>21 DEF ClaimStarsRefund, GotoRefund, TypeOK, Refunds
    <2>3. /\ refund'[f].at = "send"
          /\ refund'[f].order = o
          /\ \A g \in Refunders : g # f => refund'[g] = refund[g]
      BY <1>21 DEF ClaimStarsRefund, GotoRefund, TypeOK, Refunds
    <2>4. UNCHANGED <<client, maker, invoice, charge, mailbox, bot, poll, cancel, revoked, uses, crowded, faults>>
      BY <1>21 DEF ClaimStarsRefund, RefundRest
    <2>5. TypeOK'
      BY <2>1, <2>2, <2>3, <2>4 DEF TypeOK, Rewritten
    <2>6. GrantIsPaidFor'
      BY <1>b, <2>1, <2>4 DEF GrantIsPaidFor, AnswerInv, RowInv, Rewritten
    <2>7. RefundReturnsMoney'
      BY <2>1, <2>4 DEF RefundReturnsMoney, RefundInv, Rewritten
    <2>8. RowInv'
      BY <2>1, <2>4 DEF RowInv, AnswerInv, Rewritten
    <2>9. AnswerInv'
      BY <1>a, <1>b, <2>1, <2>4 DEF AnswerInv, RowInv, Rewritten
    <2>10. RefundInv'
      BY <2>1, <2>2, <2>3, <2>4 DEF RefundInv, RefundReturnsMoney, Rewritten
    <2> QED
      BY <2>5, <2>6, <2>7, <2>8, <2>9, <2>10
  <1>22. ASSUME NEW o \in Orders \ Stars, NEW revoke \in BOOLEAN, FinalizeLocalRefund(o, revoke)
        PROVE  IInv'
    <2>1. order[o].status = "paid" /\ FinalizeRefund(o, revoke)
      BY <1>22 DEF FinalizeLocalRefund
    <2>2. /\ Rewritten(o) /\ order'[o].status = "refunded" /\ order'[o].ref = order[o].ref
          /\ client' \in Clients /\ revoked' \subseteq Orders
      BY <2>1, RefundStep
    <2>3. UNCHANGED <<maker, invoice, charge, mailbox, bot, poll, cancel, refund, uses, crowded, faults>>
      BY <1>22 DEF FinalizeLocalRefund, RefundRest
    <2>4. TypeOK'
      BY <2>2, <2>3 DEF TypeOK, Rewritten
    <2>5. GrantIsPaidFor'
      BY <1>b, <2>1, <2>2, <2>3 DEF GrantIsPaidFor, AnswerInv, RowInv, Rewritten
    <2>6. RefundReturnsMoney'
      BY <2>1, <2>2, <2>3 DEF RefundReturnsMoney, RefundInv, Rewritten
    <2>7. RowInv'
      BY <2>1, <2>2, <2>3 DEF RowInv, AnswerInv, Rewritten
    <2>8. AnswerInv'
      BY <1>a, <1>b, <2>1, <2>2, <2>3 DEF AnswerInv, RowInv, Rewritten
    <2>9. RefundInv'
      BY <2>1, <2>2, <2>3 DEF RefundInv, RefundReturnsMoney, Rewritten
    <2> QED
      BY <2>4, <2>5, <2>6, <2>7, <2>8, <2>9
  <1>23. CASE Use
    <2>1. client' \in Clients /\ uses' \in Nat
      BY <1>23 DEF Use, TypeOK, Clients
    <2>2. UNCHANGED <<order, maker, invoice, charge, mailbox, bot, poll, cancel, refund, revoked, crowded, faults>>
      BY <1>23 DEF Use, calls, services
    <2>3. TypeOK'
      BY <2>1, <2>2 DEF TypeOK
    <2>4. GrantIsPaidFor'
      BY <2>2 DEF GrantIsPaidFor
    <2>5. RefundReturnsMoney'
      BY <2>2 DEF RefundReturnsMoney
    <2>6. RowInv'
      BY <2>2 DEF RowInv
    <2>7. AnswerInv'
      BY <2>2 DEF AnswerInv
    <2>8. RefundInv'
      BY <2>2 DEF RefundInv
    <2> QED
      BY <2>3, <2>4, <2>5, <2>6, <2>7, <2>8
  <1>24. CASE Crash
    <2>1. /\ maker' = [o \in Crypto |-> "idle"] /\ bot' = IdleBot
          /\ poll' = IdlePoll /\ refund' = [f \in Refunders |-> IdleRefund]
      BY <1>24 DEF Crash
    <2>2. IdleBot \in Bots /\ IdleBot.batch = {} /\ IdlePoll.at = "idle" /\ DOMAIN IdlePoll.answers = {}
      BY DEF IdleBot, Bots, IdlePoll, NoAnswers
    <2>3. IdleRefund \in Refunds /\ IdleRefund.at = "idle"
      BY DEF IdleRefund, Refunds
    <2>4. faults' \in Nat /\ UNCHANGED <<order, client, invoice, charge, mailbox, cancel, revoked, uses, crowded>>
      BY <1>24 DEF Crash, rows, services, Fault, TypeOK
    <2>5. TypeOK'
      BY <2>1, <2>2, <2>3, <2>4 DEF TypeOK, MakerSteps
    <2>6. GrantIsPaidFor'
      BY <2>4 DEF GrantIsPaidFor
    <2>7. RefundReturnsMoney'
      BY <2>4 DEF RefundReturnsMoney
    <2>8. RowInv'
      BY <2>1, <2>2, <2>3, <2>4 DEF RowInv, AnswerInv
    <2>9. AnswerInv'
      BY <1>a, <1>b, <2>1, <2>2, <2>3, <2>4 DEF AnswerInv, RowInv
    <2>10. RefundInv'
      BY <2>1, <2>2, <2>3, <2>4 DEF RefundInv, RefundReturnsMoney
    <2> QED
      BY <2>5, <2>6, <2>7, <2>8, <2>9, <2>10
  <1> QED
    BY <1>1, <1>2, <1>3, <1>4, <1>5, <1>6, <1>7, <1>8, <1>9, <1>10, <1>11, <1>12,
       <1>13, <1>14, <1>15, <1>16, <1>17, <1>18, <1>19, <1>20, <1>21, <1>22, <1>23, <1>24
    DEF Next, BotSteps, PollSteps

(* The initial states satisfy the invariant. *)
LEMMA InitHolds == Init => IInv
  <1> SUFFICES ASSUME Init PROVE IInv
    OBVIOUS
  <1> USE NoneIsNoName, OrderIds, BoundsAssumption DEF Init
  <1>1. NoOrder \in OrderRows /\ NoOrder.status = None /\ NoOrder.ref = None
    BY DEF NoOrder, OrderRows
  <1>2. /\ IdleBot \in Bots /\ IdleBot.batch = {} /\ IdleRefund \in Refunds /\ IdleRefund.at = "idle"
        /\ IdlePoll.at = "idle" /\ DOMAIN IdlePoll.answers = {}
    BY DEF IdleBot, Bots, IdleRefund, Refunds, IdlePoll, NoAnswers
  <1>3. \A o \in Orders : order[o] = NoOrder
    OBVIOUS
  <1>4. TypeOK
    BY <1>1, <1>2 DEF TypeOK, Clients, MakerSteps, Charges, InvoiceStates
  <1>5. GrantIsPaidFor
    BY <1>1, <1>3 DEF GrantIsPaidFor, Granted
  <1>6. RefundReturnsMoney
    BY <1>1, <1>3 DEF RefundReturnsMoney
  <1>7. RowInv
    BY <1>1, <1>3 DEF RowInv
  <1>8. AnswerInv
    BY <1>2 DEF AnswerInv
  <1>9. RefundInv
    BY <1>2 DEF RefundInv
  <1> QED
    BY <1>4, <1>5, <1>6, <1>7, <1>8, <1>9 DEF IInv

(* The invariant holds for any orders, refund calls and faults, under every *)
(* interleaving of the bot, the poll, the creation of invoices and refunds. *)
THEOREM OrdersInvariant == Spec => []IInv
  <1>1. IInv /\ [Next]_vars => IInv'
    <2> SUFFICES ASSUME IInv, UNCHANGED vars PROVE IInv'
      BY NextKeeps
    <2> QED
      BY DEF vars, outside, IInv, TypeOK, GrantIsPaidFor, RefundReturnsMoney, RowInv, AnswerInv, RefundInv
  <1> QED
    BY InitHolds, <1>1, PTL DEF Spec

(* Every row, counter and call keeps its type. *)
THEOREM OrdersTypeOK == Spec => []TypeOK
  <1>1. IInv => TypeOK
    BY DEF IInv
  <1> QED
    BY OrdersInvariant, <1>1, PTL

(* No confirmation, poll answer or recovery grants what was not paid for. *)
THEOREM OrdersArePaidFor == Spec => []GrantIsPaidFor
  <1>1. IInv => GrantIsPaidFor
    BY DEF IInv
  <1> QED
    BY OrdersInvariant, <1>1, PTL

(* A Stars order is recorded as refunded exactly when its money went back,  *)
(* whoever takes over the claim of a refund and wherever it was cut off.    *)
THEOREM OrdersReturnMoney == Spec => []RefundReturnsMoney
  <1>1. IInv => RefundReturnsMoney
    BY DEF IInv
  <1> QED
    BY OrdersInvariant, <1>1, PTL

-----------------------------------------------------------------------------
(***************************************************************************)
(* The client's balance.  The orders that count are those that were        *)
(* granted and not taken back; the usage that each folded into the totals  *)
(* is a set of units, so that the totals are a cardinality.                *)
(***************************************************************************)
Bought(row) == row.status \in Granted \union {"refunded"}
KeptOf(os, gone) == {o \in Orders : Bought(os[o])} \ gone
UnitsOf(os, S) == UNION {{o} \X (1 .. os[o].window) : o \in S}

(* A grant that was taken back is one of a refunded order; and what counts  *)
(* is finite.                                                               *)
BalanceFor(c, os, gone) ==
  /\ \A o \in gone : os[o].status = "refunded"
  /\ IsFiniteSet(KeptOf(os, gone)) /\ IsFiniteSet(UnitsOf(os, KeptOf(os, gone)))
  /\ c.volume = BaseVolume + Cardinality(KeptOf(os, gone))
  /\ c.total = Cardinality(UnitsOf(os, KeptOf(os, gone)))

BalanceInv == BalanceFor(client, order, revoked)

(* As many units as the window has. *)
LEMMA UnitsOfOne ==
  ASSUME NEW o, NEW n \in Nat
  PROVE  IsFiniteSet({o} \X (1 .. n)) /\ Cardinality({o} \X (1 .. n)) = n
  <1> DEFINE f == [i \in 1 .. n |-> <<o, i>>]
             T == {o} \X (1 .. n)
  <1>1. f \in [1 .. n -> T]
    OBVIOUS
  <1>2. \A i, j \in 1 .. n : f[i] = f[j] => i = j
    OBVIOUS
  <1>3. \A t \in T : \E i \in 1 .. n : f[i] = t
    OBVIOUS
  <1> HIDE DEF f, T
  <1>4. f \in Bijection(1 .. n, T)
    BY <1>1, <1>2, <1>3 DEF Bijection, Injection, Surjection, IsInjective
  <1>5. ExistsBijection(1 .. n, T)
    BY <1>4 DEF ExistsBijection
  <1>6. IsFiniteSet(T) /\ Cardinality(T) = n
    BY <1>5, FS_NatBijection, FS_CountingElements
  <1> QED
    BY <1>6 DEF T

(* The units of one order more, or of one less. *)
LEMMA UnitsOfMore ==
  ASSUME NEW os, NEW S, NEW o, o \notin S, os[o].window \in Nat
  PROVE  /\ IsFiniteSet(UnitsOf(os, S)) =>
              /\ IsFiniteSet(UnitsOf(os, S \union {o}))
              /\ Cardinality(UnitsOf(os, S \union {o})) = Cardinality(UnitsOf(os, S)) + os[o].window
         /\ IsFiniteSet(UnitsOf(os, S \union {o})) => IsFiniteSet(UnitsOf(os, S))
  <1> DEFINE T == {o} \X (1 .. os[o].window)
             U == UnitsOf(os, S)
             V == UnitsOf(os, S \union {o})
  <1>1. V = U \union T
    BY DEF UnitsOf
  <1>2. U \intersect T = {}
    BY DEF UnitsOf
  <1>3. IsFiniteSet(T) /\ Cardinality(T) = os[o].window
    BY UnitsOfOne
  <1> HIDE DEF T, U, V
  <1>4. IsFiniteSet(U) => IsFiniteSet(V) /\ Cardinality(V) = Cardinality(U) + Cardinality(T) - 0
    BY <1>1, <1>2, <1>3, FS_Union, FS_EmptySet
  <1>5. IsFiniteSet(U) => Cardinality(U) \in Nat
    BY FS_CardinalityType
  <1>6. IsFiniteSet(V) => IsFiniteSet(U)
    BY <1>1, FS_Subset
  <1>7. IsFiniteSet(U) => IsFiniteSet(V) /\ Cardinality(V) = Cardinality(U) + os[o].window
    BY <1>3, <1>4, <1>5
  <1> QED
    BY <1>6, <1>7 DEF U, V

(* A step that buys and takes back nothing. *)
BuysNothing ==
  \A o \in Orders :
    /\ Bought(order'[o]) <=> Bought(order[o])
    /\ Bought(order[o]) => order'[o].window = order[o].window
    /\ order[o].status = "refunded" => order'[o].status = "refunded"

LEMMA NothingBought ==
  ASSUME TypeOK, BalanceInv, BuysNothing, client'.volume = client.volume, client'.total = client.total,
         revoked' = revoked
  PROVE  BalanceInv'
  <1>1. KeptOf(order', revoked) = KeptOf(order, revoked)
    BY DEF KeptOf, BuysNothing
  <1>2. \A o \in KeptOf(order, revoked) : order'[o].window = order[o].window
    BY DEF KeptOf, BuysNothing
  <1>3. UnitsOf(order', KeptOf(order, revoked)) = UnitsOf(order, KeptOf(order, revoked))
    BY <1>2 DEF UnitsOf
  <1>4. \A o \in revoked : order'[o].status = "refunded"
    BY DEF BalanceInv, BalanceFor, BuysNothing, TypeOK
  <1> QED
    BY <1>1, <1>3, <1>4 DEF BalanceInv, BalanceFor

(* A grant of an order that counted for nothing. *)
LEMMA OneBought ==
  ASSUME TypeOK, BalanceInv, NEW o \in Orders, ~Bought(order[o]), Rewritten(o),
         order'[o].status = "paid", order'[o].window = client.up,
         client'.volume = client.volume + 1, client'.total = client.total + client.up, revoked' = revoked
  PROVE  BalanceInv'
  <1> DEFINE K == KeptOf(order, revoked)
  <1>1. o \notin revoked
    BY DEF BalanceInv, BalanceFor, Bought
  <1>2. KeptOf(order', revoked) = K \union {o} /\ o \notin K
    BY <1>1 DEF KeptOf, Bought, Granted, Rewritten
  <1>3. UnitsOf(order', K) = UnitsOf(order, K)
    <2>1. \A p \in K : order'[p] = order[p]
      BY <1>2 DEF KeptOf, Rewritten
    <2> QED
      BY <2>1 DEF UnitsOf
  <1>4. IsFiniteSet(K) /\ IsFiniteSet(UnitsOf(order, K)) /\ Cardinality(K) \in Nat
    BY FS_CardinalityType DEF BalanceInv, BalanceFor
  <1>5. client.up \in Nat
    BY DEF TypeOK, Clients
  <1>6. /\ IsFiniteSet(K \union {o}) /\ Cardinality(K \union {o}) = Cardinality(K) + 1
        /\ IsFiniteSet(UnitsOf(order', K \union {o}))
        /\ Cardinality(UnitsOf(order', K \union {o})) = Cardinality(UnitsOf(order, K)) + client.up
    <2>1. IsFiniteSet(K \union {o}) /\ Cardinality(K \union {o}) = Cardinality(K) + 1
      BY <1>2, <1>4, FS_AddElement
    <2>2. o \notin K /\ order'[o].window \in Nat /\ IsFiniteSet(UnitsOf(order', K))
      BY <1>2, <1>3, <1>4, <1>5
    <2> HIDE DEF K
    <2>3. /\ IsFiniteSet(UnitsOf(order', K \union {o}))
          /\ Cardinality(UnitsOf(order', K \union {o})) = Cardinality(UnitsOf(order', K)) + order'[o].window
      BY <2>2, UnitsOfMore
    <2> QED
      BY <1>3, <2>1, <2>3
  <1>7. \A p \in revoked : order'[p].status = "refunded"
    BY <1>1 DEF BalanceInv, BalanceFor, Rewritten, TypeOK
  <1>8. client'.volume = BaseVolume + Cardinality(K \union {o})
    BY <1>4, <1>6, BoundsAssumption DEF BalanceInv, BalanceFor
  <1>9. client'.total = Cardinality(UnitsOf(order', K \union {o}))
    BY <1>6 DEF BalanceInv, BalanceFor
  <1> HIDE DEF K
  <1> QED
    BY <1>2, <1>6, <1>7, <1>8, <1>9 DEF BalanceInv, BalanceFor

(* A refund of an order that counts, with or without its grant. *)
LEMMA OneRefunded ==
  ASSUME TypeOK, BalanceInv, NEW o \in Orders, order[o].status \in Granted, NEW revoke \in BOOLEAN,
         FinalizeRefund(o, revoke)
  PROVE  BalanceInv'
  <1> DEFINE K == KeptOf(order, revoked)
  <1>1. /\ Rewritten(o) /\ order'[o].status = "refunded" /\ order'[o].window = order[o].window
        /\ revoke => /\ revoked' = revoked \union {o} /\ client'.volume = Monus(client.volume, 1)
                     /\ client'.total = Monus(client.total, order[o].window)
        /\ ~revoke => UNCHANGED <<client, revoked>>
    BY RefundStep
  <1>2. CASE ~revoke
    <2>1. BuysNothing
      BY <1>1 DEF BuysNothing, Bought, Rewritten
    <2> QED
      BY <1>1, <1>2, <2>1, NothingBought
  <1>3. CASE revoke
    <2> DEFINE L == K \ {o}
    <2>1. o \notin revoked
      BY DEF BalanceInv, BalanceFor, Granted
    <2>2. o \in K
      BY <2>1 DEF KeptOf, Bought
    <2>3. KeptOf(order', revoked') = L
      BY <1>1, <1>3, <2>1 DEF KeptOf, Bought, Rewritten
    <2>4. UnitsOf(order', L) = UnitsOf(order, L)
      <3>1. \A p \in L : order'[p] = order[p]
        BY <1>1 DEF KeptOf, Rewritten
      <3> QED
        BY <3>1 DEF UnitsOf
    <2>5. IsFiniteSet(K) /\ IsFiniteSet(UnitsOf(order, K)) /\ Cardinality(K) \in Nat
      BY FS_CardinalityType DEF BalanceInv, BalanceFor
    <2>6. order[o].window \in Nat
      BY DEF TypeOK, OrderRows
    <2> HIDE DEF K, L
    <2>7. K = L \union {o} /\ o \notin L
      BY <2>2 DEF L
    <2>8. /\ IsFiniteSet(L) /\ Cardinality(L) \in Nat /\ Cardinality(K) = Cardinality(L) + 1
      <3>1. IsFiniteSet(L)
        BY <2>5, FS_RemoveElement DEF L
      <3> QED
        BY <3>1, <2>7, FS_AddElement, FS_CardinalityType
    <2>9. /\ IsFiniteSet(UnitsOf(order, L)) /\ Cardinality(UnitsOf(order, L)) \in Nat
          /\ Cardinality(UnitsOf(order, K)) = Cardinality(UnitsOf(order, L)) + order[o].window
      BY <2>5, <2>6, <2>7, UnitsOfMore, FS_CardinalityType
    <2>10. client.volume = BaseVolume + Cardinality(K) /\ client.total = Cardinality(UnitsOf(order, K))
      BY DEF BalanceInv, BalanceFor, K
    <2>11. client'.volume = BaseVolume + Cardinality(L)
      BY <1>1, <1>3, <2>8, <2>10, BoundsAssumption DEF Monus
    <2>12. client'.total = Cardinality(UnitsOf(order, L))
      BY <1>1, <1>3, <2>6, <2>9, <2>10 DEF Monus
    <2>13. \A p \in revoked' : order'[p].status = "refunded"
      BY <1>1, <1>3 DEF BalanceInv, BalanceFor, Rewritten, TypeOK
    <2> QED
      BY <2>3, <2>4, <2>8, <2>9, <2>11, <2>12, <2>13 DEF BalanceInv, BalanceFor
  <1> QED
    BY <1>2, <1>3

(* Rewriting a row that stays unbought. *)
LEMMA Unbought ==
  ASSUME NEW o \in Orders, Rewritten(o), ~Bought(order[o]), ~Bought(order'[o])
  PROVE  BuysNothing
BY DEF BuysNothing, Rewritten, Bought

(* Every step keeps the balance. *)
LEMMA StepBalances ==
  ASSUME IInv, BalanceInv, Next
  PROVE  BalanceInv'
  <1> USE OrderIds DEF IInv
  <1>0. TypeOK
    OBVIOUS
  <1>n. \A s \in {"pending", "failed", "expired", "manual_review", "invoice_creating", "recoverable", None} :
          \A row : row.status = s => ~Bought(row)
    BY NoneIsNoName DEF Bought, Granted
  <1>1. ASSUME UNCHANGED rows PROVE BalanceInv'
    BY <1>1 DEF rows, BalanceInv
  <1>2. ASSUME NEW o \in Telegram, CreateTelegramOrder(o) PROVE BalanceInv'
    <2>1. order[o].status = None /\ UNCHANGED <<client, revoked>> /\ \E s \in {"pending", "failed"} : SetStatus(o, s)
      BY <1>2 DEF CreateTelegramOrder, NextId
    <2>2. Rewritten(o) /\ order'[o].status \in {"pending", "failed"}
      BY <1>0, <2>1, StatusStep DEF Statuses
    <2> QED
      BY <1>0, <1>n, <2>1, <2>2, Unbought, NothingBought
  <1>3. ASSUME NEW o \in Crypto, CreateInvoiceIntent(o) PROVE BalanceInv'
    <2>1. order[o].status = None /\ UNCHANGED <<client, revoked>> /\ SetStatus(o, "invoice_creating")
      BY <1>3 DEF CreateInvoiceIntent, NextId
    <2>2. Rewritten(o) /\ order'[o].status = "invoice_creating"
      BY <1>0, <2>1, StatusStep DEF Statuses, Unresolved
    <2> QED
      BY <1>0, <1>n, <2>1, <2>2, Unbought, NothingBought
  <1>4. ASSUME NEW o \in Crypto, SaveInvoiceResult(o) PROVE BalanceInv'
    <2>1. UNCHANGED <<client, revoked>>
      BY <1>4 DEF SaveInvoiceResult
    <2>2. CASE /\ order[o].status \in {"pending", "invoice_creating"}
               /\ order' = [order EXCEPT ![o].status = "pending", ![o].ref = 1]
      <3>1. order'[o].status = "pending" /\ \A p \in Orders : p # o => order'[p] = order[p]
        BY <1>0, <2>2 DEF TypeOK, OrderRows
      <3>2. BuysNothing
        BY <1>n, <2>2, <3>1 DEF BuysNothing
      <3> QED
        BY <1>0, <2>1, <3>2, NothingBought
    <2>3. CASE order' = order
      BY <1>1, <2>1, <2>3 DEF rows
    <2> QED
      BY <1>4, <2>2, <2>3 DEF SaveInvoiceResult
  <1>5. ASSUME NEW o \in Crypto, MarkInvoiceRecoverable(o) PROVE BalanceInv'
    <2>1. UNCHANGED <<client, revoked>>
      BY <1>5 DEF MarkInvoiceRecoverable
    <2>2. CASE order[o].status = "invoice_creating" /\ SetStatus(o, "recoverable")
      <3>1. Rewritten(o) /\ order'[o].status = "recoverable"
        BY <1>0, <2>2, StatusStep DEF Statuses, Unresolved
      <3> QED
        BY <1>0, <1>n, <2>1, <2>2, <3>1, Unbought, NothingBought
    <2>3. CASE order' = order
      BY <1>1, <2>1, <2>3 DEF rows
    <2> QED
      BY <1>5, <2>2, <2>3 DEF MarkInvoiceRecoverable
  <1>6. ASSUME NEW o \in Orders, ApplyPaidOrder(o) PROVE BalanceInv'
    <2>1. CASE order[o].status = "pending" /\ ~ UNCHANGED rows
      <3>1. /\ Rewritten(o) /\ order'[o].status = "paid" /\ order'[o].window = client.up
            /\ client'.volume = client.volume + 1 /\ client'.total = client.total + client.up /\ revoked' = revoked
        BY <1>0, <1>6, <2>1, ApplyStep
      <3> QED
        BY <1>0, <1>n, <2>1, <3>1, OneBought
    <2> QED
      BY <1>1, <1>6, <2>1 DEF ApplyPaidOrder
  <1>7. ASSUME NEW o \in Orders, order[o].status \in Unresolved \union {"pending"}, UNCHANGED <<client, revoked>>,
               NEW s \in {"expired", "failed", "manual_review"}, SetStatus(o, s)
        PROVE  BalanceInv'
    <2>1. Rewritten(o) /\ order'[o].status = s
      BY <1>0, <1>7, StatusStep DEF Statuses
    <2>2. BuysNothing
      BY <1>n, <1>7, <2>1, Unbought DEF Unresolved
    <2> QED
      BY <1>0, <1>7, <2>2, NothingBought
  <1>8. ASSUME NEW o \in Telegram, HandleSuccessfulPayment(o) PROVE BalanceInv'
    BY <1>1, <1>6, <1>7, <1>8 DEF HandleSuccessfulPayment
  <1>9. CASE ExpireStaleOrders
    <2>1. PICK stale \in SUBSET {o \in Telegram : order[o].status = "pending"} :
            order' = [o \in Orders |-> IF o \in stale THEN [order[o] EXCEPT !.status = "expired"] ELSE order[o]]
      BY <1>9 DEF ExpireStaleOrders
    <2>2. ASSUME NEW o \in Orders
          PROVE  order'[o] = order[o] \/ (order'[o].status = "expired" /\ order[o].status = "pending")
      BY <1>0, <2>1 DEF TypeOK, OrderRows
    <2>3. BuysNothing
      BY <1>n, <2>2 DEF BuysNothing
    <2>4. UNCHANGED <<client, revoked>>
      BY <1>9 DEF ExpireStaleOrders
    <2> QED
      BY <1>0, <2>3, <2>4, NothingBought
  <1>10. ASSUME NEW o \in Crypto, ApplyPollAnswer(o) PROVE BalanceInv'
    <2>1. CASE ApplyPaidOrder(o)
      BY <1>6, <2>1
    <2>2. CASE UNCHANGED rows
      BY <1>1, <2>2
    <2>3. CASE /\ order[o].status \in Unresolved \union {"pending"} /\ UNCHANGED <<client, revoked>>
               /\ \E s \in {"expired", "manual_review"} : SetStatus(o, s)
      BY <1>7, <2>3
    <2> QED
      BY <1>10, <2>1, <2>2, <2>3 DEF ApplyPollAnswer, rows
  <1>11. ASSUME NEW o \in Crypto, RecoverProviderOrder(o) PROVE BalanceInv'
    <2>1. CASE o \in ReconcileWork /\ Recovered(o, poll.answers[o])
      <3>1. ~Bought(order[o]) /\ Rewritten(o)
        BY <1>n, <2>1 DEF ReconcileWork, Unresolved, Recovered
      <3>2. CASE /\ order'[o].status \in {"recoverable", "pending", "expired", "manual_review"}
                 /\ UNCHANGED <<client, revoked>>
        BY <1>0, <1>n, <3>1, <3>2, Unbought, NothingBought
      <3>3. CASE /\ order'[o].status = "paid" /\ order'[o].window = client.up
                 /\ client'.volume = client.volume + 1 /\ client'.total = client.total + client.up
                 /\ revoked' = revoked
        BY <1>0, <3>1, <3>3, OneBought
      <3> QED
        BY <2>1, <3>2, <3>3 DEF Recovered
    <2>2. CASE Recover(o, poll.answers[o])
      BY <1>0, <1>1, <2>1, <2>2, RecoverStep
    <2>3. CASE o \in ReconcileWork /\ SetStatus(o, "manual_review") /\ UNCHANGED <<client, revoked, cancel>>
      BY <1>7, <2>3 DEF ReconcileWork
    <2> QED
      BY <1>1, <1>11, <2>2, <2>3 DEF RecoverProviderOrder
  <1>12. ASSUME NEW f \in Refunders, FinalizeClaimedRefund(f) PROVE BalanceInv'
    <2>1. refund[f].order \in Orders /\ order[refund[f].order].revoke \in BOOLEAN
      BY <1>12 DEF FinalizeClaimedRefund, RefundInv, TypeOK, OrderRows
    <2>2. CASE Claims(f, refund[f].order) /\ FinalizeRefund(refund[f].order, order[refund[f].order].revoke)
      BY <1>0, <2>1, <2>2, OneRefunded DEF Claims, Granted
    <2> QED
      BY <1>1, <1>12, <2>2 DEF FinalizeClaimedRefund
  <1>13. ASSUME NEW f \in Refunders, ReleaseRefundClaim(f) PROVE BalanceInv'
    <2>1. UNCHANGED <<client, revoked>> /\ refund[f].order \in Orders
      BY <1>13 DEF ReleaseRefundClaim, RefundInv
    <2>2. CASE order' = [order EXCEPT ![refund[f].order].claim = None]
      <3>1. \A o \in Orders : order'[o].status = order[o].status /\ order'[o].window = order[o].window
        BY <1>0, <2>1, <2>2 DEF TypeOK, OrderRows
      <3>2. BuysNothing
        BY <3>1 DEF BuysNothing, Bought
      <3> QED
        BY <1>0, <2>1, <3>2, NothingBought
    <2> QED
      BY <1>1, <1>13, <2>1, <2>2 DEF ReleaseRefundClaim, rows
  <1>14. ASSUME NEW f \in Refunders, NEW o \in Stars, NEW revoke \in BOOLEAN, ClaimStarsRefund(f, o, revoke)
         PROVE  BalanceInv'
    <2>1. UNCHANGED <<client, revoked>>
      BY <1>14 DEF ClaimStarsRefund
    <2>2. /\ Rewritten(o) /\ order[o].status \in {"paid", "refund_pending"} /\ order'[o].status = "refund_pending"
          /\ order'[o].window = order[o].window
      BY <1>0, <1>14, ClaimStep
    <2>3. BuysNothing
      BY <2>2 DEF BuysNothing, Bought, Granted, Rewritten
    <2> QED
      BY <1>0, <2>1, <2>3, NothingBought
  <1>15. ASSUME NEW o \in Orders \ Stars, NEW revoke \in BOOLEAN, FinalizeLocalRefund(o, revoke) PROVE BalanceInv'
    BY <1>0, <1>15, OneRefunded DEF FinalizeLocalRefund, Granted
  <1>16. CASE Use
    <2>1. order' = order /\ revoked' = revoked /\ client'.volume = client.volume /\ client'.total = client.total
      BY <1>0, <1>16 DEF Use, TypeOK, Clients
    <2> QED
      BY <2>1 DEF BalanceInv, BalanceFor
  <1>17. ASSUME NEW o \in Telegram, PreCheckout(o) PROVE BalanceInv'
    BY <1>1, <1>17 DEF PreCheckout
  <1>18. ASSUME NEW o \in Crypto, CreateInvoice(o) PROVE BalanceInv'
    BY <1>1, <1>18 DEF CreateInvoice
  <1>19. ASSUME NEW o \in Crypto, NEW i \in Invoices, InvoiceIsPaid(o, i) \/ InvoiceEnds(o, i) PROVE BalanceInv'
    BY <1>1, <1>19 DEF InvoiceIsPaid, InvoiceEnds
  <1>20. ASSUME NEW c \in cancel, CancelInvoice(c) PROVE BalanceInv'
    BY <1>1, <1>20 DEF CancelInvoice
  <1>21. ASSUME NEW f \in Refunders, RefundStarPayment(f) PROVE BalanceInv'
    BY <1>1, <1>21 DEF RefundStarPayment
  <1>22. ASSUME FetchUpdates \/ StoreOffset \/ PollProvider \/ Reconcile \/ Crash PROVE BalanceInv'
    BY <1>1, <1>22 DEF FetchUpdates, StoreOffset, PollProvider, Reconcile, Crash
  <1> QED
    BY <1>2, <1>3, <1>4, <1>5, <1>8, <1>9, <1>10, <1>11, <1>12, <1>13, <1>14, <1>15, <1>16, <1>17, <1>18,
       <1>19, <1>20, <1>21, <1>22 DEF Next, BotSteps, PollSteps

(* The quota and the totals of the client are those of its orders: no       *)
(* confirmation, recovery or refund of any number of orders counts twice or *)
(* not at all, whatever is repeated, races or fails half-way.               *)
THEOREM OrdersBalance == Spec => []BalanceMatchesOrders
  <1>1. Init => BalanceInv
    <2> SUFFICES ASSUME Init PROVE BalanceInv
      OBVIOUS
    <2>1. KeptOf(order, revoked) = {}
      BY NoneIsNoName DEF Init, NoOrder, KeptOf, Bought, Granted
    <2>2. UnitsOf(order, {}) = {}
      BY DEF UnitsOf
    <2>3. revoked = {} /\ client = [volume |-> BaseVolume, up |-> 0, total |-> 0]
      BY DEF Init
    <2> QED
      BY <2>1, <2>2, <2>3, FS_EmptySet, BoundsAssumption DEF BalanceInv, BalanceFor
  <1>2. IInv /\ BalanceInv /\ [Next]_vars => BalanceInv'
    <2>1. BalanceInv /\ UNCHANGED vars => BalanceInv'
      BY DEF vars, outside, BalanceInv
    <2> QED
      BY <2>1, StepBalances
  <1>3. BalanceInv => BalanceMatchesOrders
    BY DEF BalanceInv, BalanceFor, BalanceMatchesOrders, KeptOf, UnitsOf, Bought
  <1> QED
    BY <1>1, <1>2, <1>3, OrdersInvariant, PTL DEF Spec


-----------------------------------------------------------------------------

Open == {"pending", "invoice_creating", "recoverable", None}
Closed == {"failed", "expired", "manual_review"}

(* The purchase of a row is told by its status. *)
LEMMA PurchaseOf ==
  \A o \in Orders :
    /\ order[o].status \in Open => Purchase(o) = "open"
    /\ order[o].status \in Closed => Purchase(o) = "closed"
    /\ order[o].status \in Granted => Purchase(o) = "granted"
    /\ order[o].status = "refunded" => Purchase(o) = "returned"
BY NoneIsNoName DEF Purchase, Open, Closed, Granted

LEMMA PurchaseOfNext ==
  \A o \in Orders :
    /\ order'[o].status \in Open => Purchase(o)' = "open"
    /\ order'[o].status \in Closed => Purchase(o)' = "closed"
    /\ order'[o].status \in Granted => Purchase(o)' = "granted"
    /\ order'[o].status = "refunded" => Purchase(o)' = "returned"
BY NoneIsNoName DEF Purchase, Open, Closed, Granted

Purchased == [o \in Orders |-> Purchase(o)]
LedgerStutters == UNCHANGED <<Purchased, client.volume>>

(* Rows that keep their purchase are a stutter of the ledger. *)
LEMMA SamePurchases ==
  ASSUME \A o \in Orders : Purchase(o)' = Purchase(o), client'.volume = client.volume
  PROVE  LedgerStutters
BY DEF LedgerStutters, Purchased

LEMMA SameStatuses ==
  ASSUME \A o \in Orders : order'[o].status = order[o].status, client'.volume = client.volume
  PROVE  LedgerStutters
  <1>1. \A o \in Orders : Purchase(o)' = Purchase(o)
    BY DEF Purchase
  <1> QED
    BY <1>1, SamePurchases

(* What rewriting one row is to the ledger. *)
LEMMA RowMaps ==
  ASSUME NEW o \in Orders, Rewritten(o)
  PROVE  /\ Purchase(o) = "open" /\ Purchase(o)' = "granted" /\ client'.volume = client.volume + 1 => Ledger!Next
         /\ Purchase(o) = "granted" /\ Purchase(o)' = "returned"
              /\ client'.volume \in {client.volume, client.volume - 1}
              => Ledger!Next
         /\ Purchase(o) = "open" /\ Purchase(o)' = "closed" /\ client'.volume = client.volume => Ledger!Next
         /\ Purchase(o)' = Purchase(o) /\ client'.volume = client.volume => LedgerStutters
  <1>1. \A p \in Orders : p # o => Purchase(p)' = Purchase(p)
    BY DEF Rewritten, Purchase
  <1>2. ASSUME Purchase(o) = "open", Purchase(o)' = "granted", client'.volume = client.volume + 1
        PROVE  Ledger!Grant(o)
    BY <1>1, <1>2 DEF Ledger!Grant
  <1>3. ASSUME Purchase(o) = "granted", Purchase(o)' = "returned",
               client'.volume \in {client.volume, client.volume - 1}
        PROVE  Ledger!Return(o)
    BY <1>1, <1>3 DEF Ledger!Return
  <1>4. ASSUME Purchase(o) = "open", Purchase(o)' = "closed", client'.volume = client.volume
        PROVE  Ledger!Close({o})
    BY <1>1, <1>4 DEF Ledger!Close
  <1>5. ASSUME Purchase(o)' = Purchase(o), client'.volume = client.volume
        PROVE  LedgerStutters
    BY <1>1, <1>5, SamePurchases
  <1>6. {o} \in SUBSET Orders
    OBVIOUS
  <1> QED
    BY <1>2, <1>3, <1>4, <1>5, <1>6 DEF Ledger!Next

(* Every step of the panel, of its payers and of its faults is a step of    *)
(* the ledger or none.                                                      *)
LEMMA StepMaps ==
  ASSUME IInv, Next
  PROVE  Ledger!Next \/ LedgerStutters
  <1> USE OrderIds, PurchaseOf, PurchaseOfNext DEF IInv, Open, Closed, Granted
  <1>0. TypeOK
    OBVIOUS
  <1>1. CASE UNCHANGED <<order, client>>
    BY <1>1, SameStatuses
  <1>2. ASSUME NEW o \in Telegram, CreateTelegramOrder(o) PROVE Ledger!Next \/ LedgerStutters
    <2>1. order[o].status = None /\ client' = client /\ \E s \in {"pending", "failed"} : SetStatus(o, s)
      BY <1>2 DEF CreateTelegramOrder, NextId
    <2>2. Rewritten(o) /\ order'[o].status \in {"pending", "failed"}
      BY <1>0, <2>1, StatusStep DEF Statuses
    <2> QED
      BY <2>1, <2>2, RowMaps
  <1>3. ASSUME NEW o \in Crypto, CreateInvoiceIntent(o) PROVE Ledger!Next \/ LedgerStutters
    <2>1. order[o].status = None /\ client' = client /\ SetStatus(o, "invoice_creating")
      BY <1>3 DEF CreateInvoiceIntent, NextId
    <2>2. Rewritten(o) /\ order'[o].status = "invoice_creating"
      BY <1>0, <2>1, StatusStep DEF Statuses, Unresolved
    <2> QED
      BY <2>1, <2>2, RowMaps
  <1>4. ASSUME NEW o \in Crypto, SaveInvoiceResult(o) PROVE Ledger!Next \/ LedgerStutters
    <2>1. client' = client
      BY <1>4 DEF SaveInvoiceResult
    <2>2. CASE /\ order[o].status \in {"pending", "invoice_creating"}
               /\ order' = [order EXCEPT ![o].status = "pending", ![o].ref = 1]
      <3>1. order'[o].status = "pending" /\ \A p \in Orders : p # o => order'[p] = order[p]
        BY <1>0, <2>2 DEF TypeOK, OrderRows
      <3>2. \A p \in Orders : Purchase(p)' = Purchase(p)
        BY <2>2, <3>1 DEF Purchase
      <3> QED
        BY <2>1, <3>2, SamePurchases
    <2>3. CASE order' = order
      BY <2>1, <2>3, SameStatuses
    <2> QED
      BY <1>4, <2>2, <2>3 DEF SaveInvoiceResult
  <1>5. ASSUME NEW o \in Crypto, MarkInvoiceRecoverable(o) PROVE Ledger!Next \/ LedgerStutters
    <2>1. client' = client
      BY <1>5 DEF MarkInvoiceRecoverable
    <2>2. CASE order[o].status = "invoice_creating" /\ SetStatus(o, "recoverable")
      <3>1. Rewritten(o) /\ order'[o].status = "recoverable"
        BY <1>0, <2>2, StatusStep DEF Statuses, Unresolved
      <3> QED
        BY <2>1, <2>2, <3>1, RowMaps
    <2>3. CASE order' = order
      BY <2>1, <2>3, SameStatuses
    <2> QED
      BY <1>5, <2>2, <2>3 DEF MarkInvoiceRecoverable
  <1>6. ASSUME NEW o \in Telegram, HandleSuccessfulPayment(o) PROVE Ledger!Next \/ LedgerStutters
    <2>1. CASE ApplyPaidOrder(o)
      BY <1>0, <1>1, <2>1, ApplyStep, RowMaps DEF rows
    <2>2. CASE UNCHANGED rows
      BY <1>1, <2>2 DEF rows
    <2>3. CASE /\ order[o].status = "pending" /\ client' = client
               /\ \E s \in {"failed", "manual_review"} : SetStatus(o, s)
      <3>1. Rewritten(o) /\ order'[o].status \in {"failed", "manual_review"}
        BY <1>0, <2>3, StatusStep DEF Statuses
      <3> QED
        BY <2>3, <3>1, RowMaps
    <2> QED
      BY <1>6, <2>1, <2>2, <2>3 DEF HandleSuccessfulPayment
  <1>7. CASE ExpireStaleOrders
    <2>1. PICK stale \in SUBSET {o \in Telegram : order[o].status = "pending"} :
            order' = [o \in Orders |-> IF o \in stale THEN [order[o] EXCEPT !.status = "expired"] ELSE order[o]]
      BY <1>7 DEF ExpireStaleOrders
    <2>2. ASSUME NEW o \in Orders
          PROVE  /\ o \in stale => Purchase(o) = "open" /\ Purchase(o)' = "closed"
                 /\ o \notin stale => Purchase(o)' = Purchase(o)
      <3>1. o \in stale => order'[o].status = "expired" /\ order[o].status = "pending"
        BY <1>0, <2>1 DEF TypeOK, OrderRows
      <3>2. o \notin stale => order'[o] = order[o]
        BY <2>1
      <3> QED
        BY <3>1, <3>2 DEF Purchase
    <2>3. client' = client /\ stale \in SUBSET Orders
      BY <1>7, <2>1 DEF ExpireStaleOrders
    <2>4. Ledger!Close(stale)
      BY <2>2, <2>3 DEF Ledger!Close
    <2> QED
      BY <2>3, <2>4 DEF Ledger!Next
  <1>8. ASSUME NEW o \in Crypto, ApplyPollAnswer(o) PROVE Ledger!Next \/ LedgerStutters
    <2>1. CASE ApplyPaidOrder(o)
      BY <1>0, <1>1, <2>1, ApplyStep, RowMaps DEF rows
    <2>2. CASE UNCHANGED rows
      BY <1>1, <2>2 DEF rows
    <2>3. CASE /\ order[o].status \in Unresolved \union {"pending"} /\ client' = client
               /\ \E s \in {"expired", "manual_review"} : SetStatus(o, s)
      <3>1. Rewritten(o) /\ order'[o].status \in {"expired", "manual_review"}
        BY <1>0, <2>3, StatusStep DEF Statuses
      <3> QED
        BY <2>3, <3>1, RowMaps DEF Unresolved
    <2> QED
      BY <1>8, <2>1, <2>2, <2>3 DEF ApplyPollAnswer, rows
  <1>9. ASSUME NEW o \in Crypto, RecoverProviderOrder(o) PROVE Ledger!Next \/ LedgerStutters
    <2>1. UNCHANGED <<rows, cancel>> \/ (o \in ReconcileWork /\ Recovered(o, poll.answers[o]))
      <3>1. CASE Recover(o, poll.answers[o])
        BY <1>0, <3>1, RecoverStep
      <3>2. CASE o \in ReconcileWork /\ SetStatus(o, "manual_review") /\ UNCHANGED <<client, revoked, cancel>>
        BY <1>0, <3>2, StatusStep DEF Recovered, Statuses
      <3> QED
        BY <1>9, <3>1, <3>2 DEF RecoverProviderOrder
    <2>2. CASE o \in ReconcileWork /\ Recovered(o, poll.answers[o])
      <3>1. Purchase(o) = "open"
        BY <2>2 DEF ReconcileWork, Unresolved
      <3>2. Rewritten(o)
        BY <2>2 DEF Recovered
      <3>3. \/ order'[o].status \in {"recoverable", "pending", "expired", "manual_review"} /\ client' = client
            \/ order'[o].status = "paid" /\ client'.volume = client.volume + 1
        BY <2>2 DEF Recovered
      <3> QED
        BY <3>1, <3>2, <3>3, RowMaps
    <2> QED
      BY <1>1, <2>1, <2>2 DEF rows
  <1>10. ASSUME NEW f \in Refunders, FinalizeClaimedRefund(f) PROVE Ledger!Next \/ LedgerStutters
    <2>1. refund[f].order \in Orders /\ order[refund[f].order].revoke \in BOOLEAN
      BY <1>10 DEF FinalizeClaimedRefund, RefundInv, TypeOK, OrderRows
    <2>2. CASE Claims(f, refund[f].order) /\ FinalizeRefund(refund[f].order, order[refund[f].order].revoke)
      <3>1. /\ Rewritten(refund[f].order) /\ order'[refund[f].order].status = "refunded"
            /\ client'.volume \in {client.volume, client.volume - 1}
        BY <1>0, <2>1, <2>2, RefundStep
      <3> QED
        BY <2>1, <2>2, <3>1, RowMaps DEF Claims
    <2> QED
      BY <1>1, <1>10, <2>2 DEF FinalizeClaimedRefund, rows
  <1>11. ASSUME NEW f \in Refunders, ReleaseRefundClaim(f) PROVE Ledger!Next \/ LedgerStutters
    <2>1. client' = client /\ refund[f].order \in Orders
      BY <1>11 DEF ReleaseRefundClaim, RefundInv
    <2>2. CASE order' = [order EXCEPT ![refund[f].order].claim = None]
      <3>1. \A o \in Orders : order'[o].status = order[o].status
        BY <1>0, <2>1, <2>2 DEF TypeOK, OrderRows
      <3> QED
        BY <2>1, <3>1, SameStatuses
    <2> QED
      BY <1>1, <1>11, <2>1, <2>2 DEF ReleaseRefundClaim
  <1>12. ASSUME NEW f \in Refunders, NEW o \in Stars, NEW revoke \in BOOLEAN, ClaimStarsRefund(f, o, revoke)
         PROVE  Ledger!Next \/ LedgerStutters
    <2>1. client' = client /\ order[o].status \in {"paid", "refund_pending"}
      BY <1>12 DEF ClaimStarsRefund
    <2>2. Rewritten(o) /\ order'[o].status = "refund_pending"
      BY <1>0, <1>12, ClaimStep
    <2> QED
      BY <2>1, <2>2, RowMaps
  <1>13. ASSUME NEW o \in Orders \ Stars, NEW revoke \in BOOLEAN, FinalizeLocalRefund(o, revoke)
         PROVE  Ledger!Next \/ LedgerStutters
    <2>1. order[o].status = "paid" /\ FinalizeRefund(o, revoke)
      BY <1>13 DEF FinalizeLocalRefund
    <2>2. Rewritten(o) /\ order'[o].status = "refunded" /\ client'.volume \in {client.volume, client.volume - 1}
      BY <1>0, <2>1, RefundStep
    <2> QED
      BY <2>1, <2>2, RowMaps
  <1>14. CASE Use
    <2>1. order' = order /\ client'.volume = client.volume
      BY <1>0, <1>14 DEF Use, TypeOK, Clients
    <2> QED
      BY <2>1, SameStatuses
  <1>15. ASSUME NEW o \in Telegram, PreCheckout(o) PROVE UNCHANGED <<order, client>>
    BY <1>15 DEF PreCheckout, rows
  <1>16. ASSUME NEW o \in Crypto, CreateInvoice(o) PROVE UNCHANGED <<order, client>>
    BY <1>16 DEF CreateInvoice, rows
  <1>17. ASSUME NEW o \in Crypto, NEW i \in Invoices, InvoiceIsPaid(o, i) \/ InvoiceEnds(o, i)
         PROVE  UNCHANGED <<order, client>>
    BY <1>17 DEF InvoiceIsPaid, InvoiceEnds, rows
  <1>18. ASSUME NEW c \in cancel, CancelInvoice(c) PROVE UNCHANGED <<order, client>>
    BY <1>18 DEF CancelInvoice, rows
  <1>19. ASSUME NEW f \in Refunders, RefundStarPayment(f) PROVE UNCHANGED <<order, client>>
    BY <1>19 DEF RefundStarPayment, rows
  <1>20. ASSUME FetchUpdates \/ StoreOffset \/ PollProvider \/ Reconcile \/ Crash PROVE UNCHANGED <<order, client>>
    BY <1>20 DEF FetchUpdates, StoreOffset, PollProvider, Reconcile, Crash, rows
  <1> QED
    BY <1>1, <1>2, <1>3, <1>4, <1>5, <1>6, <1>7, <1>8, <1>9, <1>10, <1>11, <1>12, <1>13, <1>14,
       <1>15, <1>16, <1>17, <1>18, <1>19, <1>20 DEF Next, BotSteps, PollSteps

(* Concurrent confirmations, polls, recoveries and refunds of any number of *)
(* orders grant each purchase at most once and take it back at most once.   *)
THEOREM OrdersAreALedger == Spec => LedgerSpec
  <1>1. Init => Ledger!Init
    <2> SUFFICES ASSUME Init PROVE Ledger!Init
      OBVIOUS
    <2>1. client.volume = BaseVolume /\ \A o \in Orders : order[o].status = None
      BY DEF Init, NoOrder
    <2>2. \A o \in Orders : Purchase(o) = "open"
      BY <2>1, PurchaseOf DEF Open
    <2> QED
      BY <2>1, <2>2 DEF Ledger!Init
  <1>2. IInv /\ [Next]_vars => [Ledger!Next]_<<Purchased, client.volume>>
    <2>1. ASSUME UNCHANGED vars PROVE LedgerStutters
      <3>1. \A o \in Orders : Purchase(o)' = Purchase(o)
        BY <2>1 DEF vars, outside, Purchase
      <3> QED
        BY <2>1, <3>1, SamePurchases DEF vars, outside
    <2> QED
      BY <2>1, StepMaps DEF LedgerStutters
  <1> QED
    BY <1>1, <1>2, OrdersInvariant, PTL DEF Spec, LedgerSpec, Ledger!Spec, Purchased
=============================================================================
